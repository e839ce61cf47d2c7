---------------------------- MODULE EventPipeline ----------------------------
(***************************************************************************)
(* A collecting process: the task that handles raw chain logs              *)
(* (apps/engine/src/pipeline.rs), the 250 ms tick that hands snapshots to  *)
(* research (live.rs), the state engine they share, and the Postgres rows  *)
(* that survive the process.                                               *)
(*                                                                         *)
(* Each database statement is a step: the process may crash between two    *)
(* of them, the other task may run between them, and a write may fail or   *)
(* commit and lose its reply.  Logs arrive in any order, because several   *)
(* collectors and chains share one channel, a backfill runs beside the     *)
(* live stream, and a discovery ranks before the trades of its own block.  *)
(*                                                                         *)
(* Abstracted: what a log decodes to is a constant; a redelivered log, an  *)
(* early return that changes nothing, is a stutter; market registration,   *)
(* checkpoints, current-state rows and channels that nothing here reads    *)
(* back are left out.  mark_removed is called by tests only.               *)
(***************************************************************************)
EXTENDS StateEngine

CONSTANTS
  Raws,         \* raw logs, by event id: (chain, transaction, log index)
  Decode,       \* the canonical events of each log
  Discoveries,  \* the events that are TokenDiscovered
  Started,      \* when the experiment started
  MaxTime,      \* bound: the wall clock
  MaxFaults     \* bound: storage errors, lost replies and crashes

ASSUME DecodeAssumption == Decode \in [Raws -> Seq(Events)]
(* No event comes from two places: StateOrder ends with the event id, and  *)
(* the two events of a creating log differ in kind and order.              *)
ASSUME DistinctAssumption ==
  \A r, q \in Raws : \A i \in DOMAIN Decode[r], j \in DOMAIN Decode[q] :
    Decode[r][i] = Decode[q][j] => r = q /\ i = j
ASSUME DiscoveriesAssumption == Discoveries \subseteq Events
ASSUME PipelineBoundsAssumption ==
  Started \in Nat /\ MaxTime \in Nat /\ MaxFaults \in Nat

VARIABLES
  \* Postgres.
  raw,        \* raw_events: decoder or canonical status of each log
  observed_at, \* when the log of each discovery was observed
  canon,      \* token_discovered, token_trades and lifecycle_events
  rows,       \* tokens whose milestone row is not superseded
  \* The process.
  engine,     \* the state engine, behind its mutex
  pc,         \* where the pipeline task stands
  job,        \* locals of handle and of rebuild_token_state
  hand,       \* snapshots the tick has taken
  stored,     \* the snapshot in persist_and_research
  \* Observers and bounds.
  researched, \* snapshots that reached research
  twice,      \* tokens whose milestone reached it twice for one origin
  diverted,   \* snapshots a rebuild took
  excused,    \* tokens rebuilt by the pipeline, or without a milestone row
  removed,    \* logs whose removal was delivered
  now,        \* wall clock
  faults,
  healthy     \* no fault so far

db       == <<raw, observed_at, canon, rows>>
tick     == <<hand, stored>>
ghosts   == <<researched, twice, diverted, excused, removed>>
bounds   == <<now, faults, healthy>>
vars     == <<db, engine, pc, job, tick, ghosts, bounds>>

RawStatuses == {"NONE", "PENDING", "SUCCESS", "UNKNOWN", "ORPHANED"}

(* log and rest: the log being handled and its events still to apply; keys *)
(* and key: tokens to rebuild; loaded and taken: events loaded for a       *)
(* rebuild and snapshots it returned.                                      *)
Job == [log : Raws \cup {"none"}, rest : Seq(Events), keys : SUBSET Tokens,
        key : Tokens \cup {"none"}, loaded : SUBSET Events,
        taken : SUBSET Snapshots]
NoJob == [log |-> "none", rest |-> <<>>, keys |-> {}, key |-> "none",
          loaded |-> {}, taken |-> {}]

Labels == {"down", "hydrate", "idle", "orphan", "apply", "load", "build",
           "insert", "store"}

TypeOK ==
  /\ raw \in [Raws -> RawStatuses]
  /\ observed_at \in [Discoveries -> 0 .. MaxTime]
  /\ canon \subseteq Events /\ rows \subseteq Tokens
  /\ engine \in Engine
  /\ \A t \in Tokens : engine.tokens[t].held <=> engine.tokens[t].applied # <<>>
  /\ pc \in Labels /\ job \in Job
  /\ pc \in {"apply", "store"} => job.rest # <<>>
  /\ hand \subseteq Snapshots
  /\ stored \subseteq Snapshots /\ Cardinality(stored) <= 1
  /\ researched \subseteq Snapshots /\ diverted \subseteq Snapshots
  /\ twice \subseteq Tokens /\ excused \subseteq Tokens
  /\ removed \subseteq Raws
  /\ now \in 0 .. MaxTime /\ faults \in 0 .. MaxFaults /\ healthy \in BOOLEAN

Init ==
  /\ raw = [r \in Raws |-> "NONE"]
  /\ observed_at = [d \in Discoveries |-> 0] /\ canon = {} /\ rows = {}
  /\ engine = NewEngine /\ pc = "down" /\ job = NoJob
  /\ hand = {} /\ stored = {}
  /\ researched = {} /\ twice = {} /\ diverted = {} /\ excused = {}
  /\ removed = {}
  /\ now = 0 /\ faults = 0 /\ healthy = TRUE

-----------------------------------------------------------------------------
(* Helpers. *)

NoFault == UNCHANGED <<faults, healthy>>
Fault   == /\ faults < MaxFaults
           /\ faults' = faults + 1 /\ healthy' = FALSE

Goto(label, locals) == pc' = label /\ job' = locals
Idle == Goto("idle", NoJob)

Of(t)      == {e \in Events : TokenOf[e] = t}
Applied(t) == ToSet(engine.tokens[t].applied)
TokensOf(S) == {s[1] : s \in S}
EventsOf(r) == ToSet(Decode[r])

-----------------------------------------------------------------------------
(* A log arrives. *)

Fresh_Always(r) == TRUE                                           \* mutant
Fresh(r) == raw[r] = "NONE"

OnChain(r) == \A e \in EventsOf(r) : TimeOf[e] <= now

(* A log that was not stored before is stored and decoded; if the insert   *)
(* reports an error the log is dropped, even when its row was committed.   *)
insert_raw(r) ==
  /\ pc = "idle" /\ OnChain(r) /\ Fresh(r)
  /\ \/ /\ NoFault /\ Decode[r] # <<>>
        /\ raw' = [raw EXCEPT ![r] = "PENDING"]
        /\ Goto("apply", [NoJob EXCEPT !.log = r, !.rest = Decode[r]])
     \/ /\ NoFault /\ Decode[r] = <<>>
        /\ raw' = [raw EXCEPT ![r] = "UNKNOWN"] /\ Idle
     \/ Fault /\ Idle /\ raw' \in {raw, [raw EXCEPT ![r] = "PENDING"]}
  /\ observed_at' = [d \in Discoveries |->
                      IF d \in EventsOf(r) THEN now ELSE observed_at[d]]
  /\ UNCHANGED <<canon, rows, engine, tick, ghosts, now>>

(* A removed log has the id of the log it removes: it only gets past the   *)
(* insert when that one was never stored.                                  *)
insert_removed(r) ==
  /\ pc = "idle" /\ OnChain(r)
  /\ removed' = removed \cup {r}
  /\ IF Fresh(r)
     THEN \/ /\ NoFault /\ raw' = [raw EXCEPT ![r] = "PENDING"]
             /\ Goto("orphan", [NoJob EXCEPT !.log = r])
          \/ Fault /\ Idle /\ raw' \in {raw, [raw EXCEPT ![r] = "PENDING"]}
     ELSE NoFault /\ UNCHANGED <<raw, pc, job>>
  /\ UNCHANGED <<observed_at, canon, rows, engine, tick, researched, twice,
                 diverted, excused, now>>

mark_orphaned ==
  /\ pc = "orphan" /\ Idle
  /\ \/ NoFault /\ raw' = [raw EXCEPT ![job.log] = "ORPHANED"]
     \/ Fault /\ raw' \in {raw, [raw EXCEPT ![job.log] = "ORPHANED"]}
  /\ UNCHANGED <<observed_at, canon, rows, engine, tick, ghosts, now>>

-----------------------------------------------------------------------------
(* One event: apply_state, the rebuilds it asks for, then its own row. *)

NextKey(keys) == Goto(IF keys = {} THEN "store" ELSE "load",
                      [job EXCEPT !.keys = keys, !.key = "none",
                                  !.loaded = {}, !.taken = {}])

apply_state ==
  LET pushed == push_event(engine, Head(job.rest))
  IN /\ pc = "apply"
     /\ engine' = [pushed EXCEPT !.rebuilds = {}]
     /\ NextKey(pushed.rebuilds)
     /\ UNCHANGED <<db, tick, ghosts, bounds>>

(* The rows of the token's snapshots are superseded and its events loaded; *)
(* an error gives the token up, and its key is no longer pending.          *)
load_token(t) ==
  LET keys == job.keys \ {t}
  IN /\ pc = "load" /\ t \in job.keys
     /\ \/ /\ NoFault /\ rows' = rows \ {t}
           /\ Goto("build", [job EXCEPT !.keys = keys, !.key = t,
                                        !.loaded = canon \cap Of(t)])
        \/ Fault /\ NextKey(keys) /\ rows' \in {rows, rows \ {t}}
     /\ excused' = excused \cup {t}
     /\ UNCHANGED <<raw, observed_at, canon, engine, tick, researched, twice,
                    diverted, removed, now>>

rebuild_token_state ==
  LET rebuilt == rebuild_token(engine, job.key, job.loaded)
  IN /\ pc = "build"
     /\ engine' = rebuilt.engine
     /\ diverted' = diverted \cup rebuilt.snaps
     /\ IF rebuilt.snaps = {} THEN NextKey(job.keys)
        ELSE Goto("insert", [job EXCEPT !.taken = rebuilt.snaps])
     /\ UNCHANGED <<db, tick, researched, twice, excused, removed, bounds>>

(* What the rebuild returned is stored; the first error skips the rest. *)
insert_rebuilt ==
  /\ pc = "insert" /\ NextKey(job.keys)
  /\ \E written \in SUBSET job.taken :
       /\ IF written = job.taken THEN NoFault ELSE Fault
       /\ rows' = rows \cup TokensOf(written)
       /\ excused' = excused \cup TokensOf(job.taken \ written)
  /\ UNCHANGED <<raw, observed_at, canon, engine, tick, researched, twice,
                 diverted, removed, now>>

(* mark_decoder, then the canonical row.  An error drops the log's other   *)
(* events.                                                                 *)
store_event ==
  LET e     == Head(job.rest)
      marked == [raw EXCEPT ![job.log] = "SUCCESS"]
      left  == Tail(job.rest)
  IN /\ pc = "store"
     /\ \/ /\ NoFault /\ raw' = marked /\ canon' = canon \cup {e}
           /\ IF left = <<>> THEN Idle
              ELSE Goto("apply", [job EXCEPT !.rest = left])
        \/ /\ Fault /\ Idle
           /\ \/ UNCHANGED <<raw, canon>>
              \/ raw' = marked /\ canon' \in {canon, canon \cup {e}}
     /\ UNCHANGED <<observed_at, rows, engine, tick, ghosts, now>>

-----------------------------------------------------------------------------
(* The tick. *)

live_tick ==
  LET ticked == tick_live(engine, now)
  IN /\ pc \notin {"down", "hydrate"} /\ hand = {} /\ stored = {}
     /\ engine' = ticked.engine /\ hand' = ticked.snaps
     /\ UNCHANGED <<db, pc, job, stored, ghosts, bounds>>

persist_snapshot(s) ==
  /\ s \in hand /\ stored = {}
  /\ hand' = hand \ {s} /\ stored' = {s}
  /\ \/ NoFault /\ rows' = rows \cup {s[1]} /\ UNCHANGED excused
     \/ Fault /\ UNCHANGED rows /\ excused' = excused \cup {s[1]}
  /\ UNCHANGED <<raw, observed_at, canon, engine, pc, job, researched, twice,
                 diverted, removed, now>>

research ==
  /\ stored # {} /\ stored' = {}
  /\ researched' = researched \cup stored
  /\ twice' = twice \cup TokensOf(stored \cap researched)
  /\ UNCHANGED <<db, engine, pc, job, hand, diverted, excused, removed, bounds>>

-----------------------------------------------------------------------------
(* Crash and start. *)

Crash ==
  /\ pc # "down" /\ Fault
  /\ engine' = NewEngine /\ Goto("down", NoJob)
  /\ hand' = {} /\ stored' = {}
  /\ UNCHANGED <<db, ghosts, now>>

Recent == {t \in Tokens : \E d \in Discoveries \cap canon \cap Of(t) :
                            now - observed_at[d] < ColdAge}

Hydrating(keys) ==
  IF keys = {} THEN Idle ELSE Goto("hydrate", [NoJob EXCEPT !.keys = keys])

Start ==
  /\ pc = "down" /\ Hydrating(Recent)
  /\ UNCHANGED <<db, engine, tick, ghosts, bounds>>

(* mark_already_emitted: a milestone with a row that stands is not emitted *)
(* again.                                                                  *)
AlreadyEmitted_Never(t) == FALSE                                  \* mutant
AlreadyEmitted(t) == t \in rows

Hydrated(t, emitted) ==
  [rebuild_token(engine, t, canon \cap Of(t)).engine
     EXCEPT !.tokens[t].emitted = emitted]

(* Recently discovered tokens get their state back from their stored       *)
(* events.  An error ends the hydration; one that only loses the stored    *)
(* snapshots counts as none stored.                                        *)
hydrate_token(t) ==
  /\ pc = "hydrate" /\ t \in job.keys
  /\ \/ /\ NoFault /\ engine' = Hydrated(t, AlreadyEmitted(t))
        /\ Hydrating(job.keys \ {t}) /\ UNCHANGED excused
     \/ /\ Fault /\ engine' = Hydrated(t, FALSE)
        /\ Hydrating(job.keys \ {t}) /\ excused' = excused \cup {t}
     \/ Fault /\ Idle /\ UNCHANGED <<engine, excused>>
  /\ UNCHANGED <<db, tick, researched, twice, diverted, removed, now>>

pass_time ==
  /\ now < MaxTime /\ now' = now + 1
  /\ UNCHANGED <<db, engine, pc, job, tick, ghosts, faults, healthy>>

-----------------------------------------------------------------------------
Handle == \/ mark_orphaned \/ apply_state \/ rebuild_token_state
          \/ insert_rebuilt \/ store_event
          \/ \E t \in Tokens : load_token(t)
Restore == Start \/ \E t \in Tokens : hydrate_token(t)
Tick   == live_tick \/ research \/ \E s \in Snapshots : persist_snapshot(s)

Next == \/ \E r \in Raws : insert_raw(r) \/ insert_removed(r)
        \/ Handle \/ Restore \/ Tick \/ Crash \/ pass_time

Spec == Init /\ [][Next]_vars

(* The tick runs on, also while the pipeline waits for the database.       *)
FairSpec == Spec /\ WF_vars(Tick)

-----------------------------------------------------------------------------
(* Properties. *)

Held(t) == engine.tokens[t].held

(* No token counts an event twice, whatever is redelivered, rebuilt or     *)
(* hydrated: raw_events rejects a known log, a rebuild starts from an      *)
(* empty state and drops what the buffer still holds.                      *)
AppliedOnce == \A t \in Tokens : IsInjective(engine.tokens[t].applied)

(* A rebuild of one token clears the reorder buffer of all: it is safe     *)
(* because the call that asked for the rebuild has emptied it.             *)
NothingToClear == pc \in {"load", "build", "insert"} => engine.reorder = {}

(* As long as nothing failed, a token that is not cold lags behind its     *)
(* stored events by at most the buffered ones and one more: the event in   *)
(* flight when the token was last rebuilt.                                 *)
Missing(t) == (canon \cap Of(t)) \ (Applied(t) \cup engine.reorder)
Young(t)   == \A e \in canon \cap Of(t) : now - TimeOf[e] < ColdAge
OneBehind ==
  healthy /\ pc = "idle" =>
    \A t \in Tokens : Held(t) /\ Young(t) => Cardinality(Missing(t)) <= 1

(* A stored log that was not removed has its canonical rows, unless        *)
(* something failed: nothing else ends handle early.                       *)
StoredIsDecoded ==
  healthy /\ pc = "idle" =>
    canon = UNION {EventsOf(r) : r \in {x \in Raws : raw[x] = "SUCCESS"}}

(* An emitted milestone of a state is waiting, on its way to research, or  *)
(* there, unless a rebuild took it or its row told a restart so.           *)
MilestoneAccounted ==
  \A t \in Tokens :
    healthy /\ Held(t) /\ engine.tokens[t].emitted =>
      t \in TokensOf(engine.snaps \cup hand \cup stored \cup researched
                     \cup diverted)

(* A milestone reaches research a second time only when the pipeline       *)
(* rebuilt its token or its row was not written or read: a restart between *)
(* any two steps does not repeat it (mark_already_emitted).                *)
RestartRepeatsNothing == twice \subseteq excused

(* A dead token still gets its milestone: as long as nothing fails, what   *)
(* comes of age reaches research or is taken by a rebuild, however the     *)
(* pipeline's rebuilds fall between the steps of the tick.                 *)
DueIsResearched ==
  \A t \in Tokens :
    (/\ pc # "down" /\ Held(t) /\ ~engine.tokens[t].emitted
     /\ Age(engine.tokens[t], now) >= MilestoneAge)
      ~> (t \in TokensOf(researched \cup diverted) \/ ~healthy)

(* What docs and comments of the repository say, and the code does not do. *)

(* docs/state.md: canonical events become a view of their token. *)
StateIsComplete ==
  healthy /\ pc = "idle" =>
    \A t \in Tokens : Held(t) /\ Young(t) => Missing(t) = {}

(* docs/discovery.md: EVM removed=true makes rows orphaned. *)
RemovedIsOrphaned ==
  healthy /\ pc = "idle" => \A r \in removed : raw[r] = "ORPHANED"

(* state/engine.rs: collect leaves snapshots for the tick, so that the     *)
(* FeatureEngine sees every one of them.                                   *)
NothingDiverted == diverted \subseteq researched \cup hand \cup stored

(* tests/phase75a.rs, pre_start_token_never_enters: research never takes   *)
(* a token for one discovered after the start when its discovery, stored   *)
(* and observed before the trade that stands in for it, came earlier.      *)
OldIsNotProspective ==
  \A s \in stored :
    TimeOf[s[2]] >= Started =>
      \A d \in Discoveries \cap canon \cap Of(s[1]) :
        observed_at[d] < TimeOf[s[2]] => TimeOf[d] >= Started
=============================================================================
