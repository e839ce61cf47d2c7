---------------------------- MODULE ExperimentRun ----------------------------
(***************************************************************************)
(* One prospective experiment as the operator's commands and the engine    *)
(* processes see it: its row in strategy_experiments, and the observation  *)
(* intervals that say for which stretches of time its data counts.         *)
(*                                                                         *)
(* A run process executes cmd_start_id_for (lab/pons_run.rs), then the     *)
(* 30 s health tick of collect.rs, which applies lab/observation.rs, until *)
(* it is stopped or crashes.  A command process executes cmd_lock_id,      *)
(* cmd_relock_id or cmd_invalidate_id once.  Each database statement is a  *)
(* step; the payload is read, changed in memory and written back whole.    *)
(*                                                                         *)
(* Abstracted: of the payload only run_status and whether started_at is    *)
(* set; of an interval only its status; timestamps are distinct; audit     *)
(* rows, files, censored outcomes, and the position rows that PaperTrading *)
(* models are left out.  collector_up and the freshness of the last head   *)
(* or log are one flag, since only a head or a log sets either.            *)
(* execution_ok is always the negation of rate_limited, and provider_down  *)
(* is never set, since nothing calls note_provider_down or                 *)
(* note_execution_fail: both are left out.                                 *)
(***************************************************************************)
EXTENDS Naturals, Sequences, FiniteSets

CONSTANTS
  Runs,       \* processes that execute cmd_start_id_for and the collector
  Commands,   \* operator commands, each executed at most once
  MaxFaults,  \* bound: storage errors, lost replies and crashes
  MaxStarts   \* bound: starts of run processes

ASSUME BoundsAssumption == MaxFaults \in Nat /\ MaxStarts \in Nat
ASSUME DistinctAssumption == Runs \cap Commands = {}

VARIABLES
  \* Postgres.
  stored,    \* payload of strategy_experiments
  open,      \* status of the rows with ended_at IS NULL, oldest id first
  credited,  \* what the rows booked VALID were while they were open
  \* Processes.
  pc,        \* where each process stands
  local,     \* locals of the function in progress
  health,    \* ObservationHealth and the curve reader's circuit
  \* Bookkeeping of the model.
  faults, starts,
  clean      \* no fault since this run process started

rows  == <<open, credited>>
vars  == <<stored, rows, pc, local, health, faults, starts, clean>>

Statuses == {"NONE", "LOCKED", "RUNNING", "PAUSED_OPERATIONAL", "INVALIDATED"}
Payload  == [status : Statuses, started : BOOLEAN]
NoRow    == [status |-> "NONE", started |-> FALSE]
Locked   == [status |-> "LOCKED", started |-> FALSE]
Kinds    == {"VALID", "PARTIAL", "INVALID"}

(* copy is a loaded payload; gate is recovered_gate; book and next are    *)
(* what a health tick has decided to close and to open with.               *)
Local   == [copy : Payload, gate : BOOLEAN, book : Kinds, next : Kinds]
NoLocal == [copy |-> NoRow, gate |-> FALSE, book |-> "VALID", next |-> "VALID"]
Loaded(payload) == [NoLocal EXCEPT !.copy = payload]

(* seen: the collector is up and its last head or log is not stale;        *)
(* reason: last_reason as an interval status, "NONE" before any tick.      *)
Health == [seen : BOOLEAN, limited : BOOLEAN, circuit : BOOLEAN,
           reason : Kinds \cup {"NONE"}]
NewHealth == [seen |-> FALSE, limited |-> FALSE, circuit |-> FALSE,
              reason |-> "NONE"]

Starting == {"load", "lock", "lock_save", "audit", "restart", "open", "save"}
Ticking  == {"running", "apply", "close", "reopen"}
Ending   == {"bounded", "reload", "pause"}
RunLabels     == {"down"} \cup Starting \cup Ticking \cup Ending
CommandLabels == {"ready", "lock", "lock_save", "void", "invalidate", "done"}

TypeOK ==
  /\ stored \in Payload
  /\ open \in Seq(Kinds) /\ credited \subseteq Kinds
  /\ DOMAIN pc = Runs \cup Commands
  /\ \A r \in Runs : pc[r] \in RunLabels
  /\ \A c \in Commands : pc[c] \in CommandLabels
  /\ local \in [Runs \cup Commands -> Local]
  /\ health \in [Runs -> Health]
  /\ faults \in 0 .. MaxFaults /\ starts \in 0 .. MaxStarts
  /\ clean \in [Runs -> BOOLEAN]

Init ==
  /\ stored = NoRow /\ open = <<>> /\ credited = {}
  /\ pc = [p \in Runs \cup Commands |-> IF p \in Runs THEN "down" ELSE "ready"]
  /\ local = [p \in Runs \cup Commands |-> NoLocal]
  /\ health = [r \in Runs |-> NewHealth]
  /\ faults = 0 /\ starts = 0
  /\ clean = [r \in Runs |-> TRUE]

-----------------------------------------------------------------------------
(* Control flow, statements, and how they fail. *)

Jump(p, label, l) == /\ pc' = [pc EXCEPT ![p] = label]
                     /\ local' = [local EXCEPT ![p] = l]
Goto(p, label, l) == Jump(p, label, l) /\ UNCHANGED health
Quit(p) == /\ Jump(p, IF p \in Runs THEN "down" ELSE "done", NoLocal)
           /\ health' = [r \in Runs |-> IF r = p THEN NewHealth ELSE health[r]]

NoFault  == UNCHANGED <<faults, clean>>
Fault(p) == /\ faults < MaxFaults /\ faults' = faults + 1
            /\ clean' = [r \in Runs |-> clean[r] /\ r # p]

(* UPDATE ... WHERE ended_at IS NULL closes every open row. *)
CloseOpen_OnlyValid(kind) ==                                      \* mutant
  /\ credited' = credited \cup {was \in {"VALID"} : kind = "VALID"}
  /\ open' = SelectSeq(open, LAMBDA was : was # "VALID")
CloseOpen(kind) ==
  /\ credited' = credited \cup {was \in Kinds : /\ kind = "VALID"
                                                /\ \E i \in DOMAIN open : open[i] = was}
  /\ open' = <<>>

OpenInterval(kind) == open' = Append(open, kind) /\ UNCHANGED credited

(* `let _ = ...await`: an error, which may hide a commit, is ignored. *)
Ignoring(p, done) == \/ NoFault /\ done
                     \/ Fault(p) /\ (done \/ UNCHANGED rows)

(* `...await?`: an error, which may hide a commit, takes another way. *)
Trying(p, done, undone, next, failed) ==
  \/ NoFault /\ done /\ next
  \/ Fault(p) /\ (done \/ undone) /\ failed

Upsert(p, payload, next) ==
  /\ Trying(p, stored' = payload, UNCHANGED stored, next, Quit(p))
  /\ UNCHANGED <<rows, starts>>

(* SELECT payload: then is what follows with a row, else without one. *)
Load(p, then, else) ==
  /\ \/ stored # NoRow /\ NoFault /\ then
     \/ stored = NoRow /\ NoFault /\ else
     \/ Fault(p) /\ Quit(p)
  /\ UNCHANGED <<stored, rows, starts>>

-----------------------------------------------------------------------------
(* cmd_lock_id, also called by the start and the relock commands. *)

AfterLock(p, payload) == IF p \in Runs THEN Goto(p, "audit", Loaded(payload))
                                       ELSE Quit(p)

(* A lock that exists is returned as it is. *)
lock_load(p) ==
  /\ pc[p] = "lock"
  /\ Load(p, AfterLock(p, stored), Goto(p, "lock_save", Loaded(Locked)))

lock_save(p) ==
  /\ pc[p] = "lock_save"
  /\ Upsert(p, Locked, AfterLock(p, Locked))

-----------------------------------------------------------------------------
(* cmd_start_id_for. *)

Start(r) ==
  /\ pc[r] = "down" /\ starts < MaxStarts /\ starts' = starts + 1
  /\ clean' = [clean EXCEPT ![r] = TRUE]
  /\ Goto(r, "load", NoLocal)
  /\ UNCHANGED <<stored, rows, faults>>

start_load(r) ==
  /\ pc[r] = "load"
  /\ Load(r, Goto(r, "audit", Loaded(stored)), Goto(r, "lock", NoLocal))

MayStart_Always(payload) == TRUE                                  \* mutant
MayStart(payload) == payload.status # "INVALIDATED"

(* INVALIDATED is refused; the audit row must be written.  A restart goes *)
(* on to close what the last process left open, a first start does not.    *)
start_audit(r) ==
  LET copy == local[r].copy
      go   == Goto(r, IF copy.started THEN "restart" ELSE "open", local[r])
  IN /\ pc[r] = "audit"
     /\ \/ ~MayStart(copy) /\ NoFault /\ Quit(r)
        \/ MayStart(copy) /\ ((NoFault /\ go) \/ (Fault(r) /\ Quit(r)))
     /\ UNCHANGED <<stored, rows, starts>>

start_close(r) ==
  /\ pc[r] = "restart"
  /\ Ignoring(r, CloseOpen("PARTIAL")) /\ Goto(r, "open", local[r])
  /\ UNCHANGED <<stored, starts>>

start_open(r) ==
  /\ pc[r] = "open"
  /\ Ignoring(r, OpenInterval("VALID"))
  /\ Goto(r, "save", Loaded([status |-> "RUNNING", started |-> TRUE]))
  /\ UNCHANGED <<stored, starts>>

start_save(r) ==
  /\ pc[r] = "save"
  /\ Upsert(r, local[r].copy, Goto(r, "running", NoLocal))

-----------------------------------------------------------------------------
(* The signals of the collector and of the curve reader. *)

Signals(h) ==
  { [h EXCEPT !.seen = TRUE],                      \* note_head, note_log
    [h EXCEPT !.seen = FALSE],                     \* collector down, or stale
    [h EXCEPT !.seen = FALSE, !.limited = TRUE],   \* the session ended on a 429
    [h EXCEPT !.circuit = TRUE, !.limited = TRUE], \* trip_circuit
    [h EXCEPT !.limited = h.circuit \/ @],         \* a tick with positions held
    [h EXCEPT !.circuit = FALSE],                  \* circuit_until passes
    [h EXCEPT !.limited = FALSE] }                 \* a curve read succeeds

signal(r) ==
  /\ pc[r] \in Ticking
  /\ \E h \in Signals(health[r]) : health' = [health EXCEPT ![r] = h]
  /\ UNCHANGED <<stored, rows, pc, local, faults, starts, clean>>

(* evaluate, as the status of the interval it stands for. *)
evaluate_RawReason(h) ==                                          \* mutant
  IF h.limited THEN "RPC_RATE_LIMIT" ELSE IF h.seen THEN "VALID" ELSE "PARTIAL"
evaluate(h) ==
  IF h.limited THEN "INVALID" ELSE IF h.seen THEN "VALID" ELSE "PARTIAL"

-----------------------------------------------------------------------------
(* The health tick: collect.rs, then apply_observation_health. *)

tick_health(r) ==
  LET h    == [health[r] EXCEPT !.limited = health[r].circuit]
      gate == evaluate(h) = "VALID" /\ ~h.circuit
  IN /\ pc[r] = "running"
     /\ Jump(r, "apply", [NoLocal EXCEPT !.gate = gate])
     /\ health' = [health EXCEPT ![r] = h]
     /\ UNCHANGED <<stored, rows, faults, starts, clean>>

Downgrade_HeartbeatOnly(cur, want) == FALSE                       \* mutant
Downgrade(cur, want) == cur = "VALID" /\ want # "VALID"
Recover(cur, want, gate) == cur # "VALID" /\ want = "VALID" /\ gate

(* Only the newest open row is looked at; an error ends the tick.  Where  *)
(* nothing changes the code touches the heartbeat, which is not modelled.  *)
apply_health(r) ==
  LET want == evaluate(health[r])
      cur  == open[Len(open)]
      gate == local[r].gate
      Plan(label, book, next) ==
        NoFault /\ Jump(r, label, [NoLocal EXCEPT !.book = book, !.next = next])
  IN /\ pc[r] = "apply"
     /\ health' = [health EXCEPT ![r].reason = want]
     /\ \/ open = <<>> /\ Plan("reopen", want, want)
        \/ open # <<>> /\ Downgrade(cur, want) /\ Plan("close", want, want)
        \/ open # <<>> /\ Recover(cur, want, gate) /\ Plan("close", cur, "VALID")
        \/ /\ open # <<>> /\ ~Downgrade(cur, want) /\ ~Recover(cur, want, gate)
           /\ NoFault /\ Jump(r, "running", NoLocal)
        \/ Fault(r) /\ Jump(r, "running", NoLocal)
     /\ UNCHANGED <<stored, rows, starts>>

apply_close(r) ==
  /\ pc[r] = "close"
  /\ Trying(r, CloseOpen(local[r].book), UNCHANGED rows,
            Goto(r, "reopen", local[r]), Goto(r, "running", NoLocal))
  /\ UNCHANGED <<stored, starts>>

apply_open(r) ==
  /\ pc[r] = "reopen"
  /\ Ignoring(r, OpenInterval(local[r].next)) /\ Goto(r, "running", NoLocal)
  /\ UNCHANGED <<stored, starts>>

-----------------------------------------------------------------------------
(* The end of a run process. *)

(* The tick task books what is open as VALID when the process stops; it   *)
(* may fail to, or be cut off by the 90 s limit.  A bounded run, one that  *)
(* was started with a duration, goes on.                                   *)
process_stop(r) ==
  /\ pc[r] = "running"
  /\ Ignoring(r, CloseOpen("VALID"))
  /\ Goto(r, "bounded", NoLocal) \/ Quit(r)
  /\ UNCHANGED <<stored, starts>>

bounded_close(r) ==
  /\ pc[r] = "bounded"
  /\ Ignoring(r, CloseOpen("VALID")) /\ Goto(r, "reload", NoLocal)
  /\ UNCHANGED <<stored, starts>>

bounded_load(r) ==
  /\ pc[r] = "reload"
  /\ Load(r, Goto(r, "pause", Loaded([stored EXCEPT !.status = "PAUSED_OPERATIONAL"])),
          Quit(r))

bounded_save(r) ==
  /\ pc[r] = "pause"
  /\ Upsert(r, local[r].copy, Quit(r))

Crash(r) ==
  /\ pc[r] # "down" /\ Fault(r) /\ Quit(r)
  /\ UNCHANGED <<stored, rows, starts>>

-----------------------------------------------------------------------------
(* The operator's commands. *)

lock(c) ==
  /\ pc[c] = "ready" /\ Goto(c, "lock", NoLocal)
  /\ UNCHANGED <<stored, rows, faults, starts, clean>>

MayRelock(payload) == payload.status # "INVALIDATED" /\ ~payload.started

relock(c) ==
  /\ pc[c] = "ready"
  /\ Load(c, IF MayRelock(stored) THEN Goto(c, "lock_save", Loaded(Locked))
                                  ELSE Quit(c),
          Goto(c, "lock", NoLocal))

invalidate_load(c) ==
  /\ pc[c] = "ready"
  /\ Load(c, Goto(c, "void", Loaded([stored EXCEPT !.status = "INVALIDATED"])),
          Quit(c))

invalidate_close(c) ==
  /\ pc[c] = "void"
  /\ Ignoring(c, CloseOpen("INVALID")) /\ Goto(c, "invalidate", local[c])
  /\ UNCHANGED <<stored, starts>>

invalidate_save(c) ==
  /\ pc[c] = "invalidate"
  /\ Upsert(c, local[c].copy, Quit(c))

-----------------------------------------------------------------------------
Tick(r) == tick_health(r) \/ apply_health(r) \/ apply_close(r) \/ apply_open(r)

RunStep(r) ==
  \/ Start(r) \/ start_load(r) \/ lock_load(r) \/ lock_save(r) \/ start_audit(r)
  \/ start_close(r) \/ start_open(r) \/ start_save(r)
  \/ signal(r) \/ Tick(r)
  \/ process_stop(r) \/ bounded_close(r) \/ bounded_load(r) \/ bounded_save(r)
  \/ Crash(r)

Command(c) ==
  \/ lock(c) \/ lock_load(c) \/ lock_save(c) \/ relock(c)
  \/ invalidate_load(c) \/ invalidate_close(c) \/ invalidate_save(c)

Next == (\E r \in Runs : RunStep(r)) \/ (\E c \in Commands : Command(c))

Spec == Init /\ [][Next]_vars

(* The interval timer fires and every statement of a tick returns. *)
FairSpec == Spec /\ \A r \in Runs : WF_vars(Tick(r))

-----------------------------------------------------------------------------
(* Properties. *)

Alive == {r \in Runs : pc[r] # "down"}

(* valid_uptime_secs adds up intervals, so two that are open at once count *)
(* a stretch of time twice.  There is never more than one per live run     *)
(* process plus one per storage error or crash; once every process has     *)
(* stopped cleanly none is left open (close-before-open in                 *)
(* apply_observation_health, "restart" close in cmd_start_id_for).         *)
OverlapNeedsFault == Len(open) <= Cardinality(Alive) + faults

(* "Heartbeat must never keep a VALID interval alive by itself": after a   *)
(* tick that found the providers unhealthy, and until the next tick looks  *)
(* again, no open interval of a lone run without faults is VALID.          *)
BlindIsNotValid ==
  \A r \in Runs :
    pc[r] = "running" /\ clean[r] /\ health[r].reason \in {"PARTIAL", "INVALID"}
      => \A i \in DOMAIN open : open[i] # "VALID"

(* An invalidation that no run process or command overlaps is final: no    *)
(* later start, lock or relock brings the experiment back.                 *)
Quiet == Alive = {} /\ \A c \in Commands : pc[c] \in {"ready", "done"}
Invalidated == stored.status = "INVALIDATED"
QuietInvalidationHolds == [](Quiet /\ Invalidated => []Invalidated)

(* A run that stays blind loses its VALID interval: some tick books it as  *)
(* something else and opens another.                                       *)
Blind(r) == pc[r] \in Ticking /\ evaluate(health[r]) # "VALID"
ValidOpen == \E i \in DOMAIN open : open[i] = "VALID"
BlindnessIsBooked == \A r \in Runs : Blind(r) ~> ~Blind(r) \/ ~ValidOpen

(* "Process heartbeat is not VALID coverage" (observation.rs:1): time is   *)
(* booked VALID only if its interval was VALID while it was open.  The     *)
(* stop of a run breaks this.                                              *)
ValidIsEarned == credited \subseteq {"VALID"}

(* invalidated_status_is_terminal (tests/phase75c.rs:165): nothing leaves  *)
(* INVALIDATED.  The end of a bounded run, or a start in flight, does.     *)
InvalidatedIsTerminal == [][Invalidated => Invalidated']_vars

=============================================================================
