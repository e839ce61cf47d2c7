------------------------------ MODULE Collector ------------------------------
(***************************************************************************)
(* One collector of apps/engine/src/ingest/ with the pipeline task that    *)
(* stores what it emits (pipeline.rs) and the supervisor that starts and   *)
(* stops both (collect.rs): the EVM websocket collector ("evm"), the       *)
(* Yellowstone stream ("grpc") or the development RPC collector ("rpc").   *)
(* They share the channel, the store and the session row; they differ in   *)
(* how they resume and in what they record of what they missed.            *)
(*                                                                         *)
(* A position is a block or slot and holds one log.  Log kinds: "launch"   *)
(* registers the pool, "swap" is a trade of that pool, "log" anything      *)
(* else.  Decoding and the token state are in EventPipeline.  A log that   *)
(* is handled is looked up, inserted and decoded in one step; its          *)
(* checkpoint is a step of its own.                                        *)
(***************************************************************************)
EXTENDS Integers, Sequences, Functions

CONSTANTS
  Kinds,      \* collectors to start with
  LogAt,      \* the kind of log at each position of the chain
  FirstTip,   \* height of the chain when the first process starts
  Overlap,    \* overlap_blocks and overlap_slots (64 and 32 in the code)
  Cap,        \* LIVE_BACKFILL_CAP (64)
  Span,       \* GETLOGS_MAX_SPAN (10)
  Slack,      \* the 5 of "from + overlap + 5"
  Capacity,   \* of the channel to the pipeline
  MaxStarts,  \* bound: processes started
  MaxFaults   \* bound: crashes, failures and losses

MaxTip    == Len(LogAt)
Positions == 1 .. MaxTip
Swaps     == {p \in Positions : LogAt[p] = "swap"}

ASSUME KindsAssumption == Kinds \subseteq {"evm", "grpc", "rpc"}
ASSUME LogAtAssumption == LogAt \in Seq({"log", "launch", "swap"})
ASSUME CollectorBounds ==
  /\ FirstTip \in Positions /\ Overlap \in Nat /\ Cap \in Nat /\ Span \in Nat
  /\ Slack \in Nat /\ Capacity \in Nat \ {0}
  /\ MaxStarts \in Nat /\ MaxFaults \in Nat

VARIABLES
  kind, tip,
  \* Rows.
  stored,    \* raw events
  cp,        \* ingest_checkpoints, 0 when there is none
  gaps,      \* ingest_gaps in the order of their ids
  watched,   \* watched_markets has the pool
  session,   \* what the newest collection session says
  \* The process: supervisor and pipeline.
  up, starts,
  known,     \* the MarketRegistry has the pool
  chan,      \* raw events on their way to the pipeline
  hand,      \* handled, checkpoint not saved yet
  lastSlot,  \* SolanaSlotTracker::last_slot_seen
  \* The collector task.
  pc, at,    \* the subscription is past this position
  to, next,  \* the head that was read, and the next block to fetch
  repair,    \* gap row the backfill recovers, 0 for none
  pending,   \* swaps whose pool is not known yet
  \* History.
  faults, unwatched, dropped

rows  == <<stored, cp, gaps, watched, session>>
proc  == <<up, starts, known, chan, hand, lastSlot>>
coll  == <<pc, at, to, next, repair, pending>>
ghost == <<faults, unwatched, dropped>>
vars  == <<kind, tip, rows, proc, coll, ghost>>

Gap == [from : Nat, last : Nat, recovered : BOOLEAN]

TypeOK ==
  /\ kind \in Kinds /\ tip \in Positions
  /\ stored \subseteq Positions /\ cp \in {0} \cup stored
  /\ gaps \in Seq(Gap) /\ watched \in BOOLEAN
  /\ session \in {"none", "open", "complete", "incomplete"}
  /\ up \in {"off", "run", "stop"} /\ starts \in 0 .. MaxStarts
  /\ known \in BOOLEAN
  /\ chan \in Seq(Positions) /\ Len(chan) <= Capacity
  /\ hand \in {0} \cup stored /\ lastSlot \in 0 .. MaxTip
  /\ pc \in {"idle", "plan", "fill", "connect", "live", "done"}
  /\ at \in 0 .. tip /\ to \in 0 .. tip /\ next \in 0 .. to + 1
  /\ repair \in 0 .. Len(gaps) /\ pending \subseteq Swaps
  /\ faults \in 0 .. MaxFaults
  /\ unwatched \subseteq Positions /\ dropped \subseteq Positions

Init ==
  /\ kind \in Kinds /\ tip = FirstTip
  /\ stored = {} /\ cp = 0 /\ gaps = <<>> /\ watched = FALSE /\ session = "none"
  /\ up = "off" /\ starts = 0 /\ known = FALSE /\ chan = <<>> /\ hand = 0
  /\ lastSlot = 0
  /\ pc = "idle" /\ at = 0 /\ to = 0 /\ next = 0 /\ repair = 0 /\ pending = {}
  /\ faults = 0 /\ unwatched = {} /\ dropped = {}

Rewound(c) == IF c > Overlap THEN c - Overlap ELSE 0
AtLeastOne(p) == IF p < 1 THEN 1 ELSE p

Fault == faults < MaxFaults /\ faults' = faults + 1

-----------------------------------------------------------------------------
(* The supervisor. *)

(* Markets are reloaded for Solana only.                                   *)
Reloaded == watched /\ kind # "evm"

StartProcess ==
  /\ up = "off" /\ starts < MaxStarts /\ starts' = starts + 1
  /\ up' = "run" /\ session' = "open"
  /\ known' = Reloaded
  /\ UNCHANGED <<kind, tip, stored, cp, gaps, watched, chan, hand, lastSlot,
                 coll, ghost>>

Stop ==
  /\ up = "run" /\ up' = "stop"
  /\ UNCHANGED <<kind, tip, rows, starts, known, chan, hand, lastSlot, coll, ghost>>

(* Only a live or waiting collector looks at the shutdown signal.          *)
StopCollector ==
  /\ up = "stop" /\ pc \in {"idle", "live"} /\ pc' = "done"
  /\ pending' = {} /\ dropped' = dropped \cup pending
  /\ UNCHANGED <<kind, tip, rows, proc, at, to, next, repair, faults, unwatched>>

Verdict_IgnoreGaps ==                                             \* mutant
  IF kind = "rpc" THEN "incomplete" ELSE "complete"
Verdict ==
  CASE kind = "evm" -> "complete"
    [] kind = "rpc" -> "incomplete"
    [] OTHER -> IF \E i \in DOMAIN gaps : ~gaps[i].recovered
                THEN "incomplete" ELSE "complete"

Ended == /\ up' = "off" /\ known' = FALSE /\ chan' = <<>> /\ hand' = 0
         /\ lastSlot' = 0
         /\ pc' = "idle" /\ at' = 0 /\ to' = 0 /\ next' = 0 /\ repair' = 0
         /\ pending' = {}

(* The session rows are finished when the tasks have ended, or when the    *)
(* supervisor's patience (10 s, 90 s, 5 s) has.                            *)
Finish ==
  /\ up = "stop"
  /\ \/ pc = "done" /\ chan = <<>> /\ hand = 0 /\ UNCHANGED faults
     \/ (pc # "done" \/ chan # <<>> \/ hand # 0) /\ Fault
  /\ session' = Verdict
  /\ Ended
  /\ dropped' = dropped \cup Range(chan) \cup pending
  /\ UNCHANGED <<kind, tip, stored, cp, gaps, watched, starts, unwatched>>

(* Swaps are released late: the checkpoint may be past them by more than   *)
(* the overlap when the channel is lost.                                   *)
Overtaken == {p \in Range(chan) \cap Swaps : p < Rewound(cp)}

Crash ==
  /\ up # "off" /\ Fault
  /\ Ended
  /\ dropped' = dropped \cup pending \cup Overtaken
  /\ UNCHANGED <<kind, tip, rows, starts, unwatched>>

-----------------------------------------------------------------------------
(* The collector. *)

(* The RPC collector loads "solana:rpc_dev", but the pipeline saves every  *)
(* Solana checkpoint as "solana:pumpfun": it never finds one.              *)
Loaded == IF kind = "rpc" THEN 0 ELSE cp

(* What a session does about the blocks since the checkpoint: the gap it   *)
(* records, the first block it fetches (0 for none) and whether fetching   *)
(* recovers the gap.  With Cap = Overlap every head past the checkpoint is *)
(* stale, and the second case never happens.                               *)
ResumePlan_SkipSpan(c, head) ==                                   \* mutant
  IF c = 0 THEN [gap |-> <<>>, start |-> 0, recovers |-> FALSE]
  ELSE IF head > Rewound(c) + Cap
       THEN [gap |-> <<[from |-> Rewound(c), last |-> AtLeastOne(head - Span) - 1,
                        recovered |-> FALSE]>>,
             start |-> head, recovers |-> FALSE]
       ELSE [gap |-> <<>>, start |-> AtLeastOne(Rewound(c)), recovers |-> FALSE]

ResumePlan(c, head) ==
  LET Row(last) == [from |-> Rewound(c), last |-> last, recovered |-> FALSE]
      stale == AtLeastOne(head - Span)
  IN CASE c = 0 -> [gap |-> <<>>, start |-> 0, recovers |-> FALSE]
       [] c > 0 /\ head > Rewound(c) + Cap ->
            [gap |-> <<Row(stale)>>, start |-> stale, recovers |-> FALSE]
       [] c > 0 /\ head <= Rewound(c) + Cap /\ head > Rewound(c) + Overlap + Slack ->
            [gap |-> <<Row(head)>>, start |-> AtLeastOne(Rewound(c)), recovers |-> TRUE]
       [] OTHER ->
            [gap |-> <<>>, start |-> AtLeastOne(Rewound(c)), recovers |-> FALSE]

ReadHead ==
  /\ up = "run" /\ pc = "idle" /\ kind # "grpc"
  /\ to' = tip /\ pc' = "plan" /\ next' = 0
  /\ UNCHANGED <<kind, tip, rows, proc, at, repair, pending, ghost>>

Plan ==
  /\ pc = "plan"
  /\ LET r == ResumePlan(Loaded, to)
     IN /\ gaps' = gaps \o r.gap
        /\ repair' = IF r.recovers THEN Len(gaps) + 1 ELSE 0
        /\ next' = r.start
        /\ pc' = IF r.start = 0 THEN "connect" ELSE "fill"
  /\ UNCHANGED <<kind, tip, stored, cp, watched, session, proc, at, to, pending,
                 ghost>>

HasRoom == Len(chan) < Capacity

(* emit waits for room in the channel.                                     *)
Emit_Drop(p) == chan' = IF HasRoom THEN Append(chan, p) ELSE chan \* mutant
Emit(p) == HasRoom /\ chan' = Append(chan, p)

(* MarketRegistry::knows_pool.                                             *)
UnknownPool(p) == p \in Swaps /\ ~known

(* A swap whose launch is still in the channel is passed over.             *)
Fill ==
  /\ pc = "fill" /\ next <= to /\ next' = next + 1
  /\ IF UnknownPool(next)
     THEN dropped' = dropped \cup {next} /\ UNCHANGED chan
     ELSE Emit(next) /\ UNCHANGED dropped
  /\ UNCHANGED <<kind, tip, rows, up, starts, known, hand, lastSlot, pc, at, to,
                 repair, pending, faults, unwatched>>

Filled ==
  /\ pc = "fill" /\ next > to
  /\ gaps' = [i \in DOMAIN gaps |->
                IF i = repair THEN [gaps[i] EXCEPT !.recovered = TRUE] ELSE gaps[i]]
  /\ repair' = 0 /\ pc' = "connect"
  /\ UNCHANGED <<kind, tip, stored, cp, watched, session, proc, at, to, next,
                 pending, ghost>>

(* The websocket subscription starts at the head of that moment: what came *)
(* after the head that was read is not asked for, nor is anything older    *)
(* when there was no checkpoint.                                           *)
Connect ==
  /\ pc = "connect" /\ pc' = "live" /\ at' = tip
  /\ unwatched' = unwatched \cup
       ((IF next = 0 THEN 1 ELSE to + 1) .. tip)
  /\ UNCHANGED <<kind, tip, rows, proc, to, next, repair, pending, faults, dropped>>

(* Yellowstone replays from the slot it is asked for.                      *)
Subscribe ==
  /\ up = "run" /\ kind = "grpc" /\ pc = "idle" /\ pc' = "live"
  /\ at' = IF cp = 0 THEN tip ELSE AtLeastOne(Rewound(cp)) - 1
  /\ unwatched' = IF cp = 0 THEN unwatched \cup (1 .. tip) ELSE unwatched
  /\ UNCHANGED <<kind, tip, rows, proc, to, next, repair, pending, faults, dropped>>

(* note_head and flush_gaps; the result of the insert is ignored.          *)
SlotSeen(p, writes) ==
  /\ lastSlot' = p
  /\ gaps' = IF writes /\ lastSlot # 0 /\ p > lastSlot + 1
             THEN Append(gaps, [from |-> lastSlot + 1, last |-> p - 1,
                                recovered |-> FALSE])
             ELSE gaps

Deliver ==
  /\ pc = "live" /\ at < tip /\ at' = at + 1
  /\ LET p == at + 1
         hold == UnknownPool(p) /\ kind = "evm"
         skip == \/ UnknownPool(p) /\ kind = "grpc"
                 \/ p \in Swaps /\ kind = "rpc"
     IN /\ pending' = IF hold THEN pending \cup {p} ELSE pending
        /\ unwatched' = IF skip THEN unwatched \cup {p} ELSE unwatched
        /\ IF hold \/ skip THEN UNCHANGED chan ELSE Emit(p)
        /\ IF kind = "grpc" THEN SlotSeen(p, TRUE) ELSE UNCHANGED <<lastSlot, gaps>>
  /\ UNCHANGED <<kind, tip, stored, cp, watched, session, up, starts, known, hand,
                 pc, to, next, repair, faults, dropped>>

(* The stream skips a slot, and maybe the row that says so is not written. *)
DeliverPastSkip ==
  /\ kind = "grpc" /\ pc = "live" /\ at + 1 < tip /\ Fault /\ at' = at + 2
  /\ at + 2 \notin Swaps /\ Emit(at + 2)
  /\ \E writes \in BOOLEAN :
       /\ SlotSeen(at + 2, writes)
       /\ dropped' = IF writes /\ lastSlot # 0 THEN dropped
                     ELSE dropped \cup ((lastSlot + 1) .. (at + 1))
  /\ UNCHANGED <<kind, tip, stored, cp, watched, session, up, starts, known, hand,
                 pc, to, next, repair, pending, unwatched>>

(* getTransaction fails: the log is not asked for again.                   *)
FetchFails ==
  /\ kind = "rpc" /\ pc = "live" /\ at < tip /\ Fault /\ at' = at + 1
  /\ dropped' = dropped \cup {at + 1}
  /\ UNCHANGED <<kind, tip, rows, proc, pc, to, next, repair, pending, unwatched>>

(* A newHeads message releases the swaps of a pool that is known by now.   *)
FlushPending ==
  /\ pc = "live" /\ known /\ pending # {}
  /\ LET p == CHOOSE q \in pending : \A r \in pending : q <= r
     IN Emit(p) /\ pending' = pending \ {p}
  /\ UNCHANGED <<kind, tip, rows, up, starts, known, hand, lastSlot, pc, at, to,
                 next, repair, ghost>>

SessionFails ==
  /\ pc \in {"plan", "fill", "connect", "live"} /\ Fault /\ pc' = "idle"
  /\ at' = 0 /\ repair' = 0 /\ pending' = {} /\ dropped' = dropped \cup pending
  /\ UNCHANGED <<kind, tip, rows, proc, to, next, unwatched>>

-----------------------------------------------------------------------------
(* The pipeline task. *)

Idle == up # "off" /\ hand = 0 /\ chan # <<>> /\ chan' = Tail(chan)

(* A duplicate is neither registered nor a checkpoint.                     *)
Fresh(p)     == p \notin stored
Registers(p) == Fresh(p) /\ LogAt[p] = "launch"

Handle ==
  /\ Idle
  /\ LET p == Head(chan)
     IN /\ stored' = stored \cup {p}
        /\ hand' = IF Fresh(p) THEN p ELSE 0
        /\ known' = (known \/ Registers(p)) /\ watched' = (watched \/ Registers(p))
  /\ UNCHANGED <<kind, tip, cp, gaps, session, up, starts, lastSlot, coll, ghost>>

HandleFails_Checkpoint ==                                         \* mutant
  /\ up # "off" /\ hand = 0 /\ chan # <<>> /\ chan' = Tail(chan) /\ Fault
  /\ hand' = Head(chan)
  /\ UNCHANGED <<kind, tip, rows, up, starts, known, lastSlot, coll, unwatched,
                 dropped>>

HandleFails ==
  /\ Idle /\ Fault
  /\ dropped' = dropped \cup ({Head(chan)} \ stored)
  /\ UNCHANGED <<kind, tip, rows, up, starts, known, hand, lastSlot, coll, unwatched>>

SaveCheckpoint ==
  /\ hand # 0 /\ hand' = 0 /\ cp' = hand
  /\ UNCHANGED <<kind, tip, stored, gaps, watched, session, up, starts, known, chan,
                 lastSlot, coll, ghost>>

NewBlock ==
  /\ tip < MaxTip /\ tip' = tip + 1
  /\ UNCHANGED <<kind, rows, proc, coll, ghost>>

Work == \/ ReadHead \/ Plan \/ Fill \/ Filled \/ Connect \/ Subscribe \/ Deliver
        \/ FlushPending
Store == Handle \/ SaveCheckpoint

Next == \/ StartProcess \/ Stop \/ StopCollector \/ Finish \/ Crash
        \/ Work \/ DeliverPastSkip \/ FetchFails \/ SessionFails
        \/ Store \/ HandleFails \/ NewBlock

Spec == Init /\ [][Next]_vars

(* A request or a connection attempt ends, if only by its timeout, and the *)
(* pipeline task is always scheduled.                                      *)
FairSpec == Spec /\ WF_vars(Work) /\ WF_vars(Store)

-----------------------------------------------------------------------------
(* Properties. *)

InGap(p) == \E i \in DOMAIN gaps : gaps[i].from <= p /\ p <= gaps[i].last
Settled(p) == p \in stored \cup unwatched \cup dropped \/ InGap(p)

(* While a session is live, every position the stream is past is stored,   *)
(* on its way, covered by a gap row, or lost in one of the ways the code   *)
(* does not record (unwatched, dropped): neither the checkpoint nor the    *)
(* resume plan loses anything else, whatever crashed or failed before.     *)
LossIsExplained ==
  pc = "live" => \A p \in 1 .. at :
    Settled(p) \/ p \in Range(chan) \cup pending

(* A Yellowstone session that ends as complete has stored every slot that  *)
(* some session watched, but for handling errors and cut-off shutdowns.    *)
CompleteIsWhole ==
  kind = "grpc" /\ up = "off" /\ session = "complete" =>
    \A p \in 1 .. tip : (cp # 0 /\ p <= cp) => p \in stored \cup unwatched \cup dropped

(* docs/solana-live-data.md:79: LIVE_COMPLETE is "true only for explicit   *)
(* Yellowstone / EVM live when gaps recovered".  An EVM session is         *)
(* finished as complete whatever the gap rows say.                         *)
CompleteIsGapless ==
  up = "off" /\ session = "complete" => \A i \in DOMAIN gaps : gaps[i].recovered

(* docs/discovery.md:77: on reconnect the collector rewinds the overlap.   *)
(* With a cap as large as the overlap it does so only when there is no new *)
(* block at all.                                                           *)
OverlapIsRewound ==
  [][pc = "plan" /\ Loaded # 0 => next' = AtLeastOne(Rewound(cp)) \/ pc' # "fill"]_vars

(* What the stream is past does not stay in the channel or, once its pool  *)
(* is known, in the pending map: it is stored unless the process ends or   *)
(* the log is lost for a reason above.                                     *)
CatchesUp ==
  \A p \in Positions :
    (p \in Range(chan) \/ (p \in pending /\ known)) ~> (Settled(p) \/ up = "off")
=============================================================================
