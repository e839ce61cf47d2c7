------------------------- MODULE PaperTradingProofs -------------------------
(***************************************************************************)
(* Theorems about PaperTrading for every set of keys and processes and     *)
(* every bound.  The inductive invariant adds to the safety invariants     *)
(* what the handlers rely on between two of their steps.                   *)
(***************************************************************************)
EXTENDS PaperTrading, TLAPS

(* The locals of a handler that has begun. *)
HandlerOK(p) ==
  /\ pc[p] \in Working => job[p].arm \in Arms
  /\ pc[p] = "position" => Filled(job[p].arm)
  /\ pc[p] = "exit" => /\ mem[p][job[p].arm].status # "NONE"
                       /\ job[p].amount <= mem[p][job[p].arm].remaining
  /\ pc[p] = "save" => mem[p][job[p].arm].status # "NONE"

(* What is left of a loop that has begun. *)
LoopOK(p) ==
  \A a \in todo[p] :
    /\ pc[p] = "rebuild" => Filled(a)
    /\ pc[p] = "reopen" => view[p][a].status # "NONE"
    /\ pc[p] = "ending" => mem[p][a].status # "NONE"

(* What a process remembers of a row is stored. *)
Remembered(p) ==
  \A a \in Arms : /\ mem[p][a].status # "NONE" => Held(a)
                  /\ view[p][a].status # "NONE" => Held(a)

ProcOK(p) == HandlerOK(p) /\ LoopOK(p) /\ Remembered(p)

IInv == /\ TypeOK /\ ClaimedOnce /\ PositionHasFill
        /\ \A p \in Procs : ProcOK(p)

USE LotAssumption, BoundsAssumption, NoArmAssumption

(* Types of the values the actions store. *)

LEMMA PositionTypes ==
  /\ NoPosition \in Position /\ NewPosition \in Position
  /\ NoPosition.status = "NONE" /\ NewPosition.status # "NONE"
  /\ NewPosition.remaining = Lot
BY DEF Position, NoPosition, NewPosition

LEMMA EndOpenType ==
  \A pos \in Position : /\ EndOpen(pos) \in Position
                        /\ EndOpen(pos).status = "NONE" <=> pos.status = "NONE"
BY DEF Position, EndOpen

LEMMA EndAllType ==
  ASSUME NEW f \in [Arms -> Position]
  PROVE  EndAll(f) \in [Arms -> Position]
BY EndOpenType DEF EndAll

LEMMA ApplyExitType ==
  ASSUME NEW pos \in Position, NEW n \in 1 .. pos.remaining
  PROVE  /\ apply_exit(pos, n) \in Position
         /\ pos.status # "NONE" => apply_exit(pos, n).status # "NONE"
BY DEF Position, apply_exit

LEMMA ReopenType ==
  ASSUME NEW pos \in Position
  PROVE  /\ [pos EXCEPT !.status = "OPEN"] \in Position
         /\ [pos EXCEPT !.status = "OPEN"].status # "NONE"
BY DEF Position

LEMMA NoJobType == NoJob \in Job
BY DEF NoJob, NewJob, Job, Results

LEMMA NewJobType ==
  ASSUME NEW a \in Arms, NEW n \in 0 .. Lot
  PROVE  /\ NewJob(a, n) \in Job
         /\ NewJob(a, n).arm = a
         /\ NewJob(a, n).amount = n
BY DEF NewJob, Job, Results

LEMMA CountType ==
  ASSUME NEW f \in [Arms -> Nat], NEW a \in Arms, NEW n \in Nat
  PROVE  [f EXCEPT ![a] = @ + n] \in [Arms -> Nat]
OBVIOUS

LEMMA BuyJobType ==
  ASSUME NEW j \in Job, NEW b \in {"UNREADABLE", "REJECTED", "FILLED"}
  PROVE  [j EXCEPT !.buy = b] \in Job /\ [j EXCEPT !.buy = b].arm = j.arm
BY DEF Job, Results

LEMMA KeyTypes ==
  ASSUME TypeOK
  PROVE  /\ HeldKeys \in SUBSET Arms /\ LifetimeKeys \in SUBSET Arms
         /\ Orphans \in SUBSET Arms /\ OpenRows \in SUBSET Arms
         /\ OpenView \in [Arms -> Position]
BY PositionTypes
DEF TypeOK, HeldKeys, Evidence, LifetimeKeys, Orphans, OpenRows, OpenView

LEMMA FaultType ==
  ASSUME TypeOK, NEW p \in Procs, NoFault \/ Fault(p)
  PROVE  faults' \in 0 .. MaxFaults /\ healthy' \in [Procs -> BOOLEAN]
<1>1. faults' \in 0 .. MaxFaults
  BY DEF TypeOK, NoFault, Fault
<1>2. healthy' \in [Procs -> BOOLEAN]
  BY DEF TypeOK, NoFault, Fault
<1> QED BY <1>1, <1>2

LEMMA GotoType ==
  ASSUME TypeOK, NEW p \in Procs, NEW l, Goto(p, l),
         l \in {"down", "idle"} \cup Restoring \cup Working \cup Stopping
  PROVE  pc' \in [Procs -> Labels]
BY DEF TypeOK, Goto, Labels

LEMMA ForgetType ==
  ASSUME TypeOK, NEW p \in Procs, Forget(p)
  PROVE  /\ entered' \in [Procs -> SUBSET Arms]
         /\ pending' \in [Procs -> SUBSET Arms]
         /\ attempts' \in [Procs -> [Arms -> 0 .. MaxReadAttempts]]
         /\ mem' \in [Procs -> [Arms -> Position]]
         /\ backoff' \in [Procs -> SUBSET Arms]
         /\ job' \in [Procs -> Job]
         /\ todo' \in [Procs -> SUBSET Arms]
         /\ view' \in [Procs -> [Arms -> Position]]
<1>1. NoPositions \in [Arms -> Position] /\ NoJob \in Job
  BY PositionTypes, NoJobType DEF NoPositions
<1>2. entered' \in [Procs -> SUBSET Arms] BY DEF TypeOK, Forget
<1>3. pending' \in [Procs -> SUBSET Arms] BY DEF TypeOK, Forget
<1>4. attempts' \in [Procs -> [Arms -> 0 .. MaxReadAttempts]]
  BY DEF TypeOK, Forget
<1>5. mem' \in [Procs -> [Arms -> Position]] BY <1>1 DEF TypeOK, Forget
<1>6. backoff' \in [Procs -> SUBSET Arms] BY DEF TypeOK, Forget
<1>7. job' \in [Procs -> Job] BY <1>1 DEF TypeOK, Forget
<1>8. todo' \in [Procs -> SUBSET Arms] BY DEF TypeOK, Forget
<1>9. view' \in [Procs -> [Arms -> Position]] BY <1>1 DEF TypeOK, Forget
<1> QED BY <1>2, <1>3, <1>4, <1>5, <1>6, <1>7, <1>8, <1>9

(* Assignments to one entry of a variable. *)

LEMMA MemPut ==
  ASSUME TypeOK, NEW p \in Procs, NEW a \in Arms, NEW pos \in Position,
         mem' = [mem EXCEPT ![p][a] = pos]
  PROVE  mem' \in [Procs -> [Arms -> Position]]
BY DEF TypeOK

LEMMA AttemptsPut ==
  ASSUME TypeOK, NEW p \in Procs, NEW a \in Arms,
         NEW n \in 0 .. MaxReadAttempts,
         attempts' = [attempts EXCEPT ![p][a] = n]
  PROVE  attempts' \in [Procs -> [Arms -> 0 .. MaxReadAttempts]]
BY DEF TypeOK

LEMMA DequeueType ==
  ASSUME TypeOK, NEW p \in Procs, NEW a \in Arms, Dequeue(p, a)
  PROVE  /\ pending' \in [Procs -> SUBSET Arms]
         /\ attempts' \in [Procs -> [Arms -> 0 .. MaxReadAttempts]]
<1>1. pending' \in [Procs -> SUBSET Arms] BY DEF TypeOK, Dequeue
<1>2. attempts' \in [Procs -> [Arms -> 0 .. MaxReadAttempts]]
  <2>1. 0 \in 0 .. MaxReadAttempts
    OBVIOUS
  <2> QED BY <2>1, AttemptsPut DEF Dequeue
<1> QED BY <1>1, <1>2

LEMMA EnteredAdd ==
  ASSUME TypeOK, NEW p \in Procs, NEW a \in Arms,
         entered' = [entered EXCEPT ![p] = @ \cup {a}]
  PROVE  entered' \in [Procs -> SUBSET Arms]
BY DEF TypeOK

LEMMA JobPut ==
  ASSUME TypeOK, NEW p \in Procs, NEW j \in Job, job' = [job EXCEPT ![p] = j]
  PROVE  job' \in [Procs -> Job]
BY DEF TypeOK

LEMMA BuyJobPut ==
  ASSUME TypeOK, NEW p \in Procs,
         NEW b \in {"UNREADABLE", "REJECTED", "FILLED"},
         job' = [job EXCEPT ![p].buy = b]
  PROVE  job' \in [Procs -> Job]
<1>1. [job[p] EXCEPT !.buy = b] \in Job BY BuyJobType DEF TypeOK
<1> QED BY <1>1 DEF TypeOK

LEMMA RowPut ==
  ASSUME TypeOK, NEW a \in Arms, NEW pos \in Position,
         row' = [row EXCEPT ![a] = pos] \/ UNCHANGED row
  PROVE  row' \in [Arms -> Position]
BY DEF TypeOK

(* Each action preserves the types. *)

LEMMA Start_Type ==
  ASSUME TypeOK, NEW p \in Procs, HandlerOK(p), Start(p)
  PROVE  TypeOK'
<1>1. pc' \in [Procs -> Labels]
  BY GotoType DEF Start, Restoring, Working, Stopping
<1>2. starts' \in 0 .. MaxStarts
  BY DEF TypeOK, Start
<1>3. healthy' \in [Procs -> BOOLEAN]
  BY DEF TypeOK, Start
<1> QED
  BY <1>1, <1>2, <1>3 DEF TypeOK, Start, db, entry

LEMMA ensure_arm_claims_Type ==
  ASSUME TypeOK, NEW p \in Procs, HandlerOK(p), ensure_arm_claims(p)
  PROVE  TypeOK'
<1>1. pc' \in [Procs -> Labels]
  BY GotoType DEF ensure_arm_claims, Restoring, Working, Stopping
<1>2. (claims \subseteq Arms)'
  BY KeyTypes DEF TypeOK, ensure_arm_claims
<1>3. NoFault \/ Fault(p)
  BY DEF ensure_arm_claims, Write
<1>4. faults' \in 0 .. MaxFaults /\ healthy' \in [Procs -> BOOLEAN]
  BY <1>3, FaultType
<1> QED
  BY <1>1, <1>2, <1>3, <1>4 DEF TypeOK, ensure_arm_claims, db, entry

LEMMA load_lifetime_arms_Type ==
  ASSUME TypeOK, NEW p \in Procs, HandlerOK(p), load_lifetime_arms(p)
  PROVE  TypeOK'
<1>1. pc' \in [Procs -> Labels]
  BY GotoType DEF load_lifetime_arms, Restoring, Working, Stopping
<1>2. entered' \in [Procs -> SUBSET Arms]
  BY KeyTypes DEF TypeOK, load_lifetime_arms
<1>3. NoFault \/ Fault(p)
  BY DEF load_lifetime_arms, Write
<1>4. faults' \in 0 .. MaxFaults /\ healthy' \in [Procs -> BOOLEAN]
  BY <1>3, FaultType
<1> QED
  BY <1>1, <1>2, <1>3, <1>4 DEF TypeOK, load_lifetime_arms, db, entry

LEMMA load_orphan_fills_Type ==
  ASSUME TypeOK, NEW p \in Procs, HandlerOK(p), load_orphan_fills(p)
  PROVE  TypeOK'
<1>1. pc' \in [Procs -> Labels]
  BY GotoType DEF load_orphan_fills, Restoring, Working, Stopping
<1>2. todo' \in [Procs -> SUBSET Arms]
  BY KeyTypes DEF TypeOK, load_orphan_fills
<1>3. NoFault \/ Fault(p)
  BY DEF load_orphan_fills, Write
<1>4. faults' \in 0 .. MaxFaults /\ healthy' \in [Procs -> BOOLEAN]
  BY <1>3, FaultType
<1> QED
  BY <1>1, <1>2, <1>3, <1>4 DEF TypeOK, load_orphan_fills, db, entry

LEMMA load_open_positions_Type ==
  ASSUME TypeOK, NEW p \in Procs, HandlerOK(p), load_open_positions(p)
  PROVE  TypeOK'
<1>1. pc' \in [Procs -> Labels]
  BY GotoType DEF load_open_positions, Restoring, Working, Stopping
<1>2. todo' \in [Procs -> SUBSET Arms]
  BY KeyTypes DEF TypeOK, load_open_positions
<1>3. view' \in [Procs -> [Arms -> Position]]
  BY KeyTypes DEF TypeOK, load_open_positions
<1>4. NoFault \/ Fault(p)
  BY DEF load_open_positions, Write
<1>5. faults' \in 0 .. MaxFaults /\ healthy' \in [Procs -> BOOLEAN]
  BY <1>4, FaultType
<1> QED
  BY <1>1, <1>2, <1>3, <1>4, <1>5 DEF TypeOK, load_open_positions, db, entry

LEMMA queue_arm_Type ==
  ASSUME TypeOK, NEW p \in Procs, HandlerOK(p), NEW a \in Arms, queue_arm(p, a)
  PROVE  TypeOK'
<1>1. entered' \in [Procs -> SUBSET Arms]
  BY DEF TypeOK, queue_arm
<1>2. pending' \in [Procs -> SUBSET Arms]
  BY DEF TypeOK, queue_arm
<1> QED
  BY <1>1, <1>2 DEF TypeOK, queue_arm, db, entry

LEMMA fail_exit_Type ==
  ASSUME TypeOK, NEW p \in Procs, HandlerOK(p), fail_exit(p)
  PROVE  TypeOK'
<1>1. pc' \in [Procs -> Labels]
  BY GotoType DEF fail_exit, Restoring, Working, Stopping
<1>2. backoff' \in [Procs -> SUBSET Arms]
  BY DEF TypeOK, fail_exit, HandlerOK, Working
<1> QED
  BY <1>1, <1>2 DEF TypeOK, fail_exit, db, entry

LEMMA save_position_Type ==
  ASSUME TypeOK, NEW p \in Procs, HandlerOK(p), save_position(p)
  PROVE  TypeOK'
<1>1. pc' \in [Procs -> Labels]
  BY GotoType DEF save_position, Restoring, Working, Stopping
<1>2. row' \in [Arms -> Position]
  <2>1. PICK a \in Arms : a = job[p].arm
    BY DEF HandlerOK, save_position, Working
  <2>2. row' = [row EXCEPT ![a] = mem[p][a]] \/ UNCHANGED row
    BY <2>1 DEF save_position, StoredForm, Write
  <2>3. mem[p][a] \in Position
    BY DEF TypeOK
  <2> QED BY <2>2, <2>3, RowPut
<1>3. job' \in [Procs -> Job]
  BY NoJobType DEF TypeOK, save_position
<1>4. NoFault \/ Fault(p)
  BY DEF save_position, Write
<1>5. faults' \in 0 .. MaxFaults /\ healthy' \in [Procs -> BOOLEAN]
  BY <1>4, FaultType
<1> QED
  BY <1>1, <1>2, <1>3, <1>4, <1>5 DEF TypeOK, save_position, db, entry

LEMMA backoff_elapses_Type ==
  ASSUME TypeOK, NEW p \in Procs, HandlerOK(p), NEW a \in Arms,
         backoff_elapses(p, a)
  PROVE  TypeOK'
<1>1. backoff' \in [Procs -> SUBSET Arms]
  BY DEF TypeOK, backoff_elapses
<1> QED
  BY <1>1 DEF TypeOK, backoff_elapses, db, entry

LEMMA end_session_Type ==
  ASSUME TypeOK, NEW p \in Procs, HandlerOK(p), end_session(p)
  PROVE  TypeOK'
<1>1. pc' \in [Procs -> Labels]
  BY GotoType DEF end_session, Restoring, Working, Stopping
<1>2. mem' \in [Procs -> [Arms -> Position]]
  BY EndAllType DEF TypeOK, end_session
<1>3. todo' \in [Procs -> SUBSET Arms]
  BY DEF TypeOK, end_session, Managed
<1> QED
  BY <1>1, <1>2, <1>3 DEF TypeOK, end_session, db, entry

LEMMA reconstruct_position_Type ==
  ASSUME TypeOK, NEW p \in Procs, NEW a \in Arms, reconstruct_position(p, a)
  PROVE  TypeOK'
<1>1. pc' \in [Procs -> Labels]
  BY GotoType DEF reconstruct_position, Restoring
<1>2. todo' \in [Procs -> SUBSET Arms]
  BY DEF TypeOK, reconstruct_position
<1>3. row' \in [Arms -> Position]
  BY PositionTypes, RowPut DEF reconstruct_position, InsertPosition
<1>4. mem' \in [Procs -> [Arms -> Position]]
  <2>1. mem' = [mem EXCEPT ![p][a] = NewPosition] \/ UNCHANGED mem
    BY DEF reconstruct_position
  <2> QED BY <2>1, PositionTypes, MemPut DEF TypeOK
<1>5. entered' \in [Procs -> SUBSET Arms]
  <2>1. entered' = [entered EXCEPT ![p] = @ \cup {a}] \/ UNCHANGED entered
    BY DEF reconstruct_position
  <2> QED BY <2>1, EnteredAdd DEF TypeOK
<1>6. NoFault \/ Fault(p)
  BY DEF reconstruct_position
<1>7. faults' \in 0 .. MaxFaults /\ healthy' \in [Procs -> BOOLEAN]
  BY <1>6, FaultType
<1> QED
  BY <1>1, <1>2, <1>3, <1>4, <1>5, <1>7 DEF TypeOK, reconstruct_position

LEMMA reopen_position_Type ==
  ASSUME TypeOK, NEW p \in Procs, NEW a \in Arms, reopen_position(p, a)
  PROVE  TypeOK'
<1> DEFINE reopened == [view[p][a] EXCEPT !.status = "OPEN"]
<1>0. reopened \in Position
  BY ReopenType DEF TypeOK
<1>1. pc' \in [Procs -> Labels]
  BY GotoType DEF reopen_position, Restoring
<1>2. todo' \in [Procs -> SUBSET Arms]
  BY DEF TypeOK, reopen_position
<1>3. row' \in [Arms -> Position]
  <2>1. row' = [row EXCEPT ![a] = reopened] \/ UNCHANGED row
    BY DEF reopen_position, Write
  <2> QED BY <1>0, <2>1, RowPut
<1>4. mem' \in [Procs -> [Arms -> Position]]
  <2>1. mem' = [mem EXCEPT ![p][a] = reopened] \/ UNCHANGED mem
    BY DEF reopen_position
  <2> QED BY <1>0, <2>1, MemPut DEF TypeOK
<1>5. view' \in [Procs -> [Arms -> Position]]
  BY PositionTypes DEF TypeOK, reopen_position
<1>6. entered' \in [Procs -> SUBSET Arms]
  BY EnteredAdd DEF reopen_position
<1>7. NoFault \/ Fault(p)
  BY DEF reopen_position, Write
<1>8. faults' \in 0 .. MaxFaults /\ healthy' \in [Procs -> BOOLEAN]
  BY <1>7, FaultType
<1> QED
  BY <1>1, <1>2, <1>3, <1>4, <1>5, <1>6, <1>8 DEF TypeOK, reopen_position

LEMMA flush_pending_Type ==
  ASSUME TypeOK, NEW p \in Procs, NEW a \in Arms, flush_pending(p, a)
  PROVE  TypeOK'
<1>1. NoFault \/ Fault(p)
  BY DEF flush_pending
<1>2. faults' \in 0 .. MaxFaults /\ healthy' \in [Procs -> BOOLEAN]
  BY <1>1, FaultType
<1>3. CASE /\ entered' = [entered EXCEPT ![p] = @ \cup {a}]
           /\ Dequeue(p, a)
           /\ UNCHANGED <<pc, job>>
  BY <1>2, <1>3, EnteredAdd, DequeueType DEF TypeOK, flush_pending, db
<1>4. CASE /\ job' = [job EXCEPT ![p] = NewJob(a, 0)]
           /\ Goto(p, "read")
           /\ UNCHANGED entry
  <2>1. pc' \in [Procs -> Labels]
    BY <1>4, GotoType DEF Working
  <2>2. job' \in [Procs -> Job]
    <3>1. 0 \in 0 .. Lot
      OBVIOUS
    <3>2. NewJob(a, 0) \in Job
      BY <3>1, NewJobType
    <3> QED BY <1>4, <3>2, JobPut
  <2> QED BY <1>2, <1>4, <2>1, <2>2 DEF TypeOK, flush_pending, db, entry
<1> QED BY <1>3, <1>4 DEF flush_pending

LEMMA read_curve_Type ==
  ASSUME TypeOK, NEW p \in Procs, HandlerOK(p), read_curve(p)
  PROVE  TypeOK'
<1> DEFINE a == job[p].arm
<1>1. pc' \in [Procs -> Labels]
  BY GotoType DEF read_curve, Working
<1>2. a \in Arms
  BY DEF read_curve, HandlerOK, Working
<1>3. CASE /\ ReadAgain(p, a)
           /\ attempts' = [attempts EXCEPT ![p][a] = CountRead(@)]
           /\ job' = [job EXCEPT ![p] = NoJob]
  <2>1. attempts[p][a] + 1 \in 0 .. MaxReadAttempts
    BY <1>2, <1>3 DEF TypeOK, ReadAgain
  <2>2. attempts' \in [Procs -> [Arms -> 0 .. MaxReadAttempts]]
    BY <1>2, <1>3, <2>1, AttemptsPut DEF CountRead
  <2>3. job' \in [Procs -> Job]
    BY <1>3, NoJobType, JobPut
  <2> QED BY <1>1, <2>2, <2>3 DEF TypeOK, read_curve, db
<1>4. CASE \E b \in {"UNREADABLE", "REJECTED", "FILLED"} :
             job' = [job EXCEPT ![p].buy = b] /\ UNCHANGED attempts
  <2>1. job' \in [Procs -> Job]
    BY <1>4, BuyJobPut
  <2> QED BY <1>1, <1>4, <2>1 DEF TypeOK, read_curve, db
<1> QED BY <1>3, <1>4 DEF read_curve

LEMMA insert_order_claimed_Type ==
  ASSUME TypeOK, NEW p \in Procs, HandlerOK(p), insert_order_claimed(p)
  PROVE  TypeOK'
<1> DEFINE a == job[p].arm
<1>1. a \in Arms
  BY DEF insert_order_claimed, HandlerOK, Working
<1>2. pc' \in [Procs -> Labels]
  BY GotoType DEF insert_order_claimed, Working
<1>3. claims' \subseteq Arms
  BY <1>1 DEF TypeOK, insert_order_claimed, ClaimBuy, LostCommit
<1>4. fills' \in [Arms -> Nat]
  <2>1. fills' = [fills EXCEPT ![a] = @ + 1] \/ UNCHANGED fills
    BY DEF insert_order_claimed, ClaimBuy, LostCommit
  <2>2. fills \in [Arms -> Nat] /\ 1 \in Nat
    BY DEF TypeOK
  <2>3. [fills EXCEPT ![a] = @ + 1] \in [Arms -> Nat]
    BY <1>1, <2>2, CountType
  <2> QED BY <2>1, <2>2, <2>3
<1>5. rejects' \in [Arms -> Nat]
  <2>1. rejects' = [rejects EXCEPT ![a] = @ + 1] \/ UNCHANGED rejects
    BY DEF insert_order_claimed, ClaimBuy, LostCommit
  <2>2. rejects \in [Arms -> Nat] /\ 1 \in Nat
    BY DEF TypeOK
  <2>3. [rejects EXCEPT ![a] = @ + 1] \in [Arms -> Nat]
    BY <1>1, <2>2, CountType
  <2> QED BY <2>1, <2>2, <2>3
<1>6. entered' \in [Procs -> SUBSET Arms]
  <2>1. entered' = [entered EXCEPT ![p] = @ \cup {a}] \/ UNCHANGED entered
    BY DEF insert_order_claimed
  <2> QED BY <1>1, <2>1, EnteredAdd DEF TypeOK
<1>7. /\ pending' \in [Procs -> SUBSET Arms]
      /\ attempts' \in [Procs -> [Arms -> 0 .. MaxReadAttempts]]
  <2>1. Dequeue(p, a) \/ UNCHANGED <<pending, attempts>>
    BY DEF insert_order_claimed
  <2>2. CASE Dequeue(p, a)
    BY <1>1, <2>2, DequeueType
  <2>3. CASE UNCHANGED <<pending, attempts>>
    BY <2>3 DEF TypeOK
  <2> QED BY <2>1, <2>2, <2>3
<1>8. job' \in [Procs -> Job]
  BY NoJobType DEF TypeOK, insert_order_claimed
<1>9. NoFault \/ Fault(p)
  BY DEF insert_order_claimed
<1>10. faults' \in 0 .. MaxFaults /\ healthy' \in [Procs -> BOOLEAN]
  BY <1>9, FaultType
<1> QED
  BY <1>2, <1>3, <1>4, <1>5, <1>6, <1>7, <1>8, <1>10
  DEF TypeOK, insert_order_claimed

LEMMA insert_position_Type ==
  ASSUME TypeOK, NEW p \in Procs, HandlerOK(p), insert_position(p)
  PROVE  TypeOK'
<1> DEFINE a == job[p].arm
<1>1. a \in Arms
  BY DEF insert_position, HandlerOK, Working
<1>2. pc' \in [Procs -> Labels]
  BY GotoType DEF insert_position, Working
<1>3. row' \in [Arms -> Position]
  BY <1>1, PositionTypes, RowPut DEF insert_position, InsertPosition
<1>4. mem' \in [Procs -> [Arms -> Position]]
  <2>1. mem' = [mem EXCEPT ![p][a] = NewPosition] \/ UNCHANGED mem
    BY DEF insert_position, SkipPosition
  <2> QED BY <1>1, <2>1, PositionTypes, MemPut DEF TypeOK
<1>5. job' \in [Procs -> Job]
  BY NoJobType, JobPut DEF insert_position
<1>6. NoFault \/ Fault(p)
  BY DEF insert_position
<1>7. faults' \in 0 .. MaxFaults /\ healthy' \in [Procs -> BOOLEAN]
  BY <1>6, FaultType
<1> QED
  BY <1>2, <1>3, <1>4, <1>5, <1>7 DEF TypeOK, insert_position, entry

LEMMA signal_exit_Type ==
  ASSUME TypeOK, NEW p \in Procs, NEW a \in Arms, signal_exit(p, a)
  PROVE  TypeOK'
<1>1. pc' \in [Procs -> Labels]
  BY GotoType DEF signal_exit, Working
<1>2. mem[p][a].remaining \in 0 .. Lot
  BY DEF TypeOK, Position
<1>3. PICK n \in Requests(mem[p][a]) :
        job' = [job EXCEPT ![p] = NewJob(a, n)]
  BY DEF signal_exit
<1>4. n \in 0 .. Lot
  BY <1>2, <1>3 DEF Requests
<1>5. job' \in [Procs -> Job]
  BY <1>3, <1>4, NewJobType, JobPut
<1> QED BY <1>1, <1>5 DEF TypeOK, signal_exit, db, entry

LEMMA sell_exit_Type ==
  ASSUME TypeOK, NEW p \in Procs, HandlerOK(p), sell_exit(p)
  PROVE  TypeOK'
<1> DEFINE a == job[p].arm
<1>1. a \in Arms /\ job[p].amount <= mem[p][a].remaining
  BY DEF sell_exit, HandlerOK, Working
<1>2. pc' \in [Procs -> Labels]
  BY GotoType DEF sell_exit, Working
<1>3. PICK n \in 1 .. job[p].amount :
        /\ Write(p, sold' = [sold EXCEPT ![a] = @ + n], UNCHANGED sold)
        /\ mem' = [mem EXCEPT ![p][a] = apply_exit(@, n)]
  BY DEF sell_exit
<1>4. n \in 1 .. mem[p][a].remaining
  BY <1>1, <1>3 DEF TypeOK, Job, Position
<1>5. apply_exit(mem[p][a], n) \in Position
  BY <1>1, <1>4, ApplyExitType DEF TypeOK
<1>6. mem' \in [Procs -> [Arms -> Position]]
  BY <1>1, <1>3, <1>5, MemPut
<1>7. sold' \in [Arms -> Nat]
  <2>1. sold' = [sold EXCEPT ![a] = @ + n] \/ UNCHANGED sold
    BY <1>3 DEF Write
  <2>2. n \in Nat
    BY <1>1, <1>3 DEF TypeOK, Job
  <2>3. sold[a] + n \in Nat
    BY <1>1, <2>2 DEF TypeOK
  <2> QED BY <1>1, <2>1, <2>3 DEF TypeOK
<1>8. backoff' \in [Procs -> SUBSET Arms]
  BY DEF TypeOK, sell_exit
<1>9. NoFault \/ Fault(p)
  BY <1>3 DEF Write
<1>10. faults' \in 0 .. MaxFaults /\ healthy' \in [Procs -> BOOLEAN]
  BY <1>9, FaultType
<1> QED
  BY <1>2, <1>6, <1>7, <1>8, <1>10 DEF TypeOK, sell_exit, entry

LEMMA save_ended_Type ==
  ASSUME TypeOK, NEW p \in Procs, NEW a \in Arms, save_ended(p, a)
  PROVE  TypeOK'
<1>1. pc' \in [Procs -> Labels]
  BY GotoType DEF save_ended, Stopping
<1>2. mem[p][a] \in Position
  BY DEF TypeOK
<1>3. row' = [row EXCEPT ![a] = mem[p][a]] \/ UNCHANGED row
  BY DEF save_ended, Write
<1>4. row' \in [Arms -> Position]
  BY <1>2, <1>3, RowPut
<1>5. todo' \in [Procs -> SUBSET Arms]
  BY DEF TypeOK, save_ended
<1>6. NoFault \/ Fault(p)
  BY DEF save_ended, Write
<1>7. faults' \in 0 .. MaxFaults /\ healthy' \in [Procs -> BOOLEAN]
  BY <1>6, FaultType
<1> QED
  BY <1>1, <1>4, <1>5, <1>7 DEF TypeOK, save_ended, entry

LEMMA session_end_positions_Type ==
  ASSUME TypeOK, NEW p \in Procs, session_end_positions(p)
  PROVE  TypeOK'
<1>1. pc' \in [Procs -> Labels]
  BY GotoType DEF session_end_positions
<1>2. row' = EndAll(row) \/ UNCHANGED row
  BY DEF session_end_positions, Write
<1>3. row' \in [Arms -> Position]
  <2>1. row \in [Arms -> Position] /\ EndAll(row) \in [Arms -> Position]
    BY EndAllType DEF TypeOK
  <2> QED BY <1>2, <2>1
<1>4. Forget(p)
  BY DEF session_end_positions
<1>5. NoFault \/ Fault(p)
  BY DEF session_end_positions, Write
<1>6. faults' \in 0 .. MaxFaults /\ healthy' \in [Procs -> BOOLEAN]
  BY <1>5, FaultType
<1> QED
  BY <1>1, <1>3, <1>4, <1>6, ForgetType DEF TypeOK, session_end_positions

LEMMA Crash_Type ==
  ASSUME TypeOK, NEW p \in Procs, Crash(p)
  PROVE  TypeOK'
<1>1. pc' \in [Procs -> Labels]
  BY GotoType DEF Crash
<1>2. faults' \in 0 .. MaxFaults /\ healthy' \in [Procs -> BOOLEAN]
  BY FaultType DEF Crash
<1>3. Forget(p)
  BY DEF Crash
<1> QED
  BY <1>1, <1>2, <1>3, ForgetType DEF TypeOK, Crash, db

LEMMA TypeStep ==
  ASSUME TypeOK, \A p \in Procs : HandlerOK(p), [Next]_vars
  PROVE  TypeOK'
<1>1. CASE UNCHANGED vars
  BY <1>1 DEF vars, db, runtime, TypeOK
<1>2. CASE Next
  BY <1>2, Start_Type, ensure_arm_claims_Type, load_lifetime_arms_Type,
     load_orphan_fills_Type, load_open_positions_Type,
     reconstruct_position_Type, reopen_position_Type, queue_arm_Type,
     flush_pending_Type, read_curve_Type, insert_order_claimed_Type,
     insert_position_Type, signal_exit_Type, fail_exit_Type, sell_exit_Type,
     save_position_Type, backoff_elapses_Type, end_session_Type,
     save_ended_Type, session_end_positions_Type, Crash_Type
  DEF Next, Progress, Restore, Entry, Exit, Stop
<1> QED BY <1>1, <1>2

(* What a step of process p does to the rest: it only adds BUY rows and   *)
(* positions, and leaves the other processes alone.                        *)

BuysGrow == ClaimedOnce' /\ \A a \in Arms : Filled(a) => Filled(a)'

RowsGrow == \A a \in Arms : (Held(a) => Held(a)') /\ (Held(a)' => Filled(a)')

OthersKeep(p) ==
  \A q \in Procs \ {p} :
    /\ pc'[q] = pc[q] /\ job'[q] = job[q] /\ todo'[q] = todo[q]
    /\ mem'[q] = mem[q] /\ view'[q] = view[q]

LEMMA Compose ==
  ASSUME IInv, TypeOK', NEW p \in Procs,
         BuysGrow, RowsGrow, OthersKeep(p), ProcOK(p)'
  PROVE  IInv'
<1>1. PositionHasFill'
  BY DEF RowsGrow, PositionHasFill
<1>2. ASSUME NEW q \in Procs \ {p}
      PROVE  ProcOK(q)'
  <2>1. HandlerOK(q)'
    <3>1. HandlerOK(q)
      BY DEF IInv, ProcOK
    <3> QED BY <3>1 DEF HandlerOK, OthersKeep, BuysGrow, Working
  <2>2. LoopOK(q)'
    <3>1. LoopOK(q) /\ todo[q] \subseteq Arms
      BY DEF IInv, ProcOK, TypeOK
    <3> QED BY <3>1 DEF LoopOK, OthersKeep, BuysGrow
  <2>3. Remembered(q)'
    <3>1. Remembered(q)
      BY DEF IInv, ProcOK
    <3> QED BY <3>1 DEF Remembered, OthersKeep, RowsGrow
  <2> QED BY <2>1, <2>2, <2>3 DEF ProcOK
<1> QED BY <1>1, <1>2 DEF IInv, BuysGrow

LEMMA BuysSame ==
  ASSUME IInv, UNCHANGED <<claims, fills, rejects>>
  PROVE  BuysGrow
BY DEF IInv, ClaimedOnce, BuysGrow, Filled

LEMMA RowsSame ==
  ASSUME IInv, UNCHANGED <<fills, row>>
  PROVE  RowsGrow
BY DEF IInv, PositionHasFill, RowsGrow, Held, Filled

LEMMA RowSet ==
  ASSUME IInv, UNCHANGED fills, NEW a \in Arms, Filled(a), NEW pos,
         pos.status # "NONE",
         row' = [row EXCEPT ![a] = pos] \/ UNCHANGED row
  PROVE  RowsGrow
BY DEF IInv, TypeOK, PositionHasFill, RowsGrow, Held, Filled

LEMMA MemSet ==
  ASSUME IInv, NEW p \in Procs, NEW a \in Arms, RowsGrow, NEW pos,
         mem' = [mem EXCEPT ![p][a] = pos] \/ UNCHANGED mem,
         mem' # mem => Held(a)',
         UNCHANGED view
  PROVE  Remembered(p)'
BY DEF IInv, TypeOK, ProcOK, Remembered, RowsGrow

LEMMA MemSame ==
  ASSUME IInv, NEW p \in Procs, RowsGrow, UNCHANGED <<mem, view>>
  PROVE  Remembered(p)'
BY DEF IInv, ProcOK, Remembered, RowsGrow

-----------------------------------------------------------------------------
(* Each action preserves the invariant. *)

LEMMA Start_Safe ==
  ASSUME IInv, TypeOK', NEW p \in Procs, Start(p)
  PROVE  IInv'
<1>1. BuysGrow
  BY BuysSame DEF Start, db
<1>2. RowsGrow
  BY RowsSame DEF Start, db
<1>3. OthersKeep(p)
  BY DEF IInv, TypeOK, Start, db, Goto, OthersKeep
<1>4. HandlerOK(p)'
  BY DEF IInv, TypeOK, ProcOK, HandlerOK, Start, db, Goto, Working
<1>5. LoopOK(p)'
  BY DEF IInv, TypeOK, ProcOK, LoopOK, Start, db, Goto
<1>6. Remembered(p)'
  BY <1>2, MemSame DEF Start, db
<1> QED BY <1>1, <1>2, <1>3, <1>4, <1>5, <1>6, Compose DEF ProcOK

LEMMA ensure_arm_claims_Safe ==
  ASSUME IInv, TypeOK', NEW p \in Procs, ensure_arm_claims(p)
  PROVE  IInv'
<1>1. BuysGrow
  <2>1. \A a \in Arms : Held(a) \/ Filled(a) => a \in claims
    BY DEF IInv, TypeOK, PositionHasFill, ClaimedOnce, Filled
  <2>2. HeldKeys \subseteq claims /\ LifetimeKeys = claims
    BY <2>1 DEF HeldKeys, LifetimeKeys, Evidence
  <2>3. UNCHANGED <<claims, fills, rejects>>
    BY <2>2 DEF ensure_arm_claims
  <2> QED BY <2>3, BuysSame
<1>2. RowsGrow
  BY RowsSame DEF ensure_arm_claims
<1>3. OthersKeep(p)
  BY DEF IInv, TypeOK, ensure_arm_claims, Goto, OthersKeep
<1>4. HandlerOK(p)'
  BY DEF IInv, TypeOK, ProcOK, HandlerOK, ensure_arm_claims, Goto, Working
<1>5. LoopOK(p)'
  BY DEF IInv, TypeOK, ProcOK, LoopOK, ensure_arm_claims, Goto
<1>6. Remembered(p)'
  BY <1>2, MemSame DEF ensure_arm_claims
<1> QED BY <1>1, <1>2, <1>3, <1>4, <1>5, <1>6, Compose DEF ProcOK

LEMMA load_lifetime_arms_Safe ==
  ASSUME IInv, TypeOK', NEW p \in Procs, load_lifetime_arms(p)
  PROVE  IInv'
<1>1. BuysGrow
  BY BuysSame DEF load_lifetime_arms, db
<1>2. RowsGrow
  BY RowsSame DEF load_lifetime_arms, db
<1>3. OthersKeep(p)
  BY DEF IInv, TypeOK, load_lifetime_arms, db, Goto, OthersKeep
<1>4. HandlerOK(p)'
  BY DEF IInv, TypeOK, ProcOK, HandlerOK, load_lifetime_arms, db, Goto, Working
<1>5. LoopOK(p)'
  BY DEF IInv, TypeOK, ProcOK, LoopOK, load_lifetime_arms, db, Goto
<1>6. Remembered(p)'
  BY <1>2, MemSame DEF load_lifetime_arms, db
<1> QED BY <1>1, <1>2, <1>3, <1>4, <1>5, <1>6, Compose DEF ProcOK

LEMMA load_orphan_fills_Safe ==
  ASSUME IInv, TypeOK', NEW p \in Procs, load_orphan_fills(p)
  PROVE  IInv'
<1>1. BuysGrow
  BY BuysSame DEF load_orphan_fills, db
<1>2. RowsGrow
  BY RowsSame DEF load_orphan_fills, db
<1>3. OthersKeep(p)
  BY DEF IInv, TypeOK, load_orphan_fills, db, Goto, OthersKeep
<1>4. HandlerOK(p)'
  BY DEF IInv, TypeOK, ProcOK, HandlerOK, load_orphan_fills, db, Goto, Working
<1>5. LoopOK(p)'
  <2>1. pc'[p] = "rebuild" => todo'[p] = Orphans
    BY DEF IInv, TypeOK, load_orphan_fills, Goto
  <2>2. \A a \in Orphans : Filled(a)'
    BY <1>1 DEF Orphans, OrphanFill, BuysGrow
  <2>3. pc'[p] \in {"open", "rebuild", "idle"}
    BY DEF IInv, TypeOK, load_orphan_fills, Goto
  <2> QED BY <2>1, <2>2, <2>3 DEF LoopOK
<1>6. Remembered(p)'
  BY <1>2, MemSame DEF load_orphan_fills, db
<1> QED BY <1>1, <1>2, <1>3, <1>4, <1>5, <1>6, Compose DEF ProcOK

LEMMA reconstruct_position_Safe ==
  ASSUME IInv, TypeOK', NEW p \in Procs, NEW a \in Arms,
         reconstruct_position(p, a)
  PROVE  IInv'
<1>1. BuysGrow
  BY BuysSame DEF reconstruct_position
<1>2. RowsGrow
  <2>1. row' = [row EXCEPT ![a] = NewPosition] \/ UNCHANGED row
    BY DEF reconstruct_position, InsertPosition
  <2>2. Filled(a) /\ UNCHANGED fills
    BY DEF IInv, ProcOK, LoopOK, reconstruct_position
  <2> QED BY <2>1, <2>2, PositionTypes, RowSet
<1>3. OthersKeep(p)
  BY DEF IInv, TypeOK, reconstruct_position, Goto, OthersKeep
<1>4. HandlerOK(p)'
  BY DEF IInv, TypeOK, ProcOK, HandlerOK, reconstruct_position, Goto, Working
<1>5. LoopOK(p)'
  <2>1. todo'[p] = todo[p] \ {a} /\ pc[p] = "rebuild"
        /\ pc'[p] \in {"open", "rebuild"}
    BY DEF IInv, TypeOK, reconstruct_position, Goto
  <2>2. \A b \in todo[p] : Filled(b) /\ b \in Arms
    BY <2>1 DEF IInv, TypeOK, ProcOK, LoopOK
  <2> QED BY <1>1, <2>1, <2>2 DEF LoopOK, BuysGrow
<1>6. Remembered(p)'
  <2>1. \/ mem' = [mem EXCEPT ![p][a] = NewPosition] /\ InsertPosition(a)
        \/ UNCHANGED mem
    BY DEF reconstruct_position
  <2>2. InsertPosition(a) => Held(a)'
    BY PositionTypes DEF IInv, TypeOK, InsertPosition, Held
  <2>3. UNCHANGED view
    BY DEF reconstruct_position
  <2> QED BY <1>2, <2>1, <2>2, <2>3, MemSet
<1> QED BY <1>1, <1>2, <1>3, <1>4, <1>5, <1>6, Compose DEF ProcOK

LEMMA load_open_positions_Safe ==
  ASSUME IInv, TypeOK', NEW p \in Procs, load_open_positions(p)
  PROVE  IInv'
<1>1. BuysGrow
  BY BuysSame DEF load_open_positions, db
<1>2. RowsGrow
  BY RowsSame DEF load_open_positions, db
<1>3. OthersKeep(p)
  BY DEF IInv, TypeOK, load_open_positions, db, Goto, OthersKeep
<1>4. HandlerOK(p)'
  BY DEF IInv, TypeOK, ProcOK, HandlerOK, load_open_positions, db, Goto, Working
<1>5. LoopOK(p)'
  <2>1. pc'[p] = "reopen" => todo'[p] = OpenRows /\ view'[p] = OpenView
    BY DEF IInv, TypeOK, load_open_positions, Goto
  <2>2. \A a \in OpenRows : OpenView[a].status # "NONE"
    BY DEF OpenRows, OpenRow, OpenView
  <2>3. pc'[p] \in {"reopen", "idle"}
    BY DEF IInv, TypeOK, load_open_positions, Goto
  <2> QED BY <2>1, <2>2, <2>3 DEF LoopOK
<1>6. Remembered(p)'
  <2>1. UNCHANGED <<row, mem>> /\ (view'[p] = OpenView \/ UNCHANGED view)
    BY DEF IInv, TypeOK, load_open_positions, db
  <2>2. \A a \in Arms : OpenView[a].status # "NONE" => Held(a)
    BY PositionTypes DEF OpenRows, OpenRow, OpenView, Held
  <2>3. Remembered(p)
    BY DEF IInv, ProcOK
  <2> QED BY <2>1, <2>2, <2>3 DEF Remembered, Held
<1> QED BY <1>1, <1>2, <1>3, <1>4, <1>5, <1>6, Compose DEF ProcOK

LEMMA reopen_position_Safe ==
  ASSUME IInv, TypeOK', NEW p \in Procs, NEW a \in Arms, reopen_position(p, a)
  PROVE  IInv'
<1>1. BuysGrow
  BY BuysSame DEF reopen_position
<1>2. RowsGrow
  <2>1. Held(a) /\ UNCHANGED fills
    BY DEF IInv, TypeOK, ProcOK, LoopOK, Remembered, reopen_position
  <2>2. Filled(a)
    BY <2>1 DEF IInv, PositionHasFill
  <2>3. \/ row' = [row EXCEPT ![a] = [view[p][a] EXCEPT !.status = "OPEN"]]
        \/ UNCHANGED row
    BY DEF reopen_position, Write
  <2> DEFINE reopened == [view[p][a] EXCEPT !.status = "OPEN"]
  <2>4. reopened.status # "NONE"
    BY ReopenType DEF IInv, TypeOK
  <2> HIDE DEF reopened
  <2>5. row' = [row EXCEPT ![a] = reopened] \/ UNCHANGED row
    BY <2>3 DEF reopened
  <2> QED BY <2>1, <2>2, <2>4, <2>5, RowSet
<1>3. OthersKeep(p)
  BY DEF IInv, TypeOK, reopen_position, Goto, OthersKeep
<1>4. HandlerOK(p)'
  BY DEF IInv, TypeOK, ProcOK, HandlerOK, reopen_position, Goto, Working
<1>5. LoopOK(p)'
  <2>1. /\ todo'[p] = todo[p] \ {a} /\ pc[p] = "reopen"
        /\ pc'[p] \in {"idle", "reopen"}
        /\ \A b \in Arms \ {a} : view'[p][b] = view[p][b]
    BY DEF IInv, TypeOK, reopen_position, Goto
  <2>2. \A b \in todo[p] : view[p][b].status # "NONE" /\ b \in Arms
    BY <2>1 DEF IInv, TypeOK, ProcOK, LoopOK
  <2> QED BY <2>1, <2>2 DEF LoopOK
<1>6. Remembered(p)'
  <2>1. Remembered(p) /\ Held(a)
    BY DEF IInv, TypeOK, ProcOK, LoopOK, Remembered, reopen_position
  <2>2. \A b \in Arms \ {a} : mem'[p][b] = mem[p][b] /\ view'[p][b] = view[p][b]
    BY DEF IInv, TypeOK, reopen_position
  <2> QED BY <1>2, <2>1, <2>2 DEF Remembered, RowsGrow
<1> QED BY <1>1, <1>2, <1>3, <1>4, <1>5, <1>6, Compose DEF ProcOK

LEMMA queue_arm_Safe ==
  ASSUME IInv, TypeOK', NEW p \in Procs, NEW a \in Arms, queue_arm(p, a)
  PROVE  IInv'
<1>1. BuysGrow
  BY BuysSame DEF queue_arm, db
<1>2. RowsGrow
  BY RowsSame DEF queue_arm, db
<1>3. OthersKeep(p)
  BY DEF IInv, TypeOK, queue_arm, db, Goto, OthersKeep
<1>4. HandlerOK(p)'
  BY DEF IInv, TypeOK, ProcOK, HandlerOK, queue_arm, db, Goto, Working
<1>5. LoopOK(p)'
  BY DEF IInv, TypeOK, ProcOK, LoopOK, queue_arm, db, Goto
<1>6. Remembered(p)'
  BY <1>2, MemSame DEF queue_arm, db
<1> QED BY <1>1, <1>2, <1>3, <1>4, <1>5, <1>6, Compose DEF ProcOK

LEMMA flush_pending_Safe ==
  ASSUME IInv, TypeOK', NEW p \in Procs, NEW a \in Arms, flush_pending(p, a)
  PROVE  IInv'
<1>1. BuysGrow
  BY BuysSame DEF flush_pending, db, Dequeue, entry
<1>2. RowsGrow
  BY RowsSame DEF flush_pending, db, Dequeue, entry
<1>3. OthersKeep(p)
  BY DEF IInv, TypeOK, flush_pending, db, Dequeue, entry, Goto, OthersKeep
<1>4. HandlerOK(p)'
  <2>1. pc[p] = "idle" /\ pc'[p] \in {"idle", "read"}
    BY DEF IInv, TypeOK, flush_pending, Goto
  <2>2. pc'[p] = "read" => job'[p] = NewJob(a, 0)
    BY <2>1 DEF IInv, TypeOK, flush_pending, Goto
  <2>3. 0 \in 0 .. Lot
    OBVIOUS
  <2> QED BY <2>1, <2>2, <2>3, NewJobType DEF HandlerOK, Working
<1>5. LoopOK(p)'
  BY DEF IInv, TypeOK, ProcOK, LoopOK, flush_pending, db, Dequeue, entry, Goto
<1>6. Remembered(p)'
  BY <1>2, MemSame DEF flush_pending, db, Dequeue, entry
<1> QED BY <1>1, <1>2, <1>3, <1>4, <1>5, <1>6, Compose DEF ProcOK

LEMMA read_curve_Safe ==
  ASSUME IInv, TypeOK', NEW p \in Procs, read_curve(p)
  PROVE  IInv'
<1>1. BuysGrow
  BY BuysSame DEF read_curve, db
<1>2. RowsGrow
  BY RowsSame DEF read_curve, db
<1>3. OthersKeep(p)
  BY DEF IInv, TypeOK, read_curve, db, Goto, OthersKeep
<1>4. HandlerOK(p)'
  <2>1. pc[p] = "read" /\ pc'[p] \in {"idle", "claim"}
    BY DEF IInv, TypeOK, read_curve, Goto
  <2>2. job[p] \in Job /\ job[p].arm \in Arms
    BY <2>1 DEF IInv, TypeOK, ProcOK, HandlerOK, Working
  <2>3. pc'[p] = "claim" => \E b \in {"UNREADABLE", "REJECTED", "FILLED"} :
                               job'[p] = [job[p] EXCEPT !.buy = b]
    BY <2>1 DEF IInv, TypeOK, read_curve, Goto
  <2> QED BY <2>1, <2>2, <2>3, BuyJobType DEF HandlerOK, Working
<1>5. LoopOK(p)'
  BY DEF IInv, TypeOK, ProcOK, LoopOK, read_curve, db, Goto
<1>6. Remembered(p)'
  BY <1>2, MemSame DEF read_curve, db
<1> QED BY <1>1, <1>2, <1>3, <1>4, <1>5, <1>6, Compose DEF ProcOK

LEMMA insert_order_claimed_Safe ==
  ASSUME IInv, TypeOK', NEW p \in Procs, insert_order_claimed(p)
  PROVE  IInv'
<1>1. BuysGrow
  <2> DEFINE a == job[p].arm
  <2>1. a \in Arms
    BY DEF IInv, ProcOK, HandlerOK, insert_order_claimed, Working
  <2>2. CASE UNCHANGED <<claims, fills, rejects>>
    BY <2>2, BuysSame
  <2>3. CASE Claimable(a) /\ ClaimBuy(a, job[p].buy)
    <3>1. claims' = claims \cup {a} /\ a \notin claims
      BY <2>3 DEF Claimable, ClaimBuy
    <3>2. \/ fills' = [fills EXCEPT ![a] = @ + 1] /\ UNCHANGED rejects
          \/ rejects' = [rejects EXCEPT ![a] = @ + 1] /\ UNCHANGED fills
      BY <2>3 DEF ClaimBuy
    <3>3. fills \in [Arms -> Nat] /\ rejects \in [Arms -> Nat]
      BY DEF IInv, TypeOK
    <3>4. ClaimedOnce'
      BY <2>1, <3>1, <3>2, <3>3 DEF IInv, ClaimedOnce
    <3>5. \A b \in Arms : Filled(b) => Filled(b)'
      BY <2>1, <3>2, <3>3 DEF Filled
    <3> QED BY <3>4, <3>5 DEF BuysGrow
  <2> QED BY <2>2, <2>3 DEF insert_order_claimed, LostCommit
<1>2. RowsGrow
  <2>1. UNCHANGED row
    BY DEF insert_order_claimed
  <2> QED BY <1>1, <2>1 DEF IInv, PositionHasFill, BuysGrow, RowsGrow, Held
<1>3. OthersKeep(p)
  BY DEF IInv, TypeOK, insert_order_claimed, Goto, OthersKeep
<1>4. HandlerOK(p)'
  <2>1. pc[p] = "claim" /\ pc'[p] \in {"idle", "position"}
    BY DEF IInv, TypeOK, insert_order_claimed, Goto
  <2>2. job[p].arm \in Arms
    BY <2>1 DEF IInv, ProcOK, HandlerOK, Working
  <2>3. pc'[p] = "position" =>
          /\ job'[p] = job[p]
          /\ fills' = [fills EXCEPT ![job[p].arm] = @ + 1]
    BY <2>1 DEF IInv, TypeOK, insert_order_claimed, ClaimBuy, Goto
  <2>4. pc'[p] = "position" => Filled(job[p].arm)'
    BY <2>2, <2>3 DEF IInv, TypeOK, Filled
  <2> QED BY <2>1, <2>2, <2>3, <2>4 DEF HandlerOK, Working, Filled
<1>5. LoopOK(p)'
  BY DEF IInv, TypeOK, ProcOK, LoopOK, insert_order_claimed, Goto
<1>6. Remembered(p)'
  BY <1>2, MemSame DEF insert_order_claimed
<1> QED BY <1>1, <1>2, <1>3, <1>4, <1>5, <1>6, Compose DEF ProcOK

LEMMA insert_position_Safe ==
  ASSUME IInv, TypeOK', NEW p \in Procs, insert_position(p)
  PROVE  IInv'
<1>1. BuysGrow
  BY BuysSame DEF insert_position, SkipPosition
<1>2. RowsGrow
  <2>1. row' = [row EXCEPT ![job[p].arm] = NewPosition] \/ UNCHANGED row
    BY DEF insert_position, InsertPosition
  <2>2. job[p].arm \in Arms /\ Filled(job[p].arm) /\ UNCHANGED fills
    BY DEF IInv, ProcOK, HandlerOK, insert_position, Working
  <2> QED BY <2>1, <2>2, PositionTypes, RowSet
<1>3. OthersKeep(p)
  BY DEF IInv, TypeOK, insert_position, SkipPosition, Goto, OthersKeep
<1>4. HandlerOK(p)'
  BY DEF IInv, TypeOK, ProcOK, HandlerOK, insert_position, SkipPosition,
         Goto, Working
<1>5. LoopOK(p)'
  BY DEF IInv, TypeOK, ProcOK, LoopOK, insert_position, SkipPosition, Goto
<1>6. Remembered(p)'
  <2>1. PICK a \in Arms : a = job[p].arm
    BY DEF IInv, ProcOK, HandlerOK, insert_position, Working
  <2>2. \/ mem' = [mem EXCEPT ![p][a] = NewPosition] /\ InsertPosition(a)
        \/ UNCHANGED mem
    BY <2>1 DEF insert_position, SkipPosition
  <2>3. InsertPosition(a) => Held(a)'
    BY <2>1, PositionTypes DEF IInv, TypeOK, InsertPosition, Held
  <2>4. UNCHANGED view
    BY DEF insert_position
  <2> QED BY <1>2, <2>1, <2>2, <2>3, <2>4, MemSet
<1> QED BY <1>1, <1>2, <1>3, <1>4, <1>5, <1>6, Compose DEF ProcOK

LEMMA signal_exit_Safe ==
  ASSUME IInv, TypeOK', NEW p \in Procs, NEW a \in Arms, signal_exit(p, a)
  PROVE  IInv'
<1>1. BuysGrow
  BY BuysSame DEF signal_exit, db
<1>2. RowsGrow
  BY RowsSame DEF signal_exit, db
<1>3. OthersKeep(p)
  BY DEF IInv, TypeOK, signal_exit, db, Goto, OthersKeep
<1>4. HandlerOK(p)'
  <2>1. pc'[p] = "exit" /\ UNCHANGED mem /\ mem[p][a].status = "OPEN"
    BY DEF IInv, TypeOK, signal_exit, Goto
  <2>2. PICK n \in Requests(mem[p][a]) : job'[p] = NewJob(a, n)
    BY DEF IInv, TypeOK, signal_exit
  <2>3. mem[p][a].remaining \in 0 .. Lot
    BY DEF IInv, TypeOK, Position
  <2>4. n \in 0 .. Lot /\ n <= mem[p][a].remaining
    BY <2>2, <2>3 DEF Requests
  <2> QED BY <2>1, <2>2, <2>4, NewJobType DEF HandlerOK
<1>5. LoopOK(p)'
  BY DEF IInv, TypeOK, ProcOK, LoopOK, signal_exit, db, Goto
<1>6. Remembered(p)'
  BY <1>2, MemSame DEF signal_exit, db
<1> QED BY <1>1, <1>2, <1>3, <1>4, <1>5, <1>6, Compose DEF ProcOK

LEMMA fail_exit_Safe ==
  ASSUME IInv, TypeOK', NEW p \in Procs, fail_exit(p)
  PROVE  IInv'
<1>1. BuysGrow
  BY BuysSame DEF fail_exit, db
<1>2. RowsGrow
  BY RowsSame DEF fail_exit, db
<1>3. OthersKeep(p)
  BY DEF IInv, TypeOK, fail_exit, db, Goto, OthersKeep
<1>4. HandlerOK(p)'
  BY DEF IInv, TypeOK, ProcOK, HandlerOK, fail_exit, db, Goto, Working
<1>5. LoopOK(p)'
  BY DEF IInv, TypeOK, ProcOK, LoopOK, fail_exit, db, Goto
<1>6. Remembered(p)'
  BY <1>2, MemSame DEF fail_exit, db
<1> QED BY <1>1, <1>2, <1>3, <1>4, <1>5, <1>6, Compose DEF ProcOK

LEMMA sell_exit_Safe ==
  ASSUME IInv, TypeOK', NEW p \in Procs, sell_exit(p)
  PROVE  IInv'
<1>1. BuysGrow
  BY BuysSame DEF sell_exit
<1>2. RowsGrow
  BY RowsSame DEF sell_exit
<1>3. OthersKeep(p)
  BY DEF IInv, TypeOK, sell_exit, Goto, OthersKeep
<1>4. HandlerOK(p)'
  <2> DEFINE a == job[p].arm
  <2>1. pc'[p] = "save" /\ UNCHANGED job /\ pc[p] = "exit"
    BY DEF IInv, TypeOK, sell_exit, Goto
  <2>2. a \in Arms /\ mem[p][a].status # "NONE"
        /\ job[p].amount <= mem[p][a].remaining
    BY <2>1 DEF IInv, ProcOK, HandlerOK, Working
  <2>3. PICK n \in 1 .. job[p].amount : mem'[p][a] = apply_exit(mem[p][a], n)
    BY <2>2 DEF IInv, TypeOK, sell_exit
  <2>4. mem[p][a] \in Position /\ n \in 1 .. mem[p][a].remaining
    BY <2>2, <2>3 DEF IInv, TypeOK, Job, Position
  <2> QED BY <2>1, <2>2, <2>3, <2>4, ApplyExitType DEF HandlerOK
<1>5. LoopOK(p)'
  BY DEF IInv, TypeOK, ProcOK, LoopOK, sell_exit, Goto
<1>6. Remembered(p)'
  <2>1. PICK a \in Arms : a = job[p].arm /\ mem[p][a].status # "NONE"
    BY DEF IInv, ProcOK, HandlerOK, sell_exit, Working
  <2>2. Held(a)'
    BY <1>2, <2>1 DEF IInv, ProcOK, Remembered, RowsGrow
  <2>3. UNCHANGED view
    BY DEF sell_exit
  <2>4. PICK n : mem' = [mem EXCEPT ![p][a] = apply_exit(@, n)]
    BY <2>1 DEF sell_exit
  <2> QED BY <1>2, <2>1, <2>2, <2>3, <2>4, MemSet
<1> QED BY <1>1, <1>2, <1>3, <1>4, <1>5, <1>6, Compose DEF ProcOK

LEMMA save_position_Safe ==
  ASSUME IInv, TypeOK', NEW p \in Procs, save_position(p)
  PROVE  IInv'
<1>1. BuysGrow
  BY BuysSame DEF save_position
<1>2. RowsGrow
  <2> DEFINE a == job[p].arm
  <2>1. a \in Arms /\ mem[p][a].status # "NONE"
    BY DEF IInv, ProcOK, HandlerOK, save_position, Working
  <2>2. Filled(a) /\ UNCHANGED fills
    BY <2>1 DEF IInv, ProcOK, Remembered, PositionHasFill, save_position
  <2>3. row' = [row EXCEPT ![a] = mem[p][a]] \/ UNCHANGED row
    BY DEF save_position, StoredForm, Write
  <2> QED BY <2>1, <2>2, <2>3, RowSet
<1>3. OthersKeep(p)
  BY DEF IInv, TypeOK, save_position, Goto, OthersKeep
<1>4. HandlerOK(p)'
  BY DEF IInv, TypeOK, ProcOK, HandlerOK, save_position, Goto, Working
<1>5. LoopOK(p)'
  BY DEF IInv, TypeOK, ProcOK, LoopOK, save_position, Goto
<1>6. Remembered(p)'
  BY <1>2, MemSame DEF save_position
<1> QED BY <1>1, <1>2, <1>3, <1>4, <1>5, <1>6, Compose DEF ProcOK

LEMMA backoff_elapses_Safe ==
  ASSUME IInv, TypeOK', NEW p \in Procs, NEW a \in Arms, backoff_elapses(p, a)
  PROVE  IInv'
<1>1. BuysGrow
  BY BuysSame DEF backoff_elapses, db, Filled
<1>2. RowsGrow
  BY RowsSame DEF backoff_elapses, db, Filled
<1>3. OthersKeep(p)
  BY DEF IInv, TypeOK, backoff_elapses, db, Filled, Goto, OthersKeep
<1>4. HandlerOK(p)'
  BY DEF IInv, TypeOK, ProcOK, HandlerOK, backoff_elapses, db, Filled,
         Goto, Working
<1>5. LoopOK(p)'
  BY DEF IInv, TypeOK, ProcOK, LoopOK, backoff_elapses, db, Filled, Goto
<1>6. Remembered(p)'
  BY <1>2, MemSame DEF backoff_elapses, db, Filled
<1> QED BY <1>1, <1>2, <1>3, <1>4, <1>5, <1>6, Compose DEF ProcOK

LEMMA end_session_Safe ==
  ASSUME IInv, TypeOK', NEW p \in Procs, end_session(p)
  PROVE  IInv'
<1>1. BuysGrow
  BY BuysSame DEF end_session, db
<1>2. RowsGrow
  BY RowsSame DEF end_session, db
<1>3. OthersKeep(p)
  BY DEF IInv, TypeOK, end_session, db, Goto, OthersKeep
<1>4. HandlerOK(p)'
  BY DEF IInv, TypeOK, ProcOK, HandlerOK, end_session, db, Goto, Working
<1>5. LoopOK(p)'
  <2>1. /\ pc'[p] \in {"sweep", "ending"} /\ todo'[p] = Managed(p)
        /\ mem'[p] = EndAll(mem[p])
    BY DEF IInv, TypeOK, end_session, Goto
  <2>2. \A a \in Managed(p) : mem'[p][a].status # "NONE"
    BY <2>1, EndOpenType DEF IInv, TypeOK, Managed, EndAll
  <2> QED BY <2>1, <2>2 DEF LoopOK
<1>6. Remembered(p)'
  <2>1. mem'[p] = EndAll(mem[p]) /\ UNCHANGED view
    BY DEF IInv, TypeOK, end_session
  <2>2. \A a \in Arms : mem'[p][a].status # "NONE" => mem[p][a].status # "NONE"
    BY <2>1, EndOpenType DEF IInv, TypeOK, EndAll
  <2>3. Remembered(p)
    BY DEF IInv, ProcOK
  <2> QED BY <1>2, <2>1, <2>2, <2>3 DEF Remembered, RowsGrow
<1> QED BY <1>1, <1>2, <1>3, <1>4, <1>5, <1>6, Compose DEF ProcOK

LEMMA save_ended_Safe ==
  ASSUME IInv, TypeOK', NEW p \in Procs, NEW a \in Arms, save_ended(p, a)
  PROVE  IInv'
<1>1. BuysGrow
  BY BuysSame DEF save_ended
<1>2. RowsGrow
  <2>1. mem[p][a].status # "NONE"
    BY DEF IInv, ProcOK, LoopOK, save_ended
  <2>2. Filled(a) /\ UNCHANGED fills
    BY <2>1 DEF IInv, ProcOK, Remembered, PositionHasFill, save_ended
  <2>3. row' = [row EXCEPT ![a] = mem[p][a]] \/ UNCHANGED row
    BY DEF save_ended, Write
  <2> QED BY <2>1, <2>2, <2>3, RowSet
<1>3. OthersKeep(p)
  BY DEF IInv, TypeOK, save_ended, Goto, OthersKeep
<1>4. HandlerOK(p)'
  BY DEF IInv, TypeOK, ProcOK, HandlerOK, save_ended, Goto, Working
<1>5. LoopOK(p)'
  <2>1. todo'[p] = todo[p] \ {a} /\ pc[p] = "ending" /\ UNCHANGED mem
        /\ pc'[p] \in {"sweep", "ending"}
    BY DEF IInv, TypeOK, save_ended, Goto
  <2>2. \A b \in todo[p] : mem[p][b].status # "NONE"
    BY <2>1 DEF IInv, ProcOK, LoopOK
  <2> QED BY <2>1, <2>2 DEF LoopOK
<1>6. Remembered(p)'
  BY <1>2, MemSame DEF save_ended
<1> QED BY <1>1, <1>2, <1>3, <1>4, <1>5, <1>6, Compose DEF ProcOK

LEMMA session_end_positions_Safe ==
  ASSUME IInv, TypeOK', NEW p \in Procs, session_end_positions(p)
  PROVE  IInv'
<1>1. BuysGrow
  BY BuysSame DEF session_end_positions, Forget
<1>2. RowsGrow
  <2>1. UNCHANGED fills /\ (row' = EndAll(row) \/ UNCHANGED row)
    BY DEF session_end_positions, Write
  <2>2. \A a \in Arms : Held(a)' <=> Held(a)
    BY <2>1, EndOpenType DEF IInv, TypeOK, EndAll, Held
  <2> QED BY <2>1, <2>2 DEF IInv, PositionHasFill, RowsGrow, Filled
<1>3. OthersKeep(p)
  BY DEF IInv, TypeOK, session_end_positions, Forget, Goto, OthersKeep
<1>4. HandlerOK(p)'
  BY DEF IInv, TypeOK, HandlerOK, session_end_positions, Goto, Working
<1>5. LoopOK(p)'
  BY DEF IInv, TypeOK, LoopOK, session_end_positions, Goto
<1>6. Remembered(p)'
  <2>1. mem'[p] = NoPositions /\ view'[p] = NoPositions
    BY DEF IInv, TypeOK, session_end_positions, Forget
  <2> QED BY <2>1, PositionTypes DEF NoPositions, Remembered
<1> QED BY <1>1, <1>2, <1>3, <1>4, <1>5, <1>6, Compose DEF ProcOK

LEMMA Crash_Safe ==
  ASSUME IInv, TypeOK', NEW p \in Procs, Crash(p)
  PROVE  IInv'
<1>1. BuysGrow
  BY BuysSame DEF Crash, db, Forget
<1>2. RowsGrow
  BY RowsSame DEF Crash, db, Forget
<1>3. OthersKeep(p)
  BY DEF IInv, TypeOK, Crash, db, Forget, Goto, OthersKeep
<1>4. HandlerOK(p)'
  BY DEF IInv, TypeOK, HandlerOK, Crash, Goto, Working
<1>5. LoopOK(p)'
  BY DEF IInv, TypeOK, LoopOK, Crash, Goto
<1>6. Remembered(p)'
  <2>1. mem'[p] = NoPositions /\ view'[p] = NoPositions
    BY DEF IInv, TypeOK, Crash, Forget
  <2> QED BY <2>1, PositionTypes DEF NoPositions, Remembered
<1> QED BY <1>1, <1>2, <1>3, <1>4, <1>5, <1>6, Compose DEF ProcOK

(* The invariant holds initially and every step keeps it. *)

LEMMA IInvInit ==
  Init => IInv
<1> SUFFICES ASSUME Init PROVE IInv
  OBVIOUS
<1>1. NoPositions \in [Arms -> Position] /\ NoJob \in Job
  BY PositionTypes, NoJobType DEF NoPositions
<1>2. TypeOK
  BY <1>1 DEF Init, TypeOK, Labels
<1>3. ClaimedOnce /\ PositionHasFill
  BY DEF Init, ClaimedOnce, PositionHasFill, Held, NoPositions, NoPosition
<1>4. ASSUME NEW p \in Procs PROVE ProcOK(p)
  BY DEF Init, ProcOK, HandlerOK, LoopOK, Remembered, Working, NoPositions,
         NoPosition
<1> QED BY <1>2, <1>3, <1>4 DEF IInv

LEMMA IInvStep ==
  IInv /\ [Next]_vars => IInv'
<1> SUFFICES ASSUME IInv, [Next]_vars PROVE IInv'
  OBVIOUS
<1>1. TypeOK'
  BY TypeStep DEF IInv, ProcOK
<1>2. CASE UNCHANGED vars
  BY <1>1, <1>2 DEF vars, db, runtime, IInv, ClaimedOnce, PositionHasFill,
     ProcOK, HandlerOK, LoopOK, Remembered, Held, Filled
<1>3. CASE Next
  BY <1>1, <1>3, Start_Safe, ensure_arm_claims_Safe, load_lifetime_arms_Safe,
     load_orphan_fills_Safe, load_open_positions_Safe,
     reconstruct_position_Safe, reopen_position_Safe, queue_arm_Safe,
     flush_pending_Safe, read_curve_Safe, insert_order_claimed_Safe,
     insert_position_Safe, signal_exit_Safe, fail_exit_Safe,
     sell_exit_Safe, save_position_Safe, backoff_elapses_Safe,
     end_session_Safe, save_ended_Safe, session_end_positions_Safe,
     Crash_Safe
  DEF Next, Progress, Restore, Entry, Exit, Stop
<1> QED BY <1>2, <1>3

-----------------------------------------------------------------------------
(* The theorems. *)

(* The inductive invariant.  ClaimedOnce and PositionHasFill alone are not *)
(* inductive: insert_position and the restore loops act on locals that an  *)
(* earlier step read, and ProcOK says those are still true when used.      *)
THEOREM Invariance == Spec => []IInv
<1> QED BY IInvInit, IInvStep, PTL DEF Spec

(* Type correctness of the rows, the runtime of every process and the      *)
(* locals of its handlers.                                                 *)
THEOREM TypeCorrect == Spec => []TypeOK
<1>1. IInv => TypeOK
  BY DEF IInv
<1> QED BY <1>1, Invariance, PTL

(* A key has exactly one BUY row once it is claimed and none before, with  *)
(* any number of processes and any number of crashes and lost replies.     *)
THEOREM EntryClaimedOnce == Spec => []ClaimedOnce
<1>1. IInv => ClaimedOnce
  BY DEF IInv
<1> QED BY <1>1, Invariance, PTL

(* Every stored position, reconstructed ones included, has a filled BUY.   *)
THEOREM PositionsHaveFills == Spec => []PositionHasFill
<1>1. IInv => PositionHasFill
  BY DEF IInv
<1> QED BY <1>1, Invariance, PTL

(* A process never manages a position that is not stored or whose key is   *)
(* not claimed.                                                            *)
THEOREM MemoryIsBacked == Spec => []MemoryBacked
<1>1. IInv => MemoryBacked
  <2> SUFFICES ASSUME IInv, NEW p \in Procs, NEW a \in Arms,
                      mem[p][a].status # "NONE"
               PROVE  Held(a) /\ a \in claims
    BY DEF MemoryBacked
  <2>1. Held(a)
    BY DEF IInv, ProcOK, Remembered
  <2>2. Filled(a)
    BY <2>1 DEF IInv, PositionHasFill
  <2>3. a \in claims
    BY <2>2 DEF IInv, TypeOK, ClaimedOnce, Filled
  <2> QED BY <2>1, <2>3
<1> QED BY <1>1, Invariance, PTL

-----------------------------------------------------------------------------
(* The refinement: what a step does to the database seen as stages. *)

NoMove == /\ UNCHANGED <<fills, rejects>>
          /\ \A a \in Arms : Held(a)' <=> Held(a)

ClaimMove == /\ UNCHANGED row
             /\ \E a \in Arms, buy \in Results : /\ Claimable(a)
                                                 /\ ClaimBuy(a, buy)

HoldMove == /\ UNCHANGED <<fills, rejects>>
            /\ \E a \in Arms : Filled(a) /\ ~Held(a) /\ InsertPosition(a)

LEMMA SameRow ==
  ASSUME UNCHANGED <<fills, rejects, row>>
  PROVE  NoMove
BY DEF NoMove, Held

LEMMA HeldRow ==
  ASSUME IInv, UNCHANGED <<fills, rejects>>, NEW a \in Arms, Held(a), NEW pos,
         pos.status # "NONE",
         row' = [row EXCEPT ![a] = pos] \/ UNCHANGED row
  PROVE  NoMove
BY DEF IInv, TypeOK, NoMove, Held

LEMMA StageMove ==
  ASSUME IInv, [Next]_vars
  PROVE  NoMove \/ ClaimMove \/ HoldMove
<1>1. CASE UNCHANGED vars
  BY <1>1, SameRow DEF vars, db
<1>2. CASE Next
  <2>1. PICK p \in Procs :
          \/ Start(p) \/ Progress(p) \/ end_session(p) \/ Crash(p)
          \/ \E a \in Arms : \/ queue_arm(p, a) \/ flush_pending(p, a)
                             \/ signal_exit(p, a) \/ backoff_elapses(p, a)
    BY <1>2 DEF Next
  <2>2. CASE Start(p) \/ end_session(p) \/ Crash(p)
    BY <2>2, SameRow DEF Start, end_session, Crash, db
  <2>3. CASE \E a \in Arms : \/ queue_arm(p, a) \/ flush_pending(p, a)
                             \/ signal_exit(p, a) \/ backoff_elapses(p, a)
    BY <2>3, SameRow DEF queue_arm, flush_pending, signal_exit,
       backoff_elapses, db
  <2>4. CASE \/ ensure_arm_claims(p) \/ load_lifetime_arms(p)
             \/ load_orphan_fills(p) \/ load_open_positions(p)
             \/ read_curve(p) \/ fail_exit(p) \/ sell_exit(p)
    BY <2>4, SameRow DEF ensure_arm_claims, load_lifetime_arms,
       load_orphan_fills, load_open_positions, read_curve, fail_exit,
       sell_exit, db
  <2>5. ASSUME NEW a \in Arms, reconstruct_position(p, a)
        PROVE  NoMove \/ HoldMove
    <3>1. Filled(a) /\ UNCHANGED <<fills, rejects>>
      BY <2>5 DEF IInv, ProcOK, LoopOK, reconstruct_position
    <3>2. UNCHANGED row \/ (~Held(a) /\ InsertPosition(a))
      BY <2>5 DEF reconstruct_position
    <3> QED BY <3>1, <3>2, SameRow DEF HoldMove
  <2>6. ASSUME NEW a \in Arms, reopen_position(p, a)
        PROVE  NoMove
    <3>1. Held(a) /\ view[p][a] \in Position /\ UNCHANGED <<fills, rejects>>
      BY <2>6 DEF IInv, TypeOK, ProcOK, LoopOK, Remembered, reopen_position
    <3>2. \/ row' = [row EXCEPT ![a] = [view[p][a] EXCEPT !.status = "OPEN"]]
          \/ UNCHANGED row
      BY <2>6 DEF reopen_position, Write
    <3> DEFINE reopened == [view[p][a] EXCEPT !.status = "OPEN"]
    <3>3. reopened.status # "NONE"
      BY <3>1, ReopenType
    <3> HIDE DEF reopened
    <3>4. row' = [row EXCEPT ![a] = reopened] \/ UNCHANGED row
      BY <3>2 DEF reopened
    <3> QED BY <3>1, <3>3, <3>4, HeldRow
  <2>7. CASE insert_order_claimed(p)
    <3>1. PICK a \in Arms : a = job[p].arm
      BY <2>7 DEF IInv, ProcOK, HandlerOK, insert_order_claimed, Working
    <3>2. UNCHANGED row /\ job[p].buy \in Results
      BY <2>7 DEF IInv, TypeOK, Job, insert_order_claimed
    <3>3. \/ UNCHANGED <<fills, rejects>>
          \/ Claimable(a) /\ ClaimBuy(a, job[p].buy)
      BY <2>7, <3>1 DEF insert_order_claimed, LostCommit
    <3> QED BY <3>2, <3>3, SameRow DEF ClaimMove
  <2>8. CASE insert_position(p)
    <3>1. PICK a \in Arms : a = job[p].arm /\ Filled(a)
      BY <2>8 DEF IInv, ProcOK, HandlerOK, insert_position, Working
    <3>2. UNCHANGED <<fills, rejects>>
      BY <2>8 DEF insert_position
    <3>3. UNCHANGED row \/ (~Held(a) /\ InsertPosition(a))
      BY <2>8, <3>1 DEF insert_position
    <3> QED BY <3>1, <3>2, <3>3, SameRow DEF HoldMove
  <2>9. CASE save_position(p)
    <3>1. PICK a \in Arms : a = job[p].arm /\ mem[p][a].status # "NONE"
      BY <2>9 DEF IInv, ProcOK, HandlerOK, save_position, Working
    <3>2. Held(a) /\ UNCHANGED <<fills, rejects>>
      BY <2>9, <3>1 DEF IInv, ProcOK, Remembered, save_position
    <3>3. row' = [row EXCEPT ![a] = mem[p][a]] \/ UNCHANGED row
      BY <2>9, <3>1 DEF save_position, StoredForm, Write
    <3> QED BY <3>1, <3>2, <3>3, HeldRow
  <2>10. ASSUME NEW a \in Arms, save_ended(p, a)
         PROVE  NoMove
    <3>1. mem[p][a].status # "NONE"
      BY <2>10 DEF IInv, ProcOK, LoopOK, save_ended
    <3>2. Held(a) /\ UNCHANGED <<fills, rejects>>
      BY <2>10, <3>1 DEF IInv, ProcOK, Remembered, save_ended
    <3>3. row' = [row EXCEPT ![a] = mem[p][a]] \/ UNCHANGED row
      BY <2>10 DEF save_ended, Write
    <3> QED BY <3>1, <3>2, <3>3, HeldRow
  <2>11. CASE session_end_positions(p)
    <3>1. UNCHANGED <<fills, rejects>> /\ (row' = EndAll(row) \/ UNCHANGED row)
      BY <2>11 DEF session_end_positions, Write
    <3>2. \A a \in Arms : Held(a)' <=> Held(a)
      BY <3>1, EndOpenType DEF IInv, TypeOK, EndAll, Held
    <3> QED BY <3>1, <3>2 DEF NoMove
  <2> QED
    BY <2>1, <2>2, <2>3, <2>4, <2>5, <2>6, <2>7, <2>8, <2>9, <2>10, <2>11
    DEF Progress, Restore, Entry, Exit, Stop
<1> QED BY <1>1, <1>2

LEMMA StageNoMove ==
  ASSUME IInv, NoMove
  PROVE  UNCHANGED stage
<1>1. \A a \in Arms : /\ Filled(a)' <=> Filled(a)
                      /\ rejects'[a] = rejects[a]
                      /\ Held(a)' <=> Held(a)
  BY DEF NoMove, Filled
<1> QED BY <1>1 DEF stage

LEMMA StageClaim ==
  ASSUME IInv, ClaimMove
  PROVE  Lifetime!Next
<1>1. PICK a \in Arms : \E buy \in Results : Claimable(a) /\ ClaimBuy(a, buy)
  BY DEF ClaimMove
<1>2. /\ fills \in [Arms -> Nat] /\ rejects \in [Arms -> Nat]
      /\ fills[a] + rejects[a] = 0
  BY <1>1 DEF IInv, TypeOK, ClaimedOnce, Claimable
<1>3. fills[a] = 0 /\ rejects[a] = 0 /\ ~Filled(a) /\ ~Held(a)
  BY <1>2 DEF IInv, PositionHasFill, Filled
<1>4. UNCHANGED row /\ \A b \in Arms : Held(b)' <=> Held(b)
  BY DEF ClaimMove, Held
<1>5. \/ fills' = [fills EXCEPT ![a] = @ + 1] /\ UNCHANGED rejects
      \/ rejects' = [rejects EXCEPT ![a] = @ + 1] /\ UNCHANGED fills
  BY <1>1 DEF ClaimBuy
<1>6. \A b \in Arms \ {a} : /\ Filled(b)' <=> Filled(b)
                            /\ rejects'[b] = rejects[b]
  BY <1>2, <1>5 DEF Filled
<1>7. stage[a] = "FREE"
  BY <1>3 DEF stage
<1>8. CASE fills' = [fills EXCEPT ![a] = @ + 1] /\ UNCHANGED rejects
  <2>1. Filled(a)'
    BY <1>2, <1>3, <1>8 DEF Filled
  <2>2. stage' = [stage EXCEPT ![a] = "FILLED"]
    BY <1>3, <1>4, <1>6, <2>1 DEF stage
  <2> QED BY <1>7, <2>2 DEF Lifetime!Next, Lifetime!Fill, Lifetime!Move
<1>9. CASE rejects' = [rejects EXCEPT ![a] = @ + 1] /\ UNCHANGED fills
  <2>1. ~Filled(a)' /\ rejects'[a] > 0
    BY <1>2, <1>3, <1>9 DEF Filled
  <2>2. stage' = [stage EXCEPT ![a] = "REJECTED"]
    BY <1>3, <1>4, <1>6, <2>1 DEF stage
  <2> QED BY <1>7, <2>2 DEF Lifetime!Next, Lifetime!Reject, Lifetime!Move
<1> QED BY <1>5, <1>8, <1>9

LEMMA StageHold ==
  ASSUME IInv, HoldMove
  PROVE  Lifetime!Next
<1>1. PICK a \in Arms : Filled(a) /\ ~Held(a) /\ InsertPosition(a)
  BY DEF HoldMove
<1>2. Held(a)' /\ \A b \in Arms \ {a} : Held(b)' <=> Held(b)
  BY <1>1, PositionTypes DEF IInv, TypeOK, InsertPosition, Held
<1>3. \A b \in Arms : (Filled(b)' <=> Filled(b)) /\ rejects'[b] = rejects[b]
  BY DEF HoldMove, Filled
<1>4. stage[a] = "FILLED"
  BY <1>1 DEF stage
<1>5. stage' = [stage EXCEPT ![a] = "HELD"]
  BY <1>2, <1>3 DEF stage
<1> QED BY <1>4, <1>5 DEF Lifetime!Next, Lifetime!Hold, Lifetime!Move

(* The trader with its database, crashes and second processes implements   *)
(* the three-stage promise: a key is decided once and moves forward only.  *)
THEOREM Refinement == Spec => ImplementsLifetimeEntry
<1>1. Init => Lifetime!Init
  BY DEF Init, Lifetime!Init, stage, Held, Filled, NoPositions, NoPosition
<1>2. IInv /\ [Next]_vars => [Lifetime!Next]_stage
  BY StageMove, StageNoMove, StageClaim, StageHold
<1> QED
  BY <1>1, <1>2, Invariance, PTL
  DEF Spec, ImplementsLifetimeEntry, Lifetime!Spec
=============================================================================
