------------------------ MODULE PaperPositionProofs ------------------------
(***************************************************************************)
(* Theorems about the positions of PaperTrading when one process trades,   *)
(* stops, crashes and restarts, for every set of keys, lot and bound:      *)
(* ClosedIsFinal, Mirror and DriftPerFault.  Two processes at once break   *)
(* all three: each sells its own copy of a position.                       *)
(***************************************************************************)
EXTENDS PaperTradingProofs

USE LotAssumption, BoundsAssumption, NoArmAssumption

Openish(pos) == pos.status \in {"OPEN", "SESSION_ENDED_OPEN"}
Whole(pos)   == Openish(pos) <=> pos.remaining > 0

At(p, label, a) == pc[p] = label /\ job[p].arm = a
Empty   == {"down", "ensure", "load", "orphans"}

(* A closed row is forgotten or remembered as it is, nothing is being sold *)
(* for it, and no restart is about to reopen it.                           *)
Shape(p, a) ==
  /\ Whole(row[a]) /\ Whole(mem[p][a])
  /\ pc[p] \in Empty => mem[p][a] = NoPosition
  /\ pc[p] = "reopen" /\ a \in todo[p] => view[p][a] = row[a] /\ Openish(row[a])
  /\ At(p, "exit", a) => mem[p][a].status = "OPEN"
  /\ row[a].status = "CLOSED" => mem[p][a] \in {NoPosition, row[a]}

(* Where a process without a fault since its start may still differ from   *)
(* the rows: what the restore has yet to do, the key of the handler, and   *)
(* the end of the session.                                                 *)
Awaited(p, a) == \/ pc[p] \in Empty
                 \/ pc[p] = "rebuild" /\ a \in todo[p]
                 \/ At(p, "position", a)
Restored(p, a) == \/ pc[p] \in Empty \cup {"rebuild", "open"}
                  \/ pc[p] = "reopen" /\ a \in todo[p]
InStep(p, a) ==
  healthy[p] =>
    /\ Filled(a) /\ ~Held(a) => Awaited(p, a)
    /\ Openish(row[a]) /\ ~At(p, "save", a) =>
         \/ mem[p][a] = row[a]
         \/ mem[p][a] = NoPosition /\ Restored(p, a)
         \/ pc[p] \in Stopping

(* Each fault moves the stored or the remembered inventory by one position *)
(* at most; between a sale and its save the row is behind by the sale.     *)
Slack == faults * Lot
Within(d, lag) == -Slack <= d /\ d <= Slack + lag
Booked(p, a) ==
  /\ ~Held(a) => sold[a] = 0
  /\ Held(a) => Within(sold[a] + row[a].remaining - Lot,
                       IF At(p, "save", a) THEN Lot ELSE 0)
  /\ mem[p][a].status # "NONE" => Within(sold[a] + mem[p][a].remaining - Lot, 0)

ArmOK(p, a) == Shape(p, a) /\ InStep(p, a) /\ Booked(p, a)
PInv(p) == IInv /\ \A a \in Arms : ArmOK(p, a)

-----------------------------------------------------------------------------
(* Faults and types. *)

LEMMA SlackType == ASSUME TypeOK PROVE Slack \in Nat
BY DEF TypeOK, Slack

LEMMA Spared ==
  ASSUME TypeOK, NEW p \in Procs, NoFault
  PROVE  Slack' = Slack /\ (healthy'[p] => healthy[p])
BY DEF NoFault, Slack

LEMMA Spent ==
  ASSUME TypeOK, NEW p \in Procs, Fault(p)
  PROVE  Slack' = Slack + Lot /\ ~healthy'[p]
<1>1. faults \in Nat /\ faults' = faults + 1
  BY DEF TypeOK, Fault
<1>2. (faults + 1) * Lot = faults * Lot + Lot
  BY <1>1
<1>3. ~healthy'[p]
  BY Zenon DEF TypeOK, Fault
<1> QED
  BY <1>1, <1>2, <1>3 DEF Slack

(* What any step may do to the slack and to the process's health. *)
Weathered(p) == /\ Slack \in Nat /\ Slack' \in Nat
                /\ \/ Slack' = Slack /\ (healthy'[p] => healthy[p])
                   \/ Slack' = Slack + Lot /\ ~healthy'[p]

LEMMA Weather ==
  ASSUME TypeOK, NEW p \in Procs, NoFault \/ Fault(p)
  PROVE  Weathered(p)
<1>1. Slack \in Nat /\ Slack + Lot \in Nat
  BY SlackType
<1> QED
  BY <1>1, Spared, Spent DEF Weathered

LEMMA ArmTypes ==
  ASSUME TypeOK, NEW p \in Procs, NEW a \in Arms
  PROVE  /\ row[a] \in Position /\ mem[p][a] \in Position /\ view[p][a] \in Position
         /\ row[a].remaining \in 0 .. Lot /\ mem[p][a].remaining \in 0 .. Lot
         /\ sold[a] \in Nat /\ todo[p] \subseteq Arms
BY DEF TypeOK, Position

LEMMA PositionFacts ==
  /\ NoPosition.status = "NONE" /\ NoPosition.remaining = 0 /\ Whole(NoPosition)
  /\ NewPosition.status = "OPEN" /\ NewPosition.remaining = Lot /\ Whole(NewPosition)
  /\ ~Openish(NoPosition) /\ Openish(NewPosition)
BY DEF NoPosition, NewPosition, Whole, Openish

-----------------------------------------------------------------------------
(* Steps that leave positions, fills and memory alone. *)

Stays(p, a) == row'[a] = row[a] /\ mem'[p][a] = mem[p][a] /\ sold'[a] = sold[a]
Untouched(p, a) == Stays(p, a) /\ fills'[a] = fills[a]

LEMMA StaysBooked ==
  ASSUME TypeOK, NEW p \in Procs, NEW a \in Arms, Booked(p, a), Stays(p, a),
         Weathered(p), At(p, "save", a) => At(p, "save", a)' \/ Slack' = Slack + Lot
  PROVE  Booked(p, a)'
<1>1. /\ row[a].remaining \in 0 .. Lot /\ mem[p][a].remaining \in 0 .. Lot
      /\ sold[a] \in Nat /\ Lot \in Nat
  BY ArmTypes
<1>2. Slack \in Nat /\ Slack' \in Nat /\ (Slack' = Slack \/ Slack' = Slack + Lot)
  BY DEF Weathered
<1>3. (~Held(a))' => (sold[a] = 0)'
  BY DEF Booked, Stays, Held
<1>4. ASSUME Held(a)'
      PROVE  Within(sold[a] + row[a].remaining - Lot, IF At(p, "save", a) THEN Lot ELSE 0)'
  <2>1. Within(sold[a] + row[a].remaining - Lot, IF At(p, "save", a) THEN Lot ELSE 0)
    BY <1>4 DEF Booked, Stays, Held
  <2>2. sold'[a] + row'[a].remaining - Lot = sold[a] + row[a].remaining - Lot
    BY DEF Stays
  <2> QED
    BY <1>1, <1>2, <2>1, <2>2 DEF Within
<1>5. ASSUME (mem[p][a].status # "NONE")'
      PROVE  Within(sold[a] + mem[p][a].remaining - Lot, 0)'
  <2>1. Within(sold[a] + mem[p][a].remaining - Lot, 0)
    BY <1>5 DEF Booked, Stays
  <2>2. sold'[a] + mem'[p][a].remaining - Lot = sold[a] + mem[p][a].remaining - Lot
    BY DEF Stays
  <2> QED
    BY <1>1, <1>2, <2>1, <2>2 DEF Within
<1> QED
  BY <1>3, <1>4, <1>5 DEF Booked

(* Start and restore, as far as they only read. *)

LEMMA Reads ==
  ASSUME NEW a \in Arms
  PROVE  /\ a \in Orphans <=> Filled(a) /\ ~Held(a)
         /\ a \in OpenRows <=> Openish(row[a])
         /\ Openish(row[a]) => OpenView[a] = row[a]
BY DEF Orphans, OrphanFill, OpenRows, OpenRow, OpenView, Openish

LEMMA Start_Arm ==
  ASSUME NEW p \in Procs, PInv(p), Start(p), NEW a \in Arms
  PROVE  ArmOK(p, a)'
<1>1. TypeOK /\ ArmOK(p, a)
  BY DEF PInv, IInv
<1>2. pc[p] = "down" /\ pc'[p] = "ensure"
  BY <1>1 DEF TypeOK, Start, Goto
<1>3. Untouched(p, a)
  BY DEF Untouched, Stays, Start, db
<1>4. Slack' = Slack /\ Slack \in Nat
  BY <1>1, SlackType DEF Start, Slack
<1>5. Shape(p, a)'
  BY <1>1, <1>2, <1>3 DEF ArmOK, Shape, Untouched, Stays, At, Empty
<1>6. mem[p][a] = NoPosition
  BY <1>1, <1>2 DEF ArmOK, Shape, Empty
<1>7. InStep(p, a)'
  BY <1>2, <1>3, <1>6 DEF InStep, Untouched, Stays, Awaited, Restored, Empty
<1>8. Booked(p, a)'
  BY <1>1, <1>2, <1>3, <1>4 DEF ArmOK, Booked, Within, Untouched, Stays, Held, At
<1> QED
  BY <1>5, <1>7, <1>8 DEF ArmOK

LEMMA ensure_arm_claims_Arm ==
  ASSUME NEW p \in Procs, PInv(p), ensure_arm_claims(p), NEW a \in Arms
  PROVE  ArmOK(p, a)'
<1>1. TypeOK /\ ProcOK(p) /\ ArmOK(p, a)
  BY DEF PInv, IInv
<1>2. pc[p] = "ensure" /\ pc'[p] = "load"
  BY <1>1 DEF TypeOK, ensure_arm_claims, Goto
<1>3. Untouched(p, a)
  BY DEF Untouched, Stays, ensure_arm_claims, db
<1>4. Weathered(p)
  BY <1>1, Weather DEF ensure_arm_claims
<1>5. Shape(p, a)'
  BY <1>1, <1>2, <1>3 DEF ArmOK, Shape, Untouched, Stays, At, Empty
<1>6. InStep(p, a)'
  BY <1>1, <1>2, <1>3, <1>4 DEF ArmOK, InStep, Untouched, Stays, Awaited, Restored, Filled, Held,
     At, Empty, Stopping, Weathered
<1>7. Booked(p, a)'
  BY <1>1, <1>2, <1>3, <1>4, StaysBooked DEF ArmOK, At, Untouched
<1> QED
  BY <1>5, <1>6, <1>7 DEF ArmOK

LEMMA load_lifetime_arms_Arm ==
  ASSUME NEW p \in Procs, PInv(p), load_lifetime_arms(p), NEW a \in Arms
  PROVE  ArmOK(p, a)'
<1>1. TypeOK /\ ProcOK(p) /\ ArmOK(p, a)
  BY DEF PInv, IInv
<1>2. /\ pc[p] = "load" /\ pc'[p] \in {"orphans", "idle"}
      /\ pc'[p] = "idle" => Fault(p)
  BY <1>1 DEF TypeOK, load_lifetime_arms, Goto
<1>3. Untouched(p, a)
  BY DEF Untouched, Stays, load_lifetime_arms, db
<1>4. Weathered(p)
  BY <1>1, Weather DEF load_lifetime_arms
<1>5. Fault(p) => ~healthy'[p]
  BY <1>1, Spent
<1>6. Shape(p, a)'
  BY <1>1, <1>2, <1>3 DEF ArmOK, Shape, Untouched, Stays, At, Empty
<1>7. InStep(p, a)'
  BY <1>1, <1>2, <1>3, <1>4, <1>5 DEF ArmOK, InStep, Untouched, Stays, Awaited, Restored, Filled, Held,
     At, Empty, Stopping, Weathered
<1>8. Booked(p, a)'
  BY <1>1, <1>2, <1>3, <1>4, StaysBooked DEF ArmOK, At, Untouched
<1> QED
  BY <1>6, <1>7, <1>8 DEF ArmOK

LEMMA load_orphan_fills_Arm ==
  ASSUME NEW p \in Procs, PInv(p), load_orphan_fills(p), NEW a \in Arms
  PROVE  ArmOK(p, a)'
<1>1. TypeOK /\ ProcOK(p) /\ ArmOK(p, a)
  BY DEF PInv, IInv
<1>2. /\ pc[p] = "orphans" /\ pc'[p] \in {"open", "rebuild", "idle"}
      /\ pc'[p] = "idle" => Fault(p)
      /\ pc'[p] = "open" => Orphans = {}
      /\ pc'[p] = "rebuild" => todo'[p] = Orphans
  BY <1>1 DEF TypeOK, load_orphan_fills, Goto
<1>3. Untouched(p, a)
  BY DEF Untouched, Stays, load_orphan_fills, db
<1>4. Weathered(p)
  BY <1>1, Weather DEF load_orphan_fills
<1>5. Fault(p) => ~healthy'[p]
  BY <1>1, Spent
<1>6. Shape(p, a)'
  BY <1>1, <1>2, <1>3, Reads DEF ArmOK, Shape, Untouched, Stays, At, Empty
<1>7. InStep(p, a)'
  BY <1>1, <1>2, <1>3, <1>4, <1>5, Reads DEF ArmOK, InStep, Untouched, Stays, Awaited, Restored, Filled, Held,
     At, Empty, Stopping, Weathered
<1>8. Booked(p, a)'
  BY <1>1, <1>2, <1>3, <1>4, StaysBooked DEF ArmOK, At, Untouched
<1> QED
  BY <1>6, <1>7, <1>8 DEF ArmOK

LEMMA load_open_positions_Arm ==
  ASSUME NEW p \in Procs, PInv(p), load_open_positions(p), NEW a \in Arms
  PROVE  ArmOK(p, a)'
<1>1. TypeOK /\ ProcOK(p) /\ ArmOK(p, a)
  BY DEF PInv, IInv
<1>2. /\ pc[p] = "open" /\ pc'[p] \in {"reopen", "idle"}
      /\ pc'[p] = "idle" => OpenRows = {} \/ Fault(p)
      /\ pc'[p] = "reopen" => todo'[p] = OpenRows /\ view'[p] = OpenView
  BY <1>1 DEF TypeOK, load_open_positions, Goto
<1>3. Untouched(p, a)
  BY DEF Untouched, Stays, load_open_positions, db
<1>4. Weathered(p)
  BY <1>1, Weather DEF load_open_positions
<1>5. Fault(p) => ~healthy'[p]
  BY <1>1, Spent
<1>6. Shape(p, a)'
  BY <1>1, <1>2, <1>3, Reads DEF ArmOK, Shape, Untouched, Stays, At, Empty
<1>7. InStep(p, a)'
  BY <1>1, <1>2, <1>3, <1>4, <1>5, Reads DEF ArmOK, InStep, Untouched, Stays, Awaited, Restored, Filled, Held,
     At, Empty, Stopping, Weathered
<1>8. Booked(p, a)'
  BY <1>1, <1>2, <1>3, <1>4, StaysBooked DEF ArmOK, At, Untouched
<1> QED
  BY <1>6, <1>7, <1>8 DEF ArmOK

(* Entry, up to the claim, and the beginning of an exit. *)

LEMMA queue_arm_Arm ==
  ASSUME NEW p \in Procs, PInv(p), NEW b \in Arms, queue_arm(p, b), NEW a \in Arms
  PROVE  ArmOK(p, a)'
<1>1. TypeOK /\ ProcOK(p) /\ ArmOK(p, a)
  BY DEF PInv, IInv
<1>2. UNCHANGED <<pc, job, todo, view>> /\ NoFault
  BY <1>1 DEF TypeOK, queue_arm, NoFault, Goto
<1>3. Untouched(p, a)
  BY DEF Untouched, Stays, queue_arm, db
<1>4. Weathered(p)
  BY <1>1, Weather DEF queue_arm, NoFault
<1>5. Shape(p, a)'
  BY <1>1, <1>2, <1>3 DEF ArmOK, Shape, Untouched, Stays, At, Empty
<1>6. InStep(p, a)'
  BY <1>1, <1>2, <1>3, <1>4 DEF ArmOK, InStep, Untouched, Stays, Awaited, Restored, Filled, Held,
     At, Empty, Stopping, Weathered
<1>7. Booked(p, a)'
  BY <1>1, <1>2, <1>3, <1>4, StaysBooked DEF ArmOK, At, Untouched
<1> QED
  BY <1>5, <1>6, <1>7 DEF ArmOK

LEMMA flush_pending_Arm ==
  ASSUME NEW p \in Procs, PInv(p), NEW b \in Arms, flush_pending(p, b), NEW a \in Arms
  PROVE  ArmOK(p, a)'
<1>1. TypeOK /\ ProcOK(p) /\ ArmOK(p, a)
  BY DEF PInv, IInv
<1>2. /\ pc[p] = "idle" /\ (pc'[p] = "idle" \/ pc'[p] = "read")
  BY <1>1 DEF TypeOK, flush_pending, Goto
<1>3. Untouched(p, a)
  BY DEF Untouched, Stays, flush_pending, db
<1>4. Weathered(p)
  BY <1>1, Weather DEF flush_pending
<1>5. Shape(p, a)'
  BY <1>1, <1>2, <1>3 DEF ArmOK, Shape, Untouched, Stays, At, Empty
<1>6. InStep(p, a)'
  BY <1>1, <1>2, <1>3, <1>4 DEF ArmOK, InStep, Untouched, Stays, Awaited, Restored, Filled, Held,
     At, Empty, Stopping, Weathered
<1>7. Booked(p, a)'
  BY <1>1, <1>2, <1>3, <1>4, StaysBooked DEF ArmOK, At, Untouched
<1> QED
  BY <1>5, <1>6, <1>7 DEF ArmOK

LEMMA read_curve_Arm ==
  ASSUME NEW p \in Procs, PInv(p), read_curve(p), NEW a \in Arms
  PROVE  ArmOK(p, a)'
<1>1. TypeOK /\ ProcOK(p) /\ ArmOK(p, a)
  BY DEF PInv, IInv
<1>2. /\ pc[p] = "read" /\ pc'[p] \in {"idle", "claim"}
  BY <1>1 DEF TypeOK, read_curve, Goto
<1>3. Untouched(p, a)
  BY DEF Untouched, Stays, read_curve, db
<1>4. Weathered(p)
  BY <1>1, Weather DEF read_curve, NoFault
<1>5. Shape(p, a)'
  BY <1>1, <1>2, <1>3 DEF ArmOK, Shape, Untouched, Stays, At, Empty
<1>6. InStep(p, a)'
  BY <1>1, <1>2, <1>3, <1>4 DEF ArmOK, InStep, Untouched, Stays, Awaited, Restored, Filled, Held,
     At, Empty, Stopping, Weathered
<1>7. Booked(p, a)'
  BY <1>1, <1>2, <1>3, <1>4, StaysBooked DEF ArmOK, At, Untouched
<1> QED
  BY <1>5, <1>6, <1>7 DEF ArmOK

LEMMA signal_exit_Arm ==
  ASSUME NEW p \in Procs, PInv(p), NEW b \in Arms, signal_exit(p, b), NEW a \in Arms
  PROVE  ArmOK(p, a)'
<1>1. TypeOK /\ ProcOK(p) /\ ArmOK(p, a)
  BY DEF PInv, IInv
<1>2. /\ pc[p] = "idle" /\ pc'[p] = "exit"
      /\ job'[p].arm = b /\ mem[p][b].status = "OPEN"
  BY <1>1 DEF TypeOK, signal_exit, Goto, NewJob
<1>3. Untouched(p, a)
  BY DEF Untouched, Stays, signal_exit, db
<1>4. Weathered(p)
  BY <1>1, Weather DEF signal_exit, NoFault
<1>5. Shape(p, a)'
  BY <1>1, <1>2, <1>3 DEF ArmOK, Shape, Untouched, Stays, At, Empty
<1>6. InStep(p, a)'
  BY <1>1, <1>2, <1>3, <1>4 DEF ArmOK, InStep, Untouched, Stays, Awaited, Restored, Filled, Held,
     At, Empty, Stopping, Weathered
<1>7. Booked(p, a)'
  BY <1>1, <1>2, <1>3, <1>4, StaysBooked DEF ArmOK, At, Untouched
<1> QED
  BY <1>5, <1>6, <1>7 DEF ArmOK

LEMMA fail_exit_Arm ==
  ASSUME NEW p \in Procs, PInv(p), fail_exit(p), NEW a \in Arms
  PROVE  ArmOK(p, a)'
<1>1. TypeOK /\ ProcOK(p) /\ ArmOK(p, a)
  BY DEF PInv, IInv
<1>2. pc[p] = "exit" /\ pc'[p] = "save" /\ UNCHANGED job
  BY <1>1 DEF TypeOK, fail_exit, Goto
<1>3. Untouched(p, a)
  BY DEF Untouched, Stays, fail_exit, db
<1>4. Weathered(p)
  BY <1>1, Weather DEF fail_exit, NoFault
<1>5. Shape(p, a)'
  BY <1>1, <1>2, <1>3 DEF ArmOK, Shape, Untouched, Stays, At, Empty
<1>6. InStep(p, a)'
  BY <1>1, <1>2, <1>3, <1>4 DEF ArmOK, InStep, Untouched, Stays, Awaited, Restored, Filled, Held,
     At, Empty, Stopping, Weathered
<1>7. Booked(p, a)'
  BY <1>1, <1>2, <1>3, <1>4, StaysBooked DEF ArmOK, At, Untouched
<1> QED
  BY <1>5, <1>6, <1>7 DEF ArmOK

LEMMA backoff_elapses_Arm ==
  ASSUME NEW p \in Procs, PInv(p), NEW b \in Arms, backoff_elapses(p, b), NEW a \in Arms
  PROVE  ArmOK(p, a)'
<1>1. TypeOK /\ ProcOK(p) /\ ArmOK(p, a)
  BY DEF PInv, IInv
<1>2. UNCHANGED <<pc, job, todo, view>> /\ NoFault
  BY <1>1 DEF TypeOK, backoff_elapses, NoFault, Goto
<1>3. Untouched(p, a)
  BY DEF Untouched, Stays, backoff_elapses, db
<1>4. Weathered(p)
  BY <1>1, Weather DEF backoff_elapses, NoFault
<1>5. Shape(p, a)'
  BY <1>1, <1>2, <1>3 DEF ArmOK, Shape, Untouched, Stays, At, Empty
<1>6. InStep(p, a)'
  BY <1>1, <1>2, <1>3, <1>4 DEF ArmOK, InStep, Untouched, Stays, Awaited, Restored, Filled, Held,
     At, Empty, Stopping, Weathered
<1>7. Booked(p, a)'
  BY <1>1, <1>2, <1>3, <1>4, StaysBooked DEF ArmOK, At, Untouched
<1> QED
  BY <1>5, <1>6, <1>7 DEF ArmOK

LEMMA insert_order_claimed_Arm ==
  ASSUME NEW p \in Procs, PInv(p), insert_order_claimed(p), NEW a \in Arms
  PROVE  ArmOK(p, a)'
<1>1. TypeOK /\ ProcOK(p) /\ ArmOK(p, a)
  BY DEF PInv, IInv
<1>2. pc[p] = "claim" /\ pc'[p] \in {"idle", "position"} /\ (NoFault \/ Fault(p))
  BY <1>1 DEF TypeOK, insert_order_claimed, Goto
<1>3. Stays(p, a)
  BY DEF Stays, insert_order_claimed
<1>4. Weathered(p) /\ (Fault(p) => ~healthy'[p])
  BY <1>1, <1>2, Weather, Spent
<1>5. \/ fills'[a] = fills[a]
      \/ pc'[p] = "position" /\ job'[p].arm = a
      \/ Fault(p)
  <2>1. job[p].arm \in Arms
    BY <1>1, <1>2 DEF ProcOK, HandlerOK, Working
  <2> QED
    BY <1>1, <2>1 DEF TypeOK, insert_order_claimed, ClaimBuy, LostCommit, Goto
<1>6. Shape(p, a)'
  BY <1>1, <1>2, <1>3 DEF ArmOK, Shape, Stays, At, Empty
<1>7. InStep(p, a)'
  BY <1>1, <1>2, <1>3, <1>4, <1>5 DEF ArmOK, InStep, Stays, Awaited, Restored, Filled, Held,
     At, Empty, Stopping, Weathered
<1>8. Booked(p, a)'
  BY <1>1, <1>2, <1>3, <1>4, StaysBooked DEF ArmOK, At
<1> QED
  BY <1>6, <1>7, <1>8 DEF ArmOK

-----------------------------------------------------------------------------
(* Steps that store a position. *)

(* A key without a row gets a position of a whole lot, stored and          *)
(* remembered, or there is a fault.                                        *)
LEMMA Opened ==
  ASSUME TypeOK, NEW p \in Procs, NEW a \in Arms, ArmOK(p, a), ~Held(a),
         mem[p][a].status # "NONE" => Held(a),
         sold'[a] = sold[a], Weathered(p), Fault(p) => ~healthy'[p],
         \/ row'[a] = NewPosition /\ mem'[p][a] = NewPosition
         \/ Fault(p) /\ row'[a] \in {row[a], NewPosition} /\ mem'[p][a] = mem[p][a],
         pc'[p] \in {"rebuild", "open", "idle"}
  PROVE  ArmOK(p, a)'
<1>1. row[a].status = "NONE" /\ mem[p][a].status = "NONE"
  BY DEF Held
<1>2. mem[p][a] = NoPosition
  <2>1. mem[p][a].remaining = 0
    BY <1>1, ArmTypes DEF ArmOK, Shape, Whole, Openish
  <2> QED
    BY <1>1, <2>1, ArmTypes DEF Position, NoPosition
<1>3. Shape(p, a)'
  BY <1>1, <1>2, PositionFacts DEF ArmOK, Shape, At, Empty
<1>4. InStep(p, a)'
  BY PositionFacts DEF InStep, Held
<1>5. Booked(p, a)'
  <2>1. sold'[a] = 0 /\ Slack' \in Nat
    BY DEF ArmOK, Booked, Weathered
  <2>2. Held(a)' => row'[a].remaining = Lot
    BY <1>1, PositionFacts DEF Held
  <2>3. mem'[p][a].status # "NONE" => mem'[p][a].remaining = Lot
    BY <1>1, PositionFacts
  <2>4. (Held(a) => Within(sold[a] + row[a].remaining - Lot,
                           IF At(p, "save", a) THEN Lot ELSE 0))'
    BY <2>1, <2>2 DEF Within
  <2>5. (mem[p][a].status # "NONE" => Within(sold[a] + mem[p][a].remaining - Lot, 0))'
    BY <2>1, <2>3 DEF Within
  <2> QED
    BY <2>1, <2>4, <2>5 DEF Booked
<1> QED
  BY <1>3, <1>4, <1>5 DEF ArmOK

LEMMA reconstruct_position_Arm ==
  ASSUME NEW p \in Procs, PInv(p), NEW b \in Arms, reconstruct_position(p, b),
         NEW a \in Arms
  PROVE  ArmOK(p, a)'
<1>1. TypeOK /\ ProcOK(p) /\ ArmOK(p, a)
  BY DEF PInv, IInv
<1>2. /\ pc[p] = "rebuild" /\ pc'[p] \in {"rebuild", "open"}
      /\ b \in todo[p] /\ todo'[p] = todo[p] \ {b}
      /\ pc'[p] = "open" => todo'[p] = {}
      /\ NoFault \/ Fault(p)
  BY <1>1 DEF TypeOK, reconstruct_position, Goto
<1>3. Weathered(p) /\ (Fault(p) => ~healthy'[p])
  BY <1>1, <1>2, Weather, Spent
<1>4. mem[p][a].status # "NONE" => Held(a)
  BY <1>1 DEF ProcOK, Remembered
<1>5. CASE a # b \/ Held(a)
  <2>1. Untouched(p, a)
    BY <1>1, <1>5 DEF TypeOK, Untouched, Stays, reconstruct_position, InsertPosition
  <2>2. Shape(p, a)'
    BY <1>1, <1>2, <2>1 DEF ArmOK, Shape, Untouched, Stays, At, Empty
  <2>3. InStep(p, a)'
    BY <1>1, <1>2, <1>3, <1>5, <2>1 DEF ArmOK, InStep, Untouched, Stays, Awaited, Restored,
       Filled, Held, At, Empty, Stopping, Weathered
  <2>4. Booked(p, a)'
    BY <1>1, <1>2, <1>3, <2>1, StaysBooked DEF ArmOK, At, Untouched
  <2> QED
    BY <2>2, <2>3, <2>4 DEF ArmOK
<1>6. CASE a = b /\ ~Held(a)
  <2>1. /\ sold'[a] = sold[a] /\ fills'[a] = fills[a]
        /\ \/ row'[a] = NewPosition /\ mem'[p][a] = NewPosition
           \/ Fault(p) /\ row'[a] \in {row[a], NewPosition} /\ mem'[p][a] = mem[p][a]
    BY <1>1, <1>6 DEF TypeOK, reconstruct_position, InsertPosition
  <2> QED
    BY <1>1, <1>2, <1>3, <1>4, <1>6, <2>1, Opened DEF At
<1> QED
  BY <1>5, <1>6

LEMMA insert_position_Arm ==
  ASSUME NEW p \in Procs, PInv(p), insert_position(p), NEW a \in Arms
  PROVE  ArmOK(p, a)'
<1> DEFINE b == job[p].arm
<1>1. TypeOK /\ ProcOK(p) /\ ArmOK(p, a)
  BY DEF PInv, IInv
<1>2. /\ pc[p] = "position" /\ pc'[p] = "idle" /\ b \in Arms
      /\ NoFault \/ Fault(p)
  BY <1>1 DEF TypeOK, insert_position, Goto, ProcOK, HandlerOK, Working
<1>3. Weathered(p) /\ (Fault(p) => ~healthy'[p])
  BY <1>1, <1>2, Weather, Spent
<1>4. mem[p][a].status # "NONE" => Held(a)
  BY <1>1 DEF ProcOK, Remembered
<1>5. CASE a # b \/ Held(a)
  <2>1. Untouched(p, a)
    BY <1>1, <1>2, <1>5 DEF TypeOK, Untouched, Stays, insert_position, InsertPosition, SkipPosition
  <2>2. Shape(p, a)'
    BY <1>1, <1>2, <2>1 DEF ArmOK, Shape, Untouched, Stays, At, Empty
  <2>3. InStep(p, a)'
    BY <1>1, <1>2, <1>3, <1>5, <2>1 DEF ArmOK, InStep, Untouched, Stays, Awaited, Restored,
       Filled, Held, At, Empty, Stopping, Weathered
  <2>4. Booked(p, a)'
    BY <1>1, <1>2, <1>3, <2>1, StaysBooked DEF ArmOK, At, Untouched
  <2> QED
    BY <2>2, <2>3, <2>4 DEF ArmOK
<1>6. CASE a = b /\ ~Held(a)
  <2>1. /\ sold'[a] = sold[a] /\ fills'[a] = fills[a]
        /\ \/ row'[a] = NewPosition /\ mem'[p][a] = NewPosition
           \/ Fault(p) /\ row'[a] \in {row[a], NewPosition} /\ mem'[p][a] = mem[p][a]
    BY <1>1, <1>2, <1>6 DEF TypeOK, insert_position, InsertPosition, SkipPosition
  <2> QED
    BY <1>1, <1>2, <1>3, <1>4, <1>6, <2>1, Opened DEF At
<1> QED
  BY <1>5, <1>6

(* A stored position that is written over: what is written is what memory  *)
(* holds, or the write fails.                                              *)
LEMMA WrittenBooked ==
  ASSUME TypeOK, NEW p \in Procs, NEW a \in Arms, Booked(p, a), Held(a),
         sold'[a] = sold[a], mem'[p][a].status # "NONE",
         \/ mem'[p][a].remaining = mem[p][a].remaining /\ mem[p][a].status # "NONE"
         \/ mem'[p][a].remaining = row[a].remaining /\ ~At(p, "save", a),
         Weathered(p),
         \/ row'[a] = mem'[p][a]
         \/ row'[a] = row[a] /\ (At(p, "save", a) => Slack' = Slack + Lot)
  PROVE  Booked(p, a)'
<1>1. /\ row[a].remaining \in 0 .. Lot /\ mem[p][a].remaining \in 0 .. Lot
      /\ sold[a] \in Nat /\ Lot \in Nat
  BY ArmTypes
<1>2. Slack \in Nat /\ Slack' \in Nat /\ (Slack' = Slack \/ Slack' = Slack + Lot)
  BY DEF Weathered
<1>3. Held(a)'
  BY DEF Held
<1>4. Within(sold[a] + row[a].remaining - Lot, IF At(p, "save", a) THEN Lot ELSE 0)
  BY DEF Booked
<1>5. mem[p][a].status # "NONE" => Within(sold[a] + mem[p][a].remaining - Lot, 0)
  BY DEF Booked
<1>6. -Slack' <= sold'[a] + mem'[p][a].remaining - Lot
      /\ sold'[a] + mem'[p][a].remaining - Lot <= Slack'
  BY <1>1, <1>2, <1>4, <1>5 DEF Within
<1>7. -Slack' <= sold'[a] + row'[a].remaining - Lot
      /\ sold'[a] + row'[a].remaining - Lot <= Slack'
  BY <1>1, <1>2, <1>4, <1>6 DEF Within
<1>8. Within(sold[a] + mem[p][a].remaining - Lot, 0)'
  <2>1. sold'[a] + mem'[p][a].remaining - Lot \in Int
    BY <1>1
  <2> QED
    BY <1>2, <1>6, <2>1 DEF Within
<1>9. Within(sold[a] + row[a].remaining - Lot, IF At(p, "save", a) THEN Lot ELSE 0)'
  <2>1. sold'[a] + row'[a].remaining - Lot \in Int
    <3>1. row'[a].remaining \in Int
      BY <1>1
    <3> QED
      BY <1>1, <3>1
  <2> QED
    BY <1>1, <1>2, <1>7, <2>1 DEF Within
<1> QED
  BY <1>3, <1>8, <1>9 DEF Booked

LEMMA reopen_position_Arm ==
  ASSUME NEW p \in Procs, PInv(p), NEW b \in Arms, reopen_position(p, b), NEW a \in Arms
  PROVE  ArmOK(p, a)'
<1>1. TypeOK /\ ProcOK(p) /\ ArmOK(p, a)
  BY DEF PInv, IInv
<1>2. /\ pc[p] = "reopen" /\ pc'[p] \in {"reopen", "idle"}
      /\ b \in todo[p] /\ todo'[p] = todo[p] \ {b}
      /\ pc'[p] = "idle" => todo'[p] = {}
      /\ NoFault \/ Fault(p)
  BY <1>1 DEF TypeOK, reopen_position, Goto, Write
<1>3. Weathered(p) /\ (Fault(p) => ~healthy'[p])
  BY <1>1, <1>2, Weather, Spent
<1>4. CASE a # b \/ mem[p][b].status # "NONE"
  <2>1. Untouched(p, a)
    BY <1>1, <1>4 DEF TypeOK, Untouched, Stays, reopen_position, Write
  <2>2. a # b => view'[p][a] = view[p][a]
    BY <1>1 DEF TypeOK, reopen_position
  <2>3. Shape(p, a)'
    BY <1>1, <1>2, <2>1, <2>2 DEF ArmOK, Shape, Untouched, Stays, At, Empty
  <2>4. InStep(p, a)'
    BY <1>1, <1>2, <1>3, <1>4, <2>1, PositionFacts DEF ArmOK, InStep, Untouched, Stays,
       Awaited, Restored, Filled, Held, At, Empty, Stopping, Weathered
  <2>5. Booked(p, a)'
    BY <1>1, <1>2, <1>3, <2>1, StaysBooked DEF ArmOK, At, Untouched
  <2> QED
    BY <2>3, <2>4, <2>5 DEF ArmOK
<1>5. CASE a = b /\ mem[p][b].status = "NONE"
  <2> DEFINE reopened == [row[a] EXCEPT !.status = "OPEN"]
  <2>1. view[p][a] = row[a] /\ Openish(row[a])
    BY <1>1, <1>2, <1>5 DEF ArmOK, Shape
  <2>2. /\ sold'[a] = sold[a] /\ fills'[a] = fills[a] /\ mem'[p][a] = reopened
        /\ \/ row'[a] = reopened
           \/ Fault(p) /\ row'[a] = row[a]
    <3>1. sold'[a] = sold[a] /\ fills'[a] = fills[a]
      BY DEF reopen_position
    <3>2. mem' = [mem EXCEPT ![p][b] = [view[p][b] EXCEPT !.status = "OPEN"]]
      BY <1>5 DEF reopen_position
    <3>3. \/ row' = [row EXCEPT ![b] = [view[p][b] EXCEPT !.status = "OPEN"]]
          \/ Fault(p) /\ row' = row
      BY <1>5 DEF reopen_position, Write
    <3> QED
      BY <1>1, <1>5, <2>1, <3>1, <3>2, <3>3 DEF TypeOK
  <2>3. /\ reopened.status = "OPEN" /\ reopened.remaining = row[a].remaining
        /\ Openish(reopened) /\ Whole(reopened)
    BY <1>1, <2>1, ArmTypes DEF Position, Openish, Whole, ArmOK, Shape
  <2> HIDE DEF reopened
  <2>4. Held(a) /\ Held(a)'
    BY <2>1, <2>2, <2>3 DEF Held, Openish
  <2>5. Shape(p, a)'
    BY <1>1, <1>2, <1>5, <2>1, <2>2, <2>3 DEF ArmOK, Shape, At, Empty, Openish
  <2>6. InStep(p, a)'
    BY <1>3, <2>2, <2>4 DEF InStep
  <2>7. Booked(p, a)'
    BY <1>1, <1>2, <1>3, <2>2, <2>3, <2>4, WrittenBooked DEF ArmOK, At
  <2> QED
    BY <2>5, <2>6, <2>7 DEF ArmOK
<1> QED
  BY <1>4, <1>5

LEMMA save_position_Arm ==
  ASSUME NEW p \in Procs, PInv(p), save_position(p), NEW a \in Arms
  PROVE  ArmOK(p, a)'
<1> DEFINE b == job[p].arm
<1>1. TypeOK /\ ProcOK(p) /\ ArmOK(p, a)
  BY DEF PInv, IInv
<1>2. /\ pc[p] = "save" /\ pc'[p] = "idle" /\ b \in Arms /\ mem[p][b].status # "NONE"
      /\ NoFault \/ Fault(p)
  BY <1>1 DEF TypeOK, save_position, Goto, Write, ProcOK, HandlerOK, Working
<1>3. Weathered(p) /\ (Fault(p) => ~healthy'[p] /\ Slack' = Slack + Lot)
  BY <1>1, <1>2, Weather, Spent
<1>4. CASE a # b
  <2>1. Untouched(p, a)
    BY <1>1, <1>2, <1>4 DEF TypeOK, Untouched, Stays, save_position, Write
  <2>2. Shape(p, a)'
    BY <1>1, <1>2, <2>1 DEF ArmOK, Shape, Untouched, Stays, At, Empty
  <2>3. InStep(p, a)'
    BY <1>1, <1>2, <1>3, <1>4, <2>1 DEF ArmOK, InStep, Untouched, Stays,
       Awaited, Restored, Filled, Held, At, Empty, Stopping, Weathered
  <2>4. Booked(p, a)'
    BY <1>1, <1>2, <1>3, <1>4, <2>1, StaysBooked DEF ArmOK, At, Untouched
  <2> QED
    BY <2>2, <2>3, <2>4 DEF ArmOK
<1>5. CASE a = b
  <2>1. /\ sold'[a] = sold[a] /\ fills'[a] = fills[a] /\ mem'[p][a] = mem[p][a]
        /\ \/ row'[a] = mem[p][a]
           \/ Fault(p) /\ row'[a] = row[a]
    BY <1>1, <1>2, <1>5 DEF TypeOK, save_position, Write, StoredForm
  <2>2. Held(a) /\ Held(a)'
    BY <1>1, <1>2, <1>5, <2>1 DEF Held, ProcOK, Remembered
  <2>3. Shape(p, a)'
    BY <1>1, <1>2, <1>5, <2>1 DEF ArmOK, Shape, At, Empty
  <2>4. InStep(p, a)'
    BY <1>3, <2>1, <2>2 DEF InStep
  <2>5. Booked(p, a)'
    <3>1. row'[a] = mem'[p][a] \/ (row'[a] = row[a] /\ Slack' = Slack + Lot)
      BY <1>3, <2>1
    <3>2. mem'[p][a].status # "NONE" /\ mem[p][a].status # "NONE"
      BY <1>2, <1>5, <2>1
    <3>3. mem'[p][a].remaining = mem[p][a].remaining
      BY <2>1
    <3>4. Booked(p, a)
      BY <1>1 DEF ArmOK
    <3> QED
      BY <1>1, <1>3, <2>1, <2>2, <3>1, <3>2, <3>3, <3>4, WrittenBooked
  <2> QED
    BY <2>3, <2>4, <2>5 DEF ArmOK
<1> QED
  BY <1>4, <1>5

-----------------------------------------------------------------------------
(* A sale, the end of a session and a crash. *)

LEMMA sell_exit_Arm ==
  ASSUME NEW p \in Procs, PInv(p), sell_exit(p), NEW a \in Arms
  PROVE  ArmOK(p, a)'
<1> DEFINE b == job[p].arm
<1>1. TypeOK /\ ProcOK(p) /\ ArmOK(p, a)
  BY DEF PInv, IInv
<1>2. /\ pc[p] = "exit" /\ pc'[p] = "save" /\ UNCHANGED job /\ b \in Arms
      /\ job[p].amount \in Nat /\ job[p].amount <= mem[p][b].remaining
      /\ NoFault \/ Fault(p)
  BY <1>1 DEF TypeOK, sell_exit, Goto, Write, ProcOK, HandlerOK, Working, Job
<1>3. Weathered(p) /\ (Fault(p) => ~healthy'[p] /\ Slack' = Slack + Lot)
  BY <1>1, <1>2, Weather, Spent
<1>4. CASE a # b
  <2>1. Untouched(p, a)
    BY <1>1, <1>2, <1>4 DEF TypeOK, Untouched, Stays, sell_exit, Write
  <2>2. Shape(p, a)'
    BY <1>1, <1>2, <1>4, <2>1 DEF ArmOK, Shape, Untouched, Stays, At, Empty
  <2>3. InStep(p, a)'
    BY <1>1, <1>2, <1>3, <1>4, <2>1 DEF ArmOK, InStep, Untouched, Stays,
       Awaited, Restored, Filled, Held, At, Empty, Stopping, Weathered
  <2>4. Booked(p, a)'
    BY <1>1, <1>2, <1>3, <1>4, <2>1, StaysBooked DEF ArmOK, At, Untouched
  <2> QED
    BY <2>2, <2>3, <2>4 DEF ArmOK
<1>5. CASE a = b
  <2> DEFINE m == mem[p][a]
  <2>1. PICK n \in 1 .. job[p].amount :
          /\ Write(p, sold' = [sold EXCEPT ![b] = @ + n], UNCHANGED sold)
          /\ mem' = [mem EXCEPT ![p][b] = apply_exit(@, n)]
    BY DEF sell_exit
  <2>2. /\ row'[a] = row[a] /\ fills'[a] = fills[a]
        /\ mem'[p][a] = apply_exit(m, n)
        /\ \/ sold'[a] = sold[a] + n
           \/ Fault(p) /\ sold'[a] = sold[a]
    <3>1. UNCHANGED <<row, fills>>
      BY DEF sell_exit
    <3> QED
      BY <1>1, <1>2, <1>5, <2>1, <3>1 DEF TypeOK, Write
  <2>3. /\ m.status = "OPEN" /\ m.remaining \in 0 .. Lot /\ n \in 1 .. m.remaining
        /\ sold[a] \in Nat /\ row[a].remaining \in 0 .. Lot
    BY <1>1, <1>2, <1>5, <2>1, ArmTypes DEF ArmOK, Shape, At
  <2>4. /\ mem'[p][a].remaining = m.remaining - n
        /\ mem'[p][a].status = IF m.remaining = n THEN "CLOSED" ELSE "OPEN"
    BY <2>2, <2>3 DEF apply_exit
  <2>5. Held(a) /\ Held(a)' /\ row[a].status # "CLOSED"
    <3>1. Held(a)
      BY <1>1, <2>3 DEF ProcOK, Remembered
    <3>2. row[a].status # "CLOSED"
      BY <1>1, <2>3, PositionFacts DEF ArmOK, Shape
    <3> QED
      BY <2>2, <3>1, <3>2 DEF Held
  <2>6. Shape(p, a)'
    <3>1. Whole(mem[p][a])'
      BY <2>3, <2>4 DEF Whole, Openish
    <3> QED
      BY <1>1, <1>2, <2>2, <2>5, <3>1 DEF ArmOK, Shape, At, Empty
  <2>7. InStep(p, a)'
    BY <1>2, <1>5, <2>5 DEF InStep, At
  <2>8. Booked(p, a)'
    <3>1. Within(sold[a] + row[a].remaining - Lot, 0)
      BY <1>1, <1>2, <2>5 DEF ArmOK, Booked, At
    <3>2. Within(sold[a] + m.remaining - Lot, 0)
      BY <1>1, <2>3 DEF ArmOK, Booked
    <3>3. /\ Slack \in Nat /\ Slack' \in Nat /\ n \in 1 .. Lot
          /\ Slack' = Slack \/ Slack' = Slack + Lot
      BY <1>3, <2>3 DEF Weathered
    <3>4. \/ sold'[a] = sold[a] + n
          \/ sold'[a] = sold[a] /\ Slack' = Slack + Lot
      BY <1>3, <2>2
    <3>5. At(p, "save", a)'
      BY <1>2, <1>5 DEF At
    <3>6. Within(sold[a] + row[a].remaining - Lot, Lot)'
      <4>1. row'[a].remaining = row[a].remaining
        BY <2>2
      <4> HIDE DEF m
      <4> QED
        BY <2>3, <3>1, <3>3, <3>4, <4>1 DEF Within
    <3>7. Within(sold[a] + mem[p][a].remaining - Lot, 0)'
      <4>1. m.remaining \in Nat
        BY <2>3
      <4> HIDE DEF m
      <4> QED
        BY <2>3, <2>4, <3>2, <3>3, <3>4, <4>1 DEF Within
    <3> QED
      BY <2>5, <3>5, <3>6, <3>7 DEF Booked
  <2> QED
    BY <2>6, <2>7, <2>8 DEF ArmOK
<1> QED
  BY <1>4, <1>5

LEMMA EndOpenFacts ==
  ASSUME NEW pos \in Position
  PROVE  /\ EndOpen(pos).remaining = pos.remaining
         /\ EndOpen(pos).status = "NONE" <=> pos.status = "NONE"
         /\ EndOpen(pos).status = "CLOSED" <=> pos.status = "CLOSED"
         /\ pos.status # "OPEN" => EndOpen(pos) = pos
         /\ Openish(EndOpen(pos)) <=> Openish(pos)
         /\ Whole(EndOpen(pos)) <=> Whole(pos)
BY DEF Position, EndOpen, Openish, Whole

LEMMA end_session_Arm ==
  ASSUME NEW p \in Procs, PInv(p), end_session(p), NEW a \in Arms
  PROVE  ArmOK(p, a)'
<1>1. TypeOK /\ ProcOK(p) /\ ArmOK(p, a) /\ mem[p][a] \in Position
  BY ArmTypes DEF PInv, IInv
<1>2. pc[p] = "idle" /\ pc'[p] \in {"sweep", "ending"} /\ NoFault
  BY <1>1 DEF TypeOK, end_session, Goto, NoFault
<1>3. Weathered(p)
  BY <1>1, <1>2, Weather
<1>4. /\ row'[a] = row[a] /\ sold'[a] = sold[a] /\ fills'[a] = fills[a]
      /\ mem'[p][a] = EndOpen(mem[p][a])
  BY <1>1 DEF TypeOK, end_session, EndAll, db
<1>5. Shape(p, a)'
  BY <1>1, <1>2, <1>4, EndOpenFacts, PositionFacts DEF ArmOK, Shape, At, Empty
<1>6. InStep(p, a)'
  BY <1>1, <1>2, <1>3, <1>4 DEF ArmOK, InStep, Awaited, Filled, Held, At, Empty, Stopping,
     Weathered
<1>7. Booked(p, a)'
  <2>1. Slack' = Slack
    BY <1>1, <1>2, Spared
  <2>2. /\ mem'[p][a].remaining = mem[p][a].remaining
        /\ mem'[p][a].status = "NONE" <=> mem[p][a].status = "NONE"
    BY <1>1, <1>4, EndOpenFacts
  <2> QED
    BY <1>1, <1>2, <1>4, <2>1, <2>2 DEF ArmOK, Booked, Within, Held, At
<1> QED
  BY <1>5, <1>6, <1>7 DEF ArmOK

LEMMA save_ended_Arm ==
  ASSUME NEW p \in Procs, PInv(p), NEW b \in Arms, save_ended(p, b), NEW a \in Arms
  PROVE  ArmOK(p, a)'
<1>1. TypeOK /\ ProcOK(p) /\ ArmOK(p, a)
  BY DEF PInv, IInv
<1>2. /\ pc[p] = "ending" /\ pc'[p] \in {"ending", "sweep"} /\ b \in todo[p]
      /\ NoFault \/ Fault(p)
  BY <1>1 DEF TypeOK, save_ended, Goto, Write
<1>3. Weathered(p) /\ (Fault(p) => ~healthy'[p] /\ Slack' = Slack + Lot)
  BY <1>1, <1>2, Weather, Spent
<1>4. CASE a # b
  <2>1. Untouched(p, a)
    BY <1>1, <1>4 DEF TypeOK, Untouched, Stays, save_ended, Write
  <2>2. Shape(p, a)'
    BY <1>1, <1>2, <2>1 DEF ArmOK, Shape, Untouched, Stays, At, Empty
  <2>3. InStep(p, a)'
    BY <1>1, <1>2, <1>3, <2>1 DEF ArmOK, InStep, Untouched, Stays,
       Awaited, Restored, Filled, Held, At, Empty, Stopping, Weathered
  <2>4. Booked(p, a)'
    BY <1>1, <1>2, <1>3, <2>1, StaysBooked DEF ArmOK, At, Untouched
  <2> QED
    BY <2>2, <2>3, <2>4 DEF ArmOK
<1>5. CASE a = b
  <2>1. mem[p][a].status # "NONE"
    BY <1>1, <1>2, <1>5 DEF ProcOK, LoopOK
  <2>2. /\ sold'[a] = sold[a] /\ fills'[a] = fills[a] /\ mem'[p][a] = mem[p][a]
        /\ \/ row'[a] = mem[p][a]
           \/ Fault(p) /\ row'[a] = row[a]
    BY <1>1, <1>5 DEF TypeOK, save_ended, Write
  <2>3. Held(a) /\ Held(a)'
    BY <1>1, <2>1, <2>2 DEF Held, ProcOK, Remembered
  <2>4. Shape(p, a)'
    BY <1>1, <1>2, <2>1, <2>2 DEF ArmOK, Shape, At, Empty
  <2>5. InStep(p, a)'
    BY <1>2, <2>3 DEF InStep, Stopping
  <2>6. Booked(p, a)'
    <3>1. row'[a] = mem'[p][a] \/ (row'[a] = row[a] /\ Slack' = Slack + Lot)
      BY <1>3, <2>2
    <3>2. mem'[p][a].status # "NONE" /\ mem'[p][a].remaining = mem[p][a].remaining
      BY <2>1, <2>2
    <3>3. Booked(p, a)
      BY <1>1 DEF ArmOK
    <3> QED
      BY <1>1, <1>3, <2>1, <2>2, <2>3, <3>1, <3>2, <3>3, WrittenBooked
  <2> QED
    BY <2>4, <2>5, <2>6 DEF ArmOK
<1> QED
  BY <1>4, <1>5

(* A process that goes down forgets; its rows may be marked as ended.      *)
LEMMA Forgets ==
  ASSUME TypeOK, NEW p \in Procs, NEW a \in Arms, ArmOK(p, a), Forget(p), Goto(p, "down"),
         sold'[a] = sold[a], row'[a] \in {row[a], EndOpen(row[a])}, Weathered(p),
         At(p, "save", a) => Slack' = Slack + Lot
  PROVE  ArmOK(p, a)'
<1>1. pc'[p] = "down" /\ mem'[p][a] = NoPosition
  BY DEF TypeOK, Forget, Goto, NoPositions
<1>2. row[a] \in Position /\ row[a].remaining \in 0 .. Lot /\ sold[a] \in Nat
  BY ArmTypes
<1>3. /\ row'[a].remaining = row[a].remaining
      /\ row'[a].status = "NONE" <=> row[a].status = "NONE"
      /\ Whole(row'[a]) <=> Whole(row[a])
  BY <1>2, EndOpenFacts
<1>4. Shape(p, a)'
  BY <1>1, <1>3, PositionFacts DEF ArmOK, Shape, At, Empty
<1>5. InStep(p, a)'
  BY <1>1 DEF InStep, Awaited, Restored, Empty
<1>6. Booked(p, a)'
  <2>1. Slack \in Nat /\ Slack' \in Nat /\ (Slack' = Slack \/ Slack' = Slack + Lot)
    BY DEF Weathered
  <2>2. Held(a)' <=> Held(a)
    BY <1>3 DEF Held
  <2>3. ~At(p, "save", a)'
    BY <1>1 DEF At
  <2>4. Held(a) => Within(sold[a] + row[a].remaining - Lot, 0)'
    <3>1. Held(a) => Within(sold[a] + row[a].remaining - Lot,
                            IF At(p, "save", a) THEN Lot ELSE 0)
      BY DEF ArmOK, Booked
    <3> QED
      BY <1>2, <1>3, <2>1, <3>1 DEF Within
  <2>5. ~Held(a) => sold'[a] = 0
    BY DEF ArmOK, Booked
  <2> QED
    BY <1>1, <2>2, <2>3, <2>4, <2>5, PositionFacts DEF Booked
<1> QED
  BY <1>4, <1>5, <1>6 DEF ArmOK

LEMMA session_end_positions_Arm ==
  ASSUME NEW p \in Procs, PInv(p), session_end_positions(p), NEW a \in Arms
  PROVE  ArmOK(p, a)'
<1>1. TypeOK /\ ArmOK(p, a)
  BY DEF PInv, IInv
<1>2. /\ pc[p] = "sweep" /\ sold'[a] = sold[a]
      /\ NoFault \/ Fault(p)
  BY DEF session_end_positions, Write
<1>3. row'[a] \in {row[a], EndOpen(row[a])}
  BY <1>1 DEF TypeOK, session_end_positions, Write, EndAll
<1> QED
  BY <1>1, <1>2, <1>3, Weather, Forgets DEF session_end_positions, At

LEMMA Crash_Arm ==
  ASSUME NEW p \in Procs, PInv(p), Crash(p), NEW a \in Arms
  PROVE  ArmOK(p, a)'
<1>1. TypeOK /\ ArmOK(p, a)
  BY DEF PInv, IInv
<1>2. row'[a] = row[a] /\ sold'[a] = sold[a] /\ Fault(p) /\ Forget(p) /\ Goto(p, "down")
  BY DEF Crash, db
<1>3. Weathered(p) /\ Slack' = Slack + Lot
  BY <1>1, <1>2, Weather, Spent
<1> QED
  BY <1>1, <1>2, <1>3, Forgets

-----------------------------------------------------------------------------
(* The theorems. *)

(* One process at a time runs the experiment, as often as it is started. *)
Lone == \E p : Procs = {p}
AllOK == \A p \in Procs : PInv(p)

LEMMA AllInit == Init => AllOK
<1> SUFFICES ASSUME Init, NEW p \in Procs, NEW a \in Arms PROVE ArmOK(p, a)
  BY IInvInit DEF AllOK, PInv
<1>1. /\ pc[p] = "down" /\ row[a] = NoPosition /\ mem[p][a] = NoPosition
      /\ sold[a] = 0 /\ fills[a] = 0
  BY DEF Init, NoPositions
<1>2. Shape(p, a)
  BY <1>1, PositionFacts DEF Shape, At, Empty
<1>3. InStep(p, a)
  BY <1>1, PositionFacts DEF InStep, Filled, Awaited, Restored, Empty
<1>4. Booked(p, a)
  BY <1>1, PositionFacts DEF Booked, Held
<1> QED
  BY <1>2, <1>3, <1>4 DEF ArmOK

(* The step of a process, named. *)
LEMMA AllStep ==
  ASSUME Lone
  PROVE  AllOK /\ [Next]_vars => AllOK'
<1> SUFFICES ASSUME AllOK, [Next]_vars, NEW p \in Procs PROVE PInv(p)'
  BY DEF AllOK
<1>1. IInv' /\ PInv(p)
  BY IInvStep DEF AllOK, PInv
<1> SUFFICES ASSUME NEW a \in Arms PROVE ArmOK(p, a)'
  BY <1>1 DEF PInv
<1>2. CASE UNCHANGED vars
  <2>1. ArmOK(p, a)
    BY <1>1 DEF PInv
  <2> QED
    BY <1>2, <2>1 DEF vars, db, runtime, ArmOK, Shape, InStep, Booked, Within, Slack, At,
       Awaited, Restored, Filled, Held
<1>3. CASE Next
  <2>1. \/ Start(p) \/ Progress(p) \/ end_session(p) \/ Crash(p)
        \/ \E b \in Arms : \/ queue_arm(p, b) \/ flush_pending(p, b)
                           \/ signal_exit(p, b) \/ backoff_elapses(p, b)
    BY <1>3, Lone DEF Next, Lone
  <2>2. CASE Start(p) \/ end_session(p) \/ Crash(p)
    BY <1>1, <2>2, Start_Arm, end_session_Arm, Crash_Arm
  <2>3. CASE Restore(p)
    BY <1>1, <2>3, ensure_arm_claims_Arm, load_lifetime_arms_Arm, load_orphan_fills_Arm,
       load_open_positions_Arm, reconstruct_position_Arm, reopen_position_Arm DEF Restore
  <2>4. CASE Entry(p)
    BY <1>1, <2>4, read_curve_Arm, insert_order_claimed_Arm, insert_position_Arm DEF Entry
  <2>5. CASE Exit(p)
    BY <1>1, <2>5, fail_exit_Arm, sell_exit_Arm, save_position_Arm DEF Exit
  <2>6. CASE Stop(p)
    BY <1>1, <2>6, session_end_positions_Arm, save_ended_Arm DEF Stop
  <2>7. CASE \E b \in Arms : \/ queue_arm(p, b) \/ flush_pending(p, b)
                             \/ signal_exit(p, b) \/ backoff_elapses(p, b)
    BY <1>1, <2>7, queue_arm_Arm, flush_pending_Arm, signal_exit_Arm, backoff_elapses_Arm
  <2> QED
    BY <2>1, <2>2, <2>3, <2>4, <2>5, <2>6, <2>7 DEF Progress
<1> QED
  BY <1>2, <1>3

LEMMA AllHolds == ASSUME Lone PROVE Spec => []AllOK
<1>1. AllOK /\ [Next]_vars => AllOK'
  BY AllStep
<1> QED
  BY <1>1, AllInit, PTL DEF Spec

(* Between operations a process that met no fault since its last start     *)
(* manages exactly the open rows with the tokens they have, and each       *)
(* filled BUY has its position, whatever happened before that start.       *)
THEOREM MemoryMirrorsRows ==
  ASSUME Lone
  PROVE  Spec => []Mirror
<1>1. AllOK => Mirror
  BY DEF AllOK, PInv, ArmOK, InStep, Mirror, Awaited, Restored, At, Empty, Stopping, Openish
<1> QED
  BY <1>1, AllHolds, PTL

(* The stored inventory and the SELL rows of a key drift apart by one      *)
(* position at most for each fault: ignored errors of the SELL row and of  *)
(* update_paper_position do not add up over the sales that follow.         *)
THEOREM DriftIsBounded ==
  ASSUME Lone
  PROVE  Spec => []DriftPerFault
<1>1. AllOK => DriftPerFault
  <2> SUFFICES ASSUME AllOK, NEW a \in Arms, Held(a), \A p \in Procs : pc[p] # "save"
               PROVE  LET drift == sold[a] + row[a].remaining - Lot
                      IN  -faults * Lot <= drift /\ drift <= faults * Lot
    BY DEF DriftPerFault
  <2>1. PICK p \in Procs : Procs = {p}
    BY DEF Lone
  <2>2. TypeOK /\ Booked(p, a) /\ pc[p] # "save"
    BY DEF AllOK, PInv, IInv, ArmOK
  <2>3. Within(sold[a] + row[a].remaining - Lot, 0)
    BY <2>2 DEF Booked, At
  <2>4. faults \in Nat /\ Slack = faults * Lot /\ -faults * Lot = -Slack
    BY <2>2 DEF TypeOK, Slack
  <2>5. sold[a] \in Nat /\ row[a].remaining \in 0 .. Lot
    BY <2>1, <2>2, ArmTypes
  <2> QED
    BY <2>2, <2>3, <2>4, <2>5, SlackType DEF Within
<1> QED
  BY <1>1, AllHolds, PTL

-----------------------------------------------------------------------------
(* What is closed stays closed. *)

Final(a) == row[a].status = "CLOSED" => row'[a] = row[a] /\ sold'[a] = sold[a]

(* The steps that write no row and store no sale. *)
LEMMA UnwrittenFinal ==
  ASSUME UNCHANGED <<row, sold>>, NEW a \in Arms
  PROVE  Final(a)
BY DEF Final

LEMMA InsertFinal ==
  ASSUME TypeOK, NEW a \in Arms, NEW b \in Arms, UNCHANGED sold,
         UNCHANGED row \/ (~Held(b) /\ InsertPosition(b))
  PROVE  Final(a)
BY DEF Final, Held, InsertPosition, TypeOK

LEMMA EndOpenFinal ==
  ASSUME TypeOK, NEW a \in Arms, UNCHANGED sold,
         UNCHANGED row \/ row' = EndAll(row)
  PROVE  Final(a)
BY DEF Final, EndAll, EndOpen, TypeOK

(* A process writes a closed row only with what it already says.           *)
LEMMA SaveFinal ==
  ASSUME NEW p \in Procs, PInv(p), NEW a \in Arms, NEW b \in Arms,
         mem[p][b].status # "NONE", UNCHANGED sold,
         UNCHANGED row \/ row' = [row EXCEPT ![b] = mem[p][b]]
  PROVE  Final(a)
<1>1. TypeOK /\ Shape(p, b)
  BY DEF PInv, IInv, ArmOK
<1>2. row[b].status = "CLOSED" => mem[p][b] = row[b]
  BY <1>1, PositionFacts DEF Shape
<1> QED
  BY <1>1, <1>2 DEF Final, TypeOK

LEMMA ReopenFinal ==
  ASSUME NEW p \in Procs, PInv(p), NEW a \in Arms, NEW b \in Arms,
         reopen_position(p, b)
  PROVE  Final(a)
<1>1. TypeOK /\ Shape(p, b)
  BY DEF PInv, IInv, ArmOK
<1>2. row[b].status # "CLOSED"
  BY <1>1 DEF Shape, reopen_position, Openish
<1>3. UNCHANGED sold
  BY DEF reopen_position
<1>4. a # b => row'[a] = row[a]
  BY <1>1 DEF TypeOK, reopen_position, Write
<1> QED
  BY <1>2, <1>3, <1>4 DEF Final

LEMMA SellFinal ==
  ASSUME NEW p \in Procs, PInv(p), NEW a \in Arms, sell_exit(p)
  PROVE  Final(a)
<1> DEFINE b == job[p].arm
<1>1. TypeOK /\ ProcOK(p) /\ pc[p] = "exit" /\ b \in Arms
  BY DEF PInv, IInv, ProcOK, HandlerOK, Working, sell_exit
<1>2. mem[p][b].status = "OPEN"
  BY <1>1 DEF PInv, ArmOK, Shape, At
<1>3. row[b].status # "CLOSED"
  BY <1>1, <1>2, PositionFacts DEF PInv, ArmOK, Shape
<1>4. UNCHANGED row /\ (a # b => sold'[a] = sold[a])
  BY <1>1 DEF TypeOK, sell_exit, Write
<1> QED
  BY <1>3, <1>4 DEF Final

LEMMA RestoreFinal ==
  ASSUME NEW p \in Procs, PInv(p), NEW a \in Arms, Restore(p)
  PROVE  Final(a)
<1>1. CASE ensure_arm_claims(p)
  BY <1>1, UnwrittenFinal DEF ensure_arm_claims
<1>2. CASE load_lifetime_arms(p)
  BY <1>2, UnwrittenFinal DEF load_lifetime_arms, db
<1>3. CASE load_orphan_fills(p)
  BY <1>3, UnwrittenFinal DEF load_orphan_fills, db
<1>4. CASE load_open_positions(p)
  BY <1>4, UnwrittenFinal DEF load_open_positions, db
<1>5. ASSUME NEW b \in Arms, reconstruct_position(p, b)
      PROVE  Final(a)
  <2>1. /\ TypeOK /\ UNCHANGED sold
        /\ UNCHANGED row \/ (~Held(b) /\ InsertPosition(b))
    BY <1>5 DEF PInv, IInv, reconstruct_position
  <2> QED
    BY <2>1, InsertFinal
<1> QED
  BY <1>1, <1>2, <1>3, <1>4, <1>5, ReopenFinal DEF Restore

LEMMA EntryFinal ==
  ASSUME NEW p \in Procs, PInv(p), NEW a \in Arms, Entry(p)
  PROVE  Final(a)
<1>1. CASE read_curve(p)
  BY <1>1, UnwrittenFinal DEF read_curve, db
<1>2. CASE insert_order_claimed(p)
  BY <1>2, UnwrittenFinal DEF insert_order_claimed
<1>3. CASE insert_position(p)
  <2> DEFINE b == job[p].arm
  <2>1. TypeOK /\ ProcOK(p) /\ pc[p] = "position"
    BY <1>3 DEF PInv, IInv, insert_position
  <2>2. b \in Arms
    BY <2>1 DEF ProcOK, HandlerOK, Working
  <2>3. UNCHANGED sold /\ (UNCHANGED row \/ (~Held(b) /\ InsertPosition(b)))
    BY <1>3 DEF insert_position
  <2> QED
    BY <2>1, <2>2, <2>3, InsertFinal
<1> QED
  BY <1>1, <1>2, <1>3 DEF Entry

LEMMA ExitFinal ==
  ASSUME NEW p \in Procs, PInv(p), NEW a \in Arms, Exit(p)
  PROVE  Final(a)
<1>1. CASE fail_exit(p)
  BY <1>1, UnwrittenFinal DEF fail_exit, db
<1>2. CASE save_position(p)
  <2> DEFINE b == job[p].arm
  <2>1. ProcOK(p) /\ pc[p] = "save"
    BY <1>2 DEF PInv, IInv, save_position
  <2>2. b \in Arms /\ mem[p][b].status # "NONE"
    BY <2>1 DEF ProcOK, HandlerOK, Working
  <2>3. UNCHANGED sold /\ (UNCHANGED row \/ row' = [row EXCEPT ![b] = mem[p][b]])
    BY <1>2 DEF save_position, Write, StoredForm
  <2> QED
    BY <2>2, <2>3, SaveFinal
<1> QED
  BY <1>1, <1>2, SellFinal DEF Exit

LEMMA StopFinal ==
  ASSUME NEW p \in Procs, PInv(p), NEW a \in Arms, Stop(p)
  PROVE  Final(a)
<1>1. CASE session_end_positions(p)
  <2>1. UNCHANGED sold /\ (UNCHANGED row \/ row' = EndAll(row))
    BY <1>1 DEF session_end_positions, Write
  <2> QED
    BY <2>1, EndOpenFinal DEF PInv, IInv
<1>2. ASSUME NEW b \in Arms, save_ended(p, b)
      PROVE  Final(a)
  <2>1. ProcOK(p) /\ pc[p] = "ending" /\ b \in todo[p]
    BY <1>2 DEF PInv, IInv, save_ended
  <2>2. mem[p][b].status # "NONE"
    BY <2>1 DEF ProcOK, LoopOK
  <2>3. UNCHANGED sold /\ (UNCHANGED row \/ row' = [row EXCEPT ![b] = mem[p][b]])
    BY <1>2 DEF save_ended, Write
  <2> QED
    BY <2>2, <2>3, SaveFinal
<1> QED
  BY <1>1, <1>2 DEF Stop

LEMMA StepFinal ==
  ASSUME AllOK, [Next]_vars, NEW a \in Arms
  PROVE  Final(a)
<1>1. CASE UNCHANGED vars
  BY <1>1, UnwrittenFinal DEF vars, db
<1>2. ASSUME NEW p \in Procs,
             Start(p) \/ end_session(p) \/ Crash(p)
      PROVE  Final(a)
  BY <1>2, UnwrittenFinal DEF Start, end_session, Crash, db
<1>3. ASSUME NEW p \in Procs, Progress(p)
      PROVE  Final(a)
  BY <1>3, RestoreFinal, EntryFinal, ExitFinal, StopFinal DEF AllOK, Progress
<1>4. ASSUME NEW p \in Procs, NEW b \in Arms,
             \/ queue_arm(p, b) \/ flush_pending(p, b)
             \/ signal_exit(p, b) \/ backoff_elapses(p, b)
      PROVE  Final(a)
  BY <1>4, UnwrittenFinal DEF queue_arm, flush_pending, signal_exit, backoff_elapses, db
<1> QED
  BY <1>1, <1>2, <1>3, <1>4 DEF Next

(* Once a close is stored, no step of the trader, of its restore or of the *)
(* end of a session changes the row, and no SELL row is added for its key. *)
THEOREM ClosesAreFinal ==
  ASSUME Lone
  PROVE  Spec => ClosedIsFinal
<1> DEFINE A == \A a \in Arms : row[a].status = "CLOSED" =>
                  row'[a] = row[a] /\ sold'[a] = sold[a]
<1>1. AllOK /\ [Next]_vars => A
  BY StepFinal DEF Final
<1>2. AllOK /\ [Next]_vars => [A]_vars
  BY <1>1
<1>3. Spec => []AllOK
  BY AllHolds
<1>4. Spec => [][A]_vars
  <2> HIDE DEF A
  <2> QED
    BY <1>2, <1>3, PTL DEF Spec
<1> QED
  BY <1>4 DEF ClosedIsFinal
=============================================================================
