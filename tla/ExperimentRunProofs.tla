------------------------ MODULE ExperimentRunProofs ------------------------
(***************************************************************************)
(* Theorems about ExperimentRun for all sets of processes and every bound  *)
(* on faults and starts: TypeOK, OverlapNeedsFault, BlindIsNotValid and    *)
(* QuietInvalidationHolds.                                                 *)
(***************************************************************************)
EXTENDS ExperimentRun, FiniteSetTheorems, TLAPS

USE BoundsAssumption, DistinctAssumption

-----------------------------------------------------------------------------
(* Control flow. *)

(* Where the process that moves ends up, and that the others stay.         *)
LEMMA Jumped ==
  ASSUME TypeOK, NEW p \in Runs \cup Commands, NEW label, NEW l \in Local,
         Jump(p, label, l)
  PROVE  /\ DOMAIN pc' = Runs \cup Commands /\ local' \in [Runs \cup Commands -> Local]
         /\ pc'[p] = label /\ local'[p] = l
         /\ \A q \in (Runs \cup Commands) \ {p} : pc'[q] = pc[q] /\ local'[q] = local[q]
BY DEF TypeOK, Jump

LEMMA LocalTypes ==
  /\ NoLocal \in Local /\ NewHealth \in Health
  /\ \A payload \in Payload : /\ Loaded(payload) \in Local
                              /\ Loaded(payload).copy = payload
  /\ NoRow \in Payload /\ Locked \in Payload
BY DEF NoLocal, NewHealth, Health, Local, Payload, Loaded, NoRow, Locked, Statuses, Kinds

LEMMA Quitted ==
  ASSUME TypeOK, NEW p \in Runs \cup Commands, Quit(p)
  PROVE  /\ DOMAIN pc' = Runs \cup Commands /\ local' \in [Runs \cup Commands -> Local]
         /\ p \in Runs => pc'[p] = "down"
         /\ p \in Commands => pc'[p] = "done"
         /\ local'[p] = NoLocal
         /\ \A q \in (Runs \cup Commands) \ {p} : pc'[q] = pc[q] /\ local'[q] = local[q]
         /\ health' \in [Runs -> Health]
         /\ \A r \in Runs : health'[r] = IF r = p THEN NewHealth ELSE health[r]
<1>1. Jump(p, IF p \in Runs THEN "down" ELSE "done", NoLocal)
  BY DEF Quit
<1>2. health' = [r \in Runs |-> IF r = p THEN NewHealth ELSE health[r]]
  BY DEF Quit
<1>3. health' \in [Runs -> Health]
  BY <1>2, LocalTypes DEF TypeOK
<1> QED
  BY <1>1, <1>2, <1>3, Jumped, LocalTypes

(* What a step may do to the labels, the locals and the health.            *)
Moved(p, labels) ==
  /\ DOMAIN pc' = Runs \cup Commands /\ local' \in [Runs \cup Commands -> Local]
  /\ health' \in [Runs -> Health]
  /\ pc'[p] \in labels
  /\ \A q \in (Runs \cup Commands) \ {p} : pc'[q] = pc[q] /\ local'[q] = local[q]

LEMMA QuitMoves ==
  ASSUME TypeOK, NEW p \in Runs \cup Commands, Quit(p)
  PROVE  /\ p \in Runs => Moved(p, RunLabels)
         /\ p \in Commands => Moved(p, CommandLabels)
BY Quitted DEF Moved, RunLabels, CommandLabels

LEMMA GotoMoves ==
  ASSUME TypeOK, NEW p \in Runs \cup Commands, NEW label, NEW l \in Local,
         Goto(p, label, l)
  PROVE  Moved(p, {label}) /\ pc'[p] = label /\ local'[p] = l /\ health' = health
<1>1. Jump(p, label, l) /\ health' = health
  BY DEF Goto
<1> QED
  BY <1>1, Jumped DEF Moved, TypeOK

LEMMA FaultTypes ==
  ASSUME TypeOK, NEW p, NoFault \/ Fault(p)
  PROVE  faults' \in 0 .. MaxFaults /\ clean' \in [Runs -> BOOLEAN]
<1>1. CASE NoFault
  BY <1>1 DEF TypeOK, NoFault
<1>2. CASE Fault(p)
  <2>1. faults' \in 0 .. MaxFaults
    BY <1>2 DEF TypeOK, Fault
  <2>2. clean' = [r \in Runs |-> clean[r] /\ r # p]
    BY <1>2 DEF Fault
  <2>3. \A r \in Runs : (clean[r] /\ r # p) \in BOOLEAN
    OBVIOUS
  <2>4. clean' \in [Runs -> BOOLEAN]
    BY <2>2, <2>3, Zenon
  <2> QED
    BY <2>1, <2>4
<1> QED
  BY <1>1, <1>2

(* The part of TypeOK that control flow touches.                           *)
ProcTypes ==
  /\ DOMAIN pc = Runs \cup Commands
  /\ \A r \in Runs : pc[r] \in RunLabels
  /\ \A c \in Commands : pc[c] \in CommandLabels
  /\ local \in [Runs \cup Commands -> Local]
  /\ health \in [Runs -> Health]

LEMMA MovedTypes ==
  ASSUME TypeOK, NEW p \in Runs \cup Commands, NEW labels, Moved(p, labels),
         p \in Runs => labels \subseteq RunLabels,
         p \in Commands => labels \subseteq CommandLabels
  PROVE  ProcTypes'
BY DEF TypeOK, Moved, ProcTypes

LEMMA Labelled ==
  ASSUME TypeOK, NEW p \in Runs \cup Commands, NEW label, NEW l \in Local,
         p \in Runs => label \in RunLabels, p \in Commands => label \in CommandLabels,
         Goto(p, label, l)
  PROVE  ProcTypes'
<1>1. Moved(p, {label})
  BY GotoMoves
<1> QED
  BY <1>1, MovedTypes

LEMMA QuitTypes ==
  ASSUME TypeOK, NEW p \in Runs \cup Commands, Quit(p)
  PROVE  ProcTypes'
<1>1. p \in Runs => Moved(p, RunLabels)
  BY QuitMoves
<1>2. p \in Commands => Moved(p, CommandLabels)
  BY QuitMoves
<1>3. CASE p \in Runs
  BY <1>1, <1>3, MovedTypes
<1>4. CASE p \in Commands
  BY <1>2, <1>4, MovedTypes
<1> QED
  BY <1>3, <1>4

LEMMA Together ==
  ASSUME ProcTypes', stored' \in Payload, open' \in Seq(Kinds), credited' \subseteq Kinds,
         faults' \in 0 .. MaxFaults, starts' \in 0 .. MaxStarts,
         clean' \in [Runs -> BOOLEAN]
  PROVE  TypeOK'
BY DEF TypeOK, ProcTypes

(* What the statements on the intervals do.                                *)
RowTypes == open \in Seq(Kinds) /\ credited \subseteq Kinds

LEMMA Closed ==
  ASSUME TypeOK, NEW kind, CloseOpen(kind)
  PROVE  RowTypes' /\ open' = <<>>
BY DEF CloseOpen, RowTypes, TypeOK

LEMMA Opened ==
  ASSUME TypeOK, NEW kind \in Kinds, OpenInterval(kind)
  PROVE  /\ RowTypes' /\ open' = Append(open, kind)
         /\ Len(open') = Len(open) + 1 /\ open'[Len(open')] = kind
BY DEF OpenInterval, RowTypes, TypeOK

LEMMA RowsStay ==
  ASSUME TypeOK, UNCHANGED rows
  PROVE  RowTypes' /\ open' = open
BY DEF rows, RowTypes, TypeOK

-----------------------------------------------------------------------------
(* TypeOK, step by step. *)

LEMMA LabelsOfBoth ==
  /\ {"audit", "lock", "lock_save", "load", "restart", "open", "save", "running",
      "apply", "close", "reopen", "bounded", "reload", "pause", "down"} \subseteq RunLabels
  /\ {"lock", "lock_save", "void", "invalidate", "done", "ready"} \subseteq CommandLabels
BY DEF RunLabels, CommandLabels, Starting, Ticking, Ending

LEMMA AfterLockTypes ==
  ASSUME TypeOK, NEW p \in Runs \cup Commands, NEW payload \in Payload,
         AfterLock(p, payload)
  PROVE  ProcTypes'
<1>1. CASE p \in Runs
  <2>1. Goto(p, "audit", Loaded(payload))
    BY <1>1 DEF AfterLock
  <2> QED
    BY <2>1, <1>1, Labelled, LocalTypes, LabelsOfBoth
<1>2. CASE p \notin Runs
  BY <1>2, QuitTypes DEF AfterLock
<1> QED
  BY <1>1, <1>2

(* A statement that reads, with the rest of the step typed.                *)
LEMMA Reading ==
  ASSUME TypeOK, NEW p \in Runs \cup Commands, NoFault \/ Fault(p),
         UNCHANGED <<stored, rows, starts>>, ProcTypes'
  PROVE  TypeOK'
BY FaultTypes, RowsStay, Together DEF TypeOK, RowTypes

LEMMA Writing ==
  ASSUME TypeOK, NEW p \in Runs \cup Commands, NoFault \/ Fault(p),
         UNCHANGED <<stored, starts>>, RowTypes', ProcTypes'
  PROVE  TypeOK'
BY FaultTypes, Together DEF TypeOK, RowTypes

LEMMA Saving ==
  ASSUME TypeOK, NEW p \in Runs \cup Commands, NEW payload \in Payload,
         NoFault \/ Fault(p), stored' = payload \/ UNCHANGED stored,
         UNCHANGED <<rows, starts>>, ProcTypes'
  PROVE  TypeOK'
BY FaultTypes, RowsStay, Together DEF TypeOK, RowTypes

LEMMA IgnoredClose ==
  ASSUME TypeOK, NEW p, NEW kind, Ignoring(p, CloseOpen(kind))
  PROVE  (NoFault \/ Fault(p)) /\ RowTypes' /\ (open' = <<>> \/ (open' = open /\ Fault(p)))
BY Closed, RowsStay DEF Ignoring

LEMMA IgnoredOpen ==
  ASSUME TypeOK, NEW p, NEW kind \in Kinds, Ignoring(p, OpenInterval(kind))
  PROVE  /\ NoFault \/ Fault(p)
         /\ RowTypes'
         /\ \/ open' = Append(open, kind) /\ Len(open') = Len(open) + 1
            \/ open' = open /\ Fault(p)
BY Opened, RowsStay DEF Ignoring

LEMMA LockTypes ==
  ASSUME TypeOK, NEW p \in Runs \cup Commands, lock_load(p) \/ lock_save(p)
  PROVE  TypeOK'
<1>1. CASE lock_load(p)
  <2>1. /\ NoFault \/ Fault(p)
        /\ UNCHANGED <<stored, rows, starts>>
        /\ \/ AfterLock(p, stored)
           \/ Goto(p, "lock_save", Loaded(Locked))
           \/ Quit(p)
    BY <1>1 DEF lock_load, Load
  <2>2. ProcTypes'
    <3>1. CASE AfterLock(p, stored)
      BY <3>1, AfterLockTypes DEF TypeOK
    <3>2. CASE Goto(p, "lock_save", Loaded(Locked))
      BY <3>2, Labelled, LocalTypes, LabelsOfBoth
    <3>3. CASE Quit(p)
      BY <3>3, QuitTypes
    <3> QED
      BY <2>1, <3>1, <3>2, <3>3
  <2> QED
    BY <2>1, <2>2, Reading
<1>2. CASE lock_save(p)
  <2>1. /\ NoFault \/ Fault(p)
        /\ UNCHANGED <<rows, starts>>
        /\ stored' = Locked \/ UNCHANGED stored
        /\ AfterLock(p, Locked) \/ Quit(p)
    BY <1>2 DEF lock_save, Upsert, Trying
  <2>2. ProcTypes'
    BY <2>1, AfterLockTypes, QuitTypes, LocalTypes
  <2> QED
    BY <2>1, <2>2, Saving, LocalTypes
<1> QED
  BY <1>1, <1>2

LEMMA StartingTypes ==
  ASSUME TypeOK, NEW r \in Runs,
         Start(r) \/ start_load(r) \/ start_audit(r) \/ start_close(r) \/ start_open(r)
           \/ start_save(r)
  PROVE  TypeOK'
<1> USE LocalTypes
<1>0. local[r] \in Local /\ local[r].copy \in Payload /\ stored \in Payload
  BY DEF TypeOK, Local
<1>1. CASE Start(r)
  <2>1. ProcTypes'
    BY <1>1, Labelled, LabelsOfBoth DEF Start
  <2>2. RowTypes' /\ faults' \in 0 .. MaxFaults /\ stored' \in Payload
        /\ starts' \in 0 .. MaxStarts /\ clean' \in [Runs -> BOOLEAN]
    BY <1>1, RowsStay DEF Start, TypeOK
  <2> QED
    BY <2>1, <2>2, Together DEF RowTypes
<1>2. CASE start_load(r)
  <2>1. /\ NoFault \/ Fault(r)
        /\ UNCHANGED <<stored, rows, starts>>
        /\ \/ Goto(r, "audit", Loaded(stored))
           \/ Goto(r, "lock", NoLocal)
           \/ Quit(r)
    BY <1>2 DEF start_load, Load
  <2>2. ProcTypes'
    BY <2>1, <1>0, Labelled, QuitTypes, LabelsOfBoth
  <2> QED
    BY <2>1, <2>2, Reading
<1>3. CASE start_audit(r)
  <2>1. /\ NoFault \/ Fault(r)
        /\ UNCHANGED <<stored, rows, starts>>
        /\ \/ Goto(r, "restart", local[r])
           \/ Goto(r, "open", local[r])
           \/ Quit(r)
    BY <1>3 DEF start_audit
  <2>2. ProcTypes'
    BY <2>1, <1>0, Labelled, QuitTypes, LabelsOfBoth
  <2> QED
    BY <2>1, <2>2, Reading
<1>4. CASE start_close(r)
  <2>1. ProcTypes'
    BY <1>4, <1>0, Labelled, LabelsOfBoth DEF start_close
  <2> QED
    BY <1>4, <2>1, IgnoredClose, Writing DEF start_close
<1>5. CASE start_open(r)
  <2>1. Loaded([status |-> "RUNNING", started |-> TRUE]) \in Local
    BY DEF Payload, Statuses
  <2>2. ProcTypes'
    BY <1>5, <2>1, Labelled, LabelsOfBoth DEF start_open
  <2>3. "VALID" \in Kinds
    BY DEF Kinds
  <2>4. RowTypes' /\ (NoFault \/ Fault(r)) /\ UNCHANGED <<stored, starts>>
    BY <1>5, <2>3, IgnoredOpen DEF start_open
  <2> QED
    BY <2>2, <2>4, Writing
<1>6. CASE start_save(r)
  <2>1. /\ NoFault \/ Fault(r)
        /\ UNCHANGED <<rows, starts>>
        /\ stored' = local[r].copy \/ UNCHANGED stored
        /\ Goto(r, "running", NoLocal) \/ Quit(r)
    BY <1>6 DEF start_save, Upsert, Trying
  <2>2. ProcTypes'
    BY <2>1, Labelled, QuitTypes, LabelsOfBoth
  <2> QED
    BY <2>1, <2>2, <1>0, Saving
<1> QED
  BY <1>1, <1>2, <1>3, <1>4, <1>5, <1>6

LEMMA EvaluateKind ==
  \A h : evaluate(h) \in Kinds
BY DEF evaluate, Kinds

LEMMA SignalTypes ==
  ASSUME NEW h \in Health
  PROVE  Signals(h) \subseteq Health
BY DEF Signals, Health

(* The decision of a tick: what it closes and opens with, where it goes.   *)
LEMMA Planned ==
  ASSUME TypeOK, NEW r \in Runs, apply_health(r)
  PROVE  /\ health' = [health EXCEPT ![r].reason = evaluate(health[r])]
         /\ UNCHANGED <<stored, rows, starts>>
         /\ NoFault \/ Fault(r)
         /\ \E label \in {"reopen", "close", "running"}, book, next \in Kinds :
              Jump(r, label, [NoLocal EXCEPT !.book = book, !.next = next])
<1> DEFINE want == evaluate(health[r])
           cur  == open[Len(open)]
           PlannedAs(label, book, next) ==
             Jump(r, label, [NoLocal EXCEPT !.book = book, !.next = next])
<1>1. /\ health' = [health EXCEPT ![r].reason = want]
      /\ UNCHANGED <<stored, rows, starts>>
      /\ NoFault \/ Fault(r)
      /\ \/ open = <<>> /\ PlannedAs("reopen", want, want)
         \/ open # <<>> /\ PlannedAs("close", want, want)
         \/ open # <<>> /\ PlannedAs("close", cur, "VALID")
         \/ Jump(r, "running", NoLocal)
  BY DEF apply_health
<1>2. want \in Kinds /\ "VALID" \in Kinds
  BY EvaluateKind DEF Kinds
<1>3. open # <<>> => cur \in Kinds
  BY DEF TypeOK
<1>4. NoLocal = [NoLocal EXCEPT !.book = "VALID", !.next = "VALID"]
  <2>1. \A l \in Local : l = [l EXCEPT !.book = l.book, !.next = l.next]
    BY DEF Local
  <2>2. NoLocal.book = "VALID" /\ NoLocal.next = "VALID"
    BY DEF NoLocal
  <2> QED
    BY <2>1, <2>2, LocalTypes
<1>5. Jump(r, "running", NoLocal) => PlannedAs("running", "VALID", "VALID")
  BY <1>4
<1> HIDE DEF PlannedAs, want, cur
<1>6. \E label \in {"reopen", "close", "running"}, book, next \in Kinds :
        PlannedAs(label, book, next)
  BY <1>1, <1>2, <1>3, <1>5
<1>7. \E label \in {"reopen", "close", "running"}, book, next \in Kinds :
        Jump(r, label, [NoLocal EXCEPT !.book = book, !.next = next])
  BY <1>6 DEF PlannedAs
<1> QED
  BY <1>1, <1>7 DEF want

LEMMA TickingTypes ==
  ASSUME TypeOK, NEW r \in Runs, signal(r) \/ Tick(r)
  PROVE  TypeOK'
<1> USE LocalTypes
<1>0. local[r] \in Local /\ local[r].book \in Kinds /\ local[r].next \in Kinds
  BY DEF TypeOK, Local
<1>1. CASE signal(r)
  <2>1. PICK h \in Signals(health[r]) : health' = [health EXCEPT ![r] = h]
    BY <1>1 DEF signal
  <2>2. health' \in [Runs -> Health]
    BY <2>1, SignalTypes DEF TypeOK
  <2>3. UNCHANGED <<stored, rows, pc, local, faults, starts, clean>>
    BY <1>1 DEF signal
  <2>4. ProcTypes'
    BY <2>2, <2>3 DEF TypeOK, ProcTypes
  <2> QED
    BY <2>3, <2>4, RowsStay, Together DEF TypeOK, RowTypes
<1>2. CASE tick_health(r)
  <2> DEFINE h == [health[r] EXCEPT !.limited = health[r].circuit]
             gate == evaluate(h) = "VALID" /\ ~h.circuit
             l == [NoLocal EXCEPT !.gate = gate]
  <2>1. health' = [health EXCEPT ![r] = h] /\ Jump(r, "apply", l)
        /\ UNCHANGED <<stored, rows, faults, starts, clean>>
    BY <1>2 DEF tick_health
  <2>2. h \in Health
    BY DEF TypeOK, Health
  <2>3. gate \in BOOLEAN
    OBVIOUS
  <2>4. l \in Local
    BY <2>3 DEF Local, NoLocal, Kinds, Payload, NoRow, Statuses
  <2> HIDE DEF h, l
  <2>5. health' \in [Runs -> Health]
    BY <2>1, <2>2 DEF TypeOK
  <2>6. Moved(r, {"apply"})
    BY <2>1, <2>4, <2>5, Jumped DEF Moved
  <2>7. ProcTypes'
    BY <2>6, MovedTypes, LabelsOfBoth
  <2> QED
    BY <2>1, <2>7, RowsStay, Together DEF TypeOK, RowTypes
<1>3. CASE apply_health(r)
  <2>1. PICK label \in {"reopen", "close", "running"}, book \in Kinds, next \in Kinds :
          Jump(r, label, [NoLocal EXCEPT !.book = book, !.next = next])
    BY <1>3, Planned
  <2>2. [NoLocal EXCEPT !.book = book, !.next = next] \in Local
    BY DEF Local, NoLocal, Kinds
  <2>3. health' \in [Runs -> Health]
    <3>1. health' = [health EXCEPT ![r] = [health[r] EXCEPT !.reason = evaluate(health[r])]]
      BY <1>3, Planned
    <3>2. [health[r] EXCEPT !.reason = evaluate(health[r])] \in Health
      BY EvaluateKind DEF TypeOK, Health
    <3> QED
      BY <3>1, <3>2 DEF TypeOK
  <2>4. Moved(r, {label})
    BY <2>1, <2>2, <2>3, Jumped DEF Moved
  <2>5. ProcTypes'
    BY <2>4, MovedTypes, LabelsOfBoth
  <2> QED
    BY <1>3, <2>5, Planned, Reading
<1>4. CASE apply_close(r)
  <2>1. /\ NoFault \/ Fault(r)
        /\ UNCHANGED <<stored, starts>>
        /\ CloseOpen(local[r].book) \/ UNCHANGED rows
        /\ Goto(r, "reopen", local[r]) \/ Goto(r, "running", NoLocal)
    BY <1>4 DEF apply_close, Trying
  <2>2. ProcTypes'
    BY <2>1, <1>0, Labelled, LabelsOfBoth
  <2> QED
    BY <2>1, <2>2, Closed, RowsStay, Writing
<1>5. CASE apply_open(r)
  <2>1. ProcTypes'
    BY <1>5, Labelled, LabelsOfBoth DEF apply_open
  <2> QED
    BY <1>5, <1>0, <2>1, IgnoredOpen, Writing DEF apply_open
<1> QED
  BY <1>1, <1>2, <1>3, <1>4, <1>5 DEF Tick

LEMMA EndingTypes ==
  ASSUME TypeOK, NEW r \in Runs,
         process_stop(r) \/ bounded_close(r) \/ bounded_load(r) \/ bounded_save(r)
           \/ Crash(r)
  PROVE  TypeOK'
<1> USE LocalTypes
<1>0. local[r] \in Local /\ local[r].copy \in Payload
      /\ [stored EXCEPT !.status = "PAUSED_OPERATIONAL"] \in Payload
  BY DEF TypeOK, Local, Payload, Statuses
<1>1. CASE process_stop(r)
  <2>1. ProcTypes'
    BY <1>1, Labelled, QuitTypes, LabelsOfBoth DEF process_stop
  <2> QED
    BY <1>1, <2>1, IgnoredClose, Writing DEF process_stop
<1>2. CASE bounded_close(r)
  <2>1. ProcTypes'
    BY <1>2, Labelled, LabelsOfBoth DEF bounded_close
  <2> QED
    BY <1>2, <2>1, IgnoredClose, Writing DEF bounded_close
<1>3. CASE bounded_load(r)
  <2>1. /\ NoFault \/ Fault(r)
        /\ UNCHANGED <<stored, rows, starts>>
        /\ \/ Goto(r, "pause", Loaded([stored EXCEPT !.status = "PAUSED_OPERATIONAL"]))
           \/ Quit(r)
    BY <1>3 DEF bounded_load, Load
  <2>2. ProcTypes'
    BY <2>1, <1>0, Labelled, QuitTypes, LabelsOfBoth
  <2> QED
    BY <2>1, <2>2, Reading
<1>4. CASE bounded_save(r)
  <2>1. /\ NoFault \/ Fault(r)
        /\ UNCHANGED <<rows, starts>>
        /\ stored' = local[r].copy \/ UNCHANGED stored
        /\ Quit(r)
    BY <1>4 DEF bounded_save, Upsert, Trying
  <2>2. ProcTypes'
    BY <2>1, QuitTypes
  <2> QED
    BY <2>1, <2>2, <1>0, Saving
<1>5. CASE Crash(r)
  <2>1. ProcTypes'
    BY <1>5, QuitTypes DEF Crash
  <2> QED
    BY <1>5, <2>1, Reading DEF Crash
<1> QED
  BY <1>1, <1>2, <1>3, <1>4, <1>5

LEMMA CommandTypes ==
  ASSUME TypeOK, NEW c \in Commands, Command(c)
  PROVE  TypeOK'
<1> USE LocalTypes
<1>0. local[c] \in Local /\ local[c].copy \in Payload
      /\ [stored EXCEPT !.status = "INVALIDATED"] \in Payload
  BY DEF TypeOK, Local, Payload, Statuses
<1>1. CASE lock(c)
  <2>1. ProcTypes'
    BY <1>1, Labelled, LabelsOfBoth DEF lock
  <2> QED
    BY <1>1, <2>1, RowsStay, Together DEF lock, TypeOK, RowTypes
<1>2. CASE lock_load(c) \/ lock_save(c)
  BY <1>2, LockTypes
<1>3. CASE relock(c)
  <2>1. /\ NoFault \/ Fault(c)
        /\ UNCHANGED <<stored, rows, starts>>
        /\ \/ Goto(c, "lock_save", Loaded(Locked))
           \/ Goto(c, "lock", NoLocal)
           \/ Quit(c)
    BY <1>3 DEF relock, Load
  <2>2. ProcTypes'
    BY <2>1, Labelled, QuitTypes, LabelsOfBoth
  <2> QED
    BY <2>1, <2>2, Reading
<1>4. CASE invalidate_load(c)
  <2>1. /\ NoFault \/ Fault(c)
        /\ UNCHANGED <<stored, rows, starts>>
        /\ \/ Goto(c, "void", Loaded([stored EXCEPT !.status = "INVALIDATED"]))
           \/ Quit(c)
    BY <1>4 DEF invalidate_load, Load
  <2>2. ProcTypes'
    BY <2>1, <1>0, Labelled, QuitTypes, LabelsOfBoth
  <2> QED
    BY <2>1, <2>2, Reading
<1>5. CASE invalidate_close(c)
  <2>1. ProcTypes'
    BY <1>5, <1>0, Labelled, LabelsOfBoth DEF invalidate_close
  <2> QED
    BY <1>5, <2>1, IgnoredClose, Writing DEF invalidate_close
<1>6. CASE invalidate_save(c)
  <2>1. /\ NoFault \/ Fault(c)
        /\ UNCHANGED <<rows, starts>>
        /\ stored' = local[c].copy \/ UNCHANGED stored
        /\ Quit(c)
    BY <1>6 DEF invalidate_save, Upsert, Trying
  <2>2. ProcTypes'
    BY <2>1, QuitTypes
  <2> QED
    BY <2>1, <2>2, <1>0, Saving
<1> QED
  BY <1>1, <1>2, <1>3, <1>4, <1>5, <1>6 DEF Command

LEMMA InitTypes == Init => TypeOK
<1> SUFFICES ASSUME Init PROVE TypeOK
  OBVIOUS
<1>1. pc = [p \in Runs \cup Commands |-> IF p \in Runs THEN "down" ELSE "ready"]
  BY DEF Init
<1>2. \A r \in Runs : pc[r] = "down"
  BY <1>1
<1>3. \A c \in Commands : pc[c] = "ready"
  BY <1>1
<1>4. DOMAIN pc = Runs \cup Commands
  BY <1>1
<1> QED
  BY <1>2, <1>3, <1>4, LocalTypes, LabelsOfBoth DEF Init, TypeOK

LEMMA StepTypes == TypeOK /\ [Next]_vars => TypeOK'
<1> SUFFICES ASSUME TypeOK, [Next]_vars PROVE TypeOK'
  OBVIOUS
<1>1. ASSUME NEW r \in Runs, RunStep(r) PROVE TypeOK'
  BY <1>1, LockTypes, StartingTypes, TickingTypes, EndingTypes DEF RunStep
<1>2. ASSUME NEW c \in Commands, Command(c) PROVE TypeOK'
  BY <1>2, CommandTypes
<1>3. CASE UNCHANGED vars
  BY <1>3 DEF vars, rows, TypeOK
<1> QED
  BY <1>1, <1>2, <1>3 DEF Next

(* Whatever commands, run processes and faults do, the experiment's row,   *)
(* its open intervals and every process's locals keep their shape, and a   *)
(* process is never at a label of the other kind (cmd_start_id_for and     *)
(* cmd_lock_id share the lock statements).                                 *)
THEOREM TypeCorrect == Spec => []TypeOK
BY InitTypes, StepTypes, PTL DEF Spec

-----------------------------------------------------------------------------
(* OverlapNeedsFault. *)

(* A run process that has opened an interval and not yet closed it.        *)
HoldLabels == {"save", "running", "apply", "close"}
Holding == {r \in Runs : pc[r] \in HoldLabels}

Bounded  == IsFiniteSet(Alive) /\ Len(open) <= Cardinality(Holding) + faults
OverlapInv == TypeOK /\ Bounded

OthersStay(p) == \A q \in (Runs \cup Commands) \ {p} : pc'[q] = pc[q]

LEMMA JumpMovesOne ==
  ASSUME TypeOK, NEW p \in Runs \cup Commands, NEW label, NEW l, Jump(p, label, l)
  PROVE  OthersStay(p) /\ pc'[p] = label
BY DEF TypeOK, Jump, OthersStay

LEMMA QuitMovesOne ==
  ASSUME TypeOK, NEW p \in Runs \cup Commands, Quit(p)
  PROVE  OthersStay(p)
BY Quitted DEF OthersStay

LEMMA GotoMovesOne ==
  ASSUME TypeOK, NEW p \in Runs \cup Commands, NEW label, NEW l, Goto(p, label, l)
  PROVE  OthersStay(p) /\ pc'[p] = label
BY JumpMovesOne DEF Goto

LEMMA FaultCounts ==
  ASSUME TypeOK, NEW p
  PROVE  /\ Fault(p) => faults' = faults + 1
         /\ NoFault => faults' = faults
BY DEF Fault, NoFault

(* The ways a step of p changes the number of open rows.                   *)
Emptied     == open' = <<>> /\ faults' >= faults
Kept(p)     == /\ Len(open') <= Len(open) /\ faults' >= faults
               /\ pc[p] \in HoldLabels => pc'[p] \in HoldLabels
Entered(p)  == /\ Len(open') <= Len(open) + 1 /\ faults' >= faults
               /\ pc[p] \notin HoldLabels /\ pc'[p] \in HoldLabels
Faulted     == Len(open') <= Len(open) /\ faults' = faults + 1
Accounted(p) == OthersStay(p) /\ (Emptied \/ Kept(p) \/ Entered(p) \/ Faulted)

LEMMA LockAccounted ==
  ASSUME TypeOK, NEW p \in Runs \cup Commands, lock_load(p) \/ lock_save(p)
  PROVE  Accounted(p)
<1>1. open' = open /\ pc[p] \notin HoldLabels /\ (NoFault \/ Fault(p))
  BY DEF lock_load, lock_save, Load, Upsert, Trying, rows, HoldLabels
<1>2. OthersStay(p)
  BY GotoMovesOne, QuitMovesOne DEF lock_load, lock_save, Load, Upsert, Trying, AfterLock
<1>3. faults' >= faults
  BY <1>1, FaultCounts DEF TypeOK
<1>4. Len(open') <= Len(open)
  BY <1>1 DEF TypeOK
<1> QED
  BY <1>1, <1>2, <1>3, <1>4 DEF Accounted, Kept

(* The shapes the actions have.                                            *)
LEMMA RowsKept ==
  ASSUME TypeOK, UNCHANGED rows
  PROVE  open' = open /\ Len(open') <= Len(open)
BY DEF TypeOK, rows

LEMMA CloseCounts ==
  ASSUME TypeOK, NEW p, NEW kind, Ignoring(p, CloseOpen(kind))
  PROVE  Emptied \/ Faulted
<1>1. CASE NoFault /\ open' = <<>>
  BY <1>1, FaultCounts DEF Emptied, TypeOK
<1>2. CASE Fault(p) /\ (open' = <<>> \/ open' = open)
  BY <1>2, FaultCounts DEF Emptied, Faulted, TypeOK
<1> QED
  BY <1>1, <1>2, IgnoredClose, Closed DEF Ignoring

LEMMA OpenCounts ==
  ASSUME TypeOK, NEW p, NEW kind \in Kinds, Ignoring(p, OpenInterval(kind)),
         pc[p] \notin HoldLabels, pc'[p] \in HoldLabels
  PROVE  Entered(p)
<1>1. faults' >= faults
  BY FaultCounts DEF Ignoring, TypeOK
<1>2. Len(open') <= Len(open) + 1
  BY IgnoredOpen DEF TypeOK
<1> QED
  BY <1>1, <1>2 DEF Entered

(* A step that leaves the intervals alone, of a process that holds none.   *)
LEMMA Elsewhere ==
  ASSUME TypeOK, NEW p \in Runs \cup Commands, UNCHANGED rows, NoFault \/ Fault(p),
         OthersStay(p), pc[p] \notin HoldLabels
  PROVE  Accounted(p)
<1>1. faults' >= faults
  BY FaultCounts DEF TypeOK
<1> QED
  BY <1>1, RowsKept DEF Accounted, Kept

LEMMA FaultedStep ==
  ASSUME TypeOK, NEW p, UNCHANGED rows, Fault(p)
  PROVE  Faulted
BY RowsKept, FaultCounts DEF Faulted

LEMMA StartAccounted ==
  ASSUME TypeOK, NEW r \in Runs,
         Start(r) \/ start_load(r) \/ start_audit(r) \/ start_close(r) \/ start_open(r)
           \/ start_save(r)
  PROVE  Accounted(r)
<1>1. CASE Start(r)
  <2>1. OthersStay(r) /\ pc[r] \notin HoldLabels
    BY <1>1, GotoMovesOne DEF Start, HoldLabels
  <2>2. Len(open') <= Len(open) /\ faults' >= faults
    BY <1>1, RowsKept DEF Start, TypeOK
  <2> QED
    BY <2>1, <2>2 DEF Accounted, Kept
<1>2. CASE start_load(r)
  BY <1>2, GotoMovesOne, QuitMovesOne, Elsewhere DEF start_load, Load, HoldLabels
<1>3. CASE start_audit(r)
  <2>1. UNCHANGED rows /\ (NoFault \/ Fault(r)) /\ pc[r] \notin HoldLabels
    BY <1>3 DEF start_audit, HoldLabels
  <2>2. OthersStay(r)
    BY <1>3, GotoMovesOne, QuitMovesOne DEF start_audit
  <2> QED
    BY <2>1, <2>2, Elsewhere
<1>4. CASE start_close(r)
  BY <1>4, GotoMovesOne, CloseCounts DEF start_close, Accounted
<1>5. CASE start_open(r)
  <2>1. OthersStay(r) /\ pc'[r] = "save" /\ pc[r] = "open"
    BY <1>5, GotoMovesOne DEF start_open
  <2>2. Entered(r)
    BY <1>5, <2>1, OpenCounts DEF start_open, HoldLabels, Kinds
  <2> QED
    BY <2>1, <2>2 DEF Accounted
<1>6. CASE start_save(r)
  <2>1. UNCHANGED rows
    BY <1>6 DEF start_save, Upsert
  <2>2. OthersStay(r)
    BY <1>6, GotoMovesOne, QuitMovesOne DEF start_save, Upsert, Trying
  <2>3. CASE NoFault /\ Goto(r, "running", NoLocal)
    <3>1. pc'[r] \in HoldLabels /\ faults' >= faults
      BY <2>3, GotoMovesOne, FaultCounts DEF HoldLabels, TypeOK
    <3> QED
      BY <3>1, <2>1, <2>2, RowsKept DEF Accounted, Kept
  <2>4. CASE Fault(r)
    BY <2>4, <2>1, <2>2, FaultedStep DEF Accounted
  <2> QED
    BY <1>6, <2>3, <2>4 DEF start_save, Upsert, Trying
<1> QED
  BY <1>1, <1>2, <1>3, <1>4, <1>5, <1>6

LEMMA TickAccounted ==
  ASSUME TypeOK, NEW r \in Runs, signal(r) \/ Tick(r)
  PROVE  Accounted(r)
<1>1. CASE signal(r)
  <2>1. UNCHANGED <<rows, pc, faults>>
    BY <1>1 DEF signal
  <2> QED
    BY <2>1, RowsKept DEF Accounted, Kept, OthersStay, TypeOK
<1>2. CASE tick_health(r)
  <2>1. UNCHANGED <<rows, faults>>
    BY <1>2 DEF tick_health
  <2>2. OthersStay(r) /\ pc'[r] = "apply"
    BY <1>2, JumpMovesOne DEF tick_health
  <2> QED
    BY <2>1, <2>2, RowsKept DEF Accounted, Kept, HoldLabels, TypeOK
<1>3. CASE apply_health(r)
  <2>1. UNCHANGED rows /\ (NoFault \/ Fault(r))
    BY <1>3, Planned
  <2>2. OthersStay(r)
    BY <1>3, Planned, JumpMovesOne
  <2>3. faults' >= faults
    BY <2>1, FaultCounts DEF TypeOK
  <2>4. \/ open = <<>>
        \/ pc'[r] \in HoldLabels
    <3>1. \/ open = <<>>
          \/ \E l : Jump(r, "close", l) \/ Jump(r, "running", l)
      BY <1>3 DEF apply_health
    <3> QED
      BY <3>1, JumpMovesOne DEF HoldLabels
  <2> QED
    BY <2>1, <2>2, <2>3, <2>4, RowsKept DEF Accounted, Kept, Emptied
<1>4. CASE apply_close(r)
  <2>1. \/ NoFault /\ CloseOpen(local[r].book) /\ Goto(r, "reopen", local[r])
        \/ /\ Fault(r) /\ (CloseOpen(local[r].book) \/ UNCHANGED rows)
           /\ Goto(r, "running", NoLocal)
    BY <1>4 DEF apply_close, Trying
  <2>2. OthersStay(r)
    BY <2>1, GotoMovesOne
  <2>3. faults' >= faults
    BY <2>1, FaultCounts DEF TypeOK
  <2>4. CASE CloseOpen(local[r].book)
    BY <2>2, <2>3, <2>4, Closed DEF Accounted, Emptied
  <2>5. CASE Fault(r) /\ UNCHANGED rows
    BY <2>5, <2>2, FaultedStep DEF Accounted
  <2> QED
    BY <2>1, <2>4, <2>5
<1>5. CASE apply_open(r)
  <2>1. OthersStay(r) /\ pc'[r] = "running" /\ pc[r] = "reopen"
    BY <1>5, GotoMovesOne DEF apply_open
  <2>2. local[r].next \in Kinds
    BY DEF TypeOK, Local
  <2>3. Entered(r)
    BY <1>5, <2>1, <2>2, OpenCounts DEF apply_open, HoldLabels
  <2> QED
    BY <2>1, <2>3 DEF Accounted
<1> QED
  BY <1>1, <1>2, <1>3, <1>4, <1>5 DEF Tick

LEMMA EndAccounted ==
  ASSUME TypeOK, NEW r \in Runs,
         process_stop(r) \/ bounded_close(r) \/ bounded_load(r) \/ bounded_save(r)
           \/ Crash(r)
  PROVE  Accounted(r)
<1>1. CASE process_stop(r)
  BY <1>1, GotoMovesOne, QuitMovesOne, CloseCounts DEF process_stop, Accounted
<1>2. CASE bounded_close(r)
  BY <1>2, GotoMovesOne, CloseCounts DEF bounded_close, Accounted
<1>3. CASE bounded_load(r)
  BY <1>3, GotoMovesOne, QuitMovesOne, Elsewhere DEF bounded_load, Load, HoldLabels
<1>4. CASE bounded_save(r)
  <2>1. UNCHANGED rows /\ pc[r] = "pause" /\ (NoFault \/ Fault(r)) /\ Quit(r)
    BY <1>4 DEF bounded_save, Upsert, Trying
  <2> QED
    BY <2>1, QuitMovesOne, Elsewhere DEF HoldLabels
<1>5. CASE Crash(r)
  BY <1>5, QuitMovesOne, FaultedStep DEF Crash, Accounted
<1> QED
  BY <1>1, <1>2, <1>3, <1>4, <1>5

LEMMA CommandAccounted ==
  ASSUME TypeOK, NEW c \in Commands, Command(c)
  PROVE  Accounted(c)
<1>1. CASE lock(c)
  <2>1. UNCHANGED <<rows, faults>> /\ OthersStay(c) /\ pc[c] = "ready"
    BY <1>1, GotoMovesOne DEF lock
  <2> QED
    BY <2>1, RowsKept DEF Accounted, Kept, HoldLabels, TypeOK
<1>2. CASE lock_load(c) \/ lock_save(c)
  BY <1>2, LockAccounted
<1>3. CASE relock(c)
  <2>1. UNCHANGED rows /\ (NoFault \/ Fault(c)) /\ pc[c] = "ready"
    BY <1>3 DEF relock, Load
  <2>2. OthersStay(c)
    BY <1>3, GotoMovesOne, QuitMovesOne DEF relock, Load
  <2> QED
    BY <2>1, <2>2, Elsewhere DEF HoldLabels
<1>4. CASE invalidate_load(c)
  BY <1>4, GotoMovesOne, QuitMovesOne, Elsewhere DEF invalidate_load, Load, HoldLabels
<1>5. CASE invalidate_close(c)
  BY <1>5, GotoMovesOne, CloseCounts DEF invalidate_close, Accounted
<1>6. CASE invalidate_save(c)
  <2>1. UNCHANGED rows /\ pc[c] = "invalidate" /\ (NoFault \/ Fault(c)) /\ Quit(c)
    BY <1>6 DEF invalidate_save, Upsert, Trying
  <2> QED
    BY <2>1, QuitMovesOne, Elsewhere DEF HoldLabels
<1> QED
  BY <1>1, <1>2, <1>3, <1>4, <1>5, <1>6 DEF Command

(* A step of one process adds or removes at most that process.             *)
LEMMA SetsMove ==
  ASSUME TypeOK, TypeOK', NEW p \in Runs \cup Commands, OthersStay(p)
  PROVE  /\ Alive' \subseteq Alive \cup {p}
         /\ Holding \subseteq Holding' \cup {p} /\ Holding' \subseteq Holding \cup {p}
         /\ p \in Runs => /\ p \in Holding <=> pc[p] \in HoldLabels
                          /\ p \in Holding' <=> pc'[p] \in HoldLabels
         /\ p \in Commands => Holding' = Holding
BY DEF TypeOK, OthersStay, Alive, Holding

LEMMA HoldingIsAlive == Holding \subseteq Alive
BY DEF Holding, Alive, HoldLabels

LEMMA StepBounded ==
  ASSUME OverlapInv, TypeOK', NEW p \in Runs \cup Commands, Accounted(p)
  PROVE  Bounded'
<1>1. IsFiniteSet(Alive) /\ Len(open) <= Cardinality(Holding) + faults
  BY DEF OverlapInv, Bounded
<1>2. TypeOK /\ OthersStay(p)
  BY DEF OverlapInv, Accounted
<1>3. IsFiniteSet(Alive')
  <2>1. IsFiniteSet(Alive \cup {p})
    BY <1>1, FS_AddElement
  <2> QED
    BY <2>1, <1>2, SetsMove, FS_Subset
<1>4. IsFiniteSet(Holding) /\ Holding' \subseteq Alive'
  BY <1>1, HoldingIsAlive, FS_Subset DEF Holding, Alive, HoldLabels
<1>5. IsFiniteSet(Holding')
  BY <1>3, <1>4, FS_Subset
<1>6. Cardinality(Holding) \in Nat /\ Cardinality(Holding') \in Nat
  BY <1>4, <1>5, FS_CardinalityType
<1>7. Cardinality(Holding) <= Cardinality(Holding') + 1
  <2>1. IsFiniteSet(Holding' \cup {p}) /\ Cardinality(Holding' \cup {p}) <= Cardinality(Holding') + 1
    BY <1>5, <1>6, FS_AddElement
  <2>2. Cardinality(Holding) <= Cardinality(Holding' \cup {p})
    BY <2>1, <1>2, SetsMove, FS_Subset
  <2>3. Cardinality(Holding' \cup {p}) \in Nat
    BY <2>1, FS_CardinalityType
  <2> QED
    BY <2>1, <2>2, <2>3, <1>6
<1>8. Len(open) \in Nat /\ Len(open') \in Nat /\ faults \in Nat /\ faults' \in Nat
  BY <1>2 DEF TypeOK
<1>9. Len(open') <= Cardinality(Holding') + faults'
  <2>1. CASE Emptied
    BY <2>1, <1>6, <1>8 DEF Emptied
  <2>2. CASE Kept(p)
    <3>1. Holding \subseteq Holding'
      BY <1>2, <2>2, SetsMove DEF Kept, Holding
    <3>2. Cardinality(Holding) <= Cardinality(Holding')
      BY <3>1, <1>5, FS_Subset
    <3> QED
      BY <2>2, <3>2, <1>1, <1>6, <1>8 DEF Kept
  <2>3. CASE Entered(p)
    <3>1. CASE p \in Runs
      <4>1. p \notin Holding /\ Holding' = Holding \cup {p}
        BY <3>1, <1>2, <2>3, SetsMove DEF Entered
      <4>2. Cardinality(Holding') = Cardinality(Holding) + 1
        BY <4>1, <1>4, FS_AddElement
      <4> QED
        BY <2>3, <4>2, <1>1, <1>6, <1>8 DEF Entered
    <3>2. CASE p \in Commands
      BY <3>2, <2>3, <1>2 DEF Entered, TypeOK, HoldLabels, CommandLabels
    <3> QED
      BY <3>1, <3>2
  <2>4. CASE Faulted
    BY <2>4, <1>1, <1>6, <1>7, <1>8 DEF Faulted
  <2> QED
    BY <2>1, <2>2, <2>3, <2>4 DEF Accounted
<1> QED
  BY <1>3, <1>9 DEF Bounded

LEMMA InitBounded == Init => OverlapInv
<1> SUFFICES ASSUME Init PROVE OverlapInv
  OBVIOUS
<1>1. TypeOK
  BY InitTypes
<1>2. \A r \in Runs : pc[r] = "down"
  BY DEF Init
<1>3. Alive = {} /\ Holding = {}
  BY <1>2 DEF Alive, Holding, HoldLabels
<1>4. Len(open) = 0 /\ faults = 0
  BY DEF Init
<1> QED
  BY <1>1, <1>3, <1>4, FS_EmptySet DEF OverlapInv, Bounded

LEMMA NextAccounted ==
  ASSUME TypeOK, Next
  PROVE  \E p \in Runs \cup Commands : Accounted(p)
<1>1. ASSUME NEW r \in Runs, RunStep(r) PROVE Accounted(r)
  BY <1>1, LockAccounted, StartAccounted, TickAccounted, EndAccounted DEF RunStep
<1>2. ASSUME NEW c \in Commands, Command(c) PROVE Accounted(c)
  BY <1>2, CommandAccounted
<1> QED
  BY <1>1, <1>2 DEF Next

LEMMA OverlapStep == OverlapInv /\ [Next]_vars => OverlapInv'
<1> SUFFICES ASSUME OverlapInv, [Next]_vars PROVE OverlapInv'
  OBVIOUS
<1>1. TypeOK'
  BY StepTypes DEF OverlapInv
<1>2. CASE Next
  <2>1. PICK p \in Runs \cup Commands : Accounted(p)
    BY <1>2, NextAccounted DEF OverlapInv
  <2> QED
    BY <1>1, <2>1, StepBounded DEF OverlapInv
<1>3. CASE UNCHANGED vars
  <2>1. UNCHANGED <<open, pc, faults>>
    BY <1>3 DEF vars, rows
  <2> QED
    BY <1>1, <2>1 DEF OverlapInv, Bounded, Alive, Holding
<1> QED
  BY <1>2, <1>3

LEMMA OverlapFollows == OverlapInv => OverlapNeedsFault
<1> SUFFICES ASSUME OverlapInv PROVE OverlapNeedsFault
  OBVIOUS
<1>1. IsFiniteSet(Alive) /\ Len(open) <= Cardinality(Holding) + faults
  BY DEF OverlapInv, Bounded
<1>2. Cardinality(Holding) <= Cardinality(Alive) /\ IsFiniteSet(Holding)
  BY <1>1, HoldingIsAlive, FS_Subset
<1>3. Cardinality(Holding) \in Nat /\ Cardinality(Alive) \in Nat
  BY <1>1, <1>2, FS_CardinalityType
<1>4. Len(open) \in Nat /\ faults \in Nat
  BY DEF OverlapInv, TypeOK
<1> QED
  BY <1>1, <1>2, <1>3, <1>4 DEF OverlapNeedsFault

(* There is never more than one open interval per live run process plus    *)
(* one per storage error or crash: every path of cmd_start_id_for and      *)
(* apply_observation_health that opens a row has closed the open ones      *)
(* first, or belongs to a process that had none.                           *)
THEOREM OverlapIsBounded == Spec => []OverlapNeedsFault
<1>1. Spec => []OverlapInv
  BY InitBounded, OverlapStep, PTL DEF Spec
<1> QED
  BY <1>1, OverlapFollows, PTL

-----------------------------------------------------------------------------
(* BlindIsNotValid. *)

NoneValid == \A i \in DOMAIN open : open[i] # "VALID"
NewestIsValid == NoneValid \/ (open # <<>> /\ open[Len(open)] = "VALID")
Blinded(r) == health[r].reason \in {"PARTIAL", "INVALID"}

(* What the health tick relies on when it looks at the newest row only.    *)
Unticked(r) == pc[r] \in {"down"} \cup Starting => health[r].reason = "NONE"
Booking(r) ==
  /\ pc[r] \in {"save"} \cup Ticking => NewestIsValid
  /\ pc[r] = "running" /\ Blinded(r) => NoneValid
  /\ pc[r] \in {"close", "reopen"} /\ Blinded(r) => local[r].next # "VALID"
  /\ pc[r] = "reopen" => open = <<>>
BlindInv == TypeOK /\ \A r \in Runs : Unticked(r) /\ (clean[r] => Booking(r))

LEMMA CleanStays ==
  ASSUME TypeOK, NEW p, NEW r \in Runs, NoFault \/ Fault(p), clean'[r]
  PROVE  clean[r] /\ (r = p => NoFault /\ ~Fault(p))
<1>1. CASE NoFault
  BY <1>1 DEF NoFault, Fault, TypeOK
<1>2. CASE Fault(p)
  <2>1. clean' = [q \in Runs |-> clean[q] /\ q # p]
    BY <1>2 DEF Fault
  <2>2. clean'[r] = (clean[r] /\ r # p)
    BY <2>1
  <2> QED
    BY <2>2
<1> QED
  BY <1>1, <1>2

LEMMA NothingOpen ==
  ASSUME open' = <<>>
  PROVE  NoneValid' /\ NewestIsValid'
BY DEF NoneValid, NewestIsValid

LEMMA OpenStays ==
  ASSUME open' = open
  PROVE  (NoneValid' <=> NoneValid) /\ (NewestIsValid' <=> NewestIsValid)
BY DEF NoneValid, NewestIsValid

(* A step of another process that at most closes what is open.             *)
LEMMA BlindOther ==
  ASSUME BlindInv, NEW r \in Runs, pc'[r] = pc[r], local'[r] = local[r],
         health'[r] = health[r], clean'[r] => clean[r], open' = open \/ open' = <<>>
  PROVE  Unticked(r)' /\ (clean'[r] => Booking(r)')
<1>1. Unticked(r)'
  BY DEF BlindInv, Unticked
<1>2. ASSUME clean'[r] PROVE Booking(r)'
  <2>1. Booking(r)
    BY <1>2 DEF BlindInv
  <2>2. Blinded(r)' <=> Blinded(r)
    BY DEF Blinded
  <2>3. CASE open' = open
    BY <2>1, <2>2, <2>3, OpenStays DEF Booking
  <2>4. CASE open' = <<>>
    BY <2>1, <2>2, <2>4, NothingOpen DEF Booking
  <2> QED
    BY <2>3, <2>4
<1> QED
  BY <1>1, <1>2

LEMMA CommandFrame ==
  ASSUME TypeOK, NEW c \in Commands, Command(c), NEW r \in Runs
  PROVE  /\ pc'[r] = pc[r] /\ local'[r] = local[r] /\ health'[r] = health[r]
         /\ clean'[r] => clean[r]
         /\ open' = open \/ open' = <<>>
<1> USE LocalTypes
<1>0. r # c /\ c \notin Runs /\ NoLocal \in Local
  OBVIOUS
<1>1. ASSUME NEW label, NEW l \in Local, Goto(c, label, l)
      PROVE  pc'[r] = pc[r] /\ local'[r] = local[r] /\ health'[r] = health[r]
  BY <1>0, <1>1, GotoMoves DEF Moved
<1>2. ASSUME Quit(c)
      PROVE  pc'[r] = pc[r] /\ local'[r] = local[r] /\ health'[r] = health[r]
  BY <1>0, <1>2, Quitted
<1>3. UNCHANGED clean \/ NoFault \/ Fault(c)
  BY DEF Command, lock, lock_load, lock_save, relock, invalidate_load, invalidate_close,
         invalidate_save, Load, Upsert, Trying, Ignoring
<1>4. clean'[r] => clean[r]
  BY <1>3, CleanStays
<1>5. open' = open \/ open' = <<>>
  BY IgnoredClose DEF Command, lock, lock_load, lock_save, relock, invalidate_load,
         invalidate_close, invalidate_save, Load, Upsert, rows
<1>6. local[c] \in Local /\ Loaded(Locked) \in Local
      /\ Loaded([stored EXCEPT !.status = "INVALIDATED"]) \in Local
  BY DEF TypeOK, Payload, Statuses
<1>7. \/ \E label \in CommandLabels, l \in Local : Goto(c, label, l)
      \/ Quit(c)
  BY <1>0, <1>6, LabelsOfBoth
     DEF Command, lock, lock_load, lock_save, relock, invalidate_load, invalidate_close,
         invalidate_save, Load, Upsert, Trying, AfterLock
<1> QED
  BY <1>1, <1>2, <1>4, <1>5, <1>7

LEMMA BlindQuit ==
  ASSUME TypeOK, NEW r \in Runs, Quit(r)
  PROVE  Unticked(r)' /\ Booking(r)'
BY Quitted DEF Unticked, Booking, NewHealth, Ticking

(* A step to a label that is before the interval, or after the ticks.      *)
LEMMA BlindGoto ==
  ASSUME BlindInv, NEW r \in Runs, NEW label, NEW l \in Local, Goto(r, label, l),
         label \in Starting => pc[r] \in {"down"} \cup Starting,
         label \in (Starting \cup Ending) \ {"save"}
  PROVE  Unticked(r)' /\ Booking(r)'
<1>1. pc'[r] = label /\ health' = health
  BY GotoMoves DEF BlindInv
<1>2. label \notin {"down", "save"} \cup Ticking
  BY DEF Starting, Ticking, Ending
<1> QED
  BY <1>1, <1>2 DEF BlindInv, Unticked, Booking, Ticking

LEMMA BlindStarting ==
  ASSUME BlindInv, NEW r \in Runs,
         Start(r) \/ start_load(r) \/ lock_load(r) \/ lock_save(r) \/ start_audit(r)
           \/ start_close(r)
  PROVE  Unticked(r)' /\ Booking(r)'
<1> USE LocalTypes
<1>1. TypeOK /\ local[r] \in Local /\ stored \in Payload
  BY DEF BlindInv, TypeOK
<1>2. pc[r] \in {"down"} \cup Starting
  BY DEF Start, start_load, lock_load, lock_save, start_audit, start_close, Starting
<1>3. \/ \E label \in Starting \ {"save"}, l \in Local : Goto(r, label, l)
      \/ Quit(r)
  BY <1>1 DEF Start, start_load, lock_load, lock_save, start_audit, start_close, Starting,
              Load, Upsert, Trying, AfterLock
<1> QED
  BY <1>1, <1>2, <1>3, BlindGoto, BlindQuit


LEMMA BlindOpening ==
  ASSUME BlindInv, NEW r \in Runs, start_open(r) \/ start_save(r)
  PROVE  Unticked(r)' /\ (clean'[r] => Booking(r)')
<1> USE LocalTypes
<1>0. TypeOK /\ Unticked(r) /\ (clean[r] => Booking(r))
  BY DEF BlindInv
<1>1. CASE start_open(r)
  <2>1. Loaded([status |-> "RUNNING", started |-> TRUE]) \in Local
    BY DEF Payload, Statuses
  <2>2. pc[r] = "open" /\ pc'[r] = "save" /\ health' = health
    BY <1>0, <1>1, <2>1, GotoMoves DEF start_open
  <2>3. Unticked(r)'
    BY <1>0, <2>2 DEF Unticked, Starting
  <2>4. ASSUME clean'[r] PROVE NewestIsValid'
    <3>1. OpenInterval("VALID")
      BY <1>0, <1>1, <2>4, CleanStays DEF start_open, Ignoring
    <3>2. Len(open') = Len(open) + 1 /\ open'[Len(open')] = "VALID"
      BY <1>0, <3>1, Opened DEF Kinds
    <3>3. open' # <<>>
      BY <1>0, <3>2 DEF TypeOK
    <3> QED
      BY <3>2, <3>3 DEF NewestIsValid
  <2>5. clean'[r] => Booking(r)'
    BY <2>2, <2>4 DEF Booking
  <2> QED
    BY <2>3, <2>5
<1>2. CASE start_save(r)
  <2>1. pc[r] = "save" /\ open' = open
    BY <1>2 DEF start_save, Upsert, rows
  <2>2. \/ NoFault /\ Goto(r, "running", NoLocal)
        \/ Fault(r) /\ Quit(r)
    BY <1>2 DEF start_save, Upsert, Trying
  <2>3. CASE NoFault /\ Goto(r, "running", NoLocal)
    <3>1. pc'[r] = "running" /\ health' = health /\ clean' = clean
      BY <1>0, <2>3, GotoMoves DEF NoFault
    <3>2. health'[r].reason = "NONE"
      BY <1>0, <2>1, <3>1 DEF Unticked, Starting
    <3>3. clean'[r] => NewestIsValid'
      BY <1>0, <2>1, <3>1, OpenStays DEF Booking
    <3> QED
      BY <3>1, <3>2, <3>3 DEF Unticked, Booking, Blinded, Starting
  <2>4. CASE Fault(r) /\ Quit(r)
    BY <1>0, <2>4, BlindQuit
  <2> QED
    BY <2>2, <2>3, <2>4
<1> QED
  BY <1>1, <1>2

LEMMA SignalKeepsReason ==
  ASSUME NEW h \in Health, NEW g \in Signals(h)
  PROVE  g.reason = h.reason
BY DEF Signals, Health

LEMMA BlindTicking ==
  ASSUME BlindInv, NEW r \in Runs, signal(r) \/ tick_health(r)
  PROVE  Unticked(r)' /\ (clean'[r] => Booking(r)')
<1>0. TypeOK /\ (clean[r] => Booking(r)) /\ health[r] \in Health
  BY DEF BlindInv, TypeOK
<1>1. CASE signal(r)
  <2>1. PICK h \in Signals(health[r]) : health' = [health EXCEPT ![r] = h]
    BY <1>1 DEF signal
  <2>2. UNCHANGED <<pc, local, open, clean>> /\ pc[r] \in Ticking
    BY <1>1 DEF signal, rows
  <2>3. health'[r].reason = health[r].reason
    BY <1>0, <2>1, SignalKeepsReason DEF TypeOK
  <2>4. Blinded(r)' <=> Blinded(r)
    BY <2>3 DEF Blinded
  <2> QED
    BY <1>0, <2>2, <2>4, OpenStays DEF Unticked, Booking, Ticking, Starting
<1>2. CASE tick_health(r)
  <2>1. UNCHANGED <<open, clean>> /\ pc[r] = "running"
    BY <1>2 DEF tick_health, rows
  <2>2. pc'[r] = "apply"
    BY <1>0, <1>2, JumpMovesOne DEF tick_health
  <2> QED
    BY <1>0, <2>1, <2>2, OpenStays DEF Unticked, Booking, Ticking, Starting
<1> QED
  BY <1>1, <1>2

(* The tick decides from the newest row: this is where it matters that a   *)
(* VALID row below it would make the newest one VALID too.                 *)
LEMMA BlindApply ==
  ASSUME BlindInv, NEW r \in Runs, apply_health(r)
  PROVE  Unticked(r)' /\ (clean'[r] => Booking(r)')
<1> DEFINE want == evaluate(health[r])
           cur  == open[Len(open)]
<1>0. TypeOK /\ (clean[r] => Booking(r)) /\ pc[r] = "apply" /\ open' = open
  BY DEF BlindInv, apply_health, rows
<1>1. health'[r].reason = want /\ (NoFault \/ Fault(r))
  <2>1. health' = [health EXCEPT ![r] = [health[r] EXCEPT !.reason = want]]
        /\ (NoFault \/ Fault(r))
    BY <1>0, Planned
  <2>2. health[r] \in Health /\ health \in [Runs -> Health]
    BY <1>0 DEF TypeOK
  <2>3. [health[r] EXCEPT !.reason = want].reason = want
    BY <2>2 DEF Health
  <2> QED
    BY <2>1, <2>2, <2>3
<1>2. Unticked(r)'
  <2>1. pc'[r] \in Ticking
    BY <1>0, Planned, JumpMovesOne DEF Ticking
  <2> QED
    BY <2>1 DEF Unticked, Ticking, Starting
<1>3. ASSUME clean'[r] PROVE Booking(r)'
  <2>1. NoFault /\ NewestIsValid
    BY <1>0, <1>1, <1>3, CleanStays DEF Booking, Ticking
  <2>2. ~Fault(r)
    BY <1>0, <1>3, CleanStays DEF Fault, NoFault, TypeOK
  <2> DEFINE Doing(label, book, next) ==
               Jump(r, label, [NoLocal EXCEPT !.book = book, !.next = next])
  <2>3. \/ open = <<>> /\ Doing("reopen", want, want)
        \/ open # <<>> /\ Downgrade(cur, want) /\ Doing("close", want, want)
        \/ open # <<>> /\ Recover(cur, want, local[r].gate) /\ Doing("close", cur, "VALID")
        \/ /\ open # <<>> /\ ~Downgrade(cur, want)
           /\ Jump(r, "running", NoLocal)
    BY <2>2 DEF apply_health
  <2>4. ASSUME NEW label, NEW book \in Kinds, NEW next \in Kinds, Doing(label, book, next)
        PROVE  pc'[r] = label /\ local'[r].next = next
    <3> DEFINE l == [NoLocal EXCEPT !.book = book, !.next = next]
    <3>1. l \in Local /\ l.next = next
      BY <2>4 DEF NoLocal, Local, Kinds, Payload, NoRow, Statuses
    <3>2. Jump(r, label, l)
      BY <2>4
    <3> HIDE DEF l
    <3>3. r \in Runs \cup Commands
      OBVIOUS
    <3> QED
      BY <1>0, <3>1, <3>2, <3>3, Jumped
  <2>5. want \in Kinds /\ "VALID" \in Kinds /\ (open # <<>> => cur \in Kinds)
    BY <1>0, EvaluateKind DEF Kinds, TypeOK
  <2>6. NewestIsValid'
    BY <1>0, <2>1, OpenStays
  <2>7. Blinded(r)' => want # "VALID"
    BY <1>1 DEF Blinded
  <2> HIDE DEF Doing, want, cur
  <2>8. CASE open = <<>> /\ Doing("reopen", want, want)
    BY <2>4, <2>5, <2>6, <2>7, <2>8, <1>0 DEF Booking
  <2>9. CASE Doing("close", want, want)
    BY <2>4, <2>5, <2>6, <2>7, <2>9 DEF Booking
  <2>10. CASE Recover(cur, want, local[r].gate) /\ Doing("close", cur, "VALID") /\ open # <<>>
    <3>1. want = "VALID" /\ ~Blinded(r)'
      BY <2>7, <2>10, Zenon DEF Recover
    <3>2. pc'[r] = "close"
      BY <2>4, <2>5, <2>10
    <3> QED
      BY <2>6, <3>1, <3>2 DEF Booking
  <2>11. CASE /\ open # <<>> /\ ~Downgrade(cur, want)
              /\ Jump(r, "running", NoLocal)
    <3>1. pc'[r] = "running"
      BY <1>0, <2>11, JumpMovesOne
    <3>2. want # "VALID" => cur # "VALID"
      BY <2>11 DEF Downgrade
    <3>3. want # "VALID" => NoneValid
      BY <2>1, <3>2 DEF NewestIsValid, cur
    <3>4. Blinded(r)' => NoneValid'
      BY <1>0, <2>7, <3>3, OpenStays
    <3> QED
      BY <2>6, <3>1, <3>4 DEF Booking
  <2> QED
    BY <2>3, <2>8, <2>9, <2>10, <2>11
<1> QED
  BY <1>2, <1>3

LEMMA BlindBooking ==
  ASSUME BlindInv, NEW r \in Runs, apply_close(r) \/ apply_open(r)
  PROVE  Unticked(r)' /\ (clean'[r] => Booking(r)')
<1> USE LocalTypes
<1>0. TypeOK /\ (clean[r] => Booking(r)) /\ local[r] \in Local /\ local[r].next \in Kinds
  BY DEF BlindInv, TypeOK, Local
<1>1. CASE apply_close(r)
  <2>1. \/ NoFault /\ CloseOpen(local[r].book) /\ Goto(r, "reopen", local[r])
        \/ Fault(r) /\ Goto(r, "running", NoLocal)
    BY <1>1 DEF apply_close, Trying
  <2>2. CASE NoFault /\ CloseOpen(local[r].book) /\ Goto(r, "reopen", local[r])
    <3>1. /\ pc'[r] = "reopen" /\ local'[r] = local[r] /\ health' = health
          /\ clean' = clean /\ open' = <<>> /\ pc[r] = "close"
      <4>1. pc'[r] = "reopen" /\ local'[r] = local[r] /\ health' = health
        BY <1>0, <2>2, GotoMoves
      <4>2. open' = <<>>
        BY <1>0, <2>2, Closed
      <4> QED
        BY <4>1, <4>2, <1>1, <2>2 DEF NoFault, apply_close
    <3>2. Blinded(r)' <=> Blinded(r)
      BY <3>1 DEF Blinded
    <3> QED
      BY <1>0, <3>1, <3>2, NothingOpen DEF Unticked, Booking, Starting
  <2>3. CASE Fault(r) /\ Goto(r, "running", NoLocal)
    <3>1. ~clean'[r]
      BY <1>0, <2>3, CleanStays DEF Fault, NoFault, TypeOK
    <3>2. pc'[r] = "running"
      BY <1>0, <2>3, GotoMoves
    <3> QED
      BY <3>1, <3>2 DEF Unticked, Starting
  <2> QED
    BY <2>1, <2>2, <2>3
<1>2. CASE apply_open(r)
  <2>1. pc'[r] = "running" /\ health' = health /\ pc[r] = "reopen"
    BY <1>0, <1>2, GotoMoves DEF apply_open
  <2>2. Unticked(r)'
    BY <2>1 DEF Unticked, Starting
  <2>3. ASSUME clean'[r] PROVE Booking(r)'
    <3>1. clean[r] /\ OpenInterval(local[r].next)
      BY <1>0, <1>2, <2>3, CleanStays DEF apply_open, Ignoring
    <3>2. open = <<>> /\ (Blinded(r) => local[r].next # "VALID")
      BY <1>0, <2>1, <3>1 DEF Booking
    <3>3. open' = Append(<<>>, local[r].next)
      BY <3>1, <3>2 DEF OpenInterval
    <3>4. open' = <<local[r].next>>
      BY <3>3, <1>0
    <3>5. NewestIsValid' /\ (local[r].next # "VALID" => NoneValid')
      BY <3>4, <1>0 DEF NewestIsValid, NoneValid
    <3>6. Blinded(r)' <=> Blinded(r)
      BY <2>1 DEF Blinded
    <3> QED
      BY <2>1, <3>2, <3>5, <3>6 DEF Booking
  <2> QED
    BY <2>2, <2>3
<1> QED
  BY <1>1, <1>2

LEMMA BlindEnding ==
  ASSUME BlindInv, NEW r \in Runs,
         process_stop(r) \/ bounded_close(r) \/ bounded_load(r) \/ bounded_save(r)
           \/ Crash(r)
  PROVE  Unticked(r)' /\ Booking(r)'
<1> USE LocalTypes
<1>1. TypeOK /\ [stored EXCEPT !.status = "PAUSED_OPERATIONAL"] \in Payload
  BY DEF BlindInv, TypeOK, Payload, Statuses
<1>2. \/ \E label \in Ending, l \in Local : Goto(r, label, l)
      \/ Quit(r)
  BY <1>1 DEF process_stop, bounded_close, bounded_load, bounded_save, Crash, Load, Upsert,
              Trying, Ending
<1>3. \A label \in Ending : label \notin Starting /\ label \in (Starting \cup Ending) \ {"save"}
  BY DEF Starting, Ending
<1> QED
  BY <1>1, <1>2, <1>3, BlindGoto, BlindQuit

LEMMA BlindStep ==
  ASSUME BlindInv, [Next]_vars, \A r, s \in Runs : r = s
  PROVE  BlindInv'
<1>0. TypeOK /\ TypeOK'
  BY StepTypes DEF BlindInv
<1>1. ASSUME NEW r \in Runs, RunStep(r), NEW s \in Runs
      PROVE  Unticked(s)' /\ (clean'[s] => Booking(s)')
  <2>1. Unticked(r)' /\ (clean'[r] => Booking(r)')
    BY <1>1, BlindStarting, BlindOpening, BlindTicking, BlindApply, BlindBooking, BlindEnding
       DEF RunStep, Tick
  <2> QED
    BY <2>1
<1>2. ASSUME NEW c \in Commands, Command(c), NEW s \in Runs
      PROVE  Unticked(s)' /\ (clean'[s] => Booking(s)')
  BY <1>0, <1>2, CommandFrame, BlindOther
<1>3. ASSUME UNCHANGED vars, NEW s \in Runs
      PROVE  Unticked(s)' /\ (clean'[s] => Booking(s)')
  <2>1. UNCHANGED <<open, pc, local, health, clean>>
    BY <1>3 DEF vars, rows
  <2> QED
    BY <2>1, BlindOther
<1> QED
  BY <1>0, <1>1, <1>2, <1>3 DEF Next, BlindInv

LEMMA BlindInit == Init => BlindInv
<1> SUFFICES ASSUME Init PROVE BlindInv
  OBVIOUS
<1>1. \A r \in Runs : pc[r] = "down" /\ health[r] = NewHealth
  BY DEF Init
<1> QED
  BY <1>1, InitTypes DEF BlindInv, Unticked, Booking, NewHealth, Ticking

LEMMA BlindFollows == BlindInv => BlindIsNotValid
BY DEF BlindInv, BlindIsNotValid, Booking, Blinded, NoneValid

(* A lone run process without faults never has a VALID interval open after *)
(* a tick that found its providers unhealthy, although                     *)
(* apply_observation_health looks at the newest open row only, whatever    *)
(* rows earlier processes left open, and commands close at any moment.     *)
THEOREM HeartbeatIsNotCoverage ==
  ASSUME \A r, s \in Runs : r = s
  PROVE  Spec => []BlindIsNotValid
<1>1. BlindInv /\ [Next]_vars => BlindInv'
  BY BlindStep
<1>2. Spec => []BlindInv
  BY <1>1, BlindInit, PTL DEF Spec
<1> QED
  BY <1>2, BlindFollows, PTL

-----------------------------------------------------------------------------
(* QuietInvalidationHolds. *)

(* From a quiet invalidated state every process sees INVALIDATED before it *)
(* can write anything else.                                                *)
CopyIsFinal(p) == local[p].copy.status = "INVALIDATED"
Final ==
  /\ TypeOK /\ Invalidated
  /\ \A r \in Runs : /\ pc[r] \in {"down", "load", "audit"}
                     /\ pc[r] = "audit" => CopyIsFinal(r)
  /\ \A c \in Commands : /\ pc[c] \in {"ready", "lock", "void", "invalidate", "done"}
                         /\ pc[c] \in {"void", "invalidate"} => CopyIsFinal(c)

LEMMA QuietIsFinal == TypeOK /\ Quiet /\ Invalidated => Final
BY DEF TypeOK, Quiet, Alive, Final

(* What the moving process has to show.                                    *)
LEMMA FinalMoves ==
  ASSUME Final, TypeOK', Invalidated', NEW p \in Runs \cup Commands,
         \A q \in (Runs \cup Commands) \ {p} : pc'[q] = pc[q] /\ local'[q] = local[q],
         p \in Runs => /\ pc'[p] \in {"down", "load", "audit"}
                       /\ pc'[p] = "audit" => CopyIsFinal(p)',
         p \in Commands => /\ pc'[p] \in {"ready", "lock", "void", "invalidate", "done"}
                           /\ pc'[p] \in {"void", "invalidate"} => CopyIsFinal(p)'
  PROVE  Final'
BY DEF Final, CopyIsFinal

LEMMA FinalQuit ==
  ASSUME Final, TypeOK', Invalidated', NEW p \in Runs \cup Commands, Quit(p)
  PROVE  Final'
<1>1. TypeOK
  BY DEF Final
<1> QED
  BY <1>1, Quitted, FinalMoves

LEMMA FinalGoto ==
  ASSUME Final, TypeOK', Invalidated', NEW p \in Runs \cup Commands,
         NEW label, NEW l \in Local, Goto(p, label, l),
         p \in Runs => /\ label \in {"load", "audit"}
                       /\ label = "audit" => l.copy.status = "INVALIDATED",
         p \in Commands => /\ label \in {"lock", "void", "invalidate"}
                           /\ label # "lock" => l.copy.status = "INVALIDATED"
  PROVE  Final'
<1>1. TypeOK
  BY DEF Final
<1>2. pc'[p] = label /\ local'[p] = l
      /\ \A q \in (Runs \cup Commands) \ {p} : pc'[q] = pc[q] /\ local'[q] = local[q]
  BY <1>1, GotoMoves DEF Moved
<1> QED
  BY <1>2, FinalMoves DEF CopyIsFinal

LEMMA FinalRun ==
  ASSUME Final, TypeOK', NEW r \in Runs, RunStep(r)
  PROVE  Final'
<1> USE LocalTypes
<1>0. /\ TypeOK /\ Invalidated /\ stored \in Payload /\ stored # NoRow
      /\ pc[r] \in {"down", "load", "audit"} /\ (pc[r] = "audit" => CopyIsFinal(r))
  BY DEF Final, TypeOK, Invalidated, NoRow
<1>1. Start(r) \/ start_load(r) \/ start_audit(r) \/ Crash(r)
  BY <1>0 DEF RunStep, Tick, lock_load, lock_save, start_close, start_open, start_save,
              signal, tick_health, apply_health, apply_close, apply_open,
              process_stop, bounded_close, bounded_load, bounded_save, Ticking
<1>2. UNCHANGED stored
  BY <1>1 DEF Start, start_load, start_audit, Crash, Load
<1>3. Invalidated'
  BY <1>0, <1>2 DEF Invalidated
<1>4. CASE Start(r)
  BY <1>3, <1>4, FinalGoto DEF Start
<1>5. CASE start_load(r)
  <2>1. Goto(r, "audit", Loaded(stored)) \/ Quit(r)
    BY <1>0, <1>5 DEF start_load, Load
  <2> QED
    BY <1>0, <1>3, <2>1, FinalGoto, FinalQuit DEF Invalidated
<1>6. CASE start_audit(r)
  <2>1. Quit(r)
    BY <1>0, <1>6 DEF start_audit, MayStart, CopyIsFinal
  <2> QED
    BY <1>3, <2>1, FinalQuit
<1>7. CASE Crash(r)
  BY <1>3, <1>7, FinalQuit DEF Crash
<1> QED
  BY <1>1, <1>4, <1>5, <1>6, <1>7

LEMMA FinalCommand ==
  ASSUME Final, TypeOK', NEW c \in Commands, Command(c)
  PROVE  Final'
<1> USE LocalTypes
<1>0. /\ TypeOK /\ Invalidated /\ stored \in Payload /\ stored # NoRow /\ c \notin Runs
      /\ pc[c] \in {"ready", "lock", "void", "invalidate", "done"}
      /\ pc[c] \in {"void", "invalidate"} => CopyIsFinal(c)
      /\ local[c] \in Local
  BY DEF Final, TypeOK, Invalidated, NoRow
<1>1. lock(c) \/ lock_load(c) \/ relock(c) \/ invalidate_load(c) \/ invalidate_close(c)
        \/ invalidate_save(c)
  BY <1>0 DEF Command, lock_save
<1>2. stored' = stored \/ (pc[c] = "invalidate" /\ stored' = local[c].copy)
  BY <1>1 DEF lock, lock_load, relock, invalidate_load, invalidate_close, invalidate_save,
              Load, Upsert, Trying
<1>3. Invalidated'
  BY <1>0, <1>2 DEF Invalidated, CopyIsFinal
<1>4. CASE lock(c)
  BY <1>0, <1>3, <1>4, FinalGoto DEF lock
<1>5. CASE lock_load(c)
  <2>1. Quit(c)
    BY <1>0, <1>5 DEF lock_load, Load, AfterLock
  <2> QED
    BY <1>3, <2>1, FinalQuit
<1>6. CASE relock(c)
  <2>1. Quit(c)
    BY <1>0, <1>6 DEF relock, Load, MayRelock, Invalidated
  <2> QED
    BY <1>3, <2>1, FinalQuit
<1>7. CASE invalidate_load(c)
  <2>1. Goto(c, "void", Loaded([stored EXCEPT !.status = "INVALIDATED"])) \/ Quit(c)
    BY <1>7 DEF invalidate_load, Load
  <2>2. [stored EXCEPT !.status = "INVALIDATED"] \in Payload
        /\ [stored EXCEPT !.status = "INVALIDATED"].status = "INVALIDATED"
    BY <1>0 DEF Payload, Statuses
  <2> QED
    BY <1>0, <1>3, <2>1, <2>2, FinalGoto, FinalQuit
<1>8. CASE invalidate_close(c)
  <2>1. Goto(c, "invalidate", local[c]) /\ pc[c] = "void"
    BY <1>8 DEF invalidate_close
  <2> QED
    BY <1>0, <1>3, <2>1, FinalGoto DEF CopyIsFinal
<1>9. CASE invalidate_save(c)
  <2>1. Quit(c)
    BY <1>9 DEF invalidate_save, Upsert, Trying
  <2> QED
    BY <1>3, <2>1, FinalQuit
<1> QED
  BY <1>1, <1>4, <1>5, <1>6, <1>7, <1>8, <1>9

LEMMA FinalStep == Final /\ [Next]_vars => Final'
<1> SUFFICES ASSUME Final, [Next]_vars PROVE Final'
  OBVIOUS
<1>1. TypeOK'
  BY StepTypes DEF Final
<1>2. CASE UNCHANGED vars
  BY <1>1, <1>2 DEF vars, Final, CopyIsFinal, Invalidated
<1> QED
  BY <1>1, <1>2, FinalRun, FinalCommand DEF Next

(* Once the experiment is INVALIDATED with no process in flight, no later  *)
(* start, lock, relock or invalidation brings it back: each loads the row  *)
(* and is refused before it can write (cmd_start_id_for, cmd_lock_id,      *)
(* cmd_relock_id).                                                         *)
THEOREM QuietInvalidationIsFinal == Spec => QuietInvalidationHolds
<1>1. Final => Invalidated
  BY DEF Final
<1> QED
  BY <1>1, TypeCorrect, QuietIsFinal, FinalStep, PTL DEF Spec, QuietInvalidationHolds

=============================================================================
