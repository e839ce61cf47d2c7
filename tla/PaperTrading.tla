---------------------------- MODULE PaperTrading ----------------------------
(***************************************************************************)
(* The live paper trader of one experiment (apps/engine/src/live.rs) and   *)
(* the Postgres rows it keeps (apps/engine/src/storage/postgres.rs): how   *)
(* an eligible (chain, token, arm) key is queued, claimed, bought, held,   *)
(* sold and, after a stop or a crash, restored.                            *)
(*                                                                         *)
(* Every database statement is a step of its own, because the process may  *)
(* crash between two of them and because a second process (the one being   *)
(* replaced, still in its 90 s shutdown) may run between them.  A write    *)
(* may succeed, fail, or commit and lose its reply; a read may fail.       *)
(*                                                                         *)
(* Abstracted: amounts are small numbers and every fill buys Lot tokens;   *)
(* prices, fees, PnL and policies become a choice of what to sell; due     *)
(* times, the circuit breaker and backoff clocks become a choice of when;  *)
(* rows nothing reads back (execution attempts, position events, curve     *)
(* states, failed SELL orders, attach_order_position) are left out.        *)
(***************************************************************************)
EXTENDS Integers

CONSTANTS
  Arms,             \* lifetime keys: (chain, token, strategy_policy_id)
  NoArm,            \* "no key": what an idle process works on
  Procs,            \* operating system processes that run the experiment
  Lot,              \* tokens bought by a filled BUY
  MaxReadAttempts,  \* curve read attempts of a queued entry (8 in the code)
  MaxFaults,        \* bound: storage errors, lost replies and crashes
  MaxStarts         \* bound: process starts

ASSUME LotAssumption == Lot \in Nat \ {0}
ASSUME BoundsAssumption == /\ MaxReadAttempts \in Nat \ {0}
                           /\ MaxFaults \in Nat
                           /\ MaxStarts \in Nat
ASSUME NoArmAssumption == NoArm \notin Arms

VARIABLES
  \* Postgres: survives everything.
  claims,    \* experiment_arm_entries: the claimed keys
  fills,     \* filled BUY rows of simulated_orders, per key
  rejects,   \* unfilled BUY rows of simulated_orders, per key
  row,       \* simulated_positions: the row of each key
  sold,      \* tokens of the filled SELL rows of simulated_orders, per key
  \* LiveResearchRuntime: lost when the process goes down.
  pc,        \* where each process stands
  entered,   \* entered_arms
  pending,   \* pending: keys with a queued entry
  attempts,  \* PendingPaper.attempts
  mem,       \* positions
  backoff,   \* exit_backoff: keys whose last exit failed
  job,       \* locals of the handler in progress
  todo,      \* rest of the loop in progress
  view,      \* rows loaded by the restore
  \* Bookkeeping of the model.
  faults,    \* faults so far
  starts,    \* starts so far
  healthy    \* no fault since this process last started

db      == <<claims, fills, rejects, row, sold>>
entry   == <<entered, pending, attempts>>
runtime == <<pc, entered, pending, attempts, mem, backoff, job, todo, view>>
vars    == <<db, runtime, faults, starts, healthy>>

Position == [status : {"NONE", "OPEN", "CLOSED", "SESSION_ENDED_OPEN"},
             remaining : 0 .. Lot]
NoPosition  == [status |-> "NONE", remaining |-> 0]
NewPosition == [status |-> "OPEN", remaining |-> Lot]
NoPositions == [a \in Arms |-> NoPosition]

Results == {"NONE", "FILLED", "REJECTED", "UNREADABLE"}
Job == [arm : Arms \cup {NoArm}, buy : Results, amount : 0 .. Lot]
NewJob(a, n) == [arm |-> a, buy |-> "NONE", amount |-> n]
NoJob == NewJob(NoArm, 0)

Restoring == {"ensure", "load", "orphans", "rebuild", "open", "reopen"}
Working   == {"read", "claim", "position", "exit", "save"}
Stopping  == {"ending", "sweep"}
Labels    == {"down", "idle"} \cup Restoring \cup Working \cup Stopping

TypeOK ==
  /\ claims \subseteq Arms
  /\ fills \in [Arms -> Nat] /\ rejects \in [Arms -> Nat]
  /\ row \in [Arms -> Position]
  /\ sold \in [Arms -> Nat]
  /\ pc \in [Procs -> Labels]
  /\ entered \in [Procs -> SUBSET Arms] /\ pending \in [Procs -> SUBSET Arms]
  /\ attempts \in [Procs -> [Arms -> 0 .. MaxReadAttempts]]
  /\ mem \in [Procs -> [Arms -> Position]]
  /\ backoff \in [Procs -> SUBSET Arms]
  /\ job \in [Procs -> Job]
  /\ todo \in [Procs -> SUBSET Arms]
  /\ view \in [Procs -> [Arms -> Position]]
  /\ faults \in 0 .. MaxFaults /\ starts \in 0 .. MaxStarts
  /\ healthy \in [Procs -> BOOLEAN]

Init ==
  /\ claims = {}
  /\ fills = [a \in Arms |-> 0] /\ rejects = [a \in Arms |-> 0]
  /\ row = NoPositions
  /\ sold = [a \in Arms |-> 0]
  /\ pc = [p \in Procs |-> "down"]
  /\ entered = [p \in Procs |-> {}] /\ pending = [p \in Procs |-> {}]
  /\ attempts = [p \in Procs |-> [a \in Arms |-> 0]]
  /\ mem = [p \in Procs |-> NoPositions]
  /\ backoff = [p \in Procs |-> {}]
  /\ job = [p \in Procs |-> NoJob]
  /\ todo = [p \in Procs |-> {}]
  /\ view = [p \in Procs |-> NoPositions]
  /\ faults = 0 /\ starts = 0
  /\ healthy = [p \in Procs |-> TRUE]

-----------------------------------------------------------------------------
(* Helpers. *)

NoFault  == UNCHANGED <<faults, healthy>>
Fault(p) == /\ faults < MaxFaults
            /\ faults' = faults + 1
            /\ healthy' = [healthy EXCEPT ![p] = FALSE]

Goto(p, label) == pc' = [pc EXCEPT ![p] = label]

(* A database write whose result the code ignores: applied, or not and    *)
(* then an error; an error may also hide a commit.                         *)
Write(p, done, skipped) == \/ NoFault /\ done
                           \/ Fault(p) /\ (done \/ skipped)

(* What a process loses when it goes down. *)
Forget(p) ==
  /\ entered' = [entered EXCEPT ![p] = {}]
  /\ pending' = [pending EXCEPT ![p] = {}]
  /\ attempts' = [attempts EXCEPT ![p] = [a \in Arms |-> 0]]
  /\ mem' = [mem EXCEPT ![p] = NoPositions]
  /\ backoff' = [backoff EXCEPT ![p] = {}]
  /\ job' = [job EXCEPT ![p] = NoJob]
  /\ todo' = [todo EXCEPT ![p] = {}]
  /\ view' = [view EXCEPT ![p] = NoPositions]

Filled(a) == fills[a] > 0
Held(a)   == row[a].status # "NONE"

HeldKeys     == {a \in Arms : Held(a)}
Evidence     == {a \in Arms : Held(a) \/ Filled(a)}
LifetimeKeys == claims \cup Evidence

-----------------------------------------------------------------------------
(* Start and restore. *)

(* A process starts with an empty runtime. *)
Start(p) ==
  /\ pc[p] = "down"
  /\ starts < MaxStarts /\ starts' = starts + 1
  /\ healthy' = [healthy EXCEPT ![p] = TRUE]
  /\ Goto(p, "ensure")
  /\ UNCHANGED <<db, entry, mem, backoff, job, todo, view, faults>>

(* Two statements mirror old positions, then old fills, into the claims.  *)
(* The caller ignores an error.                                            *)
ensure_arm_claims(p) ==
  /\ pc[p] = "ensure"
  /\ Goto(p, "load")
  /\ \/ NoFault /\ claims' = LifetimeKeys
     \/ Fault(p) /\ claims' \in {claims, claims \cup HeldKeys, LifetimeKeys}
  /\ UNCHANGED <<fills, rejects, row, sold, entry, mem, backoff, job, todo,
                 view, starts>>

(* The lifetime keys fill entered_arms.  An error here ends the restore,  *)
(* and the process trades on with what it has.                             *)
load_lifetime_arms(p) ==
  /\ pc[p] = "load"
  /\ \/ /\ NoFault /\ Goto(p, "orphans")
        /\ entered' = [entered EXCEPT ![p] = LifetimeKeys]
     \/ Fault(p) /\ Goto(p, "idle") /\ UNCHANGED entered
  /\ UNCHANGED <<db, pending, attempts, mem, backoff, job, todo, view, starts>>

OrphanFill_AnyBuy(a) == a \in claims /\ ~Held(a)          \* mutant
OrphanFill(a) == Filled(a) /\ ~Held(a)

Orphans == {a \in Arms : OrphanFill(a)}

load_orphan_fills(p) ==
  /\ pc[p] = "orphans"
  /\ \/ /\ NoFault
        /\ todo' = [todo EXCEPT ![p] = Orphans]
        /\ Goto(p, IF Orphans = {} THEN "open" ELSE "rebuild")
     \/ Fault(p) /\ Goto(p, "idle") /\ UNCHANGED todo
  /\ UNCHANGED <<db, entry, mem, backoff, job, view, starts>>

(* The unique index on (token, arm) refuses a second row for a key. *)
InsertPosition(a) == row' = [row EXCEPT ![a] = NewPosition]

reconstruct_position(p, a) ==
  LET rest == todo[p] \ {a}
  IN /\ pc[p] = "rebuild" /\ a \in todo[p]
     /\ todo' = [todo EXCEPT ![p] = rest]
     /\ Goto(p, IF rest = {} THEN "open" ELSE "rebuild")
     /\ \/ /\ ~Held(a) /\ NoFault /\ InsertPosition(a)
           /\ mem' = [mem EXCEPT ![p][a] = NewPosition]
           /\ entered' = [entered EXCEPT ![p] = @ \cup {a}]
        \/ /\ Held(a) /\ NoFault
           /\ UNCHANGED <<row, mem, entered>>
        \/ /\ Fault(p) /\ (UNCHANGED row \/ (~Held(a) /\ InsertPosition(a)))
           /\ UNCHANGED <<mem, entered>>
     /\ UNCHANGED <<claims, fills, rejects, sold, pending, attempts, backoff,
                    job, view, starts>>

OpenRow_OnlyOpen(a) == row[a].status = "OPEN"             \* mutant
OpenRow_AnyRow(a) == Held(a)                              \* mutant
OpenRow(a) == row[a].status \in {"OPEN", "SESSION_ENDED_OPEN"}

OpenRows == {a \in Arms : OpenRow(a)}
OpenView == [a \in Arms |-> IF a \in OpenRows THEN row[a] ELSE NoPosition]

load_open_positions(p) ==
  /\ pc[p] = "open"
  /\ \/ /\ NoFault
        /\ todo' = [todo EXCEPT ![p] = OpenRows]
        /\ view' = [view EXCEPT ![p] = OpenView]
        /\ Goto(p, IF OpenRows = {} THEN "idle" ELSE "reopen")
     \/ Fault(p) /\ Goto(p, "idle") /\ UNCHANGED <<todo, view>>
  /\ UNCHANGED <<db, entry, mem, backoff, job, starts>>

(* A loaded row becomes an open position again, unless the key already has *)
(* one in memory, and its row is rewritten from what was loaded.           *)
reopen_position(p, a) ==
  LET rest     == todo[p] \ {a}
      reopened == [view[p][a] EXCEPT !.status = "OPEN"]
  IN /\ pc[p] = "reopen" /\ a \in todo[p]
     /\ todo' = [todo EXCEPT ![p] = rest]
     /\ Goto(p, IF rest = {} THEN "idle" ELSE "reopen")
     /\ view' = [view EXCEPT ![p][a] = NoPosition]
     /\ entered' = [entered EXCEPT ![p] = @ \cup {a}]
     /\ IF mem[p][a].status # "NONE"
        THEN NoFault /\ UNCHANGED <<row, mem>>
        ELSE /\ mem' = [mem EXCEPT ![p][a] = reopened]
             /\ Write(p, row' = [row EXCEPT ![a] = reopened], UNCHANGED row)
     /\ UNCHANGED <<claims, fills, rejects, sold, pending, attempts, backoff,
                    job, starts>>

-----------------------------------------------------------------------------
(* Entry. *)

MayQueue(p, a) == a \notin entered[p]

(* An eligible snapshot queues every arm this process has not entered. *)
queue_arm(p, a) ==
  /\ pc[p] = "idle" /\ MayQueue(p, a)
  /\ entered' = [entered EXCEPT ![p] = @ \cup {a}]
  /\ pending' = [pending EXCEPT ![p] = @ \cup {a}]
  /\ UNCHANGED <<db, pc, attempts, mem, backoff, job, todo, view, faults,
                 starts, healthy>>

Dequeue(p, a) == /\ pending' = [pending EXCEPT ![p] = @ \ {a}]
                 /\ attempts' = [attempts EXCEPT ![p][a] = 0]

(* A due entry is dropped if its key is already claimed.  An error of the *)
(* lookup counts as "not claimed".                                         *)
flush_pending(p, a) ==
  /\ pc[p] = "idle" /\ a \in pending[p]
  /\ \/ /\ a \in claims /\ NoFault
        /\ entered' = [entered EXCEPT ![p] = @ \cup {a}]
        /\ Dequeue(p, a)
        /\ UNCHANGED <<pc, job>>
     \/ /\ (a \notin claims /\ NoFault) \/ Fault(p)
        /\ job' = [job EXCEPT ![p] = NewJob(a, 0)]
        /\ Goto(p, "read")
        /\ UNCHANGED entry
  /\ UNCHANGED <<db, mem, backoff, todo, view, starts>>

ReadAgain(p, a) == attempts[p][a] + 1 < MaxReadAttempts

CountRead_Lost(n) == n                                    \* mutant
CountRead(n) == n + 1

(* The curve read times out and is retried on a later tick, or fails for   *)
(* good, or succeeds and the fill simulation decides.                      *)
read_curve(p) ==
  LET a == job[p].arm
  IN /\ pc[p] = "read"
     /\ \/ /\ ReadAgain(p, a)
           /\ attempts' = [attempts EXCEPT ![p][a] = CountRead(@)]
           /\ job' = [job EXCEPT ![p] = NoJob]
           /\ Goto(p, "idle")
        \/ \E b \in {"UNREADABLE", "REJECTED", "FILLED"} :
           /\ job' = [job EXCEPT ![p].buy = b]
           /\ Goto(p, "claim")
           /\ UNCHANGED attempts
     /\ UNCHANGED <<db, entered, pending, mem, backoff, todo, view, faults,
                    starts, healthy>>

Claimable_Always(a) == TRUE                               \* mutant
Claimable(a) == a \notin claims

(* Claim and BUY row are one transaction. *)
ClaimBuy(a, buy) ==
  /\ claims' = claims \cup {a}
  /\ IF buy = "FILLED"
     THEN fills' = [fills EXCEPT ![a] = @ + 1] /\ UNCHANGED rejects
     ELSE rejects' = [rejects EXCEPT ![a] = @ + 1] /\ UNCHANGED fills

(* An error may hide the commit of the whole transaction. *)
LostCommit_ClaimOnly(a, buy) == Claimable(a) /\ claims' = claims \cup {a}
                                /\ UNCHANGED <<fills, rejects>>  \* mutant
LostCommit(a, buy) == Claimable(a) /\ ClaimBuy(a, buy)

(* A BUY that failed before the fill simulation is dropped when its row   *)
(* cannot be stored; any other BUY stays queued.                           *)
KeptOnError(buy) == buy # "UNREADABLE"

insert_order_claimed(p) ==
  LET a   == job[p].arm
      buy == job[p].buy
  IN /\ pc[p] = "claim"
     /\ \/ /\ ~Claimable(a) /\ NoFault
           /\ entered' = [entered EXCEPT ![p] = @ \cup {a}]
           /\ Dequeue(p, a)
           /\ job' = [job EXCEPT ![p] = NoJob]
           /\ Goto(p, "idle")
           /\ UNCHANGED <<claims, fills, rejects>>
        \/ /\ Claimable(a) /\ NoFault /\ ClaimBuy(a, buy)
           /\ Dequeue(p, a)
           /\ IF buy = "FILLED"
              THEN Goto(p, "position") /\ UNCHANGED job
              ELSE Goto(p, "idle") /\ job' = [job EXCEPT ![p] = NoJob]
           /\ UNCHANGED entered
        \/ /\ Fault(p)
           /\ \/ UNCHANGED <<claims, fills, rejects>>
              \/ LostCommit(a, buy)
           /\ IF KeptOnError(buy) THEN UNCHANGED <<pending, attempts>>
                                  ELSE Dequeue(p, a)
           /\ job' = [job EXCEPT ![p] = NoJob]
           /\ Goto(p, "idle")
           /\ UNCHANGED entered
     /\ UNCHANGED <<row, sold, mem, backoff, todo, view, starts>>

(* The position of a filled BUY; refused if another process made it. *)
SkipPosition_Kept(p, a) == mem' = [mem EXCEPT ![p][a] = NewPosition] \* mutant
SkipPosition(p, a) == UNCHANGED mem

insert_position(p) ==
  LET a == job[p].arm
  IN /\ pc[p] = "position"
     /\ \/ /\ ~Held(a) /\ NoFault /\ InsertPosition(a)
           /\ mem' = [mem EXCEPT ![p][a] = NewPosition]
        \/ Held(a) /\ NoFault /\ UNCHANGED <<row, mem>>
        \/ /\ Fault(p) /\ (UNCHANGED row \/ (~Held(a) /\ InsertPosition(a)))
           /\ SkipPosition(p, a)
     /\ job' = [job EXCEPT ![p] = NoJob]
     /\ Goto(p, "idle")
     /\ UNCHANGED <<claims, fills, rejects, sold, entry, backoff, todo, view,
                    starts>>

-----------------------------------------------------------------------------
(* Exit. *)

(* A policy asks for all of what is left of a position, or for a stage of *)
(* it.                                                                     *)
Requests_OfInitial(pos) == 1 .. Lot                       \* mutant
Requests(pos) == 1 .. pos.remaining

(* A tick marks an open position and its policy asks for a sale. *)
signal_exit(p, a) ==
  /\ pc[p] = "idle"
  /\ mem[p][a].status = "OPEN" /\ a \notin backoff[p]
  /\ \E n \in Requests(mem[p][a]) :
       job' = [job EXCEPT ![p] = NewJob(a, n)]
  /\ Goto(p, "exit")
  /\ UNCHANGED <<db, entry, mem, backoff, todo, view, faults, starts, healthy>>

(* No curve state or no fill: back off; the row is still rewritten. *)
fail_exit(p) ==
  /\ pc[p] = "exit"
  /\ backoff' = [backoff EXCEPT ![p] = @ \cup {job[p].arm}]
  /\ Goto(p, "save")
  /\ UNCHANGED <<db, entry, mem, job, todo, view, faults, starts, healthy>>

(* CLOSED only when nothing remains. *)
apply_exit_NeverCloses(pos, n) ==                         \* mutant
  [pos EXCEPT !.remaining = @ - n]
apply_exit(pos, n) ==
  [status    |-> IF pos.remaining = n THEN "CLOSED" ELSE pos.status,
   remaining |-> pos.remaining - n]

(* The fill may be smaller than the request.  Its SELL row is stored      *)
(* first, any error ignored, then the position in memory takes the fill.   *)
sell_exit(p) ==
  LET a == job[p].arm
  IN /\ pc[p] = "exit"
     /\ \E n \in 1 .. job[p].amount :
          /\ Write(p, sold' = [sold EXCEPT ![a] = @ + n], UNCHANGED sold)
          /\ mem' = [mem EXCEPT ![p][a] = apply_exit(@, n)]
     /\ backoff' = [backoff EXCEPT ![p] = @ \ {a}]
     /\ Goto(p, "save")
     /\ UNCHANGED <<claims, fills, rejects, row, entry, job, todo, view, starts>>

StoredForm_CloseOnly(p, a) ==                             \* mutant
  IF mem[p][a].status = "CLOSED" THEN mem[p][a] ELSE row[a]
StoredForm(p, a) == mem[p][a]

(* update_paper_position after either outcome; its error is ignored too. *)
save_position(p) ==
  LET a == job[p].arm
  IN /\ pc[p] = "save"
     /\ Write(p, row' = [row EXCEPT ![a] = StoredForm(p, a)], UNCHANGED row)
     /\ job' = [job EXCEPT ![p] = NoJob]
     /\ Goto(p, "idle")
     /\ UNCHANGED <<claims, fills, rejects, sold, entry, mem, backoff, todo,
                    view, starts>>

backoff_elapses(p, a) ==
  /\ a \in backoff[p]
  /\ backoff' = [backoff EXCEPT ![p] = @ \ {a}]
  /\ UNCHANGED <<db, pc, entry, mem, job, todo, view, faults, starts, healthy>>

-----------------------------------------------------------------------------
(* Stop and crash. *)

EndOpen(pos) ==
  IF pos.status = "OPEN" THEN [pos EXCEPT !.status = "SESSION_ENDED_OPEN"]
                         ELSE pos

EndAll(positions) == [a \in Arms |-> EndOpen(positions[a])]
Managed(p) == {a \in Arms : mem[p][a].status # "NONE"}

end_session(p) ==
  /\ pc[p] = "idle"
  /\ mem' = [mem EXCEPT ![p] = EndAll(mem[p])]
  /\ todo' = [todo EXCEPT ![p] = Managed(p)]
  /\ Goto(p, IF Managed(p) = {} THEN "sweep" ELSE "ending")
  /\ UNCHANGED <<db, entry, backoff, job, view, faults, starts, healthy>>

save_ended(p, a) ==
  LET rest == todo[p] \ {a}
  IN /\ pc[p] = "ending" /\ a \in todo[p]
     /\ todo' = [todo EXCEPT ![p] = rest]
     /\ Goto(p, IF rest = {} THEN "sweep" ELSE "ending")
     /\ Write(p, row' = [row EXCEPT ![a] = mem[p][a]], UNCHANGED row)
     /\ UNCHANGED <<claims, fills, rejects, sold, entry, mem, backoff, job,
                    view, starts>>

(* A bounded run marks the rows left OPEN; any other run just exits. *)
session_end_positions(p) ==
  /\ pc[p] = "sweep"
  /\ Goto(p, "down") /\ Forget(p)
  /\ \/ NoFault /\ UNCHANGED row
     \/ Write(p, row' = EndAll(row), UNCHANGED row)
  /\ UNCHANGED <<claims, fills, rejects, sold, starts>>

Crash(p) ==
  /\ pc[p] # "down"
  /\ Goto(p, "down") /\ Forget(p)
  /\ Fault(p)
  /\ UNCHANGED <<db, starts>>

-----------------------------------------------------------------------------
Restore(p) ==
  \/ ensure_arm_claims(p) \/ load_lifetime_arms(p) \/ load_orphan_fills(p)
  \/ load_open_positions(p)
  \/ \E a \in Arms : reconstruct_position(p, a) \/ reopen_position(p, a)

Entry(p) == read_curve(p) \/ insert_order_claimed(p) \/ insert_position(p)

Exit(p) == fail_exit(p) \/ sell_exit(p) \/ save_position(p)

Stop(p) == \/ session_end_positions(p)
           \/ \E a \in Arms : save_ended(p, a)

(* What a process does next once it has begun an operation. *)
Progress(p) == Restore(p) \/ Entry(p) \/ Exit(p) \/ Stop(p)

Next ==
  \E p \in Procs :
    \/ Start(p) \/ Progress(p) \/ end_session(p) \/ Crash(p)
    \/ \E a \in Arms : \/ queue_arm(p, a) \/ flush_pending(p, a)
                       \/ signal_exit(p, a) \/ backoff_elapses(p, a)

Spec == Init /\ [][Next]_vars
(* The runtime resumes what it began; every tick looks at every queued     *)
(* entry and open position, so one that stays due is not passed over for   *)
(* ever.  The last two conjuncts are assumptions on the market: a policy   *)
(* keeps asking to sell an open position, and not every exit attempt fails.*)
SellOf(p, a) == sell_exit(p) /\ job[p].arm = a

Fairness ==
  \A p \in Procs :
    /\ WF_vars(Progress(p))
    /\ \A a \in Arms : /\ SF_vars(flush_pending(p, a))
                       /\ WF_vars(backoff_elapses(p, a))
                       /\ SF_vars(signal_exit(p, a))
                       /\ SF_vars(SellOf(p, a))

FairSpec == Spec /\ Fairness

-----------------------------------------------------------------------------
(* Safety of entries, with any number of processes. *)

(* A key is claimed exactly when its one BUY row exists: no second BUY and *)
(* no claim without an order, whatever crashes, lost replies and racing    *)
(* processes do to insert_paper_order_claimed.                             *)
ClaimedOnce ==
  \A a \in Arms : fills[a] + rejects[a] = IF a \in claims THEN 1 ELSE 0

(* A stored position comes from a filled BUY, also when a restart          *)
(* reconstructs it (lab/integrity.rs: positions_without_fill).             *)
PositionHasFill == \A a \in Arms : Held(a) => Filled(a)

(* A position a process manages is stored and its key claimed: a rejected  *)
(* insert never leaves a position that only one process's memory knows.    *)
MemoryBacked ==
  \A p \in Procs, a \in Arms :
    mem[p][a].status # "NONE" => Held(a) /\ a \in claims

(* The three-stage promise of LifetimeEntry: each key moves forward only.  *)
stage ==
  [a \in Arms |-> CASE Held(a)                  -> "HELD"
                    [] ~Held(a) /\ Filled(a)    -> "FILLED"
                    [] ~Held(a) /\ ~Filled(a) /\ rejects[a] > 0 -> "REJECTED"
                    [] OTHER                    -> "FREE"]

Lifetime == INSTANCE LifetimeEntry WITH Arms <- Arms, stage <- stage

ImplementsLifetimeEntry == Lifetime!Spec

-----------------------------------------------------------------------------
(* Safety of positions, with one process that stops and restarts. *)

(* Between operations a process that met no fault since it started manages *)
(* exactly the open rows, with the same remaining tokens, and no filled    *)
(* BUY lacks a position: restore plus write-through keep the two in step.  *)
Mirror ==
  \A p \in Procs : healthy[p] /\ pc[p] = "idle" =>
    \A a \in Arms :
      /\ Filled(a) => Held(a)
      /\ row[a].status \in {"OPEN", "SESSION_ENDED_OPEN"} =>
           mem[p][a] = row[a]

(* The stored inventory and the SELL rows disagree by at most one position *)
(* per fault: between operations, a run without faults reconciles exactly  *)
(* (lab/reconcile.rs: inventory_ok).                                       *)
DriftPerFault ==
  \A a \in Arms :
    Held(a) /\ (\A p \in Procs : pc[p] # "save") =>
      LET drift == sold[a] + row[a].remaining - Lot
      IN -faults * Lot <= drift /\ drift <= faults * Lot

(* Once a close is stored, no restart reopens the row and nothing more is  *)
(* sold for the key.                                                       *)
ClosedIsFinal ==
  [][\A a \in Arms : row[a].status = "CLOSED" =>
       row'[a] = row[a] /\ sold'[a] = sold[a]]_vars

(* The inventory rebuilt from the fills is the stored one (the             *)
(* inventory_ok and oversold checks of lab/reconcile.rs).  A crash between *)
(* the SELL row and the position update breaks it: see the finding.        *)
InventoryMatchesFills ==
  \A a \in Arms :
    Held(a) /\ (\A p \in Procs : pc[p] # "save") =>
      sold[a] + row[a].remaining = Lot

-----------------------------------------------------------------------------
(* Liveness, under FairSpec. *)

(* A queued entry does not stay queued: the read attempts are capped and   *)
(* every other outcome claims or drops it.                                 *)
QueuedIsResolved ==
  \A p \in Procs, a \in Arms : a \in pending[p] ~> a \notin pending[p]

(* A managed position is closed, unless the session ends first: failed     *)
(* exits back off and come back, partial fills shrink what is left.        *)
OpenIsLeft ==
  \A p \in Procs, a \in Arms :
    mem[p][a].status = "OPEN" ~> mem[p][a].status # "OPEN"
=============================================================================
