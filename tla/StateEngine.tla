----------------------------- MODULE StateEngine -----------------------------
(***************************************************************************)
(* The token state engine (apps/engine/src/state/engine.rs) in live mode,  *)
(* as operators on one engine value: every method runs under the mutex the *)
(* pipeline and the tick task share, so a call is one step of its caller.  *)
(*                                                                         *)
(* An event is named by its rank in StateOrder, so "<" on events is the    *)
(* order of state/order.rs; times are small numbers.  Of the counters,     *)
(* volumes and windows of a token, all of them folds over its events, only *)
(* the sequence of events applied is kept.  Of its snapshots, one          *)
(* milestone is kept: a snapshot is <<token, origin>>, where origin is the *)
(* event that gave the state its discovered_at.                            *)
(***************************************************************************)
EXTENDS Integers, Sequences, FiniteSets, SequencesExt

CONSTANTS
  Events,        \* canonical events, by rank
  Tokens,        \* token keys
  TokenOf,       \* the token of each event
  TimeOf,        \* the chain time of each event
  MilestoneAge,  \* age at which the milestone snapshot is due
  ColdAge,       \* age at which a token leaves memory (2 h in the code)
  ReorderCap     \* size above which the reorder buffer is flushed (64)

ASSUME EventsAssumption == Events \subseteq Nat \ {0}
ASSUME TokenOfAssumption == TokenOf \in [Events -> Tokens]
ASSUME TimeOfAssumption == TimeOf \in [Events -> Nat]
ASSUME AgesAssumption == /\ MilestoneAge \in Nat /\ ColdAge \in Nat
                         /\ MilestoneAge < ColdAge
ASSUME ReorderCapAssumption == ReorderCap \in Nat

TokenState == [held : BOOLEAN, applied : Seq(Events), emitted : BOOLEAN]
Evicted    == [held |-> FALSE, applied |-> <<>>, emitted |-> FALSE]

Snapshots == Tokens \X Events

(* last is last_applied, 0 for None; rebuilds is pending_rebuilds; snaps   *)
(* is snapshot_buffer.                                                     *)
Engine == [tokens : [Tokens -> TokenState], reorder : SUBSET Events,
           last : Nat, rebuilds : SUBSET Tokens, snaps : SUBSET Snapshots]
NewEngine == [tokens |-> [t \in Tokens |-> Evicted], reorder |-> {},
              last |-> 0, rebuilds |-> {}, snaps |-> {}]

(* discovered_at is the time of the first event of a state, whether that   *)
(* is its discovery or a trade that found no state.                        *)
Origin(st)       == Head(st.applied)
Age(st, now)     == now - TimeOf[Origin(st)]
MilestoneDue_Exact(st, now) ==                                    \* mutant
  st.held /\ ~st.emitted /\ Age(st, now) = MilestoneAge
MilestoneDue(st, now) == st.held /\ ~st.emitted /\ Age(st, now) >= MilestoneAge

emit_due_snapshots(g, t, now) ==
  IF MilestoneDue(g.tokens[t], now)
  THEN [g EXCEPT !.tokens[t].emitted = TRUE,
                 !.snaps = @ \cup {<<t, Origin(g.tokens[t])>>}]
  ELSE g

apply_in_order(g, e) ==
  LET t == TokenOf[e]
  IN [emit_due_snapshots(g, t, TimeOf[e]) EXCEPT
        !.tokens[t].held = TRUE,
        !.tokens[t].applied = Append(@, e),
        !.last = e]

(* A finite set of events as a sequence, smallest first. *)
InOrder(S) == CHOOSE s \in [1 .. Cardinality(S) -> S] :
                \A i, j \in DOMAIN s : i < j => s[i] < s[j]

(* Entries below last_applied are too late and ask for a rebuild of their  *)
(* token; the others are applied.                                          *)
flush_reorder_One(g) ==                                           \* mutant
  LET late == {e \in g.reorder : e < g.last /\ \A f \in g.reorder : e <= f}
  IN [g EXCEPT !.reorder = @ \ late,
               !.rebuilds = @ \cup {TokenOf[e] : e \in late}]
flush_reorder_Drop(g) ==                                          \* mutant
  FoldLeft(apply_in_order, [g EXCEPT !.reorder = {}],
           InOrder({e \in g.reorder : e >= g.last}))
flush_reorder(g) ==
  LET late == {e \in g.reorder : e < g.last}
  IN FoldLeft(apply_in_order,
              [g EXCEPT !.reorder = {},
                        !.rebuilds = @ \cup {TokenOf[e] : e \in late}],
              InOrder(g.reorder \ late))

(* A late event waits in the buffer until an event in order, or one too    *)
(* many late ones, flushes it.                                             *)
push_event(g, e) ==
  LET waiting == [g EXCEPT !.reorder = @ \cup {e}]
  IN IF e >= g.last THEN flush_reorder(apply_in_order(g, e))
     ELSE IF Cardinality(waiting.reorder) > ReorderCap
     THEN flush_reorder(waiting)
     ELSE waiting

(* The token's state is built again from stored events.  The buffer and    *)
(* last_applied, shared by all tokens, start afresh, and applying takes    *)
(* whatever snapshots were waiting.                                        *)
rebuild_token(g, t, stored) ==
  LET cleared == [g EXCEPT !.tokens[t] = Evicted, !.reorder = {}, !.last = 0]
      built   == FoldLeft(push_event, cleared, InOrder(stored))
  IN IF stored = {}
     THEN [engine |-> cleared, snaps |-> {}]
     ELSE [engine |-> [built EXCEPT !.snaps = {}], snaps |-> built.snaps]

(* The live tick: due milestones are emitted, cold tokens leave memory and *)
(* the snapshot buffer is taken.                                           *)
Cooled_KeepsTotals(st, now) ==                                    \* mutant
  IF st.held /\ Age(st, now) >= ColdAge THEN [st EXCEPT !.held = FALSE]
  ELSE [st EXCEPT !.emitted = @ \/ MilestoneDue(st, now)]
Cooled(st, now) ==
  IF ~st.held THEN st
  ELSE IF Age(st, now) >= ColdAge THEN Evicted
  ELSE [st EXCEPT !.emitted = @ \/ MilestoneDue(st, now)]

DueNow(g, now) ==
  {<<t, Origin(g.tokens[t])>> :
     t \in {x \in Tokens : MilestoneDue(g.tokens[x], now)}}

tick_live_OnlyDue(g, now) ==                                      \* mutant
  [engine |-> [g EXCEPT !.tokens = [t \in Tokens |-> Cooled(g.tokens[t], now)],
                        !.snaps = {}],
   snaps  |-> DueNow(g, now)]
tick_live(g, now) ==
  [engine |-> [g EXCEPT !.tokens = [t \in Tokens |-> Cooled(g.tokens[t], now)],
                        !.snaps = {}],
   snaps  |-> g.snaps \cup DueNow(g, now)]
=============================================================================
