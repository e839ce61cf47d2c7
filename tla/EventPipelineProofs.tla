------------------------ MODULE EventPipelineProofs -------------------------
(***************************************************************************)
(* EventPipeline keeps its types, counts no event twice, clears no waiting *)
(* event, is one event behind at most, stores what it decodes, loses no    *)
(* milestone and repeats none after a restart.                             *)
(*                                                                         *)
(* First what the engine's operators do to one engine value (Took and      *)
(* Delayed for a push, Rebuilt for a rebuild, Ticked for the tick), then   *)
(* what each action does to the pipeline (AppliedState, Loaded, ...), then *)
(* the inductive invariant, layer on layer:                                *)
(*                                                                         *)
(*   Structure   types, a live engine, and what each place of the pipeline *)
(*               task says about the other variables;                      *)
(*   Once        what is still ahead of the engine was never stored,       *)
(*               applied or announced;                                     *)
(*   Decoded     a log that succeeded is stored, but for what is in hand;  *)
(*   Accounted   an emitted milestone is somewhere;                        *)
(*   Fenced      what is on its way to research has a row, and is in one   *)
(*               place only;                                               *)
(*   Behind      a token that waits for no rebuild lags by one event.      *)
(***************************************************************************)
EXTENDS EventPipeline, FiniteSetTheorems, WellFoundedInduction, TLAPS

USE EventsAssumption, TokenOfAssumption, TimeOfAssumption, AgesAssumption,
    ReorderCapAssumption, DecodeAssumption, DiscoveriesAssumption,
    PipelineBoundsAssumption

-----------------------------------------------------------------------------
(* Finite sets of numbers and the sequence of their elements. *)

LEMMA Smallest ==
  ASSUME NEW S \in SUBSET Nat, S # {}
  PROVE  \E m \in S : \A n \in S : m <= n
<1>1. PICK m \in S : \A n \in S : <<n, m>> \notin OpToRel(<, Nat)
  BY NatLessThanWellFounded, WFMin
<1>2. \A n \in S : ~(n < m)
  BY <1>1 DEF OpToRel
<1>3. \A n \in S : m <= n
  BY <1>2
<1> QED
  BY <1>3

Sorted(s) == \A i, j \in DOMAIN s : i < j => s[i] < s[j]
Sorts(s, S) == s \in [1 .. Cardinality(S) -> S] /\ Sorted(s)

(* Upward induction on the numbers up to n, for a set instead of a         *)
(* predicate.                                                              *)
LEMMA Upward ==
  ASSUME NEW n \in Nat, NEW S, 0 \in S, \A k \in 0 .. n : k < n /\ k \in S => k + 1 \in S
  PROVE  \A k \in 0 .. n : k \in S
<1> SUFFICES ASSUME (0 .. n) \ S # {} PROVE FALSE
  OBVIOUS
<1> DEFINE Bad == (0 .. n) \ S
<1>a. Bad \in SUBSET Nat /\ Bad # {}
  OBVIOUS
<1>1. PICK m \in Bad : \A k \in Bad : m <= k
  <2> HIDE DEF Bad
  <2> QED BY <1>a, Smallest
<1>2. m # 0 /\ m \in 0 .. n
  BY <1>1
<1>3. m - 1 \in 0 .. n /\ m - 1 < n /\ m - 1 \notin Bad
  BY <1>1, <1>2
<1>4. m - 1 \in S
  BY <1>3
<1>5. (m - 1) + 1 \in S
  BY <1>3, <1>4
<1>6. (m - 1) + 1 = m
  BY <1>2
<1> QED
  BY <1>1, <1>5, <1>6

(* A finite set of numbers that is not empty has a largest one. *)
LEMMA Largest ==
  ASSUME NEW S \in SUBSET Nat, IsFiniteSet(S), S # {}
  PROVE  \E m \in S : \A n \in S : n <= m
<1> DEFINE Good == {k \in Nat : \A T \in SUBSET S : Cardinality(T) = k /\ T # {} =>
                                  \E m \in T : \A n \in T : n <= m}
           size == Cardinality(S)
<1>1. size \in Nat
  BY FS_CardinalityType
<1>2. 0 \in Good
  <2> SUFFICES ASSUME NEW T \in SUBSET S, Cardinality(T) = 0 PROVE T = {}
    BY Zenon
  <2>1. IsFiniteSet(T)
    BY FS_Subset
  <2> QED
    BY <2>1, FS_EmptySet
<1>3. ASSUME NEW k \in 0 .. size, k < size, k \in Good
      PROVE  k + 1 \in Good
  <2> SUFFICES ASSUME NEW T \in SUBSET S, Cardinality(T) = k + 1, T # {}
               PROVE  \E m \in T : \A n \in T : n <= m
    BY <1>1
  <2>0. k \in Nat
    BY <1>1
  <2>1. PICK x \in T : TRUE
    OBVIOUS
  <2>2. IsFiniteSet(T)
    BY FS_Subset
  <2>3. Cardinality(T \ {x}) = k
    <3>1. Cardinality(T \ {x}) = (k + 1) - 1
      BY <2>1, <2>2, FS_RemoveElement
    <3> QED
      BY <2>0, <3>1
  <2>4. CASE T \ {x} = {}
    BY <2>1, <2>4
  <2>5. CASE T \ {x} # {}
    <3>1. PICK m \in T \ {x} : \A n \in T \ {x} : n <= m
      BY <1>3, <2>3, <2>5
    <3>2. CASE m <= x
      BY <2>1, <3>1, <3>2
    <3>3. CASE ~(m <= x)
      BY <2>1, <3>1, <3>3
    <3> QED
      BY <3>2, <3>3
  <2> QED
    BY <2>4, <2>5
<1> HIDE DEF Good
<1>4. \A k \in 0 .. size : k \in Good
  <2>1. \A k \in 0 .. size : k < size /\ k \in Good => k + 1 \in Good
    BY <1>3
  <2> HIDE DEF size
  <2> QED
    BY <1>1, <1>2, <2>1, Upward
<1> QED
  BY <1>1, <1>4 DEF Good

LEMMA SortedExists ==
  ASSUME NEW S \in SUBSET Nat, IsFiniteSet(S)
  PROVE  \E s : Sorts(s, S)
<1> DEFINE Good == {k \in Nat : \A T \in SUBSET S : Cardinality(T) = k => \E s : Sorts(s, T)}
           size == Cardinality(S)
<1>1. size \in Nat
  BY FS_CardinalityType
<1>2. 0 \in Good
  <2> SUFFICES ASSUME NEW T \in SUBSET S, Cardinality(T) = 0 PROVE \E s : Sorts(s, T)
    BY Zenon
  <2>1. Sorts([i \in 1 .. Cardinality(T) |-> 0], T)
    BY DEF Sorts, Sorted
  <2> QED
    BY <2>1
<1>3. ASSUME NEW k \in 0 .. size, k < size, k \in Good
      PROVE  k + 1 \in Good
  <2> SUFFICES ASSUME NEW T \in SUBSET S, Cardinality(T) = k + 1
               PROVE  \E s : Sorts(s, T)
    BY <1>1
  <2>0. k \in Nat
    BY <1>1
  <2>1. IsFiniteSet(T) /\ T # {}
    <3>1. IsFiniteSet(T)
      BY FS_Subset
    <3>2. Cardinality({}) = 0
      BY FS_EmptySet
    <3>3. ASSUME T = {} PROVE FALSE
      BY <2>0, <3>2, <3>3
    <3> QED
      BY <3>1, <3>3
  <2>2. PICK m \in T : \A n \in T : n <= m
    BY <2>1, Largest
  <2>3. Cardinality(T \ {m}) = k
    <3>1. Cardinality(T \ {m}) = (k + 1) - 1
      BY <2>1, <2>2, FS_RemoveElement
    <3> QED
      BY <2>0, <3>1
  <2>4. PICK s : Sorts(s, T \ {m})
    BY <1>3, <2>3
  <2> DEFINE r == [i \in 1 .. k + 1 |-> IF i = k + 1 THEN m ELSE s[i]]
  <2>5. s \in [1 .. k -> T \ {m}] /\ \A i, j \in 1 .. k : i < j => s[i] < s[j]
    BY <2>3, <2>4 DEF Sorts, Sorted
  <2>6. r \in [1 .. k + 1 -> T]
    BY <1>3, <2>2, <2>5
  <2>7. ASSUME NEW i \in 1 .. k + 1, NEW j \in 1 .. k + 1, i < j
        PROVE  r[i] < r[j]
    <3>1. i \in 1 .. k /\ r[i] = s[i] /\ s[i] \in T \ {m} /\ T \subseteq Nat
      BY <1>3, <2>5, <2>7
    <3>2. CASE j = k + 1
      <4>1. r[j] = m /\ s[i] # m /\ s[i] <= m
        BY <2>2, <3>1, <3>2
      <4>2. s[i] \in Nat /\ m \in Nat
        BY <2>2, <3>1
      <4> HIDE DEF r
      <4> QED
        BY <3>1, <4>1, <4>2
    <3>3. CASE j # k + 1
      BY <1>3, <2>5, <2>7, <3>1, <3>3
    <3> QED
      BY <3>2, <3>3
  <2>8. Sorts(r, T)
    BY <2>6, <2>7 DEF Sorts, Sorted
  <2> QED
    BY <2>8
<1> HIDE DEF Good
<1>4. \A k \in 0 .. size : k \in Good
  <2>1. \A k \in 0 .. size : k < size /\ k \in Good => k + 1 \in Good
    BY <1>3
  <2> HIDE DEF size
  <2> QED
    BY <1>1, <1>2, <2>1, Upward
<1> QED
  BY <1>1, <1>4 DEF Good

LEMMA InOrderSorts ==
  ASSUME NEW S \in SUBSET Events, IsFiniteSet(S)
  PROVE  /\ InOrder(S) \in Seq(Events) /\ Len(InOrder(S)) = Cardinality(S)
         /\ InOrder(S) \in [1 .. Cardinality(S) -> S] /\ Sorted(InOrder(S))
<1>1. Sorts(InOrder(S), S)
  BY SortedExists DEF Sorts, Sorted, InOrder
<1>2. Cardinality(S) \in Nat
  BY FS_CardinalityType
<1> DEFINE n == Cardinality(S)
           s == InOrder(S)
<1>3. s \in [1 .. n -> S] /\ Sorted(s) /\ n \in Nat
  BY <1>1, <1>2 DEF Sorts
<1> HIDE DEF n, s
<1>4. s \in Seq(S) /\ Len(s) = n
  BY <1>3
<1>5. s \in [1 .. n -> Events] /\ n \in Nat
  BY <1>3
<1>6. s \in Seq(Events)
  BY <1>5
<1> QED
  BY <1>3, <1>4, <1>6 DEF n, s

-----------------------------------------------------------------------------
(* The engine's operators. *)

Advanced(g, h, e) ==
  LET t   == TokenOf[e]
      st  == g.tokens[t]
      due == MilestoneDue(st, TimeOf[e])
  IN /\ h \in Engine
     /\ h.reorder = g.reorder /\ h.rebuilds = g.rebuilds /\ h.last = e
     /\ \A u \in Tokens \ {t} : h.tokens[u] = g.tokens[u]
     /\ h.tokens[t].held /\ h.tokens[t].applied = Append(st.applied, e)
     /\ h.tokens[t].emitted <=> st.emitted \/ due
     /\ h.snaps = IF due THEN g.snaps \cup {<<t, Origin(st)>>} ELSE g.snaps

Shape(st) == st.held <=> st.applied # <<>>
Sane(g)   == g \in Engine /\ \A t \in Tokens : Shape(g.tokens[t])

(* The updates of a state and of an engine, as operators. *)
Grown(st, e)     == [st EXCEPT !.held = TRUE, !.applied = Append(@, e)]
Put(g, t, st)    == [g EXCEPT !.tokens[t] = st]
Reached(g, e)    == [g EXCEPT !.last = e]
Emitting(g, t, s) == [g EXCEPT !.tokens[t].emitted = TRUE, !.snaps = @ \cup {s}]

LEMMA GrownIs ==
  ASSUME NEW st \in TokenState, NEW e \in Events
  PROVE  /\ Grown(st, e) \in TokenState /\ Grown(st, e).held
         /\ Grown(st, e).applied = Append(st.applied, e)
         /\ Grown(st, e).emitted = st.emitted
<1>1. st.applied \in Seq(Events) /\ Append(st.applied, e) \in Seq(Events)
  BY DEF TokenState
<1> DEFINE a == Append(st.applied, e)
<1>2. Grown(st, e) = [st EXCEPT !.held = TRUE, !.applied = a]
  BY DEF Grown
<1> HIDE DEF a
<1>3. /\ Grown(st, e).applied = a /\ Grown(st, e).emitted = st.emitted
      /\ Grown(st, e).held = TRUE
  BY <1>2 DEF TokenState
<1>4. Grown(st, e) \in TokenState
  BY <1>1, <1>2 DEF TokenState, a
<1> QED
  BY <1>3, <1>4 DEF a

LEMMA PutIs ==
  ASSUME NEW g \in Engine, NEW t \in Tokens, NEW st \in TokenState
  PROVE  /\ Put(g, t, st) \in Engine /\ Put(g, t, st).tokens[t] = st
         /\ \A u \in Tokens \ {t} : Put(g, t, st).tokens[u] = g.tokens[u]
         /\ Put(g, t, st).reorder = g.reorder /\ Put(g, t, st).last = g.last
         /\ Put(g, t, st).rebuilds = g.rebuilds /\ Put(g, t, st).snaps = g.snaps
BY DEF Engine, Put

LEMMA ReachedIs ==
  ASSUME NEW g \in Engine, NEW e \in Nat
  PROVE  /\ Reached(g, e) \in Engine /\ Reached(g, e).tokens = g.tokens
         /\ Reached(g, e).reorder = g.reorder /\ Reached(g, e).last = e
         /\ Reached(g, e).rebuilds = g.rebuilds /\ Reached(g, e).snaps = g.snaps
BY DEF Engine, Reached

LEMMA EmittingIs ==
  ASSUME NEW g \in Engine, NEW t \in Tokens, NEW s \in Snapshots
  PROVE  LET h == Emitting(g, t, s)
         IN  /\ h \in Engine
             /\ h.tokens[t].held = g.tokens[t].held
             /\ h.tokens[t].applied = g.tokens[t].applied
             /\ h.tokens[t].emitted
             /\ \A u \in Tokens \ {t} : h.tokens[u] = g.tokens[u]
             /\ h.reorder = g.reorder /\ h.last = g.last
             /\ h.rebuilds = g.rebuilds /\ h.snaps = g.snaps \cup {s}
<1> DEFINE h == Emitting(g, t, s)
           st == g.tokens[t]
<1>1. st \in TokenState
  BY DEF Engine
<1>2. /\ h.tokens = [g.tokens EXCEPT ![t] = [st EXCEPT !.emitted = TRUE]]
      /\ h.reorder = g.reorder /\ h.last = g.last
      /\ h.rebuilds = g.rebuilds /\ h.snaps = g.snaps \cup {s}
  BY DEF Engine, Emitting
<1> DEFINE done == [st EXCEPT !.emitted = TRUE]
<1>3. done \in TokenState /\ done.held = st.held /\ done.applied = st.applied
  BY <1>1 DEF TokenState
<1>4. done.emitted = TRUE
  BY <1>1 DEF TokenState
<1> HIDE DEF done
<1>5. h.tokens = [g.tokens EXCEPT ![t] = done]
  BY <1>2 DEF done
<1>6. g.tokens \in [Tokens -> TokenState] /\ g.snaps \cup {s} \in SUBSET Snapshots
  BY DEF Engine
<1>7. h \in Engine
  <2>1. h = [g EXCEPT !.tokens = h.tokens, !.snaps = h.snaps]
    BY DEF Emitting, Engine
  <2>2. h.tokens \in [Tokens -> TokenState]
    <3> HIDE DEF h
    <3> QED
      BY <1>3, <1>5, <1>6
  <2>3. h.snaps \in SUBSET Snapshots
    <3> HIDE DEF h
    <3> QED
      BY <1>2, <1>6
  <2> HIDE DEF h
  <2> QED
    BY <2>1, <2>2, <2>3 DEF Engine
<1> HIDE DEF h
<1>8. h.tokens[t] = done /\ \A u \in Tokens \ {t} : h.tokens[u] = g.tokens[u]
  BY <1>5, <1>6
<1> QED
  BY <1>2, <1>3, <1>4, <1>7, <1>8 DEF h, st

LEMMA Emits ==
  ASSUME NEW g, Sane(g), NEW t \in Tokens, NEW time \in Nat
  PROVE  LET h  == emit_due_snapshots(g, t, time)
             st == g.tokens[t]
             due == MilestoneDue(st, time)
         IN /\ h \in Engine /\ h.tokens[t].held = st.held /\ h.tokens[t].applied = st.applied
            /\ h.tokens[t].emitted <=> st.emitted \/ due
            /\ \A u \in Tokens \ {t} : h.tokens[u] = g.tokens[u]
            /\ h.reorder = g.reorder /\ h.last = g.last /\ h.rebuilds = g.rebuilds
            /\ h.snaps = IF due THEN g.snaps \cup {<<t, Origin(st)>>} ELSE g.snaps
<1> DEFINE st == g.tokens[t]
<1>1. g \in Engine /\ st \in TokenState
  BY DEF Sane, Engine, TokenState
<1>2. CASE MilestoneDue(st, time)
  <2>1. <<t, Origin(st)>> \in Snapshots
    BY <1>1, <1>2 DEF Sane, Shape, MilestoneDue, Snapshots, Origin, TokenState
  <2>2. emit_due_snapshots(g, t, time) = Emitting(g, t, <<t, Origin(st)>>)
    BY <1>2 DEF emit_due_snapshots, Emitting
  <2> QED
    BY <1>1, <1>2, <2>1, <2>2, EmittingIs
<1>3. CASE ~MilestoneDue(st, time)
  <2>1. emit_due_snapshots(g, t, time) = g
    BY <1>3 DEF emit_due_snapshots
  <2> QED
    BY <1>1, <1>3, <2>1
<1> QED
  BY <1>2, <1>3

LEMMA Applies ==
  ASSUME NEW g, Sane(g), NEW e \in Events
  PROVE  Advanced(g, apply_in_order(g, e), e)
<1> DEFINE t  == TokenOf[e]
           st == g.tokens[t]
           m  == emit_due_snapshots(g, t, TimeOf[e])
           h  == apply_in_order(g, e)
           k  == Put(m, t, Grown(m.tokens[t], e))
           due == MilestoneDue(st, TimeOf[e])
<1>1. t \in Tokens /\ st.applied \in Seq(Events) /\ e \in Nat /\ TimeOf[e] \in Nat
  BY DEF Sane, Engine, TokenState
<1>2. /\ m \in Engine /\ m.tokens[t].held = st.held /\ m.tokens[t].applied = st.applied
      /\ m.tokens[t].emitted <=> st.emitted \/ due
      /\ \A u \in Tokens \ {t} : m.tokens[u] = g.tokens[u]
      /\ m.reorder = g.reorder /\ m.last = g.last /\ m.rebuilds = g.rebuilds
      /\ m.snaps = IF due THEN g.snaps \cup {<<t, Origin(st)>>} ELSE g.snaps
  BY <1>1, Emits
<1>3. h = [m EXCEPT !.tokens[t].held = TRUE, !.tokens[t].applied = Append(@, e), !.last = e]
  BY DEF apply_in_order
<1> HIDE DEF m, due, t
<1>4. m.tokens[t] \in TokenState
  BY <1>1, <1>2 DEF Engine
<1>5. h = Reached(k, e)
  BY <1>1, <1>2, <1>3, <1>4 DEF Reached, Put, Grown, Engine, TokenState
<1>6. /\ k \in Engine /\ k.tokens[t] = Grown(m.tokens[t], e)
      /\ \A u \in Tokens \ {t} : k.tokens[u] = m.tokens[u]
      /\ k.reorder = m.reorder /\ k.rebuilds = m.rebuilds /\ k.snaps = m.snaps
  <2> DEFINE new == Grown(m.tokens[t], e)
  <2>1. new \in TokenState
    BY <1>4, GrownIs
  <2>2. k = Put(m, t, new)
    OBVIOUS
  <2> HIDE DEF new, k
  <2>3. /\ k \in Engine /\ k.tokens[t] = new
        /\ \A u \in Tokens \ {t} : k.tokens[u] = m.tokens[u]
        /\ k.reorder = m.reorder /\ k.rebuilds = m.rebuilds /\ k.snaps = m.snaps
    BY <1>1, <1>2, <2>1, <2>2, PutIs
  <2> QED
    BY <2>3 DEF new
<1> HIDE DEF h, k
<1>7. /\ h \in Engine /\ h.tokens = k.tokens /\ h.reorder = k.reorder /\ h.last = e
      /\ h.rebuilds = k.rebuilds /\ h.snaps = k.snaps
  BY <1>1, <1>5, <1>6, ReachedIs
<1> DEFINE old == m.tokens[t]
<1>8. old \in TokenState /\ h.tokens[t] = Grown(old, e) /\ old.applied = st.applied
      /\ (old.emitted <=> st.emitted \/ due)
  BY <1>2, <1>4, <1>6, <1>7
<1> HIDE DEF old
<1>9. /\ Grown(old, e).held /\ Grown(old, e).applied = Append(old.applied, e)
      /\ Grown(old, e).emitted = old.emitted
  BY <1>8, GrownIs
<1>10. /\ h.tokens[t].held /\ h.tokens[t].applied = Append(st.applied, e)
       /\ (h.tokens[t].emitted <=> st.emitted \/ due)
  <2>1. h.tokens[t].held
    BY <1>8, <1>9, Zenon
  <2>2. h.tokens[t].applied = Append(st.applied, e)
    BY <1>8, <1>9
  <2>3. h.tokens[t].emitted <=> st.emitted \/ due
    BY <1>8, <1>9, Zenon
  <2> QED
    BY <2>1, <2>2, <2>3
<1> QED
  BY <1>2, <1>6, <1>7, <1>10 DEF Advanced, h, due, t

(* An engine between two calls: what waits in the buffer is late, and a    *)
(* token only holds events of its own.                                     *)
Own(st, t) == \A i \in DOMAIN st.applied : TokenOf[st.applied[i]] = t
Live(g) == /\ Sane(g) /\ \A e \in g.reorder : e < g.last
           /\ \A t \in Tokens : Own(g.tokens[t], t)

Waiting(g, e) == [g EXCEPT !.reorder = @ \cup {e}]
Flushed(g) == [g EXCEPT !.reorder = {},
                        !.rebuilds = @ \cup {TokenOf[e] : e \in g.reorder}]

LEMMA WaitingIs ==
  ASSUME NEW g \in Engine, NEW e \in Events
  PROVE  /\ Waiting(g, e) \in Engine /\ Waiting(g, e).tokens = g.tokens
         /\ Waiting(g, e).reorder = g.reorder \cup {e}
         /\ Waiting(g, e).last = g.last /\ Waiting(g, e).rebuilds = g.rebuilds
         /\ Waiting(g, e).snaps = g.snaps
BY DEF Engine, Waiting

LEMMA FlushedIs ==
  ASSUME NEW g \in Engine
  PROVE  /\ Flushed(g) \in Engine /\ Flushed(g).tokens = g.tokens
         /\ Flushed(g).reorder = {} /\ Flushed(g).last = g.last
         /\ Flushed(g).rebuilds = g.rebuilds \cup {TokenOf[e] : e \in g.reorder}
         /\ Flushed(g).snaps = g.snaps
<1> DEFINE late == {TokenOf[e] : e \in g.reorder}
<1>1. late \subseteq Tokens
  BY DEF Engine
<1>2. Flushed(g) = [g EXCEPT !.reorder = {}, !.rebuilds = @ \cup late]
  BY DEF Flushed
<1> HIDE DEF late
<1>3. /\ Flushed(g) \in Engine /\ Flushed(g).tokens = g.tokens
      /\ Flushed(g).reorder = {} /\ Flushed(g).last = g.last
      /\ Flushed(g).rebuilds = g.rebuilds \cup late
      /\ Flushed(g).snaps = g.snaps
  BY <1>1, <1>2 DEF Engine
<1> QED
  BY <1>3 DEF late

LEMMA NoneInOrder == InOrder({}) \in [1 .. 0 -> {}]
<1>1. IsFiniteSet({}) /\ Cardinality({}) = 0
  BY FS_EmptySet
<1>2. InOrder({}) \in [1 .. Cardinality({}) -> {}]
  BY <1>1, InOrderSorts
<1> QED
  BY <1>1, <1>2

LEMMA FoldsNothing ==
  ASSUME NEW g
  PROVE  FoldLeft(apply_in_order, g, InOrder({})) = g
<1> DEFINE s == InOrder({})
<1>1. DOMAIN s = {}
  BY NoneInOrder
<1> HIDE DEF s
<1> DEFINE Iter(it) == it = [ss \in SUBSET DOMAIN s |->
                              IF ss = {} THEN g
                              ELSE apply_in_order(it[ss \ {Max(ss)}], s[Max(ss)])]
<1>2. FoldLeft(apply_in_order, g, s) = (CHOOSE it : Iter(it))[DOMAIN s]
  BY DEF FoldLeft, MapThenFoldSet
<1>3. Iter([ss \in SUBSET DOMAIN s |-> g])
  BY <1>1
<1>4. Iter(CHOOSE it : Iter(it))
  <2> HIDE DEF Iter
  <2> QED
    BY <1>3
<1>5. (CHOOSE it : Iter(it))[DOMAIN s] = g
  <2> DEFINE it == CHOOSE x : Iter(x)
  <2>1. Iter(it)
    BY <1>4
  <2> HIDE DEF it
  <2>2. it[DOMAIN s] = g
    BY <1>1, <2>1
  <2> QED
    BY <2>2 DEF it
<1> QED
  BY <1>2, <1>5 DEF s

(* When all that waits is late, a flush empties the buffer.                *)
LEMMA Flushes ==
  ASSUME NEW g \in Engine, \A e \in g.reorder : e < g.last
  PROVE  flush_reorder(g) = Flushed(g)
<1> DEFINE late == {e \in g.reorder : e < g.last}
<1>1. late = g.reorder
  OBVIOUS
<1>2. flush_reorder(g) =
        FoldLeft(apply_in_order,
                 [g EXCEPT !.reorder = {}, !.rebuilds = @ \cup {TokenOf[e] : e \in late}],
                 InOrder(g.reorder \ late))
  BY DEF flush_reorder
<1>3. g.reorder \ late = {}
  BY <1>1
<1> HIDE DEF late
<1>4. flush_reorder(g) = FoldLeft(apply_in_order, Flushed(g), InOrder({}))
  BY <1>1, <1>2, <1>3 DEF Flushed
<1> QED
  BY <1>4, FoldsNothing

(* What a push does: the event is applied, and the buffer flushed; or it   *)
(* waits; or the buffer is one too large and flushed with it.              *)
Took(g, h, e) ==
  LET t   == TokenOf[e]
      st  == g.tokens[t]
      due == MilestoneDue(st, TimeOf[e])
  IN /\ e >= g.last /\ h.last = e /\ h.reorder = {}
     /\ h.rebuilds = g.rebuilds \cup {TokenOf[f] : f \in g.reorder}
     /\ \A u \in Tokens \ {t} : h.tokens[u] = g.tokens[u]
     /\ h.tokens[t].held /\ h.tokens[t].applied = Append(st.applied, e)
     /\ h.tokens[t].emitted <=> st.emitted \/ due
     /\ h.snaps = IF due THEN g.snaps \cup {<<t, Origin(st)>>} ELSE g.snaps

Delayed(g, h, e) ==
  /\ e < g.last /\ h.last = g.last /\ h.tokens = g.tokens /\ h.snaps = g.snaps
  /\ \/ h.reorder = g.reorder \cup {e} /\ h.rebuilds = g.rebuilds
     \/ /\ h.reorder = {}
        /\ h.rebuilds = g.rebuilds \cup {TokenOf[f] : f \in g.reorder \cup {e}}

LEMMA Pushes ==
  ASSUME NEW g, Live(g), NEW e \in Events
  PROVE  LET h == push_event(g, e)
         IN h \in Engine /\ (Took(g, h, e) \/ Delayed(g, h, e))
<1> DEFINE h == push_event(g, e)
           a == apply_in_order(g, e)
           w == Waiting(g, e)
<1>1. g \in Engine /\ Sane(g) /\ e \in Nat /\ g.last \in Nat /\ g.reorder \subseteq Nat
  BY DEF Live, Sane, Engine
<1>2. h = IF e >= g.last THEN flush_reorder(a)
          ELSE IF Cardinality(w.reorder) > ReorderCap THEN flush_reorder(w) ELSE w
  BY DEF push_event, Waiting
<1>3. Advanced(g, a, e)
  BY <1>1, Applies
<1>4. \A f \in g.reorder : f < g.last
  BY DEF Live
<1> HIDE DEF a, h
<1>5. CASE e >= g.last
  <2>1. a \in Engine /\ a.reorder = g.reorder /\ a.last = e
    BY <1>3 DEF Advanced
  <2>2. \A f \in a.reorder : f < a.last
    BY <1>1, <1>4, <1>5, <2>1
  <2>3. h = Flushed(a)
    BY <1>2, <1>5, <2>1, <2>2, Flushes
  <2>4. Took(g, h, e)
    BY <1>3, <1>5, <2>1, <2>3, FlushedIs DEF Advanced, Took
  <2> QED
    BY <2>1, <2>3, <2>4, FlushedIs DEF h
<1>6. CASE ~(e >= g.last)
  <2>1. e < g.last
    BY <1>1, <1>6
  <2>2. /\ w \in Engine /\ w.tokens = g.tokens /\ w.reorder = g.reorder \cup {e}
        /\ w.last = g.last /\ w.rebuilds = g.rebuilds /\ w.snaps = g.snaps
    BY <1>1, WaitingIs
  <2> HIDE DEF w
  <2>3. \A f \in w.reorder : f < w.last
    BY <1>4, <2>1, <2>2
  <2>4. CASE h = flush_reorder(w)
    <3>1. h = Flushed(w)
      BY <2>2, <2>3, <2>4, Flushes
    <3>2. /\ h \in Engine /\ h.tokens = w.tokens /\ h.reorder = {} /\ h.last = w.last
          /\ h.rebuilds = w.rebuilds \cup {TokenOf[f] : f \in w.reorder}
          /\ h.snaps = w.snaps
      BY <2>2, <3>1, FlushedIs
    <3> QED
      BY <2>1, <2>2, <3>2 DEF Delayed, h
  <2>5. CASE h = w
    BY <2>1, <2>2, <2>5 DEF Delayed, h
  <2> QED
    BY <1>2, <1>6, <2>4, <2>5
<1> QED
  BY <1>5, <1>6

LEMMA AppendedIs ==
  ASSUME NEW s \in Seq(Events), NEW e \in Events
  PROVE  /\ Append(s, e) \in Seq(Events) /\ Append(s, e) # <<>>
         /\ Len(Append(s, e)) = Len(s) + 1
         /\ DOMAIN Append(s, e) = 1 .. Len(s) + 1
         /\ Append(s, e)[Len(s) + 1] = e
         /\ \A i \in 1 .. Len(s) : Append(s, e)[i] = s[i]
         /\ ToSet(Append(s, e)) = ToSet(s) \cup {e}
<1>1. /\ Append(s, e) \in Seq(Events) /\ Len(Append(s, e)) = Len(s) + 1
      /\ Append(s, e)[Len(s) + 1] = e
      /\ \A i \in 1 .. Len(s) : Append(s, e)[i] = s[i]
  OBVIOUS
<1>2. Len(s) \in Nat /\ DOMAIN s = 1 .. Len(s)
  OBVIOUS
<1>3. DOMAIN Append(s, e) = 1 .. Len(s) + 1
  BY <1>1, <1>2
<1>4. Append(s, e) # <<>>
  BY <1>1, <1>2
<1> DEFINE r == Append(s, e)
           n == Len(s)
<1>5. /\ n \in Nat /\ DOMAIN s = 1 .. n /\ DOMAIN r = 1 .. n + 1 /\ r[n + 1] = e
      /\ \A i \in 1 .. n : r[i] = s[i]
  BY <1>1, <1>2, <1>3
<1> HIDE DEF r, n
<1>6. ToSet(r) = ToSet(s) \cup {e}
  <2>1. \A i \in 1 .. n + 1 : i \in 1 .. n \/ i = n + 1
    BY <1>5
  <2>2. 1 .. n \subseteq 1 .. n + 1 /\ n + 1 \in 1 .. n + 1
    BY <1>5
  <2> QED
    BY <1>5, <2>1, <2>2 DEF ToSet
<1> QED
  BY <1>1, <1>3, <1>4, <1>6 DEF r, n

LEMMA PushesLive ==
  ASSUME NEW g, Live(g), NEW e \in Events
  PROVE  Live(push_event(g, e))
<1> DEFINE h == push_event(g, e)
           t == TokenOf[e]
           old == g.tokens[t].applied
<1>1. h \in Engine /\ (Took(g, h, e) \/ Delayed(g, h, e))
  BY Pushes
<1>2. g \in Engine /\ t \in Tokens /\ old \in Seq(Events) /\ e \in Events /\ TokenOf[e] = t
  BY DEF Live, Sane, Engine, TokenState
<1>3. \A u \in Tokens : Own(g.tokens[u], u) /\ Shape(g.tokens[u])
  BY DEF Live, Sane
<1>4. Own(g.tokens[t], t) /\ \A i \in 1 .. Len(old) : TokenOf[old[i]] = t
  BY <1>2, <1>3 DEF Own
<1> HIDE DEF h, t
<1>5. CASE Took(g, h, e)
  <2>1. /\ h.tokens[t].applied = Append(old, e) /\ h.tokens[t].held
        /\ \A u \in Tokens \ {t} : h.tokens[u] = g.tokens[u]
        /\ h.reorder = {}
    BY <1>5 DEF Took, t
  <2> HIDE DEF old
  <2>2. Append(old, e) # <<>> /\ DOMAIN Append(old, e) = 1 .. Len(old) + 1
    BY <1>2, AppendedIs
  <2>3. Shape(h.tokens[t])
    BY <2>1, <2>2 DEF Shape
  <2>4. Own(h.tokens[t], t)
    <3>1. SUFFICES ASSUME NEW i \in 1 .. Len(old) + 1 PROVE TokenOf[Append(old, e)[i]] = t
      BY <2>1, <2>2 DEF Own
    <3>2. Len(old) \in Nat
      BY <1>2
    <3>3. i \in 1 .. Len(old) \/ i = Len(old) + 1
      BY <3>2
    <3> QED
      BY <1>2, <1>4, <3>3, AppendedIs
  <2>5. \A u \in Tokens : Own(h.tokens[u], u) /\ Shape(h.tokens[u])
    <3> SUFFICES ASSUME NEW u \in Tokens PROVE Own(h.tokens[u], u) /\ Shape(h.tokens[u])
      OBVIOUS
    <3>1. CASE u = t
      BY <2>3, <2>4, <3>1
    <3>2. CASE u # t
      BY <1>3, <2>1, <3>2
    <3> QED
      BY <3>1, <3>2
  <2>6. \A f \in h.reorder : f < h.last
    BY <2>1
  <2> QED
    BY <1>1, <2>5, <2>6 DEF Live, Sane, h
<1>6. CASE Delayed(g, h, e)
  <2>1. h.tokens = g.tokens
    BY <1>6 DEF Delayed
  <2>2. \A u \in Tokens : Own(h.tokens[u], u) /\ Shape(h.tokens[u])
    BY <1>3, <2>1
  <2>3. \A f \in h.reorder : f < h.last
    BY <1>6 DEF Live, Delayed
  <2> QED
    BY <1>1, <2>2, <2>3 DEF Live, Sane, h
<1> QED
  BY <1>1, <1>5, <1>6 DEF h

-----------------------------------------------------------------------------
(* A token built again from its stored events.                             *)

(* The fold of the pushes over a sequence, one push at a time.             *)
Played(c, s) == FoldLeft(push_event, c, s)
Trace(f, c, n, s) == /\ f[0] = c /\ f[n] = Played(c, s)
                     /\ \A k \in 0 .. n : k < n => f[k + 1] = push_event(f[k], s[k + 1])

LEMMA FoldSteps ==
  ASSUME NEW c, NEW n \in Nat, NEW s, DOMAIN s = 1 .. n
  PROVE  \E f : Trace(f, c, n, s)
<1> DEFINE D == 1 .. n
           Step(it, ss) == IF ss = {} THEN c
                           ELSE push_event(it[ss \ {Max(ss)}], s[Max(ss)])
           Small(k) == {ss \in SUBSET D : Cardinality(ss) <= k}
           Fits(it, S) == it = [ss \in S |-> Step(it, ss)]
           Good == {k \in Nat : \E it : Fits(it, Small(k))}
<1>1. IsFiniteSet(D) /\ Cardinality(D) = n
  BY FS_Interval
<1>2. ASSUME NEW ss \in SUBSET D
      PROVE  /\ IsFiniteSet(ss) /\ Cardinality(ss) \in Nat /\ Cardinality(ss) <= n
             /\ (ss = {} <=> Cardinality(ss) = 0)
  <2>1. IsFiniteSet(ss) /\ Cardinality(ss) <= n
    <3> HIDE DEF D
    <3> QED
      BY <1>1, FS_Subset
  <2>2. Cardinality(ss) \in Nat
    BY <2>1, FS_CardinalityType
  <2>3. ss = {} <=> Cardinality(ss) = 0
    BY <2>1, FS_EmptySet
  <2> QED
    BY <2>1, <2>2, <2>3
<1>3. ASSUME NEW ss \in SUBSET D, ss # {}
      PROVE  /\ Max(ss) \in ss /\ \A x \in ss : x <= Max(ss)
             /\ Cardinality(ss \ {Max(ss)}) = Cardinality(ss) - 1
  <2>1. ss \in SUBSET Nat
    OBVIOUS
  <2>2. \E x \in ss : \A y \in ss : y <= x
    BY <1>2, <1>3, <2>1, Largest
  <2>3. \E x \in ss : \A y \in ss : x >= y
    BY <2>1, <2>2
  <2>4. Max(ss) \in ss /\ \A y \in ss : Max(ss) >= y
    BY <2>3 DEF Max
  <2>5. \A x \in ss : x <= Max(ss)
    BY <2>1, <2>4
  <2>6. Cardinality(ss \ {Max(ss)}) = Cardinality(ss) - 1
    BY <1>2, <2>4, FS_RemoveElement
  <2> QED
    BY <2>4, <2>5, <2>6
<1>4. 0 \in Good
  <2>1. \A ss \in Small(0) : ss = {}
    BY <1>2
  <2>2. Fits([ss \in Small(0) |-> c], Small(0))
    BY <2>1
  <2> QED
    BY <2>2
<1>5. ASSUME NEW k \in 0 .. n, k < n, k \in Good
      PROVE  k + 1 \in Good
  <2>1. PICK it : Fits(it, Small(k))
    BY <1>5
  <2> DEFINE ext == [ss \in Small(k + 1) |-> Step(it, ss)]
  <2>2. ASSUME NEW ss \in Small(k + 1)
        PROVE  Step(it, ss) = Step(ext, ss)
    <3>1. CASE ss = {}
      BY <3>1
    <3>2. CASE ss # {}
      <4> DEFINE rest == ss \ {Max(ss)}
      <4>1. ss \in SUBSET D /\ Cardinality(ss) <= k + 1 /\ Cardinality(ss) \in Nat
        BY <1>2
      <4>2. Cardinality(rest) = Cardinality(ss) - 1
        BY <1>3, <3>2, <4>1
      <4>3. rest \in SUBSET D /\ Cardinality(rest) <= k
        <5>1. rest \in SUBSET D
          BY <4>1
        <5> HIDE DEF rest
        <5> QED
          BY <4>1, <4>2, <5>1
      <4>4. rest \in Small(k) /\ rest \in Small(k + 1)
        <5> HIDE DEF rest
        <5>1. Cardinality(rest) \in Nat
          BY <4>3, <1>2
        <5> QED
          BY <4>3, <5>1
      <4> HIDE DEF rest, Small
      <4>5. it[rest] = Step(it, rest) /\ ext[rest] = Step(it, rest)
        BY <2>1, <4>4
      <4>6. it[rest] = ext[rest]
        BY <4>5
      <4> QED
        BY <3>2, <4>6 DEF rest
    <3> QED
      BY <3>1, <3>2
  <2>3. Fits(ext, Small(k + 1))
    <3> HIDE DEF Small, Step
    <3> QED
      BY <2>2
  <2>4. \E x : Fits(x, Small(k + 1))
    <3> HIDE DEF ext, Fits
    <3> QED
      BY <2>3
  <2> HIDE DEF Fits, Small
  <2> QED
    BY <2>4
<1>6. \A k \in 0 .. n : k < n /\ k \in Good => k + 1 \in Good
  BY <1>5
<1>7. n \in Good
  <2> HIDE DEF Good
  <2>1. \A k \in 0 .. n : k \in Good
    BY <1>4, <1>6, Upward
  <2> QED
    BY <2>1
<1>8. Small(n) = SUBSET D
  BY <1>2
<1>9. \E it : Fits(it, SUBSET D)
  <2> HIDE DEF Fits, Small
  <2> QED
    BY <1>7, <1>8
<1> DEFINE it == CHOOSE x : Fits(x, SUBSET D)
<1>10. Fits(it, SUBSET D)
  <2> HIDE DEF Fits
  <2> QED
    BY <1>9
<1>11. Played(c, s) = it[D]
  BY DEF Played, FoldLeft, MapThenFoldSet
<1> HIDE DEF it
<1>12. it[{}] = c
  BY <1>10
<1>13. ASSUME NEW k \in 0 .. n, k < n
       PROVE  it[1 .. k + 1] = push_event(it[1 .. k], s[k + 1])
  <2> DEFINE ss == 1 .. k + 1
  <2>1. ss \in SUBSET D /\ ss # {} /\ k + 1 \in ss /\ ss \ {k + 1} = 1 .. k
    <3>1. k + 1 \in ss /\ k \in Nat
      BY <1>13
    <3>2. ASSUME NEW i \in ss PROVE i \in D
      BY <1>13
    <3>3. \A i : i \in ss \ {k + 1} <=> i \in 1 .. k
      BY <3>1
    <3> HIDE DEF ss
    <3> QED
      BY <3>1, <3>2, <3>3
  <2>2. Max(ss) = k + 1
    <3>1. Max(ss) \in ss /\ \A x \in ss : x <= Max(ss)
      BY <1>3, <2>1
    <3> QED
      BY <2>1, <3>1
  <2>3. it[ss] = push_event(it[ss \ {Max(ss)}], s[Max(ss)])
    <3> HIDE DEF ss
    <3> QED
      BY <1>10, <2>1
  <2> QED
    BY <2>1, <2>2, <2>3
<1> DEFINE f == [k \in 0 .. n |-> it[1 .. k]]
<1>14. 1 .. 0 = {} /\ 0 \in 0 .. n /\ n \in 0 .. n
  OBVIOUS
<1>15. f[0] = c /\ f[n] = Played(c, s)
  BY <1>11, <1>12, <1>14
<1>16. ASSUME NEW k \in 0 .. n, k < n
       PROVE  f[k + 1] = push_event(f[k], s[k + 1])
  <2>1. k + 1 \in 0 .. n
    BY <1>16
  <2>2. f[k + 1] = it[1 .. k + 1] /\ f[k] = it[1 .. k]
    BY <2>1
  <2> QED
    BY <1>13, <1>16, <2>2
<1> HIDE DEF f
<1> QED
  BY <1>15, <1>16 DEF Trace

(* Everything is in the sequence.                                          *)
LEMMA AllInOrder ==
  ASSUME NEW S \in SUBSET Events, IsFiniteSet(S)
  PROVE  ToSet(InOrder(S)) = S /\ IsInjective(InOrder(S))
<1> DEFINE n == Cardinality(S)
           s == InOrder(S)
<1>1. n \in Nat
  BY FS_CardinalityType
<1>2. s \in [1 .. n -> S] /\ Sorted(s)
  BY InOrderSorts
<1> HIDE DEF s
<1>3. IsFiniteSet(1 .. n) /\ Cardinality(1 .. n) = n
  <2> HIDE DEF n
  <2> QED
    BY <1>1, FS_Interval
<1>4. S \subseteq Nat
  OBVIOUS
<1> HIDE DEF n
<1>5. \A i, j \in 1 .. n : s[i] = s[j] => i = j
  <2> SUFFICES ASSUME NEW i \in 1 .. n, NEW j \in 1 .. n, i # j PROVE s[i] # s[j]
    OBVIOUS
  <2>1. s[i] \in Nat /\ s[j] \in Nat /\ DOMAIN s = 1 .. n
    BY <1>2, <1>4
  <2>2. CASE i < j
    BY <1>2, <2>1, <2>2 DEF Sorted
  <2>3. CASE j < i
    BY <1>2, <2>1, <2>3 DEF Sorted
  <2> QED
    BY <2>2, <2>3
<1>6. IsInjective(s)
  BY <1>2, <1>5 DEF IsInjective
<1>7. s \in Injection(1 .. n, S)
  BY <1>2, <1>6 DEF Injection
<1>8. s \in Surjection(1 .. n, S)
  <2>1. Cardinality(1 .. n) = Cardinality(S)
    BY <1>3 DEF n
  <2> QED
    BY <1>7, <2>1, FS_Injection
<1>9. ToSet(s) = S
  BY <1>2, <1>8 DEF Surjection, ToSet
<1> QED
  BY <1>6, <1>9 DEF s

Replayed(c, h, t, s, k) ==
  /\ Live(h) /\ h.reorder = {} /\ h.rebuilds = c.rebuilds
  /\ h.last = IF k = 0 THEN 0 ELSE s[k]
  /\ \A u \in Tokens \ {t} : h.tokens[u] = c.tokens[u]
  /\ Len(h.tokens[t].applied) = k
  /\ \A i \in 1 .. k : h.tokens[t].applied[i] = s[i]
  /\ h.snaps = c.snaps \cup IF h.tokens[t].emitted THEN {<<t, s[1]>>} ELSE {}
  /\ k = 0 => ~h.tokens[t].emitted

LEMMA ReplaysNext ==
  ASSUME NEW c, NEW h, NEW t \in Tokens, NEW n \in Nat, NEW s \in [1 .. n -> Of(t)],
         Sorted(s), NEW k \in 0 .. n, k < n, Replayed(c, h, t, s, k)
  PROVE  Replayed(c, push_event(h, s[k + 1]), t, s, k + 1)
<1> DEFINE e == s[k + 1]
           p == push_event(h, e)
           st == h.tokens[t]
<1>1. k \in Nat /\ k + 1 \in 1 .. n /\ DOMAIN s = 1 .. n
  OBVIOUS
<1>2. e \in Events /\ e \in Nat /\ TokenOf[e] = t
  BY <1>1 DEF Of
<1>3. Live(h) /\ Live(p) /\ st.applied \in Seq(Events)
  BY <1>2, PushesLive DEF Replayed, Live, Sane, Engine, TokenState
<1>4. e >= h.last
  <2>1. CASE k = 0
    BY <1>2, <2>1 DEF Replayed
  <2>2. CASE k # 0
    <3>1. k \in 1 .. n /\ k < k + 1
      BY <1>1, <2>2
    <3>2. s[k] < e /\ s[k] \in Nat /\ h.last = s[k]
      BY <1>1, <2>2, <3>1 DEF Sorted, Replayed, Of
    <3> HIDE DEF e
    <3> QED
      BY <1>2, <3>2
  <2> QED
    BY <2>1, <2>2
<1>5. Took(h, p, e)
  <2>1. h.last \in Nat
    BY <1>3 DEF Live, Sane, Engine
  <2>2. ~(e < h.last)
    BY <1>2, <1>4, <2>1
  <2>3. Took(h, p, e) \/ Delayed(h, p, e)
    BY <1>2, <1>3, Pushes
  <2> QED
    BY <2>2, <2>3 DEF Delayed
<1> HIDE DEF p, e
<1> DEFINE due == MilestoneDue(st, TimeOf[e])
<1>6. /\ p.last = e /\ p.reorder = {}
      /\ p.rebuilds = h.rebuilds \cup {TokenOf[f] : f \in h.reorder}
      /\ \A u \in Tokens \ {t} : p.tokens[u] = h.tokens[u]
      /\ p.tokens[t].held /\ p.tokens[t].applied = Append(st.applied, e)
      /\ (p.tokens[t].emitted <=> st.emitted \/ due)
      /\ p.snaps = IF due THEN h.snaps \cup {<<t, Origin(st)>>} ELSE h.snaps
  BY <1>2, <1>5 DEF Took
<1> HIDE DEF due
<1>7. p.rebuilds = c.rebuilds /\ p.last = s[k + 1]
  BY <1>6 DEF Replayed, e
<1>8. \A u \in Tokens \ {t} : p.tokens[u] = c.tokens[u]
  BY <1>6 DEF Replayed
<1>9. /\ Len(p.tokens[t].applied) = k + 1
      /\ \A i \in 1 .. k + 1 : p.tokens[t].applied[i] = s[i]
  <2>1. Len(st.applied) = k /\ \A i \in 1 .. k : st.applied[i] = s[i]
    BY DEF Replayed
  <2>2. \A i \in 1 .. k + 1 : i \in 1 .. k \/ i = k + 1
    BY <1>1
  <2>3. e = s[k + 1]
    BY DEF e
  <2> DEFINE a == st.applied
  <2> HIDE DEF a
  <2>4. a \in Seq(Events) /\ p.tokens[t].applied = Append(a, e)
    BY <1>3, <1>6 DEF a
  <2>5. Len(a) = k /\ \A i \in 1 .. k : a[i] = s[i]
    BY <2>1 DEF a
  <2>6. /\ Len(Append(a, e)) = k + 1 /\ Append(a, e)[k + 1] = e
        /\ \A i \in 1 .. k : Append(a, e)[i] = a[i]
    BY <1>2, <2>4, <2>5, AppendedIs
  <2> HIDE DEF st
  <2> QED
    BY <2>2, <2>3, <2>4, <2>5, <2>6
<1>10. due => ~st.emitted /\ Origin(st) = s[1]
  <2> SUFFICES ASSUME due PROVE ~st.emitted /\ Origin(st) = s[1]
    OBVIOUS
  <2>1. st.held /\ ~st.emitted
    BY DEF due, MilestoneDue
  <2>2. st.applied # <<>>
    BY <1>3, <2>1 DEF Live, Sane, Shape
  <2>3. Len(st.applied) # 0
    <3> HIDE DEF st
    <3> QED
      BY <1>3, <2>2
  <2>4. 1 \in 1 .. k /\ Len(st.applied) = k /\ \A i \in 1 .. k : st.applied[i] = s[i]
    BY <1>1, <2>3 DEF Replayed
  <2> QED
    BY <1>3, <2>1, <2>4 DEF Origin
<1>11. p.snaps = c.snaps \cup IF p.tokens[t].emitted THEN {<<t, s[1]>>} ELSE {}
  <2>1. h.snaps = c.snaps \cup IF st.emitted THEN {<<t, s[1]>>} ELSE {}
    BY DEF Replayed
  <2>2. CASE due
    BY <1>6, <1>10, <2>1, <2>2, Zenon
  <2>3. CASE ~due
    BY <1>6, <2>1, <2>3, Zenon
  <2> QED
    BY <2>2, <2>3
<1>12. k + 1 # 0
  BY <1>1
<1> QED
  BY <1>3, <1>6, <1>7, <1>8, <1>9, <1>11, <1>12 DEF Replayed, p, e

Cleared(g, t) == [g EXCEPT !.tokens[t] = Evicted, !.reorder = {}, !.last = 0]

LEMMA ClearedIs ==
  ASSUME NEW g, Live(g), NEW t \in Tokens
  PROVE  LET c == Cleared(g, t)
         IN /\ Live(c) /\ c.tokens[t] = Evicted /\ c.reorder = {} /\ c.last = 0
            /\ \A u \in Tokens \ {t} : c.tokens[u] = g.tokens[u]
            /\ c.rebuilds = g.rebuilds /\ c.snaps = g.snaps
<1> DEFINE c == Cleared(g, t)
<1>1. g \in Engine /\ \A u \in Tokens : Own(g.tokens[u], u) /\ Shape(g.tokens[u])
  BY DEF Live, Sane
<1>2. /\ Evicted \in TokenState /\ Evicted.applied = <<>> /\ Shape(Evicted)
      /\ Own(Evicted, t)
  BY DEF Evicted, TokenState, Shape, Own
<1>3. /\ c \in Engine /\ c.tokens[t] = Evicted /\ c.reorder = {} /\ c.last = 0
      /\ \A u \in Tokens \ {t} : c.tokens[u] = g.tokens[u]
      /\ c.rebuilds = g.rebuilds /\ c.snaps = g.snaps
  BY <1>1, <1>2 DEF Cleared, Engine
<1> HIDE DEF c
<1>4. \A u \in Tokens : Own(c.tokens[u], u) /\ Shape(c.tokens[u])
  BY <1>1, <1>2, <1>3
<1>5. Live(c)
  BY <1>3, <1>4 DEF Live, Sane
<1> QED
  BY <1>3, <1>5 DEF c

(* A rebuild leaves every other token alone, gives this one exactly its    *)
(* stored events and, if there are any, takes every snapshot that waits.   *)
Rebuilt(g, h, snaps, t, S) ==
  /\ Live(h) /\ h.reorder = {} /\ h.rebuilds = g.rebuilds
  /\ \A u \in Tokens \ {t} : h.tokens[u] = g.tokens[u]
  /\ ToSet(h.tokens[t].applied) = S /\ IsInjective(h.tokens[t].applied)
  /\ S = {} => h.tokens[t] = Evicted /\ h.snaps = g.snaps /\ snaps = {}
  /\ S # {} => /\ h.snaps = {}
               /\ snaps = g.snaps \cup IF h.tokens[t].emitted
                                       THEN {<<t, Origin(h.tokens[t])>>} ELSE {}

Emptied(g) == [g EXCEPT !.snaps = {}]

LEMMA EmptiedIs ==
  ASSUME NEW g, Live(g)
  PROVE  /\ Live(Emptied(g)) /\ Emptied(g).tokens = g.tokens
         /\ Emptied(g).reorder = g.reorder /\ Emptied(g).rebuilds = g.rebuilds
         /\ Emptied(g).snaps = {}
<1>1. g \in Engine
  BY DEF Live, Sane
<1>2. /\ Emptied(g) \in Engine /\ Emptied(g).tokens = g.tokens
      /\ Emptied(g).reorder = g.reorder /\ Emptied(g).rebuilds = g.rebuilds
      /\ Emptied(g).snaps = {} /\ Emptied(g).last = g.last
  BY <1>1 DEF Emptied, Engine
<1>3. Live(Emptied(g))
  BY <1>2 DEF Live, Sane
<1> QED
  BY <1>2, <1>3

LEMMA Rebuilds ==
  ASSUME NEW g, Live(g), NEW t \in Tokens, NEW S \in SUBSET Of(t), IsFiniteSet(S)
  PROVE  LET r == rebuild_token(g, t, S) IN Rebuilt(g, r.engine, r.snaps, t, S)
<1> DEFINE c == Cleared(g, t)
           s == InOrder(S)
           b == Played(c, s)
           r == rebuild_token(g, t, S)
           n == Cardinality(S)
<1>1. r = IF S = {} THEN [engine |-> c, snaps |-> {}]
          ELSE [engine |-> Emptied(b), snaps |-> b.snaps]
  BY DEF rebuild_token, Cleared, Emptied, Played
<1>2. /\ Live(c) /\ c.tokens[t] = Evicted /\ c.reorder = {} /\ c.last = 0
      /\ \A u \in Tokens \ {t} : c.tokens[u] = g.tokens[u]
      /\ c.rebuilds = g.rebuilds /\ c.snaps = g.snaps
  BY ClearedIs
<1>3. Evicted.applied = <<>> /\ ~Evicted.emitted
  BY DEF Evicted
<1>4. S \in SUBSET Events /\ n \in Nat
  BY FS_CardinalityType DEF Of
<1>5. s \in [1 .. n -> S] /\ Sorted(s) /\ ToSet(s) = S /\ IsInjective(s)
  BY <1>4, InOrderSorts, AllInOrder
<1> HIDE DEF c, s, b, r, n
<1>6. CASE S = {}
  <2>1. r.engine = c /\ r.snaps = {}
    BY <1>1, <1>6
  <2>2. ToSet(<<>>) = {} /\ IsInjective(<<>>)
    BY DEF ToSet, IsInjective
  <2> QED
    BY <1>2, <1>3, <1>6, <2>1, <2>2 DEF Rebuilt, r
<1>7. CASE S # {}
  <2>0. PICK f : Trace(f, c, n, s)
    <3>1. DOMAIN s = 1 .. n
      BY <1>5
    <3>2. n \in Nat
      BY <1>4
    <3> QED
      BY <3>1, <3>2, FoldSteps
  <2>1. /\ f[0] = c /\ f[n] = Played(c, s)
        /\ \A k \in 0 .. n : k < n => f[k + 1] = push_event(f[k], s[k + 1])
    BY <2>0 DEF Trace
  <2> DEFINE Good == {k \in 0 .. n : Replayed(c, f[k], t, s, k)}
  <2>2. 0 \in Good
    <3>1. /\ Len(c.tokens[t].applied) = 0 /\ ~c.tokens[t].emitted
          /\ \A i \in 1 .. 0 : c.tokens[t].applied[i] = s[i]
      BY <1>2, <1>3
    <3>2. Replayed(c, c, t, s, 0)
      BY <1>2, <3>1 DEF Replayed
    <3> QED
      BY <1>4, <2>1, <3>2
  <2>3. ASSUME NEW k \in 0 .. n, k < n, k \in Good
        PROVE  k + 1 \in Good
    <3>1. s \in [1 .. n -> Of(t)]
      BY <1>5
    <3>2. Replayed(c, f[k], t, s, k)
      BY <2>3
    <3>3. Replayed(c, push_event(f[k], s[k + 1]), t, s, k + 1)
      BY <1>4, <1>5, <2>3, <3>1, <3>2, ReplaysNext
    <3>4. k + 1 \in 0 .. n
      BY <1>4, <2>3
    <3>5. f[k + 1] = push_event(f[k], s[k + 1])
      BY <2>1, <2>3
    <3> QED
      BY <3>3, <3>4, <3>5
  <2>4. \A k \in 0 .. n : k < n /\ k \in Good => k + 1 \in Good
    BY <2>3
  <2>5. n \in Good
    <3> HIDE DEF Good
    <3>1. \A k \in 0 .. n : k \in Good
      BY <1>4, <2>2, <2>4, Upward
    <3> QED
      BY <1>4, <3>1
  <2>6. Replayed(c, b, t, s, n)
    BY <2>1, <2>5 DEF b
  <2> HIDE DEF Good
  <2>7. n # 0
    BY <1>7, FS_EmptySet DEF n
  <2> DEFINE a == b.tokens[t].applied
  <2>8. a = s
    <3>1. a \in Seq(Events) /\ Len(a) = n /\ \A i \in 1 .. n : a[i] = s[i]
      BY <2>6 DEF Replayed, Live, Sane, Engine, TokenState
    <3> HIDE DEF a
    <3> QED
      BY <1>5, <3>1
  <2> HIDE DEF a
  <2>9. Origin(b.tokens[t]) = s[1]
    <3>1. s # <<>> /\ s \in Seq(S)
      BY <1>4, <1>5, <2>7
    <3> QED
      BY <2>8, <3>1 DEF Origin, a
  <2>10. r.engine = Emptied(b) /\ r.snaps = b.snaps
    BY <1>1, <1>7
  <2>11. /\ Live(r.engine) /\ r.engine.tokens = b.tokens /\ r.engine.reorder = {}
         /\ r.engine.rebuilds = g.rebuilds /\ r.engine.snaps = {}
    BY <1>2, <2>6, <2>10, EmptiedIs DEF Replayed
  <2>12. \A u \in Tokens \ {t} : r.engine.tokens[u] = g.tokens[u]
    BY <1>2, <2>6, <2>11 DEF Replayed
  <2>13. /\ ToSet(r.engine.tokens[t].applied) = S
         /\ IsInjective(r.engine.tokens[t].applied)
    BY <1>5, <2>8, <2>11 DEF a
  <2>14. r.snaps = g.snaps \cup IF r.engine.tokens[t].emitted
                                THEN {<<t, Origin(r.engine.tokens[t])>>} ELSE {}
    BY <1>2, <2>6, <2>9, <2>10, <2>11 DEF Replayed
  <2> QED
    BY <1>7, <2>11, <2>12, <2>13, <2>14 DEF Rebuilt, r
<1> QED
  BY <1>6, <1>7

(* The tick only marks milestones and lets cold tokens go.                 *)
Ticked(st, k, time) ==
  \/ st.held /\ Age(st, time) >= ColdAge /\ k = Evicted
  \/ /\ k.held = st.held /\ k.applied = st.applied
     /\ k.emitted <=> st.emitted \/ MilestoneDue(st, time)

LEMMA Cools ==
  ASSUME NEW st \in TokenState, NEW t \in Tokens, Shape(st), Own(st, t),
         NEW time \in Nat
  PROVE  LET k == Cooled(st, time)
         IN k \in TokenState /\ Shape(k) /\ Own(k, t) /\ Ticked(st, k, time)
<1> DEFINE k   == Cooled(st, time)
           due == MilestoneDue(st, time)
           to  == [st EXCEPT !.emitted = @ \/ due]
<1>1. /\ Evicted \in TokenState /\ Shape(Evicted) /\ Own(Evicted, t)
  BY DEF Evicted, TokenState, Shape, Own
<1>2. due \in BOOLEAN
  BY DEF MilestoneDue, TokenState
<1>3. k = IF ~st.held THEN st ELSE IF Age(st, time) >= ColdAge THEN Evicted ELSE to
  BY DEF Cooled
<1> HIDE DEF k, due
<1>4. to \in TokenState /\ to.held = st.held /\ to.applied = st.applied
  BY <1>2 DEF TokenState
<1>5. to.emitted = (st.emitted \/ due)
  BY <1>2 DEF TokenState
<1> HIDE DEF to
<1>6. Shape(to) /\ Own(to, t)
  BY <1>4 DEF Shape, Own
<1>7. CASE ~st.held
  <2>1. ~due
    BY <1>7 DEF due, MilestoneDue
  <2>2. k = st
    BY <1>3, <1>7
  <2>3. Ticked(st, k, time)
    BY <2>1, <2>2 DEF Ticked, due
  <2> QED
    BY <2>2, <2>3 DEF k
<1>8. CASE st.held /\ Age(st, time) >= ColdAge
  <2>1. k = Evicted
    BY <1>3, <1>8
  <2>2. Ticked(st, k, time)
    BY <1>8, <2>1 DEF Ticked
  <2> QED
    BY <1>1, <2>1, <2>2 DEF k
<1>9. CASE st.held /\ ~(Age(st, time) >= ColdAge)
  <2>1. k = to
    BY <1>3, <1>9
  <2>2. k.emitted <=> st.emitted \/ due
    BY <1>5, <2>1
  <2>3. Ticked(st, k, time)
    BY <1>4, <2>1, <2>2 DEF Ticked, due
  <2> QED
    BY <1>4, <1>6, <2>1, <2>3 DEF k
<1> QED
  BY <1>7, <1>8, <1>9

LEMMA Ticks ==
  ASSUME NEW g, Live(g), NEW time \in Nat
  PROVE  LET r == tick_live(g, time)
             h == r.engine
         IN /\ Live(h) /\ h.reorder = g.reorder /\ h.rebuilds = g.rebuilds
            /\ h.snaps = {}
            /\ \A t \in Tokens : Ticked(g.tokens[t], h.tokens[t], time)
            /\ r.snaps = g.snaps \cup DueNow(g, time)
            /\ DueNow(g, time) \subseteq Snapshots
<1> DEFINE r == tick_live(g, time)
           h == r.engine
           cooled == [t \in Tokens |-> Cooled(g.tokens[t], time)]
<1>1. g \in Engine /\ \A t \in Tokens : Own(g.tokens[t], t) /\ Shape(g.tokens[t])
  BY DEF Live, Sane
<1>2. \A t \in Tokens : g.tokens[t] \in TokenState
  BY <1>1 DEF Engine
<1>3. \A t \in Tokens :
        LET k == Cooled(g.tokens[t], time)
        IN /\ k \in TokenState /\ Shape(k) /\ Own(k, t)
           /\ Ticked(g.tokens[t], k, time)
  BY <1>1, <1>2, Cools
<1>4. /\ h = [g EXCEPT !.tokens = cooled, !.snaps = {}]
      /\ r.snaps = g.snaps \cup DueNow(g, time)
  BY DEF tick_live
<1>5. cooled \in [Tokens -> TokenState]
  BY <1>3
<1>6. \A t \in Tokens : /\ Shape(cooled[t]) /\ Own(cooled[t], t)
                        /\ Ticked(g.tokens[t], cooled[t], time)
  BY <1>3
<1> HIDE DEF cooled, r
<1>7. /\ h \in Engine /\ h.tokens = cooled /\ h.reorder = g.reorder
      /\ h.rebuilds = g.rebuilds /\ h.snaps = {} /\ h.last = g.last
  BY <1>1, <1>4, <1>5 DEF Engine
<1> HIDE DEF h
<1>8. Live(h)
  <2>1. \A t \in Tokens : Own(h.tokens[t], t) /\ Shape(h.tokens[t])
    BY <1>6, <1>7
  <2>2. \A e \in h.reorder : e < h.last
    BY <1>7 DEF Live
  <2> QED
    BY <1>7, <2>1, <2>2 DEF Live, Sane
<1>9. DueNow(g, time) \subseteq Snapshots
  <2> SUFFICES ASSUME NEW t \in Tokens, MilestoneDue(g.tokens[t], time)
               PROVE  <<t, Origin(g.tokens[t])>> \in Snapshots
    BY DEF DueNow
  <2> DEFINE st == g.tokens[t]
  <2>1. st \in TokenState /\ st.held /\ Shape(st)
    BY <1>1, <1>2 DEF MilestoneDue
  <2> HIDE DEF st
  <2>2. st.applied \in Seq(Events) /\ st.applied # <<>>
    BY <2>1 DEF TokenState, Shape
  <2>3. Head(st.applied) \in Events
    BY <2>2
  <2> QED
    BY <2>3 DEF Snapshots, Origin, st
<1> QED
  BY <1>4, <1>6, <1>7, <1>8, <1>9 DEF h, r

-----------------------------------------------------------------------------
(* Types, and what each place in the pipeline task says about the rest.    *)

Working == pc \in {"apply", "load", "build", "insert", "store"}

Base ==
  /\ raw \in [Raws -> RawStatuses]
  /\ observed_at \in [Discoveries -> 0 .. MaxTime]
  /\ canon \in SUBSET Events /\ IsFiniteSet(canon) /\ rows \subseteq Tokens
  /\ pc \in Labels /\ job \in Job
  /\ hand \subseteq Snapshots
  /\ stored \subseteq Snapshots /\ (stored = {} \/ \E s : stored = {s})
  /\ researched \subseteq Snapshots /\ diverted \subseteq Snapshots
  /\ twice \subseteq Tokens /\ excused \subseteq Tokens
  /\ removed \subseteq Raws
  /\ now \in 0 .. MaxTime

Counted == faults \in 0 .. MaxFaults /\ healthy \in BOOLEAN

Placed ==
  /\ Working => job.log \in Raws /\ job.rest # <<>> /\ raw[job.log] # "NONE"
  /\ pc = "orphan" => job.log \in Raws /\ raw[job.log] = "PENDING"
  /\ pc = "build" => job.key \in Tokens /\ job.loaded = canon \cap Of(job.key)
                     /\ job.key \in excused
  /\ pc \in {"load", "build", "insert"} => engine.reorder = {}
  /\ pc \in {"down", "hydrate"} => /\ hand = {} /\ stored = {}
                                   /\ engine.snaps = {} /\ engine.reorder = {}
  /\ pc \notin {"load", "build", "insert", "hydrate"} => job.keys = {}

Structure == Base /\ Counted /\ Live(engine) /\ engine.rebuilds = {} /\ Placed

LEMMA EngineIs ==
  ASSUME NEW g, Live(g)
  PROVE  /\ g \in Engine /\ g.snaps \subseteq Snapshots /\ g.rebuilds \subseteq Tokens
         /\ g.reorder \subseteq Events
         /\ \A t \in Tokens : /\ g.tokens[t] \in TokenState
                              /\ g.tokens[t].applied \in Seq(Events)
                              /\ Shape(g.tokens[t])
                              /\ Own(g.tokens[t], t)
<1>1. g \in Engine /\ \A t \in Tokens : Shape(g.tokens[t]) /\ Own(g.tokens[t], t)
  BY DEF Live, Sane
<1>2. \A t \in Tokens : g.tokens[t] \in TokenState
  BY <1>1 DEF Engine
<1>3. \A t \in Tokens : g.tokens[t].applied \in Seq(Events)
  BY <1>2 DEF TokenState
<1>4. g.snaps \subseteq Snapshots /\ g.rebuilds \subseteq Tokens /\ g.reorder \subseteq Events
  BY <1>1 DEF Engine
<1> QED
  BY <1>1, <1>2, <1>3, <1>4

LEMMA NewEngineLive == Live(NewEngine) /\ NewEngine.rebuilds = {} /\ NewEngine.snaps = {}
                       /\ NewEngine.reorder = {}
                       /\ \A t \in Tokens : NewEngine.tokens[t] = Evicted
<1>1. /\ Evicted \in TokenState /\ Shape(Evicted)
      /\ \A t \in Tokens : Own(Evicted, t)
  BY DEF Evicted, TokenState, Shape, Own
<1>2. NewEngine \in Engine /\ \A t \in Tokens : NewEngine.tokens[t] = Evicted
  BY <1>1 DEF NewEngine, Engine
<1>3. NewEngine.rebuilds = {} /\ NewEngine.snaps = {} /\ NewEngine.reorder = {}
  BY DEF NewEngine
<1> QED
  BY <1>1, <1>2, <1>3 DEF Live, Sane

LEMMA NoJobIs == /\ NoJob \in Job /\ NoJob.keys = {} /\ NoJob.rest = <<>>
                 /\ NoJob.log = "none"
BY DEF NoJob, Job

LEMMA StructureInit == Init => Structure
<1> SUFFICES ASSUME Init PROVE Structure
  OBVIOUS
<1>1. Base
  BY NoJobIs, FS_EmptySet DEF Init, Base, RawStatuses, Labels
<1>2. Placed
  BY NewEngineLive, NoJobIs DEF Init, Placed, Working
<1>3. Counted
  BY DEF Init, Counted
<1> QED
  BY <1>1, <1>2, <1>3, NewEngineLive DEF Init, Structure

(* Where the pipeline goes next, once it has its keys.                     *)
LEMMA NextKeyIs ==
  ASSUME NEW keys \in SUBSET Tokens, job \in Job, NextKey(keys)
  PROVE  /\ job' \in Job /\ job'.log = job.log /\ job'.rest = job.rest
         /\ job'.keys = keys /\ pc' = IF keys = {} THEN "store" ELSE "load"
BY DEF NextKey, Goto, Job

(* The snapshots and the engine of a rebuild are what they should be.      *)
LEMMA RebuildTyped ==
  ASSUME NEW g, Live(g), NEW h, NEW snaps, NEW t \in Tokens, NEW S \in SUBSET Events,
         Rebuilt(g, h, snaps, t, S)
  PROVE  snaps \subseteq Snapshots /\ (g.snaps = {} => h.snaps = {})
<1>1. Live(h) /\ g.snaps \subseteq Snapshots
  BY EngineIs DEF Rebuilt
<1>2. CASE S = {}
  BY <1>2 DEF Rebuilt
<1>3. CASE S # {}
  <2> DEFINE a == h.tokens[t].applied
  <2>1. a \in Seq(Events) /\ ToSet(a) # {}
    BY <1>1, <1>3, EngineIs DEF Rebuilt
  <2> HIDE DEF a
  <2>2. a # <<>>
    BY <2>1 DEF ToSet
  <2>3. Head(a) \in Events
    BY <2>1, <2>2
  <2>4. <<t, Origin(h.tokens[t])>> \in Snapshots
    BY <2>3 DEF Snapshots, Origin, a
  <2> QED
    BY <1>1, <1>3, <2>4 DEF Rebuilt
<1> QED
  BY <1>2, <1>3

(* What hydration gives back: only the mark of the milestone is new.       *)
HydratedAs(h, t, b) ==
  \E k, snaps :
    /\ Rebuilt(engine, k, snaps, t, canon \cap Of(t))
    /\ h.reorder = k.reorder /\ h.rebuilds = k.rebuilds /\ h.snaps = k.snaps
    /\ \A u \in Tokens \ {t} : h.tokens[u] = k.tokens[u]
    /\ h.tokens[t].held = k.tokens[t].held
    /\ h.tokens[t].applied = k.tokens[t].applied
    /\ h.tokens[t].emitted = b

LEMMA Hydrates ==
  ASSUME Live(engine), IsFiniteSet(canon), canon \in SUBSET Events,
         NEW t \in Tokens, NEW b \in BOOLEAN
  PROVE  LET h == Hydrated(t, b)
         IN /\ Live(h) /\ h.reorder = {} /\ h.rebuilds = engine.rebuilds
            /\ (engine.snaps = {} => h.snaps = {})
            /\ HydratedAs(h, t, b)
<1> DEFINE S == canon \cap Of(t)
           r == rebuild_token(engine, t, S)
           k == r.engine
           snaps == r.snaps
           st == [k.tokens[t] EXCEPT !.emitted = b]
           h == Hydrated(t, b)
<1>1. S \in SUBSET Of(t) /\ IsFiniteSet(S) /\ S \in SUBSET Events
  BY FS_Intersection
<1> HIDE DEF S
<1>2. Rebuilt(engine, k, snaps, t, S)
  BY <1>1, Rebuilds
<1> HIDE DEF snaps
<1>3. h = [k EXCEPT !.tokens[t].emitted = b]
  BY DEF Hydrated, S
<1> HIDE DEF r, k
<1>4. /\ Live(k) /\ k.reorder = {} /\ k.rebuilds = engine.rebuilds
      /\ (engine.snaps = {} => k.snaps = {})
  BY <1>1, <1>2, RebuildTyped DEF Rebuilt
<1>5. /\ k \in Engine /\ k.tokens[t] \in TokenState
      /\ \A u \in Tokens : Shape(k.tokens[u]) /\ Own(k.tokens[u], u)
  BY <1>4, EngineIs
<1>6. /\ st \in TokenState /\ st.held = k.tokens[t].held
      /\ st.applied = k.tokens[t].applied /\ st.emitted = b
  BY <1>5 DEF TokenState
<1>7. Shape(st) /\ Own(st, t)
  BY <1>5, <1>6 DEF Shape, Own
<1>8. h = Put(k, t, st)
  BY <1>3, <1>5 DEF Put, Engine
<1> HIDE DEF st, h
<1>9. /\ h \in Engine /\ h.tokens[t] = st
      /\ \A u \in Tokens \ {t} : h.tokens[u] = k.tokens[u]
      /\ h.reorder = k.reorder /\ h.last = k.last
      /\ h.rebuilds = k.rebuilds /\ h.snaps = k.snaps
  BY <1>5, <1>6, <1>8, PutIs
<1>10. \A u \in Tokens : Shape(h.tokens[u]) /\ Own(h.tokens[u], u)
  BY <1>5, <1>7, <1>9
<1>11. Live(h)
  <2>1. \A e \in h.reorder : e < h.last
    BY <1>4, <1>9
  <2> QED
    BY <1>9, <1>10, <2>1 DEF Live, Sane
<1>12. HydratedAs(h, t, b)
  BY <1>2, <1>6, <1>9 DEF HydratedAs, S
<1> QED
  BY <1>4, <1>9, <1>11, <1>12 DEF h

LEMMA NowNext == ASSUME now \in 0 .. MaxTime, now < MaxTime
                 PROVE  now + 1 \in 0 .. MaxTime
OBVIOUS

LEMMA CountedStep ==
  ASSUME Counted, [Next]_vars
  PROVE  Counted'
<1>1. NoFault \/ Fault \/ UNCHANGED <<faults, healthy>>
  BY DEF Next, Handle, Restore, Tick, vars, bounds, insert_raw, insert_removed, mark_orphaned,
     apply_state, load_token, rebuild_token_state, insert_rebuilt, store_event, live_tick,
     persist_snapshot, research, Crash, Start, hydrate_token, pass_time
<1>2. ASSUME UNCHANGED <<faults, healthy>> PROVE Counted'
  BY <1>2 DEF Counted
<1>3. ASSUME Fault PROVE Counted'
  <2>1. faults' \in 0 .. MaxFaults
    BY <1>3 DEF Fault, Counted
  <2>2. healthy' \in BOOLEAN
    BY <1>3 DEF Fault
  <2> QED
    BY <2>1, <2>2 DEF Counted
<1> QED
  BY <1>1, <1>2, <1>3 DEF NoFault

(* A new log: it is handled, of no interest, or lost to an error.          *)
InsertedRaw(r) ==
  /\ pc = "idle" /\ raw[r] = "NONE" /\ raw' \in [Raws -> RawStatuses] /\ job' \in Job
  /\ \A q \in Raws \ {r} : raw'[q] = raw[q]
  /\ raw'[r] \in {"NONE", "PENDING", "UNKNOWN"}
  /\ \/ /\ pc' = "apply" /\ job'.log = r /\ job'.rest = Decode[r] /\ Decode[r] # <<>>
        /\ job'.keys = {} /\ raw'[r] = "PENDING"
     \/ pc' = "idle" /\ job' = NoJob
  /\ engine' = engine /\ UNCHANGED <<canon, rows, hand, stored, researched, twice,
                                     diverted, excused, now>>
  /\ observed_at' \in [Discoveries -> 0 .. MaxTime]

LEMMA PendingIs ==
  ASSUME raw \in [Raws -> RawStatuses], NEW r \in Raws, NEW s \in RawStatuses
  PROVE  LET q == [raw EXCEPT ![r] = s]
         IN q \in [Raws -> RawStatuses] /\ q[r] = s /\ \A x \in Raws \ {r} : q[x] = raw[x]
OBVIOUS

LEMMA InsertsRaw ==
  ASSUME raw \in [Raws -> RawStatuses], observed_at \in [Discoveries -> 0 .. MaxTime],
         now \in 0 .. MaxTime, NEW r \in Raws, insert_raw(r)
  PROVE  InsertedRaw(r)
<1>1. /\ pc = "idle" /\ raw[r] = "NONE" /\ engine' = engine
      /\ UNCHANGED <<canon, rows, hand, stored, researched, twice, diverted, excused, now>>
  BY DEF insert_raw, Fresh, tick, ghosts
<1>2. observed_at' \in [Discoveries -> 0 .. MaxTime]
  BY DEF insert_raw
<1>3. /\ "PENDING" \in RawStatuses /\ "UNKNOWN" \in RawStatuses
      /\ Decode[r] \in Seq(Events)
  BY DEF RawStatuses
<1>4. CASE /\ Decode[r] # <<>> /\ raw' = [raw EXCEPT ![r] = "PENDING"]
           /\ Goto("apply", [NoJob EXCEPT !.log = r, !.rest = Decode[r]])
  <2>1. /\ pc' = "apply" /\ job' \in Job /\ job'.log = r /\ job'.rest = Decode[r]
        /\ job'.keys = {}
    BY <1>3, <1>4 DEF Goto, NoJob, Job
  <2> QED
    BY <1>1, <1>2, <1>3, <1>4, <2>1, PendingIs DEF InsertedRaw
<1>5. CASE /\ Idle
           /\ raw' \in {raw, [raw EXCEPT ![r] = "PENDING"], [raw EXCEPT ![r] = "UNKNOWN"]}
  <2>1. pc' = "idle" /\ job' = NoJob /\ job' \in Job
    BY <1>5, NoJobIs DEF Idle, Goto
  <2>2. /\ raw' \in [Raws -> RawStatuses] /\ \A q \in Raws \ {r} : raw'[q] = raw[q]
        /\ raw'[r] \in {"NONE", "PENDING", "UNKNOWN"}
    <3>1. CASE raw' = raw
      BY <1>1, <3>1
    <3>2. CASE raw' = [raw EXCEPT ![r] = "PENDING"]
      BY <1>3, <3>2, PendingIs
    <3>3. CASE raw' = [raw EXCEPT ![r] = "UNKNOWN"]
      BY <1>3, <3>3, PendingIs
    <3> QED
      BY <1>5, <3>1, <3>2, <3>3
  <2> QED
    BY <1>1, <1>2, <2>1, <2>2 DEF InsertedRaw
<1> QED
  BY <1>4, <1>5 DEF insert_raw

(* A removed log whose original was never stored.                          *)
InsertedRemoved(r) ==
  /\ pc = "idle" /\ raw' \in [Raws -> RawStatuses] /\ job' \in Job
  /\ \A q \in Raws \ {r} : raw'[q] = raw[q]
  /\ \/ /\ pc' = "orphan" /\ job'.log = r /\ job'.keys = {} /\ job'.rest = <<>>
        /\ raw[r] = "NONE" /\ raw'[r] = "PENDING"
     \/ /\ pc' = "idle" /\ job' = NoJob /\ raw[r] = "NONE"
        /\ raw'[r] \in {"NONE", "PENDING"}
     \/ pc' = "idle" /\ job' = job /\ raw' = raw
  /\ removed' = removed \cup {r} /\ engine' = engine
  /\ UNCHANGED <<observed_at, canon, rows, hand, stored, researched, twice,
                 diverted, excused, now>>

LEMMA InsertsRemoved ==
  ASSUME raw \in [Raws -> RawStatuses], job \in Job, NEW r \in Raws, insert_removed(r)
  PROVE  InsertedRemoved(r)
<1>1. /\ pc = "idle" /\ removed' = removed \cup {r} /\ engine' = engine
      /\ UNCHANGED <<observed_at, canon, rows, hand, stored, researched, twice,
                     diverted, excused, now>>
  BY DEF insert_removed, tick
<1>2. "PENDING" \in RawStatuses
  BY DEF RawStatuses
<1>3. CASE raw[r] = "NONE"
  <2>1. CASE /\ raw' = [raw EXCEPT ![r] = "PENDING"]
             /\ Goto("orphan", [NoJob EXCEPT !.log = r])
    <3>1. /\ pc' = "orphan" /\ job' \in Job /\ job'.log = r /\ job'.rest = <<>>
          /\ job'.keys = {}
      BY <2>1, NoJobIs DEF Goto, Job
    <3> QED
      BY <1>1, <1>2, <1>3, <2>1, <3>1, PendingIs DEF InsertedRemoved
  <2>2. CASE Idle /\ raw' \in {raw, [raw EXCEPT ![r] = "PENDING"]}
    <3>1. pc' = "idle" /\ job' = NoJob /\ job' \in Job
      BY <2>2, NoJobIs DEF Idle, Goto
    <3>2. /\ raw' \in [Raws -> RawStatuses] /\ \A q \in Raws \ {r} : raw'[q] = raw[q]
          /\ raw'[r] \in {"NONE", "PENDING"}
      BY <1>2, <1>3, <2>2, PendingIs
    <3> QED
      BY <1>1, <1>3, <3>1, <3>2 DEF InsertedRemoved
  <2> QED
    BY <1>3, <2>1, <2>2 DEF insert_removed, Fresh
<1>4. CASE raw[r] # "NONE"
  <2>1. raw' = raw /\ pc' = pc /\ job' = job
    BY <1>4 DEF insert_removed, Fresh
  <2> QED
    BY <1>1, <2>1 DEF InsertedRemoved
<1> QED
  BY <1>3, <1>4

(* One event goes through the engine.                                      *)
Pushed(g, h, e, keys) ==
  \E p : /\ Took(g, p, e) \/ Delayed(g, p, e)
         /\ p.rebuilds = keys /\ h.tokens = p.tokens /\ h.reorder = p.reorder
         /\ h.last = p.last /\ h.snaps = p.snaps

AppliedState ==
  /\ pc = "apply" /\ Head(job.rest) \in Events
  /\ Pushed(engine, engine', Head(job.rest), job'.keys)
  /\ Live(engine') /\ engine'.rebuilds = {}
  /\ job' \in Job /\ job'.log = job.log /\ job'.rest = job.rest
  /\ pc' = IF job'.keys = {} THEN "store" ELSE "load"
  /\ job'.keys # {} => engine'.reorder = {}
  /\ UNCHANGED <<raw, observed_at, canon, rows, hand, stored, researched, twice,
                 diverted, excused, removed, now, healthy>>

LEMMA AppliesState ==
  ASSUME Structure, apply_state
  PROVE  AppliedState
<1> DEFINE e == Head(job.rest)
           p == push_event(engine, e)
<1>1. /\ pc = "apply" /\ engine' = [p EXCEPT !.rebuilds = {}] /\ NextKey(p.rebuilds)
      /\ UNCHANGED <<raw, observed_at, canon, rows, hand, stored, researched, twice,
                     diverted, excused, removed, now, healthy>>
  BY DEF apply_state, db, tick, ghosts, bounds
<1>2. e \in Events /\ job \in Job
  BY <1>1 DEF Structure, Placed, Working, Base, Job
<1> HIDE DEF e
<1>3. Live(p) /\ (Took(engine, p, e) \/ Delayed(engine, p, e)) /\ engine.rebuilds = {}
  BY <1>2, Pushes, PushesLive DEF Structure
<1> HIDE DEF p
<1>4. p.rebuilds = {} \/ p.reorder = {}
  BY <1>3 DEF Took, Delayed
<1>5. p \in Engine /\ p.rebuilds \in SUBSET Tokens
  BY <1>3, EngineIs
<1>6. /\ job' \in Job /\ job'.log = job.log /\ job'.rest = job.rest
      /\ job'.keys = p.rebuilds /\ pc' = IF p.rebuilds = {} THEN "store" ELSE "load"
  BY <1>1, <1>2, <1>5, NextKeyIs
<1>7. /\ engine' \in Engine /\ engine'.rebuilds = {} /\ engine'.tokens = p.tokens
      /\ engine'.reorder = p.reorder /\ engine'.last = p.last /\ engine'.snaps = p.snaps
  BY <1>1, <1>5 DEF Engine
<1>8. Live(engine')
  BY <1>3, <1>7 DEF Live, Sane
<1>9. Pushed(engine, engine', e, job'.keys)
  BY <1>3, <1>6, <1>7 DEF Pushed
<1> QED
  BY <1>1, <1>2, <1>4, <1>6, <1>7, <1>8, <1>9 DEF AppliedState, e

(* A token's stored events are loaded, or the token is given up.           *)
Loaded(t) ==
  /\ pc = "load" /\ t \in job.keys /\ job' \in Job /\ job'.log = job.log
  /\ job'.rest = job.rest /\ job'.keys = job.keys \ {t}
  /\ \/ /\ NoFault /\ pc' = "build" /\ job'.key = t
        /\ job'.loaded = canon \cap Of(t)
     \/ Fault /\ pc' = IF job'.keys = {} THEN "store" ELSE "load"
  /\ rows' \in {rows, rows \ {t}} /\ excused' = excused \cup {t} /\ engine' = engine
  /\ UNCHANGED <<raw, observed_at, canon, hand, stored, researched, twice,
                 diverted, removed, now>>

LEMMA Loads ==
  ASSUME Structure, NEW t \in Tokens, load_token(t)
  PROVE  Loaded(t)
<1> DEFINE keys == job.keys \ {t}
<1>1. /\ pc = "load" /\ t \in job.keys /\ rows' \in {rows, rows \ {t}}
      /\ excused' = excused \cup {t} /\ engine' = engine
      /\ UNCHANGED <<raw, observed_at, canon, hand, stored, researched, twice,
                     diverted, removed, now>>
  BY DEF load_token, tick
<1>2. job \in Job /\ canon \cap Of(t) \in SUBSET Events
  BY DEF Structure, Base
<1>3. keys \in SUBSET Tokens
  BY <1>2 DEF Job
<1> HIDE DEF keys
<1>4. CASE /\ NoFault
           /\ Goto("build", [job EXCEPT !.keys = keys, !.key = t,
                                        !.loaded = canon \cap Of(t)])
  <2>1. /\ job' \in Job /\ job'.log = job.log /\ job'.rest = job.rest
        /\ job'.key = t /\ job'.loaded = canon \cap Of(t) /\ pc' = "build"
        /\ job'.keys = keys
    BY <1>2, <1>3, <1>4 DEF Goto, Job
  <2> QED
    BY <1>1, <1>4, <2>1 DEF Loaded, keys
<1>5. CASE Fault /\ NextKey(keys)
  BY <1>1, <1>2, <1>3, <1>5, NextKeyIs DEF Loaded, keys
<1> QED
  BY <1>4, <1>5 DEF load_token, keys

RebuiltState ==
  /\ pc = "build" /\ job.key \in Tokens /\ job.key \in excused
  /\ \E snaps \in SUBSET Snapshots :
       /\ Rebuilt(engine, engine', snaps, job.key, canon \cap Of(job.key))
       /\ diverted' = diverted \cup snaps
  /\ job' \in Job /\ job'.log = job.log /\ job'.rest = job.rest /\ job'.keys = job.keys
  /\ pc' \in {"load", "insert", "store"} /\ (pc' = "store" => job'.keys = {})
  /\ UNCHANGED <<raw, observed_at, canon, rows, hand, stored, researched, twice,
                 excused, removed, now, healthy>>

LEMMA RebuildsState ==
  ASSUME Structure, rebuild_token_state
  PROVE  RebuiltState
<1> DEFINE rebuilt == rebuild_token(engine, job.key, job.loaded)
           h == rebuilt.engine
           snaps == rebuilt.snaps
<1>1. /\ pc = "build" /\ engine' = h /\ diverted' = diverted \cup snaps
      /\ IF snaps = {} THEN NextKey(job.keys)
         ELSE Goto("insert", [job EXCEPT !.taken = snaps])
      /\ UNCHANGED <<raw, observed_at, canon, rows, hand, stored, researched, twice,
                     excused, removed, now, healthy>>
  BY DEF rebuild_token_state, db, tick, bounds
<1>2. /\ job.key \in Tokens /\ job.key \in excused /\ job.loaded = canon \cap Of(job.key) /\ job \in Job
      /\ IsFiniteSet(canon) /\ canon \in SUBSET Events /\ Live(engine)
  BY <1>1 DEF Structure, Placed, Base
<1>3. /\ job.loaded \in SUBSET Of(job.key) /\ IsFiniteSet(job.loaded)
      /\ job.loaded \in SUBSET Events
  <2>1. IsFiniteSet(canon \cap Of(job.key))
    BY <1>2, FS_Intersection
  <2> QED
    BY <1>2, <2>1
<1>4. Rebuilt(engine, h, snaps, job.key, job.loaded)
  BY <1>2, <1>3, Rebuilds
<1> HIDE DEF h, snaps
<1>5. snaps \in SUBSET Snapshots
  BY <1>2, <1>3, <1>4, RebuildTyped
<1>6. /\ job' \in Job /\ job'.log = job.log /\ job'.rest = job.rest /\ job'.keys = job.keys
      /\ pc' \in {"load", "insert", "store"} /\ (pc' = "store" => job'.keys = {})
  <2>1. CASE snaps = {}
    BY <1>1, <1>2, <2>1, NextKeyIs DEF Job
  <2>2. CASE snaps # {}
    BY <1>1, <1>2, <1>5, <2>2 DEF Goto, Job
  <2> QED
    BY <2>1, <2>2
<1> QED
  BY <1>1, <1>2, <1>4, <1>5, <1>6 DEF RebuiltState

InsertedRebuilt ==
  /\ pc = "insert" /\ job' \in Job /\ job'.log = job.log /\ job'.rest = job.rest
  /\ job'.keys = job.keys /\ pc' = IF job.keys = {} THEN "store" ELSE "load"
  /\ rows \subseteq rows' /\ rows' \subseteq Tokens
  /\ excused \subseteq excused' /\ excused' \subseteq Tokens /\ engine' = engine
  /\ UNCHANGED <<raw, observed_at, canon, hand, stored, researched, twice,
                 diverted, removed, now>>

LEMMA InsertsRebuilt ==
  ASSUME Structure, insert_rebuilt
  PROVE  InsertedRebuilt
<1>1. /\ pc = "insert" /\ NextKey(job.keys) /\ engine' = engine
      /\ UNCHANGED <<raw, observed_at, canon, hand, stored, researched, twice,
                     diverted, removed, now>>
  BY DEF insert_rebuilt, tick
<1>2. PICK written \in SUBSET job.taken :
        /\ rows' = rows \cup TokensOf(written)
        /\ excused' = excused \cup TokensOf(job.taken \ written)
  BY DEF insert_rebuilt
<1>3. job \in Job /\ rows \subseteq Tokens /\ excused \subseteq Tokens
  BY DEF Structure, Base
<1>4. TokensOf(written) \subseteq Tokens /\ TokensOf(job.taken \ written) \subseteq Tokens
  BY <1>2, <1>3 DEF TokensOf, Job, Snapshots
<1>5. /\ job' \in Job /\ job'.log = job.log /\ job'.rest = job.rest
      /\ job'.keys = job.keys /\ pc' = IF job.keys = {} THEN "store" ELSE "load"
  BY <1>1, <1>3, NextKeyIs DEF Job
<1> QED
  BY <1>1, <1>2, <1>3, <1>4, <1>5 DEF InsertedRebuilt

(* The event's own row, and the mark of its log.                           *)
StoredEvent ==
  LET e    == Head(job.rest)
      left == Tail(job.rest)
  IN /\ pc = "store" /\ e \in Events /\ left \in Seq(Events) /\ job.log \in Raws
     /\ raw' \in [Raws -> RawStatuses] /\ \A q \in Raws \ {job.log} : raw'[q] = raw[q]
     /\ \/ /\ NoFault /\ raw'[job.log] = "SUCCESS" /\ canon' = canon \cup {e}
           /\ \/ left = <<>> /\ pc' = "idle" /\ job' = NoJob
              \/ /\ left # <<>> /\ pc' = "apply" /\ job'.log = job.log
                 /\ job'.rest = left /\ job'.keys = {}
        \/ /\ Fault /\ pc' = "idle" /\ job' = NoJob
           /\ raw'[job.log] \in {raw[job.log], "SUCCESS"} /\ canon' \in {canon, canon \cup {e}}
     /\ job' \in Job /\ engine' = engine
     /\ UNCHANGED <<observed_at, rows, hand, stored, researched, twice, diverted,
                    excused, removed, now>>

LEMMA StoresEvent ==
  ASSUME Structure, store_event
  PROVE  StoredEvent
<1> DEFINE e == Head(job.rest)
           left == Tail(job.rest)
           marked == [raw EXCEPT ![job.log] = "SUCCESS"]
<1>1. /\ pc = "store" /\ engine' = engine
      /\ UNCHANGED <<observed_at, rows, hand, stored, researched, twice, diverted,
                     excused, removed, now>>
  BY DEF store_event, tick, ghosts
<1>2. /\ job.rest # <<>> /\ job.log \in Raws /\ job.keys = {} /\ job \in Job
      /\ raw \in [Raws -> RawStatuses]
  BY <1>1 DEF Structure, Placed, Working, Base
<1>3. e \in Events /\ left \in Seq(Events)
  BY <1>2 DEF Job
<1>4. /\ marked \in [Raws -> RawStatuses] /\ marked[job.log] = "SUCCESS"
      /\ \A q \in Raws \ {job.log} : marked[q] = raw[q]
  <2>1. "SUCCESS" \in RawStatuses
    BY DEF RawStatuses
  <2> QED
    BY <1>2, <2>1, PendingIs
<1>5. Idle => pc' = "idle" /\ job' = NoJob /\ job' \in Job
  BY NoJobIs DEF Idle, Goto
<1>6. \/ /\ NoFault /\ raw' = marked /\ canon' = canon \cup {e}
         /\ IF left = <<>> THEN Idle ELSE Goto("apply", [job EXCEPT !.rest = left])
      \/ /\ Fault /\ Idle /\ raw' \in {raw, marked} /\ canon' \in {canon, canon \cup {e}}
  BY DEF store_event
<1> HIDE DEF e, left, marked
<1>7. Goto("apply", [job EXCEPT !.rest = left]) =>
        /\ pc' = "apply" /\ job' \in Job /\ job'.log = job.log /\ job'.rest = left
        /\ job'.keys = {}
  BY <1>2, <1>3 DEF Goto, Job
<1>8. CASE /\ NoFault /\ raw' = marked /\ canon' = canon \cup {e}
           /\ IF left = <<>> THEN Idle ELSE Goto("apply", [job EXCEPT !.rest = left])
  BY <1>1, <1>2, <1>3, <1>4, <1>5, <1>7, <1>8 DEF StoredEvent, e, left
<1>9. CASE Fault /\ Idle /\ raw' \in {raw, marked} /\ canon' \in {canon, canon \cup {e}}
  BY <1>1, <1>2, <1>3, <1>4, <1>5, <1>9 DEF StoredEvent, e, left
<1> QED
  BY <1>6, <1>8, <1>9

TickedLive ==
  /\ pc \notin {"down", "hydrate"} /\ hand = {} /\ stored = {} /\ now \in Nat
  /\ hand' = engine.snaps \cup DueNow(engine, now) /\ hand' \subseteq Snapshots
  /\ Live(engine') /\ engine'.reorder = engine.reorder /\ engine'.rebuilds = {}
  /\ engine'.snaps = {}
  /\ \A t \in Tokens : Ticked(engine.tokens[t], engine'.tokens[t], now)
  /\ UNCHANGED <<raw, observed_at, canon, rows, pc, job, stored, researched, twice,
                 diverted, excused, removed, now, healthy>>

LEMMA TicksLive ==
  ASSUME Structure, live_tick
  PROVE  TickedLive
<1> DEFINE ticked == tick_live(engine, now)
           h == ticked.engine
           snaps == ticked.snaps
<1>1. /\ pc \notin {"down", "hydrate"} /\ hand = {} /\ stored = {}
      /\ engine' = h /\ hand' = snaps
      /\ UNCHANGED <<raw, observed_at, canon, rows, pc, job, stored, researched, twice,
                     diverted, excused, removed, now, healthy>>
  BY DEF live_tick, db, ghosts, bounds
<1>2. now \in Nat /\ Live(engine) /\ engine.rebuilds = {}
  BY DEF Structure, Base
<1>3. /\ Live(h) /\ h.reorder = engine.reorder /\ h.rebuilds = engine.rebuilds
      /\ h.snaps = {} /\ \A t \in Tokens : Ticked(engine.tokens[t], h.tokens[t], now)
      /\ snaps = engine.snaps \cup DueNow(engine, now)
      /\ DueNow(engine, now) \subseteq Snapshots
  BY <1>2, Ticks
<1> HIDE DEF h, snaps
<1>4. snaps \subseteq Snapshots
  BY <1>2, <1>3, EngineIs
<1> QED
  BY <1>1, <1>2, <1>3, <1>4 DEF TickedLive

LEMMA HydratingIs ==
  ASSUME NEW keys \in SUBSET Tokens, Hydrating(keys)
  PROVE  /\ job' \in Job /\ job'.rest = <<>>
         /\ \/ pc' = "idle" /\ job' = NoJob /\ keys = {}
            \/ pc' = "hydrate" /\ keys # {}
<1>1. CASE keys = {}
  BY <1>1, NoJobIs DEF Hydrating, Idle, Goto
<1>2. CASE keys # {}
  BY <1>2, NoJobIs DEF Hydrating, Goto, Job
<1> QED
  BY <1>1, <1>2

Booted ==
  /\ pc = "down" /\ job' \in Job /\ job'.rest = <<>>
  /\ \/ pc' = "idle" /\ job' = NoJob
     \/ pc' = "hydrate" /\ canon # {}
  /\ engine' = engine
  /\ UNCHANGED <<raw, observed_at, canon, rows, hand, stored, researched, twice,
                 diverted, excused, removed, now, healthy>>

LEMMA Starts ==
  ASSUME Start
  PROVE  Booted
<1>1. /\ pc = "down" /\ Hydrating(Recent) /\ engine' = engine
      /\ UNCHANGED <<raw, observed_at, canon, rows, hand, stored, researched, twice,
                     diverted, excused, removed, now, healthy>>
  BY DEF Start, db, tick, ghosts, bounds
<1>2. Recent \in SUBSET Tokens /\ (Recent # {} => canon # {})
  BY DEF Recent
<1> QED
  BY <1>1, <1>2, HydratingIs DEF Booted

HydratedToken(t) ==
  /\ pc = "hydrate" /\ job' \in Job /\ job'.rest = <<>>
  /\ \/ pc' = "idle" /\ job' = NoJob
     \/ pc' = "hydrate"
  /\ Live(engine') /\ engine'.rebuilds = {} /\ engine'.snaps = {} /\ engine'.reorder = {}
  /\ \/ NoFault /\ excused' = excused /\ HydratedAs(engine', t, t \in rows)
     \/ Fault /\ excused' = excused \cup {t} /\ HydratedAs(engine', t, FALSE)
     \/ Fault /\ excused' = excused /\ engine' = engine
  /\ UNCHANGED <<raw, observed_at, canon, rows, hand, stored, researched, twice,
                 diverted, removed, now>>

LEMMA HydratesToken ==
  ASSUME Structure, NEW t \in Tokens, hydrate_token(t)
  PROVE  HydratedToken(t)
<1>1. /\ pc = "hydrate"
      /\ UNCHANGED <<raw, observed_at, canon, rows, hand, stored, researched, twice,
                     diverted, removed, now>>
  BY DEF hydrate_token, db, tick
<1>2. /\ job \in Job /\ Live(engine) /\ engine.rebuilds = {} /\ engine.snaps = {}
      /\ engine.reorder = {} /\ IsFiniteSet(canon) /\ canon \in SUBSET Events
  BY <1>1 DEF Structure, Base, Placed
<1>3. job.keys \ {t} \in SUBSET Tokens
  BY <1>2 DEF Job
<1>4. /\ job' \in Job /\ job'.rest = <<>>
      /\ \/ pc' = "idle" /\ job' = NoJob
         \/ pc' = "hydrate"
  <2>1. Idle => pc' = "idle" /\ job' = NoJob
    BY DEF Idle, Goto
  <2>2. Hydrating(job.keys \ {t}) \/ Idle
    BY DEF hydrate_token
  <2> QED
    BY <1>3, <2>1, <2>2, HydratingIs, NoJobIs
<1>5. ASSUME NEW b \in BOOLEAN, engine' = Hydrated(t, b)
      PROVE  /\ Live(engine') /\ engine'.rebuilds = {} /\ engine'.snaps = {}
             /\ engine'.reorder = {} /\ HydratedAs(engine', t, b)
  BY <1>2, <1>5, Hydrates
<1>6. (t \in rows) \in BOOLEAN /\ FALSE \in BOOLEAN /\ AlreadyEmitted(t) = (t \in rows)
  BY DEF AlreadyEmitted
<1>7. \/ NoFault /\ engine' = Hydrated(t, AlreadyEmitted(t)) /\ excused' = excused
      \/ Fault /\ engine' = Hydrated(t, FALSE) /\ excused' = excused \cup {t}
      \/ Fault /\ engine' = engine /\ excused' = excused
  BY DEF hydrate_token
<1>8. CASE NoFault /\ engine' = Hydrated(t, AlreadyEmitted(t)) /\ excused' = excused
  BY <1>1, <1>4, <1>5, <1>6, <1>8 DEF HydratedToken
<1>9. CASE Fault /\ engine' = Hydrated(t, FALSE) /\ excused' = excused \cup {t}
  BY <1>1, <1>4, <1>5, <1>6, <1>9 DEF HydratedToken
<1>10. CASE Fault /\ engine' = engine /\ excused' = excused
  BY <1>1, <1>2, <1>4, <1>10 DEF HydratedToken
<1> QED
  BY <1>7, <1>8, <1>9, <1>10

LEMMA StructureStep ==
  ASSUME Structure, [Next]_vars
  PROVE  Structure'
<1>0. Base /\ Live(engine) /\ engine.rebuilds = {} /\ Placed
  BY DEF Structure
<1>c. Counted'
  BY CountedStep DEF Structure
<1>1. ASSUME NEW r \in Raws, insert_raw(r)
      PROVE  Structure'
  <2>1. InsertedRaw(r)
    BY <1>0, <1>1, InsertsRaw DEF Base
  <2>2. Base'
    BY <1>0, <1>1, <2>1 DEF insert_raw, InsertedRaw, Base, tick, ghosts, Labels
  <2>3. Placed'
    BY <1>0, <2>1, NoJobIs DEF InsertedRaw, Placed, Working
  <2> QED
    BY <1>c, <1>0, <2>1, <2>2, <2>3 DEF InsertedRaw, Structure
<1>2. ASSUME NEW r \in Raws, insert_removed(r)
      PROVE  Structure'
  <2>1. InsertedRemoved(r)
    BY <1>0, <1>2, InsertsRemoved DEF Base
  <2>2. Base'
    BY <1>0, <2>1 DEF InsertedRemoved, Base, Labels
  <2>3. Placed'
    BY <1>0, <2>1, NoJobIs DEF InsertedRemoved, Placed, Working
  <2> QED
    BY <1>c, <1>0, <2>1, <2>2, <2>3 DEF InsertedRemoved, Structure
<1>3. CASE mark_orphaned
  <2>1. Base'
    BY <1>0, <1>3, NoJobIs DEF mark_orphaned, Goto, Idle, Base, tick, ghosts,
       Labels, RawStatuses
  <2>2. Placed'
    BY <1>0, <1>3 DEF mark_orphaned, Goto, Idle, Placed, tick, Working, NoJob
  <2>3. engine' = engine
    BY <1>3 DEF mark_orphaned
  <2> QED
    BY <1>c, <1>0, <2>1, <2>2, <2>3 DEF Structure
<1>4. CASE apply_state
  <2>1. AppliedState
    BY <1>4, AppliesState
  <2>2. Base'
    BY <1>0, <2>1 DEF AppliedState, Base, Labels
  <2>3. Placed'
    BY <1>0, <2>1 DEF AppliedState, Placed, Working
  <2> QED
    BY <1>c, <2>1, <2>2, <2>3 DEF AppliedState, Structure
<1>5. ASSUME NEW t \in Tokens, load_token(t)
      PROVE  Structure'
  <2>1. Loaded(t)
    BY <1>5, Loads
  <2>2. Base'
    BY <1>0, <2>1 DEF Loaded, Base, Labels
  <2>3. Placed'
    BY <1>0, <2>1 DEF Loaded, Placed, Working
  <2> QED
    BY <1>c, <1>0, <2>1, <2>2, <2>3 DEF Loaded, Structure
<1>6. CASE rebuild_token_state
  <2>1. RebuiltState
    BY <1>6, RebuildsState
  <2>2. Base'
    BY <1>0, <2>1 DEF RebuiltState, Base, Labels
  <2>3. Live(engine') /\ engine'.rebuilds = {} /\ engine'.reorder = {}
    BY <1>0, <2>1 DEF RebuiltState, Rebuilt
  <2>4. Placed'
    BY <1>0, <2>1, <2>3 DEF RebuiltState, Placed, Working
  <2> QED
    BY <1>c, <2>2, <2>3, <2>4 DEF Structure
<1>7. CASE insert_rebuilt
  <2>1. InsertedRebuilt
    BY <1>7, InsertsRebuilt
  <2>2. Base'
    BY <1>0, <2>1 DEF InsertedRebuilt, Base, Labels
  <2>3. Placed'
    BY <1>0, <2>1 DEF InsertedRebuilt, Placed, Working
  <2> QED
    BY <1>c, <1>0, <2>1, <2>2, <2>3 DEF InsertedRebuilt, Structure
<1>8. CASE store_event
  <2>1. StoredEvent
    BY <1>8, StoresEvent
  <2>2. IsFiniteSet(canon') /\ canon' \in SUBSET Events
    <3>1. Head(job.rest) \in Events /\ canon' \in {canon, canon \cup {Head(job.rest)}}
      BY <2>1 DEF StoredEvent
    <3>2. IsFiniteSet(canon) /\ canon \in SUBSET Events
      BY <1>0 DEF Base
    <3>3. IsFiniteSet(canon \cup {Head(job.rest)})
      BY <3>2, FS_AddElement
    <3> DEFINE more == canon \cup {Head(job.rest)}
    <3>4. more \in SUBSET Events /\ IsFiniteSet(more) /\ canon' \in {canon, more}
      BY <3>1, <3>2, <3>3
    <3> HIDE DEF more
    <3> QED
      BY <3>2, <3>4
  <2>3. Base'
    BY <1>0, <2>1, <2>2 DEF StoredEvent, Base, Labels
  <2>4. Placed'
    BY <1>0, <2>1, NoJobIs DEF StoredEvent, Placed, Working
  <2> QED
    BY <1>c, <1>0, <2>1, <2>3, <2>4 DEF StoredEvent, Structure
<1>9. CASE live_tick
  <2>1. TickedLive
    BY <1>9, TicksLive
  <2>2. Base'
    BY <1>0, <2>1 DEF TickedLive, Base
  <2>3. Placed'
    BY <1>0, <2>1 DEF TickedLive, Placed, Working
  <2> QED
    BY <1>c, <2>1, <2>2, <2>3 DEF TickedLive, Structure
<1>10. ASSUME NEW s \in Snapshots, persist_snapshot(s)
       PROVE  Structure'
  <2>1. s[1] \in Tokens
    BY DEF Snapshots
  <2>2. Base'
    BY <1>0, <1>10, <2>1 DEF persist_snapshot, Base
  <2>3. Placed'
    BY <1>0, <1>10 DEF persist_snapshot, Placed, Working
  <2>4. engine' = engine
    BY <1>10 DEF persist_snapshot
  <2> QED
    BY <1>c, <1>0, <2>2, <2>3, <2>4 DEF Structure
<1>11. CASE research
  <2>1. TokensOf(stored \cap researched) \subseteq Tokens
    BY <1>0 DEF Base, TokensOf, Snapshots
  <2>2. Base'
    BY <1>0, <1>11, <2>1 DEF research, Base, db, bounds
  <2>3. Placed'
    BY <1>0, <1>11 DEF research, Placed, Working, db
  <2>4. engine' = engine
    BY <1>11 DEF research
  <2> QED
    BY <1>c, <1>0, <2>2, <2>3, <2>4 DEF Structure
<1>12. CASE Crash
  <2>1. Base'
    BY <1>0, <1>12, NoJobIs DEF Crash, Base, db, ghosts, Goto, Labels
  <2>2. Placed'
    BY <1>12, NoJobIs, NewEngineLive DEF Crash, Placed, Working, Goto
  <2> QED
    BY <1>c, <1>12, <2>1, <2>2, NewEngineLive DEF Crash, Structure
<1>13. CASE Start
  <2>1. Booted
    BY <1>13, Starts
  <2>2. Base'
    BY <1>0, <2>1 DEF Booted, Base, Labels
  <2>3. Placed'
    BY <1>0, <2>1, NoJobIs DEF Booted, Placed, Working
  <2> QED
    BY <1>c, <1>0, <2>1, <2>2, <2>3 DEF Booted, Structure
<1>14. ASSUME NEW t \in Tokens, hydrate_token(t)
       PROVE  Structure'
  <2>1. HydratedToken(t)
    BY <1>14, HydratesToken
  <2>2. excused' \subseteq Tokens
    BY <1>0, <2>1 DEF HydratedToken, Base
  <2>3. Base'
    BY <1>0, <2>1, <2>2 DEF HydratedToken, Base, Labels
  <2>4. Placed'
    BY <1>0, <2>1, NoJobIs DEF HydratedToken, Placed, Working
  <2> QED
    BY <1>c, <2>1, <2>3, <2>4 DEF HydratedToken, Structure
<1>15. CASE pass_time
  <2>1. Base' /\ engine' = engine /\ Placed'
    BY <1>0, <1>15, NowNext DEF pass_time, Base, Placed, Working, db, tick, ghosts
  <2> QED
    BY <1>c, <1>0, <2>1 DEF Structure
<1>16. CASE UNCHANGED vars
  BY <1>0, <1>c, <1>16 DEF vars, db, tick, ghosts, bounds, Structure, Base, Placed, Working
<1> QED
  BY <1>1, <1>2, <1>3, <1>4, <1>5, <1>6, <1>7, <1>8, <1>9, <1>10, <1>11, <1>12, <1>13,
     <1>14, <1>15, <1>16 DEF Next, Handle, Restore, Tick

-----------------------------------------------------------------------------
(* No event counts twice.                                                  *)

Busy == pc \in {"load", "build", "insert", "store"}

(* The events that have not reached the engine: those of logs that have    *)
(* not arrived and the rest of the log that is handled.                    *)
Unpushed  == IF pc = "apply" THEN ToSet(job.rest)
             ELSE IF Busy THEN ToSet(Tail(job.rest)) ELSE {}
ToCome(e) == \E r \in Raws : raw[r] = "NONE" /\ e \in EventsOf(r)
Ahead     == {e \in Events : ToCome(e)} \cup Unpushed

Seen == engine.snaps \cup hand \cup stored \cup researched

JobOnce == Working => IsInjective(job.rest) /\ ToSet(job.rest) \subseteq EventsOf(job.log)
Known(e) == \/ e \in canon
            \/ \E t \in Tokens : e \in Applied(t)
            \/ \E s \in Seen : s[2] = e
Unseen  == \A e \in Ahead : ~Known(e)
Once    == JobOnce /\ AppliedOnce /\ Unseen

LEMMA HeadAndTail ==
  ASSUME NEW s \in Seq(Events), s # <<>>
  PROVE  /\ Tail(s) \in Seq(Events) /\ Head(s) \in Events
         /\ ToSet(s) = {Head(s)} \cup ToSet(Tail(s))
         /\ IsInjective(s) => IsInjective(Tail(s)) /\ Head(s) \notin ToSet(Tail(s))
<1> DEFINE n == Len(s)
           r == Tail(s)
<1>1. /\ n \in Nat /\ n > 0 /\ DOMAIN s = 1 .. n /\ Head(s) = s[1]
      /\ r \in Seq(Events) /\ Head(s) \in Events
  OBVIOUS
<1>2. DOMAIN r = 1 .. n - 1 /\ \A i \in 1 .. n - 1 : r[i] = s[i + 1]
  OBVIOUS
<1> HIDE DEF n, r
<1>3. \A i \in 1 .. n - 1 : i + 1 \in 1 .. n
  BY <1>1
<1>4. \A i \in 1 .. n : i = 1 \/ (i - 1 \in 1 .. n - 1 /\ (i - 1) + 1 = i)
  BY <1>1
<1>5. ToSet(s) = {s[1]} \cup ToSet(r)
  <2>1. ToSet(s) = {s[i] : i \in 1 .. n} /\ ToSet(r) = {r[i] : i \in 1 .. n - 1}
    BY <1>1, <1>2 DEF ToSet
  <2>2. \A i \in 1 .. n : s[i] = s[1] \/ \E j \in 1 .. n - 1 : s[i] = r[j]
    BY <1>2, <1>4
  <2>3. \A j \in 1 .. n - 1 : \E i \in 1 .. n : r[j] = s[i]
    BY <1>2, <1>3
  <2>4. 1 \in 1 .. n
    BY <1>1
  <2>5. ASSUME NEW x \in ToSet(s) PROVE x \in {s[1]} \cup ToSet(r)
    BY <2>1, <2>2
  <2>6. ASSUME NEW x \in {s[1]} \cup ToSet(r) PROVE x \in ToSet(s)
    BY <2>1, <2>3, <2>4
  <2> QED
    BY <2>5, <2>6
<1>6. ASSUME IsInjective(s)
      PROVE  IsInjective(r) /\ s[1] \notin ToSet(r)
  <2>1. \A i, j \in 1 .. n : s[i] = s[j] => i = j
    BY <1>1, <1>6 DEF IsInjective
  <2>2. ASSUME NEW i \in 1 .. n - 1, NEW j \in 1 .. n - 1, r[i] = r[j]
        PROVE  i = j
    <3>1. i + 1 = j + 1
      BY <1>2, <1>3, <2>1, <2>2
    <3> QED
      BY <1>1, <3>1
  <2>3. ASSUME NEW i \in 1 .. n - 1 PROVE r[i] # s[1]
    <3>1. i + 1 \in 1 .. n /\ 1 \in 1 .. n /\ i + 1 # 1
      BY <1>1, <1>3
    <3> QED
      BY <1>2, <2>1, <3>1
  <2> QED
    BY <1>2, <2>2, <2>3 DEF IsInjective, ToSet
<1> QED
  BY <1>1, <1>5, <1>6 DEF r

LEMMA DecodedOnce ==
  /\ \A r \in Raws : IsInjective(Decode[r]) /\ EventsOf(r) \subseteq Events
  /\ \A r, q \in Raws : r # q => EventsOf(r) \cap EventsOf(q) = {}
<1>1. ASSUME NEW r \in Raws
      PROVE  IsInjective(Decode[r]) /\ EventsOf(r) \subseteq Events
  BY DistinctAssumption DEF IsInjective, EventsOf, ToSet
<1>2. ASSUME NEW r \in Raws, NEW q \in Raws, r # q
      PROVE  EventsOf(r) \cap EventsOf(q) = {}
  BY <1>2, DistinctAssumption DEF EventsOf, ToSet
<1> QED
  BY <1>1, <1>2

LEMMA OriginApplied ==
  ASSUME NEW g, Live(g), NEW t \in Tokens, g.tokens[t].held
  PROVE  Origin(g.tokens[t]) \in ToSet(g.tokens[t].applied)
<1> DEFINE a == g.tokens[t].applied
<1>1. a \in Seq(Events) /\ a # <<>>
  BY EngineIs DEF Shape
<1> HIDE DEF a
<1>2. Head(a) \in ToSet(a)
  BY <1>1, HeadAndTail
<1> QED
  BY <1>2 DEF a, Origin

(* What a push can change.                                                 *)
Changed(g, h, e, t) ==
  /\ \A u \in Tokens \ {t} : h.tokens[u] = g.tokens[u]
  /\ \/ h.tokens[t].applied = g.tokens[t].applied
     \/ h.tokens[t].applied = Append(g.tokens[t].applied, e)
  /\ \A s \in h.snaps : \/ s \in g.snaps
                        \/ g.tokens[t].held /\ s = <<t, Origin(g.tokens[t])>>
  /\ g.snaps \subseteq h.snaps

LEMMA PushedIs ==
  ASSUME NEW g, Live(g), NEW h, NEW e \in Events, NEW keys, Pushed(g, h, e, keys)
  PROVE  Changed(g, h, e, TokenOf[e])
<1> DEFINE t == TokenOf[e]
<1>1. PICK p : /\ Took(g, p, e) \/ Delayed(g, p, e)
               /\ p.rebuilds = keys /\ h.tokens = p.tokens /\ h.reorder = p.reorder
               /\ h.last = p.last /\ h.snaps = p.snaps
  BY DEF Pushed
<1>2. CASE Took(g, p, e)
  <2> DEFINE due == MilestoneDue(g.tokens[t], TimeOf[e])
  <2>1. /\ p.snaps = IF due THEN g.snaps \cup {<<t, Origin(g.tokens[t])>>} ELSE g.snaps
        /\ \A u \in Tokens \ {t} : p.tokens[u] = g.tokens[u]
        /\ p.tokens[t].applied = Append(g.tokens[t].applied, e)
    BY <1>2 DEF Took
  <2>2. due => g.tokens[t].held
    BY DEF MilestoneDue
  <2> HIDE DEF due, t
  <2> QED
    BY <1>1, <2>1, <2>2 DEF Changed, t
<1>3. CASE Delayed(g, p, e)
  BY <1>1, <1>3 DEF Delayed, Changed
<1> QED
  BY <1>1, <1>2, <1>3

LEMMA AheadFrom ==
  ASSUME \A q \in Raws : raw'[q] = "NONE" => raw[q] = "NONE",
         \A e \in Unpushed' : e \in Ahead
  PROVE  Ahead' \subseteq Ahead
BY DEF Ahead, ToCome

(* Nothing comes back that has reached the engine, and the event at the    *)
(* head is not among what is ahead once it is pushed.                      *)
LEMMA AheadShrinks ==
  ASSUME Structure, Structure', JobOnce, Next
  PROVE  /\ Ahead' \subseteq Ahead /\ JobOnce'
         /\ pc = "apply" => Head(job.rest) \in Ahead
         /\ apply_state => Head(job.rest) \notin Ahead'
         /\ pc = "store" => Head(job.rest) \notin Ahead
<1>0. Base /\ Placed /\ Base'
  BY DEF Structure
<1>a. /\ pc # "apply" /\ ~Busy => Unpushed = {}
      /\ pc' # "apply" /\ ~Busy' => Unpushed' = {}
      /\ ~Working' => JobOnce'
  BY DEF Unpushed, JobOnce, Busy
<1>w. Working => /\ job.rest \in Seq(Events) /\ job.rest # <<>> /\ job.log \in Raws
                 /\ IsInjective(job.rest) /\ ToSet(job.rest) \subseteq EventsOf(job.log)
                 /\ ~(\E e \in ToSet(job.rest) : ToCome(e))
  <2> SUFFICES ASSUME Working PROVE
                 /\ job.rest \in Seq(Events) /\ job.rest # <<>> /\ job.log \in Raws
                 /\ IsInjective(job.rest) /\ ToSet(job.rest) \subseteq EventsOf(job.log)
                 /\ ~(\E e \in ToSet(job.rest) : ToCome(e))
    OBVIOUS
  <2>1. /\ job.rest \in Seq(Events) /\ job.rest # <<>> /\ job.log \in Raws
        /\ IsInjective(job.rest) /\ ToSet(job.rest) \subseteq EventsOf(job.log)
        /\ raw[job.log] # "NONE"
    BY <1>0 DEF Base, Job, Placed, JobOnce
  <2> QED
    BY <2>1, DecodedOnce DEF ToCome
<1>q. ASSUME \A q \in Raws : raw'[q] = raw[q], Working, Working', job'.rest = job.rest,
             job'.log = job.log, pc # "apply", pc' # "apply"
      PROVE  Ahead' = Ahead /\ JobOnce'
  <2>1. JobOnce'
    BY <1>q DEF JobOnce
  <2>2. Unpushed' = Unpushed
    BY <1>q DEF Unpushed, Busy, Working
  <2>3. \A e \in Events : ToCome(e)' <=> ToCome(e)
    BY <1>q DEF ToCome
  <2> QED
    BY <2>1, <2>2, <2>3 DEF Ahead
<1>n. ASSUME \A q \in Raws : raw'[q] = "NONE" => raw[q] = "NONE", ~Working'
      PROVE  Ahead' \subseteq Ahead /\ JobOnce'
  <2>1. Unpushed' = {}
    BY <1>a, <1>n DEF Working, Busy
  <2> QED
    BY <1>a, <1>n, <2>1, AheadFrom
<1>h. pc = "apply" => Head(job.rest) \in Ahead
  BY <1>w, HeadAndTail DEF Working, Ahead, Unpushed
<1>s. pc = "store" => Head(job.rest) \notin Ahead
  BY <1>w, HeadAndTail DEF Working, Ahead, Unpushed, Busy
<1>1. ASSUME NEW r \in Raws, insert_raw(r)
      PROVE  Ahead' \subseteq Ahead /\ JobOnce'
  <2>1. InsertedRaw(r)
    BY <1>0, <1>1, InsertsRaw DEF Base
  <2>2. \A q \in Raws : raw'[q] = "NONE" => raw[q] = "NONE"
    BY <2>1 DEF InsertedRaw
  <2>3. CASE ~Working'
    BY <1>n, <2>2, <2>3
  <2>4. CASE Working'
    <3>1. pc' = "apply" /\ job'.log = r /\ job'.rest = Decode[r] /\ raw[r] = "NONE"
      BY <2>1, <2>4 DEF InsertedRaw, Working
    <3>2. JobOnce'
      BY <3>1, DecodedOnce DEF JobOnce, EventsOf
    <3>3. Unpushed' = EventsOf(r)
      BY <3>1 DEF Unpushed, EventsOf
    <3>4. \A e \in Unpushed' : e \in Ahead
      BY <3>1, <3>3, DecodedOnce DEF Ahead, ToCome
    <3> QED
      BY <2>2, <3>2, <3>4, AheadFrom
  <2> QED
    BY <2>3, <2>4
<1>2. ASSUME NEW r \in Raws, insert_removed(r)
      PROVE  Ahead' \subseteq Ahead /\ JobOnce'
  <2>1. InsertedRemoved(r)
    BY <1>0, <1>2, InsertsRemoved DEF Base
  <2>2. \A q \in Raws : raw'[q] = "NONE" => raw[q] = "NONE"
    BY <2>1 DEF InsertedRemoved
  <2>3. ~Working'
    BY <2>1 DEF InsertedRemoved, Working
  <2> QED
    BY <1>n, <2>2, <2>3
<1>3. ASSUME mark_orphaned
      PROVE  Ahead' \subseteq Ahead /\ JobOnce'
  <2>1. ~Working'
    BY <1>3 DEF mark_orphaned, Idle, Goto, Working
  <2>2. \A q \in Raws : raw'[q] = "NONE" => raw[q] = "NONE"
    BY <1>0, <1>3 DEF mark_orphaned, Base
  <2> QED
    BY <1>n, <2>1, <2>2
<1>4. ASSUME apply_state
      PROVE  Ahead' \subseteq Ahead /\ JobOnce' /\ Head(job.rest) \notin Ahead'
  <2>1. AppliedState
    BY <1>4, AppliesState
  <2>2. /\ raw' = raw /\ job'.rest = job.rest /\ job'.log = job.log /\ pc = "apply"
        /\ pc' # "apply" /\ Busy' /\ Working /\ Working'
    BY <2>1 DEF AppliedState, Working, Busy
  <2>3. Unpushed' = ToSet(Tail(job.rest)) /\ Unpushed = ToSet(job.rest)
    BY <2>2 DEF Unpushed
  <2>4. /\ ToSet(job.rest) = {Head(job.rest)} \cup ToSet(Tail(job.rest))
        /\ Head(job.rest) \notin ToSet(Tail(job.rest))
    BY <1>w, <2>2, HeadAndTail
  <2>5. Ahead' \subseteq Ahead
    BY <2>2, <2>3, <2>4, AheadFrom DEF Ahead
  <2>6. JobOnce'
    BY <2>2 DEF JobOnce
  <2>e. PICK e : e = Head(job.rest)
    OBVIOUS
  <2>7. ~ToCome(e)'
    BY <1>w, <2>2, <2>4, <2>e DEF ToCome
  <2>9. e \notin Ahead'
    BY <2>3, <2>4, <2>7, <2>e DEF Ahead
  <2>8. Head(job.rest) \notin Ahead'
    BY <2>9, <2>e
  <2> QED
    BY <2>5, <2>6, <2>8
<1>5. ASSUME NEW t \in Tokens, load_token(t)
      PROVE  Ahead' \subseteq Ahead /\ JobOnce'
  <2>1. Loaded(t)
    BY <1>5, Loads
  <2> QED
    BY <1>q, <2>1 DEF Loaded, Working
<1>6. ASSUME rebuild_token_state
      PROVE  Ahead' \subseteq Ahead /\ JobOnce'
  <2>1. RebuiltState
    BY <1>6, RebuildsState
  <2> QED
    BY <1>q, <2>1 DEF RebuiltState, Working
<1>7. ASSUME insert_rebuilt
      PROVE  Ahead' \subseteq Ahead /\ JobOnce'
  <2>1. InsertedRebuilt
    BY <1>7, InsertsRebuilt
  <2> QED
    BY <1>q, <2>1 DEF InsertedRebuilt, Working
<1>8. ASSUME store_event
      PROVE  Ahead' \subseteq Ahead /\ JobOnce'
  <2>1. StoredEvent
    BY <1>8, StoresEvent
  <2>2. \A q \in Raws : raw'[q] = "NONE" => raw[q] = "NONE"
    BY <2>1 DEF StoredEvent
  <2>3. CASE ~Working'
    BY <1>n, <2>2, <2>3
  <2>4. CASE Working'
    <3>1. /\ pc = "store" /\ pc' = "apply" /\ job'.log = job.log
          /\ job'.rest = Tail(job.rest)
      BY <2>1, <2>4 DEF StoredEvent, Working
    <3>2. /\ IsInjective(Tail(job.rest)) /\ ToSet(Tail(job.rest)) \subseteq ToSet(job.rest)
          /\ ToSet(job.rest) \subseteq EventsOf(job.log)
      BY <1>w, <3>1, HeadAndTail DEF Working
    <3>3. JobOnce'
      BY <3>1, <3>2 DEF JobOnce
    <3>4. Unpushed' = Unpushed
      BY <3>1 DEF Unpushed, Busy
    <3> QED
      BY <2>2, <3>3, <3>4, AheadFrom DEF Ahead
  <2> QED
    BY <2>3, <2>4
<1>9. ASSUME raw' = raw, pc' = pc, job' = job
      PROVE  Ahead' \subseteq Ahead /\ JobOnce'
  BY <1>9 DEF Ahead, ToCome, Unpushed, Busy, JobOnce, Working
<1>10. ASSUME live_tick \/ research \/ pass_time \/ \E s \in Snapshots : persist_snapshot(s)
       PROVE  raw' = raw /\ pc' = pc /\ job' = job
  BY <1>10 DEF live_tick, research, pass_time, persist_snapshot, db
<1>11. ASSUME Crash \/ Start \/ \E t \in Tokens : hydrate_token(t)
       PROVE  Ahead' \subseteq Ahead /\ JobOnce'
  <2>1. raw' = raw
    BY <1>11 DEF Crash, Start, hydrate_token, db
  <2>2. ~Working'
    <3>1. Crash => pc' = "down"
      BY DEF Crash, Goto
    <3>2. Start => pc' \in {"idle", "hydrate"}
      BY Starts DEF Booted
    <3>3. ASSUME NEW t \in Tokens, hydrate_token(t) PROVE pc' \in {"idle", "hydrate"}
      BY <3>3, HydratesToken DEF HydratedToken
    <3> QED
      BY <1>11, <3>1, <3>2, <3>3 DEF Working
  <2> QED
    BY <1>n, <2>1, <2>2
<1> QED
  BY <1>h, <1>s, <1>1, <1>2, <1>3, <1>4, <1>5, <1>6, <1>7, <1>8, <1>9, <1>10, <1>11
     DEF Next, Handle, Restore, Tick

LEMMA UnseenFrom ==
  ASSUME Unseen, Ahead' \subseteq Ahead, NEW x, x \notin Ahead',
         \A e : Known(e)' => Known(e) \/ e = x
  PROVE  Unseen'
BY DEF Unseen

(* A step that leaves the engine, the snapshots and the rows alone.        *)
LEMMA OnceQuiet ==
  ASSUME Once, Ahead' \subseteq Ahead, JobOnce', engine' = engine,
         UNCHANGED <<canon, hand, stored, researched>>
  PROVE  Once'
<1>1. \A e : Known(e)' <=> Known(e)
  BY DEF Known, Applied, Seen
<1>2. Unseen'
  BY <1>1 DEF Unseen, Once
<1>3. AppliedOnce'
  BY DEF AppliedOnce, Once
<1> QED
  BY <1>2, <1>3 DEF Once

LEMMA EvictedIs == Evicted.applied = <<>> /\ ToSet(<<>>) = {} /\ IsInjective(<<>>)
                   /\ ~Evicted.held /\ ~Evicted.emitted
BY DEF Evicted, ToSet, IsInjective

LEMMA AppendOnce ==
  ASSUME NEW s \in Seq(Events), NEW e \in Events, IsInjective(s), e \notin ToSet(s)
  PROVE  IsInjective(Append(s, e))
<1> DEFINE n == Len(s)
           r == Append(s, e)
<1>1. /\ n \in Nat /\ DOMAIN s = 1 .. n /\ DOMAIN r = 1 .. n + 1 /\ r[n + 1] = e
      /\ \A i \in 1 .. n : r[i] = s[i]
  BY AppendedIs
<1> HIDE DEF n, r
<1>2. \A i \in 1 .. n + 1 : i \in 1 .. n \/ i = n + 1
  BY <1>1
<1>3. \A i \in 1 .. n : r[i] # e
  BY <1>1 DEF ToSet
<1>4. \A i, j \in 1 .. n : r[i] = r[j] => i = j
  BY <1>1 DEF IsInjective
<1>5. IsInjective(r)
  BY <1>1, <1>2, <1>3, <1>4 DEF IsInjective
<1> QED
  BY <1>5 DEF r

(* A rebuild, by the pipeline or at the start.                             *)
OnlyRebuilt(t) ==
  /\ \A u \in Tokens \ {t} : engine'.tokens[u].applied = engine.tokens[u].applied
  /\ ToSet(engine'.tokens[t].applied) = canon \cap Of(t)
  /\ IsInjective(engine'.tokens[t].applied)
  /\ engine'.snaps \subseteq engine.snaps

LEMMA OnceRebuilt ==
  ASSUME Once, Ahead' \subseteq Ahead, JobOnce', NEW t \in Tokens, OnlyRebuilt(t),
         UNCHANGED <<canon, hand, stored, researched>>
  PROVE  Once'
<1>1. AppliedOnce'
  <2> SUFFICES ASSUME NEW u \in Tokens PROVE IsInjective(engine'.tokens[u].applied)
    BY DEF AppliedOnce
  <2>1. CASE u = t
    BY <2>1 DEF OnlyRebuilt
  <2>2. CASE u # t
    BY <2>2 DEF OnlyRebuilt, Once, AppliedOnce
  <2> QED
    BY <2>1, <2>2
<1>2. ASSUME NEW u \in Tokens, NEW x \in Applied(u)'
      PROVE  x \in Applied(u) \/ x \in canon
  <2>1. CASE u = t
    BY <1>2, <2>1 DEF OnlyRebuilt, Applied
  <2>2. CASE u # t
    BY <1>2, <2>2 DEF OnlyRebuilt, Applied
  <2> QED
    BY <2>1, <2>2
<1>3. Seen' \subseteq Seen
  BY DEF OnlyRebuilt, Seen
<1>4. \A e : Known(e)' => Known(e)
  BY <1>2, <1>3 DEF Known
<1>5. Unseen'
  BY <1>4 DEF Once, Unseen
<1> QED
  BY <1>1, <1>5 DEF Once

LEMMA OnceStep ==
  ASSUME Structure, Structure', Once, Next
  PROVE  Once'
<1>0. Base /\ Placed /\ Live(engine)
  BY DEF Structure
<1>1. /\ Ahead' \subseteq Ahead /\ JobOnce'
      /\ pc = "apply" => Head(job.rest) \in Ahead
      /\ apply_state => Head(job.rest) \notin Ahead'
      /\ pc = "store" => Head(job.rest) \notin Ahead
  BY AheadShrinks DEF Once
<1>2. ASSUME \/ \E r \in Raws : insert_raw(r) \/ insert_removed(r)
             \/ mark_orphaned \/ insert_rebuilt \/ Start \/ pass_time
             \/ \E t \in Tokens : load_token(t)
      PROVE  Once'
  <2>1. engine' = engine /\ UNCHANGED <<canon, hand, stored, researched>>
    BY <1>2 DEF insert_raw, insert_removed, mark_orphaned, insert_rebuilt, Start, pass_time,
       load_token, tick, db, ghosts
  <2> QED
    BY <1>1, <2>1, OnceQuiet
<1>3. ASSUME apply_state
      PROVE  Once'
  <2>e. PICK e : e = Head(job.rest)
    OBVIOUS
  <2>1. AppliedState
    BY <1>3, AppliesState
  <2>2. /\ Pushed(engine, engine', e, job'.keys) /\ e \in Events /\ pc = "apply"
        /\ UNCHANGED <<canon, hand, stored, researched>>
    BY <2>1, <2>e DEF AppliedState
  <2>3. e \in Ahead /\ e \notin Ahead'
    BY <1>1, <1>3, <2>2, <2>e
  <2> DEFINE t == TokenOf[e]
             a == engine.tokens[t].applied
  <2>4. /\ \A u \in Tokens \ {t} : engine'.tokens[u] = engine.tokens[u]
        /\ engine'.tokens[t].applied = a \/ engine'.tokens[t].applied = Append(a, e)
        /\ \A s \in engine'.snaps : \/ s \in engine.snaps
                                    \/ /\ engine.tokens[t].held
                                       /\ s = <<t, Origin(engine.tokens[t])>>
    <3>1. Changed(engine, engine', e, t)
      BY <1>0, <2>2, PushedIs
    <3> HIDE DEF t
    <3> QED
      BY <3>1 DEF Changed
  <2>5. t \in Tokens /\ a \in Seq(Events)
    BY <1>0, <2>2, EngineIs
  <2>6. IsInjective(a) /\ e \notin ToSet(a)
    BY <2>3, <2>5 DEF Once, AppliedOnce, Unseen, Known, Applied
  <2>7. engine.tokens[t].held => Origin(engine.tokens[t]) \in Applied(t)
    BY <1>0, <2>5, OriginApplied DEF Applied
  <2> HIDE DEF t
  <2>8. AppliedOnce'
    <3> SUFFICES ASSUME NEW u \in Tokens PROVE IsInjective(engine'.tokens[u].applied)
      BY DEF AppliedOnce
    <3>1. CASE u = t
      BY <2>2, <2>4, <2>5, <2>6, <3>1, AppendOnce
    <3>2. CASE u # t
      BY <2>4, <3>2 DEF Once, AppliedOnce
    <3> QED
      BY <3>1, <3>2
  <2>9. ASSUME NEW u \in Tokens, NEW x \in Applied(u)'
        PROVE  x \in Applied(u) \/ x = e
    <3>1. CASE u = t
      <4>1. ToSet(Append(a, e)) = ToSet(a) \cup {e}
        BY <2>2, <2>5, AppendedIs
      <4> QED
        BY <2>4, <2>9, <3>1, <4>1 DEF Applied
    <3>2. CASE u # t
      BY <2>4, <2>9, <3>2 DEF Applied
    <3> QED
      BY <3>1, <3>2
  <2>10. ASSUME NEW s \in Seen'
         PROVE  Known(s[2])
    <3>1. CASE s \in engine'.snaps
      <4>1. CASE s \in engine.snaps
        BY <4>1 DEF Known, Seen
      <4>2. CASE engine.tokens[t].held /\ s = <<t, Origin(engine.tokens[t])>>
        BY <2>5, <2>7, <4>2 DEF Known
      <4> QED
        BY <2>4, <3>1, <4>1, <4>2
    <3>2. CASE s \notin engine'.snaps
      BY <2>2, <2>10, <3>2 DEF Known, Seen
    <3> QED
      BY <3>1, <3>2
  <2>11. ASSUME NEW x, Known(x)'
         PROVE  Known(x) \/ x = e
    BY <2>2, <2>9, <2>10, <2>11 DEF Known
  <2>12. Unseen'
    BY <1>1, <2>3, <2>11, UnseenFrom DEF Once
  <2> QED
    BY <1>1, <2>8, <2>12 DEF Once
<1>4. ASSUME rebuild_token_state
      PROVE  Once'
  <2>1. RebuiltState
    BY <1>4, RebuildsState
  <2>k. PICK key : key = job.key
    OBVIOUS
  <2>2. PICK snaps : Rebuilt(engine, engine', snaps, key, canon \cap Of(key))
    BY <2>1, <2>k DEF RebuiltState
  <2>3. key \in Tokens /\ UNCHANGED <<canon, hand, stored, researched>>
    BY <2>1, <2>k DEF RebuiltState
  <2>4. OnlyRebuilt(key)
    BY <2>2 DEF OnlyRebuilt, Rebuilt
  <2> QED
    BY <1>1, <2>3, <2>4, OnceRebuilt
<1>5. ASSUME NEW t \in Tokens, hydrate_token(t)
      PROVE  Once'
  <2>1. HydratedToken(t)
    BY <1>5, HydratesToken
  <2>2. UNCHANGED <<canon, hand, stored, researched>>
    BY <2>1 DEF HydratedToken
  <2>3. CASE engine' = engine
    BY <1>1, <2>2, <2>3, OnceQuiet
  <2>4. CASE \E b : HydratedAs(engine', t, b)
    <3>1. OnlyRebuilt(t)
      BY <2>4 DEF OnlyRebuilt, HydratedAs, Rebuilt
    <3> QED
      BY <1>1, <2>2, <3>1, OnceRebuilt
  <2> QED
    BY <2>1, <2>3, <2>4 DEF HydratedToken
<1>6. ASSUME store_event
      PROVE  Once'
  <2>e. PICK e : e = Head(job.rest)
    OBVIOUS
  <2>1. StoredEvent
    BY <1>6, StoresEvent
  <2>2. /\ pc = "store" /\ canon' \in {canon, canon \cup {e}} /\ engine' = engine
        /\ UNCHANGED <<hand, stored, researched>>
    BY <2>1, <2>e DEF StoredEvent
  <2>3. e \notin Ahead'
    BY <1>1, <2>2, <2>e
  <2>4. \A x : Known(x)' => Known(x) \/ x = e
    BY <2>2 DEF Known, Applied, Seen
  <2>5. Unseen'
    BY <1>1, <2>3, <2>4, UnseenFrom DEF Once
  <2>6. AppliedOnce'
    BY <2>2 DEF Once, AppliedOnce
  <2> QED
    BY <1>1, <2>5, <2>6 DEF Once
<1>7. ASSUME live_tick
      PROVE  Once'
  <2>1. TickedLive
    BY <1>7, TicksLive
  <2>2. ASSUME NEW t \in Tokens
        PROVE  \/ engine'.tokens[t].applied = engine.tokens[t].applied
               \/ engine'.tokens[t].applied = <<>>
    BY <2>1, EvictedIs DEF TickedLive, Ticked
  <2>3. AppliedOnce'
    BY <2>2, EvictedIs DEF Once, AppliedOnce
  <2>4. ASSUME NEW t \in Tokens, NEW x \in Applied(t)'
        PROVE  x \in Applied(t)
    BY <2>2, <2>4, EvictedIs DEF Applied
  <2>5. ASSUME NEW s \in DueNow(engine, now)
        PROVE  Known(s[2])
    <3>1. PICK t \in Tokens : engine.tokens[t].held /\ s = <<t, Origin(engine.tokens[t])>>
      BY <2>5 DEF DueNow, MilestoneDue
    <3>2. s[2] \in Applied(t)
      BY <1>0, <3>1, OriginApplied DEF Applied
    <3> QED
      BY <3>2 DEF Known
  <2>6. ASSUME NEW s \in Seen'
        PROVE  Known(s[2])
    <3>1. s \in Seen \/ s \in DueNow(engine, now)
      BY <2>1, <2>6 DEF TickedLive, Seen
    <3> QED
      BY <2>5, <3>1 DEF Known
  <2>7. ASSUME NEW x \in Ahead' PROVE ~Known(x)'
    <3>1. ~Known(x)
      BY <1>1 DEF Once, Unseen
    <3> QED
      BY <2>1, <2>4, <2>6, <3>1 DEF Known, TickedLive
  <2> QED
    BY <1>1, <2>3, <2>7 DEF Once, Unseen
<1>8. ASSUME research \/ \E s \in Snapshots : persist_snapshot(s)
      PROVE  Once'
  <2>1. engine' = engine /\ canon' = canon /\ Seen' = Seen
    BY <1>8 DEF research, persist_snapshot, db, Seen
  <2>2. \A e : Known(e)' <=> Known(e)
    BY <2>1 DEF Known, Applied
  <2>3. Unseen' /\ AppliedOnce'
    BY <1>1, <2>1, <2>2 DEF Once, Unseen, AppliedOnce
  <2> QED
    BY <1>1, <2>3 DEF Once
<1>9. ASSUME Crash
      PROVE  Once'
  <2>1. /\ canon' = canon /\ researched' = researched /\ hand' = {} /\ stored' = {}
        /\ engine' = NewEngine
    BY <1>9 DEF Crash, db, ghosts
  <2>2. /\ engine'.snaps = {} /\ \A t \in Tokens : engine'.tokens[t].applied = <<>>
    BY <2>1, NewEngineLive, EvictedIs
  <2>3. \A t \in Tokens : Applied(t)' = {}
    BY <2>2, EvictedIs DEF Applied
  <2>4. Seen' \subseteq Seen
    BY <2>1, <2>2 DEF Seen
  <2>5. \A e : Known(e)' => Known(e)
    BY <2>1, <2>3, <2>4 DEF Known
  <2>6. Unseen'
    BY <1>1, <2>5 DEF Once, Unseen
  <2>7. AppliedOnce'
    BY <2>2, EvictedIs DEF AppliedOnce
  <2> QED
    BY <1>1, <2>6, <2>7 DEF Once
<1> QED
  BY <1>2, <1>3, <1>4, <1>5, <1>6, <1>7, <1>8, <1>9 DEF Next, Handle, Restore, Tick

-----------------------------------------------------------------------------
(* As long as nothing fails, what is stored is what the handled logs       *)
(* decode to.                                                              *)

InJob == IF Working THEN ToSet(job.rest) ELSE {}

Decoded ==
  healthy =>
    /\ \A r \in Raws : raw[r] = "SUCCESS" => EventsOf(r) \subseteq canon \cup InJob
    /\ \A e \in canon : \E r \in Raws : raw[r] = "SUCCESS" /\ e \in EventsOf(r)
    /\ Working => EventsOf(job.log) \subseteq canon \cup ToSet(job.rest)

LEMMA FaultSteps ==
  ASSUME Next
  PROVE  NoFault \/ Fault \/ UNCHANGED <<faults, healthy>>
BY DEF Next, Handle, Restore, Tick, bounds, insert_raw, insert_removed, mark_orphaned,
   apply_state, load_token, rebuild_token_state, insert_rebuilt, store_event, live_tick,
   persist_snapshot, research, Crash, Start, hydrate_token, pass_time

LEMMA StillHealthy ==
  ASSUME Next, healthy'
  PROVE  healthy
BY FaultSteps DEF NoFault, Fault

LEMMA DecodedQuiet ==
  ASSUME Decoded, healthy, UNCHANGED canon,
         \A q \in Raws : raw'[q] = "SUCCESS" <=> raw[q] = "SUCCESS",
         \/ Working /\ Working' /\ job'.rest = job.rest /\ job'.log = job.log
         \/ ~Working /\ ~Working'
  PROVE  Decoded'
<1>1. InJob' = InJob
  BY DEF InJob
<1> QED
  BY <1>1 DEF Decoded

LEMMA DecodedStep ==
  ASSUME Structure, Structure', JobOnce, Decoded, Next
  PROVE  Decoded'
<1> SUFFICES ASSUME healthy' PROVE Decoded'
  BY DEF Decoded
<1>0. /\ healthy /\ Base /\ Placed
      /\ \A r \in Raws : raw[r] = "SUCCESS" => EventsOf(r) \subseteq canon \cup InJob
      /\ \A e \in canon : \E r \in Raws : raw[r] = "SUCCESS" /\ e \in EventsOf(r)
      /\ Working => EventsOf(job.log) \subseteq canon \cup ToSet(job.rest)
  BY StillHealthy DEF Structure, Decoded
<1>1. ASSUME NEW r \in Raws, insert_raw(r)
      PROVE  Decoded'
  <2>1. InsertedRaw(r)
    BY <1>0, <1>1, InsertsRaw DEF Base
  <2>2. \A q \in Raws : raw'[q] = "SUCCESS" <=> raw[q] = "SUCCESS"
    BY <2>1 DEF InsertedRaw
  <2>3. pc = "idle" /\ canon' = canon /\ ~Working
    BY <2>1 DEF InsertedRaw, Working
  <2>4. CASE ~Working'
    BY <1>0, <2>2, <2>3, <2>4, DecodedQuiet
  <2>5. CASE Working'
    <3>1. job'.log = r /\ job'.rest = Decode[r]
      BY <2>1, <2>5, NoJobIs DEF InsertedRaw, Working
    <3>2. InJob = {}
      BY <2>3 DEF InJob
    <3> QED
      BY <1>0, <2>2, <2>3, <3>1, <3>2 DEF Decoded, EventsOf
  <2> QED
    BY <2>4, <2>5
<1>2. ASSUME NEW r \in Raws, insert_removed(r)
      PROVE  Decoded'
  <2>1. InsertedRemoved(r)
    BY <1>0, <1>2, InsertsRemoved DEF Base
  <2>2. \A q \in Raws : raw'[q] = "SUCCESS" <=> raw[q] = "SUCCESS"
    BY <2>1 DEF InsertedRemoved
  <2>3. canon' = canon /\ ~Working /\ ~Working'
    BY <2>1 DEF InsertedRemoved, Working
  <2> QED
    BY <1>0, <2>2, <2>3, DecodedQuiet
<1>3. ASSUME mark_orphaned
      PROVE  Decoded'
  <2>1. canon' = canon /\ ~Working /\ ~Working'
    BY <1>3 DEF mark_orphaned, Idle, Goto, Working
  <2>2. job.log \in Raws /\ raw[job.log] = "PENDING" /\ raw \in [Raws -> RawStatuses]
    BY <1>0, <1>3 DEF mark_orphaned, Placed, Base
  <2>3. \A q \in Raws : raw'[q] = "SUCCESS" <=> raw[q] = "SUCCESS"
    BY <1>3, <2>2 DEF mark_orphaned
  <2> QED
    BY <1>0, <2>1, <2>3, DecodedQuiet
<1>4. ASSUME apply_state \/ rebuild_token_state \/ insert_rebuilt
             \/ \E t \in Tokens : load_token(t)
      PROVE  Decoded'
  <2>1. /\ raw' = raw /\ canon' = canon /\ job'.rest = job.rest /\ job'.log = job.log
        /\ Working /\ Working'
    <3>1. CASE apply_state
      BY <3>1, AppliesState DEF AppliedState, Working
    <3>2. CASE rebuild_token_state
      BY <3>2, RebuildsState DEF RebuiltState, Working
    <3>3. CASE insert_rebuilt
      BY <3>3, InsertsRebuilt DEF InsertedRebuilt, Working
    <3>4. ASSUME NEW t \in Tokens, load_token(t)
          PROVE  /\ raw' = raw /\ canon' = canon /\ job'.rest = job.rest
                 /\ job'.log = job.log /\ Working /\ Working'
      BY <3>4, Loads DEF Loaded, Working
    <3> QED
      BY <1>4, <3>1, <3>2, <3>3, <3>4
  <2> QED
    BY <1>0, <2>1, DecodedQuiet
<1>5. ASSUME store_event
      PROVE  Decoded'
  <2> DEFINE e == Head(job.rest)
             left == Tail(job.rest)
  <2>1. StoredEvent
    BY <1>5, StoresEvent
  <2>2. /\ pc = "store" /\ job.log \in Raws /\ \A q \in Raws \ {job.log} : raw'[q] = raw[q]
        /\ raw'[job.log] = "SUCCESS" /\ canon' = canon \cup {e}
        /\ \/ left = <<>> /\ pc' = "idle"
           \/ pc' = "apply" /\ job'.log = job.log /\ job'.rest = left
    BY <2>1 DEF StoredEvent, Fault
  <2>3. /\ Working /\ ToSet(job.rest) = {e} \cup ToSet(left)
        /\ ToSet(job.rest) \subseteq EventsOf(job.log)
    <3>1. Working
      BY <2>2 DEF Working
    <3>2. job.rest \in Seq(Events) /\ job.rest # <<>>
      BY <1>0, <3>1 DEF Base, Placed, Job
    <3> QED
      BY <3>1, <3>2, HeadAndTail DEF JobOnce
  <2> HIDE DEF e, left
  <2>4. InJob' = ToSet(left) /\ InJob = ToSet(job.rest)
    BY <2>2, <2>3, EvictedIs DEF InJob, Working
  <2>5. ASSUME NEW q \in Raws, raw'[q] = "SUCCESS"
        PROVE  EventsOf(q) \subseteq canon' \cup InJob'
    <3>1. EventsOf(q) \subseteq canon \cup ToSet(job.rest)
      BY <1>0, <2>2, <2>3, <2>4, <2>5
    <3> QED
      BY <2>2, <2>3, <2>4, <3>1
  <2>6. ASSUME NEW x \in canon'
        PROVE  \E r \in Raws : raw'[r] = "SUCCESS" /\ x \in EventsOf(r)
    <3>1. CASE x = e
      BY <2>2, <2>3, <3>1
    <3>2. CASE x \in canon
      BY <1>0, <2>2, <3>2
    <3> QED
      BY <2>2, <2>6, <3>1, <3>2
  <2>7. Working' => EventsOf(job'.log) \subseteq canon' \cup ToSet(job'.rest)
    BY <1>0, <2>2, <2>3 DEF Working
  <2> QED
    BY <2>5, <2>6, <2>7 DEF Decoded
<1>6. ASSUME live_tick \/ research \/ pass_time \/ \E s \in Snapshots : persist_snapshot(s)
      PROVE  Decoded'
  <2>1. raw' = raw /\ canon' = canon /\ pc' = pc /\ job' = job
    BY <1>6 DEF live_tick, research, pass_time, persist_snapshot, db
  <2>2. Working' <=> Working
    BY <2>1 DEF Working
  <2> QED
    BY <1>0, <2>1, <2>2, DecodedQuiet
<1>7. ~Crash
  BY DEF Crash, Fault
<1>8. ASSUME Start
      PROVE  Decoded'
  <2>1. canon' = canon /\ raw' = raw /\ ~Working /\ ~Working'
    BY <1>8, Starts DEF Booted, Working
  <2> QED
    BY <1>0, <2>1, DecodedQuiet
<1>9. ASSUME NEW t \in Tokens, hydrate_token(t)
      PROVE  Decoded'
  <2>1. canon' = canon /\ raw' = raw /\ ~Working /\ ~Working'
    BY <1>9, HydratesToken DEF HydratedToken, Working
  <2> QED
    BY <1>0, <2>1, DecodedQuiet
<1> QED
  BY <1>1, <1>2, <1>3, <1>4, <1>5, <1>6, <1>7, <1>8, <1>9 DEF Next, Handle, Restore, Tick

LEMMA DecodedStored == Decoded => StoredIsDecoded
<1> SUFFICES ASSUME Decoded, healthy, pc = "idle"
             PROVE  canon = UNION {EventsOf(r) : r \in {x \in Raws : raw[x] = "SUCCESS"}}
  BY DEF StoredIsDecoded
<1>1. InJob = {}
  BY DEF InJob, Working
<1>2. \A r \in Raws : raw[r] = "SUCCESS" => EventsOf(r) \subseteq canon
  BY <1>1 DEF Decoded
<1>3. \A e \in canon : \E r \in Raws : raw[r] = "SUCCESS" /\ e \in EventsOf(r)
  BY DEF Decoded
<1> QED
  BY <1>2, <1>3

-----------------------------------------------------------------------------
(* As long as nothing fails, an emitted milestone is somewhere.            *)

Accounted ==
  healthy =>
    /\ \A t \in Tokens : engine.tokens[t].emitted => \E s \in Seen \cup diverted : s[1] = t
    /\ pc = "down" => canon = {}
    /\ pc # "hydrate"

(* A milestone is marked when, and only when, its snapshot is taken.       *)
Marked(g, h, t) ==
  \/ h.snaps = g.snaps /\ (h.tokens[t].emitted <=> g.tokens[t].emitted)
  \/ /\ g.tokens[t].held /\ ~g.tokens[t].emitted /\ h.tokens[t].emitted
     /\ h.snaps = g.snaps \cup {<<t, Origin(g.tokens[t])>>}

LEMMA PushedMarks ==
  ASSUME NEW g, NEW h, NEW e \in Events, NEW keys, Pushed(g, h, e, keys)
  PROVE  Marked(g, h, TokenOf[e])
<1> DEFINE t == TokenOf[e]
           due == MilestoneDue(g.tokens[t], TimeOf[e])
<1>1. PICK p : /\ Took(g, p, e) \/ Delayed(g, p, e)
               /\ h.tokens = p.tokens /\ h.snaps = p.snaps
  BY DEF Pushed
<1>2. CASE Took(g, p, e)
  <2>1. /\ p.snaps = IF due THEN g.snaps \cup {<<t, Origin(g.tokens[t])>>} ELSE g.snaps
        /\ (p.tokens[t].emitted <=> g.tokens[t].emitted \/ due)
    BY <1>2 DEF Took
  <2>2. due => g.tokens[t].held /\ ~g.tokens[t].emitted
    BY DEF MilestoneDue
  <2> HIDE DEF due, t
  <2>3. CASE due
    BY <1>1, <2>1, <2>2, <2>3, Zenon DEF Marked, t
  <2>4. CASE ~due
    BY <1>1, <2>1, <2>2, <2>4, Zenon DEF Marked, t
  <2> QED
    BY <2>3, <2>4
<1>3. CASE Delayed(g, p, e)
  BY <1>1, <1>3 DEF Delayed, Marked
<1> QED
  BY <1>1, <1>2, <1>3

(* A step that leaves the engine alone and loses no snapshot.              *)
LEMMA AccountedQuiet ==
  ASSUME Accounted, healthy, engine' = engine, Seen \subseteq Seen', diverted' = diverted,
         pc' = "down" => canon' = {}, pc' # "hydrate"
  PROVE  Accounted'
BY DEF Accounted

LEMMA AccountedStep ==
  ASSUME Structure, Structure', Accounted, Next
  PROVE  Accounted'
<1> SUFFICES ASSUME healthy' PROVE Accounted'
  BY DEF Accounted
<1>0. /\ healthy /\ Base /\ Placed /\ Live(engine)
      /\ \A t \in Tokens : engine.tokens[t].emitted => \E s \in Seen \cup diverted : s[1] = t
      /\ pc = "down" => canon = {}
      /\ pc # "hydrate"
  BY StillHealthy DEF Structure, Accounted
<1>1. ASSUME \/ \E r \in Raws : insert_raw(r) \/ insert_removed(r)
             \/ mark_orphaned \/ insert_rebuilt \/ store_event
             \/ \E t \in Tokens : load_token(t)
      PROVE  Accounted'
  <2>1. engine' = engine /\ UNCHANGED <<hand, stored, researched, diverted>>
    BY <1>1 DEF insert_raw, insert_removed, mark_orphaned, insert_rebuilt, load_token,
       store_event, tick, db, ghosts
  <2>2. pc' \notin {"down", "hydrate"}
    <3>1. ASSUME NEW r \in Raws, insert_raw(r) PROVE pc' \notin {"down", "hydrate"}
      BY <1>0, <3>1, InsertsRaw DEF InsertedRaw, Base
    <3>2. ASSUME NEW r \in Raws, insert_removed(r) PROVE pc' \notin {"down", "hydrate"}
      BY <1>0, <3>2, InsertsRemoved DEF InsertedRemoved, Base
    <3>3. mark_orphaned => pc' = "idle"
      BY DEF mark_orphaned, Idle, Goto
    <3>4. insert_rebuilt => pc' \notin {"down", "hydrate"}
      BY InsertsRebuilt DEF InsertedRebuilt
    <3>5. store_event => pc' \notin {"down", "hydrate"}
      BY StoresEvent DEF StoredEvent
    <3>6. ASSUME NEW t \in Tokens, load_token(t) PROVE pc' \notin {"down", "hydrate"}
      BY <3>6, Loads DEF Loaded
    <3> QED
      BY <1>1, <3>1, <3>2, <3>3, <3>4, <3>5, <3>6
  <2>3. Seen \subseteq Seen'
    BY <2>1 DEF Seen
  <2> QED
    BY <1>0, <2>1, <2>2, <2>3, AccountedQuiet
<1>2. ASSUME apply_state
      PROVE  Accounted'
  <2>e. PICK e : e = Head(job.rest)
    OBVIOUS
  <2>1. AppliedState
    BY <1>2, AppliesState
  <2>2. /\ Pushed(engine, engine', e, job'.keys) /\ e \in Events
        /\ UNCHANGED <<hand, stored, researched, diverted>>
        /\ pc' \notin {"down", "hydrate"}
    BY <2>1, <2>e DEF AppliedState
  <2> DEFINE t == TokenOf[e]
  <2>3. Changed(engine, engine', e, t) /\ Marked(engine, engine', t)
    BY <1>0, <2>2, PushedIs, PushedMarks
  <2> HIDE DEF t
  <2>4. Seen \subseteq Seen'
    BY <2>2, <2>3 DEF Changed, Seen
  <2>5. ASSUME NEW u \in Tokens, engine'.tokens[u].emitted
        PROVE  \E s \in Seen' \cup diverted' : s[1] = u
    <3>1. CASE engine.tokens[u].emitted
      BY <1>0, <2>2, <2>4, <3>1
    <3>2. CASE ~engine.tokens[u].emitted
      <4>1. u = t
        BY <2>3, <2>5, <3>2 DEF Changed
      <4>2. <<t, Origin(engine.tokens[t])>> \in Seen'
        BY <2>3, <2>5, <3>2, <4>1 DEF Marked, Seen
      <4> QED
        BY <4>1, <4>2
    <3> QED
      BY <3>1, <3>2
  <2> QED
    BY <2>2, <2>5 DEF Accounted
<1>3. ASSUME rebuild_token_state
      PROVE  Accounted'
  <2>1. RebuiltState
    BY <1>3, RebuildsState
  <2>k. PICK key : key = job.key
    OBVIOUS
  <2>2. PICK snaps : /\ Rebuilt(engine, engine', snaps, key, canon \cap Of(key))
                     /\ diverted' = diverted \cup snaps
    BY <2>1, <2>k DEF RebuiltState
  <2>3. /\ key \in Tokens /\ UNCHANGED <<hand, stored, researched>>
        /\ pc' \notin {"down", "hydrate"}
    BY <2>1, <2>k DEF RebuiltState
  <2> DEFINE mine == <<key, Origin(engine'.tokens[key])>>
  <2>4. /\ \A u \in Tokens \ {key} : engine'.tokens[u] = engine.tokens[u]
        /\ engine.snaps \subseteq engine'.snaps \cup snaps
        /\ engine'.tokens[key].emitted => mine \in snaps
    <3>1. CASE canon \cap Of(key) = {}
      BY <2>2, <3>1, EvictedIs DEF Rebuilt
    <3>2. CASE canon \cap Of(key) # {}
      BY <2>2, <3>2 DEF Rebuilt
    <3> QED
      BY <3>1, <3>2
  <2>5. mine[1] = key
    OBVIOUS
  <2> HIDE DEF mine
  <2>6. Seen \cup diverted \subseteq Seen' \cup diverted'
    BY <2>2, <2>3, <2>4 DEF Seen
  <2>7. ASSUME NEW u \in Tokens, engine'.tokens[u].emitted
        PROVE  \E s \in Seen' \cup diverted' : s[1] = u
    <3>1. CASE u = key
      BY <2>2, <2>4, <2>5, <2>7, <3>1
    <3>2. CASE u # key
      BY <1>0, <2>4, <2>6, <2>7, <3>2
    <3> QED
      BY <3>1, <3>2
  <2> QED
    BY <2>3, <2>7 DEF Accounted
<1>4. ASSUME live_tick
      PROVE  Accounted'
  <2>1. TickedLive
    BY <1>4, TicksLive
  <2>2. /\ hand' = engine.snaps \cup DueNow(engine, now) /\ hand = {} /\ stored' = stored
        /\ researched' = researched /\ diverted' = diverted
        /\ pc' = pc /\ canon' = canon
        /\ \A t \in Tokens : Ticked(engine.tokens[t], engine'.tokens[t], now)
    BY <2>1 DEF TickedLive
  <2>3. Seen \subseteq Seen'
    BY <2>2 DEF Seen
  <2>4. ASSUME NEW u \in Tokens, engine'.tokens[u].emitted
        PROVE  \E s \in Seen' \cup diverted' : s[1] = u
    <3>1. engine.tokens[u].emitted \/ MilestoneDue(engine.tokens[u], now)
      BY <2>2, <2>4, EvictedIs DEF Ticked
    <3>2. CASE engine.tokens[u].emitted
      BY <1>0, <2>2, <2>3, <3>2
    <3>3. CASE MilestoneDue(engine.tokens[u], now)
      <4>1. <<u, Origin(engine.tokens[u])>> \in DueNow(engine, now)
        BY <3>3 DEF DueNow
      <4>2. <<u, Origin(engine.tokens[u])>> \in Seen'
        BY <2>2, <4>1 DEF Seen
      <4> QED
        BY <4>2
    <3> QED
      BY <3>1, <3>2, <3>3
  <2> QED
    BY <1>0, <2>2, <2>4 DEF Accounted
<1>5. ASSUME research \/ pass_time \/ \E s \in Snapshots : persist_snapshot(s)
      PROVE  Accounted'
  <2>1. engine' = engine /\ canon' = canon /\ pc' = pc /\ Seen' = Seen /\ diverted' = diverted
    BY <1>5 DEF research, persist_snapshot, pass_time, db, tick, ghosts, Seen
  <2> QED
    BY <1>0, <2>1, AccountedQuiet
<1>6. ~Crash
  BY DEF Crash, Fault
<1>7. ASSUME Start
      PROVE  Accounted'
  <2>1. Booted
    BY <1>7, Starts
  <2>2. /\ engine' = engine /\ pc' = "idle" /\ diverted' = diverted /\ Seen' = Seen
    BY <1>0, <2>1 DEF Booted, Seen
  <2> QED
    BY <1>0, <2>2, AccountedQuiet
<1>8. ASSUME NEW t \in Tokens, hydrate_token(t)
      PROVE  Accounted'
  BY <1>0, <1>8 DEF hydrate_token
<1> QED
  BY <1>1, <1>2, <1>3, <1>4, <1>5, <1>6, <1>7, <1>8 DEF Next, Handle, Restore, Tick

LEMMA AccountedHolds == Accounted => MilestoneAccounted
<1>1. \A S, t : (\E s \in S : s[1] = t) => t \in TokensOf(S)
  BY DEF TokensOf
<1> QED
  BY <1>1 DEF Accounted, MilestoneAccounted, Seen

-----------------------------------------------------------------------------
(* A milestone does not reach research twice for one origin.               *)

(* What is on its way to research, or there, has a row; a token whose      *)
(* present origin was ever announced is marked; no snapshot is in two      *)
(* places.                                                                 *)
Rowed(t)    == \A s \in stored \cup researched : s[1] = t => t \in rows
MarkedAs(t) == \A s \in Seen : /\ s[1] = t /\ engine.tokens[t].held
                               /\ Origin(engine.tokens[t]) = s[2]
                               => engine.tokens[t].emitted
OnePlace(t) == \A s : s[1] = t =>
                 /\ s \in engine.snaps => s \notin hand \cup stored \cup researched
                 /\ s \in hand => s \notin stored \cup researched
                 /\ s \in stored => s \notin researched
Fenced == /\ twice \subseteq excused
          /\ \A t \in Tokens \ excused : Rowed(t) /\ MarkedAs(t) /\ OnePlace(t)

LEMMA FencedQuiet ==
  ASSUME Fenced, engine' = engine, UNCHANGED <<hand, stored, researched, twice>>,
         excused \subseteq excused', rows \subseteq rows' \cup excused'
  PROVE  Fenced'
<1> SUFFICES ASSUME NEW t \in Tokens \ excused'
             PROVE  Rowed(t)' /\ MarkedAs(t)' /\ OnePlace(t)'
  BY DEF Fenced
<1>1. Rowed(t) /\ MarkedAs(t) /\ OnePlace(t)
  BY DEF Fenced
<1>2. Rowed(t)'
  BY <1>1 DEF Rowed
<1>3. MarkedAs(t)' /\ OnePlace(t)'
  BY <1>1 DEF MarkedAs, OnePlace, Seen
<1> QED
  BY <1>2, <1>3

LEMMA FencedStep ==
  ASSUME Structure, Structure', Once, Fenced, Next
  PROVE  Fenced'
<1>0. /\ Base /\ Placed /\ Live(engine) /\ twice \subseteq excused
      /\ \A t \in Tokens \ excused : Rowed(t) /\ MarkedAs(t) /\ OnePlace(t)
  BY DEF Structure, Fenced
<1>1. ASSUME \/ \E r \in Raws : insert_raw(r) \/ insert_removed(r)
             \/ mark_orphaned \/ insert_rebuilt \/ store_event \/ Start \/ pass_time
             \/ \E t \in Tokens : load_token(t)
      PROVE  Fenced'
  <2>1. engine' = engine /\ UNCHANGED <<hand, stored, researched, twice>>
    BY <1>1 DEF insert_raw, insert_removed, mark_orphaned, insert_rebuilt, load_token,
       store_event, Start, pass_time, tick, db, ghosts
  <2>2. excused \subseteq excused' /\ rows \subseteq rows' \cup excused'
    <3>1. CASE insert_rebuilt
      BY <3>1, InsertsRebuilt DEF InsertedRebuilt
    <3>2. ASSUME NEW t \in Tokens, load_token(t)
          PROVE  excused \subseteq excused' /\ rows \subseteq rows' \cup excused'
      BY <3>2, Loads DEF Loaded
    <3>3. ASSUME \/ \E r \in Raws : insert_raw(r) \/ insert_removed(r)
                 \/ mark_orphaned \/ store_event \/ Start \/ pass_time
          PROVE  excused' = excused /\ rows' = rows
      BY <3>3 DEF insert_raw, insert_removed, mark_orphaned, store_event, Start, pass_time,
         db, ghosts
    <3> QED
      BY <1>1, <3>1, <3>2, <3>3
  <2> QED
    BY <2>1, <2>2, FencedQuiet
<1>2. ASSUME apply_state
      PROVE  Fenced'
  <2>e. PICK e : e = Head(job.rest)
    OBVIOUS
  <2>1. AppliedState
    BY <1>2, AppliesState
  <2>2. /\ Pushed(engine, engine', e, job'.keys) /\ e \in Events /\ pc = "apply"
        /\ UNCHANGED <<hand, stored, researched, twice, excused, rows>>
    BY <2>1, <2>e DEF AppliedState
  <2>3. \A s \in Seen : s[2] # e
    <3>1. e \in Ahead
      BY <2>2, <2>e, AheadShrinks DEF Once
    <3> QED
      BY <3>1 DEF Once, Unseen, Known
  <2>t. PICK t : t = TokenOf[e]
    OBVIOUS
  <2>4. Changed(engine, engine', e, t) /\ Marked(engine, engine', t) /\ t \in Tokens
    BY <1>0, <2>2, <2>t, PushedIs, PushedMarks
  <2> DEFINE old == engine.tokens[t]
             new == engine'.tokens[t]
             mine == <<t, Origin(old)>>
  <2>5. /\ old.applied \in Seq(Events) /\ (old.held <=> old.applied # <<>>)
        /\ new.applied \in Seq(Events) /\ (new.held <=> new.applied # <<>>)
    <3>1. Live(engine')
      BY DEF Structure
    <3> QED
      BY <1>0, <2>4, <3>1, EngineIs DEF Shape
  <2>6. new.held => IF old.held THEN Origin(new) = Origin(old) ELSE Origin(new) = e
    <3>1. CASE new.applied = old.applied
      BY <2>5, <3>1 DEF Origin
    <3>2. CASE new.applied = Append(old.applied, e)
      <4> DEFINE a == old.applied
      <4>1. a \in Seq(Events) /\ new.applied = Append(a, e)
        BY <2>5, <3>2
      <4> HIDE DEF a
      <4>2. IF a # <<>> THEN Head(Append(a, e)) = Head(a) ELSE Head(Append(a, e)) = e
        BY <2>2, <4>1
      <4> QED
        BY <2>5, <4>1, <4>2 DEF Origin, a
    <3> QED
      BY <2>4, <3>1, <3>2 DEF Changed
  <2>7. ASSUME NEW u \in Tokens \ excused', u # t
        PROVE  Rowed(u)' /\ MarkedAs(u)' /\ OnePlace(u)'
    <3>1. Rowed(u) /\ MarkedAs(u) /\ OnePlace(u) /\ engine'.tokens[u] = engine.tokens[u]
      BY <1>0, <2>2, <2>4, <2>7 DEF Changed
    <3>2. \A s : s[1] = u => (s \in engine'.snaps <=> s \in engine.snaps)
      BY <2>4, <2>7 DEF Changed
    <3>3. \A s : s[1] = u => (s \in Seen' <=> s \in Seen)
      BY <2>2, <3>2 DEF Seen
    <3>4. Rowed(u)'
      BY <2>2, <3>1 DEF Rowed
    <3>5. MarkedAs(u)'
      BY <3>1, <3>3 DEF MarkedAs
    <3>6. OnePlace(u)'
      BY <2>2, <3>1, <3>2 DEF OnePlace
    <3> QED
      BY <3>4, <3>5, <3>6
  <2>8. ASSUME t \notin excused'
        PROVE  Rowed(t)' /\ MarkedAs(t)' /\ OnePlace(t)'
    <3>1. Rowed(t) /\ MarkedAs(t) /\ OnePlace(t)
      BY <1>0, <2>2, <2>4, <2>8
    <3>2. Rowed(t)'
      BY <2>2, <3>1 DEF Rowed
    <3>3. CASE engine'.snaps = engine.snaps /\ (new.emitted <=> old.emitted)
      <4>1. Seen' = Seen
        BY <2>2, <3>3 DEF Seen
      <4>2. OnePlace(t)'
        BY <2>2, <3>1, <3>3 DEF OnePlace
      <4>3. ASSUME NEW s \in Seen', s[1] = t, new.held, Origin(new) = s[2]
            PROVE  new.emitted
        <5>1. old.held /\ Origin(old) = s[2]
          BY <2>3, <2>6, <4>1, <4>3
        <5> QED
          BY <3>1, <3>3, <4>1, <4>3, <5>1 DEF MarkedAs
      <4>4. MarkedAs(t)'
        BY <4>3 DEF MarkedAs
      <4> QED
        BY <3>2, <4>2, <4>4
    <3>4. CASE /\ old.held /\ ~old.emitted /\ new.emitted
               /\ engine'.snaps = engine.snaps \cup {mine}
      <4>1. MarkedAs(t)'
        BY <3>4 DEF MarkedAs
      <4>2. mine \notin Seen
        <5>1. mine[1] = t /\ mine[2] = Origin(old)
          OBVIOUS
        <5> HIDE DEF mine
        <5> QED
          BY <3>1, <3>4, <5>1 DEF MarkedAs
      <4> HIDE DEF mine
      <4>3. OnePlace(t)'
        BY <2>2, <3>1, <3>4, <4>2 DEF OnePlace, Seen
      <4> QED
        BY <3>2, <4>1, <4>3
    <3> QED
      BY <2>4, <3>3, <3>4 DEF Marked
  <2> QED
    BY <1>0, <2>2, <2>7, <2>8 DEF Fenced
<1>3. ASSUME NEW key \in Tokens, \A u \in Tokens \ {key} : engine'.tokens[u] = engine.tokens[u],
             engine'.snaps \subseteq engine.snaps, excused \subseteq excused', rows' = rows,
             UNCHANGED <<hand, stored, researched, twice>>,
             key \in excused' \/ MarkedAs(key)'
      PROVE  Fenced'
  <2> SUFFICES ASSUME NEW t \in Tokens \ excused'
               PROVE  Rowed(t)' /\ MarkedAs(t)' /\ OnePlace(t)'
    BY <1>0, <1>3 DEF Fenced
  <2>1. Rowed(t) /\ MarkedAs(t) /\ OnePlace(t)
    BY <1>0, <1>3
  <2>2. Rowed(t)'
    BY <1>3, <2>1 DEF Rowed
  <2>3. OnePlace(t)'
    BY <1>3, <2>1 DEF OnePlace
  <2>4. Seen' \subseteq Seen
    BY <1>3 DEF Seen
  <2>5. MarkedAs(t)'
    <3>1. CASE t = key
      BY <1>3, <3>1
    <3>2. CASE t # key
      BY <1>3, <2>1, <2>4, <3>2 DEF MarkedAs
    <3> QED
      BY <3>1, <3>2
  <2> QED
    BY <2>2, <2>3, <2>5
<1>4. ASSUME rebuild_token_state
      PROVE  Fenced'
  <2>1. RebuiltState
    BY <1>4, RebuildsState
  <2>k. PICK key : key = job.key
    OBVIOUS
  <2>2. PICK snaps : Rebuilt(engine, engine', snaps, key, canon \cap Of(key))
    BY <2>1, <2>k DEF RebuiltState
  <2>3. /\ key \in Tokens /\ key \in excused'
        /\ UNCHANGED <<hand, stored, researched, twice, excused, rows>>
    BY <2>1, <2>k DEF RebuiltState
  <2>4. /\ \A u \in Tokens \ {key} : engine'.tokens[u] = engine.tokens[u]
        /\ engine'.snaps \subseteq engine.snaps
    BY <2>2 DEF Rebuilt
  <2> QED
    BY <1>3, <2>3, <2>4
<1>5. ASSUME NEW t \in Tokens, hydrate_token(t)
      PROVE  Fenced'
  <2>1. HydratedToken(t)
    BY <1>5, HydratesToken
  <2>2. /\ hand = {} /\ stored = {} /\ engine.snaps = {} /\ engine'.snaps = {}
        /\ UNCHANGED <<hand, stored, researched, twice, rows>>
    BY <1>0, <2>1 DEF HydratedToken, Placed
  <2>3. CASE excused' = excused /\ engine' = engine
    BY <2>2, <2>3, FencedQuiet
  <2>4. ASSUME NEW b, HydratedAs(engine', t, b)
        PROVE  \A u \in Tokens \ {t} : engine'.tokens[u] = engine.tokens[u]
    BY <2>4 DEF HydratedAs, Rebuilt
  <2>5. CASE excused' = excused \cup {t} /\ HydratedAs(engine', t, FALSE)
    BY <1>3, <2>2, <2>4, <2>5
  <2>6. CASE excused' = excused /\ HydratedAs(engine', t, t \in rows)
    <3>1. (t \in rows) => engine'.tokens[t].emitted
      BY <2>6, Zenon DEF HydratedAs
    <3>2. t \notin excused => Rowed(t)
      BY <1>0
    <3>3. Seen' = researched
      BY <2>2 DEF Seen
    <3>4. t \notin excused => MarkedAs(t)'
      BY <3>1, <3>2, <3>3 DEF MarkedAs, Rowed
    <3> QED
      BY <1>3, <2>2, <2>4, <2>6, <3>4
  <2> QED
    BY <2>1, <2>3, <2>5, <2>6 DEF HydratedToken
<1>6. ASSUME live_tick
      PROVE  Fenced'
  <2>1. TickedLive
    BY <1>6, TicksLive
  <2> DEFINE due == DueNow(engine, now)
  <2>2. /\ hand' = engine.snaps \cup due /\ hand = {} /\ stored = {} /\ stored' = {}
        /\ engine'.snaps = {}
        /\ UNCHANGED <<researched, twice, excused, rows>>
        /\ \A t \in Tokens : Ticked(engine.tokens[t], engine'.tokens[t], now)
    BY <2>1 DEF TickedLive
  <2>3. \A s \in due : \E t \in Tokens : MilestoneDue(engine.tokens[t], now)
                                         /\ s = <<t, Origin(engine.tokens[t])>>
    BY DEF DueNow
  <2> HIDE DEF due
  <2> SUFFICES ASSUME NEW t \in Tokens \ excused'
               PROVE  Rowed(t)' /\ MarkedAs(t)' /\ OnePlace(t)'
    BY <1>0, <2>2 DEF Fenced
  <2> DEFINE old == engine.tokens[t]
             new == engine'.tokens[t]
  <2>4. Rowed(t) /\ MarkedAs(t) /\ OnePlace(t)
    BY <1>0, <2>2
  <2>5. \A s \in due : s[1] = t =>
          MilestoneDue(old, now) /\ s[2] = Origin(old) /\ old.held /\ ~old.emitted
    BY <2>3 DEF MilestoneDue
  <2>6. Rowed(t)'
    BY <2>2, <2>4 DEF Rowed
  <2>7. Seen' = Seen \cup due
    BY <2>2 DEF Seen
  <2>8. \A s \in due : s[1] = t => s \notin Seen
    BY <2>4, <2>5 DEF MarkedAs
  <2>9. OnePlace(t)'
    BY <2>2, <2>4, <2>8 DEF OnePlace, Seen
  <2>10. ASSUME NEW s \in Seen', s[1] = t, new.held, Origin(new) = s[2]
         PROVE  new.emitted
    <3>1. /\ old.held /\ Origin(old) = s[2]
          /\ (new.emitted <=> old.emitted \/ MilestoneDue(old, now))
      BY <2>2, <2>10, EvictedIs DEF Ticked, Origin
    <3>2. CASE s \in Seen
      BY <2>4, <2>10, <3>1, <3>2 DEF MarkedAs
    <3>3. CASE s \in due
      BY <2>5, <2>10, <3>1, <3>3
    <3> QED
      BY <2>7, <3>2, <3>3
  <2>11. MarkedAs(t)'
    BY <2>10 DEF MarkedAs
  <2> QED
    BY <2>6, <2>9, <2>11
<1>7. ASSUME NEW s \in Snapshots, persist_snapshot(s)
      PROVE  Fenced'
  <2>1. /\ s \in hand /\ stored = {} /\ hand' = hand \ {s} /\ stored' = {s}
        /\ rows' = rows \cup {s[1]} \/ excused' = excused \cup {s[1]}
        /\ rows \subseteq rows' /\ excused \subseteq excused'
        /\ engine' = engine /\ UNCHANGED <<researched, twice>>
    BY <1>7 DEF persist_snapshot
  <2> SUFFICES ASSUME NEW t \in Tokens \ excused'
               PROVE  Rowed(t)' /\ MarkedAs(t)' /\ OnePlace(t)'
    BY <1>0, <2>1 DEF Fenced
  <2>2. Rowed(t) /\ MarkedAs(t) /\ OnePlace(t)
    BY <1>0, <2>1
  <2>3. Rowed(t)'
    BY <2>1, <2>2 DEF Rowed
  <2>4. Seen' = Seen
    BY <2>1 DEF Seen
  <2>5. MarkedAs(t)'
    BY <2>1, <2>2, <2>4 DEF MarkedAs
  <2>6. OnePlace(t)'
    BY <2>1, <2>2 DEF OnePlace
  <2> QED
    BY <2>3, <2>5, <2>6
<1>8. ASSUME research
      PROVE  Fenced'
  <2>1. /\ stored' = {} /\ researched' = researched \cup stored
        /\ twice' = twice \cup TokensOf(stored \cap researched)
        /\ engine' = engine /\ UNCHANGED <<hand, rows, excused>>
    BY <1>8 DEF research, db
  <2>2. twice' \subseteq excused'
    <3>1. ASSUME NEW s \in stored \cap researched PROVE s[1] \in excused
      <4>1. s[1] \in Tokens
        BY <1>0 DEF Base, Snapshots
      <4> QED
        BY <1>0, <4>1 DEF OnePlace
    <3> QED
      BY <1>0, <2>1, <3>1 DEF TokensOf
  <2> SUFFICES ASSUME NEW t \in Tokens \ excused'
               PROVE  Rowed(t)' /\ MarkedAs(t)' /\ OnePlace(t)'
    BY <2>2 DEF Fenced
  <2>3. Rowed(t) /\ MarkedAs(t) /\ OnePlace(t)
    BY <1>0, <2>1
  <2>4. Rowed(t)'
    BY <2>1, <2>3 DEF Rowed
  <2>5. Seen' = Seen
    BY <2>1 DEF Seen
  <2>6. MarkedAs(t)'
    BY <2>1, <2>3, <2>5 DEF MarkedAs
  <2>7. OnePlace(t)'
    BY <2>1, <2>3 DEF OnePlace
  <2> QED
    BY <2>4, <2>6, <2>7
<1>9. ASSUME Crash
      PROVE  Fenced'
  <2>1. /\ engine' = NewEngine /\ hand' = {} /\ stored' = {}
        /\ UNCHANGED <<researched, rows, twice, excused>>
    BY <1>9 DEF Crash, db, ghosts
  <2>2. engine'.snaps = {} /\ \A t \in Tokens : ~engine'.tokens[t].held
    BY <2>1, NewEngineLive, EvictedIs
  <2> SUFFICES ASSUME NEW t \in Tokens \ excused'
               PROVE  Rowed(t)' /\ MarkedAs(t)' /\ OnePlace(t)'
    BY <1>0, <2>1 DEF Fenced
  <2>3. Rowed(t)
    BY <1>0, <2>1
  <2>4. Rowed(t)'
    BY <2>1, <2>3 DEF Rowed
  <2>5. MarkedAs(t)'
    BY <2>2 DEF MarkedAs
  <2>6. OnePlace(t)'
    BY <2>1, <2>2 DEF OnePlace
  <2> QED
    BY <2>4, <2>5, <2>6
<1> QED
  BY <1>1, <1>2, <1>4, <1>5, <1>6, <1>7, <1>8, <1>9 DEF Next, Handle, Restore, Tick

-----------------------------------------------------------------------------
(* As long as nothing fails, a token lags behind by one event at most.     *)

(* What has reached the engine: the rows, and the event in flight.         *)
InFlight   == IF Busy THEN {Head(job.rest)} ELSE {}
Got        == canon \cup InFlight
(* A token the pipeline has not yet to rebuild.                            *)
Settled(t) == t \notin job.keys /\ ~(pc = "build" /\ t = job.key)
AllYoung(t) == \A e \in Got \cap Of(t) : now - TimeOf[e] < ColdAge
Lag(t)     == (Got \cap Of(t)) \ (Applied(t) \cup engine.reorder)
AtMostOne(S) == \A x, y \in S : x = y

Behind ==
  healthy =>
    \A t \in Tokens : /\ Applied(t) \subseteq Got
                      /\ Settled(t) /\ AllYoung(t) => AtMostOne(Lag(t))

LEMMA BehindQuiet ==
  ASSUME Behind, healthy, engine' = engine, Got' = Got, now' = now,
         \A t \in Tokens : Settled(t)' => Settled(t)
  PROVE  Behind'
<1> SUFFICES ASSUME NEW t \in Tokens
             PROVE  /\ Applied(t)' \subseteq Got'
                    /\ Settled(t)' /\ AllYoung(t)' => AtMostOne(Lag(t)')
  BY DEF Behind
<1>1. Applied(t)' = Applied(t) /\ Lag(t)' = Lag(t) /\ (AllYoung(t)' <=> AllYoung(t))
  BY DEF Applied, Lag, AllYoung
<1>2. /\ Applied(t) \subseteq Got
      /\ Settled(t) /\ AllYoung(t) => AtMostOne(Lag(t))
  BY DEF Behind
<1> QED
  BY <1>1, <1>2

(* A flush either takes an event along or asks for its token.              *)
LEMMA PushedApplies ==
  ASSUME NEW g, Live(g), NEW h, NEW e \in Events, NEW keys, Pushed(g, h, e, keys),
         NEW t \in Tokens
  PROVE  /\ ToSet(g.tokens[t].applied) \subseteq ToSet(h.tokens[t].applied)
         /\ ToSet(h.tokens[t].applied) \subseteq ToSet(g.tokens[t].applied) \cup {e}
<1> DEFINE a == g.tokens[t].applied
           b == h.tokens[t].applied
<1>1. a \in Seq(Events)
  BY EngineIs
<1>2. b = a \/ b = Append(a, e)
  <2>1. Changed(g, h, e, TokenOf[e])
    BY PushedIs
  <2>2. CASE t = TokenOf[e]
    BY <2>1, <2>2 DEF Changed
  <2>3. CASE t # TokenOf[e]
    BY <2>1, <2>3 DEF Changed
  <2> QED
    BY <2>2, <2>3
<1> HIDE DEF a, b
<1>3. ToSet(Append(a, e)) = ToSet(a) \cup {e}
  BY <1>1, AppendedIs
<1> QED
  BY <1>2, <1>3 DEF a, b

LEMMA PushedKeeps ==
  ASSUME NEW g, Live(g), NEW h, NEW e \in Events, NEW keys, Pushed(g, h, e, keys),
         NEW t \in Tokens \ keys
  PROVE  /\ TokenOf[e] = t => e \in ToSet(h.tokens[t].applied) \cup h.reorder
         /\ \A x \in g.reorder : TokenOf[x] = t => x \in h.reorder
<1>1. PICK p : /\ Took(g, p, e) \/ Delayed(g, p, e)
               /\ p.rebuilds = keys /\ h.tokens = p.tokens /\ h.reorder = p.reorder
  BY DEF Pushed
<1>2. CASE Took(g, p, e)
  <2>1. /\ keys = g.rebuilds \cup {TokenOf[f] : f \in g.reorder}
        /\ p.tokens[TokenOf[e]].applied = Append(g.tokens[TokenOf[e]].applied, e)
    BY <1>1, <1>2 DEF Took
  <2>2. \A x \in g.reorder : TokenOf[x] # t
    BY <2>1
  <2>3. ASSUME TokenOf[e] = t
        PROVE  e \in ToSet(h.tokens[t].applied)
    <3>1. g.tokens[t].applied \in Seq(Events)
      BY EngineIs
    <3>2. h.tokens[t].applied = Append(g.tokens[t].applied, e)
      BY <1>1, <2>1, <2>3
    <3> QED
      BY <3>1, <3>2, AppendedIs
  <2> QED
    BY <2>2, <2>3
<1>3. CASE Delayed(g, p, e)
  <2>1. CASE p.reorder = g.reorder \cup {e}
    BY <1>1, <2>1
  <2>2. CASE p.rebuilds = g.rebuilds \cup {TokenOf[f] : f \in g.reorder \cup {e}}
    <3>1. \A f \in g.reorder \cup {e} : TokenOf[f] \in keys
      BY <1>1, <2>2
    <3> QED
      BY <3>1
  <2> QED
    BY <1>3, <2>1, <2>2 DEF Delayed
<1> QED
  BY <1>1, <1>2, <1>3

LEMMA BehindStep ==
  ASSUME Structure, Structure', Accounted, Behind, Next
  PROVE  Behind'
<1> SUFFICES ASSUME healthy' PROVE Behind'
  BY DEF Behind
<1>0. /\ healthy /\ Base /\ Placed /\ Live(engine) /\ engine.rebuilds = {}
      /\ \A t \in Tokens : /\ Applied(t) \subseteq Got
                           /\ Settled(t) /\ AllYoung(t) => AtMostOne(Lag(t))
      /\ pc = "down" => canon = {}
      /\ pc # "hydrate"
  BY StillHealthy DEF Structure, Accounted, Behind
<1>k. pc \notin {"load", "build", "insert"} => \A t \in Tokens : Settled(t)
  BY <1>0 DEF Settled, Placed
<1>1. ASSUME \/ \E r \in Raws : insert_raw(r) \/ insert_removed(r)
             \/ mark_orphaned
      PROVE  Behind'
  <2>1. engine' = engine /\ canon' = canon /\ now' = now
    BY <1>1 DEF insert_raw, insert_removed, mark_orphaned
  <2>2. pc \in {"idle", "orphan"} /\ pc' \in {"idle", "orphan", "apply"}
    <3>1. ASSUME NEW r \in Raws, insert_raw(r)
          PROVE  pc = "idle" /\ pc' \in {"idle", "apply"}
      BY <1>0, <3>1, InsertsRaw DEF InsertedRaw, Base
    <3>2. ASSUME NEW r \in Raws, insert_removed(r)
          PROVE  pc = "idle" /\ pc' \in {"idle", "orphan"}
      BY <1>0, <3>2, InsertsRemoved DEF InsertedRemoved, Base
    <3>3. mark_orphaned => pc = "orphan" /\ pc' = "idle"
      BY DEF mark_orphaned, Idle, Goto
    <3> QED
      BY <1>1, <3>1, <3>2, <3>3
  <2>3. Got' = Got
    BY <2>1, <2>2 DEF Got, InFlight, Busy
  <2> QED
    BY <1>0, <1>k, <2>1, <2>2, <2>3, BehindQuiet
<1>2. ASSUME apply_state
      PROVE  Behind'
  <2>e. PICK e : e = Head(job.rest)
    OBVIOUS
  <2>1. AppliedState
    BY <1>2, AppliesState
  <2>2. /\ Pushed(engine, engine', e, job'.keys) /\ e \in Events /\ pc = "apply"
        /\ pc' \in {"store", "load"} /\ job'.rest = job.rest
        /\ canon' = canon /\ now' = now
    BY <2>1, <2>e DEF AppliedState
  <2>3. Got = canon /\ Got' = canon \cup {e}
    BY <2>2, <2>e DEF Got, InFlight, Busy
  <2> SUFFICES ASSUME NEW t \in Tokens
               PROVE  /\ Applied(t)' \subseteq Got'
                      /\ Settled(t)' /\ AllYoung(t)' => AtMostOne(Lag(t)')
    BY DEF Behind
  <2>4. Applied(t) \subseteq Applied(t)' /\ Applied(t)' \subseteq Applied(t) \cup {e}
    BY <1>0, <2>2, PushedApplies DEF Applied
  <2>5. ASSUME Settled(t)', AllYoung(t)'
        PROVE  AtMostOne(Lag(t)')
    <3>1. AtMostOne(Lag(t))
      <4>1. AllYoung(t)
        BY <2>2, <2>3, <2>5 DEF AllYoung
      <4> QED
        BY <1>0, <1>k, <2>2, <4>1
    <3>2. t \notin job'.keys
      BY <2>5 DEF Settled
    <3>3. /\ TokenOf[e] = t => e \in Applied(t)' \cup engine'.reorder
          /\ \A x \in engine.reorder : TokenOf[x] = t => x \in engine'.reorder
      BY <1>0, <2>2, <3>2, PushedKeeps DEF Applied
    <3>4. Lag(t)' \subseteq Lag(t)
      BY <2>3, <2>4, <3>3 DEF Lag, Of
    <3> QED
      BY <3>1, <3>4 DEF AtMostOne
  <2> QED
    BY <1>0, <2>3, <2>4, <2>5
<1>3. ASSUME NEW t \in Tokens, load_token(t)
      PROVE  Behind'
  <2>1. Loaded(t)
    BY <1>3, Loads
  <2>2. ~Fault
    BY DEF Fault
  <2>3. /\ pc = "load" /\ pc' = "build" /\ job'.key = t /\ job'.keys = job.keys \ {t}
        /\ job'.rest = job.rest /\ engine' = engine /\ canon' = canon /\ now' = now
    BY <2>1, <2>2 DEF Loaded
  <2>4. Got' = Got
    BY <2>3 DEF Got, InFlight, Busy
  <2>5. \A u \in Tokens : Settled(u)' => Settled(u)
    BY <2>3 DEF Settled
  <2> QED
    BY <1>0, <2>3, <2>4, <2>5, BehindQuiet
<1>4. ASSUME rebuild_token_state
      PROVE  Behind'
  <2>1. RebuiltState
    BY <1>4, RebuildsState
  <2>k. PICK key : key = job.key
    OBVIOUS
  <2>2. PICK snaps : Rebuilt(engine, engine', snaps, key, canon \cap Of(key))
    BY <2>1, <2>k DEF RebuiltState
  <2>3. /\ key \in Tokens /\ pc = "build" /\ pc' \in {"load", "insert", "store"}
        /\ job'.rest = job.rest /\ job'.keys = job.keys /\ canon' = canon /\ now' = now
    BY <2>1, <2>k DEF RebuiltState
  <2>4. Got' = Got
    BY <2>3 DEF Got, InFlight, Busy
  <2>5. engine.reorder = {} /\ engine'.reorder = {}
    BY <1>0, <2>2, <2>3 DEF Placed, Rebuilt
  <2> SUFFICES ASSUME NEW t \in Tokens
               PROVE  /\ Applied(t)' \subseteq Got'
                      /\ Settled(t)' /\ AllYoung(t)' => AtMostOne(Lag(t)')
    BY DEF Behind
  <2>6. CASE t = key
    <3>1. Applied(t)' = canon \cap Of(t)
      BY <2>2, <2>6 DEF Rebuilt, Applied
    <3>2. Lag(t)' \subseteq InFlight
      BY <2>4, <3>1 DEF Lag, Got
    <3> QED
      BY <2>4, <3>1, <3>2 DEF InFlight, AtMostOne, Got
  <2>7. CASE t # key
    <3>1. Applied(t)' = Applied(t)
      BY <2>2, <2>7 DEF Rebuilt, Applied
    <3>2. Lag(t)' = Lag(t)
      BY <2>4, <2>5, <3>1 DEF Lag
    <3>3. Settled(t)' => Settled(t)
      BY <2>3, <2>7, <2>k DEF Settled
    <3>4. AllYoung(t)' <=> AllYoung(t)
      BY <2>3, <2>4 DEF AllYoung
    <3> QED
      BY <1>0, <2>4, <3>1, <3>2, <3>3, <3>4
  <2> QED
    BY <2>6, <2>7
<1>5. ASSUME insert_rebuilt
      PROVE  Behind'
  <2>1. /\ pc = "insert" /\ pc' \in {"store", "load"} /\ job'.rest = job.rest
        /\ job'.keys = job.keys /\ engine' = engine /\ canon' = canon /\ now' = now
    BY <1>5, InsertsRebuilt DEF InsertedRebuilt
  <2>2. Got' = Got
    BY <2>1 DEF Got, InFlight, Busy
  <2>3. \A t \in Tokens : Settled(t)' => Settled(t)
    BY <2>1 DEF Settled
  <2> QED
    BY <1>0, <2>1, <2>2, <2>3, BehindQuiet
<1>6. ASSUME store_event
      PROVE  Behind'
  <2>e. PICK e : e = Head(job.rest)
    OBVIOUS
  <2>1. StoredEvent
    BY <1>6, StoresEvent
  <2>2. ~Fault
    BY DEF Fault
  <2>3. /\ pc = "store" /\ pc' \in {"idle", "apply"} /\ canon' = canon \cup {e}
        /\ engine' = engine /\ now' = now
    BY <2>1, <2>2, <2>e DEF StoredEvent
  <2>4. Got' = Got
    BY <2>3, <2>e DEF Got, InFlight, Busy
  <2> QED
    BY <1>0, <1>k, <2>3, <2>4, BehindQuiet
<1>7. ASSUME live_tick
      PROVE  Behind'
  <2>1. TickedLive
    BY <1>7, TicksLive
  <2>2. /\ engine'.reorder = engine.reorder /\ now \in Nat
        /\ \A t \in Tokens : Ticked(engine.tokens[t], engine'.tokens[t], now)
        /\ UNCHANGED <<pc, job, canon, now>>
    BY <2>1 DEF TickedLive
  <2>3. Got' = Got
    BY <2>2 DEF Got, InFlight, Busy
  <2> SUFFICES ASSUME NEW t \in Tokens
               PROVE  /\ Applied(t)' \subseteq Got'
                      /\ Settled(t)' /\ AllYoung(t)' => AtMostOne(Lag(t)')
    BY DEF Behind
  <2>4. (Settled(t)' <=> Settled(t)) /\ (AllYoung(t)' <=> AllYoung(t))
    BY <2>2, <2>3 DEF Settled, AllYoung
  <2>5. CASE engine'.tokens[t].applied = engine.tokens[t].applied
    <3>1. Applied(t)' = Applied(t)
      BY <2>5 DEF Applied
    <3>2. Lag(t)' = Lag(t)
      BY <2>2, <2>3, <3>1 DEF Lag
    <3> QED
      BY <1>0, <2>3, <2>4, <3>1, <3>2
  <2>6. CASE /\ engine.tokens[t].held /\ Age(engine.tokens[t], now) >= ColdAge
             /\ engine'.tokens[t] = Evicted
    <3> DEFINE o == Origin(engine.tokens[t])
    <3>1. o \in Applied(t)
      BY <1>0, <2>6, OriginApplied DEF Applied
    <3>2. Own(engine.tokens[t], t) /\ engine.tokens[t].applied \in Seq(Events)
      BY <1>0, EngineIs
    <3>3. o \in Of(t)
      BY <3>1, <3>2 DEF Own, Of, Applied, ToSet
    <3>4. now - TimeOf[o] >= ColdAge
      BY <2>6 DEF Age
    <3> HIDE DEF o
    <3>5. TimeOf[o] \in Nat /\ ColdAge \in Nat
      BY <3>3, TimeOfAssumption, AgesAssumption DEF Of
    <3>6. ~AllYoung(t)
      BY <1>0, <2>2, <3>1, <3>3, <3>4, <3>5 DEF AllYoung
    <3>7. Applied(t)' = {}
      BY <2>6, EvictedIs DEF Applied
    <3> QED
      BY <2>4, <3>6, <3>7
  <2> QED
    BY <2>2, <2>5, <2>6 DEF Ticked
<1>8. ASSUME research \/ \E s \in Snapshots : persist_snapshot(s)
      PROVE  Behind'
  <2>1. engine' = engine /\ canon' = canon /\ pc' = pc /\ job' = job /\ now' = now
    BY <1>8 DEF research, persist_snapshot, db, bounds
  <2>2. Got' = Got /\ \A t \in Tokens : Settled(t)' <=> Settled(t)
    BY <2>1 DEF Got, InFlight, Busy, Settled
  <2> QED
    BY <1>0, <2>1, <2>2, BehindQuiet
<1>9. ASSUME pass_time
      PROVE  Behind'
  <2>1. /\ engine' = engine /\ canon' = canon /\ pc' = pc /\ job' = job
        /\ now' = now + 1 /\ now \in Nat
    BY <1>0, <1>9 DEF pass_time, db, Base
  <2>2. Got' = Got /\ Got \cap Events \subseteq Events
    BY <2>1 DEF Got, InFlight, Busy
  <2> SUFFICES ASSUME NEW t \in Tokens
               PROVE  /\ Applied(t)' \subseteq Got'
                      /\ Settled(t)' /\ AllYoung(t)' => AtMostOne(Lag(t)')
    BY DEF Behind
  <2>3. Applied(t)' = Applied(t) /\ Lag(t)' = Lag(t) /\ (Settled(t)' <=> Settled(t))
    BY <2>1, <2>2 DEF Applied, Lag, Settled
  <2>4. AllYoung(t)' => AllYoung(t)
    <3> SUFFICES ASSUME AllYoung(t)', NEW e \in Got \cap Of(t)
                 PROVE  now - TimeOf[e] < ColdAge
      BY DEF AllYoung
    <3>0. \A f \in Got' \cap Of(t) : now' - TimeOf[f] < ColdAge
      BY DEF AllYoung
    <3>1. (now + 1) - TimeOf[e] < ColdAge
      <4>1. now' - TimeOf[e] < ColdAge
        BY <2>2, <3>0
      <4> QED
        BY <2>1, <4>1
    <3>2. TimeOf[e] \in Nat /\ ColdAge \in Nat
      BY TimeOfAssumption, AgesAssumption DEF Of
    <3> QED
      BY <2>1, <3>1, <3>2
  <2> QED
    BY <1>0, <2>2, <2>3, <2>4
<1>10. ASSUME Start
       PROVE  Behind'
  <2>1. Booted
    BY <1>10, Starts
  <2>2. /\ pc = "down" /\ pc' = "idle" /\ engine' = engine /\ canon' = canon /\ now' = now
    BY <1>0, <2>1 DEF Booted
  <2>3. Got' = Got
    BY <2>2 DEF Got, InFlight, Busy
  <2> QED
    BY <1>0, <1>k, <2>2, <2>3, BehindQuiet
<1>11. ~Crash
  BY DEF Crash, Fault
<1>12. ASSUME NEW t \in Tokens, hydrate_token(t)
       PROVE  Behind'
  BY <1>0, <1>12 DEF hydrate_token
<1> QED
  BY <1>1, <1>2, <1>3, <1>4, <1>5, <1>6, <1>7, <1>8, <1>9, <1>10, <1>11, <1>12
     DEF Next, Handle, Restore, Tick

LEMMA BehindIdle == Structure /\ Behind => OneBehind
<1> SUFFICES ASSUME Structure, Behind, healthy, pc = "idle",
                    NEW t \in Tokens, Held(t), Young(t)
             PROVE  Cardinality(Missing(t)) <= 1
  BY DEF OneBehind
<1>1. Settled(t) /\ Got = canon
  BY DEF Structure, Placed, Settled, Got, InFlight, Busy
<1>2. AllYoung(t) /\ Lag(t) = Missing(t)
  BY <1>1 DEF AllYoung, Young, Lag, Missing
<1>3. AtMostOne(Missing(t))
  BY <1>1, <1>2 DEF Behind
<1>4. CASE Missing(t) = {}
  BY <1>4, FS_EmptySet
<1>5. CASE Missing(t) # {}
  <2>1. PICK x \in Missing(t) : TRUE
    BY <1>5
  <2>2. Missing(t) = {x}
    <3>1. \A y \in Missing(t) : y = x
      BY <1>3, <2>1 DEF AtMostOne
    <3> HIDE DEF Missing
    <3> QED
      BY <2>1, <3>1
  <2>3. Cardinality({x}) = 1
    BY FS_Singleton
  <2> QED
    BY <2>2, <2>3
<1> QED
  BY <1>4, <1>5

-----------------------------------------------------------------------------
(* The inductive invariant, and the properties it implies.                 *)

Inv == Structure /\ Once /\ Decoded /\ Accounted /\ Fenced /\ Behind

LEMMA InvInit == Init => Inv
<1> SUFFICES ASSUME Init PROVE Inv
  OBVIOUS
<1>1. Structure
  BY StructureInit
<1>2. /\ canon = {} /\ rows = {} /\ pc = "down" /\ job = NoJob /\ hand = {} /\ stored = {}
      /\ researched = {} /\ diverted = {} /\ twice = {} /\ excused = {}
      /\ \A r \in Raws : raw[r] = "NONE"
  BY DEF Init
<1>3. /\ engine.snaps = {} /\ engine.reorder = {}
      /\ \A t \in Tokens : engine.tokens[t] = Evicted
  BY NewEngineLive DEF Init
<1>4. \A t \in Tokens : Applied(t) = {}
  BY <1>3, EvictedIs DEF Applied
<1>5. Seen = {}
  BY <1>2, <1>3 DEF Seen
<1>6. Once
  <2>1. JobOnce
    BY <1>2 DEF JobOnce, Working
  <2>2. AppliedOnce
    BY <1>3, EvictedIs DEF AppliedOnce
  <2>3. Unseen
    BY <1>2, <1>4, <1>5 DEF Unseen, Known
  <2> QED
    BY <2>1, <2>2, <2>3 DEF Once
<1>7. Decoded
  BY <1>2 DEF Decoded, Working
<1>8. Accounted
  BY <1>2, <1>3, EvictedIs DEF Accounted
<1>9. Fenced
  BY <1>2, <1>3, <1>5 DEF Fenced, Rowed, MarkedAs, OnePlace
<1>10. Behind
  <2>1. Got = {}
    BY <1>2 DEF Got, InFlight, Busy
  <2> QED
    BY <1>4, <2>1 DEF Behind, Lag, AtMostOne
<1> QED
  BY <1>1, <1>6, <1>7, <1>8, <1>9, <1>10 DEF Inv

LEMMA InvStutter ==
  ASSUME Inv, UNCHANGED vars
  PROVE  Inv'
<1>0. /\ engine' = engine /\ pc' = pc /\ job' = job /\ now' = now /\ healthy' = healthy
      /\ UNCHANGED <<raw, canon, rows, hand, stored, researched, twice, diverted, excused>>
  BY DEF vars, db, tick, ghosts, bounds
<1>1. Structure'
  BY StructureStep DEF Inv
<1>2. Once'
  <2>1. JobOnce' /\ Ahead' = Ahead
    BY <1>0 DEF Inv, Once, JobOnce, Working, Ahead, ToCome, Unpushed, Busy
  <2> QED
    BY <1>0, <2>1, OnceQuiet DEF Inv
<1>3. Decoded'
  BY <1>0 DEF Inv, Decoded, InJob, Working
<1>4. Accounted'
  BY <1>0 DEF Inv, Accounted, Seen
<1>5. Fenced'
  BY <1>0, FencedQuiet DEF Inv
<1>6. Behind'
  <2>1. Got' = Got /\ \A t \in Tokens : Settled(t)' <=> Settled(t)
    BY <1>0 DEF Got, InFlight, Busy, Settled
  <2> QED
    BY <1>0, <2>1, BehindQuiet DEF Inv, Behind
<1> QED
  BY <1>1, <1>2, <1>3, <1>4, <1>5, <1>6 DEF Inv

LEMMA InvStep ==
  ASSUME Inv, [Next]_vars
  PROVE  Inv'
<1>1. CASE Next
  <2>1. Structure /\ Once /\ JobOnce /\ Decoded /\ Accounted /\ Fenced /\ Behind
    BY DEF Inv, Once
  <2>2. Structure'
    BY <2>1, StructureStep
  <2>3. Once'
    BY <1>1, <2>1, <2>2, OnceStep
  <2>4. Decoded'
    BY <1>1, <2>1, <2>2, DecodedStep
  <2>5. Accounted'
    BY <1>1, <2>1, <2>2, AccountedStep
  <2>6. Fenced'
    BY <1>1, <2>1, <2>2, FencedStep
  <2>7. Behind'
    BY <1>1, <2>1, <2>2, BehindStep
  <2> QED
    BY <2>2, <2>3, <2>4, <2>5, <2>6, <2>7 DEF Inv
<1>2. CASE UNCHANGED vars
  BY <1>2, InvStutter
<1> QED
  BY <1>1, <1>2

THEOREM Invariance == Spec => []Inv
<1>1. Init => Inv
  BY InvInit
<1>2. Inv /\ [Next]_vars => Inv'
  BY InvStep
<1> QED
  BY <1>1, <1>2, PTL DEF Spec

LEMMA StructureTypes == Structure => TypeOK
<1> SUFFICES ASSUME Structure PROVE TypeOK
  OBVIOUS
<1>0. Base /\ Counted /\ Live(engine) /\ Placed
  BY DEF Structure
<1>1. engine \in Engine
  BY <1>0, EngineIs
<1>2. \A t \in Tokens : engine.tokens[t].held <=> engine.tokens[t].applied # <<>>
  BY <1>0 DEF Live, Sane, Shape
<1>3. Cardinality(stored) <= 1
  <2>1. CASE stored = {}
    BY <2>1, FS_EmptySet
  <2>2. CASE \E s : stored = {s}
    <3>1. PICK s : stored = {s}
      BY <2>2
    <3>2. Cardinality({s}) = 1
      BY FS_Singleton
    <3> QED
      BY <3>1, <3>2
  <2> QED
    BY <1>0, <2>1, <2>2 DEF Base
<1>4. pc \in {"apply", "store"} => job.rest # <<>>
  BY <1>0 DEF Placed, Working
<1> QED
  BY <1>0, <1>1, <1>2, <1>3, <1>4 DEF TypeOK, Base, Counted

(* Every variable keeps its type: a held token has events, at most one     *)
(* snapshot is between its row and research, and the pipeline task never   *)
(* stands at an event of a log that has none left.                         *)
THEOREM TypeCorrect == Spec => []TypeOK
<1>1. Inv => TypeOK
  BY StructureTypes DEF Inv
<1> QED
  BY <1>1, Invariance, PTL

(* No token counts an event twice (the raw_events conflict, the cleared    *)
(* state a rebuild starts from, and the buffer a flush empties), however   *)
(* redelivery, rebuilds, hydration and crashes fall.                       *)
THEOREM EventsCountOnce == Spec => []AppliedOnce
<1>1. Inv => AppliedOnce
  BY DEF Inv, Once
<1> QED
  BY <1>1, Invariance, PTL

(* A rebuild of one token, which clears the reorder buffer of all, never   *)
(* finds anything in it to lose: the push that asked for the rebuild has   *)
(* flushed it, and no other push comes before the last rebuild.            *)
THEOREM RebuildsClearNothing == Spec => []NothingToClear
<1>1. Inv => NothingToClear
  BY DEF Inv, Structure, Placed, NothingToClear
<1> QED
  BY <1>1, Invariance, PTL

(* As long as nothing fails, a token that is not cold misses at most one   *)
(* of its stored events: the one in flight when a rebuild loaded the       *)
(* others from Postgres, since handle stores an event after apply_state.   *)
THEOREM StateIsOneBehind == Spec => []OneBehind
<1>1. Inv => OneBehind
  BY BehindIdle DEF Inv
<1> QED
  BY <1>1, Invariance, PTL

(* As long as nothing fails, between two logs the stored events are those  *)
(* of the logs marked SUCCESS: handle never ends after part of a log.      *)
THEOREM StoredLogsAreDecoded == Spec => []StoredIsDecoded
<1>1. Inv => StoredIsDecoded
  BY DecodedStored DEF Inv
<1> QED
  BY <1>1, Invariance, PTL

(* As long as nothing fails, an emitted milestone is in the buffer, on its *)
(* way to research, there, or taken by a rebuild: emit_due_snapshots, the  *)
(* tick and rebuild_token lose none between them.                          *)
THEOREM MilestonesAreAccounted == Spec => []MilestoneAccounted
<1>1. Inv => MilestoneAccounted
  BY AccountedHolds DEF Inv
<1> QED
  BY <1>1, Invariance, PTL

(* A milestone reaches research again only for a token the pipeline        *)
(* rebuilt, or whose snapshot row was not written or not read: a restart   *)
(* between any two steps does not repeat it (mark_already_emitted).        *)
THEOREM RestartsRepeatNothing == Spec => []RestartRepeatsNothing
<1>1. Inv => RestartRepeatsNothing
  BY DEF Inv, Fenced, RestartRepeatsNothing
<1> QED
  BY <1>1, Invariance, PTL
=============================================================================
