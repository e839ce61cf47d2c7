-------------------------- MODULE CollectorProofs --------------------------
(***************************************************************************)
(* Theorems about Collector for every kind of collector, every chain and   *)
(* every overlap, cap, span and capacity.  The inductive invariant says of *)
(* every position that may become the checkpoint what is known to have     *)
(* happened to the positions a resumed session will not ask for again.     *)
(***************************************************************************)
EXTENDS Collector, WellFoundedInduction, TLAPS

(* A checkpoint c stands for the positions that a session resumed from it  *)
(* does not see again: all before c for Yellowstone, which hands slots on  *)
(* in order, those before the overlap for the others.                      *)
Reach(c) == IF kind = "grpc" THEN c ELSE Rewound(c)

(* Position q is accounted for, or pending, or will have left the channel  *)
(* before its i-th element does; or it is a swap that was released late,   *)
(* which the loss of the channel accounts for.                             *)
Kept(q, i) == \/ Settled(q) \/ q \in pending
              \/ \E j \in DOMAIN chan :
                   chan[j] = q /\ (j < i \/ (kind # "grpc" /\ q \in Swaps))
Behind(c, i) == \A q \in Positions : q < Reach(c) => Kept(q, i)
Ordered == /\ Behind(cp, 1) /\ Behind(hand, 1)
           /\ \A i \in DOMAIN chan : Behind(chan[i], i)

(* What the collector task is past.                                        *)
Carried(q) == Settled(q) \/ q \in pending \/ \E j \in DOMAIN chan : chan[j] = q
Passed ==
  /\ pc = "fill" => next # 0 /\ \A q \in 1 .. next - 1 : Carried(q)
  /\ pc = "connect" /\ next # 0 => \A q \in 1 .. to : Carried(q)
  /\ pc = "live" => \A q \in 1 .. at : Carried(q)
  /\ \A q \in 1 .. lastSlot : Carried(q)

Bounded(n) == cp <= n /\ hand <= n /\ \A i \in DOMAIN chan : chan[i] <= n
Stages ==
  /\ Bounded(tip) /\ (pc = "plan" => to >= 1 /\ Bounded(to))
  /\ pending # {} => pc = "live" /\ kind = "evm"
  /\ pending \subseteq 1 .. at

(* A Yellowstone session records gaps and never recovers one.              *)
Streams ==
  /\ (up # "off" => session = "open") /\ (up = "off" => pc = "idle")
  /\ kind = "grpc" => /\ pc \in {"idle", "live", "done"}
                      /\ \A i \in DOMAIN gaps : ~gaps[i].recovered
                      /\ up = "off" /\ session = "complete" => gaps = <<>>

Inv == TypeOK /\ Ordered /\ Passed /\ Stages /\ Streams

-----------------------------------------------------------------------------
(* Numbers and sequences. *)

LEMMA Chain ==
  /\ MaxTip \in Nat /\ FirstTip \in 1 .. MaxTip
  /\ Overlap \in Nat /\ Cap \in Nat /\ Span \in Nat /\ Slack \in Nat /\ Capacity \in Nat \ {0}
  /\ MaxFaults \in Nat /\ MaxStarts \in Nat
BY LogAtAssumption, CollectorBounds DEF MaxTip, Positions

LEMMA RewoundBounds == \A c \in Nat : Rewound(c) \in Nat /\ Rewound(c) <= c
BY Chain DEF Rewound

LEMMA AtLeastOneBounds ==
  \A p \in Int : AtLeastOne(p) \in Nat /\ AtLeastOne(p) >= 1 /\ AtLeastOne(p) >= p
                 /\ (p >= 1 => AtLeastOne(p) = p) /\ (p < 1 => AtLeastOne(p) = 1)
BY DEF AtLeastOne

LEMMA Smallest ==
  ASSUME NEW S \in SUBSET Nat, S # {}
  PROVE  (CHOOSE m \in S : \A n \in S : m <= n) \in S
<1>1. PICK m \in S : \A n \in S : <<n, m>> \notin OpToRel(<, Nat)
  BY NatLessThanWellFounded, WFMin
<1>2. \A n \in S : ~(n < m)
  BY <1>1 DEF OpToRel
<1>3. \A n \in S : m <= n
  BY <1>2
<1> QED
  BY <1>3

LEMMA Member ==
  ASSUME NEW S, NEW s \in Seq(S), NEW i \in DOMAIN s
  PROVE  s[i] \in S /\ i \in Nat \ {0} /\ i <= Len(s)
OBVIOUS

LEMMA Appending ==
  ASSUME NEW S, NEW s \in Seq(S), NEW x \in S
  PROVE  /\ Append(s, x) \in Seq(S)
         /\ Len(s) \in Nat /\ Len(Append(s, x)) = Len(s) + 1
         /\ DOMAIN Append(s, x) = DOMAIN s \cup {Len(s) + 1}
         /\ \A i \in DOMAIN s : Append(s, x)[i] = s[i] /\ i < Len(s) + 1
         /\ Append(s, x)[Len(s) + 1] = x
OBVIOUS

LEMMA Tailing ==
  ASSUME NEW S, NEW s \in Seq(S), s # <<>>
  PROVE  /\ Tail(s) \in Seq(S) /\ Len(Tail(s)) = Len(s) - 1 /\ Len(s) \in Nat \ {0}
         /\ 1 \in DOMAIN s /\ Head(s) = s[1] /\ Head(s) \in S
         /\ \A i \in DOMAIN Tail(s) : i + 1 \in DOMAIN s /\ Tail(s)[i] = s[i + 1]
         /\ \A i \in DOMAIN s : i = 1 \/ (i - 1 \in DOMAIN Tail(s) /\ Tail(s)[i - 1] = s[i])
OBVIOUS

LEMMA Joining ==
  ASSUME NEW S, NEW s \in Seq(S), NEW t \in Seq(S)
  PROVE  /\ s \o t \in Seq(S) /\ Len(s \o t) = Len(s) + Len(t)
         /\ Len(s) \in Nat /\ Len(t) \in Nat
         /\ \A i \in DOMAIN s : i \in DOMAIN (s \o t) /\ (s \o t)[i] = s[i]
         /\ \A i \in DOMAIN t : Len(s) + i \in DOMAIN (s \o t) /\ (s \o t)[Len(s) + i] = t[i]
OBVIOUS

(* What a resumed session does: a checkpoint c gives a start, and whatever *)
(* lies between the overlap of c and the start is in the gap row.          *)
Resumption(r, c, head) ==
  /\ r.gap \in Seq(Gap) /\ r.start \in Nat
  /\ r.recovers \in BOOLEAN /\ (r.recovers => Len(r.gap) = 1)
  /\ r.start = 0 <=> c = 0
  /\ c <= head => r.start <= head
  /\ \A q \in Nat : Rewound(c) <= q /\ q < r.start /\ q >= 1 =>
       \E i \in DOMAIN r.gap : r.gap[i].from <= q /\ q <= r.gap[i].last

LEMMA Resumes ==
  ASSUME NEW c \in Nat, NEW head \in Nat, head >= 1
  PROVE  Resumption(ResumePlan(c, head), c, head)
<1> DEFINE r == ResumePlan(c, head)
           stale == AtLeastOne(head - Span)
           row(last) == [from |-> Rewound(c), last |-> last, recovered |-> FALSE]
           start == AtLeastOne(Rewound(c))
<1>0. Rewound(c) \in Nat /\ Rewound(c) <= c /\ stale \in Nat /\ stale >= 1 /\ stale <= head
      /\ start \in Nat /\ start >= 1 /\ (start = Rewound(c) \/ start = 1)
      /\ (c # 0 => start <= c)
  BY RewoundBounds, AtLeastOneBounds, Chain
<1>1. row(stale) \in Gap /\ row(head) \in Gap
  BY <1>0 DEF Gap
<1>2. \A x \in Gap : <<x>> \in Seq(Gap) /\ Len(<<x>>) = 1 /\ DOMAIN <<x>> = {1} /\ <<x>>[1] = x
  OBVIOUS
<1>3. <<>> \in Seq(Gap) /\ Len(<<>>) = 0
  OBVIOUS
<1>4. CASE c = 0
  <2>1. r = [gap |-> <<>>, start |-> 0, recovers |-> FALSE]
    BY <1>4 DEF ResumePlan
  <2> HIDE DEF r
  <2>2. r.gap = <<>> /\ r.start = 0 /\ r.recovers = FALSE
    BY <2>1
  <2>9. r.recovers \in BOOLEAN /\ (r.recovers => Len(r.gap) = 1)
    BY <2>2, Zenon
  <2>3. r.gap \in Seq(Gap)
    BY <1>3, <2>2, Zenon
  <2> QED
    BY <1>4, <2>2, <2>3, <2>9 DEF Resumption, r
<1>5. CASE c > 0 /\ head > Rewound(c) + Cap
  <2>1. r = [gap |-> <<row(stale)>>, start |-> stale, recovers |-> FALSE]
    BY <1>0, <1>5, Chain DEF ResumePlan
  <2>2. \A q : row(stale).from = Rewound(c) /\ row(stale).last = stale
    OBVIOUS
  <2> HIDE DEF r, row, stale
  <2>3. r.gap = <<row(stale)>> /\ r.start = stale /\ r.recovers = FALSE
    BY <2>1
  <2>4. r.gap \in Seq(Gap) /\ DOMAIN r.gap = {1} /\ r.gap[1] = row(stale)
    BY <1>1, <1>2, <2>3
  <2>9. r.recovers \in BOOLEAN /\ (r.recovers => Len(r.gap) = 1)
    BY <2>3, Zenon
  <2> QED
    BY <1>0, <1>5, <2>2, <2>3, <2>4, <2>9 DEF Resumption, r
<1>6. CASE c > 0 /\ head <= Rewound(c) + Cap /\ head > Rewound(c) + Overlap + Slack
  <2>1. r = [gap |-> <<row(head)>>, start |-> start, recovers |-> TRUE]
    BY <1>0, <1>6, Chain DEF ResumePlan
  <2> HIDE DEF r, row, stale, start
  <2>2. r.gap = <<row(head)>> /\ r.start = start /\ r.recovers = TRUE
    BY <2>1
  <2>3. r.gap \in Seq(Gap) /\ Len(r.gap) = 1
    BY <1>1, <1>2, <2>2
  <2>9. r.recovers \in BOOLEAN /\ (r.recovers => Len(r.gap) = 1)
    BY <2>2, <2>3, Zenon
  <2> QED
    BY <1>0, <1>6, <2>2, <2>3, <2>9 DEF Resumption, r
<1>7. CASE c > 0 /\ head <= Rewound(c) + Cap /\ ~(head > Rewound(c) + Overlap + Slack)
  <2>1. r = [gap |-> <<>>, start |-> start, recovers |-> FALSE]
    BY <1>0, <1>7, Chain DEF ResumePlan
  <2> HIDE DEF r, row, stale, start
  <2>2. r.gap = <<>> /\ r.start = start /\ r.recovers = FALSE
    BY <2>1
  <2>9. r.recovers \in BOOLEAN /\ (r.recovers => Len(r.gap) = 1)
    BY <2>2, Zenon
  <2> QED
    BY <1>0, <1>3, <1>7, <2>2, <2>9 DEF Resumption, r
<1> HIDE DEF r
<1> QED
  BY <1>0, <1>4, <1>5, <1>6, <1>7, Chain

-----------------------------------------------------------------------------
(* Types. *)

LEMMA TypeInit == Init => TypeOK
<1>1. ASSUME Init PROVE TypeOK
  <2>1. <<>> \in Seq(Gap) /\ <<>> \in Seq(Positions) /\ Len(<<>>) = 0
    OBVIOUS
  <2>2. /\ gaps \in Seq(Gap) /\ Len(gaps) = 0
        /\ chan \in Seq(Positions) /\ Len(chan) = 0
    BY <1>1, <2>1, Zenon DEF Init
  <2>3. tip \in Positions /\ tip \in Nat
    BY <1>1, Chain DEF Init, Positions
  <2>4. /\ kind \in Kinds /\ stored = {} /\ cp = 0 /\ watched = FALSE /\ session = "none"
        /\ up = "off" /\ starts = 0 /\ known = FALSE /\ hand = 0 /\ lastSlot = 0
        /\ pc = "idle" /\ at = 0 /\ to = 0 /\ next = 0 /\ repair = 0 /\ pending = {}
        /\ faults = 0 /\ unwatched = {} /\ dropped = {}
    BY <1>1 DEF Init
  <2>5. /\ starts \in 0 .. MaxStarts /\ lastSlot \in 0 .. MaxTip /\ at \in 0 .. tip
        /\ to \in 0 .. tip /\ next \in 0 .. to + 1 /\ repair \in 0 .. Len(gaps)
        /\ faults \in 0 .. MaxFaults /\ Len(chan) <= Capacity
    BY <2>2, <2>3, <2>4, Chain
  <2> QED
    BY <2>2, <2>3, <2>4, <2>5 DEF TypeOK
<1> QED
  BY <1>1

LEMMA Lengths ==
  ASSUME TypeOK
  PROVE  Len(gaps) \in Nat /\ Len(chan) \in Nat /\ tip \in Nat /\ tip >= 1 /\ tip <= MaxTip
<1>1. gaps \in Seq(Gap) /\ chan \in Seq(Positions) /\ tip \in Positions
  BY DEF TypeOK
<1> QED
  BY <1>1, Chain DEF Positions

LEMMA TypeSupervisor ==
  ASSUME TypeOK, StartProcess \/ Stop \/ StopCollector \/ Finish \/ Crash
  PROVE  TypeOK'
<1>0. /\ <<>> \in Seq(Positions) /\ Len(<<>>) <= Capacity
      /\ 0 \in 0 .. Len(gaps) /\ 0 \in 0 .. tip /\ 0 \in 0 .. MaxTip
  BY Lengths, Chain
<1>9. ASSUME Ended
      PROVE  /\ chan' \in Seq(Positions) /\ Len(chan') <= Capacity
             /\ up' = "off" /\ known' = FALSE /\ hand' = 0 /\ lastSlot' = 0 /\ pc' = "idle"
             /\ at' = 0 /\ to' = 0 /\ next' = 0 /\ repair' = 0 /\ pending' = {}
  <2>1. chan' = <<>>
    BY <1>9 DEF Ended
  <2>2. chan' \in Seq(Positions) /\ Len(chan') <= Capacity
    BY <1>0, <2>1, Zenon
  <2> QED
    BY <1>9, <2>2, Zenon DEF Ended
<1>1. CASE StartProcess
  <2>1. Reloaded \in BOOLEAN
    BY DEF Reloaded, TypeOK
  <2> QED
    BY <1>1, <2>1, Chain DEF StartProcess, TypeOK, coll, ghost
<1>2. CASE Stop
  BY <1>2 DEF Stop, TypeOK, rows, coll, ghost
<1>3. CASE StopCollector
  BY <1>3 DEF StopCollector, TypeOK, rows, proc, Swaps
<1>4. \A i \in DOMAIN chan : chan[i] \in Positions
  BY Member DEF TypeOK
<1>5. CASE Finish
  <2>1. Verdict \in {"complete", "incomplete"}
    BY DEF Verdict
  <2>2. faults' \in 0 .. MaxFaults
    BY <1>5, Chain DEF Finish, Fault, TypeOK
  <2>3. dropped' \subseteq Positions
    BY <1>4, <1>5 DEF Finish, TypeOK, Range, Swaps
  <2> QED
    BY <1>0, <1>5, <1>9, <2>1, <2>2, <2>3 DEF Finish, TypeOK
<1>6. CASE Crash
  <2>1. faults' \in 0 .. MaxFaults
    BY <1>6, Chain DEF Crash, Fault, TypeOK
  <2>2. dropped' \subseteq Positions
    BY <1>4, <1>6 DEF Crash, Overtaken, TypeOK, Range, Swaps
  <2> QED
    BY <1>0, <1>6, <1>9, <2>1, <2>2 DEF Crash, rows, TypeOK
<1> QED
  BY <1>1, <1>2, <1>3, <1>5, <1>6

LEMMA TypePipeline ==
  ASSUME TypeOK, Handle \/ HandleFails \/ SaveCheckpoint
  PROVE  TypeOK'
<1>1. ASSUME Idle
      PROVE  /\ Head(chan) \in Positions /\ chan' \in Seq(Positions)
             /\ Len(chan') <= Capacity
  <2>1. chan \in Seq(Positions) /\ chan # <<>> /\ Len(chan) <= Capacity /\ chan' = Tail(chan)
    BY <1>1 DEF Idle, TypeOK
  <2>2. /\ Tail(chan) \in Seq(Positions) /\ Len(Tail(chan)) = Len(chan) - 1
        /\ Len(chan) \in Nat \ {0} /\ Head(chan) \in Positions
    BY <2>1, Tailing
  <2> QED
    BY <2>1, <2>2, Chain
<1>2. CASE Handle
  <2>1. Idle
    BY <1>2 DEF Handle
  <2>2. known' \in BOOLEAN /\ watched' \in BOOLEAN
    BY <1>2 DEF Handle
  <2> QED
    BY <1>1, <1>2, <2>1, <2>2 DEF Handle, TypeOK, coll, ghost
<1>3. CASE HandleFails
  <2>1. Idle /\ faults' \in 0 .. MaxFaults
    BY <1>3, Chain DEF HandleFails, Fault, TypeOK
  <2> QED
    BY <1>1, <1>3, <2>1 DEF HandleFails, TypeOK, rows, coll
<1>4. CASE SaveCheckpoint
  BY <1>4 DEF SaveCheckpoint, TypeOK, coll, ghost
<1> QED
  BY <1>2, <1>3, <1>4

LEMMA Emits ==
  ASSUME TypeOK, NEW p \in Positions, Emit(p)
  PROVE  chan' \in Seq(Positions) /\ Len(chan') <= Capacity
<1>1. chan \in Seq(Positions) /\ Len(chan) < Capacity /\ chan' = Append(chan, p)
  BY DEF Emit, HasRoom, TypeOK
<1> QED
  BY <1>1, Appending, Chain

LEMMA Seen ==
  ASSUME TypeOK, NEW p \in Positions, NEW w \in BOOLEAN, SlotSeen(p, w)
  PROVE  /\ lastSlot' \in 0 .. MaxTip
         /\ gaps' \in Seq(Gap) /\ Len(gaps') \in Nat /\ Len(gaps) \in Nat
         /\ Len(gaps) <= Len(gaps')
<1>1. lastSlot' \in 0 .. MaxTip
  BY Chain DEF SlotSeen, Positions
<1>2. CASE gaps' = gaps
  BY <1>1, <1>2 DEF TypeOK
<1>3. CASE gaps' = Append(gaps, [from |-> lastSlot + 1, last |-> p - 1, recovered |-> FALSE])
  <2>1. [from |-> lastSlot + 1, last |-> p - 1, recovered |-> FALSE] \in Gap
    BY Chain DEF TypeOK, Positions, Gap
  <2>2. gaps \in Seq(Gap)
    BY DEF TypeOK
  <2> QED
    BY <1>1, <1>3, <2>1, <2>2, Appending
<1> QED
  BY <1>2, <1>3 DEF SlotSeen

LEMMA TypeLive ==
  ASSUME TypeOK, Stages,
         Deliver \/ DeliverPastSkip \/ FetchFails \/ FlushPending \/ SessionFails \/ NewBlock
  PROVE  TypeOK'
<1>1. CASE Deliver
  <2> DEFINE p == at + 1
  <2>1. p \in Positions /\ at' = p /\ at' \in 0 .. tip /\ UNCHANGED tip
    BY <1>1, Chain DEF Deliver, TypeOK, Positions
  <2>2. pending' \subseteq Swaps /\ unwatched' \subseteq Positions
    BY <1>1, <2>1 DEF Deliver, TypeOK, UnknownPool
  <2>3. chan' \in Seq(Positions) /\ Len(chan') <= Capacity
    BY <1>1, <2>1, Emits DEF Deliver, TypeOK
  <2>4. /\ lastSlot' \in 0 .. MaxTip /\ gaps' \in Seq(Gap)
        /\ repair \in 0 .. Len(gaps')
    <3>1. CASE kind = "grpc"
      <4>1. SlotSeen(p, TRUE) /\ repair' = repair
        BY <1>1, <3>1 DEF Deliver
      <4>2. /\ lastSlot' \in 0 .. MaxTip /\ gaps' \in Seq(Gap)
            /\ Len(gaps') \in Nat /\ Len(gaps) \in Nat /\ Len(gaps) <= Len(gaps')
        BY <2>1, <4>1, Seen
      <4> QED
        BY <4>1, <4>2 DEF TypeOK
    <3>2. CASE kind # "grpc"
      BY <1>1, <3>2 DEF Deliver, TypeOK
    <3> QED
      BY <3>1, <3>2
  <2> QED
    BY <1>1, <2>1, <2>2, <2>3, <2>4 DEF Deliver, TypeOK
<1>2. CASE DeliverPastSkip
  <2> DEFINE p == at + 2
  <2>1. p \in Positions /\ at' = p /\ at' \in 0 .. tip /\ UNCHANGED tip
    BY <1>2, Chain DEF DeliverPastSkip, TypeOK, Positions
  <2>2. faults' \in 0 .. MaxFaults
    BY <1>2, Chain DEF DeliverPastSkip, Fault, TypeOK
  <2>3. chan' \in Seq(Positions) /\ Len(chan') <= Capacity
    BY <1>2, <2>1, Emits DEF DeliverPastSkip
  <2>4. dropped' \subseteq Positions
    BY <1>2, <2>1, Chain DEF DeliverPastSkip, TypeOK, Positions
  <2>5. /\ lastSlot' \in 0 .. MaxTip /\ gaps' \in Seq(Gap)
        /\ repair \in 0 .. Len(gaps')
    <3>1. PICK w \in BOOLEAN : SlotSeen(p, w)
      BY <1>2 DEF DeliverPastSkip
    <3> QED
      BY <2>1, <3>1, Seen DEF TypeOK
  <2> QED
    BY <1>2, <2>1, <2>2, <2>3, <2>4, <2>5 DEF DeliverPastSkip, TypeOK
<1>3. CASE FetchFails
  BY <1>3, Chain DEF FetchFails, Fault, TypeOK, Positions, rows, proc
<1>4. CASE FlushPending
  <2>1. PICK p \in Swaps : Emit(p) /\ pending' = pending \ {p}
    <3> DEFINE p == CHOOSE q \in pending : \A r \in pending : q <= r
    <3>1. Emit(p) /\ pending' = pending \ {p}
      BY <1>4 DEF FlushPending
    <3>2. p \in pending
      <4>1. pending \in SUBSET Nat /\ pending # {}
        BY <1>4 DEF FlushPending, TypeOK, Swaps, Positions
      <4> QED
        BY <4>1, Smallest
    <3> QED
      BY <3>1, <3>2 DEF TypeOK
  <2>2. p \in Positions
    BY <2>1 DEF Swaps
  <2>3. chan' \in Seq(Positions) /\ Len(chan') <= Capacity
    BY <2>1, <2>2, Emits
  <2> QED
    BY <1>4, <2>1, <2>3 DEF FlushPending, TypeOK, rows, ghost
<1>5. CASE SessionFails
  BY <1>5, Chain, Lengths DEF SessionFails, Fault, TypeOK, Swaps, rows, proc
<1>6. CASE NewBlock
  BY <1>6, Chain DEF NewBlock, TypeOK, Positions, rows, proc, coll, ghost
<1> QED
  BY <1>1, <1>2, <1>3, <1>4, <1>5, <1>6

LEMMA Planned ==
  ASSUME TypeOK, Stages, Plan
  PROVE  /\ Loaded \in Nat /\ to \in Nat /\ Loaded <= to
         /\ Resumption(ResumePlan(Loaded, to), Loaded, to)
<1>1. cp \in Nat /\ to \in Nat /\ to >= 1 /\ cp <= to
  BY Chain DEF TypeOK, Stages, Bounded, Plan, Positions
<1>2. Loaded \in Nat /\ Loaded <= to
  BY <1>1 DEF Loaded
<1> QED
  BY <1>1, <1>2, Resumes

(* What a plan does to the gap rows. *)
LEMMA PlanWrites ==
  ASSUME TypeOK, Stages, Plan
  PROVE  LET r == ResumePlan(Loaded, to)
         IN /\ gaps' = gaps \o r.gap /\ next' = r.start
            /\ gaps' \in Seq(Gap) /\ repair' \in 0 .. Len(gaps')
            /\ next' \in 0 .. to /\ pc' = IF next' = 0 THEN "connect" ELSE "fill"
            /\ next' = 0 <=> Loaded = 0
<1> DEFINE r == ResumePlan(Loaded, to)
<1>1. /\ gaps' = gaps \o r.gap
      /\ repair' = IF r.recovers THEN Len(gaps) + 1 ELSE 0
      /\ next' = r.start
      /\ pc' = IF r.start = 0 THEN "connect" ELSE "fill"
  BY DEF Plan
<1>2. Resumption(r, Loaded, to) /\ Loaded <= to /\ to \in Nat
  BY Planned
<1> HIDE DEF r
<1>3. /\ r.gap \in Seq(Gap) /\ r.start \in Nat /\ r.start <= to
      /\ r.start = 0 <=> Loaded = 0
  BY <1>2 DEF Resumption
<1>4. gaps \in Seq(Gap)
  BY DEF TypeOK
<1>5. /\ gaps' \in Seq(Gap) /\ Len(gaps') = Len(gaps) + Len(r.gap)
      /\ Len(gaps) \in Nat /\ Len(r.gap) \in Nat
  BY <1>1, <1>3, <1>4, Joining
<1>6. repair' \in 0 .. Len(gaps')
  <2>1. CASE r.recovers
    <3>1. Len(r.gap) = 1 /\ repair' = Len(gaps) + 1
      BY <1>1, <1>2, <2>1, Zenon DEF Resumption
    <3> QED
      BY <1>5, <3>1
  <2>2. CASE ~r.recovers
    <3>1. repair' = 0
      BY <1>1, <2>2, Zenon
    <3> QED
      BY <1>5, <3>1
  <2> QED
    BY <2>1, <2>2
<1>7. next' \in 0 .. to /\ pc' = IF next' = 0 THEN "connect" ELSE "fill"
  BY <1>1, <1>2, <1>3
<1> QED
  BY <1>1, <1>3, <1>5, <1>6, <1>7 DEF r

LEMMA FilledGaps ==
  ASSUME TypeOK, Filled
  PROVE  /\ gaps' \in Seq(Gap) /\ DOMAIN gaps' = DOMAIN gaps
         /\ \A i \in DOMAIN gaps : gaps'[i].from = gaps[i].from /\ gaps'[i].last = gaps[i].last
<1> DEFINE g(i) == IF i = repair THEN [gaps[i] EXCEPT !.recovered = TRUE] ELSE gaps[i]
<1>1. gaps' = [i \in DOMAIN gaps |-> g(i)]
  BY DEF Filled
<1>2. gaps \in Seq(Gap)
  BY DEF TypeOK
<1>3. \A x \in Gap : LET y == [x EXCEPT !.recovered = TRUE]
                     IN y \in Gap /\ y.from = x.from /\ y.last = x.last
  BY DEF Gap
<1>4. \A i \in DOMAIN gaps : g(i) \in Gap /\ g(i).from = gaps[i].from /\ g(i).last = gaps[i].last
  BY <1>2, <1>3, Member
<1> HIDE DEF g
<1>5. DOMAIN gaps = 1 .. Len(gaps) /\ Len(gaps) \in Nat
  BY <1>2
<1>6. gaps' \in Seq(Gap)
  BY <1>1, <1>4, <1>5
<1> QED
  BY <1>1, <1>4, <1>6

LEMMA TypeResume ==
  ASSUME TypeOK, Stages, Passed, ReadHead \/ Plan \/ Fill \/ Filled \/ Connect \/ Subscribe
  PROVE  TypeOK'
<1>1. CASE ReadHead
  BY <1>1, Lengths DEF ReadHead, TypeOK, rows, proc, ghost
<1>2. CASE Plan
  <2>1. /\ gaps' \in Seq(Gap) /\ repair' \in 0 .. Len(gaps') /\ next' \in 0 .. to
        /\ pc' \in {"connect", "fill"}
    BY <1>2, PlanWrites
  <2>2. to \in Nat
    BY <1>2, Planned
  <2>3. next' \in 0 .. to + 1
    BY <2>1, <2>2
  <2> QED
    BY <1>2, <2>1, <2>3 DEF Plan, TypeOK, proc, ghost
<1>3. CASE Fill
  <2>0. /\ next \in Nat /\ to \in Nat /\ next + 1 \in 0 .. to + 1
        /\ next # 0 /\ next <= to /\ to <= tip
    BY <1>3, Lengths DEF Fill, Passed, TypeOK
  <2>1. CASE UnknownPool(next)
    BY <1>3, <2>0, <2>1 DEF Fill, TypeOK, UnknownPool, Swaps, rows
  <2>2. CASE ~UnknownPool(next)
    <3>1. next \in Positions
      BY <2>0, Lengths, Chain DEF Positions
    <3>2. chan' \in Seq(Positions) /\ Len(chan') <= Capacity
      BY <1>3, <2>2, <3>1, Emits DEF Fill
    <3> QED
      BY <1>3, <2>0, <2>2, <3>2 DEF Fill, TypeOK, rows
  <2> QED
    BY <2>1, <2>2
<1>4. CASE Filled
  <2>1. gaps' \in Seq(Gap) /\ DOMAIN gaps' = DOMAIN gaps
    BY <1>4, FilledGaps
  <2>2. 0 \in 0 .. Len(gaps')
    BY <2>1
  <2> QED
    BY <1>4, <2>1, <2>2 DEF Filled, TypeOK, proc, ghost
<1>5. CASE Connect
  <2>0. tip \in Nat /\ tip <= MaxTip /\ to \in Nat
    BY Lengths DEF TypeOK
  <2>1. tip \in 0 .. tip /\ unwatched' \subseteq Positions
    BY <1>5, <2>0, Chain DEF Connect, TypeOK, Positions
  <2> QED
    BY <1>5, <2>1 DEF Connect, TypeOK, rows, proc
<1>6. CASE Subscribe
  <2>1. cp \in Nat /\ cp <= tip /\ tip \in Nat /\ tip >= 1 /\ tip <= MaxTip
    BY Lengths DEF TypeOK, Stages, Bounded, Positions
  <2>2. Rewound(cp) \in Nat /\ Rewound(cp) <= cp
    BY <2>1, RewoundBounds
  <2>3. AtLeastOne(Rewound(cp)) - 1 \in 0 .. tip
    BY <2>1, <2>2, AtLeastOneBounds
  <2>4. at' \in 0 .. tip
    BY <1>6, <2>1, <2>3 DEF Subscribe
  <2>5. unwatched' \subseteq Positions
    BY <1>6, <2>1, Chain DEF Subscribe, TypeOK, Positions
  <2> QED
    BY <1>6, <2>4, <2>5 DEF Subscribe, TypeOK, rows, proc
<1> QED
  BY <1>1, <1>2, <1>3, <1>4, <1>5, <1>6

-----------------------------------------------------------------------------
(* What is accounted for stays accounted for. *)

LEMMA SettledStays ==
  ASSUME stored \subseteq stored', unwatched \subseteq unwatched', dropped \subseteq dropped',
         \A q : InGap(q) => InGap(q)'
  PROVE  \A q : Settled(q) => Settled(q)'
BY DEF Settled

LEMMA GapsStay ==
  /\ UNCHANGED gaps => \A q : InGap(q) => InGap(q)'
  /\ \A t \in Seq(Gap) : gaps \in Seq(Gap) /\ gaps' = gaps \o t =>
       \A q : InGap(q) => InGap(q)'
  /\ \A x \in Gap : gaps \in Seq(Gap) /\ gaps' = Append(gaps, x) =>
       /\ \A q : InGap(q) => InGap(q)'
       /\ \A q : x.from <= q /\ q <= x.last => InGap(q)'
<1>1. UNCHANGED gaps => \A q : InGap(q) => InGap(q)'
  BY DEF InGap
<1>2. ASSUME NEW t \in Seq(Gap), gaps \in Seq(Gap), gaps' = gaps \o t
      PROVE  \A q : InGap(q) => InGap(q)'
  <2>1. \A i \in DOMAIN gaps : i \in DOMAIN gaps' /\ gaps'[i] = gaps[i]
    BY <1>2, Joining
  <2> QED
    BY <2>1 DEF InGap
<1>3. ASSUME NEW x \in Gap, gaps \in Seq(Gap), gaps' = Append(gaps, x)
      PROVE  /\ \A q : InGap(q) => InGap(q)'
             /\ \A q : x.from <= q /\ q <= x.last => InGap(q)'
  <2>1. /\ \A i \in DOMAIN gaps : i \in DOMAIN gaps' /\ gaps'[i] = gaps[i]
        /\ Len(gaps) + 1 \in DOMAIN gaps' /\ gaps'[Len(gaps) + 1] = x
    BY <1>3, Appending
  <2> QED
    BY <2>1 DEF InGap
<1> QED
  BY <1>1, <1>2, <1>3

(* A step that takes nothing from the channel, and lets go of a pending    *)
(* swap only into the channel or with an account of it.                    *)
Along ==
  /\ kind' = kind
  /\ \A q : Settled(q) => Settled(q)'
  /\ \A q \in pending : \/ q \in pending' \/ Settled(q)'
                        \/ /\ kind # "grpc" /\ q \in Swaps
                           /\ \E j \in DOMAIN chan' : chan'[j] = q
  /\ \A j \in DOMAIN chan : j \in DOMAIN chan' /\ chan'[j] = chan[j]

LEMMA KeptAlong ==
  ASSUME Along
  PROVE  /\ \A q, i : Kept(q, i) => Kept(q, i)'
         /\ \A q : Carried(q) => Carried(q)'
<1>1. ASSUME NEW q, NEW i, Kept(q, i) PROVE Kept(q, i)'
  <2>1. CASE Settled(q)
    BY <2>1 DEF Along, Kept
  <2>2. CASE q \in pending
    BY <2>2 DEF Along, Kept
  <2>3. CASE \E j \in DOMAIN chan : chan[j] = q /\ (j < i \/ (kind # "grpc" /\ q \in Swaps))
    BY <2>3 DEF Along, Kept
  <2> QED
    BY <1>1, <2>1, <2>2, <2>3 DEF Kept
<1>2. ASSUME NEW q, Carried(q) PROVE Carried(q)'
  BY <1>2 DEF Along, Carried
<1> QED
  BY <1>1, <1>2

LEMMA ReachBounds ==
  ASSUME kind' = kind
  PROVE  /\ \A c : Reach(c)' = Reach(c)
         /\ \A c \in Nat : Reach(c) \in Nat /\ Reach(c) <= c
<1>1. \A c : Reach(c)' = Reach(c)
  BY DEF Reach
<1>2. \A c \in Nat : Reach(c) \in Nat /\ Reach(c) <= c
  BY RewoundBounds DEF Reach
<1> QED
  BY <1>1, <1>2

LEMMA BehindAlong ==
  ASSUME Along
  PROVE  \A c, i : Behind(c, i) => Behind(c, i)'
<1>1. \A c : Reach(c)' = Reach(c)
  BY DEF Reach, Along
<1>2. ASSUME NEW c, NEW i, Behind(c, i) PROVE Behind(c, i)'
  <2>1. ASSUME NEW q \in Positions, q < Reach(c) PROVE Kept(q, i)'
    BY <1>2, <2>1, KeptAlong DEF Behind
  <2>2. \A q \in Positions : q < Reach(c)' => Kept(q, i)'
    BY <1>1, <2>1
  <2> QED
    BY <2>2 DEF Behind
<1> QED
  BY <1>2

LEMMA NoneBehind == ASSUME kind' = kind PROVE \A i : Behind(0, i)'
<1>1. \A q \in Positions : ~(q < Reach(0))
  BY ReachBounds, Chain DEF Positions
<1> QED
  BY <1>1, ReachBounds DEF Behind

LEMMA OrderedQuiet ==
  ASSUME Ordered, Along, UNCHANGED chan, cp' = cp \/ cp' = hand, hand' = hand \/ hand' = 0
  PROVE  Ordered'
<1>1. \A c, i : Behind(c, i) => Behind(c, i)'
  BY BehindAlong
<1>2. Behind(cp, 1)' /\ Behind(hand, 1)'
  BY <1>1, NoneBehind DEF Ordered, Along
<1>3. \A i \in DOMAIN chan : Behind(chan[i], i)'
  BY <1>1 DEF Ordered
<1> QED
  BY <1>2, <1>3 DEF Ordered

LEMMA OrderedEmit ==
  ASSUME TypeOK, Ordered, Along, UNCHANGED <<cp, hand>>, NEW p \in Positions, Emit(p),
         \A q \in Positions : q < p =>
           Settled(q)' \/ q \in pending' \/ \E j \in DOMAIN chan : chan[j] = q
  PROVE  Ordered'
<1>1. \A c, i : Behind(c, i) => Behind(c, i)'
  BY BehindAlong
<1>2. Behind(cp, 1)' /\ Behind(hand, 1)'
  BY <1>1 DEF Ordered
<1>3. PICK n : /\ DOMAIN chan' = DOMAIN chan \cup {n} /\ chan'[n] = p
               /\ \A i \in DOMAIN chan : chan'[i] = chan[i] /\ i < n
  BY Appending DEF Emit, TypeOK
<1>4. ASSUME NEW q \in Positions, q < Reach(p) PROVE Kept(q, n)'
  <2>1. q < p
    BY <1>4, ReachBounds DEF Along, Positions
  <2>2. CASE Settled(q)' \/ q \in pending'
    BY <2>2 DEF Kept
  <2>3. CASE \E j \in DOMAIN chan : chan[j] = q
    <3>1. PICK j \in DOMAIN chan' : chan'[j] = q /\ j < n
      BY <1>3, <2>3
    <3> QED
      BY <3>1 DEF Kept
  <2> QED
    BY <2>1, <2>2, <2>3
<1>5. ASSUME NEW i \in DOMAIN chan' PROVE Behind(chan[i], i)'
  <2>1. CASE i \in DOMAIN chan
    <3>1. Behind(chan[i], i)
      BY <2>1 DEF Ordered
    <3>2. \A c : c = chan[i] => Behind(c, i)'
      BY <1>1, <3>1
    <3> QED
      BY <1>3, <2>1, <3>2
  <2>2. CASE i = n
    <3>1. \A q \in Positions : q < Reach(p)' => Kept(q, i)'
      BY <1>4, <2>2, ReachBounds DEF Along
    <3>2. Behind(p, i)'
      BY <3>1 DEF Behind
    <3> QED
      BY <1>3, <2>2, <3>2
  <2> QED
    BY <1>3, <2>1, <2>2
<1> QED
  BY <1>2, <1>5 DEF Ordered

(* The pipeline takes the head of the channel, and accounts for it. *)
LEMMA OrderedTake ==
  ASSUME TypeOK, Ordered, Idle, UNCHANGED <<kind, pending, cp>>,
         \A q : Settled(q) => Settled(q)',
         NEW h, h = Head(chan), Settled(h)', hand' = 0 \/ hand' = h
  PROVE  /\ Ordered'
         /\ \A q : Carried(q) => Carried(q)'
<1>1. /\ chan \in Seq(Positions) /\ chan # <<>> /\ chan' = Tail(chan)
  BY DEF Idle, TypeOK
<1>2. /\ 1 \in DOMAIN chan /\ Head(chan) = chan[1] /\ chan[1] \in Positions
      /\ \A i \in DOMAIN chan' : i + 1 \in DOMAIN chan /\ chan'[i] = chan[i + 1]
      /\ \A i \in DOMAIN chan : i = 1 \/ (i - 1 \in DOMAIN chan' /\ chan'[i - 1] = chan[i])
  BY <1>1, Tailing
<1>3. /\ \A i \in DOMAIN chan : i \in Nat
      /\ \A i \in DOMAIN chan' : i \in Nat
  BY <1>1, Tailing, Member
<1>4. h = chan[1] /\ Settled(h)'
  BY <1>2
<1>5. ASSUME NEW q, NEW i \in Nat, Kept(q, i + 1) PROVE Kept(q, i)'
  <2>1. CASE Settled(q) \/ q \in pending
    BY <2>1 DEF Kept
  <2>2. CASE \E j \in DOMAIN chan : chan[j] = q /\ (j < i + 1 \/ (kind # "grpc" /\ q \in Swaps))
    <3>1. PICK j \in DOMAIN chan : chan[j] = q /\ (j < i + 1 \/ (kind # "grpc" /\ q \in Swaps))
      BY <2>2
    <3>2. CASE j = 1
      BY <1>4, <3>1, <3>2 DEF Kept
    <3>3. CASE j # 1
      <4>1. j - 1 \in DOMAIN chan' /\ chan'[j - 1] = q /\ (j < i + 1 => j - 1 < i)
        BY <1>2, <1>3, <3>1, <3>3
      <4> QED
        BY <3>1, <4>1 DEF Kept
    <3> QED
      BY <3>2, <3>3
  <2> QED
    BY <1>5, <2>1, <2>2 DEF Kept
<1>6. ASSUME NEW c, NEW i \in Nat, Behind(c, i + 1) PROVE Behind(c, i)'
  <2>1. \A q \in Positions : q < Reach(c) => Kept(q, i)'
    BY <1>5, <1>6 DEF Behind
  <2>2. Reach(c)' = Reach(c)
    BY DEF Reach
  <2> QED
    BY <2>1, <2>2 DEF Behind
<1>7. \A c : Behind(c, 1) => Behind(c, 2)
  <2>1. \A q : Kept(q, 1) => Kept(q, 2)
    BY <1>3 DEF Kept
  <2> QED
    BY <2>1 DEF Behind
<1>8. \A c : Behind(c, 1) => Behind(c, 1)'
  <2>1. 1 + 1 = 2
    OBVIOUS
  <2> QED
    BY <1>6, <1>7, <2>1
<1>9. Behind(chan[1], 1)
  BY <1>2 DEF Ordered
<1>10. Behind(cp, 1)' /\ Behind(hand, 1)'
  <2>1. Behind(cp, 1)'
    BY <1>8 DEF Ordered
  <2>2. \A c : c = 0 \/ c = h => Behind(c, 1)'
    BY <1>4, <1>8, <1>9, NoneBehind
  <2>3. hand' = 0 \/ hand' = h
    OBVIOUS
  <2> QED
    BY <2>1, <2>2, <2>3
<1>11. ASSUME NEW i \in DOMAIN chan' PROVE Behind(chan[i], i)'
  <2>1. Behind(chan[i + 1], i + 1) /\ i \in Nat /\ chan'[i] = chan[i + 1]
    BY <1>2, <1>3 DEF Ordered
  <2>2. \A c : c = chan[i + 1] => Behind(c, i)'
    BY <1>6, <2>1
  <2> QED
    BY <2>1, <2>2
<1>12. ASSUME NEW q, Carried(q) PROVE Carried(q)'
  <2>1. CASE Settled(q) \/ q \in pending
    BY <2>1 DEF Carried
  <2>2. CASE \E j \in DOMAIN chan : chan[j] = q
    BY <1>2, <1>4, <2>2 DEF Carried
  <2> QED
    BY <1>12, <2>1, <2>2 DEF Carried
<1> QED
  BY <1>10, <1>11, <1>12 DEF Ordered

(* The channel is lost. *)
LEMMA OrderedEnd ==
  ASSUME Ordered, UNCHANGED <<kind, cp>>, hand' = 0, chan' = <<>>,
         \A q : Settled(q) => Settled(q)',
         \A q \in pending : Settled(q)',
         \A q \in Swaps : (\E j \in DOMAIN chan : chan[j] = q) /\ q < Rewound(cp) =>
                           Settled(q)'
  PROVE  Ordered'
<1>1. ASSUME NEW q \in Positions, q < Reach(cp) PROVE Settled(q)'
  <2>1. Kept(q, 1)
    BY <1>1 DEF Ordered, Behind
  <2> QED
    BY <1>1, <2>1 DEF Kept, Reach
<1>2. Behind(cp, 1)'
  <2>1. \A c : Reach(c)' = Reach(c)
    BY DEF Reach
  <2> QED
    BY <1>1, <2>1 DEF Behind, Kept
<1>3. Behind(hand, 1)'
  BY NoneBehind
<1>4. DOMAIN chan' = {}
  OBVIOUS
<1> QED
  BY <1>2, <1>3, <1>4 DEF Ordered

LEMMA PassedStays ==
  ASSUME Passed, \A q : Carried(q) => Carried(q)',
         lastSlot' = lastSlot \/ lastSlot' = 0,
         pc' # "fill" \/ UNCHANGED <<pc, next>>,
         pc' # "connect" \/ UNCHANGED <<pc, next, to>>,
         pc' # "live" \/ UNCHANGED <<pc, at>>
  PROVE  Passed'
<1>1. pc' = "fill" => next' # 0 /\ \A q \in 1 .. next' - 1 : Carried(q)'
  BY DEF Passed
<1>2. pc' = "connect" /\ next' # 0 => \A q \in 1 .. to' : Carried(q)'
  BY DEF Passed
<1>3. pc' = "live" => \A q \in 1 .. at' : Carried(q)'
  BY DEF Passed
<1>4. \A q \in 1 .. lastSlot' : Carried(q)'
  BY DEF Passed
<1> QED
  BY <1>1, <1>2, <1>3, <1>4 DEF Passed

-----------------------------------------------------------------------------
(* The supervisor. *)

LEMMA InvInit == Init => Inv
<1> SUFFICES ASSUME Init PROVE Inv
  OBVIOUS
<1>1. TypeOK
  BY TypeInit
<1>2. /\ kind \in Kinds /\ tip \in Nat /\ cp = 0 /\ hand = 0 /\ lastSlot = 0 /\ at = 0
      /\ pc = "idle" /\ up = "off" /\ session = "none" /\ pending = {}
      /\ DOMAIN chan = {} /\ DOMAIN gaps = {}
  BY Chain DEF Init
<1>3. Ordered
  <2>1. Reach(0) = 0
    BY Chain DEF Reach, Rewound
  <2>2. \A q \in Positions : ~(q < 0)
    BY Chain DEF Positions
  <2>3. Behind(0, 1)
    BY <2>1, <2>2 DEF Behind
  <2> QED
    BY <1>2, <2>3 DEF Ordered
<1>4. Passed
  BY <1>2 DEF Passed
<1>5. Stages
  BY <1>2 DEF Stages, Bounded
<1>6. Streams
  BY <1>2 DEF Streams
<1> QED
  BY <1>1, <1>3, <1>4, <1>5, <1>6 DEF Inv

(* A step that adds to the account only. *)
LEMMA Accounts ==
  ASSUME UNCHANGED <<stored, gaps>>, unwatched \subseteq unwatched', dropped \subseteq dropped'
  PROVE  \A q : Settled(q) => Settled(q)'
BY SettledStays, GapsStay

LEMMA Places ==
  ASSUME TypeOK
  PROVE  /\ cp \in Nat /\ hand \in Nat /\ at \in Nat /\ to \in Nat /\ next \in Nat
         /\ at <= tip /\ to <= tip /\ lastSlot \in Nat
         /\ chan \in Seq(Positions)
         /\ \A i \in DOMAIN chan : chan[i] \in Positions /\ chan[i] \in Nat
<1>1. \A q \in Positions : q \in Nat
  BY Chain DEF Positions
<1>2. chan \in Seq(Positions)
  BY DEF TypeOK
<1>3. \A i \in DOMAIN chan : chan[i] \in Positions
  BY <1>2, Member
<1>4. cp \in Nat /\ hand \in Nat
  BY <1>1 DEF TypeOK
<1>5. /\ at \in Nat /\ to \in Nat /\ next \in Nat /\ at <= tip /\ to <= tip
      /\ lastSlot \in Nat
  BY Lengths DEF TypeOK
<1> QED
  BY <1>1, <1>2, <1>3, <1>4, <1>5

LEMMA SupervisorOK ==
  ASSUME Inv, StartProcess \/ Stop \/ StopCollector \/ NewBlock
  PROVE  Inv'
<1>0. TypeOK /\ Ordered /\ Passed /\ Stages /\ Streams
  BY DEF Inv
<1>1. /\ UNCHANGED <<kind, stored, gaps, chan, cp, hand, lastSlot, at, to, next, unwatched>>
      /\ dropped \subseteq dropped'
      /\ pc' = pc \/ pc' = "done"
      /\ tip \in Nat /\ tip' \in Nat /\ tip <= tip'
      /\ pending' = pending \/ (pending' = {} /\ pc' = "done" /\ pending \subseteq dropped')
      /\ pc' = pc \/ pending' = {}
  BY <1>0, Lengths DEF StartProcess, Stop, StopCollector, NewBlock, rows, proc, coll, ghost
<1>2. TypeOK'
  BY <1>0, TypeSupervisor, TypeLive
<1>3. Along
  <2>1. \A q : Settled(q) => Settled(q)'
    BY <1>1, Accounts
  <2>2. \A q \in dropped' : Settled(q)'
    BY DEF Settled
  <2> QED
    BY <1>1, <2>1, <2>2 DEF Along
<1>4. Ordered'
  BY <1>0, <1>1, <1>3, OrderedQuiet
<1>5. Passed'
  BY <1>0, <1>1, <1>3, KeptAlong, PassedStays
<1>6. Stages'
  <2>1. /\ cp \in Nat /\ hand \in Nat /\ cp <= tip /\ hand <= tip
        /\ \A i \in DOMAIN chan : chan[i] \in Nat /\ chan[i] <= tip
    BY <1>0, Places DEF Stages, Bounded
  <2>2. Bounded(tip)'
    BY <1>1, <2>1 DEF Bounded
  <2> QED
    BY <1>0, <1>1, <2>2 DEF Stages, Bounded
<1>7. Streams'
  BY <1>0, <1>1 DEF Streams, StartProcess, Stop, StopCollector, NewBlock, rows, proc, coll
<1> QED
  BY <1>2, <1>4, <1>5, <1>6, <1>7 DEF Inv

LEMMA EndOK ==
  ASSUME Inv, Finish \/ Crash
  PROVE  Inv'
<1>0. TypeOK /\ Ordered /\ Passed /\ Stages /\ Streams
  BY DEF Inv
<1>1. /\ UNCHANGED <<kind, tip, stored, cp, gaps, unwatched>>
      /\ up' = "off" /\ chan' = <<>> /\ hand' = 0 /\ lastSlot' = 0 /\ pc' = "idle"
      /\ at' = 0 /\ pending' = {}
      /\ dropped \subseteq dropped' /\ pending \subseteq dropped'
      /\ \A q \in Swaps : (\E j \in DOMAIN chan : chan[j] = q) /\ q < Rewound(cp) =>
           q \in dropped'
  BY DEF Finish, Crash, Ended, rows, Overtaken, Range
<1>2. TypeOK'
  BY <1>0, TypeSupervisor
<1>3. Ordered'
  <2>1. \A q : Settled(q) => Settled(q)'
    BY <1>1, Accounts
  <2>2. \A q \in dropped' : Settled(q)'
    BY DEF Settled
  <2> QED
    BY <1>0, <1>1, <2>1, <2>2, OrderedEnd
<1>4. Passed'
  BY <1>1 DEF Passed
<1>5. DOMAIN chan' = {}
  BY <1>1
<1>6. Stages'
  <2>1. tip \in Nat /\ cp <= tip
    BY <1>0, Lengths DEF Stages, Bounded
  <2> QED
    BY <1>1, <1>5, <2>1 DEF Stages, Bounded
<1>7. ASSUME kind = "grpc", session' = "complete" PROVE gaps = <<>>
  <2>1. CASE Finish
    <3>1. Verdict = "complete"
      BY <1>7, <2>1 DEF Finish
    <3>2. ~(\E i \in DOMAIN gaps : ~gaps[i].recovered)
      BY <1>7, <3>1, Zenon DEF Verdict
    <3>3. \A i \in DOMAIN gaps : ~gaps[i].recovered
      BY <1>0, <1>7 DEF Streams
    <3>4. DOMAIN gaps = {}
      BY <3>2, <3>3
    <3> QED
      BY <1>0, <3>4 DEF TypeOK
  <2>2. CASE Crash
    BY <1>0, <1>7, <2>2 DEF Streams, Crash, rows
  <2> QED
    BY <2>1, <2>2
<1>8. Streams'
  BY <1>0, <1>1, <1>7 DEF Streams
<1> QED
  BY <1>2, <1>3, <1>4, <1>6, <1>8 DEF Inv

-----------------------------------------------------------------------------
(* The pipeline. *)

LEMMA TakeOK ==
  ASSUME Inv, Handle \/ HandleFails
  PROVE  Inv'
<1>0. TypeOK /\ Ordered /\ Passed /\ Stages /\ Streams
  BY DEF Inv
<1>1. PICK h : h = Head(chan)
  OBVIOUS
<1>2. /\ Idle
      /\ UNCHANGED <<kind, tip, cp, gaps, session, up, lastSlot, pc, at, to, next, pending,
                     unwatched>>
      /\ stored \subseteq stored' /\ dropped \subseteq dropped'
      /\ h \in stored' \cup dropped'
      /\ hand' = 0 \/ hand' = h
  BY <1>1 DEF Handle, HandleFails, Idle, coll, rows, ghost
<1>3. TypeOK'
  BY <1>0, TypePipeline
<1>4. \A q : Settled(q) => Settled(q)'
  BY <1>2, SettledStays, GapsStay
<1>5. Settled(h)'
  BY <1>2 DEF Settled
<1>6. Ordered' /\ \A q : Carried(q) => Carried(q)'
  BY <1>0, <1>1, <1>2, <1>4, <1>5, OrderedTake
<1>7. Passed'
  BY <1>0, <1>2, <1>6, PassedStays
<1>8. /\ h \in Positions /\ 1 \in DOMAIN chan /\ h = chan[1]
      /\ \A i \in DOMAIN chan' : i + 1 \in DOMAIN chan /\ chan'[i] = chan[i + 1]
  BY <1>0, <1>1, <1>2, Places, Tailing DEF Idle
<1>9. Stages'
  <2>1. /\ Bounded(tip) => Bounded(tip)'
        /\ Bounded(to) => Bounded(to)'
    <3>1. ASSUME NEW n, n \in Nat, Bounded(n)
          PROVE  cp' <= n /\ hand' <= n /\ \A i \in DOMAIN chan' : chan'[i] <= n
      BY <1>2, <1>8, <3>1 DEF Bounded
    <3>2. tip \in Nat /\ to \in Nat
      BY <1>0, Lengths, Places
    <3> QED
      BY <1>2, <3>1, <3>2 DEF Bounded
  <2> QED
    BY <1>0, <1>2, <2>1 DEF Stages
<1>10. Streams'
  BY <1>0, <1>2 DEF Streams
<1> QED
  BY <1>3, <1>6, <1>7, <1>9, <1>10 DEF Inv

LEMMA SaveOK ==
  ASSUME Inv, SaveCheckpoint
  PROVE  Inv'
<1>0. TypeOK /\ Ordered /\ Passed /\ Stages /\ Streams
  BY DEF Inv
<1>1. /\ UNCHANGED <<kind, tip, stored, gaps, session, up, chan, lastSlot, pc, at, to, next,
                     pending, unwatched, dropped>>
      /\ cp' = hand /\ hand' = 0
  BY DEF SaveCheckpoint, coll, ghost
<1>2. TypeOK'
  BY <1>0, TypePipeline
<1>3. Along
  <2>1. \A q : Settled(q) => Settled(q)'
    BY <1>1, Accounts
  <2> QED
    BY <1>1, <2>1 DEF Along
<1>4. Ordered'
  BY <1>0, <1>1, <1>3, OrderedQuiet
<1>5. Passed'
  BY <1>0, <1>1, <1>3, KeptAlong, PassedStays
<1>6. Stages'
  <2>1. tip \in Nat /\ to \in Nat
    BY <1>0, Lengths, Places
  <2> QED
    BY <1>0, <1>1, <2>1 DEF Stages, Bounded
<1>7. Streams'
  BY <1>0, <1>1 DEF Streams
<1> QED
  BY <1>2, <1>4, <1>5, <1>6, <1>7 DEF Inv

-----------------------------------------------------------------------------
(* The collector resumes. *)

LEMMA PlanOK ==
  ASSUME Inv, Plan
  PROVE  Inv'
<1>0. TypeOK /\ Ordered /\ Passed /\ Stages /\ Streams
  BY DEF Inv
<1>1. PICK r : r = ResumePlan(Loaded, to)
  OBVIOUS
<1>2. /\ pc = "plan" /\ gaps' = gaps \o r.gap /\ next' = r.start
      /\ UNCHANGED <<kind, tip, stored, cp, session, up, hand, chan, lastSlot, at, to,
                     pending, unwatched, dropped>>
      /\ pc' = IF next' = 0 THEN "connect" ELSE "fill"
      /\ next' = 0 <=> Loaded = 0
      /\ next' \in 0 .. to
  BY <1>0, <1>1, PlanWrites DEF Plan, proc, ghost
<1>3. Resumption(r, Loaded, to) /\ Loaded \in Nat
  BY <1>0, <1>1, Planned
<1>4. /\ r.gap \in Seq(Gap) /\ gaps \in Seq(Gap)
      /\ \A q \in Nat : Rewound(Loaded) <= q /\ q < r.start /\ q >= 1 =>
           \E i \in DOMAIN r.gap : r.gap[i].from <= q /\ q <= r.gap[i].last
  BY <1>0, <1>3 DEF Resumption, TypeOK
<1>5. TypeOK'
  BY <1>0, TypeResume
<1>6. \A q : Settled(q) => Settled(q)'
  <2>1. \A q : InGap(q) => InGap(q)'
    BY <1>2, <1>4, GapsStay
  <2> QED
    BY <1>2, <2>1, SettledStays
<1>7. Along
  BY <1>2, <1>6 DEF Along
<1>8. Ordered'
  BY <1>0, <1>2, <1>7, OrderedQuiet
<1>9. kind # "grpc" /\ pending = {}
  BY <1>0, <1>2 DEF Streams, Stages
<1>10. \A q \in Nat : q >= 1 /\ Rewound(Loaded) <= q /\ q < next' => Settled(q)'
  <2>1. \A i \in DOMAIN r.gap : Len(gaps) + i \in DOMAIN gaps' /\ gaps'[Len(gaps) + i] = r.gap[i]
    BY <1>2, <1>4, Joining
  <2>2. ASSUME NEW q \in Nat, q >= 1, Rewound(Loaded) <= q, q < next' PROVE InGap(q)'
    <3>1. PICK i \in DOMAIN r.gap : r.gap[i].from <= q /\ q <= r.gap[i].last
      BY <1>2, <1>4, <2>2
    <3> QED
      BY <2>1, <3>1 DEF InGap
  <2> QED
    BY <2>2 DEF Settled
<1>11. ASSUME next' # 0, NEW q \in 1 .. next' - 1 PROVE Carried(q)'
  <2>1. Loaded = cp
    BY <1>2, <1>11 DEF Loaded
  <2>2. q \in Nat /\ q >= 1 /\ q < next' /\ q \in Positions
    BY <1>0, <1>2, <1>11, Lengths, Places, Chain DEF Positions
  <2>3. CASE Rewound(cp) <= q
    BY <1>10, <2>1, <2>2, <2>3 DEF Carried
  <2>4. CASE q < Rewound(cp)
    <3>1. Kept(q, 1)
      BY <1>0, <1>9, <2>2, <2>4 DEF Ordered, Behind, Reach
    <3>2. Carried(q)
      BY <3>1 DEF Kept, Carried
    <3> QED
      BY <1>7, <3>2, KeptAlong
  <2> QED
    BY <1>3, <2>1, <2>2, <2>3, <2>4, RewoundBounds
<1>12. Passed'
  <2>1. \A q \in 1 .. lastSlot' : Carried(q)'
    BY <1>0, <1>2, <1>7, KeptAlong DEF Passed
  <2>2. pc' = "fill" => next' # 0 /\ \A q \in 1 .. next' - 1 : Carried(q)'
    BY <1>2, <1>11
  <2>3. pc' # "live" /\ (pc' = "connect" => next' = 0)
    BY <1>2
  <2> QED
    BY <2>1, <2>2, <2>3 DEF Passed
<1>13. Stages'
  BY <1>0, <1>2, <1>9 DEF Stages, Bounded
<1>14. Streams'
  BY <1>0, <1>2, <1>9 DEF Streams
<1> QED
  BY <1>5, <1>8, <1>12, <1>13, <1>14 DEF Inv

LEMMA ReadHeadOK ==
  ASSUME Inv, ReadHead
  PROVE  Inv'
<1>0. TypeOK /\ Ordered /\ Passed /\ Stages /\ Streams
  BY DEF Inv
<1>1. /\ UNCHANGED <<kind, tip, stored, cp, gaps, session, up, hand, chan, lastSlot, at,
                     pending, unwatched, dropped>>
      /\ kind # "grpc" /\ up = "run" /\ pc = "idle" /\ pc' = "plan" /\ to' = tip
  BY DEF ReadHead, rows, proc, ghost
<1>2. TypeOK'
  BY <1>0, TypeResume
<1>3. Along
  <2>1. \A q : Settled(q) => Settled(q)'
    BY <1>1, Accounts
  <2> QED
    BY <1>1, <2>1 DEF Along
<1>4. Ordered'
  BY <1>0, <1>1, <1>3, OrderedQuiet
<1>5. Passed'
  BY <1>0, <1>1, <1>3, KeptAlong, PassedStays
<1>6. Stages'
  BY <1>0, <1>1, Lengths DEF Stages, Bounded
<1>7. Streams'
  BY <1>0, <1>1 DEF Streams
<1> QED
  BY <1>2, <1>4, <1>5, <1>6, <1>7 DEF Inv

LEMMA FillOK ==
  ASSUME Inv, Fill
  PROVE  Inv'
<1>0. TypeOK /\ Ordered /\ Passed /\ Stages /\ Streams
  BY DEF Inv
<1>1. /\ UNCHANGED <<kind, tip, stored, cp, gaps, session, up, hand, lastSlot, pc, at, to,
                     pending, unwatched>>
      /\ pc = "fill" /\ next <= to /\ next' = next + 1 /\ dropped \subseteq dropped'
      /\ \/ UNCHANGED chan /\ next \in dropped'
         \/ Emit(next) /\ UNCHANGED dropped
  BY DEF Fill, rows
<1>2. /\ next \in Nat /\ next # 0 /\ next \in Positions
      /\ \A q \in Positions : q < next => Carried(q)
      /\ \A q \in 1 .. next : q \in Positions /\ (q < next \/ q = next)
  <2>1. next # 0 /\ \A q \in 1 .. next - 1 : Carried(q)
    BY <1>0, <1>1 DEF Passed
  <2>2. next \in Nat /\ next <= tip /\ tip <= MaxTip /\ tip \in Nat /\ to \in Nat /\ to <= tip
    BY <1>0, <1>1, Lengths, Places
  <2> QED
    BY <2>1, <2>2, Chain DEF Positions
<1>3. TypeOK'
  BY <1>0, TypeResume
<1>4. \A q : Settled(q) => Settled(q)'
  BY <1>1, Accounts
<1>5. CASE UNCHANGED chan /\ next \in dropped'
  <2>1. Along
    BY <1>1, <1>4, <1>5 DEF Along
  <2>2. Ordered'
    BY <1>0, <1>1, <1>5, <2>1, OrderedQuiet
  <2>3. \A q : q = next => Carried(q)'
    BY <1>5 DEF Carried, Settled
  <2> QED
    BY <1>0, <1>1, <1>2, <1>3, <2>1, <2>2, <2>3, <1>5, KeptAlong
       DEF Inv, Passed, Stages, Bounded, Streams
<1>6. CASE Emit(next) /\ UNCHANGED dropped
  <2>1. PICK n \in Nat : /\ DOMAIN chan' = DOMAIN chan \cup {n} /\ chan'[n] = next
                         /\ \A i \in DOMAIN chan : chan'[i] = chan[i]
    BY <1>0, <1>2, <1>6, Appending DEF Emit, TypeOK
  <2>2. Along
    BY <1>1, <1>4, <2>1 DEF Along
  <2>3. \A q \in Positions : q < next =>
          Settled(q)' \/ q \in pending' \/ \E j \in DOMAIN chan : chan[j] = q
    BY <1>1, <1>2, <1>4 DEF Carried
  <2>4. Ordered'
    BY <1>0, <1>1, <1>2, <1>6, <2>2, <2>3, OrderedEmit
  <2>5. \A q : q = next => Carried(q)'
    BY <2>1 DEF Carried
  <2>6. Passed'
    BY <1>0, <1>1, <1>2, <2>2, <2>5, KeptAlong DEF Passed
  <2>7. Stages'
    BY <1>0, <1>1, <1>2, <2>1, Places, Lengths DEF Stages, Bounded
  <2>8. Streams'
    BY <1>0, <1>1 DEF Streams
  <2> QED
    BY <1>3, <2>4, <2>6, <2>7, <2>8 DEF Inv
<1> QED
  BY <1>1, <1>5, <1>6

LEMMA FilledOK ==
  ASSUME Inv, Filled
  PROVE  Inv'
<1>0. TypeOK /\ Ordered /\ Passed /\ Stages /\ Streams
  BY DEF Inv
<1>1. /\ UNCHANGED <<kind, tip, stored, cp, session, up, hand, chan, lastSlot, at, to, next,
                     pending, unwatched, dropped>>
      /\ pc = "fill" /\ next > to /\ pc' = "connect"
  BY DEF Filled, proc, ghost
<1>2. TypeOK'
  BY <1>0, TypeResume
<1>3. Along
  <2>1. /\ DOMAIN gaps' = DOMAIN gaps
        /\ \A i \in DOMAIN gaps : gaps'[i].from = gaps[i].from /\ gaps'[i].last = gaps[i].last
    BY <1>0, FilledGaps
  <2>2. \A q : InGap(q) => InGap(q)'
    BY <2>1 DEF InGap
  <2>3. \A q : Settled(q) => Settled(q)'
    BY <1>1, <2>2, SettledStays
  <2> QED
    BY <1>1, <2>3 DEF Along
<1>4. Ordered'
  BY <1>0, <1>1, <1>3, OrderedQuiet
<1>5. Passed'
  <2>1. \A q \in 1 .. to : q \in 1 .. next - 1
    BY <1>0, <1>1, Places
  <2> QED
    BY <1>0, <1>1, <1>3, <2>1, KeptAlong DEF Passed
<1>6. Stages'
  BY <1>0, <1>1 DEF Stages, Bounded
<1>7. Streams'
  BY <1>0, <1>1 DEF Streams
<1> QED
  BY <1>2, <1>4, <1>5, <1>6, <1>7 DEF Inv

LEMMA ConnectOK ==
  ASSUME Inv, Connect
  PROVE  Inv'
<1>0. TypeOK /\ Ordered /\ Passed /\ Stages /\ Streams
  BY DEF Inv
<1>1. /\ UNCHANGED <<kind, tip, stored, cp, gaps, session, up, hand, chan, lastSlot, to, next,
                     pending, dropped>>
      /\ pc = "connect" /\ pc' = "live" /\ at' = tip
      /\ unwatched' = unwatched \cup ((IF next = 0 THEN 1 ELSE to + 1) .. tip)
  BY DEF Connect, rows, proc
<1>2. TypeOK'
  BY <1>0, TypeResume
<1>3. Along
  <2>1. \A q : Settled(q) => Settled(q)'
    BY <1>1, Accounts
  <2> QED
    BY <1>1, <2>1 DEF Along
<1>4. Ordered'
  BY <1>0, <1>1, <1>3, OrderedQuiet
<1>5. ASSUME NEW q \in 1 .. tip PROVE Carried(q)'
  <2>1. to \in Nat /\ tip \in Nat
    BY <1>0, Places, Lengths
  <2>2. CASE next # 0 /\ q <= to
    <3>1. Carried(q)
      BY <1>0, <1>1, <2>1, <2>2 DEF Passed
    <3> QED
      BY <1>3, <3>1, KeptAlong
  <2>3. CASE next = 0 \/ q > to
    <3>1. q \in unwatched'
      BY <1>1, <2>1, <2>3
    <3> QED
      BY <3>1 DEF Carried, Settled
  <2> QED
    BY <2>1, <2>2, <2>3
<1>6. Passed'
  BY <1>0, <1>1, <1>3, <1>5, KeptAlong DEF Passed
<1>7. Stages'
  BY <1>0, <1>1, Places, Lengths DEF Stages, Bounded
<1>8. Streams'
  BY <1>0, <1>1 DEF Streams
<1> QED
  BY <1>2, <1>4, <1>6, <1>7, <1>8 DEF Inv

LEMMA SubscribeOK ==
  ASSUME Inv, Subscribe
  PROVE  Inv'
<1>0. TypeOK /\ Ordered /\ Passed /\ Stages /\ Streams
  BY DEF Inv
<1>1. /\ UNCHANGED <<kind, tip, stored, cp, gaps, session, up, hand, chan, lastSlot, to, next,
                     pending, dropped>>
      /\ up = "run" /\ kind = "grpc" /\ pc = "idle" /\ pc' = "live"
      /\ at' = IF cp = 0 THEN tip ELSE AtLeastOne(Rewound(cp)) - 1
      /\ unwatched' = IF cp = 0 THEN unwatched \cup (1 .. tip) ELSE unwatched
  BY DEF Subscribe, rows, proc
<1>2. TypeOK'
  BY <1>0, TypeResume
<1>3. Along
  <2>1. \A q : Settled(q) => Settled(q)'
    BY <1>1, Accounts
  <2> QED
    BY <1>1, <2>1 DEF Along
<1>4. Ordered'
  BY <1>0, <1>1, <1>3, OrderedQuiet
<1>5. ASSUME NEW q \in 1 .. at' PROVE Carried(q)'
  <2>1. CASE cp = 0
    <3>1. q \in unwatched'
      BY <1>1, <2>1
    <3> QED
      BY <3>1 DEF Carried, Settled
  <2>2. CASE cp # 0
    <3>1. cp \in Nat /\ cp <= tip /\ tip \in Nat /\ tip <= MaxTip
      BY <1>0, Places, Lengths DEF Stages, Bounded
    <3>2. q \in Positions /\ q < cp
      BY <1>1, <2>2, <3>1, RewoundBounds, AtLeastOneBounds, Chain DEF Positions
    <3>3. Kept(q, 1)
      BY <1>0, <1>1, <3>2 DEF Ordered, Behind, Reach
    <3>4. Carried(q)
      BY <3>3 DEF Kept, Carried
    <3> QED
      BY <1>3, <3>4, KeptAlong
  <2> QED
    BY <2>1, <2>2
<1>6. Passed'
  BY <1>0, <1>1, <1>3, <1>5, KeptAlong DEF Passed
<1>7. Stages'
  BY <1>0, <1>1, Places, Lengths DEF Stages, Bounded
<1>8. Streams'
  BY <1>0, <1>1 DEF Streams
<1> QED
  BY <1>2, <1>4, <1>6, <1>7, <1>8 DEF Inv

-----------------------------------------------------------------------------
(* The collector is live. *)

LEMMA Emitted ==
  ASSUME TypeOK, NEW p \in Positions, Emit(p)
  PROVE  \E n : /\ DOMAIN chan' = DOMAIN chan \cup {n} /\ chan'[n] = p
                /\ \A i \in DOMAIN chan : chan'[i] = chan[i]
BY Appending DEF Emit, TypeOK

(* The stream moves on to p, which is accounted for, held back or handed   *)
(* on, and what it passes over is accounted for.                           *)
LEMMA MovesOn ==
  ASSUME Inv, TypeOK', NEW p \in Positions, pc = "live", at < p, p <= tip, at' = p,
         UNCHANGED <<kind, tip, cp, session, up, hand, pc, to, next>>,
         \A q : Settled(q) => Settled(q)',
         \A q \in Positions : at < q /\ q < p => Carried(q)',
         lastSlot' = lastSlot \/ lastSlot' = p,
         kind = "grpc" => \A i \in DOMAIN gaps' : ~gaps'[i].recovered,
         \/ UNCHANGED <<chan, pending>> /\ Settled(p)'
         \/ UNCHANGED chan /\ pending' = pending \cup {p} /\ kind = "evm"
         \/ UNCHANGED pending /\ Emit(p)
  PROVE  Inv'
<1>0. TypeOK /\ Ordered /\ Passed /\ Stages /\ Streams
  BY DEF Inv
<1>1. /\ p \in Nat /\ at \in Nat /\ tip \in Nat
      /\ \A q \in 1 .. p : q \in Positions /\ (q \in 1 .. at \/ (at < q /\ q < p) \/ q = p)
      /\ \A q \in Positions : q < p => q \in 1 .. at \/ (at < q /\ q < p)
  BY <1>0, Places, Lengths, Chain DEF Positions
<1>2. \A q \in 1 .. at : Carried(q)
  BY <1>0 DEF Passed
<1>3. Along /\ Carried(p)'
  <2>1. CASE UNCHANGED <<chan, pending>> /\ Settled(p)'
    BY <2>1 DEF Along, Carried
  <2>2. CASE UNCHANGED chan /\ pending' = pending \cup {p} /\ kind = "evm"
    BY <2>2 DEF Along, Carried
  <2>3. CASE UNCHANGED pending /\ Emit(p)
    <3>1. PICK n : /\ DOMAIN chan' = DOMAIN chan \cup {n} /\ chan'[n] = p
                   /\ \A i \in DOMAIN chan : chan'[i] = chan[i]
      BY <1>0, <2>3, Emitted
    <3> QED
      BY <2>3, <3>1 DEF Along, Carried
  <2> QED
    BY <2>1, <2>2, <2>3
<1>4. \A q \in 1 .. p : Carried(q)'
  BY <1>1, <1>2, <1>3, KeptAlong
<1>5. Ordered'
  <2>1. CASE UNCHANGED chan
    BY <1>0, <1>3, <2>1, OrderedQuiet
  <2>2. CASE UNCHANGED pending /\ Emit(p)
    <3>1. PICK n : /\ DOMAIN chan' = DOMAIN chan \cup {n} /\ chan'[n] = p
                   /\ \A i \in DOMAIN chan : chan'[i] = chan[i]
      BY <1>0, <2>2, Emitted
    <3>2. ASSUME NEW q \in Positions, q < p
          PROVE  Settled(q)' \/ q \in pending' \/ \E j \in DOMAIN chan : chan[j] = q
      <4>1. CASE Carried(q)
        BY <2>2, <4>1 DEF Carried
      <4>2. CASE at < q
        <5>1. Carried(q)' /\ q # p
          BY <1>1, <3>2, <4>2 DEF Positions
        <5> QED
          BY <3>1, <5>1 DEF Carried
      <4> QED
        BY <1>1, <1>2, <3>2, <4>1, <4>2
    <3> QED
      BY <1>0, <1>3, <2>2, <3>2, OrderedEmit
  <2> QED
    BY <2>1, <2>2
<1>6. Passed'
  <2>1. \A q \in 1 .. lastSlot : Carried(q)'
    BY <1>0, <1>3, KeptAlong DEF Passed
  <2> QED
    BY <1>4, <2>1 DEF Passed
<1>7. Stages'
  <2>1. \A i \in DOMAIN chan' : chan'[i] <= tip
    <3>1. CASE UNCHANGED chan
      BY <1>0, <3>1 DEF Stages, Bounded
    <3>2. CASE Emit(p)
      BY <1>0, <3>2, Appending DEF Emit, TypeOK, Stages, Bounded
    <3> QED
      BY <3>1, <3>2
  <2>2. /\ pending' # {} => kind = "evm"
        /\ pending' \subseteq 1 .. p
    <3>1. pending \subseteq 1 .. p /\ p \in 1 .. p
      BY <1>0, <1>1, Chain DEF Stages, Positions
    <3> QED
      BY <1>0, <3>1 DEF Stages
  <2> QED
    BY <1>0, <2>1, <2>2 DEF Stages, Bounded
<1>8. Streams'
  BY <1>0 DEF Streams
<1> QED
  BY <1>5, <1>6, <1>7, <1>8 DEF Inv

LEMMA SlotGaps ==
  ASSUME TypeOK, NEW p \in Positions, NEW w \in BOOLEAN, SlotSeen(p, w)
  PROVE  /\ lastSlot' = p
         /\ \A q : InGap(q) => InGap(q)'
         /\ w /\ lastSlot # 0 =>
              \A q \in Nat : lastSlot < q /\ q < p => InGap(q)'
         /\ (\A i \in DOMAIN gaps : ~gaps[i].recovered) =>
              \A i \in DOMAIN gaps' : ~gaps'[i].recovered
<1>1. lastSlot' = p
  BY DEF SlotSeen
<1>2. p \in Nat /\ lastSlot \in Nat /\ gaps \in Seq(Gap)
  BY Places, Chain DEF Positions, TypeOK
<1>3. CASE w /\ lastSlot # 0 /\ p > lastSlot + 1
  <2>1. PICK x : x = [from |-> lastSlot + 1, last |-> p - 1, recovered |-> FALSE]
    OBVIOUS
  <2>2. gaps' = Append(gaps, x)
    BY <1>3, <2>1 DEF SlotSeen
  <2>3. x \in Gap /\ x.from = lastSlot + 1 /\ x.last = p - 1
    BY <1>2, <1>3, <2>1 DEF Gap
  <2>4. ~x.recovered
    BY <2>1, Zenon
  <2>5. /\ \A q : InGap(q) => InGap(q)'
        /\ \A q : x.from <= q /\ q <= x.last => InGap(q)'
    BY <1>2, <2>2, <2>3, GapsStay
  <2>6. \A q \in Nat : lastSlot < q /\ q < p => InGap(q)'
    BY <1>2, <2>3, <2>5
  <2>7. /\ DOMAIN gaps' = DOMAIN gaps \cup {Len(gaps) + 1} /\ gaps'[Len(gaps) + 1] = x
        /\ \A i \in DOMAIN gaps : gaps'[i] = gaps[i]
    BY <1>2, <2>2, <2>3, Appending
  <2>8. (\A i \in DOMAIN gaps : ~gaps[i].recovered) =>
          \A i \in DOMAIN gaps' : ~gaps'[i].recovered
    BY <2>4, <2>7, Zenon
  <2> QED
    BY <1>1, <2>5, <2>6, <2>8
<1>4. CASE ~(w /\ lastSlot # 0 /\ p > lastSlot + 1)
  <2>1. gaps' = gaps
    BY <1>4 DEF SlotSeen
  <2>2. w /\ lastSlot # 0 => \A q \in Nat : ~(lastSlot < q /\ q < p)
    BY <1>2, <1>4
  <2> QED
    BY <1>1, <2>1, <2>2, GapsStay
<1> QED
  BY <1>3, <1>4

LEMMA DeliverOK ==
  ASSUME Inv, Deliver
  PROVE  Inv'
<1>0. TypeOK /\ Ordered /\ Passed /\ Stages /\ Streams
  BY DEF Inv
<1>1. PICK p : p = at + 1
  OBVIOUS
<1>2. p \in Positions /\ p \in Nat /\ at < p /\ p <= tip
  BY <1>0, <1>1, Places, Lengths, Chain DEF Deliver, Positions
<1>3. /\ UNCHANGED <<kind, tip, stored, cp, session, up, hand, pc, to, next, dropped>>
      /\ pc = "live" /\ at' = p /\ unwatched \subseteq unwatched'
      /\ IF kind = "grpc" THEN SlotSeen(p, TRUE) ELSE UNCHANGED <<lastSlot, gaps>>
      /\ \/ UNCHANGED <<chan, pending>> /\ p \in unwatched'
         \/ UNCHANGED chan /\ pending' = pending \cup {p} /\ kind = "evm"
         \/ UNCHANGED pending /\ Emit(p)
  BY <1>1 DEF Deliver
<1>4. TypeOK'
  BY <1>0, TypeLive
<1>5. /\ \A q : InGap(q) => InGap(q)'
      /\ lastSlot' = lastSlot \/ lastSlot' = p
      /\ kind = "grpc" => \A i \in DOMAIN gaps' : ~gaps'[i].recovered
  <2>1. CASE kind = "grpc"
    BY <1>0, <1>2, <1>3, <2>1, SlotGaps DEF Streams
  <2>2. CASE kind # "grpc"
    BY <1>3, <2>2, GapsStay
  <2> QED
    BY <2>1, <2>2
<1>6. \A q : Settled(q) => Settled(q)'
  BY <1>3, <1>5, SettledStays
<1>7. p \in unwatched' => Settled(p)'
  BY <1>3 DEF Settled
<1>8. \A q \in Positions : ~(at < q /\ q < p)
  BY <1>0, <1>1, Places, Chain DEF Positions
<1> QED
  BY <1>2, <1>3, <1>4, <1>5, <1>6, <1>7, <1>8, MovesOn

LEMMA SkipOK ==
  ASSUME Inv, DeliverPastSkip
  PROVE  Inv'
<1>0. TypeOK /\ Ordered /\ Passed /\ Stages /\ Streams
  BY DEF Inv
<1>1. PICK p : p = at + 2
  OBVIOUS
<1>2. /\ p \in Positions /\ p \in Nat /\ at < p /\ p <= tip
      /\ at + 1 \in Nat /\ at + 1 \in Positions /\ at + 1 < p
  BY <1>0, <1>1, Places, Lengths, Chain DEF DeliverPastSkip, Positions
<1>3. PICK w \in BOOLEAN :
        /\ SlotSeen(p, w)
        /\ dropped' = IF w /\ lastSlot # 0 THEN dropped
                      ELSE dropped \cup ((lastSlot + 1) .. (at + 1))
  BY <1>1 DEF DeliverPastSkip
<1>4. /\ UNCHANGED <<kind, tip, stored, cp, session, up, hand, pc, to, next, pending,
                     unwatched>>
      /\ kind = "grpc" /\ pc = "live" /\ at' = p /\ Emit(p)
  BY <1>1 DEF DeliverPastSkip
<1>5. TypeOK'
  BY <1>0, TypeLive
<1>6. /\ \A q : InGap(q) => InGap(q)'
      /\ lastSlot' = p
      /\ w /\ lastSlot # 0 => \A q \in Nat : lastSlot < q /\ q < p => InGap(q)'
      /\ \A i \in DOMAIN gaps' : ~gaps'[i].recovered
  BY <1>0, <1>2, <1>3, <1>4, SlotGaps DEF Streams
<1>7. \A q : Settled(q) => Settled(q)'
  BY <1>3, <1>4, <1>6, SettledStays
<1>8. ASSUME NEW q \in Positions, at < q, q < p PROVE Carried(q)'
  <2>1. q = at + 1 /\ q \in Nat /\ q >= 1 /\ lastSlot \in Nat
    BY <1>0, <1>1, <1>8, Places, Chain DEF Positions
  <2>2. CASE q <= lastSlot
    <3>1. Carried(q)
      BY <1>0, <2>1, <2>2 DEF Passed
    <3>2. CASE Settled(q) \/ q \in pending
      BY <1>4, <1>7, <3>2 DEF Carried
    <3>3. CASE \E j \in DOMAIN chan : chan[j] = q
      <4>1. \A j \in DOMAIN chan : j \in DOMAIN chan' /\ chan'[j] = chan[j]
        BY <1>0, <1>2, <1>4, Appending DEF Emit, TypeOK
      <4> QED
        BY <3>3, <4>1 DEF Carried
    <3> QED
      BY <3>1, <3>2, <3>3 DEF Carried
  <2>3. CASE q > lastSlot /\ w /\ lastSlot # 0
    BY <1>6, <1>8, <2>1, <2>3 DEF Carried, Settled
  <2>4. CASE q > lastSlot /\ ~(w /\ lastSlot # 0)
    <3>1. q \in dropped'
      BY <1>2, <1>3, <2>1, <2>4
    <3> QED
      BY <3>1 DEF Carried, Settled
  <2> QED
    BY <2>1, <2>2, <2>3, <2>4
<1> QED
  BY <1>2, <1>4, <1>5, <1>6, <1>7, <1>8, MovesOn

LEMMA FetchOK ==
  ASSUME Inv, FetchFails
  PROVE  Inv'
<1>0. TypeOK /\ Ordered /\ Passed /\ Stages /\ Streams
  BY DEF Inv
<1>1. PICK p : p = at + 1
  OBVIOUS
<1>2. p \in Positions /\ p \in Nat /\ at < p /\ p <= tip
  BY <1>0, <1>1, Places, Lengths, Chain DEF FetchFails, Positions
<1>3. /\ UNCHANGED <<kind, tip, stored, cp, gaps, session, up, hand, lastSlot, chan, pc, to,
                     next, pending, unwatched>>
      /\ kind = "rpc" /\ pc = "live" /\ at' = p /\ dropped' = dropped \cup {p}
  BY <1>1 DEF FetchFails, rows, proc
<1>4. TypeOK'
  BY <1>0, TypeLive
<1>5. (\A q : Settled(q) => Settled(q)') /\ Settled(p)'
  <2>1. \A q : Settled(q) => Settled(q)'
    BY <1>3, Accounts
  <2>2. Settled(p)'
    BY <1>3 DEF Settled
  <2> QED
    BY <2>1, <2>2
<1>6. \A q \in Positions : ~(at < q /\ q < p)
  BY <1>0, <1>1, Places, Chain DEF Positions
<1> QED
  BY <1>2, <1>3, <1>4, <1>5, <1>6, MovesOn

LEMMA FlushOK ==
  ASSUME Inv, FlushPending
  PROVE  Inv'
<1>0. TypeOK /\ Ordered /\ Passed /\ Stages /\ Streams
  BY DEF Inv
<1>1. PICK p : p = CHOOSE q \in pending : \A r \in pending : q <= r
  OBVIOUS
<1>2. /\ UNCHANGED <<kind, tip, stored, cp, gaps, session, up, hand, lastSlot, pc, at, to,
                     next, unwatched, dropped>>
      /\ pc = "live" /\ pending # {} /\ Emit(p) /\ pending' = pending \ {p}
  BY <1>1 DEF FlushPending, rows, ghost
<1>3. p \in pending
  <2>1. pending \in SUBSET Nat
    BY <1>0 DEF Stages
  <2> QED
    BY <1>1, <1>2, <2>1, Smallest
<1>4. /\ p \in Swaps /\ p \in Positions /\ p \in Nat /\ p <= at /\ at <= tip /\ tip \in Nat
      /\ at \in Nat /\ kind = "evm"
  BY <1>0, <1>2, <1>3, Places, Lengths, Chain DEF Stages, TypeOK, Swaps, Positions
<1>5. TypeOK'
  BY <1>0, TypeLive
<1>6. PICK n : /\ DOMAIN chan' = DOMAIN chan \cup {n} /\ chan'[n] = p
               /\ \A i \in DOMAIN chan : chan'[i] = chan[i]
  BY <1>0, <1>2, <1>4, Appending DEF Emit, TypeOK
<1>7. \A q : Settled(q) => Settled(q)'
  BY <1>2, Accounts
<1>8. Along
  BY <1>2, <1>4, <1>6, <1>7 DEF Along
<1>9. Ordered'
  <2>1. ASSUME NEW q \in Positions, q < p
        PROVE  Settled(q)' \/ q \in pending' \/ \E j \in DOMAIN chan : chan[j] = q
    <3>1. q \in 1 .. at /\ q # p
      BY <1>4, <2>1, Chain DEF Positions
    <3>2. Carried(q)
      BY <1>0, <1>2, <3>1 DEF Passed
    <3> QED
      BY <1>2, <1>7, <3>1, <3>2 DEF Carried
  <2> QED
    BY <1>0, <1>2, <1>4, <1>8, <2>1, OrderedEmit
<1>10. Passed'
  BY <1>0, <1>2, <1>8, KeptAlong, PassedStays
<1>11. Stages'
  <2>1. \A i \in DOMAIN chan' : chan'[i] <= tip
    BY <1>0, <1>4, <1>6 DEF Stages, Bounded
  <2> QED
    BY <1>0, <1>2, <2>1 DEF Stages, Bounded
<1>12. Streams'
  BY <1>0, <1>2 DEF Streams
<1> QED
  BY <1>5, <1>9, <1>10, <1>11, <1>12 DEF Inv

LEMMA SessionFailsOK ==
  ASSUME Inv, SessionFails
  PROVE  Inv'
<1>0. TypeOK /\ Ordered /\ Passed /\ Stages /\ Streams
  BY DEF Inv
<1>1. /\ UNCHANGED <<kind, tip, stored, cp, gaps, session, up, hand, lastSlot, chan, to, next,
                     unwatched>>
      /\ pc # "idle" /\ pc' = "idle" /\ at' = 0 /\ pending' = {}
      /\ dropped' = dropped \cup pending
  BY DEF SessionFails, rows, proc
<1>2. TypeOK'
  BY <1>0, TypeLive
<1>3. Along
  <2>1. \A q : Settled(q) => Settled(q)'
    BY <1>1, Accounts
  <2>2. \A q \in pending : Settled(q)'
    BY <1>1 DEF Settled
  <2> QED
    BY <1>1, <2>1, <2>2 DEF Along
<1>4. Ordered'
  BY <1>0, <1>1, <1>3, OrderedQuiet
<1>5. Passed'
  BY <1>0, <1>1, <1>3, KeptAlong, PassedStays
<1>6. Stages'
  BY <1>0, <1>1 DEF Stages, Bounded
<1>7. Streams'
  BY <1>0, <1>1 DEF Streams
<1> QED
  BY <1>2, <1>4, <1>5, <1>6, <1>7 DEF Inv

-----------------------------------------------------------------------------
(* The theorems. *)

LEMMA StepOK == Inv /\ [Next]_vars => Inv'
<1> SUFFICES ASSUME Inv, [Next]_vars PROVE Inv'
  OBVIOUS
<1>1. CASE StartProcess \/ Stop \/ StopCollector \/ NewBlock
  BY <1>1, SupervisorOK
<1>2. CASE Finish \/ Crash
  BY <1>2, EndOK
<1>3. CASE Handle \/ HandleFails
  BY <1>3, TakeOK
<1>4. CASE SaveCheckpoint
  BY <1>4, SaveOK
<1>5. CASE ReadHead
  BY <1>5, ReadHeadOK
<1>6. CASE Plan
  BY <1>6, PlanOK
<1>7. CASE Fill
  BY <1>7, FillOK
<1>8. CASE Filled
  BY <1>8, FilledOK
<1>9. CASE Connect
  BY <1>9, ConnectOK
<1>10. CASE Subscribe
  BY <1>10, SubscribeOK
<1>11. CASE Deliver
  BY <1>11, DeliverOK
<1>12. CASE DeliverPastSkip
  BY <1>12, SkipOK
<1>13. CASE FetchFails
  BY <1>13, FetchOK
<1>14. CASE FlushPending
  BY <1>14, FlushOK
<1>15. CASE SessionFails
  BY <1>15, SessionFailsOK
<1>16. CASE UNCHANGED vars
  <2>1. TypeOK'
    BY <1>16 DEF Inv, TypeOK, vars, rows, proc, coll, ghost
  <2>2. UNCHANGED <<kind, tip, stored, cp, gaps, session, up, chan, hand, lastSlot, pc, at, to,
                    next, pending, unwatched, dropped>>
    BY <1>16 DEF vars, rows, proc, coll, ghost
  <2>3. Along
    <3>1. \A q : Settled(q) => Settled(q)'
      BY <2>2, Accounts
    <3> QED
      BY <2>2, <3>1 DEF Along
  <2>4. Ordered'
    BY <2>2, <2>3, OrderedQuiet DEF Inv
  <2>5. Passed'
    BY <2>2, <2>3, KeptAlong, PassedStays DEF Inv
  <2>6. Stages' /\ Streams'
    BY <2>2 DEF Inv, Stages, Bounded, Streams
  <2> QED
    BY <2>1, <2>4, <2>5, <2>6 DEF Inv
<1> QED
  BY <1>1, <1>2, <1>3, <1>4, <1>5, <1>6, <1>7, <1>8, <1>9, <1>10, <1>11, <1>12, <1>13,
     <1>14, <1>15, <1>16 DEF Next, Work, Store

(* Every variable keeps its type: the checkpoint and the log at hand are   *)
(* stored, the channel does not overflow, the collector never reads past   *)
(* the head of the chain.                                                  *)
THEOREM TypeCorrect == Spec => []TypeOK
<1>1. Inv => TypeOK
  BY DEF Inv
<1> QED
  BY <1>1, InvInit, StepOK, PTL DEF Spec

(* Whatever crashed, failed or was rewound before, every position that a   *)
(* live stream is past is stored, on its way to the pipeline, pending,     *)
(* covered by a gap row, or lost in one of the ways the code does not      *)
(* record.                                                                 *)
THEOREM LossExplained == Spec => []LossIsExplained
<1>1. Inv => LossIsExplained
  <2> SUFFICES ASSUME Inv, pc = "live", NEW p \in 1 .. at
               PROVE  Settled(p) \/ p \in Range(chan) \cup pending
    BY DEF LossIsExplained
  <2>1. Carried(p)
    BY DEF Inv, Passed
  <2> QED
    BY <2>1 DEF Carried, Range
<1> QED
  BY <1>1, InvInit, StepOK, PTL DEF Spec

(* A Yellowstone session that is finished as complete has stored, up to    *)
(* the checkpoint, every slot that some session watched and that was not   *)
(* dropped by a failure: no crash before it can have left a hole.          *)
THEOREM CompleteSessionsAreWhole == Spec => []CompleteIsWhole
<1>1. Inv => CompleteIsWhole
  <2> SUFFICES ASSUME Inv, kind = "grpc", up = "off", session = "complete",
                      NEW p \in 1 .. tip, cp # 0, p <= cp
               PROVE  p \in stored \cup unwatched \cup dropped
    BY DEF CompleteIsWhole
  <2>1. TypeOK /\ Ordered /\ Stages /\ Streams
    BY DEF Inv
  <2>2. gaps = <<>> /\ pending = {}
    BY <2>1 DEF Streams, Stages
  <2>3. p \in Positions /\ p \in Nat /\ cp \in Nat
    BY <2>1, Places, Lengths, Chain DEF Positions
  <2>4. CASE p = cp
    BY <2>1, <2>4 DEF TypeOK
  <2>5. CASE p < cp
    <3>1. Kept(p, 1)
      BY <2>1, <2>3, <2>5 DEF Ordered, Behind, Reach
    <3>2. ~InGap(p)
      BY <2>2 DEF InGap
    <3>3. \A j \in DOMAIN chan : ~(j < 1)
      BY <2>1, Places, Member
    <3> QED
      BY <2>2, <3>1, <3>2, <3>3 DEF Kept, Settled
  <2> QED
    BY <2>3, <2>4, <2>5
<1> QED
  BY <1>1, InvInit, StepOK, PTL DEF Spec

=============================================================================
