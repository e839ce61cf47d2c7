------------------------- MODULE CurveReaderProofs --------------------------
(***************************************************************************)
(* Theorems about CurveReader for any chain, any callers and curves, any   *)
(* number of endpoints, and every bound: TypeOK, SingleFlight,             *)
(* ExactIsOfBlock and LatestHasCause.                                      *)
(***************************************************************************)
EXTENDS CurveReader, FiniteSetTheorems, TLAPS

LEMMA PoolWith ==
  ASSUME NEW g \in Pool, NEW a \in 0 .. FailureCap, NEW b \in Nat
  PROVE  /\ [g EXCEPT !.failures = a, !.left = b] \in Pool
         /\ \A ep \in 1 .. Endpoints :
              [g EXCEPT !.failures = a, !.left = b, !.active = ep] \in Pool
BY DEF Pool

USE EndpointsAssumption, DelayAssumption, FailureCapAssumption, ReaderBounds,
    CurveAtAssumption, ProbeOffsetAssumption, MoodsAssumption, NoCallerAssumption

-----------------------------------------------------------------------------
(* The inductive invariant. *)

(* Steps of a fetch that come after the reserves and after the fees.       *)
Later  == {"amounts", "config", "status", "hash", "probeNear", "probeFar", "done"}
Priced == {"status", "hash", "probeNear", "probeFar", "done"}

OfBlock(at, label, block) == IF label = "EXACT" THEN at = block ELSE at >= block

HasBlock(c) == pc[c] # "idle" /\ (pc[c] = "rpc" => job[c].step # "head")
Fetching(c) == pc[c] \in {"rpc", "publish"}

JobSound(c) ==
  LET j == job[c]
  IN /\ HasBlock(c) => j.key[2] \in 1 .. head
     /\ pc[c] = "rpc" => j.step # "done"
     /\ pc[c] = "publish" /\ j.error = "none" => j.step = "done"
     /\ Fetching(c) /\ j.step \in Later =>
          j.at \in Blocks /\ OfBlock(j.at, j.label, j.key[2])
     /\ Fetching(c) /\ j.step \in Priced => j.fees # "none"

Jobs == lastHead \in 0 .. head /\ \A c \in Callers : JobSound(c)

(* A key has a leader exactly while one is fetching it.                    *)
Flights ==
  /\ IsFiniteSet(permits) /\ Cardinality(permits) <= MaxInflight
  /\ \A c \in Callers : Leads(c) => inflight[job[c].key] = c
  /\ \A k \in Keys : inflight[k] # NoCaller =>
       Leads(inflight[k]) /\ job[inflight[k]].key = k
  /\ \A f \in Callers : pc[f] = "wait" /\ inbox[f] = "none" =>
       inflight[job[f].key] # NoCaller

(* Without an outage no endpoint fails and no circuit opens.               *)
Causes ==
  /\ (\E i \in 1 .. Endpoints : mood[i] # "good") => outages > 0
  /\ pool.left > 0 => outages > 0
  /\ historical = "NO" => ~archive \/ outages > 0

Inv == TypeOK /\ Jobs /\ Flights /\ ExactIsOfBlock /\ Causes

-----------------------------------------------------------------------------
(* The pool. *)

LEMMA PowerOfTwo == ASSUME NEW n \in Nat PROVE 2 ^ n \in Nat
<1>1. Cardinality(1 .. n) = n /\ IsFiniteSet(1 .. n)
  BY FS_Interval
<1>2. IsFiniteSet(SUBSET (1 .. n)) /\ Cardinality(SUBSET (1 .. n)) = 2 ^ n
  BY <1>1, FS_SUBSET
<1> QED
  BY <1>2, FS_CardinalityType

LEMMA Tripped ==
  ASSUME NEW g \in Pool, NEW kind \in CircuitKinds
  PROVE  trip(g, kind) \in Pool
<1> DEFINE f == AtMost(g.failures + 1, FailureCap)
           left == AtMost(BaseDelay[kind] * 2 ^ (f - 1), CapDelay[kind])
<1>1. f \in 1 .. FailureCap
  BY DEF AtMost, Pool
<1>2. 2 ^ (f - 1) \in Nat
  BY <1>1, PowerOfTwo
<1>3. left \in Nat
  BY <1>2 DEF AtMost
<1> HIDE DEF f, left
<1>4. [g EXCEPT !.failures = f, !.left = left] \in Pool
  <2>1. f \in 0 .. FailureCap
    BY <1>1
  <2> QED
    BY <1>3, <2>1, PoolWith
<1> QED
  BY <1>4 DEF trip, f, left

LEMMA PoolStays ==
  ASSUME NEW g \in Pool
  PROVE  /\ \A fault : classify_and_trip(g, fault) \in Pool
         /\ classify_and_trip(g, "refused") = g
         /\ \A ep \in 1 .. Endpoints : /\ note_success(g, ep) \in Pool
                                       /\ note_success(g, ep).left = 0
         /\ Elapsed(g) \in Pool /\ (Elapsed(g).left > 0 => g.left > 0)
<1>1. \A fault : classify_and_trip(g, fault) \in Pool
  BY Tripped DEF classify_and_trip, CircuitKinds
<1>2. \A ep \in 1 .. Endpoints : note_success(g, ep) \in Pool /\ note_success(g, ep).left = 0
  <2>1. 0 \in Nat /\ 0 \in 0 .. FailureCap
    OBVIOUS
  <2>2. \A ep \in 1 .. Endpoints : note_success(g, ep) \in Pool
    BY <2>1, PoolWith DEF note_success
  <2>3. \A ep : note_success(g, ep).left = 0
    BY DEF note_success, Pool
  <2> QED
    BY <2>2, <2>3
<1>3. Elapsed(g) \in Pool /\ (Elapsed(g).left > 0 => g.left > 0)
  BY DEF Elapsed, Pool
<1>4. classify_and_trip(g, "refused") = g
  BY DEF classify_and_trip
<1> QED
  BY <1>1, <1>2, <1>3, <1>4

LEMMA PoolShape ==
  /\ NewPool \in Pool /\ NewPool.left = 0
  /\ \A g \in Pool : g.active \in 1 .. Endpoints /\ g.left \in Nat
BY DEF NewPool, Pool

LEMMA CircuitTypes ==
  ASSUME circuit \in Nat, NEW r
  PROVE  CircuitFor(r) \in Nat
BY DEF CircuitFor, CircuitKinds

LEMMA NextEndpoint ==
  ASSUME NEW ep \in 1 .. Endpoints
  PROVE  (ep % Endpoints) + 1 \in 1 .. Endpoints
OBVIOUS

-----------------------------------------------------------------------------
(* Jobs and their steps. *)

LEMMA StepNamesAre ==
  StepNames = {"head", "code", "reserves", "amounts", "config", "status", "hash",
               "probeNear", "probeFar", "done"}
<1>1. {Steps[i] : i \in 1 .. 8} =
        {"code", "reserves", "amounts", "config", "status", "hash", "probeNear", "probeFar"}
  BY DEF Steps
<1> QED
  BY <1>1 DEF StepNames

LEMMA StepFollows ==
  /\ Steps[1 + CHOOSE i \in 1 .. 7 : Steps[i] = "code"] = "reserves"
  /\ Steps[1 + CHOOSE i \in 1 .. 7 : Steps[i] = "reserves"] = "amounts"
  /\ Steps[1 + CHOOSE i \in 1 .. 7 : Steps[i] = "amounts"] = "config"
  /\ Steps[1 + CHOOSE i \in 1 .. 7 : Steps[i] = "config"] = "status"
  /\ Steps[1 + CHOOSE i \in 1 .. 7 : Steps[i] = "status"] = "hash"
<1>1. /\ Steps[1] = "code" /\ Steps[2] = "reserves" /\ Steps[3] = "amounts"
      /\ Steps[4] = "config" /\ Steps[5] = "status" /\ Steps[6] = "hash"
      /\ Steps[7] = "probeNear"
  BY DEF Steps
<1>2. \A i \in 1 .. 7 : i = 1 \/ i = 2 \/ i = 3 \/ i = 4 \/ i = 5 \/ i = 6 \/ i = 7
  OBVIOUS
<1>3. (CHOOSE i \in 1 .. 7 : Steps[i] = "code") = 1
  BY <1>1, <1>2
<1>4. (CHOOSE i \in 1 .. 7 : Steps[i] = "reserves") = 2
  BY <1>1, <1>2
<1>5. (CHOOSE i \in 1 .. 7 : Steps[i] = "amounts") = 3
  BY <1>1, <1>2
<1>6. (CHOOSE i \in 1 .. 7 : Steps[i] = "config") = 4
  BY <1>1, <1>2
<1>7. (CHOOSE i \in 1 .. 7 : Steps[i] = "status") = 5
  BY <1>1, <1>2
<1> QED
  BY <1>1, <1>3, <1>4, <1>5, <1>6, <1>7

(* Where a fetch goes on after each step: never back to the head or the    *)
(* reserves, and past the fees only with fees.                             *)
LEMMA StepsForward ==
  ASSUME NEW j, j.step \in StepNames \ {"head", "done"}, NEW ok
  PROVE  LET next == StepAfter(j, ok)
         IN /\ next \in {"reserves"} \cup Later
            /\ j.step # "code" => next \in Later
            /\ j.step = "code" => next \notin Later
            /\ next \in Priced => \/ j.step \in Priced \cup {"config"}
                                  \/ j.step = "amounts" /\ staticCfg[j.key[1]] # "none"
            /\ next = "done" => j.step \in Probes \cup {"hash"}
<1>1. NextProbe(j) \in {"probeNear", "probeFar", "done"}
  BY DEF NextProbe
<1>2. CASE j.step = "code"
  BY <1>2, StepFollows DEF StepAfter, Later, Priced, Probes
<1>3. CASE j.step = "reserves"
  BY <1>3, StepFollows DEF StepAfter, Later, Priced, Probes
<1>4. CASE j.step = "amounts"
  BY <1>4, StepFollows DEF StepAfter, Later, Priced, Probes
<1>5. CASE j.step = "config"
  BY <1>5, StepFollows DEF StepAfter, Later, Priced, Probes
<1>6. CASE j.step = "status"
  BY <1>6, StepFollows DEF StepAfter, Later, Priced, Probes
<1>7. CASE j.step \in {"hash", "probeNear", "probeFar"}
  <2>1. StepAfter(j, ok) \in {"probeNear", "probeFar", "done"}
    BY <1>1, <1>7 DEF StepAfter, Probes
  <2> QED
    BY <1>7, <2>1 DEF Later, Priced, Probes
<1> QED
  BY <1>2, <1>3, <1>4, <1>5, <1>6, <1>7, StepNamesAre

LEMMA JobFields ==
  ASSUME NEW j \in Job
  PROVE  /\ j.key[1] \in Curves /\ j.key[2] \in Blocks \cup {0}
         /\ j.key = <<j.key[1], j.key[2]>>
         /\ j.step \in StepNames /\ j.attempt \in Nat /\ j.at \in Blocks \cup {0}
         /\ j.label \in Labels /\ j.fees \in Fees /\ j.error \in Errors \cup {"none"}
         /\ j.key[2] \in Blocks => j.key \in Keys
BY DEF Job, Keys

LEMMA KeySet ==
  ASSUME NEW j \in Job, NEW b \in Blocks
  PROVE  [j EXCEPT !.key[2] = b] \in Job /\ [j EXCEPT !.key[2] = b].key[2] = b
<1>1. [j EXCEPT !.key[2] = b] \in Job
  BY DEF Job
<1>2. [j EXCEPT !.key[2] = b].key[2] = b
  BY DEF Job
<1> QED
  BY <1>1, <1>2

LEMMA NewJobs ==
  ASSUME NEW x \in Curves, NEW b \in Blocks \cup {0}
  PROVE  /\ NewJob(x, b) \in Job
         /\ NewJob(x, b).step = "head" /\ NewJob(x, b).key[2] = b
         /\ NewJob(x, b).key[1] = x
<1>1. "head" \in StepNames /\ "EXACT" \in Labels /\ "none" \in Fees
  BY StepNamesAre DEF Labels, Fees
<1> QED
  BY <1>1 DEF NewJob, Job

(* The request of a getter, and what comes back.                           *)
LEMMA AskedTypes ==
  ASSUME TypeOK, NEW c \in Callers, job[c].key[2] \in 1 .. head, job[c].step = "reserves"
  PROVE  /\ Asked(job[c]) \in Blocks
         /\ OfBlock(Asked(job[c]), job[c].label, job[c].key[2])
<1>1. head \in Blocks /\ job[c].label \in Labels
  BY JobFields DEF TypeOK
<1>2. Asked(job[c]) = IF job[c].label = "LATEST" THEN head ELSE job[c].key[2]
  BY DEF Asked, Probes
<1> QED
  BY <1>1, <1>2 DEF Blocks, OfBlock, Labels

Answers == Faults \cup {"ok", "open"}

LEMMA AnswerTypes ==
  ASSUME TypeOK, NEW c \in Callers
  PROVE  /\ Answer(call[c].ep, job[c]) \in Faults \cup {"ok"}
         /\ Answer(call[c].ep, job[c]) # "ok" =>
              \/ mood[call[c].ep] # "good"
              \/ ~archive /\ Answer(call[c].ep, job[c]) = "refused"
<1>1. call[c].ep \in 1 .. Endpoints
  BY DEF TypeOK
<1>2. mood[call[c].ep] \in Moods \cup {"good"}
  BY <1>1 DEF TypeOK
<1>3. archive \in BOOLEAN
  BY DEF TypeOK
<1> QED
  BY <1>2, <1>3 DEF Answer, Faults

LEMMA ReadTypes ==
  ASSUME NEW j, NEW a \in Answers
  PROVE  /\ Read(j, a) \in Errors \cup {"ok"}
         /\ Read(j, a) = "ok" => a = "ok"
         /\ j.step \in Probes => Read(j, a) = a
         /\ Read(j, a) # "ok" => Read(j, a) \in Errors
<1>1. Read(j, a) \in {a, "empty", "invalid", "ok"} /\ (Read(j, a) = "ok" => a = "ok")
  BY DEF Read
<1>2. j.step \in Probes => Read(j, a) = a
  BY DEF Read, Probes
<1> QED
  BY <1>1, <1>2 DEF Answers, Errors, Faults

(* What a fetch's next step carries.                                       *)
LEMMA ProceedsTo ==
  ASSUME TypeOK, NEW c \in Callers, NEW ok,
         job[c].step \in StepNames \ {"head", "done"}, job[c].key[2] \in 1 .. head
  PROVE  LET j == job[c]
             n == Proceeded(j, ok)
         IN /\ n \in Job /\ n.key = j.key /\ n.error = j.error
            /\ n.step = StepAfter(j, ok) /\ n.fees = FeesAfter(j, ok)
            /\ j.step # "code" => n.label = j.label
            /\ n.at = IF j.step = "reserves" THEN Asked(j) ELSE j.at
<1> DEFINE j == job[c]
           step == StepAfter(j, ok)
           fees == FeesAfter(j, ok)
           label == IF j.step = "code" THEN LabelNow ELSE j.label
           at == IF j.step = "reserves" THEN Asked(j) ELSE j.at
<1>0. j \in Job
  BY DEF TypeOK
<1>1. step \in StepNames
  BY StepsForward, StepNamesAre DEF Later
<1>2. fees \in Fees
  <2>1. j.key[1] \in Curves /\ j.fees \in Fees
    BY <1>0, JobFields
  <2>2. staticCfg[j.key[1]] \in Fees
    BY <2>1 DEF TypeOK
  <2> QED
    BY <2>1, <2>2 DEF FeesAfter, Fees
<1>3. label \in Labels
  BY <1>0, JobFields DEF LabelNow, Labels
<1>4. at \in Blocks \cup {0}
  BY <1>0, JobFields, AskedTypes
<1>5. Proceeded(j, ok) = [j EXCEPT !.step = step, !.attempt = 0, !.fees = fees,
                                   !.label = label, !.at = at]
  BY DEF Proceeded
<1> HIDE DEF j, step, fees, label, at
<1>6. 0 \in Nat
  OBVIOUS
<1>7. [j EXCEPT !.step = step, !.attempt = 0, !.fees = fees, !.label = label, !.at = at] \in Job
  BY <1>0, <1>1, <1>2, <1>3, <1>4, <1>6 DEF Job
<1>8. LET n == [j EXCEPT !.step = step, !.attempt = 0, !.fees = fees, !.label = label, !.at = at]
      IN n.key = j.key /\ n.error = j.error /\ n.step = step /\ n.fees = fees
         /\ n.label = label /\ n.at = at
  BY <1>0 DEF Job
<1>9. /\ Proceeded(j, ok) \in Job
      /\ Proceeded(j, ok).key = j.key /\ Proceeded(j, ok).error = j.error
      /\ Proceeded(j, ok).step = step /\ Proceeded(j, ok).fees = fees
      /\ Proceeded(j, ok).label = label /\ Proceeded(j, ok).at = at
  BY <1>5, <1>7, <1>8
<1> QED
  BY <1>9 DEF j, step, fees, label, at

LEMMA FeesDecided ==
  ASSUME TypeOK, NEW c \in Callers, JobSound(c), pc[c] = "rpc", NEW ok,
         job[c].step \in StepNames \ {"head", "done"},
         StepAfter(job[c], ok) \in Priced
  PROVE  FeesAfter(job[c], ok) # "none"
<1> DEFINE j == job[c]
<1>1. \/ j.step \in Priced \cup {"config"}
      \/ j.step = "amounts" /\ staticCfg[j.key[1]] # "none"
  BY StepsForward
<1>2. j.step \in Priced => j.fees # "none"
  BY DEF JobSound, Fetching
<1> QED
  BY <1>1, <1>2 DEF FeesAfter, Priced

(* The ways an RPC can end for its caller.                                 *)
Took(c, a)  == job[c].step = "head" /\ HeadRead(c, Read(job[c], a))
Went(c, a, ok) ==
  /\ job[c].step # "head" /\ Proceed(c, ok) /\ UNCHANGED cache
  /\ ~ok => a # "ok" \/ job[c].step \notin Probes
Tried(c)    == job[c].step # "head" /\ Retry(c)
Dropped(c)  == job[c].step # "head" /\ \E r \in Errors : Abandon(c, r)

LEMMA Concluded ==
  ASSUME TypeOK, NEW c \in Callers, NEW a \in Answers, Conclude(c, a)
  PROVE  /\ circuit' \in Nat /\ UNCHANGED <<chain, flights>>
         /\ Took(c, a) \/ Went(c, a, TRUE) \/ Went(c, a, FALSE) \/ Tried(c) \/ Dropped(c)
<1> DEFINE j == job[c]
           r == Read(j, a)
<1>1. circuit' \in Nat
  BY CircuitTypes DEF Conclude, TypeOK
<1>2. UNCHANGED <<chain, flights>>
  BY DEF Conclude
<1>3. \/ j.step = "head" /\ HeadRead(c, r)
      \/ j.step # "head" /\ Proceed(c, TRUE) /\ UNCHANGED cache
      \/ j.step # "head" /\ Retry(c)
      \/ j.step # "head" /\ r # "ok" /\ Abandon(c, r)
      \/ j.step # "head" /\ r # "ok" /\ Proceed(c, FALSE) /\ UNCHANGED cache
  BY DEF Conclude
<1>4. r # "ok" => r \in Errors /\ (j.step \in Probes => a # "ok")
  BY ReadTypes
<1> QED
  BY <1>1, <1>2, <1>3, <1>4 DEF Took, Went, Tried, Dropped

-----------------------------------------------------------------------------
(* What a step does to its own caller: the types it leaves and JobSound.   *)

(* The callers other than c stay where they are.                           *)
Only(c) == \A d \in Callers \ {c} : pc'[d] = pc[d] /\ job'[d] = job[d]

(* The variables of a read that TypeOK speaks of, and what they become.    *)
ReadTypesNext ==
  /\ pc' \in [Callers -> Labels_pc] /\ job' \in [Callers -> Job]
  /\ lastHead' \in Blocks \cup {0} /\ cache' \in [Keys -> State \cup {NoState}]
  /\ staticCfg' \in [Curves -> Fees] /\ codeOk' \subseteq Curves
  /\ historical' \in {"none", "YES", "NO"}

LEMMA Moves ==
  ASSUME TypeOK, NEW c \in Callers, NEW label \in Labels_pc, Goto(c, label)
  PROVE  /\ pc' \in [Callers -> Labels_pc] /\ pc'[c] = label
         /\ \A d \in Callers \ {c} : pc'[d] = pc[d]
BY DEF TypeOK, Goto

LEMMA JobSet ==
  ASSUME TypeOK, NEW c \in Callers, NEW j \in Job, job' = [job EXCEPT ![c] = j]
  PROVE  /\ job' \in [Callers -> Job] /\ job'[c] = j
         /\ \A d \in Callers \ {c} : job'[d] = job[d]
BY DEF TypeOK

LEMMA LabelsAre ==
  Labels_pc = {"idle", "rpc", "look", "join", "wait", "permit", "publish", "remove"}
BY DEF Labels_pc

LEMMA Returned ==
  ASSUME TypeOK, NEW c \in Callers, Return(c)
  PROVE  /\ pc' \in [Callers -> Labels_pc] /\ pc'[c] = "idle" /\ Only(c)
         /\ job' \in [Callers -> Job] /\ JobSound(c)' /\ ~Leads(c)'
<1>1. job[c] \in Job /\ job[c].key[1] \in Curves
  BY JobFields DEF TypeOK
<1>2. job' = [job EXCEPT ![c] = NewJob(job[c].key[1], 0)]
  BY DEF Return
<1>3. NewJob(job[c].key[1], 0) \in Job
  BY <1>1, NewJobs
<1>4. /\ job' \in [Callers -> Job]
      /\ \A d \in Callers \ {c} : job'[d] = job[d]
  BY <1>2, <1>3, JobSet
<1>5. /\ pc' \in [Callers -> Labels_pc] /\ pc'[c] = "idle"
      /\ \A d \in Callers \ {c} : pc'[d] = pc[d]
  BY Moves, LabelsAre DEF Return
<1> QED
  BY <1>4, <1>5 DEF Only, JobSound, HasBlock, Fetching, Leads

(* The lead and the job's key stay, and nobody starts to wait.             *)
SameFlight(c) == /\ Leads(c)' <=> Leads(c)
                 /\ Leads(c) => job'[c].key = job[c].key
                 /\ pc'[c] # "wait"

LEMMA HeadTaken ==
  ASSUME TypeOK, Jobs, NEW c \in Callers, pc[c] = "rpc", NEW a, Took(c, a), head' = head
  PROVE  /\ ReadTypesNext /\ Only(c) /\ JobSound(c)' /\ SameFlight(c)
         /\ cache' = cache /\ historical' = historical /\ lastHead' \in 0 .. head
<1>1. /\ job[c].step = "head" /\ job[c] \in Job /\ head \in Blocks
      /\ job \in [Callers -> Job]
  BY DEF Took, TypeOK
<1>2. ~Leads(c)
  BY <1>1 DEF Leads
<1>3. CASE Read(job[c], a) = "ok"
  <2>1. /\ lastHead' = head /\ job' = [job EXCEPT ![c].key[2] = head] /\ Goto(c, "look")
        /\ UNCHANGED <<cache, staticCfg, codeOk, historical>>
    BY <1>3 DEF Took, HeadRead
  <2>2. [job[c] EXCEPT !.key[2] = head] \in Job
        /\ [job[c] EXCEPT !.key[2] = head].key[2] = head
    BY <1>1, KeySet
  <2>3. job' = [job EXCEPT ![c] = [job[c] EXCEPT !.key[2] = head]]
    BY <2>1
  <2>4. /\ job' \in [Callers -> Job] /\ job'[c].key[2] = head
        /\ \A d \in Callers \ {c} : job'[d] = job[d]
    BY <2>2, <2>3, JobSet
  <2>5. /\ pc' \in [Callers -> Labels_pc] /\ pc'[c] = "look"
        /\ \A d \in Callers \ {c} : pc'[d] = pc[d]
    BY <2>1, Moves, LabelsAre
  <2>6. head \in 1 .. head /\ head \in 0 .. head
    BY <1>1 DEF Blocks
  <2>7. JobSound(c)'
    BY <2>4, <2>5, <2>6 DEF JobSound, Fetching
  <2>8. ReadTypesNext
    BY <1>1, <2>1, <2>4, <2>5 DEF ReadTypesNext, TypeOK
  <2> QED
    BY <1>2, <2>1, <2>4, <2>5, <2>6, <2>7, <2>8 DEF Only, SameFlight, Leads
<1>4. CASE Read(job[c], a) # "ok"
  <2>1. Return(c) /\ UNCHANGED shared
    BY <1>4 DEF Took, HeadRead
  <2>2. ReadTypesNext /\ lastHead' \in 0 .. head
    BY <2>1, Returned DEF ReadTypesNext, TypeOK, shared, Jobs
  <2> QED
    BY <1>2, <2>1, <2>2, Returned DEF SameFlight, shared
<1> QED
  BY <1>3, <1>4

LEMMA FetchGoesOn ==
  ASSUME TypeOK, Jobs, NEW c \in Callers, pc[c] = "rpc", NEW a, NEW ok \in BOOLEAN,
         Went(c, a, ok), head' = head
  PROVE  /\ ReadTypesNext /\ Only(c) /\ JobSound(c)' /\ SameFlight(c)
         /\ cache' = cache /\ lastHead' = lastHead
         /\ historical' = "NO" => historical = "NO" \/ (job[c].step \in Probes /\ ~ok)
<1> DEFINE j == job[c]
           n == Proceeded(j, ok)
           label == IF n.step = "done" THEN "publish" ELSE "rpc"
<1>1. /\ j \in Job /\ JobSound(c) /\ j.step # "head" /\ j.step # "done"
      /\ j.key[2] \in 1 .. head /\ j.key[1] \in Curves
  BY JobFields DEF TypeOK, Jobs, JobSound, HasBlock, Went
<1>2. j.step \in StepNames \ {"head", "done"}
  BY <1>1, JobFields
<1>3. /\ job' = [job EXCEPT ![c] = n] /\ Goto(c, label)
      /\ codeOk' = IF j.step = "code" /\ ok THEN codeOk \cup {j.key[1]} ELSE codeOk
      /\ staticCfg' = IF j.step = "config"
                      THEN [staticCfg EXCEPT ![j.key[1]] = n.fees] ELSE staticCfg
      /\ historical' \in {historical, "YES", "NO"}
      /\ historical' = "NO" => historical = "NO" \/ (j.step \in Probes /\ ~ok)
      /\ lastHead' = lastHead /\ cache' = cache
  BY DEF Went, Proceed
<1>4. /\ n \in Job /\ n.key = j.key /\ n.error = j.error
      /\ n.step = StepAfter(j, ok) /\ n.fees = FeesAfter(j, ok)
      /\ j.step # "code" => n.label = j.label
      /\ n.at = IF j.step = "reserves" THEN Asked(j) ELSE j.at
  BY <1>1, <1>2, ProceedsTo
<1>5. n.step \in Later => n.at \in Blocks /\ OfBlock(n.at, n.label, n.key[2])
  <2>1. CASE j.step = "reserves"
    BY <1>1, <1>4, <2>1, AskedTypes
  <2>2. CASE j.step \in Later
    BY <1>1, <1>4, <2>2 DEF JobSound, Fetching, Later
  <2>3. CASE j.step = "code"
    BY <1>2, <1>4, <2>3, StepsForward
  <2> QED
    BY <1>2, <2>1, <2>2, <2>3, StepNamesAre DEF Later
<1>6. n.step \in Priced => n.fees # "none"
  BY <1>1, <1>2, <1>4, FeesDecided
<1>7. n.step # "head"
  BY <1>2, <1>4, StepsForward DEF Later
<1>8. /\ job' \in [Callers -> Job] /\ job'[c] = n
      /\ \A d \in Callers \ {c} : job'[d] = job[d]
  BY <1>3, <1>4, JobSet
<1>9. /\ pc' \in [Callers -> Labels_pc] /\ pc'[c] = label
      /\ \A d \in Callers \ {c} : pc'[d] = pc[d]
  BY <1>3, Moves, LabelsAre
<1> HIDE DEF n
<1>10. JobSound(c)'
  <2>1. (HasBlock(c) => job[c].key[2] \in 1 .. head)'
    BY <1>1, <1>4, <1>8
  <2>2. (pc[c] = "rpc" => job[c].step # "done")'
        /\ (pc[c] = "publish" /\ job[c].error = "none" => job[c].step = "done")'
    BY <1>8, <1>9
  <2>3. (Fetching(c) /\ job[c].step \in Later =>
           job[c].at \in Blocks /\ OfBlock(job[c].at, job[c].label, job[c].key[2]))'
    BY <1>5, <1>8 DEF OfBlock
  <2>4. (Fetching(c) /\ job[c].step \in Priced => job[c].fees # "none")'
    BY <1>6, <1>8
  <2> QED
    BY <2>1, <2>2, <2>3, <2>4 DEF JobSound
<1>11. SameFlight(c)
  BY <1>1, <1>4, <1>7, <1>8, <1>9 DEF SameFlight, Leads
<1>12. ReadTypesNext
  <2>1. staticCfg' \in [Curves -> Fees]
    BY <1>3, <1>4, JobFields DEF TypeOK
  <2>2. codeOk' \subseteq Curves
    BY <1>1, <1>3 DEF TypeOK
  <2> QED
    BY <1>3, <1>8, <1>9, <2>1, <2>2 DEF ReadTypesNext, TypeOK
<1> QED
  BY <1>3, <1>8, <1>9, <1>10, <1>11, <1>12 DEF Only

LEMMA TriedAgain ==
  ASSUME TypeOK, Jobs, NEW c \in Callers, pc[c] = "rpc", Tried(c) \/ Dropped(c),
         head' = head
  PROVE  /\ ReadTypesNext /\ Only(c) /\ JobSound(c)' /\ SameFlight(c)
         /\ cache' = cache /\ lastHead' = lastHead /\ historical' = historical
<1>1. /\ job[c] \in Job /\ JobSound(c) /\ job[c].step # "head" /\ UNCHANGED shared
  BY DEF TypeOK, Jobs, Tried, Dropped, Retry, Abandon
<1>2. CASE Tried(c)
  <2>1. job' = [job EXCEPT ![c] = [job[c] EXCEPT !.attempt = job[c].attempt + 1]]
        /\ pc' = pc
    BY <1>2 DEF Tried, Retry
  <2>2. [job[c] EXCEPT !.attempt = job[c].attempt + 1] \in Job
    BY <1>1 DEF Job
  <2>3. /\ job' \in [Callers -> Job]
        /\ job'[c] = [job[c] EXCEPT !.attempt = job[c].attempt + 1]
        /\ \A d \in Callers \ {c} : job'[d] = job[d]
    BY <2>1, <2>2, JobSet
  <2>4. /\ job'[c].key = job[c].key /\ job'[c].step = job[c].step
        /\ job'[c].at = job[c].at /\ job'[c].label = job[c].label
        /\ job'[c].fees = job[c].fees /\ job'[c].error = job[c].error
    BY <1>1, <2>3 DEF Job
  <2>5. JobSound(c)'
    BY <1>1, <2>1, <2>4 DEF JobSound, HasBlock, Fetching, OfBlock
  <2> QED
    BY <1>1, <2>1, <2>3, <2>4, <2>5 DEF ReadTypesNext, TypeOK, shared, Only, SameFlight, Leads
<1>3. CASE Dropped(c)
  <2>1. PICK r \in Errors : Abandon(c, r)
    BY <1>3 DEF Dropped
  <2>2. job' = [job EXCEPT ![c] = [job[c] EXCEPT !.error = r]] /\ Goto(c, "publish")
    BY <2>1 DEF Abandon
  <2>3. [job[c] EXCEPT !.error = r] \in Job
    BY <1>1 DEF Job
  <2>4. /\ job' \in [Callers -> Job] /\ job'[c] = [job[c] EXCEPT !.error = r]
        /\ \A d \in Callers \ {c} : job'[d] = job[d]
    BY <2>2, <2>3, JobSet
  <2>5. /\ job'[c].key = job[c].key /\ job'[c].step = job[c].step
        /\ job'[c].at = job[c].at /\ job'[c].label = job[c].label
        /\ job'[c].fees = job[c].fees /\ job'[c].error = r
    BY <1>1, <2>4 DEF Job
  <2>6. /\ pc' \in [Callers -> Labels_pc] /\ pc'[c] = "publish"
        /\ \A d \in Callers \ {c} : pc'[d] = pc[d]
    BY <2>2, Moves, LabelsAre
  <2>7. r # "none"
    BY <2>1 DEF Errors, Faults
  <2>8. JobSound(c)'
    BY <1>1, <2>5, <2>6, <2>7 DEF JobSound, HasBlock, Fetching, OfBlock
  <2> QED
    BY <1>1, <2>4, <2>5, <2>6, <2>8 DEF ReadTypesNext, TypeOK, shared, Only, SameFlight, Leads
<1> QED
  BY <1>2, <1>3


LEMMA RpcEnds ==
  ASSUME TypeOK, Jobs, NEW c \in Callers, pc[c] = "rpc", NEW a \in Answers, Conclude(c, a)
  PROVE  /\ ReadTypesNext /\ Only(c) /\ JobSound(c)' /\ SameFlight(c)
         /\ cache' = cache /\ lastHead' \in 0 .. head /\ circuit' \in Nat
         /\ UNCHANGED <<chain, flights>>
         /\ historical' = "NO" => historical = "NO" \/ a # "ok"
<1>1. /\ circuit' \in Nat /\ UNCHANGED <<chain, flights>>
      /\ Took(c, a) \/ Went(c, a, TRUE) \/ Went(c, a, FALSE) \/ Tried(c) \/ Dropped(c)
  BY Concluded
<1>2. head' = head /\ lastHead \in 0 .. head
  BY <1>1 DEF chain, Jobs
<1>3. CASE Took(c, a)
  BY <1>1, <1>2, <1>3, HeadTaken
<1>4. CASE Went(c, a, TRUE)
  <2>1. historical' = "NO" => historical = "NO"
    BY <1>2, <1>4, FetchGoesOn
  <2> QED
    BY <1>1, <1>2, <1>4, <2>1, FetchGoesOn
<1>5. CASE Went(c, a, FALSE)
  <2>1. a # "ok" \/ job[c].step \notin Probes
    BY <1>5 DEF Went
  <2> QED
    BY <1>1, <1>2, <1>5, <2>1, FetchGoesOn
<1>6. CASE Tried(c) \/ Dropped(c)
  BY <1>1, <1>2, <1>6, TriedAgain
<1> QED
  BY <1>1, <1>3, <1>4, <1>5, <1>6

-----------------------------------------------------------------------------
(* What one caller's step leaves to the others. *)

LEMMA JobsFrom ==
  ASSUME TypeOK, Jobs, NEW c \in Callers, Only(c), JobSound(c)', head' = head,
         lastHead' \in 0 .. head
  PROVE  Jobs'
<1>1. ASSUME NEW d \in Callers \ {c} PROVE JobSound(d)'
  <2>1. pc'[d] = pc[d] /\ job'[d] = job[d] /\ JobSound(d)
    BY <1>1 DEF Only, Jobs
  <2> QED
    BY <2>1 DEF JobSound, HasBlock, Fetching, OfBlock
<1> QED
  BY <1>1 DEF Jobs

LEMMA FlightsFrom ==
  ASSUME TypeOK, Flights, NEW c \in Callers, Only(c), SameFlight(c),
         inflight' = inflight, IsFiniteSet(permits'), Cardinality(permits') <= MaxInflight,
         \A f \in Callers : inbox'[f] = "none" => inbox[f] = "none" \/ f = c
  PROVE  Flights'
<1>1. \A d \in Callers \ {c} : pc'[d] = pc[d] /\ job'[d] = job[d]
  BY DEF Only
<1>2. \A d \in Callers : /\ Leads(d)' <=> Leads(d)
                         /\ Leads(d) => job'[d].key = job[d].key
  <2>1. ASSUME NEW d \in Callers \ {c} PROVE (Leads(d)' <=> Leads(d)) /\ job'[d].key = job[d].key
    BY <1>1, <2>1 DEF Leads
  <2> QED
    BY <2>1 DEF SameFlight
<1>3. \A k \in Keys : inflight[k] \in Callers \cup {NoCaller}
  BY DEF TypeOK
<1>4. (\A d \in Callers : Leads(d) => inflight[job[d].key] = d)'
  BY <1>2 DEF Flights
<1>5. (\A k \in Keys : inflight[k] # NoCaller =>
         Leads(inflight[k]) /\ job[inflight[k]].key = k)'
  <2> SUFFICES ASSUME NEW k \in Keys, inflight[k] # NoCaller
               PROVE  (Leads(inflight[k]) /\ job[inflight[k]].key = k)'
    OBVIOUS
  <2>1. PICK d \in Callers : d = inflight[k]
    BY <1>3
  <2>2. Leads(d) /\ job[d].key = k /\ inflight'[k] = d
    BY <2>1 DEF Flights
  <2>3. Leads(d)' /\ job'[d].key = k
    BY <1>2, <2>2
  <2> QED
    BY <2>1, <2>3 DEF Leads
<1>6. (\A f \in Callers : pc[f] = "wait" /\ inbox[f] = "none" =>
         inflight[job[f].key] # NoCaller)'
  BY <1>1 DEF Flights, SameFlight
<1> QED
  BY <1>4, <1>5, <1>6 DEF Flights

LEMMA CacheStays ==
  ASSUME ExactIsOfBlock, cache' = cache
  PROVE  ExactIsOfBlock'
BY DEF ExactIsOfBlock

(* A step that asks no endpoint, and does not finish a fetch.              *)
LEMMA CausesFrom ==
  ASSUME Causes, UNCHANGED <<mood, archive>>, outages' = outages, pool' = pool,
         historical' = "NO" => historical = "NO" \/ ~archive \/ outages > 0
  PROVE  Causes'
BY DEF Causes

LEMMA Quiet ==
  ASSUME TypeOK, Inv, NEW c \in Callers, UNCHANGED <<chain, pool, circuit, shared>>,
         Only(c), JobSound(c)'
  PROVE  Jobs' /\ ExactIsOfBlock' /\ Causes'
<1>1. /\ head' = head /\ cache' = cache /\ lastHead' = lastHead /\ historical' = historical
      /\ mood' = mood /\ outages' = outages /\ archive' = archive /\ pool' = pool
  BY DEF chain, shared
<1> QED
  BY <1>1, JobsFrom, CacheStays, CausesFrom DEF Inv, Jobs

LEMMA TypesFrom ==
  ASSUME TypeOK, ReadTypesNext, UNCHANGED chain, pool' \in Pool, circuit' \in Nat,
         inflight' \in [Keys -> Callers \cup {NoCaller}], permits' \subseteq Callers,
         call' \in [Callers -> [ep : 1 .. Endpoints, left : 0 .. Endpoints]],
         inbox' \in [Callers -> {"none", "ok", "error", "closed"}]
  PROVE  TypeOK'
BY DEF TypeOK, ReadTypesNext, chain

LEMMA FlightTypes ==
  ASSUME TypeOK, UNCHANGED flights
  PROVE  /\ inflight' \in [Keys -> Callers \cup {NoCaller}] /\ permits' \subseteq Callers
         /\ inbox' \in [Callers -> {"none", "ok", "error", "closed"}]
BY DEF TypeOK, flights

LEMMA Asking ==
  ASSUME Inv, NEW c \in Callers, pc[c] = "rpc", NEW a \in Answers, Conclude(c, a),
         pool' \in Pool, pool'.left > 0 => outages > 0,
         call' \in [Callers -> [ep : 1 .. Endpoints, left : 0 .. Endpoints]],
         a # "ok" => ~archive \/ outages > 0
  PROVE  Inv'
<1>0. TypeOK /\ Jobs /\ Flights /\ ExactIsOfBlock /\ Causes
  BY DEF Inv
<1>1. /\ ReadTypesNext /\ Only(c) /\ JobSound(c)' /\ SameFlight(c)
      /\ cache' = cache /\ lastHead' \in 0 .. head /\ circuit' \in Nat
      /\ UNCHANGED <<chain, flights>>
      /\ historical' = "NO" => historical = "NO" \/ a # "ok"
  BY <1>0, RpcEnds
<1>2. /\ head' = head /\ mood' = mood /\ outages' = outages /\ archive' = archive
      /\ inflight' = inflight /\ permits' = permits /\ inbox' = inbox
  BY <1>1 DEF chain, flights
<1>3. TypeOK'
  BY <1>0, <1>1, FlightTypes, TypesFrom
<1>4. Jobs'
  BY <1>0, <1>1, <1>2, JobsFrom
<1>5. Flights'
  BY <1>0, <1>1, <1>2, FlightsFrom DEF Flights
<1>6. ExactIsOfBlock'
  BY <1>0, <1>1, CacheStays
<1>7. Causes'
  BY <1>0, <1>1, <1>2 DEF Causes
<1> QED
  BY <1>3, <1>4, <1>5, <1>6, <1>7 DEF Inv

LEMMA InvUnread ==
  ASSUME Inv, NEW c \in Callers, UNCHANGED <<chain, circuit, shared, flights, pc, job>>,
         pool' \in Pool, pool'.left > 0 => outages > 0,
         call' \in [Callers -> [ep : 1 .. Endpoints, left : 0 .. Endpoints]]
  PROVE  Inv'
<1>1. TypeOK'
  BY DEF Inv, TypeOK, chain, shared, flights
<1>2. UNCHANGED <<head, lastHead, pc, job, inflight, permits, inbox, cache, mood, outages,
                  archive, historical>>
  BY DEF chain, shared, flights
<1>3. Jobs'
  BY <1>2 DEF Inv, Jobs, JobSound, HasBlock, Fetching, OfBlock
<1>4. Flights'
  BY <1>2 DEF Inv, Flights, Leads
<1>5. ExactIsOfBlock' /\ Causes'
  BY <1>2 DEF Inv, ExactIsOfBlock, Causes
<1> QED
  BY <1>1, <1>3, <1>4, <1>5 DEF Inv

LEMMA DialStep ==
  ASSUME Inv, NEW c \in Callers, Dial(c)
  PROVE  Inv'
<1>0. TypeOK /\ Causes /\ pool \in Pool /\ outages \in Nat
      /\ call \in [Callers -> [ep : 1 .. Endpoints, left : 0 .. Endpoints]]
  BY DEF Inv, TypeOK
<1>1. pc[c] = "rpc" /\ pool' = pool /\ (pool'.left > 0 => outages > 0)
  BY <1>0 DEF Dial, Causes
<1>2. CASE circuit_open(pool)
  <2>1. Conclude(c, "open") /\ call' = call
    BY <1>2 DEF Dial
  <2>2. outages > 0 /\ "open" \in Answers
    BY <1>0, <1>1, <1>2 DEF circuit_open, Causes, Answers
  <2> QED
    BY <1>0, <1>1, <2>1, <2>2, Asking
<1>3. CASE ~circuit_open(pool)
  <2>1. /\ call' = [call EXCEPT ![c] = [ep |-> pool.active, left |-> Endpoints]]
        /\ UNCHANGED <<chain, circuit, shared, flights, pc, job>>
    BY <1>3 DEF Dial
  <2>2. [ep |-> pool.active, left |-> Endpoints]
          \in [ep : 1 .. Endpoints, left : 0 .. Endpoints]
    BY <1>0, PoolShape
  <2>3. call' \in [Callers -> [ep : 1 .. Endpoints, left : 0 .. Endpoints]]
    BY <1>0, <2>1, <2>2
  <2> QED
    BY <1>0, <1>1, <2>1, <2>3, InvUnread
<1> QED
  BY <1>2, <1>3

LEMMA ReplyStep ==
  ASSUME Inv, NEW c \in Callers, Reply(c)
  PROVE  Inv'
<1> DEFINE q == call[c]
           r == Answer(q.ep, job[c])
<1>0. TypeOK /\ Causes /\ pool \in Pool /\ outages \in Nat
      /\ call \in [Callers -> [ep : 1 .. Endpoints, left : 0 .. Endpoints]]
      /\ q.ep \in 1 .. Endpoints /\ q.left \in 0 .. Endpoints
  BY DEF Inv, TypeOK
<1>1. /\ pc[c] = "rpc" /\ q.left > 0
      /\ pool' = IF r = "ok" THEN note_success(pool, q.ep) ELSE classify_and_trip(pool, r)
      /\ \/ Conclude(c, r) /\ call' = [call EXCEPT ![c] = NoCall]
         \/ /\ call' = [call EXCEPT ![c] = [ep |-> (q.ep % Endpoints) + 1,
                                            left |-> q.left - 1]]
            /\ UNCHANGED <<chain, circuit, shared, flights, pc, job>>
  BY DEF Reply
<1>2. r \in Answers /\ (r # "ok" => outages > 0 \/ (~archive /\ r = "refused"))
  <2>1. mood[q.ep] # "good" => outages > 0
    BY <1>0 DEF Causes
  <2> QED
    BY <1>0, <2>1, AnswerTypes DEF Answers
<1>3. pool' \in Pool
  BY <1>0, <1>1, PoolStays
<1>4. pool'.left > 0 => outages > 0
  <2>1. CASE r = "ok"
    <3>1. pool' = note_success(pool, q.ep)
      BY <1>1, <2>1
    <3>2. pool'.left = 0
      BY <1>0, <3>1, PoolStays
    <3> QED
      BY <3>2
  <2>2. CASE r = "refused"
    BY <1>0, <1>1, <2>2, PoolStays DEF Causes
  <2>3. CASE r # "ok" /\ r # "refused"
    BY <1>2, <2>3
  <2> QED
    BY <2>1, <2>2, <2>3
<1>5. CASE Conclude(c, r) /\ call' = [call EXCEPT ![c] = NoCall]
  <2>1. NoCall \in [ep : 1 .. Endpoints, left : 0 .. Endpoints]
    BY DEF NoCall
  <2>2. call' \in [Callers -> [ep : 1 .. Endpoints, left : 0 .. Endpoints]]
    BY <1>0, <1>5, <2>1
  <2> QED
    BY <1>1, <1>2, <1>3, <1>4, <1>5, <2>2, Asking
<1>6. CASE /\ call' = [call EXCEPT ![c] = [ep |-> (q.ep % Endpoints) + 1,
                                           left |-> q.left - 1]]
           /\ UNCHANGED <<chain, circuit, shared, flights, pc, job>>
  <2>1. [ep |-> (q.ep % Endpoints) + 1, left |-> q.left - 1]
          \in [ep : 1 .. Endpoints, left : 0 .. Endpoints]
    <3>1. (q.ep % Endpoints) + 1 \in 1 .. Endpoints
      BY <1>0, NextEndpoint
    <3>2. q.left - 1 \in 0 .. Endpoints
      BY <1>0, <1>1
    <3> QED
      BY <3>1, <3>2
  <2>2. call' \in [Callers -> [ep : 1 .. Endpoints, left : 0 .. Endpoints]]
    BY <1>0, <1>6, <2>1
  <2> QED
    BY <1>3, <1>4, <1>6, <2>2, InvUnread
<1> QED
  BY <1>1, <1>5, <1>6


-----------------------------------------------------------------------------
(* The steps of a read. *)

LEMMA FlightFacts ==
  ASSUME Inv, NEW c \in Callers
  PROVE  /\ TypeOK /\ Jobs /\ Flights /\ JobSound(c) /\ job[c] \in Job
         /\ HasBlock(c) => job[c].key \in Keys
         /\ IsFiniteSet(permits) /\ Cardinality(permits) <= MaxInflight
<1>1. TypeOK /\ Jobs /\ Flights /\ JobSound(c) /\ job[c] \in Job /\ head \in Blocks
  BY DEF Inv, Jobs, TypeOK
<1>2. HasBlock(c) => job[c].key[2] \in Blocks
  BY <1>1 DEF JobSound, Blocks
<1> QED
  BY <1>1, <1>2, JobFields DEF Flights

LEMMA StartStep ==
  ASSUME Inv, NEW c \in Callers, Start(c)
  PROVE  Inv'
<1> DEFINE label == IF lastHead = 0 THEN "rpc" ELSE "look"
<1>0. TypeOK /\ Jobs /\ Flights /\ lastHead \in 0 .. head /\ head \in Blocks
      /\ lastHead \in Blocks \cup {0}
      /\ IsFiniteSet(permits) /\ Cardinality(permits) <= MaxInflight
  BY DEF Inv, Jobs, TypeOK, Flights
<1>1. PICK x \in Curves : job' = [job EXCEPT ![c] = NewJob(x, lastHead)]
  BY DEF Start
<1>2. /\ NewJob(x, lastHead) \in Job /\ NewJob(x, lastHead).step = "head"
      /\ NewJob(x, lastHead).key[2] = lastHead
  BY <1>0, NewJobs
<1>3. /\ job' \in [Callers -> Job] /\ job'[c].step = "head" /\ job'[c].key[2] = lastHead
      /\ \A d \in Callers \ {c} : job'[d] = job[d]
  BY <1>0, <1>1, <1>2, JobSet
<1>4. Goto(c, label) /\ pc[c] = "idle"
      /\ UNCHANGED <<chain, pool, circuit, shared, flights, call>>
  BY DEF Start
<1>5. /\ pc' \in [Callers -> Labels_pc] /\ pc'[c] = label
      /\ \A d \in Callers \ {c} : pc'[d] = pc[d]
  BY <1>0, <1>4, Moves, LabelsAre
<1>6. Only(c)
  BY <1>3, <1>5 DEF Only
<1>7. JobSound(c)'
  <2>1. head' = head
    BY <1>4 DEF chain
  <2>2. lastHead # 0 => lastHead \in 1 .. head
    BY <1>0 DEF Blocks
  <2> QED
    BY <1>3, <1>5, <2>1, <2>2 DEF JobSound, HasBlock, Fetching, Later, Priced
<1>8. SameFlight(c)
  BY <1>3, <1>4, <1>5 DEF SameFlight, Leads
<1>9. TypeOK'
  <2>1. ReadTypesNext
    BY <1>0, <1>3, <1>4, <1>5 DEF ReadTypesNext, TypeOK, shared
  <2> QED
    BY <1>0, <1>4, <2>1, FlightTypes, TypesFrom DEF TypeOK
<1>10. Flights'
  BY <1>0, <1>4, <1>6, <1>8, FlightsFrom DEF flights
<1> QED
  BY <1>0, <1>4, <1>6, <1>7, <1>9, <1>10, Quiet DEF Inv

(* A step that only moves the program counter of c.                        *)
LEMMA Walked ==
  ASSUME Inv, NEW c \in Callers, NEW label \in Labels_pc, Goto(c, label), job' = job,
         HasBlock(c), label \notin {"rpc", "publish"}
  PROVE  /\ pc' \in [Callers -> Labels_pc] /\ pc'[c] = label /\ Only(c)
         /\ head' = head => JobSound(c)'
<1>1. TypeOK /\ JobSound(c)
  BY DEF Inv, Jobs
<1>2. /\ pc' \in [Callers -> Labels_pc] /\ pc'[c] = label
      /\ \A d \in Callers \ {c} : pc'[d] = pc[d]
  BY <1>1, Moves
<1> QED
  BY <1>1, <1>2 DEF Only, JobSound, HasBlock, Fetching

LEMMA ShareTypes ==
  ASSUME TypeOK, UNCHANGED shared, pc' \in [Callers -> Labels_pc],
         job' \in [Callers -> Job]
  PROVE  ReadTypesNext
BY DEF TypeOK, ReadTypesNext, shared

LEMMA LookStep ==
  ASSUME Inv, NEW c \in Callers, Look(c)
  PROVE  Inv'
<1>0. TypeOK /\ Jobs /\ Flights /\ JobSound(c) /\ HasBlock(c)
      /\ IsFiniteSet(permits) /\ Cardinality(permits) <= MaxInflight
  BY FlightFacts DEF Look, HasBlock
<1>1. /\ pc[c] = "look" /\ UNCHANGED <<chain, pool, circuit, shared, flights, call>>
      /\ Return(c) \/ (Goto(c, "join") /\ job' = job)
  BY DEF Look
<1>2. head' = head
  BY <1>1 DEF chain
<1>3. /\ pc' \in [Callers -> Labels_pc] /\ pc'[c] \in {"idle", "join"} /\ Only(c)
      /\ job' \in [Callers -> Job] /\ JobSound(c)'
  BY <1>0, <1>1, <1>2, Returned, Walked, LabelsAre DEF TypeOK
<1>4. SameFlight(c)
  BY <1>1, <1>3 DEF SameFlight, Leads
<1>5. TypeOK'
  BY <1>0, <1>1, <1>3, ShareTypes, FlightTypes, TypesFrom DEF TypeOK
<1>6. Flights'
  BY <1>0, <1>1, <1>3, <1>4, FlightsFrom DEF flights
<1> QED
  BY <1>0, <1>1, <1>3, <1>5, <1>6, Quiet DEF Inv

LEMMA FollowStep ==
  ASSUME Inv, NEW c \in Callers, Follow(c)
  PROVE  Inv'
<1>0. TypeOK /\ Jobs /\ Flights /\ JobSound(c) /\ HasBlock(c)
  BY FlightFacts DEF Follow, HasBlock
<1>1. /\ pc[c] = "join" /\ inflight[job[c].key] # NoCaller /\ Goto(c, "wait") /\ job' = job
      /\ UNCHANGED <<chain, pool, circuit, shared, flights, call>>
  BY DEF Follow
<1>2. head' = head /\ UNCHANGED <<inflight, permits, inbox>>
  BY <1>1 DEF chain, flights
<1>3. /\ pc' \in [Callers -> Labels_pc] /\ pc'[c] = "wait" /\ Only(c) /\ JobSound(c)'
  BY <1>0, <1>1, <1>2, Walked, LabelsAre
<1>4. TypeOK'
  <2>1. ReadTypesNext
    BY <1>0, <1>1, <1>3, ShareTypes DEF TypeOK
  <2> QED
    BY <1>0, <1>1, <2>1, FlightTypes, TypesFrom DEF TypeOK
<1>5. Flights'
  <2>1. \A d \in Callers : Leads(d)' <=> Leads(d)
    BY <1>1, <1>3 DEF Leads, Only
  <2>2. \A k \in Keys : inflight[k] # NoCaller => inflight[k] \in Callers
    BY <1>0 DEF TypeOK
  <2>3. (\A d \in Callers : Leads(d) => inflight[job[d].key] = d)'
    BY <1>0, <1>1, <1>2, <2>1 DEF Flights
  <2>4. (\A k \in Keys : inflight[k] # NoCaller =>
           Leads(inflight[k]) /\ job[inflight[k]].key = k)'
    BY <1>0, <1>1, <1>2, <2>1, <2>2 DEF Flights, Leads
  <2>5. (\A f \in Callers : pc[f] = "wait" /\ inbox[f] = "none" =>
           inflight[job[f].key] # NoCaller)'
    BY <1>0, <1>1, <1>2, <1>3 DEF Flights, Only
  <2> QED
    BY <1>0, <1>2, <2>3, <2>4, <2>5 DEF Flights
<1> QED
  BY <1>0, <1>1, <1>3, <1>4, <1>5, Quiet DEF Inv

LEMMA LeadStep ==
  ASSUME Inv, NEW c \in Callers, Lead(c)
  PROVE  Inv'
<1> DEFINE k == job[c].key
<1>0. TypeOK /\ Jobs /\ Flights /\ JobSound(c) /\ HasBlock(c) /\ k \in Keys
  BY FlightFacts DEF Lead, HasBlock
<1>1. /\ pc[c] = "join" /\ inflight[k] = NoCaller /\ Goto(c, "permit") /\ job' = job
      /\ inflight' = [inflight EXCEPT ![k] = c]
      /\ UNCHANGED <<chain, pool, circuit, shared, permits, inbox, call>>
  BY DEF Lead
<1>2. head' = head
  BY <1>1 DEF chain
<1>3. /\ pc' \in [Callers -> Labels_pc] /\ pc'[c] = "permit" /\ Only(c) /\ JobSound(c)'
  BY <1>0, <1>1, <1>2, Walked, LabelsAre
<1>4. inflight' \in [Keys -> Callers \cup {NoCaller}] /\ inflight'[k] = c
      /\ \A l \in Keys \ {k} : inflight'[l] = inflight[l]
  BY <1>0, <1>1 DEF TypeOK
<1>5. TypeOK'
  <2>1. ReadTypesNext
    BY <1>0, <1>1, <1>3, ShareTypes DEF TypeOK
  <2> QED
    BY <1>0, <1>1, <1>4, <2>1, TypesFrom DEF TypeOK
<1>6. Flights'
  <2>1. \A d \in Callers \ {c} : Leads(d)' <=> Leads(d)
    BY <1>1, <1>3 DEF Leads, Only
  <2>2. Leads(c)' /\ ~Leads(c)
    BY <1>1, <1>3 DEF Leads
  <2>3. \A d \in Callers : Leads(d) => job[d].key \in Keys
    <3>1. \A d \in Callers : Leads(d) => HasBlock(d)
      BY DEF Leads, HasBlock
    <3> QED
      BY <3>1, FlightFacts
  <2>4. ASSUME NEW d \in Callers, Leads(d)' PROVE inflight'[job'[d].key] = d
    <3>1. CASE d = c
      BY <3>1, <1>1, <1>4
    <3>2. CASE d # c
      <4>1. Leads(d) /\ inflight[job[d].key] = d /\ job[d].key \in Keys
        BY <1>0, <2>1, <2>3, <2>4, <3>2 DEF Flights
      <4>2. job[d].key # k
        BY <1>1, <4>1
      <4> QED
        BY <1>1, <1>4, <4>1, <4>2
    <3> QED
      BY <3>1, <3>2
  <2>5. ASSUME NEW l \in Keys, inflight'[l] # NoCaller
        PROVE  (Leads(inflight[l]) /\ job[inflight[l]].key = l)'
    <3>1. CASE l = k
      <4>1. inflight'[l] = c
        BY <3>1, <1>4
      <4> QED
        BY <4>1, <2>2, <1>1, <3>1 DEF Leads
    <3>2. CASE l # k
      <4>1. PICK d \in Callers : d = inflight[l] /\ inflight'[l] = d
        BY <1>0, <1>4, <2>5, <3>2 DEF TypeOK
      <4>2. Leads(d) /\ job[d].key = l
        BY <1>0, <1>4, <2>5, <3>2, <4>1 DEF Flights
      <4>3. Leads(d)' /\ job'[d].key = l
        BY <1>1, <2>1, <2>2, <4>2
      <4> QED
        BY <4>1, <4>3 DEF Leads
    <3> QED
      BY <3>1, <3>2
  <2>6. ASSUME NEW f \in Callers, pc'[f] = "wait" /\ inbox'[f] = "none"
        PROVE  inflight'[job'[f].key] # NoCaller
    <3>1. f # c
      BY <1>3, <2>6
    <3>2. pc[f] = "wait" /\ inbox[f] = "none"
      BY <1>1, <1>3, <2>6, <3>1 DEF Only
    <3>3. inflight[job[f].key] # NoCaller /\ job[f].key \in Keys
      BY <1>0, <3>2, FlightFacts DEF Flights, HasBlock
    <3> QED
      BY <1>1, <1>4, <3>3
  <2> QED
    BY <1>0, <1>1, <2>4, <2>5, <2>6 DEF Flights
<1> QED
  BY <1>0, <1>1, <1>3, <1>5, <1>6, Quiet DEF Inv

LEMMA AcquireStep ==
  ASSUME Inv, NEW c \in Callers, Acquire(c)
  PROVE  Inv'
<1> DEFINE j == job[c]
           step == IF j.key[1] \in codeOk THEN "reserves" ELSE "code"
           n == [j EXCEPT !.step = step, !.label = LabelNow]
<1>0. TypeOK /\ Jobs /\ Flights /\ JobSound(c) /\ HasBlock(c) /\ j \in Job
      /\ IsFiniteSet(permits) /\ Cardinality(permits) <= MaxInflight
  BY FlightFacts DEF Acquire, HasBlock
<1>1. /\ pc[c] = "permit" /\ Cardinality(permits) < MaxInflight
      /\ permits' = permits \cup {c} /\ job' = [job EXCEPT ![c] = n] /\ Goto(c, "rpc")
      /\ UNCHANGED <<chain, pool, circuit, shared, inflight, inbox, call>>
  BY <1>0 DEF Acquire, TypeOK
<1>2. step \in {"code", "reserves"} /\ step \in StepNames /\ LabelNow \in Labels
  BY StepNamesAre DEF LabelNow, Labels
<1>3. n \in Job /\ n.key = j.key /\ n.step = step
  <2> HIDE DEF step, j
  <2>1. [j EXCEPT !.step = step, !.label = LabelNow] \in Job
    BY <1>0, <1>2 DEF Job
  <2>2. [j EXCEPT !.step = step, !.label = LabelNow].key = j.key
        /\ [j EXCEPT !.step = step, !.label = LabelNow].step = step
    BY <1>0 DEF Job
  <2> QED
    BY <2>1, <2>2
<1> HIDE DEF n
<1>4. /\ job' \in [Callers -> Job] /\ job'[c] = n
      /\ \A d \in Callers \ {c} : job'[d] = job[d]
  BY <1>0, <1>1, <1>3, JobSet
<1>5. /\ pc' \in [Callers -> Labels_pc] /\ pc'[c] = "rpc"
      /\ \A d \in Callers \ {c} : pc'[d] = pc[d]
  BY <1>0, <1>1, Moves, LabelsAre
<1>6. Only(c) /\ SameFlight(c)
  BY <1>1, <1>2, <1>3, <1>4, <1>5 DEF Only, SameFlight, Leads
<1>7. JobSound(c)'
  <2>1. head' = head /\ j.key[2] \in 1 .. head
    BY <1>0, <1>1 DEF JobSound, chain
  <2> QED
    BY <1>2, <1>3, <1>4, <1>5, <2>1 DEF JobSound, HasBlock, Fetching, Later, Priced
<1>8. IsFiniteSet(permits') /\ Cardinality(permits') <= MaxInflight
  <2>1. Cardinality(permits) \in Nat
    BY <1>0, FS_CardinalityType
  <2>2. /\ IsFiniteSet(permits \cup {c})
        /\ Cardinality(permits \cup {c}) <= Cardinality(permits) + 1
    <3>1. /\ IsFiniteSet(permits \cup {c})
          /\ Cardinality(permits \cup {c}) =
               IF c \in permits THEN Cardinality(permits) ELSE Cardinality(permits) + 1
      BY <1>0, FS_AddElement
    <3> QED
      BY <2>1, <3>1
  <2>3. Cardinality(permits \cup {c}) \in Nat
    BY <2>2, FS_CardinalityType
  <2> QED
    BY <1>1, <2>1, <2>2, <2>3
<1>9. TypeOK'
  <2>1. ReadTypesNext
    BY <1>0, <1>1, <1>4, <1>5, ShareTypes
  <2> QED
    BY <1>0, <1>1, <2>1, TypesFrom DEF TypeOK
<1>10. Flights'
  BY <1>0, <1>1, <1>6, <1>8, FlightsFrom
<1> QED
  BY <1>0, <1>1, <1>6, <1>7, <1>9, <1>10, Quiet DEF Inv


LEMMA DeliverTypes ==
  ASSUME TypeOK, NEW k, NEW r \in {"ok", "error", "closed"}, Deliver(k, r)
  PROVE  /\ inbox' \in [Callers -> {"none", "ok", "error", "closed"}]
         /\ \A f \in Callers : inbox'[f] = "none" =>
              inbox[f] = "none" /\ ~(pc[f] = "wait" /\ job[f].key = k)
BY DEF TypeOK, Deliver, Followers

LEMMA PublishStep ==
  ASSUME Inv, NEW c \in Callers, Publish(c)
  PROVE  Inv'
<1> DEFINE j == job[c]
           s == [at |-> j.at, label |-> j.label, fees |-> j.fees]
<1>0. TypeOK /\ Jobs /\ Flights /\ JobSound(c) /\ HasBlock(c) /\ j \in Job /\ j.key \in Keys
      /\ IsFiniteSet(permits) /\ Cardinality(permits) <= MaxInflight
  BY FlightFacts DEF Publish, HasBlock
<1>1. /\ pc[c] = "publish" /\ Goto(c, "remove") /\ job' = job
      /\ UNCHANGED <<chain, pool, lastHead, staticCfg, codeOk, historical,
                     inflight, permits, call>>
      /\ \/ j.error = "none" /\ cache' = [cache EXCEPT ![j.key] = s]
         \/ cache' = cache
      /\ \E r \in {"ok", "error", "closed"} : Deliver(j.key, r)
      /\ circuit' = circuit \/ circuit' = CircuitFor(j.error)
  BY DEF Publish
<1>2. head' = head /\ UNCHANGED <<mood, outages, archive>>
  BY <1>1 DEF chain
<1>3. /\ pc' \in [Callers -> Labels_pc] /\ pc'[c] = "remove" /\ Only(c) /\ JobSound(c)'
  BY <1>0, <1>1, <1>2, Walked, LabelsAre
<1>4. /\ inbox' \in [Callers -> {"none", "ok", "error", "closed"}]
      /\ \A f \in Callers : inbox'[f] = "none" => inbox[f] = "none"
  BY <1>0, <1>1, DeliverTypes
<1>5. circuit' \in Nat
  BY <1>0, <1>1, CircuitTypes DEF TypeOK
<1>6. j.error = "none" =>
        /\ j.at \in Blocks /\ OfBlock(j.at, j.label, j.key[2]) /\ j.fees # "none"
  BY <1>0, <1>1 DEF JobSound, Fetching, Later, Priced
<1>7. j.error = "none" => s \in State /\ s.at = j.at /\ s.label = j.label
  BY <1>0, <1>6, JobFields DEF State
<1> HIDE DEF s
<1>8. cache' \in [Keys -> State \cup {NoState}]
  BY <1>0, <1>1, <1>7 DEF TypeOK
<1>9. ExactIsOfBlock'
  <2>1. CASE cache' = cache
    BY <2>1, CacheStays DEF Inv
  <2>2. CASE j.error = "none" /\ cache' = [cache EXCEPT ![j.key] = s]
    <3>1. cache'[j.key] = s /\ \A k \in Keys \ {j.key} : cache'[k] = cache[k]
      BY <1>0, <2>2 DEF TypeOK
    <3>2. IF s.label = "EXACT" THEN s.at = j.key[2] ELSE s.at >= j.key[2]
      BY <1>6, <1>7, <2>2 DEF OfBlock
    <3> QED
      BY <3>1, <3>2 DEF Inv, ExactIsOfBlock
  <2> QED
    BY <1>1, <2>1, <2>2
<1>10. TypeOK'
  <2>1. ReadTypesNext
    BY <1>0, <1>1, <1>3, <1>8 DEF ReadTypesNext, TypeOK
  <2> QED
    BY <1>0, <1>1, <1>4, <1>5, <2>1, TypesFrom DEF TypeOK
<1>11. Jobs'
  BY <1>0, <1>1, <1>2, <1>3, JobsFrom DEF Jobs
<1>12. Flights'
  <2>1. SameFlight(c)
    BY <1>1, <1>3 DEF SameFlight, Leads
  <2> QED
    BY <1>0, <1>1, <1>3, <1>4, <2>1, FlightsFrom
<1>13. Causes'
  BY <1>1, <1>2, CausesFrom DEF Inv
<1> QED
  BY <1>9, <1>10, <1>11, <1>12, <1>13 DEF Inv

LEMMA RemoveStep ==
  ASSUME Inv, NEW c \in Callers, Remove(c)
  PROVE  Inv'
<1> DEFINE k == job[c].key
<1>0. TypeOK /\ Jobs /\ Flights /\ JobSound(c) /\ HasBlock(c) /\ k \in Keys
      /\ IsFiniteSet(permits) /\ Cardinality(permits) <= MaxInflight
  BY FlightFacts DEF Remove, HasBlock
<1>1. /\ pc[c] = "remove" /\ inflight' = [inflight EXCEPT ![k] = NoCaller]
      /\ Deliver(k, "closed") /\ permits' = permits \ {c} /\ Return(c)
      /\ UNCHANGED <<chain, pool, circuit, shared, call>>
  BY DEF Remove
<1>2. /\ pc' \in [Callers -> Labels_pc] /\ pc'[c] = "idle" /\ Only(c)
      /\ job' \in [Callers -> Job] /\ JobSound(c)' /\ ~Leads(c)'
  BY <1>0, <1>1, Returned
<1>3. inflight' \in [Keys -> Callers \cup {NoCaller}] /\ inflight'[k] = NoCaller
      /\ \A l \in Keys \ {k} : inflight'[l] = inflight[l]
  BY <1>0, <1>1 DEF TypeOK
<1>4. /\ inbox' \in [Callers -> {"none", "ok", "error", "closed"}]
      /\ \A f \in Callers : inbox'[f] = "none" =>
           inbox[f] = "none" /\ ~(pc[f] = "wait" /\ job[f].key = k)
  BY <1>0, <1>1, DeliverTypes
<1>5. TypeOK'
  <2>1. ReadTypesNext
    BY <1>0, <1>1, <1>2, ShareTypes
  <2> QED
    BY <1>0, <1>1, <1>3, <1>4, <2>1, TypesFrom DEF TypeOK
<1>6. Flights'
  <2>1. IsFiniteSet(permits') /\ Cardinality(permits') <= MaxInflight
    <3>1. /\ IsFiniteSet(permits \ {c})
          /\ Cardinality(permits \ {c}) =
               IF c \in permits THEN Cardinality(permits) - 1 ELSE Cardinality(permits)
      BY <1>0, FS_RemoveElement
    <3>2. Cardinality(permits) \in Nat
      BY <1>0, FS_CardinalityType
    <3> QED
      BY <1>0, <1>1, <3>1, <3>2
  <2>2. \A d \in Callers \ {c} : (Leads(d)' <=> Leads(d)) /\ job'[d] = job[d]
    BY <1>2 DEF Leads, Only
  <2>3. Leads(c) /\ inflight[k] = c
    BY <1>0, <1>1 DEF Leads, Flights
  <2>4. ASSUME NEW d \in Callers, Leads(d)' PROVE inflight'[job'[d].key] = d
    <3>1. d # c
      BY <1>2, <2>4
    <3>2. Leads(d) /\ inflight[job[d].key] = d
      BY <1>0, <2>2, <2>4, <3>1 DEF Flights
    <3>3. job[d].key # k /\ job[d].key \in Keys
      <4>1. HasBlock(d)
        BY <3>2 DEF Leads, HasBlock
      <4> QED
        BY <2>3, <3>1, <3>2, <4>1, FlightFacts
    <3> QED
      BY <1>3, <2>2, <3>1, <3>2, <3>3
  <2>5. ASSUME NEW l \in Keys, inflight'[l] # NoCaller
        PROVE  (Leads(inflight[l]) /\ job[inflight[l]].key = l)'
    <3>1. l # k /\ inflight'[l] = inflight[l]
      BY <1>3, <2>5
    <3>2. PICK d \in Callers : d = inflight[l] /\ inflight'[l] = d
      BY <1>0, <2>5, <3>1 DEF TypeOK
    <3>3. Leads(d) /\ job[d].key = l
      BY <1>0, <2>5, <3>1, <3>2 DEF Flights
    <3>4. Leads(d)' /\ job'[d].key = l
      BY <2>2, <3>1, <3>3
    <3> QED
      BY <3>2, <3>4 DEF Leads
  <2>6. ASSUME NEW f \in Callers, pc'[f] = "wait" /\ inbox'[f] = "none"
        PROVE  inflight'[job'[f].key] # NoCaller
    <3>1. f # c
      BY <1>2, <2>6
    <3>2. pc[f] = "wait" /\ inbox[f] = "none" /\ job[f].key # k /\ job'[f] = job[f]
      BY <1>2, <1>4, <2>6, <3>1 DEF Only
    <3>3. inflight[job[f].key] # NoCaller /\ job[f].key \in Keys
      BY <1>0, <3>2, FlightFacts DEF Flights, HasBlock
    <3> QED
      BY <1>3, <3>2, <3>3
  <2> QED
    BY <2>1, <2>4, <2>5, <2>6 DEF Flights
<1> QED
  BY <1>0, <1>1, <1>2, <1>5, <1>6, Quiet DEF Inv

LEMMA ReceiveStep ==
  ASSUME Inv, NEW c \in Callers, Receive(c)
  PROVE  Inv'
<1>0. TypeOK /\ Jobs /\ Flights /\ JobSound(c)
      /\ IsFiniteSet(permits) /\ Cardinality(permits) <= MaxInflight
  BY FlightFacts
<1>1. /\ pc[c] = "wait" /\ Return(c) /\ inbox' = [inbox EXCEPT ![c] = "none"]
      /\ UNCHANGED <<chain, pool, circuit, shared, inflight, permits, call>>
  BY DEF Receive
<1>2. /\ pc' \in [Callers -> Labels_pc] /\ pc'[c] = "idle" /\ Only(c)
      /\ job' \in [Callers -> Job] /\ JobSound(c)' /\ ~Leads(c)'
  BY <1>0, <1>1, Returned
<1>3. /\ inbox' \in [Callers -> {"none", "ok", "error", "closed"}]
      /\ \A f \in Callers : inbox'[f] = "none" => inbox[f] = "none" \/ f = c
  BY <1>0, <1>1 DEF TypeOK
<1>4. TypeOK'
  <2>1. ReadTypesNext
    BY <1>0, <1>1, <1>2, ShareTypes
  <2> QED
    BY <1>0, <1>1, <1>3, <2>1, TypesFrom DEF TypeOK
<1>5. Flights'
  <2>1. SameFlight(c)
    BY <1>1, <1>2 DEF SameFlight, Leads
  <2> QED
    BY <1>0, <1>1, <1>2, <1>3, <2>1, FlightsFrom
<1> QED
  BY <1>0, <1>1, <1>2, <1>4, <1>5, Quiet DEF Inv

-----------------------------------------------------------------------------
(* The world. *)

LEMMA WorldStep ==
  ASSUME Inv, NewBlock \/ Outage \/ Recovery
  PROVE  Inv'
<1>0. TypeOK
  BY DEF Inv
<1>1. UNCHANGED <<archive, pool, circuit, lastHead, cache, staticCfg, codeOk, historical,
                  inflight, permits, inbox, pc, job, call>>
  BY DEF NewBlock, Outage, Recovery, shared, flights
<1>2. head' \in Blocks /\ head' >= head
  BY <1>0 DEF NewBlock, Outage, Recovery, TypeOK, Blocks
<1>3. /\ mood' \in [1 .. Endpoints -> Moods \cup {"good"}] /\ outages' \in 0 .. MaxOutages
      /\ outages' >= outages
      /\ (\E i \in 1 .. Endpoints : mood'[i] # "good") => outages' > 0
  <2>1. CASE NewBlock
    BY <1>0, <2>1 DEF NewBlock, TypeOK, Inv, Causes
  <2>2. CASE Outage
    BY <1>0, <2>2 DEF Outage, TypeOK
  <2>3. CASE Recovery
    BY <1>0, <2>3 DEF Recovery, TypeOK
  <2> QED
    BY <2>1, <2>2, <2>3
<1>4. TypeOK'
  BY <1>0, <1>1, <1>2, <1>3 DEF TypeOK
<1>5. Jobs'
  <2>1. head \in Nat /\ head' \in Nat
    BY <1>0, <1>2 DEF TypeOK, Blocks
  <2> QED
    BY <1>1, <1>2, <2>1 DEF Inv, Jobs, JobSound, HasBlock, Fetching, OfBlock
<1>6. Flights' /\ ExactIsOfBlock'
  BY <1>1 DEF Inv, Flights, Leads, ExactIsOfBlock
<1>7. Causes'
  <2>1. outages \in Nat /\ outages' \in Nat
    BY <1>0, <1>3 DEF TypeOK
  <2>2. outages > 0 => outages' > 0
    BY <1>3, <2>1
  <2>3. pool'.left > 0 => outages' > 0
    BY <1>1, <2>2 DEF Inv, Causes
  <2>4. historical' = "NO" => ~archive' \/ outages' > 0
    BY <1>1, <2>2 DEF Inv, Causes
  <2> QED
    BY <1>3, <2>3, <2>4 DEF Causes
<1> QED
  BY <1>4, <1>5, <1>6, <1>7 DEF Inv

LEMMA TickStep ==
  ASSUME Inv, Tick
  PROVE  Inv'
<1>0. TypeOK /\ pool \in Pool /\ circuit \in Nat /\ head \in Blocks
  BY DEF Inv, TypeOK
<1>1. /\ pool' = Elapsed(pool) /\ lastHead' = 0
      /\ circuit' = IF circuit = 0 THEN 0 ELSE circuit - 1
      /\ UNCHANGED <<chain, cache, staticCfg, codeOk, historical, flights, pc, job, call>>
  BY DEF Tick
<1>2. circuit' \in Nat /\ pool' \in Pool /\ (pool'.left > 0 => pool.left > 0)
  BY <1>0, <1>1, PoolStays
<1>3. /\ UNCHANGED <<head, mood, outages, archive, inflight, permits, inbox>>
      /\ 0 \in 0 .. head
  BY <1>0, <1>1 DEF chain, flights, Blocks
<1>4. TypeOK'
  BY <1>0, <1>1, <1>2, <1>3 DEF TypeOK
<1>5. Jobs'
  BY <1>1, <1>3 DEF Inv, Jobs, JobSound, HasBlock, Fetching, OfBlock
<1>6. Flights' /\ ExactIsOfBlock'
  BY <1>1, <1>3 DEF Inv, Flights, Leads, ExactIsOfBlock
<1>7. Causes'
  BY <1>1, <1>2, <1>3 DEF Inv, Causes
<1> QED
  BY <1>4, <1>5, <1>6, <1>7 DEF Inv

-----------------------------------------------------------------------------
(* The theorems. *)

LEMMA InitInv == Init => Inv
<1> SUFFICES ASSUME Init PROVE Inv
  OBVIOUS
<1>1. 1 \in Blocks
  BY DEF Blocks
<1>2. TypeOK
  <2>1. job \in [Callers -> Job]
    <3>1. {NewJob(x, 0) : x \in Curves} \subseteq Job
      BY NewJobs
    <3> QED
      BY <3>1 DEF Init
  <2>2. NoCall \in [ep : 1 .. Endpoints, left : 0 .. Endpoints]
    BY DEF NoCall
  <2> QED
    BY <1>1, <2>1, <2>2, PoolShape, LabelsAre DEF Init, TypeOK, Fees
<1>3. \A c \in Callers : pc[c] = "idle"
  BY DEF Init
<1>4. Jobs
  BY <1>3 DEF Init, Jobs, JobSound, HasBlock, Fetching
<1>5. Flights
  <2>1. IsFiniteSet(permits) /\ Cardinality(permits) <= MaxInflight
    BY FS_EmptySet DEF Init
  <2> QED
    BY <1>3, <2>1 DEF Init, Flights, Leads
<1>6. ExactIsOfBlock
  BY DEF Init, ExactIsOfBlock
<1>7. Causes
  BY PoolShape DEF Init, Causes
<1> QED
  BY <1>2, <1>4, <1>5, <1>6, <1>7 DEF Inv

LEMMA StepInv == Inv /\ [Next]_vars => Inv'
<1> SUFFICES ASSUME Inv, [Next]_vars PROVE Inv'
  OBVIOUS
<1>1. ASSUME NEW c \in Callers, Step(c) PROVE Inv'
  BY <1>1, StartStep, LookStep, FollowStep, LeadStep, AcquireStep, DialStep, ReplyStep,
     PublishStep, RemoveStep, ReceiveStep DEF Step
<1>2. CASE UNCHANGED vars
  <2>1. UNCHANGED <<head, mood, outages, archive, pool, circuit, lastHead, cache, staticCfg,
                    codeOk, historical, inflight, permits, inbox, pc, job, call>>
    BY <1>2 DEF vars, chain, shared, flights
  <2>2. TypeOK'
    BY <2>1 DEF Inv, TypeOK
  <2>3. Jobs' /\ Flights'
    BY <2>1 DEF Inv, Jobs, JobSound, HasBlock, Fetching, OfBlock, Flights, Leads
  <2>4. ExactIsOfBlock' /\ Causes'
    BY <2>1 DEF Inv, ExactIsOfBlock, Causes
  <2> QED
    BY <2>2, <2>3, <2>4 DEF Inv
<1> QED
  BY <1>1, <1>2, TickStep, WorldStep DEF Next

LEMMA InvHolds == Spec => []Inv
BY InitInv, StepInv, PTL DEF Spec

LEMMA FlightsAreSingle == Inv => SingleFlight
<1> SUFFICES ASSUME Inv PROVE SingleFlight
  OBVIOUS
<1>1. Flights
  BY DEF Inv
<1>2. ASSUME NEW f \in Callers, pc[f] = "wait" /\ inbox[f] = "none"
      PROVE  inflight[job[f].key] # NoCaller /\ Leads(inflight[job[f].key])
  <2>1. job[f].key \in Keys
    BY <1>2, FlightFacts DEF HasBlock
  <2> QED
    BY <1>1, <1>2, <2>1 DEF Flights
<1> QED
  BY <1>1, <1>2 DEF Flights, SingleFlight

(* Every variable of the reader and its pool keeps its type: no fetch      *)
(* leaves the table of steps in read_live, and what it caches has fees and *)
(* a block, whichever getters fail and whichever retries run out.          *)
THEOREM TypeCorrect == Spec => []TypeOK
<1>1. Inv => TypeOK
  BY DEF Inv
<1> QED
  BY <1>1, InvHolds, PTL

(* At most one fetch of a key is under way and no more than the semaphore  *)
(* allows, and no follower waits on a leader that is gone: the inflight    *)
(* map of read_curve_state names the leader until it removes the key.      *)
THEOREM OneFlightPerKey == Spec => []SingleFlight
BY FlightsAreSingle, InvHolds, PTL

(* What is cached as EXACT_BLOCK_READ was read at its block, and a         *)
(* LIVE_LATEST_READ is never older, although another caller's probe may    *)
(* change the capability between any two getters of the fetch.             *)
THEOREM ExactReadsAreExact == Spec => []ExactIsOfBlock
<1>1. Inv => ExactIsOfBlock
  BY DEF Inv
<1> QED
  BY <1>1, InvHolds, PTL

(* The reader gives up exact reads only when the endpoints lack the state  *)
(* of old blocks or some endpoint has failed: an open circuit, too, goes   *)
(* back to a failure.                                                      *)
THEOREM NoLatestWithoutCause == Spec => []LatestHasCause
<1>1. Inv => LatestHasCause
  BY DEF Inv, Causes, LatestHasCause
<1> QED
  BY <1>1, InvHolds, PTL

=============================================================================
