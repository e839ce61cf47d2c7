----------------------------- MODULE CurveReader -----------------------------
(***************************************************************************)
(* The reader of bonding-curve state (apps/engine/src/ingest/evm/          *)
(* pons_curve.rs) over the RpcPool: callers that read the same curve at    *)
(* the same head share one fetch, and a fetch is a fixed sequence of RPC   *)
(* getters, most of them optional.                                         *)
(*                                                                         *)
(* The chain moves on and the endpoints' mood changes while a call is      *)
(* under way.  An answer and the code up to the next await are one step.   *)
(* Abstracted: reserves are the block they were read at; of the optional   *)
(* getters only whether the two fees were read is remembered; sleeps       *)
(* between retries are a choice of when.  All callers under src/ pass no   *)
(* block, so the block of a read is always the head.                       *)
(***************************************************************************)
EXTENDS RpcPool, FiniteSets

CONSTANTS
  Callers,      \* tasks that read
  NoCaller,     \* "nobody"
  Curves,       \* curve addresses
  CurveAt,      \* what each curve is at each block: none, zero or funded
  MaxHead,      \* bound: last block of the chain
  Retained,     \* blocks behind the head whose state any endpoint has
  MaxInflight,  \* fetches at the same time (2 in the code)
  MaxRetries,   \* attempts of an eth_call (3 in the code)
  ProbeOffset,  \* how far back the probes look (10 and 100 in the code)
  Moods,        \* ways an endpoint may fail
  MaxOutages    \* bound: outages of some endpoints

Blocks == 1 .. MaxHead
Keys   == Curves \X Blocks
Probes == {"probeNear", "probeFar"}

ASSUME ReaderBounds == /\ MaxHead \in Nat \ {0} /\ Retained \in Nat
                       /\ MaxInflight \in Nat \ {0} /\ MaxRetries \in Nat \ {0}
                       /\ MaxOutages \in Nat
ASSUME CurveAtAssumption ==
  CurveAt \in [Curves -> [Blocks -> {"none", "zero", "funded"}]]
ASSUME ProbeOffsetAssumption == ProbeOffset \in [Probes -> Nat \ {0}]
ASSUME MoodsAssumption == Moods \subseteq Faults
ASSUME NoCallerAssumption == NoCaller \notin Callers

VARIABLES
  \* The chain and its endpoints.
  head, mood, outages,
  archive,     \* the endpoints have the state of old blocks
  \* The pool and the reader's shared state.
  pool,
  circuit,     \* ticks until circuit_until
  lastHead,    \* last_head, 0 once it is older than a second
  cache,       \* the states read, per key
  staticCfg,   \* static_cfg: the fees of a curve, read or taken for zero
  codeOk,      \* code_ok
  inflight,    \* the leader of each key that is being fetched
  permits,     \* callers that hold a permit of the semaphore
  historical,  \* what the probe found, once
  \* The callers.
  pc, job,
  call,        \* the request under way: endpoint asked and endpoints left
  inbox        \* what the broadcast delivered to a follower

chain   == <<head, mood, outages, archive>>
shared  == <<lastHead, cache, staticCfg, codeOk, historical>>
flights == <<inflight, permits, inbox>>
vars    == <<chain, pool, circuit, shared, flights, pc, job, call>>

(* amounts are realQuoteReserve and sellableTokens, config the threshold,  *)
(* feeBps and creatorTaxBps, status graduated and readyToGraduate: getters *)
(* read one after the other and treated alike.                             *)
Steps == <<"code", "reserves", "amounts", "config", "status", "hash",
           "probeNear", "probeFar">>
StepNames == {Steps[i] : i \in 1 .. 8} \cup {"head", "done"}

(* eth_call_raw retries; the head, the code and the hash are asked once.   *)
Retried == StepNames \ {"head", "code", "hash", "done"}

Labels == {"EXACT", "LATEST"}
Fees   == {"none", "read", "zero"}
State  == [at : Blocks, label : Labels, fees : Fees \ {"none"}]
NoState == [at |-> 0, label |-> "none", fees |-> "none"]
Errors == Faults \cup {"open", "empty", "invalid"}
Job    == [key : Curves \X (Blocks \cup {0}), step : StepNames, attempt : Nat,
           at : Blocks \cup {0}, label : Labels, fees : Fees,
           error : Errors \cup {"none"}]
Labels_pc == {"idle", "rpc", "look", "join", "wait", "permit", "publish",
              "remove"}

TypeOK ==
  /\ head \in Blocks /\ mood \in [1 .. Endpoints -> Moods \cup {"good"}]
  /\ outages \in 0 .. MaxOutages /\ archive \in BOOLEAN
  /\ pool \in Pool /\ circuit \in Nat /\ lastHead \in Blocks \cup {0}
  /\ cache \in [Keys -> State \cup {NoState}]
  /\ staticCfg \in [Curves -> Fees] /\ codeOk \subseteq Curves
  /\ inflight \in [Keys -> Callers \cup {NoCaller}]
  /\ permits \subseteq Callers
  /\ historical \in {"none", "YES", "NO"}
  /\ pc \in [Callers -> Labels_pc] /\ job \in [Callers -> Job]
  /\ call \in [Callers -> [ep : 1 .. Endpoints, left : 0 .. Endpoints]]
  /\ inbox \in [Callers -> {"none", "ok", "error", "closed"}]

NewJob(curve, block) ==
  [key |-> <<curve, block>>, step |-> "head", attempt |-> 0, at |-> 0,
   label |-> "EXACT", fees |-> "none", error |-> "none"]
NoCall == [ep |-> 1, left |-> 0]

Init ==
  /\ head = 1 /\ mood = [i \in 1 .. Endpoints |-> "good"] /\ outages = 0
  /\ archive \in BOOLEAN
  /\ pool = NewPool /\ circuit = 0 /\ lastHead = 0
  /\ cache = [k \in Keys |-> NoState]
  /\ staticCfg = [x \in Curves |-> "none"] /\ codeOk = {}
  /\ inflight = [k \in Keys |-> NoCaller] /\ permits = {}
  /\ historical = "none"
  /\ pc = [c \in Callers |-> "idle"]
  /\ job \in [Callers -> {NewJob(x, 0) : x \in Curves}]
  /\ call = [c \in Callers |-> NoCall]
  /\ inbox = [c \in Callers |-> "none"]

-----------------------------------------------------------------------------
(* One RPC of a caller. *)

Goto(c, label) == pc' = [pc EXCEPT ![c] = label]
Return(c)      == /\ Goto(c, "idle")
                  /\ job' = [job EXCEPT ![c] = NewJob(@.key[1], 0)]

CircuitFor(r) ==
  CASE r = "quota"    -> BaseDelay["Quota"]
    [] r = "throttle" -> BaseDelay["Throughput"]
    [] r = "open"     -> BaseDelay["Unavailable"]
    [] OTHER          -> circuit

(* The block a getter asks for; "latest" is whatever the head is by then.  *)
Asked_AsKnownNow(j) ==                                            \* mutant
  CASE j.step \in Probes -> j.key[2] - ProbeOffset[j.step]
    [] j.step \notin Probes \cup {"code"} /\ historical = "NO" -> head
    [] OTHER -> j.key[2]

Asked(j) ==
  CASE j.step \in Probes -> j.key[2] - ProbeOffset[j.step]
    [] j.step \notin Probes \cup {"code"} /\ j.label = "LATEST" -> head
    [] OTHER -> j.key[2]

Answer(ep, j) ==
  IF mood[ep] # "good" THEN mood[ep]
  ELSE IF j.step \notin {"head", "hash"} /\ ~archive /\ Asked(j) + Retained < head
  THEN "refused" ELSE "ok"

(* What read_live makes of an answer.                                      *)
Read_ProbesToo(j, r) ==                                           \* mutant
  IF r # "ok" THEN r
  ELSE CASE j.step = "code" /\ CurveAt[j.key[1]][Asked(j)] = "none" -> "empty"
         [] j.step \in Probes \cup {"reserves"}
            /\ CurveAt[j.key[1]][Asked(j)] # "funded" -> "invalid"
         [] OTHER -> "ok"
Read(j, r) ==
  IF r # "ok" THEN r
  ELSE CASE j.step = "code" /\ CurveAt[j.key[1]][Asked(j)] = "none" -> "empty"
         [] j.step = "reserves" /\ CurveAt[j.key[1]][Asked(j)] # "funded" ->
              "invalid"
         [] OTHER -> "ok"

LabelNow == IF historical = "NO" THEN "LATEST" ELSE "EXACT"

(* The probe that comes next; offsets older than the chain are skipped.    *)
NextProbe(j) ==
  LET Fits(p) == j.step # p /\ j.key[2] > ProbeOffset[p]
  IN IF j.step = "hash" /\ Fits("probeNear") THEN "probeNear"
     ELSE IF j.step # "probeFar" /\ Fits("probeFar") THEN "probeFar"
     ELSE "done"

(* The job after its step, done or given up; ok tells which.               *)
StepAfter(j, ok) ==
  CASE j.step = "amounts" /\ staticCfg[j.key[1]] # "none" -> "status"
    [] j.step = "hash" -> IF historical = "none" THEN NextProbe(j) ELSE "done"
    [] j.step \in Probes -> IF ok THEN NextProbe(j) ELSE "done"
    [] OTHER -> Steps[1 + CHOOSE i \in 1 .. 7 : Steps[i] = j.step]

FeesAfter(j, ok) ==
  CASE j.step = "amounts" -> staticCfg[j.key[1]]
    [] j.step = "config" -> IF ok THEN "read" ELSE "zero"
    [] OTHER -> j.fees

Proceeded(j, ok) ==
  [j EXCEPT !.step = StepAfter(j, ok), !.attempt = 0,
            !.fees = FeesAfter(j, ok),
            !.label = IF j.step = "code" THEN LabelNow ELSE @,
            !.at = IF j.step = "reserves" THEN Asked(j) ELSE @]

(* Steps that decide the shared state on the way: the code that was seen,  *)
(* the fees, kept for ever even if a getter failed, and the capability.    *)
Proceed(c, ok) ==
  LET j == job[c]
      n == Proceeded(j, ok)
  IN /\ job' = [job EXCEPT ![c] = n]
     /\ Goto(c, IF n.step = "done" THEN "publish" ELSE "rpc")
     /\ codeOk' = IF j.step = "code" /\ ok THEN codeOk \cup {j.key[1]} ELSE codeOk
     /\ staticCfg' = IF j.step = "config"
                     THEN [staticCfg EXCEPT ![j.key[1]] = n.fees] ELSE staticCfg
     /\ historical' =
          IF j.step \in Probes /\ ~ok THEN "NO"
          ELSE IF n.step = "done" /\ (j.step \in Probes \/ historical = "none")
          THEN "YES" ELSE historical
     /\ UNCHANGED lastHead

Retry(c) ==
  /\ job' = [job EXCEPT ![c].attempt = @ + 1]
  /\ UNCHANGED <<shared, pc>>

Abandon(c, r) ==
  /\ job' = [job EXCEPT ![c].error = r]
  /\ Goto(c, "publish")
  /\ UNCHANGED shared

MayRetry(j, r) == /\ j.step \in Retried /\ r \in {"timeout", "throttle"}
                  /\ j.attempt + 1 < MaxRetries

Fatal(j, r) == \/ j.step = "reserves"
               \/ j.step = "code" /\ r \in {"timeout", "throttle", "quota", "empty"}

HeadRead(c, r) ==
  IF r = "ok"
  THEN /\ lastHead' = head
       /\ job' = [job EXCEPT ![c].key[2] = head]
       /\ Goto(c, "look")
       /\ UNCHANGED <<cache, staticCfg, codeOk, historical>>
  ELSE Return(c) /\ UNCHANGED shared

(* The end of an RPC: the answer, or the pool's refusal.                   *)
Conclude(c, answer) ==
  LET j == job[c]
      r == Read(j, answer)
  IN /\ circuit' = IF j.step \in Retried THEN CircuitFor(r) ELSE circuit
     /\ \/ j.step = "head" /\ HeadRead(c, r)
        \/ j.step # "head" /\ r = "ok" /\ Proceed(c, TRUE) /\ UNCHANGED cache
        \/ j.step # "head" /\ MayRetry(j, r) /\ Retry(c)
        \/ /\ j.step # "head" /\ r # "ok" /\ ~MayRetry(j, r)
           /\ IF Fatal(j, r) THEN Abandon(c, r)
                             ELSE Proceed(c, FALSE) /\ UNCHANGED cache
     /\ UNCHANGED <<chain, flights>>

(* RpcPool::call: refused while the circuit is open, else the endpoints in *)
(* turn, starting with the one that answered last.                         *)
Dial(c) ==
  /\ pc[c] = "rpc" /\ call[c].left = 0
  /\ UNCHANGED pool
  /\ IF circuit_open(pool)
     THEN Conclude(c, "open") /\ UNCHANGED call
     ELSE /\ call' = [call EXCEPT ![c] = [ep |-> pool.active, left |-> Endpoints]]
          /\ UNCHANGED <<chain, circuit, shared, flights, pc, job>>

Reply(c) ==
  LET q == call[c]
      r == Answer(q.ep, job[c])
  IN /\ pc[c] = "rpc" /\ q.left > 0
     /\ pool' = IF r = "ok" THEN note_success(pool, q.ep)
                ELSE classify_and_trip(pool, r)
     /\ IF r = "ok" \/ q.left = 1
        THEN Conclude(c, r) /\ call' = [call EXCEPT ![c] = NoCall]
        ELSE /\ call' = [call EXCEPT ![c] = [ep |-> (q.ep % Endpoints) + 1,
                                             left |-> q.left - 1]]
             /\ UNCHANGED <<chain, circuit, shared, flights, pc, job>>

-----------------------------------------------------------------------------
(* A read. *)

(* An open circuit refuses at once, before the cache is looked at: then    *)
(* the read changes nothing.                                               *)
Start(c) ==
  /\ pc[c] = "idle" /\ circuit = 0
  /\ \E x \in Curves :
       job' = [job EXCEPT ![c] = NewJob(x, lastHead)]
  /\ Goto(c, IF lastHead = 0 THEN "rpc" ELSE "look")
  /\ UNCHANGED <<chain, pool, circuit, shared, flights, call>>

Look(c) ==
  /\ pc[c] = "look"
  /\ IF cache[job[c].key] # NoState
     THEN Return(c)
     ELSE Goto(c, "join") /\ UNCHANGED job
  /\ UNCHANGED <<chain, pool, circuit, shared, flights, call>>

(* Under the inflight lock: follow the key's leader, or become it.         *)
Follow(c) ==
  /\ pc[c] = "join" /\ inflight[job[c].key] # NoCaller
  /\ Goto(c, "wait")
  /\ UNCHANGED <<chain, pool, circuit, shared, flights, job, call>>

Lead(c) ==
  /\ pc[c] = "join" /\ inflight[job[c].key] = NoCaller
  /\ inflight' = [inflight EXCEPT ![job[c].key] = c]
  /\ Goto(c, "permit")
  /\ UNCHANGED <<chain, pool, circuit, shared, permits, inbox, job, call>>

Acquire(c) ==
  /\ pc[c] = "permit" /\ Cardinality(permits) < MaxInflight
  /\ permits' = permits \cup {c}
  /\ job' = [job EXCEPT ![c].step =
                IF job[c].key[1] \in codeOk THEN "reserves" ELSE "code",
              ![c].label = LabelNow]
  /\ Goto(c, "rpc")
  /\ UNCHANGED <<chain, pool, circuit, shared, inflight, inbox, call>>

Followers(k) ==
  {f \in Callers : pc[f] = "wait" /\ job[f].key = k /\ inbox[f] = "none"}
Deliver(k, r) ==
  inbox' = [f \in Callers |-> IF f \in Followers(k) THEN r ELSE inbox[f]]

(* The leader caches what it read and tells those who follow by now.       *)
Publish(c) ==
  LET j == job[c]
  IN /\ pc[c] = "publish"
     /\ IF j.error = "none"
        THEN /\ cache' = [cache EXCEPT ![j.key] =
                            [at |-> j.at, label |-> j.label, fees |-> j.fees]]
             /\ Deliver(j.key, "ok") /\ UNCHANGED circuit
        ELSE /\ circuit' = CircuitFor(j.error)
             /\ Deliver(j.key, "error") /\ UNCHANGED cache
     /\ Goto(c, "remove")
     /\ UNCHANGED <<chain, pool, lastHead, staticCfg, codeOk, historical,
                    inflight, permits, job, call>>

(* Removing the key drops the sender: who followed after the result was    *)
(* sent finds the channel closed.                                          *)
Remove_OnlyOk(c) ==                                               \* mutant
  /\ pc[c] = "remove"
  /\ IF job[c].error = "none"
     THEN /\ inflight' = [inflight EXCEPT ![job[c].key] = NoCaller]
          /\ Deliver(job[c].key, "closed")
     ELSE UNCHANGED <<inflight, inbox>>
  /\ permits' = permits \ {c}
  /\ Return(c)
  /\ UNCHANGED <<chain, pool, circuit, shared, call>>

Remove(c) ==
  /\ pc[c] = "remove"
  /\ inflight' = [inflight EXCEPT ![job[c].key] = NoCaller]
  /\ Deliver(job[c].key, "closed")
  /\ permits' = permits \ {c}
  /\ Return(c)
  /\ UNCHANGED <<chain, pool, circuit, shared, call>>

Receive(c) ==
  /\ pc[c] = "wait" /\ inbox[c] # "none"
  /\ Return(c)
  /\ inbox' = [inbox EXCEPT ![c] = "none"]
  /\ UNCHANGED <<chain, pool, circuit, shared, inflight, permits, call>>

-----------------------------------------------------------------------------
(* The world. *)

Tick ==
  /\ pool' = Elapsed(pool)
  /\ circuit' = IF circuit = 0 THEN 0 ELSE circuit - 1
  /\ lastHead' = 0
  /\ UNCHANGED <<chain, cache, staticCfg, codeOk, historical, flights, pc, job, call>>

NewBlock ==
  /\ head < MaxHead /\ head' = head + 1
  /\ UNCHANGED <<mood, outages, archive, pool, circuit, shared, flights, pc,
                 job, call>>

AllGood == \A i \in 1 .. Endpoints : mood[i] = "good"

Outage ==
  /\ AllGood /\ outages < MaxOutages /\ outages' = outages + 1
  /\ \E S \in SUBSET (1 .. Endpoints) \ {{}}, m \in Moods :
       mood' = [i \in 1 .. Endpoints |-> IF i \in S THEN m ELSE "good"]
  /\ UNCHANGED <<head, archive, pool, circuit, shared, flights, pc, job, call>>

Recovery ==
  /\ ~AllGood /\ mood' = [i \in 1 .. Endpoints |-> "good"]
  /\ UNCHANGED <<head, outages, archive, pool, circuit, shared, flights, pc, job,
                 call>>

Step(c) == \/ Start(c) \/ Look(c) \/ Follow(c) \/ Lead(c)
           \/ Acquire(c) \/ Dial(c) \/ Reply(c) \/ Publish(c) \/ Remove(c)
           \/ Receive(c)

Next == (\E c \in Callers : Step(c)) \/ Tick \/ NewBlock \/ Outage \/ Recovery

Spec == Init /\ [][Next]_vars

(* An endpoint answers or the client times out after 8 s, the semaphore of *)
(* tokio is fair, time passes, and the trader reads again and again as     *)
(* long as a position is open.                                             *)
FairSpec == /\ Spec /\ WF_vars(Tick)
            /\ \A c \in Callers : WF_vars(Step(c))
            /\ \A c \in Callers : SF_vars(Acquire(c))

-----------------------------------------------------------------------------
(* Properties. *)

Leads(c) == pc[c] \in {"permit", "publish", "remove"}
            \/ (pc[c] = "rpc" /\ job[c].step # "head")

(* At most one fetch of a key is under way, no more than the semaphore     *)
(* allows are at the endpoints, and a follower without an answer has a     *)
(* leader that will still answer or close.                                 *)
SingleFlight ==
  /\ \A c \in Callers : Leads(c) => inflight[job[c].key] = c
  /\ Cardinality(permits) <= MaxInflight
  /\ \A f \in Callers : pc[f] = "wait" /\ inbox[f] = "none" =>
       inflight[job[f].key] # NoCaller /\ Leads(inflight[job[f].key])

(* A cached state that says EXACT_BLOCK_READ holds the reserves of the     *)
(* block it is cached under, although the capability that decides between  *)
(* the block and "latest" may change while the read is under way; a        *)
(* LIVE_LATEST_READ is never older than its block.                         *)
ExactIsOfBlock ==
  \A k \in Keys : cache[k] # NoState =>
    IF cache[k].label = "EXACT" THEN cache[k].at = k[2] ELSE cache[k].at >= k[2]

(* The reader gives up exact reads only when the endpoints lack old state  *)
(* or failed during the probe.                                             *)
LatestHasCause == historical = "NO" => ~archive \/ outages > 0

(* What research/PONS_PROSPECTIVE_EXP001_SPEC.md:87 says of the fees: they *)
(* are on-chain values from verified getters.  The code takes a fee whose  *)
(* getter failed for zero and keeps it for the life of the process.        *)
FeesAreRead == \A k \in Keys : cache[k] # NoState => cache[k].fees = "read"

(* Every read ends, whatever the endpoints do: leaders come to an end,     *)
(* followers are answered or find the channel closed.                      *)
ReadsReturn == \A c \in Callers : (pc[c] # "idle") ~> (pc[c] = "idle")

(* Once the endpoints answer for good, no circuit stays open: reads keep   *)
(* getting past it.                                                        *)
CircuitsClose == <>[]AllGood => []<>(circuit = 0 /\ pool.left = 0)
=============================================================================
