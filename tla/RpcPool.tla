------------------------------- MODULE RpcPool -------------------------------
(***************************************************************************)
(* The pool of RPC endpoints behind the curve reader                       *)
(* (apps/engine/src/ingest/rpc_provider.rs): its circuit breaker and the   *)
(* endpoint that answered last.  Each method holds the pool's mutex or     *)
(* stores one atomic, so a method is one step of its caller.               *)
(*                                                                         *)
(* Time is what is left of the circuit, in ticks, without the jitter of a  *)
(* quarter of a second; an elapsed circuit is cleared by the tick, which   *)
(* is what clear_if_elapsed does before the next call.                     *)
(***************************************************************************)
EXTENDS Integers

CONSTANTS
  Endpoints,    \* number of endpoints, primary first
  BaseDelay,    \* ticks a first trip lasts, per circuit kind
  CapDelay,     \* ticks a trip lasts at most, per circuit kind
  FailureCap    \* failures that still double the delay (8 in the code)

CircuitKinds == {"Throughput", "Quota", "Unavailable"}

ASSUME EndpointsAssumption == Endpoints \in Nat \ {0}
ASSUME DelayAssumption == /\ BaseDelay \in [CircuitKinds -> Nat \ {0}]
                          /\ CapDelay \in [CircuitKinds -> Nat \ {0}]
ASSUME FailureCapAssumption == FailureCap \in Nat \ {0}

(* What a request can end with: a failure of the endpoint or the refusal   *)
(* of the pool itself.                                                     *)
Faults == {"timeout", "throttle", "quota", "refused"}

Pool    == [left : Nat, failures : 0 .. FailureCap, active : 1 .. Endpoints]
NewPool == [left |-> 0, failures |-> 0, active |-> 1]

circuit_open(g) == g.left > 0

AtMost(a, b) == IF a < b THEN a ELSE b

trip_Unbounded(g, kind) ==                                        \* mutant
  [g EXCEPT !.failures = @ + 1,
            !.left = AtMost(BaseDelay[kind] * 2 ^ g.failures, CapDelay[kind])]
trip(g, kind) ==
  LET f == AtMost(g.failures + 1, FailureCap)
  IN [g EXCEPT !.failures = f,
               !.left = AtMost(BaseDelay[kind] * 2 ^ (f - 1), CapDelay[kind])]

(* Errors that are no sign of an overloaded or absent provider, such as a  *)
(* revert or a block whose state is gone, trip nothing.                    *)
classify_and_trip(g, fault) ==
  CASE fault = "quota"    -> trip(g, "Quota")
    [] fault = "throttle" -> trip(g, "Throughput")
    [] fault = "timeout"  -> trip(g, "Unavailable")
    [] OTHER              -> g

(* A success closes the circuit, also one that another call tripped while  *)
(* this one was under way.                                                 *)
note_success(g, endpoint) ==
  [g EXCEPT !.failures = 0, !.left = 0, !.active = endpoint]

Elapsed_Never(g) == g                                             \* mutant
Elapsed(g) == IF g.left = 0 THEN g ELSE [g EXCEPT !.left = @ - 1]
=============================================================================
