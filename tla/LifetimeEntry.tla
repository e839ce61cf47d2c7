--------------------------- MODULE LifetimeEntry ---------------------------
(***************************************************************************)
(* What the paper trader promises about one experiment's arms, whatever    *)
(* crashes, retries or second processes happen: a (chain, token, arm) key  *)
(* is decided once, the decision is never taken back, and only a decision  *)
(* to buy ever becomes a position ("reentry = false").                     *)
(*                                                                         *)
(* PaperTrading implements this specification.                             *)
(***************************************************************************)
CONSTANT Arms           \* lifetime keys: (chain, token, strategy_policy_id)

VARIABLE stage          \* what has durably happened to each key

Stages == {"FREE", "REJECTED", "FILLED", "HELD"}

TypeOK == stage \in [Arms -> Stages]

Init == stage = [a \in Arms |-> "FREE"]

Move(a, from, to) == /\ stage[a] = from
                     /\ stage' = [stage EXCEPT ![a] = to]

Reject(a) == Move(a, "FREE", "REJECTED")    \* the one BUY did not fill
Fill(a)   == Move(a, "FREE", "FILLED")      \* the one BUY filled
Hold(a)   == Move(a, "FILLED", "HELD")      \* the fill became a position

Next == \E a \in Arms : Reject(a) \/ Fill(a) \/ Hold(a)

Spec == Init /\ [][Next]_stage
=============================================================================
