-------------------------------- MODULE Venue --------------------------------
(***************************************************************************)
(* What a simulated order gets from a market (apps/engine/src/sim/         *)
(* impact.rs, models.rs): the constant-product fill of bonding curves and  *)
(* pools with its fee, snipe tax, adverse slippage, caps and impact limit, *)
(* and the markets that give none.                                         *)
(*                                                                         *)
(* Amounts are integers that round down exactly where the code's U256      *)
(* does; its saturation at 2^256 is out of reach of any reserve.  A market *)
(* is the part of a TokenStateSnapshot a fill depends on.                  *)
(***************************************************************************)
EXTENDS Integers

CONSTANTS
  Scale,        \* 10^18 in the code: the unit of a price
  CurveFee,     \* protocol bps of a curve
  PoolFee,      \* protocol bps of a pool
  SnipeTax,     \* bps Pons taxes early trades
  SnipeWindow   \* age below which it does

ASSUME VenueAssumption ==
  /\ Scale \in Nat \ {0} /\ SnipeWindow \in Nat
  /\ CurveFee \in 0 .. 10000 /\ PoolFee \in 0 .. 10000 /\ SnipeTax \in 0 .. 10000

(* GraduationGap stands for LaunchSwept too, Inactive for Migrating.       *)
Lifecycles == {"CurveActive", "AmmActive", "GraduationGap", "Inactive"}
MarketKinds == {"curve", "pool", "v4", "unknown"}
Market == [kind : MarketKinds, life : Lifecycles, taxed : BOOLEAN, age : Nat,
           quality : {"Complete", "Partial", "Unknown"},
           quote : Nat, token : Nat,     \* virtual reserves, or the pool's
           realToken : Nat, realQuote : Nat]   \* caps, 0 when there is none

Statuses == {"Filled", "PartialFill", "NoFill", "Failed", "RejectedLiquidity",
             "RejectedSlippage", "UnavailableMarketState",
             "TemporarilyUnavailable"}
VenueFill == [status : Statuses, token : Nat, quote : Nat]
Fail(status) == [status |-> status, token |-> 0, quote |-> 0]
is_fill(f) == f.status \in {"Filled", "PartialFill"}

Least(a, b)   == IF a <= b THEN a ELSE b
Greatest(a, b) == IF a >= b THEN a ELSE b
Bps(x, r) == (x * r) \div 10000
apply_adverse_bps(x, r) == IF r = 0 THEN x ELSE Bps(x, IF r > 10000 THEN 0 ELSE 10000 - r)
price(quote, token) == IF token = 0 THEN 0 ELSE (quote * Scale) \div token

protocol_bps(m) == IF m.life = "AmmActive" \/ m.kind = "pool" THEN PoolFee ELSE CurveFee
snipe_tax_bps(m) == IF m.taxed /\ m.age < SnipeWindow THEN SnipeTax ELSE 0

Capped(x, cap) == IF cap > 0 THEN Least(x, cap) ELSE x
CapToken(m) == IF m.kind = "pool" THEN m.token ELSE m.realToken
CapQuote(m) == IF m.kind = "pool" THEN m.quote ELSE m.realQuote

(* How much worse than the spot price, in bps; nothing if it is better.    *)
impact_bps(ref, worse) == IF ref = 0 \/ worse <= 0 THEN 0 ELSE (worse * 10000) \div ref

(* What is paid for fewer tokens than the quote would buy.                 *)
filled_quote_Swapped(m, quoteIn, uncapped, out) ==                \* mutant
  IF out < uncapped THEN m.quote - ((m.quote * m.token) \div (m.token - out)) ELSE quoteIn
filled_quote(m, quoteIn, uncapped, out) ==
  IF out < uncapped THEN ((m.quote * m.token) \div (m.token - out)) - m.quote ELSE quoteIn

BuyFill(m, quoteIn, adverse, maxSlip) ==
  LET tax == Bps(quoteIn, snipe_tax_bps(m))
      fee == Bps(quoteIn - tax, protocol_bps(m))
      net == quoteIn - tax - fee
      uncapped == m.token - ((m.quote * m.token) \div (m.quote + net))
      out == apply_adverse_bps(Capped(uncapped, CapToken(m)), adverse)
      paid == filled_quote(m, quoteIn, uncapped, out)
      ref == price(m.quote, m.token)
      eff == price(Greatest(paid, net), out)
  IN IF quoteIn = 0 THEN Fail("NoFill")
     ELSE IF net = 0 THEN Fail("RejectedSlippage")
     ELSE IF out = 0 THEN Fail("NoFill")
     ELSE IF impact_bps(ref, eff - ref) > maxSlip THEN Fail("RejectedSlippage")
     ELSE [status |-> IF out < uncapped THEN "PartialFill" ELSE "Filled",
           token |-> out, quote |-> paid]

(* A sale the cap cuts still takes all the tokens.                         *)
SellFill(m, tokenIn, adverse, maxSlip) ==
  LET gross == Capped(m.quote - ((m.quote * m.token) \div (m.token + tokenIn)),
                      CapQuote(m))
      taxable == gross - Bps(gross, protocol_bps(m))
      out == apply_adverse_bps(taxable - Bps(taxable, snipe_tax_bps(m)), adverse)
      ref == price(m.quote, m.token)
  IN IF tokenIn = 0 \/ out = 0 THEN Fail("NoFill")
     ELSE IF impact_bps(ref, ref - price(out, tokenIn)) > maxSlip
     THEN Fail("RejectedSlippage")
     ELSE [status |-> "Filled", token |-> tokenIn, quote |-> out]

Priced(m) == m.kind \in {"curve", "pool"} /\ m.quote > 0 /\ m.token > 0
             /\ m.quality # "Unknown"

executable_fill(m, side, amount, adverse, maxSlip) ==
  IF m.life = "GraduationGap" THEN Fail("TemporarilyUnavailable")
  ELSE IF m.life = "Inactive" /\ side = "Sell" THEN Fail("RejectedLiquidity")
  ELSE IF ~Priced(m) THEN Fail("UnavailableMarketState")
  ELSE IF side = "Buy" THEN BuyFill(m, amount, adverse, maxSlip)
  ELSE SellFill(m, amount, adverse, maxSlip)

(* What selling now would bring, without slippage or limit; 0 for nothing. *)
AnyImpact == 1000000
mark_exit_quote(m, tokens) == executable_fill(m, "Sell", tokens, 0, AnyImpact).quote

(* The spot price, whatever the quality says; for a market without         *)
(* reserves quote and token are those of the last trade, 0 if there is     *)
(* none.                                                                   *)
HasSpot(m)    == m.kind \in {"curve", "pool"} \/ m.token > 0
spot_price(m) == price(m.quote, m.token)

return_bps(cost, value) ==
  IF value >= cost THEN ((value - cost) * 10000) \div cost
  ELSE -(((cost - value) * 10000) \div cost)
=============================================================================
