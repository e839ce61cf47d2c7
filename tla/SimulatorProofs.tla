-------------------------- MODULE SimulatorProofs --------------------------
(***************************************************************************)
(* Theorems about Simulator for every set of histories and configurations  *)
(* and all fees, delays, retries and caps: TypeOK, Reconciles and          *)
(* NeverBeatsTheMarket.  The first two rest on what a position owes its    *)
(* fills (Backed); the third on how a fill compares with the spot price of *)
(* its market (Worth), summed over the legs of a position (Fair).          *)
(***************************************************************************)
EXTENDS Simulator, WellFoundedInduction, TLAPS

-----------------------------------------------------------------------------
(* Division that rounds down. *)

LEMMA Division ==
  ASSUME NEW a \in Int, NEW b \in Nat \ {0}
  PROVE  /\ a \div b \in Int
         /\ b * (a \div b) <= a /\ a < b * (a \div b) + b
OBVIOUS

LEMMA AtLeast ==
  ASSUME NEW a \in Int, NEW b \in Nat \ {0}, NEW q \in Int, b * q <= a
  PROVE  q <= a \div b
<1> DEFINE r == a \div b
<1>1. r \in Int /\ a < b * r + b
  BY Division
<1> HIDE DEF r
<1>2. ASSUME r + 1 <= q PROVE FALSE
  <2>1. b * (r + 1) <= b * q
    BY <1>1, <1>2
  <2> QED
    BY <1>1, <2>1
<1> QED
  BY <1>1, <1>2 DEF r

LEMMA AtMost ==
  ASSUME NEW a \in Int, NEW b \in Nat \ {0}, NEW q \in Int, a < b * q + b
  PROVE  a \div b <= q
<1> DEFINE r == a \div b
<1>1. r \in Int /\ b * r <= a
  BY Division
<1> HIDE DEF r
<1>2. ASSUME q + 1 <= r PROVE FALSE
  <2>1. b * (q + 1) <= b * r
    BY <1>1, <1>2
  <2> QED
    BY <1>1, <2>1
<1> QED
  BY <1>1, <1>2 DEF r

(* Nothing is lost by cancelling a common factor.                          *)
LEMMA Cancel ==
  ASSUME NEW a \in Int, NEW b \in Int, NEW c \in Nat \ {0}, a * c < b * c
  PROVE  a < b
<1>1. ASSUME b <= a PROVE FALSE
  <2>1. b * c <= a * c
    BY <1>1
  <2>2. a * c \in Int /\ b * c \in Int
    OBVIOUS
  <2> QED
    BY <2>1, <2>2
<1> QED
  BY <1>1

LEMMA BpsBounds ==
  ASSUME NEW x \in Nat, NEW r \in Nat, r <= 10000
  PROVE  Bps(x, r) \in Nat /\ Bps(x, r) <= x
<1> DEFINE a == x * r
<1>1. a \in Nat /\ a <= 10000 * x
  OBVIOUS
<1> HIDE DEF a
<1>2. 0 <= a \div 10000 /\ a \div 10000 <= x
  BY <1>1
<1> QED
  BY <1>1, <1>2 DEF Bps, a

(* The share of the cost that two legs book one by one falls short of that *)
(* of both together by at most one.                                        *)
LEMMA TwoLegs ==
  ASSUME NEW c \in Nat, NEW b \in Nat \ {0}, NEW x \in Nat, NEW y \in Nat
  PROVE  LET lost == ((c * (x + y)) \div b) - ((c * x) \div b) - ((c * y) \div b)
         IN lost \in 0 .. 1
<1> DEFINE u == (c * x) \div b
           v == (c * y) \div b
           w == (c * (x + y)) \div b
<1>1. c * x \in Int /\ c * y \in Int /\ c * (x + y) \in Int /\ c * (x + y) = c * x + c * y
  OBVIOUS
<1>2. u \in Int /\ b * u <= c * x /\ c * x < b * u + b
  BY <1>1, Division
<1>3. v \in Int /\ b * v <= c * y /\ c * y < b * v + b
  BY <1>1, Division
<1>4. w \in Int
  BY <1>1, Division
<1>5. u + v <= w
  <2>1. b * (u + v) <= c * (x + y)
    <3> HIDE DEF u, v
    <3> QED
      BY <1>1, <1>2, <1>3
  <2>2. u + v \in Int
    BY <1>2, <1>3
  <2> QED
    BY <1>1, <2>1, <2>2, AtLeast
<1>6. w <= u + v + 1
  <2>1. c * (x + y) < b * (u + v + 1) + b
    <3> HIDE DEF u, v
    <3> QED
      BY <1>1, <1>2, <1>3
  <2>2. u + v + 1 \in Int /\ c * (x + y) \in Int
    BY <1>1, <1>2, <1>3
  <2> HIDE DEF u, v
  <2> QED
    BY <2>1, <2>2, AtMost
<1> HIDE DEF u, v, w
<1>7. w - u - v \in 0 .. 1
  BY <1>2, <1>3, <1>4, <1>5, <1>6
<1> QED
  BY <1>7 DEF u, v, w

-----------------------------------------------------------------------------
(* The venue. *)

LEMMA AdverseBounds ==
  ASSUME NEW x \in Nat, NEW r \in Nat
  PROVE  apply_adverse_bps(x, r) \in Nat /\ apply_adverse_bps(x, r) <= x
<1> DEFINE kept == IF r > 10000 THEN 0 ELSE 10000 - r
<1>1. kept \in Nat /\ kept <= 10000
  OBVIOUS
<1> HIDE DEF kept
<1>2. Bps(x, kept) \in Nat /\ Bps(x, kept) <= x
  BY <1>1, BpsBounds
<1> QED
  BY <1>2 DEF apply_adverse_bps, kept

LEMMA CappedBounds ==
  ASSUME NEW x \in Nat, NEW cap \in Nat
  PROVE  Capped(x, cap) \in Nat /\ Capped(x, cap) <= x
BY DEF Capped, Least

(* What a constant product gives lies between nothing and the reserve.     *)
LEMMA Product ==
  ASSUME NEW q \in Nat, NEW t \in Nat, NEW n \in Nat, q + n > 0
  PROVE  t - ((q * t) \div (q + n)) \in 0 .. t
<1>1. q * t \in Nat /\ q + n \in Nat \ {0}
  OBVIOUS
<1>2. (q * t) \div (q + n) \in Int
  BY <1>1, Division
<1>3. 0 <= (q * t) \div (q + n)
  BY <1>1, AtLeast
<1>4. q * t < (q + n) * t + (q + n)
  <2>1. (q + n) * t = q * t + n * t /\ n * t \in Nat
    OBVIOUS
  <2> QED
    BY <1>1, <2>1
<1>5. (q * t) \div (q + n) <= t
  BY <1>1, <1>4, AtMost
<1> QED
  BY <1>2, <1>3, <1>5

(* What is paid for fewer tokens than the reserve is not negative.         *)
LEMMA Repriced ==
  ASSUME NEW q \in Nat, NEW t \in Nat, NEW out \in Nat, out < t
  PROVE  ((q * t) \div (t - out)) - q \in Nat
<1>1. q * t \in Nat /\ t - out \in Nat \ {0}
  OBVIOUS
<1>2. (t - out) * q <= q * t
  <2>1. (t - out) * q = t * q - out * q /\ out * q \in Nat /\ t * q = q * t
    OBVIOUS
  <2> QED
    BY <1>1, <2>1
<1>3. q <= (q * t) \div (t - out)
  BY <1>1, <1>2, AtLeast
<1> QED
  BY <1>1, <1>3, Division

(* Tokens that a constant product gives for n are worth, at the price      *)
(* before, at most n and one token.                                        *)
LEMMA ProductPrice ==
  ASSUME NEW q \in Nat, NEW t \in Nat \ {0}, NEW n \in Nat, q + n > 0
  PROVE  q * ((t - ((q * t) \div (q + n))) - 1) <= t * n
<1> DEFINE d == q + n
           v == (q * t) \div d
           u == t - v
<1>1. q * t \in Int /\ d \in Nat \ {0}
  OBVIOUS
<1>2. v \in Int /\ q * t < d * v + d
  BY <1>1, Division
<1>3. u \in 0 .. t
  BY Product
<1> HIDE DEF v, d
<1>4. v = t - u
  BY <1>2, <1>3 DEF u
<1> HIDE DEF u
<1>5. d * (u - 1) < t * n
  <2>1. d * v + d = d * t - d * (u - 1)
    BY <1>1, <1>3, <1>4
  <2>2. d * t = q * t + t * n
    BY DEF d
  <2>3. d * t \in Int /\ d * (u - 1) \in Int /\ t * n \in Int /\ d * v \in Int
    BY <1>1, <1>2, <1>3
  <2> QED
    BY <1>1, <1>2, <2>1, <2>2, <2>3
<1>6. CASE u = 0
  <2>1. q * (u - 1) = -q /\ t * n \in Nat
    BY <1>6
  <2> QED
    BY <2>1 DEF u, v, d
<1>7. CASE u # 0
  <2>1. u - 1 \in Nat
    BY <1>3, <1>7
  <2>2. d * (u - 1) = q * (u - 1) + n * (u - 1) /\ n * (u - 1) \in Nat /\ q * (u - 1) \in Nat
    BY <2>1 DEF d
  <2>3. q * (u - 1) <= t * n
    BY <1>5, <2>2
  <2> QED
    BY <2>3 DEF u, v, d
<1> QED
  BY <1>6, <1>7

(* What is paid for fewer tokens is at least their worth, but for one.     *)
LEMMA RepricedPrice ==
  ASSUME NEW q \in Nat, NEW t \in Nat, NEW out \in Nat, out < t
  PROVE  q * out <= t * ((((q * t) \div (t - out)) - q) + 1)
<1> DEFINE d == t - out
           v == (q * t) \div d
           paid == v - q
<1>1. q * t \in Int /\ d \in Nat \ {0}
  OBVIOUS
<1>2. v \in Int /\ q * t < d * v + d
  BY <1>1, Division
<1>3. paid \in Nat
  BY Repriced
<1> HIDE DEF v, d
<1>4. v = q + paid
  BY <1>2, <1>3 DEF paid
<1> HIDE DEF paid
<1>5. q * out < d * (paid + 1)
  <2>1. d * v + d = d * q + d * (paid + 1)
    BY <1>1, <1>3, <1>4
  <2>2. d * q = q * t - q * out
    BY DEF d
  <2>3. d * q \in Int /\ q * out \in Int /\ d * (paid + 1) \in Int /\ d * v \in Int
    BY <1>1, <1>2, <1>3
  <2> QED
    BY <1>1, <1>2, <2>1, <2>2, <2>3
<1>6. d * (paid + 1) <= t * (paid + 1)
  <2>1. paid + 1 \in Nat /\ t = d + out
    BY <1>3 DEF d
  <2>2. t * (paid + 1) = d * (paid + 1) + out * (paid + 1) /\ out * (paid + 1) \in Nat
    BY <1>1, <2>1
  <2>3. d * (paid + 1) \in Int
    BY <1>1, <2>1
  <2> QED
    BY <2>2, <2>3
<1>7. q * out <= t * (paid + 1)
  <2>1. q * out \in Int /\ d * (paid + 1) \in Int /\ t * (paid + 1) \in Int
    BY <1>1, <1>3
  <2> QED
    BY <1>5, <1>6, <2>1
<1> QED
  BY <1>7 DEF paid, v, d

(* A price below a multiple of another, free of rounding.                  *)
LEMMA PriceBelow ==
  ASSUME NEW q \in Nat, NEW t \in Nat \ {0}, NEW q0 \in Nat, NEW t0 \in Nat \ {0},
         NEW k \in Nat, price(q, t) < k * price(q0, t0)
  PROVE  q * t0 < (k * q0) * t
<1> DEFINE A == price(q, t)
           B == price(q0, t0)
<1>0. Scale \in Nat \ {0}
  BY VenueAssumption
<1>1. A \in Int /\ q * Scale < t * A + t
  <2>1. q * Scale \in Int
    BY <1>0
  <2>2. A = (q * Scale) \div t
    BY DEF price
  <2> HIDE DEF A
  <2> QED
    BY <2>1, <2>2, Division
<1>2. B \in Int /\ t0 * B <= q0 * Scale
  <2>1. q0 * Scale \in Int
    BY <1>0
  <2>2. B = (q0 * Scale) \div t0
    BY DEF price
  <2> HIDE DEF B
  <2> QED
    BY <2>1, <2>2, Division
<1>3. A < k * B
  OBVIOUS
<1> HIDE DEF A, B
<1>4. k * B \in Int /\ A + 1 <= k * B
  BY <1>1, <1>2, <1>3
<1>5. q * Scale < t * (k * B)
  <2>1. t * (A + 1) <= t * (k * B)
    BY <1>1, <1>4
  <2>2. t * (A + 1) = t * A + t
    BY <1>1
  <2>3. t * (k * B) \in Int /\ t * A \in Int /\ q * Scale \in Int
    BY <1>0, <1>1, <1>4
  <2> QED
    BY <1>1, <2>1, <2>2, <2>3
<1>6. (q * Scale) * t0 < (t * (k * B)) * t0
  <2>1. t * (k * B) \in Int /\ q * Scale \in Int
    BY <1>0, <1>4
  <2> DEFINE x == q * Scale
             y == t * (k * B)
  <2>2. x \in Int /\ y \in Int /\ x < y
    BY <1>5, <2>1
  <2> HIDE DEF x, y
  <2>3. x * t0 < y * t0
    BY <2>2
  <2> QED
    BY <2>3 DEF x, y
<1>7. (t * k) * (t0 * B) <= (t * k) * (q0 * Scale)
  <2> DEFINE x == t0 * B
             y == q0 * Scale
             z == t * k
  <2>1. x \in Int /\ y \in Int /\ z \in Nat /\ x <= y
    BY <1>0, <1>2
  <2> HIDE DEF x, y, z
  <2>2. z * x <= z * y
    BY <2>1
  <2> QED
    BY <2>2 DEF x, y, z
<1>8. (t * (k * B)) * t0 = (t * k) * (t0 * B)
  BY <1>2
<1>9. (q * Scale) * t0 = (q * t0) * Scale /\ (t * k) * (q0 * Scale) = ((k * q0) * t) * Scale
  BY <1>0
<1>10. (q * t0) * Scale < ((k * q0) * t) * Scale
  <2>1. (t * k) * (t0 * B) \in Int /\ (t * k) * (q0 * Scale) \in Int /\ (q * Scale) * t0 \in Int
    BY <1>0, <1>2
  <2> QED
    BY <1>6, <1>7, <1>8, <1>9, <2>1
<1> QED
  <2>1. q * t0 \in Int /\ (k * q0) * t \in Int
    OBVIOUS
  <2> QED
    BY <1>0, <1>10, <2>1, Cancel

LEMMA MarketBounds ==
  ASSUME NEW m \in Market
  PROVE  /\ protocol_bps(m) \in Nat /\ protocol_bps(m) <= 10000
         /\ snipe_tax_bps(m) \in Nat /\ snipe_tax_bps(m) <= 10000
         /\ CapToken(m) \in Nat /\ CapQuote(m) \in Nat
         /\ m.quote \in Nat /\ m.token \in Nat
BY VenueAssumption DEF Market, protocol_bps, snipe_tax_bps, CapToken, CapQuote

(* What every fill of an order satisfies: a buy that fills brings tokens,  *)
(* a sale that fills takes all the tokens asked for and there were some;   *)
(* and at the spot price of its market, but for rounding, a buy brings no  *)
(* more than it costs and a sale no more than its tokens are worth.        *)
Worth(f, side, m) ==
  /\ m \in Market /\ Priced(m)
  /\ side = "Buy"  => m.quote * (f.token - 1) <= m.token * (f.quote + 1)
  /\ side = "Sell" => m.token * (f.quote - 1) <= m.quote * f.token

FillOK(f, side, amount) ==
  /\ f.token \in Nat /\ f.quote \in Nat
  /\ is_fill(f) => f.token # 0
  /\ is_fill(f) /\ side = "Sell" => f.token = amount

Filled(f, side, amount, m) ==
  FillOK(f, side, amount) /\ (is_fill(f) => Worth(f, side, m))

LEMMA FailOK ==
  ASSUME NEW side, NEW amount, NEW m, NEW s \in Statuses \ {"Filled", "PartialFill"}
  PROVE  Filled(Fail(s), side, amount, m) /\ ~is_fill(Fail(s))
BY DEF Filled, FillOK, Fail, is_fill

LEMMA BuyOK ==
  ASSUME NEW m \in Market, Priced(m), NEW quoteIn \in Nat, NEW adverse \in Nat,
         NEW maxSlip \in Nat
  PROVE  Filled(BuyFill(m, quoteIn, adverse, maxSlip), "Buy", quoteIn, m)
<1> DEFINE levy == snipe_tax_bps(m)
           rate == protocol_bps(m)
           tax == Bps(quoteIn, levy)
           fee == Bps(quoteIn - tax, rate)
           net == quoteIn - tax - fee
           uncapped == m.token - ((m.quote * m.token) \div (m.quote + net))
           out == apply_adverse_bps(Capped(uncapped, CapToken(m)), adverse)
           paid == filled_quote(m, quoteIn, uncapped, out)
           status == IF out < uncapped THEN "PartialFill" ELSE "Filled"
<1> HIDE DEF levy, rate, tax, fee, net, uncapped, out, paid, status
<1>0. m.quote \in Nat \ {0} /\ m.token \in Nat \ {0} /\ CapToken(m) \in Nat
  BY MarketBounds DEF Priced
<1>r. rate \in Nat /\ rate <= 10000 /\ levy \in Nat /\ levy <= 10000
  BY MarketBounds DEF rate, levy
<1>1. tax \in Nat /\ tax <= quoteIn
  BY <1>r, BpsBounds DEF tax
<1>2. fee \in Nat /\ fee <= quoteIn - tax
  <2>1. quoteIn - tax \in Nat
    BY <1>1
  <2> QED
    BY <1>r, <2>1, BpsBounds DEF fee
<1>3. net \in Nat /\ net <= quoteIn
  BY <1>1, <1>2 DEF net
<1>4. uncapped \in 0 .. m.token /\ m.quote * (uncapped - 1) <= m.token * net
  <2>1. m.quote + net > 0
    BY <1>0, <1>3
  <2>2. m.quote \in Nat /\ m.token \in Nat
    BY <1>0
  <2> QED
    BY <1>0, <1>3, <2>1, <2>2, Product, ProductPrice DEF uncapped
<1>5. Capped(uncapped, CapToken(m)) \in Nat /\ Capped(uncapped, CapToken(m)) <= uncapped
  <2>1. uncapped \in Nat
    BY <1>0, <1>4
  <2> QED
    BY <1>0, <2>1, CappedBounds
<1>6. out \in Nat /\ out <= uncapped
  <2>1. out \in Nat /\ out <= Capped(uncapped, CapToken(m))
    BY <1>5, AdverseBounds DEF out
  <2> QED
    BY <1>0, <1>4, <1>5, <2>1
<1>7. m.quote * (out - 1) <= m.token * (paid + 1) /\ paid \in Nat
  <2>1. CASE out < uncapped
    <3>1. out < m.token
      BY <1>0, <1>4, <1>6, <2>1
    <3>2. paid = ((m.quote * m.token) \div (m.token - out)) - m.quote
      BY <2>1 DEF paid, filled_quote
    <3>3. m.quote * out <= m.token * (paid + 1)
      BY <1>0, <1>6, <3>1, <3>2, RepricedPrice
    <3>4. m.quote * (out - 1) = m.quote * out - m.quote /\ m.quote * out \in Int
      BY <1>0, <1>6
    <3>5. paid \in Nat
      BY <1>0, <1>6, <3>1, <3>2, Repriced
    <3>6. m.token * (paid + 1) \in Int
      BY <1>0, <3>5
    <3> QED
      BY <1>0, <3>3, <3>4, <3>5, <3>6
  <2>2. CASE ~(out < uncapped)
    <3>1. paid = quoteIn /\ out = uncapped
      BY <1>4, <1>6, <2>2 DEF paid, filled_quote
    <3>2. m.quote * (uncapped - 1) <= m.token * net
      BY <1>4
    <3>3. m.token * net <= m.token * (paid + 1)
      BY <1>0, <1>3, <3>1
    <3>4. m.token * net \in Int /\ m.token * (paid + 1) \in Int /\ m.quote * (out - 1) \in Int
      BY <1>0, <1>3, <1>6, <3>1
    <3> QED
      BY <3>1, <3>2, <3>3, <3>4
  <2> QED
    BY <2>1, <2>2
<1>8. out # 0 => Filled([status |-> status, token |-> out, quote |-> paid], "Buy", quoteIn, m)
  BY <1>6, <1>7 DEF Filled, FillOK, Worth
<1>9. /\ Filled(Fail("NoFill"), "Buy", quoteIn, m)
      /\ Filled(Fail("RejectedSlippage"), "Buy", quoteIn, m)
  BY FailOK DEF Statuses
<1> QED
  BY <1>8, <1>9 DEF BuyFill, levy, rate, tax, fee, net, uncapped, out, paid, status

LEMMA SellOK ==
  ASSUME NEW m \in Market, Priced(m), NEW tokenIn \in Nat, NEW adverse \in Nat,
         NEW maxSlip \in Nat
  PROVE  Filled(SellFill(m, tokenIn, adverse, maxSlip), "Sell", tokenIn, m)
<1> DEFINE levy == snipe_tax_bps(m)
           rate == protocol_bps(m)
           whole == m.quote - ((m.quote * m.token) \div (m.token + tokenIn))
           gross == Capped(whole, CapQuote(m))
           taxable == gross - Bps(gross, rate)
           out == apply_adverse_bps(taxable - Bps(taxable, levy), adverse)
<1> HIDE DEF levy, rate, whole, gross, taxable, out
<1>0. m.quote \in Nat \ {0} /\ m.token \in Nat \ {0} /\ CapQuote(m) \in Nat
  BY MarketBounds DEF Priced
<1>r. rate \in Nat /\ rate <= 10000 /\ levy \in Nat /\ levy <= 10000
  BY MarketBounds DEF rate, levy
<1>1. whole \in 0 .. m.quote /\ m.token * (whole - 1) <= m.quote * tokenIn
  <2>1. m.token * m.quote = m.quote * m.token
    BY <1>0
  <2>2. m.token + tokenIn > 0
    BY <1>0
  <2>3. m.quote - ((m.token * m.quote) \div (m.token + tokenIn)) \in 0 .. m.quote
    BY <1>0, <2>2, Product
  <2>4. m.token * ((m.quote - ((m.token * m.quote) \div (m.token + tokenIn))) - 1)
          <= m.quote * tokenIn
    BY <1>0, <2>2, ProductPrice
  <2> QED
    BY <2>1, <2>3, <2>4 DEF whole
<1>2. gross \in Nat /\ gross <= whole
  <2>1. whole \in Nat
    BY <1>0, <1>1
  <2> QED
    BY <1>0, <2>1, CappedBounds DEF gross
<1>3. taxable \in Nat /\ taxable <= gross
  <2>1. Bps(gross, rate) \in Nat /\ Bps(gross, rate) <= gross
    BY <1>2, <1>r, BpsBounds
  <2> QED
    BY <1>2, <2>1 DEF taxable
<1>4. taxable - Bps(taxable, levy) \in Nat /\ taxable - Bps(taxable, levy) <= taxable
  <2>1. Bps(taxable, levy) \in Nat /\ Bps(taxable, levy) <= taxable
    BY <1>3, <1>r, BpsBounds
  <2> QED
    BY <1>3, <2>1
<1>5. out \in Nat /\ out <= whole
  <2>1. out \in Nat /\ out <= taxable - Bps(taxable, levy)
    BY <1>4, AdverseBounds DEF out
  <2> QED
    BY <1>0, <1>1, <1>2, <1>3, <1>4, <2>1
<1>6. m.token * (out - 1) <= m.quote * tokenIn
  <2>1. m.token * (out - 1) <= m.token * (whole - 1)
    BY <1>0, <1>1, <1>5
  <2>2. /\ m.token * (out - 1) \in Int /\ m.token * (whole - 1) \in Int
        /\ m.quote * tokenIn \in Int
    BY <1>0, <1>1, <1>5
  <2> QED
    BY <1>1, <2>1, <2>2
<1>7. tokenIn # 0 => Filled([status |-> "Filled", token |-> tokenIn, quote |-> out],
                            "Sell", tokenIn, m)
  BY <1>5, <1>6 DEF Filled, FillOK, Worth
<1>8. /\ Filled(Fail("NoFill"), "Sell", tokenIn, m)
      /\ Filled(Fail("RejectedSlippage"), "Sell", tokenIn, m)
  BY FailOK DEF Statuses
<1> QED
  BY <1>7, <1>8 DEF SellFill, levy, rate, whole, gross, taxable, out

LEMMA VenueOK ==
  ASSUME NEW m \in Market, NEW side \in {"Buy", "Sell"}, NEW amount \in Nat,
         NEW adverse \in Nat, NEW maxSlip \in Nat
  PROVE  Filled(executable_fill(m, side, amount, adverse, maxSlip), side, amount, m)
<1>1. /\ Filled(Fail("TemporarilyUnavailable"), side, amount, m)
      /\ Filled(Fail("RejectedLiquidity"), side, amount, m)
      /\ Filled(Fail("UnavailableMarketState"), side, amount, m)
  BY FailOK DEF Statuses
<1> QED
  BY <1>1, BuyOK, SellOK DEF executable_fill

-----------------------------------------------------------------------------
(* Orders. *)

LEMMA Smallest ==
  ASSUME NEW S \in SUBSET Nat, S # {}
  PROVE  \E m \in S : \A n \in S : m <= n
<1>1. PICK m \in S : \A n \in S : <<n, m>> \notin OpToRel(<, Nat)
  BY NatLessThanWellFounded, WFMin
<1>2. \A n \in S : ~(n < m)
  BY <1>1 DEF OpToRel
<1> QED
  BY <1>2

LEMMA Walked ==
  /\ Snaps \subseteq Nat /\ N \in Snaps /\ \A j \in Snaps : Times[j] \in Nat
  /\ \A a, b \in Snaps : a <= b => Times[a] <= Times[b]
<1>1. \A a, b \in Snaps : a < b \/ a = b \/ b < a
  BY SimulatorAssumption DEF Snaps
<1>2. \A a, b \in Snaps : a < b => Times[a] < Times[b]
  BY SimulatorAssumption
<1>3. \A j \in Snaps : Times[j] \in Nat
  BY SimulatorAssumption
<1>4. Snaps \subseteq Nat /\ N \in Snaps
  BY SimulatorAssumption DEF Snaps
<1>5. ASSUME NEW a \in Snaps, NEW b \in Snaps, a <= b PROVE Times[a] <= Times[b]
  BY <1>1, <1>2, <1>3, <1>4, <1>5
<1> QED
  BY <1>3, <1>4, <1>5

(* A time from some snapshot on has a latest one.                          *)
LEMMA AtOK ==
  ASSUME NEW time, NEW j \in Snaps, Times[j] <= time
  PROVE  /\ At(time) \in Snaps /\ Times[At(time)] <= time
         /\ \A l \in Snaps : Times[l] <= time => l <= At(time)
<1> DEFINE Before == {l \in Snaps : Times[l] <= time}
           Gaps == {N - l : l \in Before}
<1>1. Gaps \in SUBSET Nat /\ Gaps # {}
  BY SimulatorAssumption DEF Snaps
<1>2. PICK g \in Gaps : \A n \in Gaps : g <= n
  BY <1>1, Smallest
<1>3. PICK l \in Before : g = N - l
  BY <1>2
<1>4. \A k \in Before : N - l <= N - k
  BY <1>2, <1>3
<1>5. \A k \in Before : k <= l
  BY <1>3, <1>4, SimulatorAssumption DEF Snaps
<1>6. \E k \in Snaps : Times[k] <= time /\ \A n \in Snaps : Times[n] <= time => n <= k
  BY <1>3, <1>5
<1> QED
  BY <1>6 DEF At

LEMMA FillTimeOK ==
  ASSUME NEW j \in Snaps, NEW emergency \in BOOLEAN, NEW a \in Nat
  PROVE  FillTime(j, emergency, a) \in Nat /\ Times[j] <= FillTime(j, emergency, a)
<1> DEFINE lag == IF emergency THEN Greatest(Delay \div 4, MinDelay) ELSE Delay
<1>1. Delay \in Nat /\ MinDelay \in Nat /\ RetryDelay \in Nat
  BY SimulatorAssumption
<1>2. lag \in Nat
  BY <1>1 DEF Greatest
<1> HIDE DEF lag
<1>3. a * RetryDelay \in Nat
  BY <1>1
<1>4. Times[j] \in Nat
  BY Walked
<1>5. FillTime(j, emergency, a) = Times[j] + lag + a * RetryDelay
  BY DEF FillTime, lag
<1> QED
  BY <1>2, <1>3, <1>4, <1>5

MarketAt(time) == history[At(time)].market

(* An order that fills does so within the data, at the market of its time. *)
Executed(f, side) ==
  /\ f.time <= AsOf /\ At(f.time) \in Snaps /\ Times[At(f.time)] <= f.time
  /\ Worth(f, side, MarketAt(f.time))

Timed(f, side, amount) ==
  FillOK(f, side, amount) /\ f.time \in Nat /\ (is_fill(f) => Executed(f, side))

LEMMA DatedOK ==
  ASSUME NEW f, NEW side, NEW amount, NEW time \in Nat, FillOK(f, side, amount),
         NEW j \in Snaps, Times[j] <= time,
         is_fill(f) => time <= AsOf /\ Worth(f, side, MarketAt(time))
  PROVE  Timed(Dated(f, time), side, amount)
<1> DEFINE d == Dated(f, time)
<1>1. d.status = f.status /\ d.token = f.token /\ d.quote = f.quote /\ d.time = time
  BY DEF Dated
<1> HIDE DEF d
<1>2. FillOK(d, side, amount) /\ (is_fill(d) <=> is_fill(f))
  BY <1>1 DEF FillOK, is_fill
<1>3. At(time) \in Snaps /\ Times[At(time)] <= time
  BY AtOK
<1>4. Worth(f, side, MarketAt(time)) => Worth(d, side, MarketAt(time))
  BY <1>1 DEF Worth
<1>5. is_fill(d) => Executed(d, side)
  BY <1>1, <1>2, <1>3, <1>4 DEF Executed
<1> QED
  BY <1>1, <1>2, <1>5 DEF Timed, d

LEMMA AttemptOK ==
  ASSUME TypeOK, NEW side \in {"Buy", "Sell"}, NEW j \in Snaps, NEW amount \in Nat,
         NEW emergency \in BOOLEAN, NEW a \in Nat
  PROVE  Timed(Attempt(side, j, amount, emergency, a), side, amount)
<1> DEFINE time == FillTime(j, emergency, a)
           m == history[At(time)].market
<1>1. time \in Nat /\ Times[j] <= time /\ At(time) \in Snaps
  BY FillTimeOK, AtOK
<1>2. m \in Market
  BY <1>1 DEF TypeOK, Snapshot
<1>3. cfg.adverse \in Nat
  BY DEF TypeOK, Config
<1>m. m = MarketAt(time)
  BY DEF MarketAt
<1> HIDE DEF time, m
<1> DEFINE e == executable_fill(m, side, amount, cfg.adverse, MaxSlippage)
           f == IF time > AsOf THEN Fail("NoFill")
                ELSE IF <<side, a>> \in cfg.failing THEN Fail("Failed") ELSE e
<1>4. Filled(e, side, amount, m)
  BY <1>2, <1>3, VenueOK, SimulatorAssumption
<1>5. /\ Filled(Fail("NoFill"), side, amount, m) /\ ~is_fill(Fail("NoFill"))
      /\ Filled(Fail("Failed"), side, amount, m) /\ ~is_fill(Fail("Failed"))
  BY FailOK DEF Statuses
<1>7. Attempt(side, j, amount, emergency, a) = Dated(f, time)
  BY DEF Attempt, time, m
<1> HIDE DEF e
<1>6. Filled(f, side, amount, m) /\ (is_fill(f) => ~(time > AsOf))
  BY <1>4, <1>5
<1> HIDE DEF f
<1>8. AsOf \in Nat
  BY Walked DEF AsOf
<1>9. FillOK(f, side, amount) /\ (is_fill(f) => time <= AsOf /\ Worth(f, side, MarketAt(time)))
  BY <1>1, <1>6, <1>8, <1>m DEF Filled
<1> QED
  BY <1>1, <1>7, <1>9, DatedOK

LEMMA OrderOK ==
  ASSUME TypeOK, NEW side \in {"Buy", "Sell"}, NEW j \in Snaps, NEW amount \in Nat,
         NEW emergency \in BOOLEAN
  PROVE  Timed(simulate_side(side, j, amount, emergency), side, amount)
<1> DEFINE last == max_attempts(side, emergency) - 1
           Try(a) == Attempt(side, j, amount, emergency, a)
           Done(a) == a = last \/ is_fill(Try(a)) \/ Try(a).time > AsOf
           S == {a \in 0 .. last : Done(a)}
<1>1. last \in Nat
  BY SimulatorAssumption DEF max_attempts
<1> HIDE DEF last
<1>2. last \in S
  BY <1>1
<1>3. S \in SUBSET Nat /\ S # {}
  BY <1>1, <1>2
<1>4. PICK m \in S : \A n \in S : m <= n
  BY <1>3, Smallest
<1> HIDE DEF Try
<1>5. \E a \in 0 .. last : Done(a) /\ \A b \in 0 .. last : Done(b) => a <= b
  BY <1>4
<1> HIDE DEF Done
<1> DEFINE x == CHOOSE a \in 0 .. last : Done(a) /\ \A b \in 0 .. last : Done(b) => a <= b
<1>6. x \in 0 .. last
  BY <1>5
<1>7. simulate_side(side, j, amount, emergency) = Try(x)
  BY DEF simulate_side, last, Try, Done, x
<1> HIDE DEF x
<1>8. x \in Nat
  BY <1>1, <1>6
<1>9. Timed(Try(x), side, amount)
  BY <1>8, AttemptOK DEF Try
<1> QED
  BY <1>7, <1>9

-----------------------------------------------------------------------------
(* Exits: none asks for more than what remains. *)

Asks(exit, p) == exit.amount \in Nat /\ exit.amount <= p.remaining

LEMMA CloseAsks ==
  ASSUME NEW p, p.remaining \in Nat, NEW reason, NEW condition
  PROVE  Asks(NoExit, p) /\ Asks(Close(p, reason), p) /\ Asks(CloseIf(condition, p, reason), p)
BY DEF Asks, NoExit, Close, CloseIf

LEMMA PartialAsks ==
  ASSUME NEW p, p.remaining \in Nat, NEW m
  PROVE  Asks(PartialRunner(p, m), p)
<1>1. Bps(p.remaining, StageBps) \in Nat /\ Bps(p.remaining, StageBps) <= p.remaining
  BY BpsBounds DEF StageBps
<1>2. Asks([reason |-> "PartialScale", amount |-> Bps(p.remaining, StageBps)], p)
  BY <1>1 DEF Asks
<1>3. Asks(CloseIf(p.partials >= 3 /\ Trails(p, m), p, "Trail"), p) /\ Asks(NoExit, p)
  BY CloseAsks
<1> QED
  BY <1>2, <1>3 DEF PartialRunner

LEMMA DynamicAsks ==
  ASSUME NEW p, p.remaining \in Nat, NEW j, NEW m
  PROVE  Asks(DynamicRunner(p, j, m), p)
<1> DEFINE first == <<FlowDecay(p, j), CreatorSell(p, j), TimeExit(p, j, TimeCap),
                      PartialRunner(p, m)>>
           S == {n \in 1 .. 4 : first[n] # NoExit}
<1>1. Asks(FlowDecay(p, j), p) /\ Asks(CreatorSell(p, j), p) /\ Asks(TimeExit(p, j, TimeCap), p)
      /\ Asks(PartialRunner(p, m), p) /\ Asks(NoExit, p)
  BY CloseAsks, PartialAsks DEF FlowDecay, CreatorSell, TimeExit
<1>2. \A n \in 1 .. 4 : Asks(first[n], p)
  BY <1>1
<1> HIDE DEF first
<1>3. CASE S = {}
  BY <1>1, <1>3 DEF DynamicRunner, first
<1>4. CASE S # {}
  <2>1. PICK n \in S : \A k \in S : n <= k
    BY <1>4, Smallest
  <2>2. \E n0 \in 1 .. 4 : first[n0] # NoExit /\ \A k \in 1 .. n0 - 1 : first[k] = NoExit
    BY <2>1
  <2> DEFINE x == CHOOSE n0 \in 1 .. 4 : /\ first[n0] # NoExit
                                         /\ \A k \in 1 .. n0 - 1 : first[k] = NoExit
  <2>3. x \in 1 .. 4
    BY <2>2
  <2> HIDE DEF x
  <2>4. DynamicRunner(p, j, m) = first[x]
    BY <1>4 DEF DynamicRunner, first, x
  <2> QED
    BY <1>2, <2>3, <2>4
<1> QED
  BY <1>3, <1>4

LEMMA MarkAsks ==
  ASSUME TypeOK, NEW p, p.remaining \in Nat, NEW j, NEW m
  PROVE  Asks(on_mark(p, j, m), p)
<1>1. cfg.exit \in {"time", "tpsl", "trailing", "partial", "flow", "creator", "dynamic"}
  BY DEF TypeOK, Config, ExitIds
<1>2. CASE cfg.exit = "time"
  BY <1>2, CloseAsks DEF on_mark, TimeExit
<1>3. CASE cfg.exit = "tpsl"
  BY <1>3, CloseAsks DEF on_mark, FixedTpSl
<1>4. CASE cfg.exit = "trailing"
  BY <1>4, CloseAsks DEF on_mark, TrailingExit
<1>5. CASE cfg.exit = "partial"
  BY <1>5, PartialAsks DEF on_mark
<1>6. CASE cfg.exit = "flow"
  BY <1>6, CloseAsks DEF on_mark, FlowDecay
<1>7. CASE cfg.exit = "creator"
  BY <1>7, CloseAsks DEF on_mark, CreatorSell
<1>8. CASE cfg.exit = "dynamic"
  BY <1>8, DynamicAsks DEF on_mark
<1> QED
  BY <1>1, <1>2, <1>3, <1>4, <1>5, <1>6, <1>7, <1>8

LEMMA EvaluateAsks ==
  ASSUME TypeOK, NEW p, p.remaining \in Nat, NEW j
  PROVE  Asks(evaluate(p, j), p)
BY CloseAsks, MarkAsks DEF evaluate

-----------------------------------------------------------------------------
(* The inductive invariant: what a position owes its fills.  Its cost and  *)
(* inventory are those of the one BUY, and the profit it has booked is     *)
(* above that of the sums by what the legs rounded down, which is nothing  *)
(* before the second.                                                      *)

Drift(p, l) == p.pnl - realized_pnl_from_fills(l)

Backed(p, l) ==
  /\ p.initial = l.bought /\ p.cost = l.paid /\ p.initial > 0
  /\ p.remaining = l.bought - l.sold /\ p.realized = l.got
  /\ p.status = "Closed" <=> p.remaining = 0
  /\ Drift(p, l) >= 0 /\ Drift(p, l) < Greatest(1, l.legs)
  /\ l.legs = 0 => l.sold = 0

(* What a sale brings is at most what its tokens are worth at a price that *)
(* has not reached k times the one of the purchase, but for one.           *)
Fair(p, l) ==
  LET m == MarketAt(p.opened)
  IN /\ At(p.opened) \in Snaps /\ Times[At(p.opened)] <= p.opened
     /\ m \in Market /\ Priced(m)
     /\ m.quote * (l.bought - 1) <= m.token * (l.paid + 1)
     /\ ~l.early /\ AsOf <= p.opened + Horizon =>
          \A k \in Nat : ~Reached(p.opened, k) =>
            (l.got - l.legs) * m.token <= (k * m.quote) * l.sold

Unused(l) == l.sold = 0 /\ l.got = 0 /\ l.legs = 0 /\ ~l.early

Sound(w) ==
  /\ w.pos \in Position /\ w.ledger \in Ledger
  /\ w.pos.status = "none" => w.pos = NoPosition /\ Unused(w.ledger)
  /\ w.pos.status # "none" => Backed(w.pos, w.ledger) /\ Fair(w.pos, w.ledger)

Inv == TypeOK /\ Sound([pos |-> pos, ledger |-> ledger])

(* The snapshots that a sale can fill at count for the outcome, which thus  *)
(* bounds what the sale brings.                                            *)
LEMMA SaleBelow ==
  ASSUME NEW o \in Nat, At(o) \in Snaps, Times[At(o)] <= o,
         MarketAt(o) \in Market, Priced(MarketAt(o)), AsOf <= o + Horizon,
         NEW f, NEW amount, Timed(f, "Sell", amount), is_fill(f), o <= f.time,
         NEW k \in Nat, ~Reached(o, k)
  PROVE  (f.quote - 1) * MarketAt(o).token < (k * MarketAt(o).quote) * f.token
<1> DEFINE j == At(f.time)
           m == MarketAt(f.time)
           m0 == MarketAt(o)
           g == f.quote
           x == f.token
<1>0. f.time \in Nat /\ f.time <= AsOf /\ g \in Nat /\ x \in Nat \ {0}
  BY DEF Timed, Executed, FillOK
<1>1. j \in Snaps /\ Times[j] <= f.time
  BY DEF Timed, Executed
<1>2. m \in Market /\ Priced(m) /\ m.token * (g - 1) <= m.quote * x
  BY DEF Timed, Executed, Worth
<1>3. At(o) <= j
  <2>1. Times[At(o)] \in Nat
    BY Walked
  <2>2. Times[At(o)] <= f.time
    BY <1>0, <2>1
  <2> QED
    BY <2>2, AtOK
<1>4. j = At(o) \/ (o < Times[j] /\ Times[j] <= o + Horizon)
  <2>1. Times[j] \in Nat /\ AsOf \in Nat /\ Horizon \in Nat /\ j \in Nat /\ At(o) \in Nat
    BY <1>1, Walked, SimulatorAssumption DEF AsOf
  <2>2. Times[j] <= o + Horizon
    BY <1>0, <1>1, <2>1
  <2>3. Times[j] <= o => j <= At(o)
    BY <1>1, AtOK
  <2> HIDE DEF j
  <2> QED
    BY <1>3, <2>1, <2>2, <2>3
<1>5. /\ m.quote \in Nat /\ m.token \in Nat \ {0}
      /\ m0.quote \in Nat /\ m0.token \in Nat \ {0}
  BY <1>2, MarketBounds DEF Priced
<1>6. ~(spot_price(m) >= k * spot_price(m0))
  <2>1. HasSpot(m) /\ HasSpot(m0)
    BY <1>2 DEF Priced, HasSpot
  <2>2. j \in {l \in Snaps : /\ o < Times[l] /\ Times[l] <= o + Horizon
                             /\ HasSpot(history[l].market)} \cup {At(o)}
    BY <1>1, <1>4, <2>1 DEF MarketAt
  <2> QED
    BY <2>1, <2>2 DEF Reached, MarketAt
<1>7. price(m.quote, m.token) \in Int /\ price(m0.quote, m0.token) \in Int
  <2>1. Scale \in Nat
    BY VenueAssumption
  <2>2. m.quote * Scale \in Int /\ m0.quote * Scale \in Int
    BY <1>5, <2>1
  <2> HIDE DEF m, m0
  <2> QED
    BY <1>5, <2>2, Division DEF price
<1> HIDE DEF m, m0, j
<1>8. m.quote * m0.token < (k * m0.quote) * m.token
  <2>1. price(m.quote, m.token) < k * price(m0.quote, m0.token)
    BY <1>6, <1>7 DEF spot_price
  <2> QED
    BY <1>5, <2>1, PriceBelow
<1> DEFINE q == m.quote
           t == m.token
           q0 == m0.quote
           t0 == m0.token
<1>9. /\ q \in Nat /\ t \in Nat \ {0} /\ q0 \in Nat /\ t0 \in Nat \ {0}
      /\ t * (g - 1) <= q * x /\ q * t0 < (k * q0) * t
  BY <1>2, <1>5, <1>8
<1> HIDE DEF q, t, q0, t0, g, x
<1>10. (t * (g - 1)) * t0 <= (q * x) * t0
  <2> DEFINE a == t * (g - 1)
             b == q * x
  <2>1. a \in Int /\ b \in Int /\ a <= b
    BY <1>0, <1>9
  <2> HIDE DEF a, b
  <2>2. a * t0 <= b * t0
    BY <1>9, <2>1
  <2> QED
    BY <2>2 DEF a, b
<1>11. (q * t0) * x < ((k * q0) * t) * x
  <2> DEFINE a == q * t0
             b == (k * q0) * t
  <2>1. a \in Int /\ b \in Int /\ a < b
    BY <1>9
  <2> HIDE DEF a, b
  <2>2. a * x < b * x
    BY <1>0, <2>1
  <2> QED
    BY <2>2 DEF a, b
<1>12. ((g - 1) * t0) * t < ((k * q0) * x) * t
  <2>1. (t * (g - 1)) * t0 = ((g - 1) * t0) * t /\ (q * x) * t0 = (q * t0) * x
    BY <1>0, <1>9
  <2>2. ((k * q0) * t) * x = ((k * q0) * x) * t
    BY <1>0, <1>9
  <2>3. /\ ((g - 1) * t0) * t \in Int /\ (q * t0) * x \in Int
        /\ ((k * q0) * x) * t \in Int
    BY <1>0, <1>9
  <2> QED
    BY <1>10, <1>11, <2>1, <2>2, <2>3
<1>13. (g - 1) * t0 < (k * q0) * x
  <2>1. (g - 1) * t0 \in Int /\ (k * q0) * x \in Int
    BY <1>0, <1>9
  <2> QED
    BY <1>9, <1>12, <2>1, Cancel
<1> QED
  BY <1>13 DEF g, x, q0, t0, m0

LEMMA NothingYet == NoPosition \in Position /\ NoPosition.status = "none"
BY DEF NoPosition, Position

LEMMA ZeroShare == \A b \in Nat \ {0} : 0 \div b = 0
OBVIOUS

(* A buy opens a position of its tokens at its price.                      *)
LEMMA OpenSound ==
  ASSUME Inv, pos = NoPosition, i \in Snaps, NEW f, Timed(f, "Buy", Notional), is_fill(f)
  PROVE  Sound([pos |-> open(f, i), ledger |-> Bought(f)])
<1> DEFINE p == open(f, i)
           l == Bought(f)
<1>1. f.token \in Nat \ {0} /\ f.quote \in Nat /\ f.time \in Nat
  BY DEF Timed, FillOK
<1> DEFINE early == i >= cfg.creatorAt
<1>2. early \in BOOLEAN
  OBVIOUS
<1>20. p = [NoPosition EXCEPT !.opened = f.time, !.initial = f.token, !.remaining = f.token,
                             !.cost = f.quote, !.high = f.quote, !.low = f.quote,
                             !.soldAtEntry = early, !.status = "Open"]
  BY DEF open
<1> HIDE DEF early, p
<1>3. p = [opened |-> f.time, initial |-> f.token, remaining |-> f.token, cost |-> f.quote,
           realized |-> 0, pnl |-> 0, high |-> f.quote, low |-> f.quote, partials |-> 0,
           soldAtEntry |-> early, status |-> "Open"]
  BY <1>20 DEF NoPosition
<1>4. p \in Position
  BY <1>1, <1>2, <1>3 DEF Position
<1>5. ledger \in Ledger /\ Unused(ledger)
  BY NothingYet DEF Inv, Sound
<1>6. l \in Ledger /\ Unused(l) /\ l.bought = f.token /\ l.paid = f.quote
  BY <1>1, <1>5 DEF Bought, Ledger, Unused
<1> HIDE DEF l
<1>7. /\ p.initial = f.token /\ p.cost = f.quote /\ p.remaining = f.token
      /\ p.realized = 0 /\ p.pnl = 0 /\ p.status = "Open" /\ p.opened = f.time
  BY <1>3
<1>8. Drift(p, l) = 0
  <2>1. l.paid * l.sold = 0
    BY <1>1, <1>6 DEF Unused
  <2>2. realized_pnl_from_fills(l) = 0
    BY <1>1, <1>6, <2>1, ZeroShare DEF realized_pnl_from_fills, Unused
  <2> QED
    BY <1>7, <2>2 DEF Drift
<1>9. Backed(p, l)
  BY <1>1, <1>6, <1>7, <1>8 DEF Backed, Unused, Greatest
<1>10. Fair(p, l)
  <2> DEFINE m == MarketAt(f.time)
  <2>1. /\ At(f.time) \in Snaps /\ Times[At(f.time)] <= f.time /\ m \in Market /\ Priced(m)
        /\ m.quote * (f.token - 1) <= m.token * (f.quote + 1)
    BY DEF Timed, Executed, Worth
  <2>2. m.quote \in Nat /\ m.token \in Nat
    BY <2>1, MarketBounds
  <2> HIDE DEF m
  <2>3. ASSUME NEW k \in Nat PROVE (l.got - l.legs) * m.token <= (k * m.quote) * l.sold
    <3>1. (0 - 0) * m.token = 0 /\ (k * m.quote) * 0 = 0
      BY <2>2
    <3> QED
      BY <1>6, <3>1 DEF Unused
  <2> QED
    BY <1>6, <1>7, <2>1, <2>3 DEF Fair, m
<1> QED
  BY <1>4, <1>6, <1>7, <1>9, <1>10 DEF Sound, p, l

(* Marking a position touches neither its inventory nor its profit.        *)
LEMMA MarkSound ==
  ASSUME Inv, i \in Snaps, NEW w, Sound(w), w.pos.status = "Open"
  PROVE  LET p == mark(w.pos, i)
         IN /\ Sound([pos |-> p, ledger |-> w.ledger])
            /\ p.remaining = w.pos.remaining /\ p.status = "Open"
<1> DEFINE m == mark_exit_quote(history[i].market, w.pos.remaining)
           p == mark(w.pos, i)
<1>1. w.pos \in Position /\ w.pos.remaining \in Nat
  BY DEF Sound, Position
<1>2. m \in Nat
  <2>1. history[i].market \in Market
    BY DEF Inv, TypeOK, Snapshot
  <2>2. FillOK(executable_fill(history[i].market, "Sell", w.pos.remaining, 0, AnyImpact),
               "Sell", w.pos.remaining)
    BY <1>1, <2>1, VenueOK DEF AnyImpact, Filled
  <2> QED
    BY <2>2 DEF FillOK, mark_exit_quote
<1> HIDE DEF m
<1>3. p = Marked(w.pos, m)
  BY DEF mark, m
<1>4. p \in Position
  BY <1>1, <1>2, <1>3 DEF Marked, Position, Greatest, Least
<1>5. /\ p.initial = w.pos.initial /\ p.cost = w.pos.cost /\ p.remaining = w.pos.remaining
      /\ p.realized = w.pos.realized /\ p.pnl = w.pos.pnl /\ p.status = w.pos.status
      /\ p.opened = w.pos.opened
  BY <1>1, <1>3 DEF Marked, Position
<1> HIDE DEF p
<1>6. Backed(p, w.ledger) /\ Fair(p, w.ledger)
  BY <1>5 DEF Sound, Backed, Drift, Fair
<1> QED
  BY <1>4, <1>5, <1>6 DEF Sound, p

LEMMA Regroup ==
  ASSUME NEW a \in Nat, NEW b \in Nat, NEW c \in Nat
  PROVE  a - c \in Int /\ b - 1 \in Int /\ (a + b) - (c + 1) = (a - c) + (b - 1)
OBVIOUS

LEMMA Distributes ==
  ASSUME NEW x \in Int, NEW y \in Int, NEW t \in Int
  PROVE  (x + y) * t = x * t + y * t /\ t * (x + y) = t * x + t * y
OBVIOUS

(* A leg that sells at or after the purchase keeps within the market.      *)
LEMMA LegFair ==
  ASSUME NEW p, NEW l, Fair(p, l), p.opened \in Nat,
         l.sold \in Nat, l.got \in Nat, l.legs \in Nat,
         NEW f, NEW amount, Timed(f, "Sell", amount), is_fill(f),
         NEW q, q.opened = p.opened,
         NEW k, k.bought = l.bought, k.paid = l.paid, k.sold = l.sold + f.token,
         k.got = l.got + f.quote, k.legs = l.legs + 1,
         ~k.early => ~l.early /\ ~(f.time < p.opened)
  PROVE  Fair(q, k)
<1> DEFINE o == p.opened
           m == MarketAt(o)
<1>1. /\ At(o) \in Snaps /\ Times[At(o)] <= o /\ m \in Market /\ Priced(m)
      /\ m.quote * (k.bought - 1) <= m.token * (k.paid + 1)
  BY DEF Fair
<1>2. ASSUME ~k.early, AsOf <= o + Horizon, NEW n \in Nat, ~Reached(o, n)
      PROVE  (k.got - k.legs) * m.token <= (n * m.quote) * k.sold
  <2>1. (l.got - l.legs) * m.token <= (n * m.quote) * l.sold
    BY <1>2 DEF Fair
  <2>2. f.time \in Nat /\ f.token \in Nat /\ f.quote \in Nat
    BY DEF Timed, FillOK
  <2>3. o <= f.time
    BY <1>2, <2>2
  <2>4. (f.quote - 1) * m.token < (n * m.quote) * f.token
    BY <1>1, <1>2, <2>3, SaleBelow
  <2>5. m.quote \in Nat /\ m.token \in Nat
    BY <1>1, MarketBounds
  <2> HIDE DEF m
  <2>6. (k.got - k.legs) * m.token = (l.got - l.legs) * m.token + (f.quote - 1) * m.token
    <3> DEFINE a == l.got - l.legs
               b == f.quote - 1
    <3>1. k.got - k.legs = (l.got + f.quote) - (l.legs + 1)
      OBVIOUS
    <3>2. a \in Int /\ b \in Int /\ (l.got + f.quote) - (l.legs + 1) = a + b
      BY <2>2, Regroup
    <3> HIDE DEF a, b
    <3>3. (a + b) * m.token = a * m.token + b * m.token
      BY <2>5, <3>2, Distributes
    <3> QED
      BY <3>1, <3>2, <3>3 DEF a, b
  <2>7. (n * m.quote) * k.sold = (n * m.quote) * l.sold + (n * m.quote) * f.token
    <3>1. n * m.quote \in Int
      BY <2>5
    <3> QED
      BY <2>2, <3>1, Distributes
  <2>8. /\ (l.got - l.legs) * m.token \in Int /\ (f.quote - 1) * m.token \in Int
        /\ (n * m.quote) * l.sold \in Int /\ (n * m.quote) * f.token \in Int
    BY <2>2, <2>5
  <2> QED
    BY <2>1, <2>4, <2>6, <2>7, <2>8
<1> QED
  BY <1>1, <1>2 DEF Fair

(* A leg takes its tokens off and books its share of the cost.             *)
LEMMA SellSound ==
  ASSUME NEW w, Sound(w), w.pos.status = "Open", NEW exit, Asks(exit, w.pos),
         NEW f, Timed(f, "Sell", exit.amount), is_fill(f)
  PROVE  Sound([pos |-> apply_exit(w.pos, f), ledger |-> Sold(w.ledger, w.pos, f)])
<1> DEFINE p == w.pos
           l == w.ledger
           q == apply_exit(p, f)
           k == Sold(l, p, f)
<1>1. /\ p \in Position /\ l \in Ledger /\ Backed(p, l)
      /\ f.token \in Nat \ {0} /\ f.token <= p.remaining /\ f.quote \in Nat /\ f.time \in Nat
  BY DEF Sound, Asks, Timed, FillOK
<1>2. /\ p.initial \in Nat \ {0} /\ p.remaining \in Nat /\ p.cost \in Nat /\ p.realized \in Nat
      /\ p.pnl \in Int /\ p.partials \in Nat /\ p.opened \in Nat
      /\ l.sold \in Nat /\ l.got \in Nat /\ l.legs \in Nat /\ l.bought = p.initial
      /\ l.paid = p.cost
  BY <1>1 DEF Position, Ledger, Backed
<1> DEFINE share == (p.cost * f.token) \div p.initial
<1>3. share \in Int
  <2>1. p.cost * f.token \in Int
    BY <1>1, <1>2
  <2> QED
    BY <1>2, <2>1, Division
<1>4. Least(f.token, p.remaining) = f.token
  BY <1>1, <1>2 DEF Least
<1>5. q = [p EXCEPT !.remaining = @ - f.token, !.realized = @ + f.quote,
                    !.pnl = @ + f.quote - share,
                    !.partials = IF f.token < p.remaining THEN @ + 1 ELSE @,
                    !.status = IF f.token = p.remaining THEN "Closed" ELSE @]
  BY <1>4 DEF apply_exit
<1> HIDE DEF share, q
<1>6. q \in Position
  <2> DEFINE parts == IF f.token < p.remaining THEN p.partials + 1 ELSE p.partials
             stage == IF f.token = p.remaining THEN "Closed" ELSE p.status
  <2>1. /\ p.remaining - f.token \in Nat /\ p.realized + f.quote \in Nat
        /\ p.pnl + f.quote - share \in Int /\ parts \in Nat
        /\ stage \in {"none", "Open", "Closed", "ForcedEndOfData", "Unrealizable"}
    BY <1>1, <1>2, <1>3 DEF Position
  <2>2. q = [p EXCEPT !.remaining = p.remaining - f.token, !.realized = p.realized + f.quote,
                      !.pnl = p.pnl + f.quote - share, !.partials = parts, !.status = stage]
    BY <1>1, <1>5 DEF Position
  <2> HIDE DEF parts, stage
  <2> QED
    BY <1>1, <2>1, <2>2 DEF Position
<1>7. /\ q.initial = p.initial /\ q.cost = p.cost /\ q.remaining = p.remaining - f.token
      /\ q.opened = p.opened
      /\ q.realized = p.realized + f.quote /\ q.pnl = p.pnl + f.quote - share
      /\ q.status = IF f.token = p.remaining THEN "Closed" ELSE "Open"
  BY <1>1, <1>5 DEF Position
<1>8. /\ k.bought = l.bought /\ k.paid = l.paid /\ k.sold = l.sold + f.token
      /\ k.got = l.got + f.quote /\ k.legs = l.legs + 1
      /\ ~k.early => ~l.early /\ ~(f.time < p.opened)
  BY <1>1 DEF Sold, Ledger
<1>9. k \in Ledger
  <2> DEFINE early == l.early \/ f.time < p.opened
  <2>1. early \in BOOLEAN
    OBVIOUS
  <2>2. k = [l EXCEPT !.sold = l.sold + f.token, !.got = l.got + f.quote,
                      !.legs = l.legs + 1, !.early = early]
    BY <1>1, Zenon DEF Sold, Ledger
  <2> HIDE DEF early, k
  <2>3. k = [bought |-> l.bought, paid |-> l.paid, sold |-> l.sold + f.token,
             got |-> l.got + f.quote, legs |-> l.legs + 1, early |-> early]
    BY <1>1, <2>2 DEF Ledger
  <2>4. /\ l.bought \in Nat /\ l.paid \in Nat /\ l.sold + f.token \in Nat
        /\ l.got + f.quote \in Nat /\ l.legs + 1 \in Nat
    BY <1>1, <1>2
  <2> QED
    BY <2>1, <2>3, <2>4 DEF Ledger
<1> HIDE DEF k
<1> DEFINE before == (p.cost * l.sold) \div p.initial
           after == (p.cost * (l.sold + f.token)) \div p.initial
<1>10. before \in Int /\ after \in Int
  <2>1. p.cost * l.sold \in Int /\ p.cost * (l.sold + f.token) \in Int
    BY <1>1, <1>2
  <2> QED
    BY <1>2, <2>1, Division
<1>11. after - before - share \in 0 .. 1
  BY <1>1, <1>2, TwoLegs DEF share
<1>12. Drift(p, l) = p.pnl - (l.got - before)
  BY <1>2 DEF Drift, realized_pnl_from_fills
<1>13. Drift(q, k) = q.pnl - (k.got - after)
  BY <1>2, <1>8 DEF Drift, realized_pnl_from_fills
<1>14. l.legs = 0 => after - before - share = 0
  <2>1. SUFFICES ASSUME l.legs = 0 PROVE after - before - share = 0
    OBVIOUS
  <2>2. l.sold = 0
    BY <1>1, <2>1 DEF Backed
  <2>3. p.cost * l.sold = 0 /\ l.sold + f.token = f.token
    BY <1>1, <1>2, <2>2
  <2>4. before = 0 /\ after = share
    BY <1>2, <2>3, ZeroShare DEF share
  <2> HIDE DEF before, after
  <2> QED
    BY <1>3, <2>4
<1> HIDE DEF before, after
<1>15. Drift(q, k) = Drift(p, l) + (after - before - share)
  BY <1>1, <1>2, <1>3, <1>7, <1>8, <1>10, <1>12, <1>13
<1>16. Drift(q, k) >= 0 /\ Drift(q, k) < Greatest(1, k.legs)
  <2>1. Drift(p, l) \in Int
    BY <1>2, <1>10, <1>12
  <2>2. Drift(p, l) >= 0 /\ Drift(p, l) < Greatest(1, l.legs)
    BY <1>1 DEF Backed
  <2> QED
    BY <1>2, <1>8, <1>11, <1>14, <1>15, <2>1, <2>2 DEF Greatest
<1>17. Backed(q, k)
  BY <1>1, <1>2, <1>7, <1>8, <1>16 DEF Backed
<1>18. Fair(q, k)
  <2>1. Fair(p, l)
    BY DEF Sound
  <2> QED
    BY <1>1, <1>2, <1>7, <1>8, <2>1, LegFair
<1> QED
  BY <1>6, <1>7, <1>9, <1>17, <1>18 DEF Sound, q, k

-----------------------------------------------------------------------------
(* The walk. *)

LEMMA InitOK == Init => Inv
<1> SUFFICES ASSUME Init PROVE Inv
  OBVIOUS
<1>1. TypeOK
  BY NothingYet, SimulatorAssumption DEF Init, TypeOK, Ledger
<1>2. Sound([pos |-> pos, ledger |-> ledger])
  BY <1>1, NothingYet DEF Init, TypeOK, Sound, Unused
<1> QED
  BY <1>1, <1>2 DEF Inv

LEMMA SameHistory ==
  ASSUME UNCHANGED history, Sound([pos |-> pos', ledger |-> ledger'])
  PROVE  Sound([pos |-> pos, ledger |-> ledger])'
<1> SUFFICES ASSUME pos'.status # "none" PROVE Fair(pos, ledger)'
  BY DEF Sound
<1>1. Fair(pos', ledger')
  BY DEF Sound
<1>2. \A o : MarketAt(o)' = MarketAt(o)
  BY DEF MarketAt
<1>3. \A o, k : Reached(o, k)' <=> Reached(o, k)
  BY DEF Reached
<1> QED
  BY <1>1, <1>2, <1>3 DEF Fair

LEMMA WalkOK == ASSUME Inv, Walk PROVE Inv'
<1>1. i \in Snaps /\ i' = i + 1 /\ UNCHANGED <<history, cfg>>
  BY DEF Walk, Inv, TypeOK, Snaps
<1> DEFINE now == [pos |-> pos, ledger |-> ledger]
           e == Entered
           h == Held(e)
           w == Managed(h)
<1>2. Sound(now)
  BY DEF Inv
<1>3. Sound(e)
  <2>1. CASE pos = NoPosition /\ may_enter(i)
    <3> DEFINE f == simulate_side("Buy", i, Notional, FALSE)
    <3>1. Timed(f, "Buy", Notional)
      BY <1>1, OrderOK, SimulatorAssumption DEF Inv
    <3> HIDE DEF f
    <3>2. Sound(AfterBuy(f))
      BY <1>1, <1>2, <2>1, <3>1, OpenSound DEF AfterBuy
    <3> QED
      BY <2>1, <3>2 DEF Entered, f
  <2>2. CASE ~(pos = NoPosition /\ may_enter(i))
    BY <1>2, <2>2 DEF Entered
  <2> QED
    BY <2>1, <2>2
<1> HIDE DEF e
<1>4. Sound(h)
  <2>1. CASE e.pos.status = "Open"
    <3>1. h = [e EXCEPT !.pos = mark(e.pos, i)]
      BY <2>1 DEF Held
    <3>2. Sound([pos |-> mark(e.pos, i), ledger |-> e.ledger])
      BY <1>1, <1>3, <2>1, MarkSound
    <3>3. \E x \in {Entered} : DOMAIN x = {"pos", "ledger"}
      BY DEF Entered, AfterBuy
    <3>4. h.pos = mark(e.pos, i) /\ h.ledger = e.ledger
      BY <3>1, <3>3 DEF e
    <3> QED
      BY <3>2, <3>4 DEF Sound
  <2>2. CASE e.pos.status # "Open"
    BY <1>3, <2>2 DEF Held
  <2> QED
    BY <2>1, <2>2
<1> HIDE DEF h
<1>5. Sound(w)
  <2>1. CASE h.pos.status = "Open"
    <3> DEFINE exit == evaluate(h.pos, i)
               f == simulate_side("Sell", i, exit.amount, exit.reason = "SecurityEmergency")
    <3>1. h.pos.remaining \in Nat
      BY <1>4 DEF Sound, Position
    <3>2. Asks(exit, h.pos)
      BY <3>1, EvaluateAsks DEF Inv
    <3> HIDE DEF exit
    <3>3. Timed(f, "Sell", exit.amount)
      <4>1. (exit.reason = "SecurityEmergency") \in BOOLEAN
        OBVIOUS
      <4> QED
        BY <1>1, <3>2, <4>1, OrderOK DEF Inv, Asks
    <3> HIDE DEF f
    <3>4. Sound(AfterSell(h, f))
      BY <1>4, <2>1, <3>2, <3>3, SellSound DEF AfterSell
    <3> QED
      BY <1>4, <2>1, <3>4 DEF Managed, Exited, exit, f
  <2>2. CASE h.pos.status # "Open"
    BY <1>4, <2>2 DEF Managed
  <2> QED
    BY <2>1, <2>2
<1>6. pos' = w.pos /\ ledger' = w.ledger
  BY DEF Walk, e, h
<1> HIDE DEF w
<1>7. Sound([pos |-> pos', ledger |-> ledger'])
  BY <1>5, <1>6 DEF Sound
<1>8. TypeOK'
  BY <1>1, <1>7, SimulatorAssumption DEF Inv, TypeOK, Sound, Snaps
<1> QED
  BY <1>1, <1>7, <1>8, SameHistory DEF Inv

LEMMA EndOK == ASSUME Inv, EndOfData PROVE Inv'
<1>1. i' = N + 2 /\ UNCHANGED <<history, cfg, ledger>>
  BY DEF EndOfData
<1>2. Sound([pos |-> pos', ledger |-> ledger'])
  <2>1. CASE pos.status = "Open"
    <3> DEFINE stage == IF mark_exit_quote(history[N].market, pos.remaining) > 0
                        THEN "ForcedEndOfData" ELSE "Unrealizable"
    <3>1. stage \in {"ForcedEndOfData", "Unrealizable"}
      OBVIOUS
    <3>2. pos' = [pos EXCEPT !.status = stage]
      BY <2>1 DEF EndOfData, force_end
    <3> HIDE DEF stage
    <3>3. /\ pos \in Position /\ ledger \in Ledger /\ Backed(pos, ledger)
          /\ Fair(pos, ledger)
      BY <2>1 DEF Inv, Sound
    <3>4. pos' \in Position /\ pos'.status = stage
      BY <3>1, <3>2, <3>3 DEF Position
    <3>5. /\ pos'.initial = pos.initial /\ pos'.cost = pos.cost
          /\ pos'.remaining = pos.remaining /\ pos'.realized = pos.realized
          /\ pos'.pnl = pos.pnl /\ pos'.opened = pos.opened
      BY <3>2, <3>3 DEF Position
    <3>6. Backed(pos', ledger')
      BY <1>1, <2>1, <3>1, <3>3, <3>4, <3>5 DEF Backed, Drift
    <3>7. Fair(pos', ledger')
      BY <1>1, <3>3, <3>5 DEF Fair
    <3> QED
      BY <1>1, <3>1, <3>3, <3>4, <3>6, <3>7 DEF Sound
  <2>2. CASE pos.status # "Open"
    BY <1>1, <2>2 DEF Inv, Sound, EndOfData
  <2> QED
    BY <2>1, <2>2
<1>3. TypeOK'
  BY <1>1, <1>2, SimulatorAssumption DEF Inv, TypeOK, Sound
<1> QED
  BY <1>1, <1>2, <1>3, SameHistory DEF Inv

LEMMA InvHolds == Spec => []Inv
<1>1. ASSUME Inv, UNCHANGED vars PROVE Inv'
  <2>1. Sound([pos |-> pos', ledger |-> ledger']) /\ UNCHANGED <<history, cfg, i>>
    BY <1>1 DEF Inv, vars
  <2>2. TypeOK'
    BY <1>1 DEF Inv, TypeOK, vars
  <2> QED
    BY <2>1, <2>2, SameHistory DEF Inv
<1>2. Inv /\ [Next]_vars => Inv'
  BY <1>1, WalkOK, EndOK DEF Next
<1> QED
  BY <1>2, InitOK, PTL DEF Spec

(* Whatever the histories, prices, fees and configurations, the walk keeps *)
(* its types: no amount, price or balance of the position is negative,     *)
(* although fills are rescaled, capped and priced anew (impact.rs).        *)
THEOREM TypeCorrect == Spec => []TypeOK
<1>1. Inv => TypeOK
  BY DEF Inv
<1> QED
  BY <1>1, InvHolds, PTL

(* The position agrees with its persisted fills: what remains is what was  *)
(* bought and not sold, a position is closed exactly when nothing remains, *)
(* and the profit booked leg by leg exceeds the one that reconcile.rs      *)
(* rebuilds from the sums by less than one unit for each leg.              *)
THEOREM FillsReconcile == Spec => []Reconciles
<1>1. Inv => Reconciles
  <2> SUFFICES ASSUME Inv, pos # NoPosition PROVE Reconciles
    BY DEF Reconciles
  <2>1. Backed(pos, ledger)
    BY DEF Inv, Sound
  <2>2. /\ pos.remaining \in Nat /\ ledger.bought \in Nat /\ ledger.sold \in Nat
    BY DEF Inv, TypeOK, Position, Ledger
  <2> QED
    BY <2>1, <2>2 DEF Backed, Drift, Reconciles
<1> QED
  BY <1>1, InvHolds, PTL

(* A trade that brings its cost and the price of one token k times over,   *)
(* less one unit of quote in each fill, is in a token that reached k times *)
(* the price it was bought at.                                             *)
LEMMA Multiplied ==
  ASSUME NEW c \in Nat \ {0}, NEW r \in Nat, NEW k \in Nat, k >= 2,
         return_bps(c, r) >= (k - 1) * 10000
  PROVE  k * c <= r
<1>1. CASE r >= c
  <2> DEFINE d == ((r - c) * 10000) \div c
  <2>1. (r - c) * 10000 \in Int
    OBVIOUS
  <2>2. d \in Int /\ c * d <= (r - c) * 10000
    BY <2>1, Division
  <2>3. d >= (k - 1) * 10000
    BY <1>1 DEF return_bps
  <2> HIDE DEF d
  <2>4. c * ((k - 1) * 10000) <= c * d
    BY <2>2, <2>3
  <2>5. c * ((k - 1) * 10000) = (c * (k - 1)) * 10000 /\ c * (k - 1) \in Int
    OBVIOUS
  <2>6. c * d \in Int
    BY <2>2
  <2>7. c * (k - 1) <= r - c
    BY <2>1, <2>2, <2>4, <2>5, <2>6
  <2>8. c * (k - 1) = k * c - c /\ k * c \in Int
    OBVIOUS
  <2> QED
    BY <2>7, <2>8
<1>2. CASE r < c
  <2> DEFINE d == ((c - r) * 10000) \div c
  <2>1. (c - r) * 10000 \in Int /\ 0 <= (c - r) * 10000
    BY <1>2
  <2>2. d \in Int
    BY <2>1, Division
  <2>3. 0 <= d
    BY <2>1, AtLeast
  <2>4. -d >= (k - 1) * 10000
    BY <1>2 DEF return_bps
  <2> HIDE DEF d
  <2> QED
    BY <2>2, <2>3, <2>4
<1> QED
  BY <1>1, <1>2

(* What a position brings, but for rounding, is less than k times its cost *)
(* if the token did not reach k times the price of its purchase.           *)
LEMMA GainBound ==
  ASSUME NEW q \in Nat \ {0}, NEW t \in Nat \ {0}, NEW k \in Nat \ {0},
         NEW bought \in Nat, NEW sold \in Nat, sold <= bought, NEW cost \in Nat,
         NEW net \in Int, q * (bought - 1) <= t * (cost + 1), net * t <= (k * q) * sold
  PROVE  net < k * (cost + (q \div t) + 2)
<1> DEFINE u == q \div t
           c == cost + u + 2
<1>1. u \in Nat /\ q < t * (u + 1)
  <2>1. u \in Int /\ q < t * u + t
    BY Division
  <2>2. 0 <= u
    BY AtLeast
  <2> HIDE DEF u
  <2>3. t * (u + 1) = t * u + t
    BY <2>1
  <2> QED
    BY <2>1, <2>2, <2>3
<1> HIDE DEF u
<1>2. c \in Nat
  BY <1>1
<1>3. q * bought < t * c
  <2>1. q * (bought - 1) = q * bought - q /\ q * bought \in Int
    OBVIOUS
  <2>2. t * c = t * (cost + 1) + t * (u + 1) /\ t * (cost + 1) \in Int /\ t * (u + 1) \in Int
    BY <1>1
  <2> QED
    BY <1>1, <2>1, <2>2
<1> HIDE DEF c
<1>4. (k * q) * sold <= k * (q * bought)
  <2>1. q * sold <= q * bought /\ q * sold \in Int /\ q * bought \in Int
    OBVIOUS
  <2>2. k * (q * sold) <= k * (q * bought)
    <3> DEFINE a == q * sold
               b == q * bought
    <3>1. a \in Int /\ b \in Int /\ a <= b
      BY <2>1
    <3> HIDE DEF a, b
    <3>2. k * a <= k * b
      BY <3>1
    <3> QED
      BY <3>2 DEF a, b
  <2>3. (k * q) * sold = k * (q * sold)
    OBVIOUS
  <2> QED
    BY <2>2, <2>3
<1>5. k * (q * bought) < k * (t * c)
  <2> DEFINE a == q * bought
             b == t * c
  <2>1. a \in Int /\ b \in Int /\ a < b
    BY <1>2, <1>3
  <2> HIDE DEF a, b
  <2>2. k * a < k * b
    BY <2>1
  <2> QED
    BY <2>2 DEF a, b
<1>6. net * t < (k * c) * t
  <2>1. k * (t * c) = (k * c) * t
    BY <1>2
  <2>2. /\ net * t \in Int /\ (k * q) * sold \in Int /\ k * (q * bought) \in Int
        /\ (k * c) * t \in Int
    BY <1>2
  <2> QED
    BY <1>4, <1>5, <2>1, <2>2
<1>7. k * c \in Int
  BY <1>2
<1>8. net < k * c
  BY <1>6, <1>7, Cancel
<1>9. c = cost + (q \div t) + 2
  BY <1>1 DEF c, u
<1> QED
  BY <1>8, <1>9

(* A trade never gains more than its token: whatever the histories, fees,  *)
(* delays and policies, one that brought its cost k times over, with what  *)
(* rounding is worth taken off, was in a token whose spot price reached k  *)
(* times the one it was bought at.  Excused are only a sale that fills     *)
(* before the purchase does, which harness.rs lets happen, and prices past *)
(* the horizon of the outcome.                                             *)
THEOREM TradesKeepToTheMarket == Spec => []NeverBeatsTheMarket
<1>1. ASSUME Inv PROVE NeverBeatsTheMarket
  <2> SUFFICES ASSUME pos # NoPosition, ~ledger.early, AsOf <= pos.opened + Horizon,
                      NEW k \in {2, 5}, TradeReached(Unrounded(pos, ledger), k),
                      ~Reached(pos.opened, k)
               PROVE  FALSE
    BY DEF NeverBeatsTheMarket
  <2> DEFINE m == MarketAt(pos.opened)
             u == m.quote \div m.token
             net == pos.realized - ledger.legs
             c == pos.cost + u + 2
             p == Unrounded(pos, ledger)
  <2>1. pos \in Position /\ ledger \in Ledger /\ Backed(pos, ledger) /\ Fair(pos, ledger)
    BY <1>1 DEF Inv, Sound
  <2>2. /\ pos.cost \in Nat /\ pos.realized \in Nat /\ ledger.bought \in Nat
        /\ ledger.sold \in Nat /\ ledger.legs \in Nat /\ pos.remaining \in Nat
        /\ ledger.paid = pos.cost /\ ledger.got = pos.realized
        /\ pos.remaining = ledger.bought - ledger.sold
    BY <2>1 DEF Position, Ledger, Backed
  <2>3. /\ m \in Market /\ Priced(m)
        /\ m.quote * (ledger.bought - 1) <= m.token * (pos.cost + 1)
        /\ net * m.token <= (k * m.quote) * ledger.sold
    BY <2>1, <2>2 DEF Fair
  <2>4. m.quote \in Nat \ {0} /\ m.token \in Nat \ {0}
    BY <2>3, MarketBounds DEF Priced
  <2>5. p = [pos EXCEPT !.cost = pos.cost + u + 2,
                        !.realized = Greatest(pos.realized - ledger.legs, 0)]
    BY <2>1 DEF Unrounded, MarketAt, Position
  <2> HIDE DEF m, p
  <2>6. u \in Nat
    <3>1. u \in Int
      BY <2>4, Division
    <3>2. 0 <= u
      BY <2>4, AtLeast
    <3> QED
      BY <3>1, <3>2
  <2> HIDE DEF u
  <2>7. net \in Int /\ c \in Nat \ {0} /\ Greatest(net, 0) \in Nat
    BY <2>2, <2>6 DEF Greatest
  <2>8. p.cost = c /\ p.realized = Greatest(net, 0)
    BY <2>1, <2>5 DEF Position
  <2>9. return_bps(c, Greatest(net, 0)) >= (k - 1) * 10000
    BY <2>8 DEF TradeReached, p
  <2>10. k * c <= Greatest(net, 0)
    BY <2>7, <2>9, Multiplied
  <2>11. net < k * c
    <3>1. ledger.sold <= ledger.bought /\ k \in Nat \ {0}
      BY <2>2
    <3>2. net \in Int /\ net * m.token <= (k * m.quote) * ledger.sold
      BY <2>3, <2>7
    <3> HIDE DEF net
    <3>3. net < k * (pos.cost + (m.quote \div m.token) + 2)
      BY <2>2, <2>3, <2>4, <3>1, <3>2, GainBound
    <3> QED
      BY <3>3 DEF u
  <2>12. k * c > 0 /\ k * c \in Int
    BY <2>7
  <2> HIDE DEF net, c
  <2> QED
    BY <2>7, <2>10, <2>11, <2>12 DEF Greatest
<1> QED
  BY <1>1, InvHolds, PTL

(* There is no money in a round trip: tokens sold back at the market they  *)
(* were bought at bring at most what was paid and the price of one token,  *)
(* whatever the fees, caps, partial fills and slippage (impact.rs).        *)
THEOREM RoundTripGainsNothing ==
  ASSUME NEW m \in Market, NEW amount \in Nat, NEW tokens \in Nat,
         NEW a \in Nat, NEW b \in Nat, NEW slip \in Nat,
         is_fill(executable_fill(m, "Buy", amount, a, slip)),
         tokens <= executable_fill(m, "Buy", amount, a, slip).token,
         is_fill(executable_fill(m, "Sell", tokens, b, slip))
  PROVE  executable_fill(m, "Sell", tokens, b, slip).quote
           <= executable_fill(m, "Buy", amount, a, slip).quote + (m.quote \div m.token) + 2
<1> DEFINE f == executable_fill(m, "Buy", amount, a, slip)
           g == executable_fill(m, "Sell", tokens, b, slip)
           u == m.quote \div m.token
<1>1. /\ f.token \in Nat /\ f.quote \in Nat /\ Worth(f, "Buy", m)
      /\ tokens <= f.token
  BY VenueOK DEF Filled, FillOK
<1>2. g.quote \in Nat /\ g.token = tokens /\ Worth(g, "Sell", m)
  BY VenueOK DEF Filled, FillOK
<1> HIDE DEF f, g
<1>3. m.quote \in Nat \ {0} /\ m.token \in Nat \ {0}
  BY <1>1, MarketBounds DEF Worth, Priced
<1>4. m.quote * (f.token - 1) <= m.token * (f.quote + 1)
  BY <1>1 DEF Worth
<1>5. (g.quote - 1) * m.token <= (1 * m.quote) * tokens
  <2>1. m.token * (g.quote - 1) <= m.quote * tokens
    BY <1>2 DEF Worth
  <2>2. (g.quote - 1) * m.token = m.token * (g.quote - 1) /\ 1 * m.quote = m.quote
    BY <1>2, <1>3
  <2> QED
    BY <2>1, <2>2
<1>6. g.quote - 1 < 1 * (f.quote + u + 2)
  <2>1. g.quote - 1 \in Int /\ 1 \in Nat \ {0}
    BY <1>2
  <2> QED
    BY <1>1, <1>3, <1>4, <1>5, <2>1, GainBound
<1>7. u \in Int
  BY <1>3, Division
<1> HIDE DEF u
<1>8. g.quote <= f.quote + u + 2
  BY <1>1, <1>2, <1>6, <1>7
<1> QED
  BY <1>8 DEF f, g, u
=============================================================================
