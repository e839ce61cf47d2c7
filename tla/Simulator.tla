------------------------------ MODULE Simulator ------------------------------
(***************************************************************************)
(* The historical simulation of one token (apps/engine/src/sim/harness.rs, *)
(* exec.rs, policy.rs, position.rs; lab/run.rs): the snapshots are walked  *)
(* in order; at each the entry policy may buy, the position is marked and  *)
(* the exit policy may sell.  An order fills at the market of its fill     *)
(* time, decision plus delay, in the recorded history; the position it     *)
(* opens is managed from the very next line on.                            *)
(*                                                                         *)
(* Tokens do not interact: a run over many is many of these.  The seeded   *)
(* hash of the failure model and of the random control is a choice.  The   *)
(* orders that are persisted are the sums of their fills.                  *)
(***************************************************************************)
EXTENDS Venue

CONSTANTS
  N,            \* bound: snapshots of a history
  Times,        \* when each was taken
  Histories,    \* the histories to simulate
  Configs,      \* the configurations to simulate them under
  Notional,     \* quote a position is bought for
  MaxSlippage,  \* max_slippage_bps
  Delay,        \* delay_ms of the chain and scenario
  MinDelay,     \* least delay of an emergency exit
  RetryDelay,   \* retry_delay_ms
  Retries,      \* per kind of order
  TimeCap,      \* of the dynamic runner
  Horizon       \* of the outcome

Snaps == 1 .. N
Snapshot == [market : Market, buyers : Nat, sellers : Nat, outflow : BOOLEAN]
ExitIds == {"time", "tpsl", "trailing", "partial", "flow", "creator", "dynamic"}

(* eligibleAt, rejectAt and creatorAt are the snapshots from which on the  *)
(* candidate is eligible, the verdict is REJECT and the creator has sold.  *)
Config == [entryDelay : Nat, skipped : BOOLEAN, exit : ExitIds, hold : Nat,
           adverse : Nat, failing : SUBSET ({"Buy", "Sell"} \X Nat),
           accel : BOOLEAN, eligibleAt : Nat \ {0}, rejectAt : Nat, creatorAt : Nat]

ASSUME SimulatorAssumption ==
  /\ N \in Nat \ {0}
  /\ Times \in [Snaps -> Nat] /\ \A a, b \in Snaps : a < b => Times[a] < Times[b]
  /\ Histories \subseteq [Snaps -> Snapshot] /\ Configs \subseteq Config
  /\ Notional \in Nat /\ MaxSlippage \in Nat /\ Delay \in Nat /\ MinDelay \in Nat
  /\ RetryDelay \in Nat /\ TimeCap \in Nat /\ Horizon \in Nat
  /\ Retries \in [{"entry", "exit", "emergency"} -> Nat]

VARIABLES
  history, cfg,  \* what is simulated
  i,             \* the snapshot the walk is at
  pos,           \* the position
  ledger         \* sums over the persisted fills, and their times

vars == <<history, cfg, i, pos, ledger>>

Position == [opened : Nat, initial : Nat, remaining : Nat, cost : Nat,
             realized : Nat, pnl : Int, high : Nat, low : Nat, partials : Nat,
             soldAtEntry : BOOLEAN,
             status : {"none", "Open", "Closed", "ForcedEndOfData", "Unrealizable"}]
NoPosition == [opened |-> 0, initial |-> 0, remaining |-> 0, cost |-> 0,
               realized |-> 0, pnl |-> 0, high |-> 0, low |-> 0, partials |-> 0,
               soldAtEntry |-> FALSE, status |-> "none"]

Ledger == [bought : Nat, paid : Nat, sold : Nat, got : Nat, legs : Nat,
           early : BOOLEAN]

TypeOK == /\ history \in [Snaps -> Snapshot] /\ cfg \in Config
          /\ i \in 1 .. N + 2 /\ pos \in Position /\ ledger \in Ledger

Init == /\ history \in Histories /\ cfg \in Configs
        /\ i = 1 /\ pos = NoPosition
        /\ ledger = [bought |-> 0, paid |-> 0, sold |-> 0, got |-> 0, legs |-> 0,
                     early |-> FALSE]

-----------------------------------------------------------------------------
(* Orders. *)

AsOf == Times[N]

(* SnapshotBook::at: the latest snapshot of the time, never one after it.  *)
At(time) == CHOOSE j \in Snaps : /\ Times[j] <= time
                                 /\ \A l \in Snaps : Times[l] <= time => l <= j

max_attempts(side, emergency) ==
  1 + Retries[IF side = "Buy" THEN "entry" ELSE IF emergency THEN "emergency" ELSE "exit"]

FillTime(j, emergency, a) ==
  Times[j] + (IF emergency THEN Greatest(Delay \div 4, MinDelay) ELSE Delay)
           + a * RetryDelay

Dated(fill, time) ==
  [status |-> fill.status, token |-> fill.token, quote |-> fill.quote, time |-> time]

Attempt_AtDecision(side, j, amount, emergency, a) ==              \* mutant
  LET time == FillTime(j, emergency, a)
  IN Dated(IF time > AsOf THEN Fail("NoFill")
           ELSE IF <<side, a>> \in cfg.failing THEN Fail("Failed")
           ELSE executable_fill(history[j].market, side, amount, cfg.adverse,
                                MaxSlippage), time)
Attempt(side, j, amount, emergency, a) ==
  LET time == FillTime(j, emergency, a)
  IN Dated(IF time > AsOf THEN Fail("NoFill")
           ELSE IF <<side, a>> \in cfg.failing THEN Fail("Failed")
           ELSE executable_fill(history[At(time)].market, side, amount, cfg.adverse,
                                MaxSlippage), time)

(* Retried until it fills, the attempts are used up or the next one would  *)
(* lie past the end of the data.                                           *)
simulate_side(side, j, amount, emergency) ==
  LET last == max_attempts(side, emergency) - 1
      Try(a) == Attempt(side, j, amount, emergency, a)
      Done(a) == a = last \/ is_fill(Try(a)) \/ Try(a).time > AsOf
  IN Try(CHOOSE a \in 0 .. last : Done(a) /\ \A b \in 0 .. last : Done(b) => a <= b)

-----------------------------------------------------------------------------
(* The entry policy. *)

latest_sec(j) == IF j >= cfg.rejectAt THEN "Reject" ELSE "Pass"

may_enter(j) == /\ latest_sec(j) = "Pass" /\ j >= cfg.eligibleAt
                /\ Times[j] >= Times[cfg.eligibleAt] + cfg.entryDelay
                /\ ~cfg.skipped

open(f, j) ==
  [NoPosition EXCEPT !.opened = f.time, !.initial = f.token, !.remaining = f.token,
                     !.cost = f.quote, !.high = f.quote, !.low = f.quote,
                     !.soldAtEntry = j >= cfg.creatorAt, !.status = "Open"]

-----------------------------------------------------------------------------
(* The exit policies: what to sell, or nothing. *)

NoExit == [reason |-> "none", amount |-> 0]
Close_Initial(p, reason) == [reason |-> reason, amount |-> p.initial] \* mutant
Close(p, reason) == [reason |-> reason, amount |-> p.remaining]
CloseIf(condition, p, reason) == IF condition THEN Close(p, reason) ELSE NoExit

Age(p, j) == Times[j] - p.opened
TimeExit(p, j, cap) == CloseIf(Age(p, j) >= cap, p, "TimeStop")

(* The policies on the mark are silent without one or without a cost.      *)
Marks(p, mark) == mark > 0 /\ p.cost > 0

FixedTpSl(p, mark) ==
  LET r == return_bps(p.cost, mark)
  IN CloseIf(Marks(p, mark) /\ (r >= 10000 \/ r <= -5000), p,
             IF r >= 10000 THEN "TakeProfit" ELSE "Stop")

TrailBps == 3000
Trails(p, mark) == LET peak == return_bps(p.cost, p.high)
                   IN peak > 0 /\ peak - return_bps(p.cost, mark) >= TrailBps
TrailingExit(p, mark) == CloseIf(Marks(p, mark) /\ Trails(p, mark), p, "Trail")

Stages   == <<4000, 8000, 20000>>
StageBps == 2000
PartialRunner(p, mark) ==
  IF ~Marks(p, mark) THEN NoExit
  ELSE IF p.partials < 3 /\ return_bps(p.cost, mark) >= Stages[p.partials + 1]
  THEN IF Bps(p.remaining, StageBps) = 0 THEN NoExit
       ELSE [reason |-> "PartialScale", amount |-> Bps(p.remaining, StageBps)]
  ELSE CloseIf(p.partials >= 3 /\ Trails(p, mark), p, "Trail")

(* The change of the buyers and sellers since the last snapshot is known   *)
(* to the strategy runs only.                                              *)
Accel(field, j) ==
  IF ~cfg.accel \/ j = 1 THEN 0 ELSE history[j][field] - history[j - 1][field]

FlowDecay(p, j) ==
  CloseIf(\/ Accel("buyers", j) <= -2
          \/ Accel("sellers", j) >= 2 /\ history[j].outflow, p, "MomentumDecay")

CreatorSell(p, j) == CloseIf(j >= cfg.creatorAt /\ ~p.soldAtEntry, p, "CreatorSell")

DynamicRunner(p, j, mark) ==
  LET first == <<FlowDecay(p, j), CreatorSell(p, j), TimeExit(p, j, TimeCap),
                 PartialRunner(p, mark)>>
  IN IF \E n \in 1 .. 4 : first[n] # NoExit
     THEN first[CHOOSE n \in 1 .. 4 : /\ first[n] # NoExit
                                      /\ \A m \in 1 .. n - 1 : first[m] = NoExit]
     ELSE NoExit

on_mark(p, j, mark) ==
  CASE cfg.exit = "time"     -> TimeExit(p, j, cfg.hold)
    [] cfg.exit = "tpsl"     -> FixedTpSl(p, mark)
    [] cfg.exit = "trailing" -> TrailingExit(p, mark)
    [] cfg.exit = "partial"  -> PartialRunner(p, mark)
    [] cfg.exit = "flow"     -> FlowDecay(p, j)
    [] cfg.exit = "creator"  -> CreatorSell(p, j)
    [] cfg.exit = "dynamic"  -> DynamicRunner(p, j, mark)

evaluate(p, j) ==
  IF latest_sec(j) = "Reject" THEN Close(p, "SecurityEmergency")
  ELSE on_mark(p, j, mark_exit_quote(history[j].market, p.remaining))

-----------------------------------------------------------------------------
(* The position. *)

Marked(p, m) ==
  IF m = 0 THEN p
  ELSE [p EXCEPT !.high = Greatest(@, m), !.low = IF @ = 0 THEN m ELSE Least(@, m)]
mark(p, j) == Marked(p, mark_exit_quote(history[j].market, p.remaining))

(* The profit of a leg is against its share of the cost, rounded down.     *)
apply_exit(p, f) ==
  LET sold == Least(f.token, p.remaining)
  IN [p EXCEPT !.remaining = @ - sold, !.realized = @ + f.quote,
               !.pnl = @ + f.quote - ((p.cost * sold) \div p.initial),
               !.partials = IF sold < p.remaining THEN @ + 1 ELSE @,
               !.status = IF sold = p.remaining THEN "Closed" ELSE @]

force_end(p) ==
  [p EXCEPT !.status =
     IF mark_exit_quote(history[N].market, p.remaining) > 0
     THEN "ForcedEndOfData" ELSE "Unrealizable"]

-----------------------------------------------------------------------------
(* The walk. *)

Bought(f) == [ledger EXCEPT !.bought = f.token, !.paid = f.quote]
Sold(l, p, f) == [l EXCEPT !.sold = @ + f.token, !.got = @ + f.quote, !.legs = @ + 1,
                           !.early = @ \/ f.time < p.opened]

(* The position and its fills, once the entry, the mark and the exit of a  *)
(* snapshot are done.                                                      *)
AfterBuy(f) == IF is_fill(f) THEN [pos |-> open(f, i), ledger |-> Bought(f)]
               ELSE [pos |-> pos, ledger |-> ledger]
Entered == IF pos = NoPosition /\ may_enter(i)
           THEN AfterBuy(simulate_side("Buy", i, Notional, FALSE))
           ELSE [pos |-> pos, ledger |-> ledger]
Held(w) == IF w.pos.status = "Open" THEN [w EXCEPT !.pos = mark(w.pos, i)] ELSE w
AfterSell(w, f) ==
  IF is_fill(f) THEN [pos |-> apply_exit(w.pos, f), ledger |-> Sold(w.ledger, w.pos, f)]
  ELSE w
Exited(w, exit) ==
  IF exit = NoExit THEN w
  ELSE AfterSell(w, simulate_side("Sell", i, exit.amount,
                                  exit.reason = "SecurityEmergency"))
Managed(w) == IF w.pos.status = "Open" THEN Exited(w, evaluate(w.pos, i)) ELSE w

Walk == /\ i <= N /\ i' = i + 1
        /\ \E w \in {Managed(Held(Entered))} : pos' = w.pos /\ ledger' = w.ledger
        /\ UNCHANGED <<history, cfg>>

EndOfData ==
  /\ i = N + 1 /\ i' = N + 2
  /\ pos' = IF pos.status = "Open" THEN force_end(pos) ELSE pos
  /\ UNCHANGED <<history, cfg, ledger>>

Next == Walk \/ EndOfData

Spec == Init /\ [][Next]_vars

-----------------------------------------------------------------------------
(* What became of the token (sim/outcome.rs). *)

(* Whether the spot price reached k times that of the reference time.      *)
Reached(reference, k) ==
  LET spot(j) == spot_price(history[j].market)
      after == {j \in Snaps : /\ reference < Times[j] /\ Times[j] <= reference + Horizon
                              /\ HasSpot(history[j].market)}
  IN /\ HasSpot(history[At(reference)].market)
     /\ \E j \in after \cup {At(reference)} : spot(j) >= k * spot(At(reference))

(* Whether a trade that is over counts as one of more than k times.        *)
TradeReached(p, k) ==
  /\ p.status \notin {"none", "Open"} /\ p.cost > 0
  /\ return_bps(p.cost, p.realized) >= (k - 1) * 10000

-----------------------------------------------------------------------------
(* Properties. *)

(* Profit and loss rebuilt from the sums of the fills.                     *)
realized_pnl_from_fills(l) == l.got - ((l.paid * l.sold) \div l.bought)

(* The position agrees with its persisted fills: inventory and proceeds    *)
(* exactly, closed when nothing remains, and its profit but for what the   *)
(* legs round down, less than one unit each.                               *)
Reconciles ==
  pos # NoPosition =>
    /\ pos.remaining = ledger.bought - ledger.sold /\ ledger.sold <= ledger.bought
    /\ pos.realized = ledger.got
    /\ (pos.status = "Closed") <=> (pos.remaining = 0)
    /\ LET drift == pos.pnl - realized_pnl_from_fills(ledger)
       IN 0 <= drift /\ drift < Greatest(1, ledger.legs)

(* What rounding was worth taken off: at most one token at the price and   *)
(* one unit of quote in the purchase, one unit in each sale.               *)
Unrounded(p, l) ==
  LET m == history[At(p.opened)].market
  IN [p EXCEPT !.cost = @ + (m.quote \div m.token) + 2,
               !.realized = Greatest(@ - l.legs, 0)]

(* A trade gains no more than the token, but for rounding: one that        *)
(* brought its cost k times over was in a token whose spot price, from the *)
(* entry on, multiplied by k, unless it sold before it had bought, or the  *)
(* outcome stops looking before the data end.                              *)
NeverBeatsTheMarket ==
  pos # NoPosition /\ ~ledger.early /\ AsOf <= pos.opened + Horizon =>
    \A k \in {2, 5} :
      TradeReached(Unrounded(pos, ledger), k) => Reached(pos.opened, k)

(* What harness.rs:1 says of the walk: no lookahead on decisions.  The     *)
(* position is marked and sold from the snapshot of the decision on, at a  *)
(* cost that only its fill, later, will reveal.                            *)
NoLookahead ==
  [][ledger'.legs > ledger.legs => pos'.opened <= Times[i]]_vars

(* What docs/execution-models.md:40 says of adverse slippage: it never     *)
(* improves the fill.                                                      *)
SlippageNeverImproves ==
  \A s \in Snaps :
    LET m == history[s].market
        f == executable_fill(m, "Buy", Notional, 0, MaxSlippage)
        g == executable_fill(m, "Buy", Notional, cfg.adverse, MaxSlippage)
    IN is_fill(f) /\ is_fill(g) => f.quote * g.token <= g.quote * f.token
=============================================================================
