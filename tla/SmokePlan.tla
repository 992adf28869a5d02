------------------------------ MODULE SmokePlan -------------------------------
(***************************************************************************)
(* The arithmetic and the checks that stand before a live order of the     *)
(* smoke tool: src/live/order_plan.py, risk_gate.py, the pure parts of     *)
(* submit.py and smoke.py, and clamp_limit of v2_transport.py.             *)
(*                                                                         *)
(* Prices are counted in pips, a tick is several pips (a book may quote    *)
(* between two ticks), sizes in the quantum a size is rounded to; so a     *)
(* size times a price is money, and the budget is given in that unit.  A   *)
(* side of a book that is missing, or a price that is refused, is None.    *)
(***************************************************************************)
EXTENDS Integers, Sequences, FiniteSets, Functions

CONSTANTS
    One,            \* pips in 1 USDC
    Tick,           \* pips in a tick
    MinSize,        \* min_order_size
    Cap,            \* yes_max_ask
    Dust,           \* MIN_POSITION_VALUE
    FireBudget, MaxOpen, MaxCapital      \* LIVE_* of the environment

ASSUME PlanAssumption ==
    /\ {One, Tick, MinSize, Cap} \subseteq Nat \ {0} /\ Cap <= One
    /\ {Dust, FireBudget, MaxOpen, MaxCapital} \subseteq Nat

None    == 0
TickGap == 2

Lesser(a, b) == IF a <= b THEN a ELSE b
AlignDown(v) == (v \div Tick) * Tick

-----------------------------------------------------------------------------
(* A price that rests: not above the best bid and two ticks under the best ask. *)
SmokePrice(b) ==
    LET raw == Lesser(b.bid, b.ask - TickGap * Tick)
    IN  IF b.bid = None \/ b.ask = None \/ b.bid >= b.ask \/ AlignDown(raw) < Tick
        THEN None ELSE AlignDown(raw)

(* The bucket quotes both sides, not against an extreme, with enough shares near the ask. *)
Tradable(b) ==
    /\ b.bid # None /\ b.ask # None /\ b.bid < b.ask
    /\ b.ask <= One - TickGap * Tick
    /\ b.depth >= MinSize
    /\ b.ask <= Cap
    /\ SmokePrice(b) # None

(* The tradable buckets of a session whose ask is closest to the middle; volume breaks ties. *)
Distance(b) == IF 2 * b.ask >= One THEN 2 * b.ask - One ELSE One - 2 * b.ask
Best(tokens, books) ==
    {t \in tokens : /\ Tradable(books[t])
                    /\ \A u \in tokens :
                          Tradable(books[u]) => Distance(books[t]) <= Distance(books[u])}

(* The operator's price replaces the passive one; it is only aligned. *)
PriceChoice(b, override) ==
    IF override = None THEN SmokePrice(b)
    ELSE IF AlignDown(override) < Tick THEN None ELSE AlignDown(override)

NoPlan == [price |-> None, size |-> 0]

(* plan_order, given the chosen price as the best ask: never above the cap, size rounded    *)
(* down, refused when it is below the market's minimum.                                     *)
PlanOrder(best, budget) ==
    LET price == AlignDown(Lesser(best, Cap))
        size  == budget \div price
    IN  IF best = None \/ best > Cap \/ price = 0 THEN NoPlan
        ELSE IF size = 0 \/ size < MinSize THEN NoPlan
        ELSE [price |-> price, size |-> size]

(* The snapshot of an account: the balance, and the positions that are worth counting. *)
Collected(account) ==
    LET kept == {i \in DOMAIN account.values : account.values[i] > Dust}
    IN  [balance |-> account.balance, positions |-> Cardinality(kept),
         committed |-> SumFunctionOnSet(account.values, kept)]

(* One more fire of the configured budget, on the numbers of a snapshot. *)
RiskAllows(snap) ==
    /\ FireBudget > 0
    /\ snap.positions < MaxOpen
    /\ snap.committed + FireBudget <= MaxCapital
    /\ snap.balance > 0 /\ FireBudget <= snap.balance

(* check_limits: the cost of the plan itself, which the caller's budget decided. *)
WithinLimits_Off(cost, snap) == cost >= 0
WithinLimits(cost, snap) == cost <= FireBudget /\ snap.committed + cost <= MaxCapital

NonMarketable(price, b) == b.ask # None /\ price < b.ask

(* clamp_limit for a BUY: under the ask of the book read last; None when nothing is left. *)
Clamped(price, b) ==
    LET p == AlignDown(Lesser(price, b.ask - Tick))
    IN  IF b.ask = None \/ p <= 0 \/ p >= b.ask THEN None ELSE p

(* All three gates; any phrase of the form of today's is taken for today's. *)
GatesPass(g) == g.flag /\ g.env /\ g.phrase \in {"today", "another day"}
=============================================================================
