--------------------------- MODULE NegRiskAccount ---------------------------
(***************************************************************************)
(* The neg-risk paper desk on one event: src/neg_risk/scanner.py, the two  *)
(* strategies (arb_strategy.py, maker_strategy.py), the account behind     *)
(* them (paper_account.py), as engine.py and src/neg_risk_runner.py drive  *)
(* them: each cycle settles what the event service shows as over, then     *)
(* scans the event, opens a basket and lets the maker's quotes fill.  In   *)
(* live mode the scan only lists opportunities (nothing sends a basket to  *)
(* BasketExecution's engine), but the paper account is settled all the     *)
(* same, and the next restart may be on paper again.                       *)
(*                                                                         *)
(* Prices are ticks (One to the dollar), shares whole, cash is shares      *)
(* times ticks.  The account rounds to the nearest share, as the code      *)
(* rounds to 0.01 or 0.0001 of one.                                        *)
(***************************************************************************)
EXTENDS Integers, Sequences, SequencesExt, FiniteSets, Functions

CONSTANTS
    Tokens,     \* YES tokens of the event
    Other,      \* the one labelled "Other"
    Books,      \* the event's books as one look may find them: token by token the best
                \* bid and ask (0: that side is empty) and the age when it is judged
    MaxAge, MaxSkew, One, Hurdle, HalfSpread, QuoteSize,
    Capital, Budget, MinArbCash, MinMakerCash, Chunk, InvCap, SellCap,
    NoWinner,
    MaxTrades   \* bound: trades of the account

ASSUME AccountAssumption ==
    /\ Other \in Tokens /\ NoWinner \notin Tokens
    /\ {MaxAge, MaxSkew, Hurdle, HalfSpread, Capital, MinArbCash, MinMakerCash, MaxTrades} \subseteq Nat
    /\ {QuoteSize, Budget, Chunk, InvCap, SellCap} \subseteq Nat \ {0}
    /\ One \in Nat /\ One > 2           \* room for a bid and an ask inside the dollar
    /\ IsFiniteSet(Tokens)
    /\ Books \subseteq [Tokens -> [quote : Nat \X Nat, age : Nat]]

VARIABLES
    mode,       \* --mode: "paper" or "live"
    listed,     \* tokens whose market is active and open
    winner,     \* the token the event will resolve to
    shown,      \* what the event service shows of that: closed, and the winner
    acct,       \* the account in memory
    file        \* the state file

acctVars == <<mode, listed, winner, shown, acct, file>>

-----------------------------------------------------------------------------
Half(n, d) == LET q == n \div d  r == n % d IN     \* rounded to the nearest, ties to even
              IF 2 * r > d \/ (2 * r = d /\ q % 2 = 1) THEN q + 1 ELSE q
Least(a, b) == IF a < b THEN a ELSE b
Most(a, b)  == IF a > b THEN a ELSE b

Empty == [shares |-> 0, cost |-> 0]
Blank == [cash |-> Capital, realized |-> 0, inv |-> [t \in Tokens |-> Empty],
          baskets |-> <<>>, trades |-> 0]
OpenBaskets(a) == {i \in DOMAIN a.baskets : a.baskets[i].open}
OpenCost(a) == SumFunction([t \in Tokens |-> a.inv[t].cost])
               + SumFunction([i \in OpenBaskets(a) |-> a.baskets[i].cost])

AcctInit ==
    /\ mode \in {"paper", "live"}
    /\ listed \in {L \in SUBSET Tokens : Cardinality(L) >= Cardinality(Tokens) - 1}
    /\ winner \in Tokens
    /\ shown = [closed |-> FALSE, winner |-> NoWinner]
    /\ acct = Blank /\ file = Blank

-----------------------------------------------------------------------------
(* scan_active_events_from_gamma: open events of two open markets or more, none of *)
(* whose "Other" is switched off.                                                  *)
Scanned == /\ ~shown.closed
           /\ Cardinality(listed) >= 2 /\ Other \in listed
Ask(b, t) == b[t].quote[2]
Bid(b, t) == b[t].quote[1]

(* _verify_books_freshness *)
Fresh(b) == /\ \A t \in listed : b[t].age <= MaxAge
            /\ \A t, u \in listed : b[t].age - b[u].age <= MaxSkew

SumAsk(b) == SumFunction([t \in listed |-> Ask(b, t)])
SumBid(b) == SumFunction([t \in listed |-> Bid(b, t)])
Long(b) == Fresh(b) /\ (\A t \in listed : Ask(b, t) > 0) /\ SumAsk(b) < One - Hurdle
Short(b) == /\ Fresh(b) /\ (\A t \in listed : Bid(b, t) > 0)
            /\ SumBid(b) > One + Hurdle

(* open_arbitrage_basket: what a budget buys, whatever depth the opportunity was sized for. *)
Stake(a) == Least(Budget, a.cash)
LongBasket(a, b) ==
    LET n == Half(Stake(a), SumAsk(b)) IN
    [open |-> TRUE, shares |-> n, cost |-> n * SumAsk(b), payout |-> n * One]
ShortBasket(a, b) ==
    LET n == Half(Stake(a), One) IN
    [open |-> TRUE, shares |-> n, cost |-> n * One, payout |-> n * SumBid(b)]
MayOpen(a) == OpenBaskets(a) = {} /\ a.cash >= MinArbCash
WithBasket(a, p) ==
    IF p.payout <= p.cost \/ p.cost <= 0 THEN a
    ELSE [a EXCEPT !.cash = @ - p.cost, !.baskets = Append(@, p), !.trades = @ + 1]
Opened(a, b) ==
    IF ~MayOpen(a) THEN a
    ELSE IF Long(b) THEN WithBasket(a, LongBasket(a, b))
    ELSE IF Short(b) THEN WithBasket(a, ShortBasket(a, b))
    ELSE a

-----------------------------------------------------------------------------
(* generate_maker_plan: midpoints normalised over the event, a bid and an ask around each. *)
Mid2(b, t) == IF Bid(b, t) > 0 /\ Ask(b, t) > 0 THEN Bid(b, t) + Ask(b, t)
              ELSE 2 * Most(Most(Bid(b, t), Ask(b, t)), 1)
Fair(b, t) == Half(Mid2(b, t) * One, SumFunction([u \in listed |-> Mid2(b, u)]))
BidPrice(b, t) == Most(1, Least(Fair(b, t) - HalfSpread, One - 2))
AskPrice(b, t) == Least(One - 1, Most(Fair(b, t) + HalfSpread, BidPrice(b, t) + 1))
Safe(b) == /\ SumFunction([t \in listed |-> BidPrice(b, t)]) < One
           /\ SumFunction([t \in listed |-> AskPrice(b, t)]) > One

(* reduce_shares: the average cost of what is sold leaves with it. *)
CostOf(i, n) == Half(n * i.cost, i.shares)
Sold(i, p) == Least(Least(i.shares, SellCap), Half(QuoteSize, p))
AskFill(a, b, t) ==
    LET i == a.inv[t]
        n == Sold(i, AskPrice(b, t))
    IN  IF i.shares < 1 \/ Bid(b, t) < AskPrice(b, t) \/ n < 1 THEN a
        ELSE [a EXCEPT !.cash = @ + n * AskPrice(b, t),
                       !.realized = @ + n * AskPrice(b, t) - CostOf(i, n),
                       !.inv[t] = [shares |-> i.shares - n, cost |-> i.cost - CostOf(i, n)],
                       !.trades = @ + 1]

Purse_NoCap(a, t)  == Least(a.cash, Chunk)
Purse(a, t) == Least(InvCap - a.inv[t].cost, Least(a.cash, Chunk))
BidFill(a, b, t) ==
    LET n == Half(Purse(a, t), BidPrice(b, t)) IN
    IF \/ a.inv[t].cost >= InvCap \/ a.cash < MinMakerCash
       \/ Ask(b, t) = 0 \/ Ask(b, t) > BidPrice(b, t) \/ n < 1
    THEN a
    ELSE [a EXCEPT !.cash = @ - n * BidPrice(b, t),
                   !.inv[t] = [shares |-> @.shares + n, cost |-> @.cost + n * BidPrice(b, t)],
                   !.trades = @ + 1]

(* process_maker_quotes, over the first n quotes of the plan. *)
PlanOrder == SetToSeq(listed)
Quoted(a, b, n) ==
    LET after[k \in 0..n] ==
          IF k = 0 THEN a
          ELSE LET t == PlanOrder[k] IN BidFill(AskFill(after[k - 1], b, t), b, t)
    IN  IF ~Safe(b) \/ a.cash < MinMakerCash THEN a ELSE after[n]

(* scan_and_evaluate_pipelined: a basket is saved as it opens; the fills are saved together *)
(* after the last quote, so an error on the way leaves the file behind the account.  A live *)
(* desk hands its scan no account.                                                          *)
ScanEvent ==
    /\ mode = "paper"
    /\ Scanned /\ acct.trades < MaxTrades
    /\ \E b \in Books, n \in 0..Cardinality(listed), saved \in BOOLEAN :
          LET opened == Opened(acct, b)
              quoted == Quoted(opened, b, n)
          IN  /\ saved => n = Cardinality(listed) /\ quoted # opened
              /\ acct' = quoted
              /\ file' = IF saved THEN quoted ELSE IF opened # acct THEN opened ELSE file
    /\ UNCHANGED <<mode, listed, winner, shown>>

-----------------------------------------------------------------------------
(* check_and_settle_events *)
Over == shown.closed \/ shown.winner # NoWinner
PayBasket_StillOpen(p) == p
PayBasket(p) == [p EXCEPT !.open = FALSE]
BasketsPaid(a) ==
    [a EXCEPT !.cash = @ + SumFunction([i \in OpenBaskets(a) |-> a.baskets[i].payout]),
              !.realized = @ + SumFunction([i \in OpenBaskets(a) |->
                                               a.baskets[i].payout - a.baskets[i].cost]),
              !.baskets = [i \in DOMAIN @ |-> IF @[i].open THEN PayBasket(@[i]) ELSE @[i]]]
Worth(a, t) == IF t = shown.winner THEN a.inv[t].shares * One ELSE 0
InventoryPaid(a) ==
    [a EXCEPT !.cash = @ + SumFunction([t \in Tokens |-> Worth(a, t)]),
              !.realized = @ + SumFunction([t \in Tokens |-> Worth(a, t) - a.inv[t].cost]),
              !.inv = [t \in Tokens |-> Empty]]
Pending(a) == OpenBaskets(a) # {} \/ \E t \in Tokens : a.inv[t].shares > 0
SettleEvent ==
    /\ Over /\ Pending(acct)
    /\ \/ /\ acct' = InventoryPaid(BasketsPaid(acct))
          /\ file' = acct'
       \/ \* an error between the baskets and the inventory: nothing is saved
          /\ OpenBaskets(acct) # {}
          /\ acct' = BasketsPaid(acct)
          /\ UNCHANGED file
    /\ UNCHANGED <<mode, listed, winner, shown>>

(* The event service. *)
ShowClosed == ~shown.closed /\ shown' = [shown EXCEPT !.closed = TRUE]
              /\ UNCHANGED <<mode, listed, winner, acct, file>>
ShowWinner == shown.winner = NoWinner /\ shown' = [shown EXCEPT !.winner = winner]
              /\ UNCHANGED <<mode, listed, winner, acct, file>>

(* A restart, in either mode (load_state): what is not in the file is forgotten. *)
Reload ==
    /\ mode' \in {"paper", "live"}
    /\ acct' = file
    /\ UNCHANGED <<listed, winner, shown, file>>

AcctNext == ScanEvent \/ SettleEvent \/ ShowClosed \/ ShowWinner \/ Reload
AcctSpec == AcctInit /\ [][AcctNext]_acctVars

-----------------------------------------------------------------------------
AccountShape(a) == /\ \A t \in Tokens : a.inv[t].shares \in Nat /\ a.inv[t].cost \in Nat
                   /\ \A i \in DOMAIN a.baskets : a.baskets[i].shares \in Nat \ {0}
                   /\ a.cash \in Int /\ a.realized \in Int /\ a.trades \in Nat

(* Equity is explained at every moment, in memory and in the file: cash and the cost of    *)
(* what is open make up the initial capital and the realised profit, over baskets, maker   *)
(* round trips at a moving average cost, settlement, errors half way and restarts.         *)
EquityExplained == \A a \in {acct, file} : a.cash + OpenCost(a) = Capital + a.realized

(* The desk never spends cash it does not have: below zero lies at most the rounding of    *)
(* the one order that spent the last of it.                                                *)
CashCovered == 2 * acct.cash + One >= 0

(* "Position Capping": no token's inventory costs more than its cap and the rounding of    *)
(* one order, however many cycles buy and sell it.                                         *)
InventoryCapped == \A t \in Tokens : 2 * acct.inv[t].cost <= 2 * InvCap + One

(* At most one basket of an event is open, whatever restarts and errors did, and each one  *)
(* was opened at a price that leaves its hurdle.                                           *)
BasketsSound ==
    \A a \in {acct, file} :
        /\ Cardinality(OpenBaskets(a)) <= 1
        /\ \A i \in DOMAIN a.baskets :
              a.baskets[i].payout - a.baskets[i].cost > Hurdle * a.baskets[i].shares

(* The desk's records keep their shapes: no inventory is sold that is not there. *)
DeskShape == /\ AccountShape(acct) /\ AccountShape(file)
             /\ listed \subseteq Tokens /\ winner \in Tokens

(* The account's records are sound, over every order of trades, settlements, errors and     *)
(* restarts in either mode: what is sold was there, no order spends past the cash or a      *)
(* token's cap, and the baskets that were opened were worth it, one at a time.              *)
AccountSound == DeskShape /\ CashCovered /\ InventoryCapped /\ BasketsSound
=============================================================================
