--------------------------- MODULE FireWindowProofs ---------------------------
(***************************************************************************)
(* Proofs about FireWindow, and about the port's windows it is built from  *)
(* (LegWindow), for any fires, legs, prices, ladders and bounds.           *)
(*                                                                         *)
(* The invariant grows in layers, each proved to be kept under the ones    *)
(* before it: IInv (types, costs, depth), Shape (what a fire and an order  *)
(* in flight look like), Marks (what says a fire was raised), Spend,       *)
(* Wallet, Held (who leaves a debit without a position) and Ledger.        *)
(***************************************************************************)
EXTENDS FireWindow, FiniteSums, TLAPS

-----------------------------------------------------------------------------
(* What the port's windows promise for every configuration, leg and quote: they agree with  *)
(* the strategies that sized the leg, they never fall back where they must not, and where   *)
(* they shut a whole kind of leg out.                                                       *)

(* The shipped legs of the target bucket carry the bounds their strategy works with. *)
CarriesStrategyBand(leg, c) ==
    /\ leg.channel = TargetBucket
    /\ leg.floor = StrategyLo(c) /\ leg.cap = StrategyHi(c)

(* Whatever the two sections say, as long as they say something usable and nothing flat     *)
(* overrides them, a target-bucket look that the ladder planned is inside the port's        *)
(* window: the port never turns into an empty fire what the strategy fired (target_yes_band *)
(* reads what the strategy reads).                                                          *)
THEOREM TargetLookIsTaken ==
    ASSUME NEW c \in Settings, NEW leg \in Leg, NEW ask \in Raw,
           c.flat = [lo |-> Absent, hi |-> Absent],
           CarriesStrategyBand(leg, c),
           Usable(StrategyLo(c)), Usable(StrategyHi(c)), StrategyLo(c) < StrategyHi(c),
           PlannedLook(leg, ask)
    PROVE  fill_mode(leg, c, ask)
<1>1. StrategyLo(c) # Absent /\ StrategyHi(c) # Absent
  BY WindowAssumption DEF Usable
<1>2. leg_take_window(leg, c) = target_yes_band(c)
  BY DEF leg_take_window, NoWindow, CarriesStrategyBand
<1>3. target_yes_band(c) = Band(StrategyLo(c), StrategyHi(c))
  BY <1>1 DEF target_yes_band, ConsensusRaw, StrategyLo, StrategyHi, Or
<1>4. Usable(leg.cap) /\ Usable(ask) /\ ask # Absent
  BY WindowAssumption DEF CarriesStrategyBand, PlannedLook, Usable
<1>5. StrategyLo(c) < ask /\ ask <= StrategyHi(c)
  BY WindowAssumption DEF CarriesStrategyBand, PlannedLook, Usable
<1>6. leg_take_window(leg, c)
        = [ok |-> TRUE, lo |-> StrategyLo(c), hi |-> StrategyHi(c), closed |-> FALSE]
  BY <1>2, <1>3 DEF Band
<1> QED
  BY <1>4, <1>5, <1>6 DEF fill_mode, CapUsable, Quoted, in_yes_band

(* A next-bucket look that the ladder planned is taken under every configuration, even one  *)
(* whose own bands are corrupt: the leg's window is the only one that counts.               *)
THEOREM NextLookIsTaken ==
    ASSUME NEW c \in Settings, NEW leg \in Leg, NEW ask \in Raw,
           leg.channel = NextBucket,
           leg.floor \in 0..One, leg.cap \in 1..One, leg.floor < leg.cap,
           PlannedLook(leg, ask)
    PROVE  fill_mode(leg, c, ask)
<1>1. leg.floor # Absent /\ leg.cap # Absent /\ leg.cap # 0
  BY WindowAssumption
<1>2. leg_take_window(leg, c) = OwnWindow(leg)
  BY <1>1, WindowAssumption DEF leg_take_window, NoWindow
<1>3. OwnWindow(leg) = [ok |-> TRUE, lo |-> leg.floor, hi |-> leg.cap, closed |-> TRUE]
  <2>1. Bound(leg.floor) = leg.floor /\ Bound(leg.cap) = leg.cap
    BY <1>1 DEF Bound
  <2>2. Readable(leg.floor) /\ Readable(leg.cap)
    BY WindowAssumption DEF Readable
  <2> QED
    BY <1>1, <2>1, <2>2 DEF OwnWindow
<1>4. Usable(leg.cap) /\ Usable(ask) /\ ask # Absent
  BY WindowAssumption DEF PlannedLook, Usable
<1>5. leg.floor <= ask /\ ask <= leg.cap
  BY WindowAssumption DEF PlannedLook, Usable
<1> QED
  BY <1>2, <1>3, <1>4, <1>5 DEF fill_mode, CapUsable, Quoted, AtFloor

(* A next-bucket leg that says anything at all of its window never gets the configured band *)
(* instead: with a bound it cannot read, over a dollar, missing its cap or the wrong way    *)
(* round, nothing is sent whatever the quote.                                               *)
THEOREM NoFallback ==
    ASSUME NEW c \in Settings, NEW leg \in Leg, NEW ask \in Raw,
           leg.channel = NextBucket,
           leg.floor # Absent \/ leg.cap # Absent,
           ~ (leg.floor \in (0..One) \cup {Absent} /\ leg.cap \in 1..One)
             \/ (leg.floor \in Nat /\ leg.cap \in Nat /\ leg.cap <= leg.floor)
    PROVE  ~ fill_mode(leg, c, ask)
<1>1. leg_take_window(leg, c) = OwnWindow(leg)
  BY WindowAssumption DEF leg_take_window, NoWindow
<1>2. SUFFICES ASSUME OwnWindow(leg).ok, Usable(leg.cap) PROVE FALSE
  BY <1>1 DEF fill_mode, CapUsable, Quoted
<1>3. Readable(leg.floor) /\ Readable(leg.cap) /\ Bound(leg.floor) < Bound(leg.cap)
  BY <1>2 DEF OwnWindow
<1>4. leg.cap \in 1..One /\ leg.floor \in (0..One) \cup {Absent}
  BY <1>2, <1>3 DEF Usable, Readable
<1>5. leg.floor \in Nat /\ leg.cap \in Nat /\ leg.cap <= leg.floor
  BY <1>4
<1>6. Bound(leg.floor) = leg.floor /\ Bound(leg.cap) = leg.cap
  BY <1>4, <1>5, WindowAssumption DEF Bound
<1> QED
  BY <1>3, <1>5, <1>6

(* A YES leg without a channel whose cap is not over the lower end of the band is never     *)
(* bought live: every look the ladder plans for it, the port refuses.  The shipped sleeve   *)
(* is such a leg (cap 0.35, band from 0.45), so live it is always an empty position.        *)
THEOREM CheapLegShutOut ==
    ASSUME NEW c \in Settings, NEW leg \in Leg, NEW ask \in Raw,
           leg.channel = NoChannel, leg.yes,
           leg.cap \in Nat, Usable(yes_price_band(c).lo), leg.cap <= yes_price_band(c).lo,
           PlannedLook(leg, ask)
    PROVE  ~ fill_mode(leg, c, ask)
<1>1. leg_take_window(leg, c) = yes_price_band(c)
  BY WindowAssumption DEF leg_take_window, NoWindow
<1>2. ~ yes_price_band(c).closed
  BY DEF yes_price_band, Band
<1>3. ask \in Nat /\ ask <= yes_price_band(c).lo
  BY WindowAssumption DEF PlannedLook, Usable
<1>4. ~ in_yes_band(ask, yes_price_band(c))
  BY <1>3, WindowAssumption DEF in_yes_band, Usable
<1> QED
  BY <1>1, <1>2, <1>4 DEF fill_mode, CapUsable, Quoted, AtFloor

-----------------------------------------------------------------------------
LEMMA BestIsAsk ==
    ASSUME NEW t, Asks(t) # {}
    PROVE  Best(t) \in Asks(t) /\ Best(t) \in Prices
<1>1. Asks(t) \subseteq Nat /\ Asks(t) \subseteq Prices
  BY DEF Asks, Prices
<1>2. \E p \in Asks(t) : \A q \in Asks(t) : p <= q
  BY <1>1, Lowest
<1> QED
  BY <1>1, <1>2 DEF Best

(* One fill keeps the type of the fire, one field at a time. *)
LEMMA LessType ==
    ASSUME NEW g \in FireType, NEW l \in Legs, NEW n \in Nat
    PROVE  [g EXCEPT !.remaining[l] = IF n < @ THEN @ - n ELSE 0] \in FireType
<1>1. (IF n < g.remaining[l] THEN g.remaining[l] - n ELSE 0) \in Nat
  BY DEF FireType
<1>2. \A m \in Nat : [g EXCEPT !.remaining[l] = m] \in FireType
  BY DEF FireType
<1> QED
  BY <1>1, <1>2

LEMMA MoreType ==
    ASSUME NEW g \in FireType, NEW l \in Legs, NEW n \in Nat
    PROVE  /\ [g EXCEPT !.filled[l] = @ + n] \in FireType
           /\ [g EXCEPT !.cost[l] = @ + n] \in FireType
<1>1. [g EXCEPT !.filled[l] = @ + n] \in FireType
  BY DEF FireType
<1>2. [g EXCEPT !.cost[l] = @ + n] \in FireType
  BY DEF FireType
<1> QED
  BY <1>1, <1>2

LEMMA TotalType ==
    ASSUME NEW g \in FireType, NEW c \in Nat
    PROVE  [g EXCEPT !.total = @ + c] \in FireType
  BY DEF FireType

LEMMA FilledType ==
    ASSUME fire \in FireType, NEW l \in Legs, NEW n \in Nat, NEW c \in Nat
    PROVE  Filled(l, n, c) \in FireType
<1> DEFINE f == [fire EXCEPT !.filled[l] = @ + n]
           g == [f EXCEPT !.cost[l] = @ + c]
           h == [g EXCEPT !.total = @ + c]
<1>1. f \in FireType
  BY MoreType
<1>2. g \in FireType
  <2> HIDE DEF f
  <2> QED
    BY <1>1, MoreType DEF g
<1>3. h \in FireType
  <2> HIDE DEF g
  <2> QED
    BY <1>2, TotalType DEF h
<1>4. Filled(l, n, c) = [h EXCEPT !.remaining[l] = IF n < @ THEN @ - n ELSE 0]
  BY DEF Filled
<1>5. [h EXCEPT !.remaining[l] = IF n < @ THEN @ - n ELSE 0] \in FireType
  <2> HIDE DEF h
  <2> QED
    BY <1>3, LessType
<1> QED
  BY <1>4, <1>5

LEMMA MoreOf ==
    ASSUME NEW S, NEW g \in [S -> Nat], NEW s, NEW n \in Nat
    PROVE  [g EXCEPT ![s] = @ + n] \in [S -> Nat]
<1> SUFFICES ASSUME NEW x \in S PROVE [g EXCEPT ![s] = @ + n][x] \in Nat
  OBVIOUS
<1> QED
  OBVIOUS

(* What the constants give. *)
LEMMA Parameters ==
    /\ NoFire \notin Fires /\ NoLeg \notin Legs /\ Capital \in Nat
    /\ \A f \in Fires : Key[f] \in Sessions
    /\ \A l \in Legs : Token[l] \in Tokens /\ Cap[l] \in Nat /\ Target[l] \in Nat /\ FireOf[l] \in Fires
    /\ Ladders \subseteq [Prices -> Nat] /\ NoAsks \in [Prices -> Nat]
    /\ Prices \subseteq Nat
  BY ConstantsAssumption DEF Prices, NoAsks

-----------------------------------------------------------------------------
(* The ledger keeps its type, and its costs change only when a position is recorded or lost. *)
LEMMA StampedType ==
    ASSUME state \in LedgerType, NEW f \in Fires
    PROVE  /\ Stamped(f) \in LedgerType
           /\ Stamped(f).cost = state.cost /\ Stamped(f).stranded = state.stranded
<1>1. \A n \in Nat : /\ [state EXCEPT !.fires[Key[f]] = n] \in LedgerType
                    /\ [state EXCEPT !.fires[Key[f]] = n].cost = state.cost
                    /\ [state EXCEPT !.fires[Key[f]] = n].stranded = state.stranded
  BY Parameters DEF LedgerType
<1>2. state.fires[Key[f]] + 1 \in Nat
  BY Parameters DEF LedgerType
<1> QED
  BY <1>1, <1>2 DEF Stamped

LEMMA StoodDownType ==
    ASSUME NEW st \in LedgerType, NEW f \in Fires
    PROVE  /\ StoodDown(st, f) \in LedgerType
           /\ StoodDown(st, f).cost = st.cost /\ StoodDown(st, f).stranded = st.stranded
<1>1. /\ [st EXCEPT !.sleeves = @ \cup {Key[f]}] \in LedgerType
      /\ [st EXCEPT !.sleeves = @ \cup {Key[f]}].cost = st.cost
      /\ [st EXCEPT !.sleeves = @ \cup {Key[f]}].stranded = st.stranded
  BY Parameters DEF LedgerType
<1>2. /\ [st EXCEPT !.fires[Key[f]] = 1] \in LedgerType
      /\ [st EXCEPT !.fires[Key[f]] = 1].cost = st.cost
      /\ [st EXCEPT !.fires[Key[f]] = 1].stranded = st.stranded
  BY Parameters DEF LedgerType
<1> QED
  BY <1>1, <1>2 DEF StoodDown

LEMMA RecordedType ==
    ASSUME NEW st \in LedgerType, fire \in FireType, NEW f \in Fires
    PROVE  /\ Recorded(st, f) \in LedgerType
           /\ Recorded(st, f).stranded = st.stranded
           /\ \A l \in Legs : Recorded(st, f).cost[l] \in {st.cost[l], fire.cost[l]}
<1>1. NewLegs(f) \subseteq Legs
  BY DEF NewLegs, LegsOf
<1> DEFINE shares == [l \in Legs |-> IF l \in NewLegs(f) THEN fire.filled[l] ELSE st.shares[l]]
           cost   == [l \in Legs |-> IF l \in NewLegs(f) THEN fire.cost[l] ELSE st.cost[l]]
           slept  == IF Kind[f] = "sleeve" THEN st.sleeves \cup {Key[f]} ELSE st.sleeves
<1>2. shares \in [Legs -> Nat] /\ cost \in [Legs -> Nat]
  BY DEF LedgerType, FireType
<1>3. slept \subseteq Sessions
  BY Parameters DEF LedgerType
<1>4. Recorded(st, f) = [st EXCEPT !.recorded = @ \cup NewLegs(f),
                                   !.shares = shares, !.cost = cost, !.sleeves = slept]
  BY DEF Recorded
<1>5. \A l \in Legs : cost[l] \in {st.cost[l], fire.cost[l]}
  OBVIOUS
<1> HIDE DEF shares, cost, slept
<1> DEFINE after == [st EXCEPT !.recorded = @ \cup NewLegs(f),
                              !.shares = shares, !.cost = cost, !.sleeves = slept]
<1>6. after \in LedgerType /\ after.cost = cost /\ after.stranded = st.stranded
  BY <1>1, <1>2, <1>3 DEF LedgerType
<1> QED
  BY <1>4, <1>5, <1>6

(* Reserving debits the capital and nothing else, and marks the fire. *)
LEMMA FundFields ==
    ASSUME TypeOK, Fund
    PROVE  /\ state' \in LedgerType /\ state'.capital = state.capital - fire.total
           /\ state'.recorded = state.recorded /\ state'.shares = state.shares
           /\ state'.cost = state.cost /\ state'.stranded = state.stranded
           /\ state'.fires = state.fires /\ state'.sleeves = state.sleeves
           /\ fire' \in FireType /\ fire'.funded /\ fire'.id = fire.id
           /\ fire'.total = fire.total /\ fire'.remaining = fire.remaining
           /\ fire'.limit = fire.limit /\ fire'.filled = fire.filled /\ fire'.cost = fire.cost
           /\ fire.id # NoFire /\ ~ fire.funded /\ order = NoOrder /\ Planned = {}
           /\ fire.total <= state.capital
           /\ UNCHANGED <<cfg, disk, opened, stage, seen, book, order, wallet, resting, ghosts>>
<1>1. state \in LedgerType /\ fire \in FireType
  BY DEF TypeOK
<1>2. /\ state' = [state EXCEPT !.capital = @ - fire.total]
      /\ fire' = [fire EXCEPT !.funded = TRUE]
  BY DEF Fund
<1>3. state.capital - fire.total \in Int
  BY <1>1 DEF LedgerType, FireType
<1>4. /\ state' \in LedgerType /\ state'.capital = state.capital - fire.total
      /\ state'.recorded = state.recorded /\ state'.shares = state.shares
      /\ state'.cost = state.cost /\ state'.stranded = state.stranded
      /\ state'.fires = state.fires /\ state'.sleeves = state.sleeves
  BY <1>1, <1>2, <1>3 DEF LedgerType
<1>5. /\ fire' \in FireType /\ fire'.funded /\ fire'.id = fire.id
      /\ fire'.total = fire.total /\ fire'.remaining = fire.remaining
      /\ fire'.limit = fire.limit /\ fire'.filled = fire.filled /\ fire'.cost = fire.cost
  BY <1>1, <1>2 DEF FireType
<1> QED
  BY <1>4, <1>5 DEF Fund, Between, Reserved

(* A sale that raises moves the fire's costs to those no position shows. *)
LEMMA StrandedFields ==
    ASSUME TypeOK, SaleRaises
    PROVE  /\ state' \in LedgerType /\ state'.capital = state.capital
           /\ state'.recorded = state.recorded /\ state'.shares = state.shares
           /\ state'.cost = state.cost
           /\ \A l \in Legs : state'.stranded[l] = state.stranded[l] + fire.cost[l]
           /\ state'.fires = state.fires /\ state'.sleeves = state.sleeves
           /\ order = NoOrder /\ fire' = Idle /\ faults' = faults + 1
           /\ cfg.mode = "live" /\ Kind[fire.id] = "refire" /\ fire.funded
           /\ lost' = Forgotten /\ stage' = "idle" /\ seen' = {}
           /\ UNCHANGED <<cfg, disk, opened, book, order, wallet, resting,
                          spent, starts, undone, unheard, displayed, taken>>
<1> DEFINE stuck == [l \in Legs |-> state.stranded[l] + fire.cost[l]]
<1>1. state \in LedgerType /\ fire \in FireType
  BY DEF TypeOK
<1>2. state' = [state EXCEPT !.stranded = stuck]
  BY DEF SaleRaises, Stranded
<1>3. stuck \in [Legs -> Nat]
  BY <1>1 DEF LedgerType, FireType
<1>4. \A l \in Legs : stuck[l] = state.stranded[l] + fire.cost[l]
  OBVIOUS
<1> HIDE DEF stuck
<1>5. /\ state' \in LedgerType /\ state'.capital = state.capital
      /\ state'.recorded = state.recorded /\ state'.shares = state.shares
      /\ state'.cost = state.cost /\ state'.stranded = stuck
      /\ state'.fires = state.fires /\ state'.sleeves = state.sleeves
  BY <1>1, <1>2, <1>3 DEF LedgerType
<1> QED
  BY <1>4, <1>5 DEF SaleRaises, Between, SellsOldYes

-----------------------------------------------------------------------------
(* What the ledger and the fire in flight have debited for a leg, with what the order in    *)
(* flight has paid and not yet reported, has been spent; so has what was saved, which a     *)
(* crash brings back.                                                                       *)
InHand(l) == IF order.leg = l THEN order.paid ELSE 0
Covered ==
    \A l \in Legs : /\ Debited(state, l) + fire.cost[l] + InHand(l) <= spent[l]
                    /\ Debited(disk, l) <= spent[l]

(* An order in flight is one of a leg. *)
Placed == order = NoOrder \/ order.leg \in Legs

IInv == TypeOK /\ Covered /\ Placed /\ DepthConserved

LEMMA InitInv == Init => IInv
<1> SUFFICES ASSUME Init PROVE IInv
  OBVIOUS
<1>1. Zero \in [Legs -> Nat] /\ \A l \in Legs : Zero[l] = 0
  BY DEF Zero
<1>2. /\ state \in LedgerType /\ disk = state /\ state.cost = Zero /\ state.stranded = Zero
  BY <1>1, Parameters DEF Init, LedgerType
<1>3. fire \in FireType /\ fire.cost = Zero
  BY <1>1 DEF Init, Idle, FireType
<1>4. order \in OrderType /\ order.leg \notin Legs
  BY Parameters DEF Init, NoOrder, OrderType
<1>5. /\ book \in [Tokens -> [Prices -> Nat]] /\ displayed = book
      /\ taken \in [Tokens -> [Prices -> Nat]]
      /\ \A t \in Tokens, p \in Prices : book[t][p] = 0 /\ taken[t][p] = 0
  BY Parameters DEF Init, NoAsks
<1>6. TypeOK
  BY <1>1, <1>2, <1>3, <1>4, <1>5 DEF Init, TypeOK
<1>7. Covered
  BY <1>1, <1>2, <1>3, <1>4 DEF Init, Covered, Debited, InHand
<1>8. DepthConserved
  BY <1>5 DEF DepthConserved
<1> QED
  BY <1>6, <1>7, <1>8 DEF IInv, Init, Placed

LEMMA Amounts ==
    ASSUME TypeOK
    PROVE  \A l \in Legs : /\ Debited(state, l) \in Nat /\ Debited(disk, l) \in Nat /\ fire.cost[l] \in Nat
                           /\ InHand(l) \in Nat /\ spent[l] \in Nat
  BY DEF TypeOK, LedgerType, FireType, InHand, OrderType, Debited

(* Asking for books replaces whole ladders, and nothing has been taken of a new one. *)
LEMMA FetchedKeep ==
    ASSUME TypeOK, DepthConserved, NEW ts \in SUBSET Tokens, NEW new \in [ts -> [Prices -> Nat]],
           Fetched(new, ts), cfg' = cfg
    PROVE  /\ book' \in [Tokens -> [Prices -> Nat]] /\ displayed' \in [Tokens -> [Prices -> Nat]]
           /\ taken' \in [Tokens -> [Prices -> Nat]]
           /\ DepthConserved'
<1>1. /\ book' \in [Tokens -> [Prices -> Nat]] /\ displayed' \in [Tokens -> [Prices -> Nat]]
      /\ taken' \in [Tokens -> [Prices -> Nat]]
  BY Parameters DEF Fetched, TypeOK
<1>2. \A t \in Tokens, p \in Prices :
        IF t \in ts THEN book'[t][p] = displayed'[t][p] /\ taken'[t][p] = 0
        ELSE book'[t][p] = book[t][p] /\ displayed'[t][p] = displayed[t][p] /\ taken'[t][p] = taken[t][p]
  BY DEF Fetched, NoAsks
<1>3. DepthConserved'
  BY <1>1, <1>2 DEF DepthConserved
<1> QED
  BY <1>1, <1>3

LEMMA BeginCycleKeep == IInv /\ BeginCycle => IInv'
<1> SUFFICES ASSUME IInv, BeginCycle PROVE IInv'
  OBVIOUS
<1> USE DEF IInv
<1>1. PICK ts \in SUBSET Tokens : \E new \in [ts -> Ladders] : Fetched(new, ts)
  BY DEF BeginCycle
<1>2. PICK new \in [ts -> Ladders] : Fetched(new, ts)
  BY <1>1
<1>3. /\ stage' = "rules"
      /\ UNCHANGED <<cfg, state, disk, opened, seen, fire, order, wallet, resting,
                     spent, starts, undone, unheard, lost, faults>>
  BY DEF BeginCycle
<1>4. new \in [ts -> [Prices -> Nat]]
  BY Parameters
<1>5. /\ book' \in [Tokens -> [Prices -> Nat]] /\ displayed' \in [Tokens -> [Prices -> Nat]]
      /\ taken' \in [Tokens -> [Prices -> Nat]] /\ DepthConserved'
  BY <1>2, <1>3, <1>4, FetchedKeep
<1>6. TypeOK'
  BY <1>3, <1>5 DEF TypeOK
<1>7. Covered' /\ Placed'
  BY <1>3 DEF Covered, Debited, InHand, Placed
<1> QED
  BY <1>5, <1>6, <1>7

LEMMA StartFireKeep == \A f \in Fires : IInv /\ StartFire(f) => IInv'
<1> SUFFICES ASSUME NEW f \in Fires, IInv, StartFire(f) PROVE IInv'
  OBVIOUS
<1> USE DEF IInv
<1> DEFINE missing == {t \in {Token[l] : l \in LegsOf(f)} : displayed[t] = NoAsks}
           asked == [l \in Legs |-> IF FireOf[l] = f THEN Target[l] ELSE 0]
<1>1. /\ state' = Stamped(f) /\ fire' = [Idle EXCEPT !.id = f, !.remaining = asked]
      /\ UNCHANGED <<cfg, disk, stage, order, wallet, resting, spent, undone, unheard, lost, faults>>
  BY DEF StartFire
<1>2. missing \in SUBSET Tokens
  BY Parameters DEF LegsOf
<1>3. PICK new \in [missing -> Ladders \cup {NoAsks}] : Fetched(new, missing)
  BY DEF StartFire
<1>4. new \in [missing -> [Prices -> Nat]]
  BY Parameters
<1> HIDE DEF missing
<1>5. /\ book' \in [Tokens -> [Prices -> Nat]] /\ displayed' \in [Tokens -> [Prices -> Nat]]
      /\ taken' \in [Tokens -> [Prices -> Nat]] /\ DepthConserved'
  BY <1>1, <1>2, <1>3, <1>4, FetchedKeep
<1>6. starts' \in [Fires -> Nat]
  BY DEF StartFire, TypeOK
<1>7. state' \in LedgerType /\ state'.cost = state.cost /\ state'.stranded = state.stranded
  BY <1>1, StampedType DEF TypeOK
<1>8. asked \in [Legs -> Nat] /\ Zero \in [Legs -> Nat] /\ \A l \in Legs : Zero[l] = 0
  BY Parameters DEF Zero
<1>9. fire' \in FireType /\ fire'.cost = Zero
  <2> HIDE DEF asked
  <2> QED
    BY <1>1, <1>8 DEF Idle, FireType
<1>10. opened' \subseteq Sessions /\ seen' \subseteq Sessions
  BY Parameters DEF StartFire, Raised, TypeOK
<1>11. TypeOK'
  BY <1>1, <1>5, <1>6, <1>7, <1>9, <1>10 DEF TypeOK
<1>12. Covered'
  <2> SUFFICES ASSUME NEW l \in Legs
               PROVE  /\ Debited(state', l) + fire'.cost[l] + InHand(l)' <= spent'[l]
                      /\ Debited(disk', l) <= spent'[l]
    BY DEF Covered, Debited
  <2>1. /\ Debited(state, l) + fire.cost[l] + InHand(l) <= spent[l] /\ Debited(disk, l) <= spent[l]
        /\ Debited(state, l) \in Nat /\ fire.cost[l] \in Nat /\ InHand(l) \in Nat /\ spent[l] \in Nat
    BY Amounts DEF Covered, Debited
  <2>2. fire'.cost[l] = 0 /\ InHand(l)' = InHand(l)
    BY <1>1, <1>8, <1>9 DEF InHand
  <2> QED
    BY <1>1, <1>7, <2>1, <2>2 DEF Debited
<1>13. Placed'
  BY <1>1 DEF Placed
<1> QED
  BY <1>5, <1>11, <1>12, <1>13

LEMMA RefuseFireKeep == \A f \in Fires : IInv /\ RefuseFire(f) => IInv'
<1> SUFFICES ASSUME NEW f \in Fires, IInv, RefuseFire(f) PROVE IInv'
  OBVIOUS
<1> USE DEF IInv
<1>1. /\ state' = StoodDown(Stamped(f), f)
      /\ UNCHANGED <<cfg, disk, stage, book, fire, order, wallet, resting, ghosts>>
  BY DEF RefuseFire
<1>2. state' \in LedgerType /\ state'.cost = state.cost /\ state'.stranded = state.stranded
  BY <1>1, StampedType, StoodDownType DEF TypeOK
<1>3. opened' \subseteq Sessions /\ seen' \subseteq Sessions
  BY Parameters DEF RefuseFire, Raised, TypeOK
<1>4. TypeOK'
  BY <1>1, <1>2, <1>3 DEF TypeOK, ghosts
<1>5. Covered' /\ Placed' /\ DepthConserved'
  BY <1>1, <1>2 DEF Covered, Debited, InHand, Placed, DepthConserved, ghosts
<1> QED
  BY <1>4, <1>5

LEMMA PlanRungKeep == IInv /\ PlanRung => IInv'
<1> SUFFICES ASSUME IInv, PlanRung PROVE IInv'
  OBVIOUS
<1> USE DEF IInv
<1> DEFINE limits == [l \in Legs |-> IF fire.remaining[l] > 0 /\ Takeable(l)
                                     THEN LimitAt(l, fire.rung + 1) ELSE 0]
<1>1. /\ fire' = [fire EXCEPT !.rung = @ + 1, !.limit = limits]
      /\ UNCHANGED <<cfg, state, disk, opened, stage, seen, book, order, wallet, resting, ghosts>>
  BY DEF PlanRung
<1>2. ASSUME NEW l \in Legs, Takeable(l) PROVE LimitAt(l, fire.rung + 1) \in Nat
  <2>1. Best(Token[l]) \in Nat
    BY <1>2, BestIsAsk, Parameters DEF Takeable
  <2> QED
    BY <2>1, Parameters DEF LimitAt, Least
<1>3. limits \in [Legs -> Nat]
  BY <1>2
<1> HIDE DEF limits
<1>4. fire' \in FireType /\ fire'.cost = fire.cost
  <2>1. fire \in FireType
    BY DEF TypeOK
  <2>2. fire.rung + 1 \in Nat
    BY <2>1 DEF FireType
  <2>3. \A n \in Nat : /\ [fire EXCEPT !.rung = n, !.limit = limits] \in FireType
                      /\ [fire EXCEPT !.rung = n, !.limit = limits].cost = fire.cost
    BY <1>3, <2>1 DEF FireType
  <2> QED
    BY <1>1, <2>2, <2>3
<1>5. TypeOK'
  BY <1>1, <1>4 DEF TypeOK, ghosts
<1>6. Covered' /\ Placed' /\ DepthConserved'
  BY <1>1, <1>4 DEF Covered, Debited, InHand, Placed, DepthConserved, ghosts
<1> QED
  BY <1>5, <1>6

(* A leg that is done, or not sent: only its limit goes. *)
LEMMA LimitGone ==
    ASSUME IInv, NEW l \in Legs, fire' = [fire EXCEPT !.limit[l] = 0],
           UNCHANGED <<cfg, state, disk, opened, stage, seen, book, order, wallet, resting, ghosts>>
    PROVE  IInv'
<1> USE DEF IInv
<1>1. fire' \in FireType /\ fire'.cost = fire.cost
  BY DEF TypeOK, FireType
<1>2. TypeOK'
  BY <1>1 DEF TypeOK, ghosts
<1>3. Covered' /\ Placed' /\ DepthConserved'
  BY <1>1 DEF Covered, Debited, InHand, Placed, DepthConserved, ghosts
<1> QED
  BY <1>2, <1>3

LEMMA EndCycleKeep == IInv /\ EndCycle => IInv'
<1> SUFFICES ASSUME IInv, EndCycle PROVE IInv'
  OBVIOUS
<1> USE DEF IInv
<1>1. /\ stage' = "idle" /\ seen' = {} /\ disk' = state
      /\ UNCHANGED <<cfg, state, opened, book, fire, order, wallet, resting, ghosts>>
  BY DEF EndCycle
<1>2. TypeOK'
  BY <1>1 DEF TypeOK, ghosts
<1>3. Covered'
  <2> SUFFICES ASSUME NEW l \in Legs
               PROVE  /\ Debited(state, l) + fire.cost[l] + InHand(l) <= spent[l]
                      /\ Debited(state, l) <= spent[l]
    BY <1>1 DEF Covered, Debited, InHand, ghosts
  <2> QED
    BY Amounts DEF Covered, Debited
<1>4. Placed' /\ DepthConserved'
  BY <1>1 DEF Placed, DepthConserved, ghosts
<1> QED
  BY <1>2, <1>3, <1>4

(* A fire that is over, its position recorded, lost or never taken, has nothing in flight,  *)
(* and its costs are debited at most once.                                                  *)
LEMMA OverKeep ==
    ASSUME IInv, state' \in LedgerType, fire' = Idle, order = NoOrder,
           lost' \in [Legs -> Nat], stage' \in {"idle", "rules"}, seen' \subseteq Sessions,
           faults' \in Nat,
           \A l \in Legs : Debited(state', l) <= Debited(state, l) + fire.cost[l],
           UNCHANGED <<cfg, disk, opened, book, order, wallet, resting,
                       spent, starts, undone, unheard, displayed, taken>>
    PROVE  IInv'
<1> USE DEF IInv
<1>1. Idle \in FireType /\ \A l \in Legs : Idle.cost[l] = 0
  BY DEF Idle, FireType, Zero
<1>2. TypeOK'
  BY <1>1 DEF TypeOK
<1>3. Covered'
  <2> SUFFICES ASSUME NEW l \in Legs
               PROVE  /\ Debited(state', l) + fire'.cost[l] + InHand(l)' <= spent[l]
                      /\ Debited(disk, l) <= spent[l]
    BY DEF Covered, Debited
  <2>1. InHand(l)' = 0 /\ fire'.cost[l] = 0
    BY <1>1, Parameters DEF InHand, NoOrder
  <2>2. Debited(state', l) \in Nat
    BY DEF LedgerType, Debited
  <2> QED
    BY <2>1, <2>2, Amounts DEF Covered
<1>4. Placed' /\ DepthConserved'
  BY DEF Placed, DepthConserved
<1> QED
  BY <1>2, <1>3, <1>4

LEMMA ForgottenType == ASSUME TypeOK PROVE Forgotten \in [Legs -> Nat]
  BY DEF Forgotten, InFlight, TypeOK, FireType, OrderType

LEMMA ConcludeKeep == IInv /\ (Conclude \/ StandDown) => IInv'
<1> SUFFICES ASSUME IInv, Conclude \/ StandDown PROVE IInv'
  OBVIOUS
<1>1. /\ state' \in {Recorded(state, fire.id), StoodDown(state, fire.id)}
      /\ fire' = Idle /\ order = NoOrder /\ fire.id # NoFire
      /\ UNCHANGED <<cfg, disk, opened, stage, seen, book, order, wallet, resting,
                     spent, starts, undone, unheard, displayed, taken, faults>>
  BY DEF Conclude, StandDown, Between
<1>2. TypeOK /\ fire.id \in Fires
  BY <1>1 DEF IInv, TypeOK, FireType
<1>3. /\ state' \in LedgerType /\ state'.stranded = state.stranded
      /\ \A l \in Legs : state'.cost[l] \in {state.cost[l], fire.cost[l]}
  BY <1>1, <1>2, RecordedType, StoodDownType DEF TypeOK
<1>4. \A l \in Legs : Debited(state', l) <= Debited(state, l) + fire.cost[l]
  BY <1>2, <1>3 DEF Debited, TypeOK, LedgerType, FireType
<1>5. lost' \in [Legs -> Nat]
  BY <1>2, ForgottenType DEF Conclude, StandDown, TypeOK
<1>6. stage' \in {"idle", "rules"} /\ seen' \subseteq Sessions /\ faults' \in Nat
  BY <1>1, <1>2 DEF TypeOK
<1> QED
  BY <1>1, <1>3, <1>4, <1>5, <1>6, OverKeep

LEMMA SaleRaisesKeep == IInv /\ SaleRaises => IInv'
<1> SUFFICES ASSUME IInv, SaleRaises PROVE IInv'
  OBVIOUS
<1>1. TypeOK
  BY DEF IInv
<1>2. /\ state' \in LedgerType /\ state'.cost = state.cost
      /\ \A l \in Legs : state'.stranded[l] = state.stranded[l] + fire.cost[l]
      /\ order = NoOrder /\ fire' = Idle /\ faults' = faults + 1
      /\ lost' = Forgotten /\ stage' = "idle" /\ seen' = {}
      /\ UNCHANGED <<cfg, disk, opened, book, order, wallet, resting,
                     spent, starts, undone, unheard, displayed, taken>>
  BY <1>1, StrandedFields
<1>3. \A l \in Legs : Debited(state', l) <= Debited(state, l) + fire.cost[l]
  BY <1>1, <1>2 DEF Debited, TypeOK, LedgerType, FireType
<1>4. lost' \in [Legs -> Nat] /\ faults' \in Nat
  BY <1>1, <1>2, ForgottenType DEF TypeOK
<1> QED
  BY <1>2, <1>3, <1>4, OverKeep

LEMMA FundKeep == IInv /\ Fund => IInv'
<1> SUFFICES ASSUME IInv, Fund PROVE IInv'
  OBVIOUS
<1> USE DEF IInv
<1>1. /\ state' \in LedgerType /\ state'.cost = state.cost /\ state'.stranded = state.stranded
      /\ fire' \in FireType /\ fire'.cost = fire.cost
      /\ UNCHANGED <<cfg, disk, opened, stage, seen, book, order, wallet, resting, ghosts>>
  BY FundFields
<1>2. TypeOK'
  BY <1>1 DEF TypeOK, ghosts
<1>3. Covered' /\ Placed' /\ DepthConserved'
  BY <1>1 DEF Covered, Debited, InHand, Placed, DepthConserved, ghosts
<1> QED
  BY <1>2, <1>3

LEMMA FilledCost ==
    ASSUME fire \in FireType, NEW l \in Legs, NEW n \in Nat, NEW c \in Nat
    PROVE  \A k \in Legs : Filled(l, n, c).cost[k] = fire.cost[k] + (IF k = l THEN c ELSE 0)
<1>1. Filled(l, n, c).cost = [fire.cost EXCEPT ![l] = @ + c]
  BY DEF Filled, FireType
<1>2. fire.cost \in [Legs -> Nat]
  BY DEF FireType
<1> QED
  BY <1>1, <1>2

(* Clearing the limit of a leg changes nothing else. *)
LEMMA ClearType ==
    ASSUME NEW g \in FireType, NEW l \in Legs
    PROVE  [g EXCEPT !.limit[l] = 0] \in FireType /\ [g EXCEPT !.limit[l] = 0].cost = g.cost
  BY DEF FireType

-----------------------------------------------------------------------------
(* Paper takes a level out of the cached ladder and counts it as taken. *)
LEMMA PaperLevelKeep == \A l \in Legs : IInv /\ PaperLevel(l) => IInv'
<1> SUFFICES ASSUME NEW l \in Legs, IInv, PaperLevel(l) PROVE IInv'
  OBVIOUS
<1> USE DEF IInv
<1> DEFINE t == Token[l]
           p == Best(t)
           n == Least(fire.remaining[l], book[t][p])
           paid == n * p
<1>1. /\ fire' = Filled(l, n, paid) /\ book' = [book EXCEPT ![t][p] = @ - n]
      /\ taken' = [taken EXCEPT ![t][p] = @ + n]
      /\ spent' = [spent EXCEPT ![l] = @ + paid]
      /\ UNCHANGED <<cfg, state, disk, opened, stage, seen, order, wallet, resting,
                     starts, undone, unheard, lost, displayed, faults>>
  BY DEF PaperLevel, Leftover
<1>2. t \in Tokens /\ p \in Prices /\ p \in Nat
  BY BestIsAsk, Parameters DEF PaperLevel
<1>3. fire.remaining[l] \in Nat /\ book[t][p] \in Nat
  BY <1>2 DEF TypeOK, FireType
<1> HIDE DEF t, p
<1>4. n \in Nat /\ n <= book[t][p]
  BY <1>3 DEF Least
<1> HIDE DEF n
<1>5. paid \in Nat
  BY <1>2, <1>4
<1> HIDE DEF paid
<1>6. fire' \in FireType
  BY <1>1, <1>4, <1>5, FilledType DEF TypeOK
<1>7. book' \in [Tokens -> [Prices -> Nat]]
  BY <1>1, <1>2, <1>3, <1>4 DEF TypeOK
<1>8. taken' \in [Tokens -> [Prices -> Nat]]
  BY <1>1, <1>2, <1>4 DEF TypeOK
<1>9. spent' \in [Legs -> Nat]
  BY <1>1, <1>5 DEF TypeOK
<1>10. TypeOK'
  BY <1>1, <1>6, <1>7, <1>8, <1>9 DEF TypeOK
<1>11. Covered'
  <2> SUFFICES ASSUME NEW k \in Legs
               PROVE  Debited(state, k) + fire'.cost[k] + InHand(k) <= spent'[k] /\ Debited(disk, k) <= spent'[k]
    BY <1>1 DEF Covered, Debited, InHand
  <2>1. fire'.cost[k] = fire.cost[k] + (IF k = l THEN paid ELSE 0)
    <3>1. fire \in FireType
      BY DEF TypeOK
    <3>2. Filled(l, n, paid).cost[k] = fire.cost[k] + (IF k = l THEN paid ELSE 0)
      BY <1>4, <1>5, <3>1, FilledCost
    <3> QED
      BY <1>1, <3>2
  <2>2. spent'[k] = spent[k] + (IF k = l THEN paid ELSE 0)
    BY <1>1, <1>5 DEF TypeOK
  <2> DEFINE c == IF k = l THEN paid ELSE 0
  <2>3. c \in Nat
    BY <1>5
  <2> HIDE DEF c
  <2>4. fire'.cost[k] = fire.cost[k] + c /\ spent'[k] = spent[k] + c
    BY <2>1, <2>2 DEF c
  <2> QED
    BY <2>3, <2>4, Amounts DEF Covered, Debited
<1>12. DepthConserved'
  <2> SUFFICES ASSUME cfg.mode = "paper", NEW u \in Tokens, NEW q \in Prices
               PROVE  book'[u][q] + taken'[u][q] = displayed[u][q]
    BY <1>1 DEF DepthConserved
  <2>1. book[u][q] + taken[u][q] = displayed[u][q]
    BY DEF DepthConserved
  <2>2. book[u][q] \in Nat /\ taken[u][q] \in Nat
    BY DEF TypeOK
  <2>3. CASE u = t /\ q = p
    <3>1. book'[u][q] = book[u][q] - n /\ taken'[u][q] = taken[u][q] + n
      BY <1>1, <1>2, <2>3 DEF TypeOK
    <3> QED
      BY <1>4, <2>1, <2>2, <3>1
  <2>4. CASE ~ (u = t /\ q = p)
    <3>1. book'[u][q] = book[u][q] /\ taken'[u][q] = taken[u][q]
      BY <1>1, <1>2, <2>4 DEF TypeOK
    <3> QED
      BY <2>1, <3>1
  <2> QED
    BY <2>3, <2>4
<1>13. Placed'
  BY <1>1 DEF Placed
<1> QED
  BY <1>10, <1>11, <1>12, <1>13

LEMMA SkipKeep == \A l \in Legs : IInv /\ (PaperDone(l) \/ LiveSkip(l)) => IInv'
<1> SUFFICES ASSUME NEW l \in Legs, IInv, PaperDone(l) \/ LiveSkip(l) PROVE IInv'
  OBVIOUS
<1>1. /\ fire' = [fire EXCEPT !.limit[l] = 0]
      /\ UNCHANGED <<cfg, state, disk, opened, stage, seen, book, order, wallet, resting, ghosts>>
  BY DEF PaperDone, LiveSkip
<1> QED
  BY <1>1, LimitGone

(* What a post spends is in hand until it is reported. *)
LEMMA LivePostKeep == \A l \in Legs : IInv /\ LivePost(l) => IInv'
<1> SUFFICES ASSUME NEW l \in Legs, IInv, LivePost(l) PROVE IInv'
  OBVIOUS
<1> USE DEF IInv
<1> DEFINE amount == MarketAmount(l)
<1>1. PICK p \in 1..fire.limit[l] : \E n \in 0..amount :
          /\ n * p <= amount
          /\ order' = [leg |-> l, shares |-> n, paid |-> n * p, open |-> amount - n * p]
          /\ wallet' = [wallet EXCEPT ![l] = @ + n]
          /\ spent' = [spent EXCEPT ![l] = @ + n * p]
  BY DEF LivePost
<1>2. PICK n \in 0..amount :
          /\ n * p <= amount
          /\ order' = [leg |-> l, shares |-> n, paid |-> n * p, open |-> amount - n * p]
          /\ wallet' = [wallet EXCEPT ![l] = @ + n]
          /\ spent' = [spent EXCEPT ![l] = @ + n * p]
  BY <1>1
<1>3. fire.limit[l] \in Nat /\ fire.remaining[l] \in Nat
  BY DEF TypeOK, FireType
<1>4. amount \in Nat
  BY <1>3 DEF MarketAmount
<1> HIDE DEF amount
<1>5. n \in Nat /\ p \in Nat
  BY <1>3, <1>4
<1>6. n * p \in Nat /\ amount - n * p \in Nat
  BY <1>2, <1>4, <1>5
<1>7. /\ order = NoOrder
      /\ UNCHANGED <<cfg, state, disk, opened, stage, seen, book, fire, resting,
                     starts, undone, unheard, lost, displayed, taken, faults>>
  BY DEF LivePost
<1>8. order' \in OrderType /\ order'.leg = l /\ order'.paid = n * p
  BY <1>2, <1>5, <1>6 DEF OrderType
<1>9. wallet' \in [Legs -> Nat] /\ spent' \in [Legs -> Nat]
  BY <1>2, <1>5, <1>6, MoreOf DEF TypeOK
<1>10. TypeOK'
  BY <1>7, <1>8, <1>9 DEF TypeOK
<1>11. Covered'
  <2> SUFFICES ASSUME NEW k \in Legs
               PROVE  Debited(state, k) + fire.cost[k] + InHand(k)' <= spent'[k] /\ Debited(disk, k) <= spent'[k]
    BY <1>7 DEF Covered, Debited
  <2> DEFINE c == IF k = l THEN n * p ELSE 0
  <2>1. c \in Nat
    BY <1>6
  <2>2. spent'[k] = spent[k] + c
    BY <1>2, <1>6 DEF TypeOK
  <2>3. InHand(k)' = c /\ InHand(k) = 0
    BY <1>7, <1>8, Parameters DEF InHand, NoOrder
  <2> HIDE DEF c
  <2> QED
    BY <2>1, <2>2, <2>3, Amounts DEF Covered, Debited
<1>12. Placed' /\ DepthConserved'
  BY <1>7, <1>8 DEF Placed, DepthConserved
<1> QED
  BY <1>10, <1>11, <1>12

(* A report takes the order out of hand and books no more than it paid. *)
LEMMA AnsweredKeep ==
    ASSUME IInv, order # NoOrder, NEW n \in 0..order.shares, NEW c \in 0..order.paid, Answered(n, c),
           UNCHANGED <<cfg, state, disk, opened, stage, seen, book, wallet,
                       spent, starts, undone, displayed, taken>>,
           resting' \in [Legs -> Nat], unheard' \in [Legs -> Nat], faults' \in Nat
    PROVE  IInv'
<1> USE DEF IInv
<1>1. order.leg \in Legs /\ order.shares \in Nat /\ order.paid \in Nat /\ fire \in FireType
  BY DEF Placed, TypeOK, OrderType
<1>2. n \in Nat /\ c \in Nat /\ n <= order.shares /\ c <= order.paid
  BY <1>1
<1> DEFINE g == Filled(order.leg, n, c)
<1>3. g \in FireType /\ \A k \in Legs : g.cost[k] = fire.cost[k] + (IF k = order.leg THEN c ELSE 0)
  BY <1>1, <1>2, FilledType, FilledCost
<1>4. /\ fire' = [g EXCEPT !.limit[order.leg] = 0] /\ order' = NoOrder
      /\ lost' = [lost EXCEPT ![order.leg] = @ + order.shares - n]
  BY DEF Answered
<1> HIDE DEF g
<1>5. fire' \in FireType /\ fire'.cost = g.cost
  BY <1>1, <1>3, <1>4, ClearType
<1>6. lost' \in [Legs -> Nat]
  <2>1. lost \in [Legs -> Nat] /\ lost[order.leg] + order.shares - n \in Nat
    BY <1>1, <1>2 DEF TypeOK
  <2> QED
    BY <1>4, <2>1
<1>7. order' \in OrderType
  BY <1>4 DEF NoOrder, OrderType
<1>8. TypeOK'
  BY <1>5, <1>6, <1>7 DEF TypeOK
<1>9. Covered'
  <2> SUFFICES ASSUME NEW k \in Legs
               PROVE  Debited(state, k) + fire'.cost[k] + InHand(k)' <= spent[k] /\ Debited(disk, k) <= spent[k]
    BY DEF Covered, Debited
  <2>1. InHand(k)' = 0
    BY <1>4, Parameters DEF InHand, NoOrder
  <2>2. fire'.cost[k] <= fire.cost[k] + InHand(k) /\ fire'.cost[k] \in Nat
    BY <1>1, <1>2, <1>3, <1>5, Amounts DEF InHand
  <2> QED
    BY <2>1, <2>2, Amounts DEF Covered, Debited
<1>10. Placed' /\ DepthConserved'
  BY <1>4 DEF Placed, DepthConserved
<1> QED
  BY <1>8, <1>9, <1>10

LEMMA LeftBehindType ==
    ASSUME TypeOK, Placed, LeftBehind
    PROVE  resting' \in [Legs -> Nat]
<1>1. resting \in [Legs -> Nat] /\ order.open \in Nat
  BY DEF TypeOK, OrderType
<1>2. CASE order = NoOrder
  BY <1>1, <1>2 DEF LeftBehind
<1>3. CASE order # NoOrder
  <2> PICK rest \in {0, order.open} : resting' = [resting EXCEPT ![order.leg] = @ + rest]
    BY <1>3 DEF LeftBehind
  <2> QED
    BY <1>1, MoreOf
<1> QED
  BY <1>2, <1>3

LEMMA ReportKeep == IInv /\ (Reported \/ CostUnknown \/ ReportLost \/ TimeOut) => IInv'
<1> SUFFICES ASSUME IInv, Reported \/ CostUnknown \/ ReportLost \/ TimeOut PROVE IInv'
  OBVIOUS
<1>1. /\ order.shares \in Nat /\ order.paid \in Nat /\ resting \in [Legs -> Nat]
      /\ unheard \in [Legs -> Nat] /\ faults \in Nat
  BY DEF IInv, TypeOK, OrderType
<1>2. CASE Reported
  BY <1>1, <1>2, AnsweredKeep DEF Reported, fill_trades
<1>3. CASE CostUnknown
  BY <1>1, <1>3, AnsweredKeep DEF CostUnknown, CostUnread
<1>4. CASE ReportLost
  <2>1. unheard' \in [Legs -> Nat]
    BY <1>1, <1>4, MoreOf DEF ReportLost
  <2>2. resting' \in [Legs -> Nat]
    BY <1>4, LeftBehindType DEF ReportLost, IInv
  <2> QED
    BY <1>1, <1>4, <2>1, <2>2, AnsweredKeep DEF ReportLost
<1>5. CASE TimeOut
  <2>1. unheard' \in [Legs -> Nat]
    BY <1>1, <1>5, MoreOf DEF TimeOut
  <2>2. resting' \in [Legs -> Nat]
    BY <1>5, LeftBehindType DEF TimeOut, IInv
  <2> QED
    BY <1>1, <1>5, <2>1, <2>2, AnsweredKeep DEF TimeOut
<1> QED
  BY <1>2, <1>3, <1>4, <1>5

(* An order left behind spends more, and nothing is booked of it. *)
LEMMA RestingFillsKeep == \A l \in Legs : IInv /\ RestingFills(l) => IInv'
<1> SUFFICES ASSUME NEW l \in Legs, IInv, RestingFills(l) PROVE IInv'
  OBVIOUS
<1> USE DEF IInv
<1>1. PICK p \in 1..Cap[l] : \E n \in 1..resting[l] :
          /\ n * p <= resting[l]
          /\ resting' = [resting EXCEPT ![l] = @ - n * p]
          /\ wallet' = [wallet EXCEPT ![l] = @ + n]
          /\ spent' = [spent EXCEPT ![l] = @ + n * p]
          /\ lost' = [lost EXCEPT ![l] = @ + n]
  BY DEF RestingFills
<1>2. PICK n \in 1..resting[l] :
          /\ n * p <= resting[l]
          /\ resting' = [resting EXCEPT ![l] = @ - n * p]
          /\ wallet' = [wallet EXCEPT ![l] = @ + n]
          /\ spent' = [spent EXCEPT ![l] = @ + n * p]
          /\ lost' = [lost EXCEPT ![l] = @ + n]
  BY <1>1
<1> DEFINE paid == n * p
<1>3. resting[l] \in Nat /\ Cap[l] \in Nat
  BY Parameters DEF TypeOK
<1>4. n \in Nat /\ p \in Nat
  BY <1>3
<1>5. paid \in Nat /\ resting[l] - paid \in Nat
  BY <1>2, <1>3, <1>4
<1>6. /\ resting' = [resting EXCEPT ![l] = @ - paid]
      /\ spent' = [spent EXCEPT ![l] = @ + paid]
  BY <1>2
<1> HIDE DEF paid
<1>7. /\ UNCHANGED <<cfg, state, disk, opened, stage, seen, book, fire, order,
                     starts, undone, unheard, displayed, taken, faults>>
  BY DEF RestingFills
<1>8. /\ resting' \in [Legs -> Nat] /\ wallet' \in [Legs -> Nat] /\ spent' \in [Legs -> Nat]
      /\ lost' \in [Legs -> Nat]
  BY <1>2, <1>4, <1>5, <1>6, MoreOf DEF TypeOK
<1>9. TypeOK'
  BY <1>7, <1>8 DEF TypeOK
<1>10. Covered'
  <2> SUFFICES ASSUME NEW k \in Legs
               PROVE  Debited(state, k) + fire.cost[k] + InHand(k) <= spent'[k] /\ Debited(disk, k) <= spent'[k]
    BY <1>7 DEF Covered, Debited, InHand
  <2>1. spent'[k] >= spent[k] /\ spent'[k] \in Nat
    BY <1>5, <1>6, <1>8, Amounts DEF TypeOK
  <2> QED
    BY <2>1, Amounts DEF Covered, Debited
<1>11. Placed' /\ DepthConserved'
  BY <1>7 DEF Placed, DepthConserved
<1> QED
  BY <1>9, <1>10, <1>11

(* A fire dropped by an exception or by a crash leaves no cost in flight, and the ledger is *)
(* the one in memory or the one saved.                                                      *)
LEMMA DroppedKeep == IInv /\ (AuditFails \/ Crash) => IInv'
<1> SUFFICES ASSUME IInv, AuditFails \/ Crash PROVE IInv'
  OBVIOUS
<1> USE DEF IInv
<1>1. /\ fire' = Idle /\ order' = NoOrder /\ state' \in {state, disk} /\ faults' = faults + 1
      /\ LeftBehind
      /\ UNCHANGED <<cfg, disk, book, wallet, spent, starts, unheard, displayed, taken>>
  BY DEF AuditFails, Crash
<1>2. Idle \in FireType /\ \A l \in Legs : Idle.cost[l] = 0
  BY DEF Idle, FireType, Zero
<1>3. NoOrder \in OrderType
  BY DEF NoOrder, OrderType
<1>4. Forgotten \in [Legs -> Nat]
  BY ForgottenType
<1>5. lost' \in [Legs -> Nat]
  <2>1. \A l \in Legs : Unsaved(l) \in Nat
    BY DEF Unsaved, TypeOK, LedgerType
  <2> QED
    BY <1>4, <2>1 DEF AuditFails, Crash, TypeOK
<1>6. undone' \in [Fires -> Nat]
  BY DEF AuditFails, Crash, TypeOK
<1>7. opened' \subseteq Sessions /\ seen' \subseteq Sessions /\ stage' \in {"idle", "rules"}
  BY DEF AuditFails, Crash, TypeOK
<1>8. resting' \in [Legs -> Nat]
  BY <1>1, LeftBehindType
<1>9. TypeOK'
  BY <1>1, <1>2, <1>3, <1>5, <1>6, <1>7, <1>8 DEF TypeOK
<1>10. Covered'
  <2> SUFFICES ASSUME NEW k \in Legs
               PROVE  Debited(state', k) + fire'.cost[k] + InHand(k)' <= spent[k] /\ Debited(disk, k) <= spent[k]
    BY <1>1 DEF Covered, Debited
  <2>1. InHand(k)' = 0 /\ fire'.cost[k] = 0
    BY <1>1, <1>2, Parameters DEF InHand, NoOrder
  <2>2. Debited(state', k) \in {Debited(state, k), Debited(disk, k)}
    BY <1>1
  <2> QED
    BY <2>1, <2>2, Amounts DEF Covered, Debited
<1>11. Placed' /\ DepthConserved'
  BY <1>1 DEF Placed, DepthConserved
<1> QED
  BY <1>9, <1>10, <1>11

LEMMA IdleKeep == IInv /\ UNCHANGED vars => IInv'
<1> SUFFICES ASSUME IInv, UNCHANGED vars PROVE IInv'
  OBVIOUS
<1> USE DEF IInv, vars, ghosts
<1>1. TypeOK'
  BY DEF TypeOK
<1>2. Covered' /\ Placed' /\ DepthConserved'
  BY DEF Covered, Debited, InHand, Placed, DepthConserved
<1> QED
  BY <1>1, <1>2

LEMMA Inductive == IInv /\ [Next]_vars => IInv'
  BY BeginCycleKeep, PlanRungKeep, FundKeep, ConcludeKeep, SaleRaisesKeep, EndCycleKeep, StartFireKeep, RefuseFireKeep,
     PaperLevelKeep, SkipKeep, LivePostKeep, ReportKeep, RestingFillsKeep, DroppedKeep, IdleKeep
  DEF Next

LEMMA Invariance == Spec => []IInv
  BY InitInv, Inductive, PTL DEF Spec

-----------------------------------------------------------------------------
(* The variables have their types, whatever is lost on the way. *)
THEOREM TypeCorrect == Spec => []TypeOK
<1>1. IInv => TypeOK
  BY DEF IInv
<1> QED
  BY <1>1, Invariance, PTL

(* What is debited for a leg, on a position, stranded or by the fire in flight, is never    *)
(* more than was spent on it: an unreadable cost is booked as zero and never guessed        *)
(* upwards.                                                                                 *)
THEOREM CostNeverInflated == Spec => []CostNotInflated
<1>1. IInv => CostNotInflated
  <2> SUFFICES ASSUME IInv, NEW l \in Legs PROVE Debited(state, l) + fire.cost[l] <= spent[l]
    BY DEF CostNotInflated
  <2> QED
    BY Amounts DEF IInv, Covered
<1> QED
  BY <1>1, Invariance, PTL

(* Paper never sells the same displayed shares twice, to whichever fires share the ladder.  *)
THEOREM DepthAlwaysConserved == Spec => []DepthConserved
<1>1. IInv => DepthConserved
  BY DEF IInv
<1> QED
  BY <1>1, Invariance, PTL

-----------------------------------------------------------------------------
(* What the steps do, field by field. *)
LEMMA FilledFields ==
    ASSUME fire \in FireType, NEW l \in Legs, NEW n \in Nat, NEW c \in Nat,
           NEW g, g = Filled(l, n, c)
    PROVE  /\ g.id = fire.id /\ g.limit = fire.limit /\ g.total = fire.total + c
           /\ g.funded = fire.funded
           /\ \A k \in Legs :
                 /\ g.filled[k] = fire.filled[k] + (IF k = l THEN n ELSE 0)
                 /\ g.cost[k] = fire.cost[k] + (IF k = l THEN c ELSE 0)
                 /\ g.remaining[k] = IF k = l THEN (IF n < fire.remaining[l] THEN fire.remaining[l] - n ELSE 0)
                                     ELSE fire.remaining[k]
<1>1. /\ g.id = fire.id /\ g.limit = fire.limit /\ g.total = fire.total + c
      /\ g.funded = fire.funded
      /\ g.filled = [fire.filled EXCEPT ![l] = @ + n]
      /\ g.cost = [fire.cost EXCEPT ![l] = @ + c]
      /\ g.remaining = [fire.remaining EXCEPT ![l] = IF n < @ THEN @ - n ELSE 0]
  BY DEF Filled, FireType
<1>2. /\ fire.filled \in [Legs -> Nat] /\ fire.cost \in [Legs -> Nat] /\ fire.remaining \in [Legs -> Nat]
  BY DEF FireType
<1> QED
  BY <1>1, <1>2

LEMMA AnsweredFields ==
    ASSUME TypeOK, Placed, order # NoOrder, NEW n \in Nat, NEW c \in Nat, Answered(n, c)
    PROVE  /\ fire'.id = fire.id /\ fire'.total = fire.total + c /\ order' = NoOrder
           /\ fire'.funded = fire.funded
           /\ \A k \in Legs :
                 /\ fire'.filled[k] = fire.filled[k] + (IF k = order.leg THEN n ELSE 0)
                 /\ fire'.cost[k] = fire.cost[k] + (IF k = order.leg THEN c ELSE 0)
                 /\ fire'.limit[k] = IF k = order.leg THEN 0 ELSE fire.limit[k]
                 /\ fire'.remaining[k] =
                       IF k = order.leg
                       THEN (IF n < fire.remaining[order.leg] THEN fire.remaining[order.leg] - n ELSE 0)
                       ELSE fire.remaining[k]
                 /\ lost'[k] = IF k = order.leg THEN lost[k] + order.shares - n ELSE lost[k]
<1> DEFINE g == Filled(order.leg, n, c)
<1>1. fire \in FireType /\ order.leg \in Legs
  BY DEF TypeOK, Placed
<1>2. /\ g.id = fire.id /\ g.limit = fire.limit /\ g.total = fire.total + c
      /\ g.funded = fire.funded
      /\ \A k \in Legs :
            /\ g.filled[k] = fire.filled[k] + (IF k = order.leg THEN n ELSE 0)
            /\ g.cost[k] = fire.cost[k] + (IF k = order.leg THEN c ELSE 0)
            /\ g.remaining[k] = IF k = order.leg
                                THEN (IF n < fire.remaining[order.leg] THEN fire.remaining[order.leg] - n ELSE 0)
                                ELSE fire.remaining[k]
  <2> DEFINE h == g
  <2>1. h = Filled(order.leg, n, c)
    OBVIOUS
  <2> HIDE DEF h
  <2>2. \A m \in Legs : h = Filled(m, n, c) =>
        /\ h.id = fire.id /\ h.limit = fire.limit /\ h.total = fire.total + c
        /\ h.funded = fire.funded
        /\ \A k \in Legs :
              /\ h.filled[k] = fire.filled[k] + (IF k = m THEN n ELSE 0)
              /\ h.cost[k] = fire.cost[k] + (IF k = m THEN c ELSE 0)
              /\ h.remaining[k] = IF k = m
                                  THEN (IF n < fire.remaining[m] THEN fire.remaining[m] - n ELSE 0)
                                  ELSE fire.remaining[k]
    BY <1>1, FilledFields
  <2> QED
    BY <1>1, <2>1, <2>2 DEF h
<1>3. g \in FireType
  BY <1>1, FilledType
<1>4. /\ fire' = [g EXCEPT !.limit[order.leg] = 0] /\ order' = NoOrder
      /\ lost' = [lost EXCEPT ![order.leg] = @ + order.shares - n]
  BY DEF Answered
<1> HIDE DEF g
<1>5. /\ fire'.id = g.id /\ fire'.total = g.total /\ fire'.filled = g.filled /\ fire'.cost = g.cost
      /\ fire'.funded = g.funded
      /\ fire'.remaining = g.remaining /\ fire'.limit = [g.limit EXCEPT ![order.leg] = 0]
  BY <1>3, <1>4 DEF FireType
<1>6. \A k \in Legs : fire'.limit[k] = IF k = order.leg THEN 0 ELSE fire.limit[k]
  BY <1>1, <1>2, <1>5 DEF FireType
<1>7. \A k \in Legs : lost'[k] = IF k = order.leg THEN lost[k] + order.shares - n ELSE lost[k]
  BY <1>1, <1>4 DEF TypeOK
<1> QED
  BY <1>2, <1>4, <1>5, <1>6, <1>7

LEMMA IdleFields ==
    /\ Idle.id = NoFire /\ Idle.total = 0 /\ ~ Idle.funded /\ NoOrder.leg \notin Legs
    /\ \A k \in Legs : /\ Idle.filled[k] = 0 /\ Idle.cost[k] = 0
                       /\ Idle.limit[k] = 0 /\ Idle.remaining[k] = 0
  BY Parameters DEF Idle, NoOrder, Zero

LEMMA StartFields ==
    ASSUME NEW f \in Fires, StartFire(f)
    PROVE  /\ fire = Idle /\ fire'.id = f /\ fire'.total = 0 /\ ~ fire'.funded
           /\ \A k \in Legs : /\ fire'.filled[k] = 0 /\ fire'.cost[k] = 0 /\ fire'.limit[k] = 0
                              /\ fire'.remaining[k] = IF FireOf[k] = f THEN Target[k] ELSE 0
<1>1. /\ fire = Idle
      /\ fire' = [Idle EXCEPT !.id = f,
                     !.remaining = [l \in Legs |-> IF FireOf[l] = f THEN Target[l] ELSE 0]]
  BY DEF StartFire, Raised
<1> QED
  BY <1>1 DEF Idle, Zero

LEMMA PlanFields ==
    ASSUME TypeOK, PlanRung
    PROVE  /\ fire'.id = fire.id /\ fire'.total = fire.total /\ fire'.filled = fire.filled
           /\ fire'.cost = fire.cost /\ fire'.remaining = fire.remaining
           /\ fire'.funded = fire.funded
           /\ fire'.limit = [l \in Legs |-> IF fire.remaining[l] > 0 /\ Takeable(l)
                                            THEN LimitAt(l, fire.rung + 1) ELSE 0]
<1> DEFINE limits == [l \in Legs |-> IF fire.remaining[l] > 0 /\ Takeable(l)
                                     THEN LimitAt(l, fire.rung + 1) ELSE 0]
<1>1. fire' = [fire EXCEPT !.rung = @ + 1, !.limit = limits] /\ fire \in FireType
  BY DEF PlanRung, TypeOK
<1> HIDE DEF limits
<1>2. /\ fire'.id = fire.id /\ fire'.total = fire.total /\ fire'.filled = fire.filled
      /\ fire'.cost = fire.cost /\ fire'.remaining = fire.remaining /\ fire'.limit = limits
      /\ fire'.funded = fire.funded
  BY <1>1 DEF FireType
<1> QED
  BY <1>2 DEF limits

LEMMA SkipFields ==
    ASSUME TypeOK, NEW l \in Legs, PaperDone(l) \/ LiveSkip(l)
    PROVE  /\ fire'.id = fire.id /\ fire'.total = fire.total /\ fire'.filled = fire.filled
           /\ fire'.cost = fire.cost /\ fire'.remaining = fire.remaining
           /\ fire'.funded = fire.funded
           /\ \A k \in Legs : fire'.limit[k] = IF k = l THEN 0 ELSE fire.limit[k]
           /\ order' = order /\ cfg' = cfg
           /\ cfg.mode = "paper" \/ order = NoOrder
<1>1. fire' = [fire EXCEPT !.limit[l] = 0] /\ fire \in FireType
  BY DEF PaperDone, LiveSkip, TypeOK
<1> QED
  BY <1>1 DEF FireType, PaperDone, LiveSkip

-----------------------------------------------------------------------------
(* The shape of a fire: only its own legs are bought, and an order in flight is a live one  *)
(* on a leg whose limit stands.                                                             *)
Own ==
    \A l \in Legs :
        (fire.remaining[l] > 0 \/ fire.limit[l] > 0 \/ fire.filled[l] > 0 \/ fire.cost[l] > 0)
            => FireOf[l] = fire.id
Posted == order # NoOrder => cfg.mode = "live" /\ fire.limit[order.leg] > 0

Shape == Own /\ Posted

LEMMA ShapeSame == ASSUME Shape, UNCHANGED <<cfg, fire, order>> PROVE Shape'
  BY DEF Shape, Own, Posted

LEMMA ShapeFunded == ASSUME IInv, Shape, Fund PROVE Shape'
  BY FundFields DEF Shape, Own, Posted, IInv

LEMMA ShapeDropped ==
    ASSUME fire' = Idle, order' = NoOrder PROVE Shape'
  BY IdleFields DEF Shape, Own, Posted

LEMMA ShapeIdle == ASSUME Shape, IInv, fire = Idle PROVE order = NoOrder
  BY IdleFields DEF Shape, Posted, IInv, Placed

LEMMA ShapeStart == ASSUME IInv, Shape, NEW f \in Fires, StartFire(f) PROVE Shape'
<1>1. order = NoOrder /\ order' = order
  BY ShapeIdle, StartFields DEF StartFire
<1> QED
  BY <1>1, StartFields DEF Shape, Own, Posted

LEMMA ShapePlan == ASSUME IInv, Shape, PlanRung PROVE Shape'
<1>1. order = NoOrder /\ order' = order
  BY DEF PlanRung, Between
<1> QED
  BY <1>1, PlanFields DEF Shape, Own, Posted, IInv

LEMMA ShapeSkip == ASSUME IInv, Shape, NEW l \in Legs, PaperDone(l) \/ LiveSkip(l) PROVE Shape'
  BY SkipFields DEF Shape, Own, Posted, IInv, Placed

(* A paper fill takes n shares at p, no more than wanted and no dearer than the limit. *)
LEMMA PaperEats ==
    ASSUME IInv, NEW l \in Legs, PaperLevel(l)
    PROVE  /\ cfg.mode = "paper" /\ fire.limit[l] > 0
           /\ UNCHANGED <<cfg, state, disk, opened, stage, seen, order, wallet, resting,
                          starts, undone, unheard, lost, displayed, faults>>
           /\ \E n, p \in Nat : /\ n <= fire.remaining[l] /\ p <= fire.limit[l]
                                /\ fire' = Filled(l, n, n * p)
                                /\ spent' = [spent EXCEPT ![l] = @ + n * p]
<1> DEFINE t == Token[l]
           p == Best(t)
           n == Least(fire.remaining[l], book[t][p])
<1>1. /\ fire' = Filled(l, n, n * p) /\ spent' = [spent EXCEPT ![l] = @ + n * p]
      /\ cfg.mode = "paper" /\ fire.limit[l] > 0 /\ p <= fire.limit[l]
      /\ UNCHANGED <<cfg, state, disk, opened, stage, seen, order, wallet, resting,
                     starts, undone, unheard, lost, displayed, faults>>
  BY DEF PaperLevel, Planned
<1>2. t \in Tokens /\ p \in Prices /\ p \in Nat
  BY BestIsAsk, Parameters DEF PaperLevel
<1> HIDE DEF t, p
<1>3. fire.remaining[l] \in Nat /\ book[t][p] \in Nat
  BY <1>2 DEF IInv, TypeOK, FireType
<1>4. n \in Nat /\ n <= fire.remaining[l]
  BY <1>3 DEF Least
<1> QED
  BY <1>1, <1>2, <1>4

LEMMA PaperFields ==
    ASSUME IInv, NEW l \in Legs, NEW n \in Nat, NEW c \in Nat, fire' = Filled(l, n, c)
    PROVE  /\ fire'.id = fire.id /\ fire'.limit = fire.limit /\ fire'.total = fire.total + c
           /\ fire'.funded = fire.funded
           /\ \A k \in Legs :
                 /\ fire'.filled[k] = fire.filled[k] + (IF k = l THEN n ELSE 0)
                 /\ fire'.cost[k] = fire.cost[k] + (IF k = l THEN c ELSE 0)
                 /\ fire'.remaining[k] = IF k = l THEN (IF n < fire.remaining[l] THEN fire.remaining[l] - n ELSE 0)
                                         ELSE fire.remaining[k]
<1>1. fire \in FireType
  BY DEF IInv, TypeOK
<1>2. \A g : g = Filled(l, n, c) =>
           /\ g.id = fire.id /\ g.limit = fire.limit /\ g.total = fire.total + c
           /\ g.funded = fire.funded
           /\ \A k \in Legs :
                 /\ g.filled[k] = fire.filled[k] + (IF k = l THEN n ELSE 0)
                 /\ g.cost[k] = fire.cost[k] + (IF k = l THEN c ELSE 0)
                 /\ g.remaining[k] = IF k = l THEN (IF n < fire.remaining[l] THEN fire.remaining[l] - n ELSE 0)
                                     ELSE fire.remaining[k]
  BY <1>1, FilledFields
<1> QED
  BY <1>2

LEMMA ShapePaper == ASSUME IInv, Shape, NEW l \in Legs, PaperLevel(l) PROVE Shape'
<1>1. PICK n, p \in Nat : fire' = Filled(l, n, n * p)
  BY PaperEats
<1> DEFINE c == n * p
<1>2. c \in Nat /\ fire' = Filled(l, n, c)
  BY <1>1
<1> HIDE DEF c
<1>6. UNCHANGED <<cfg, order>> /\ fire.limit[l] > 0
  BY PaperEats
<1>3. fire.filled \in [Legs -> Nat] /\ fire.cost \in [Legs -> Nat]
  BY DEF IInv, TypeOK, FireType
<1>4. /\ fire'.id = fire.id /\ fire'.limit = fire.limit
      /\ \A k \in Legs : k # l => /\ fire'.filled[k] = fire.filled[k] /\ fire'.cost[k] = fire.cost[k]
                                  /\ fire'.remaining[k] = fire.remaining[k]
  BY <1>2, <1>3, PaperFields
<1>5. FireOf[l] = fire.id
  BY <1>6 DEF Shape, Own
<1> QED
  BY <1>4, <1>5, <1>6 DEF Shape, Own, Posted

LEMMA ShapePost == ASSUME IInv, Shape, NEW l \in Legs, LivePost(l) PROVE Shape'
<1>1. order'.leg = l /\ cfg.mode = "live" /\ fire.limit[l] > 0 /\ UNCHANGED <<cfg, fire>>
  BY DEF LivePost, Planned
<1> QED
  BY <1>1 DEF Shape, Own, Posted

(* Every way a report comes back. *)
Heard(n, c) ==
    /\ order # NoOrder /\ Answered(n, c)
    /\ n \in Nat /\ c \in Nat /\ n <= order.shares /\ c <= order.paid
    /\ UNCHANGED <<cfg, state, disk, opened, stage, seen, book, wallet,
                   spent, starts, undone, displayed, taken>>

LEMMA Hearing ==
    ASSUME IInv, Reported \/ CostUnknown \/ ReportLost \/ TimeOut
    PROVE  \E n, c : /\ Heard(n, c)
                     /\ (n = order.shares /\ UNCHANGED <<resting, unheard>>
                         /\ (c = order.paid \/ (c = 0 /\ n > 0)))
                        \/ (LeftBehind /\ unheard' = [unheard EXCEPT ![order.leg] = @ + 1] /\ c = 0)
                     /\ \/ faults' = faults /\ n = order.shares /\ resting' = resting
                        \/ faults' = faults + 1
<1>1. order.shares \in Nat /\ order.paid \in Nat
  BY DEF IInv, TypeOK, OrderType
<1>2. CASE Reported
  BY <1>1, <1>2 DEF Reported, Heard, fill_trades
<1>3. CASE CostUnknown
  BY <1>1, <1>3 DEF CostUnknown, Heard, CostUnread
<1>4. CASE ReportLost
  BY <1>1, <1>4 DEF ReportLost, Heard
<1>5. CASE TimeOut
  <2> PICK n \in 0..order.shares : Answered(n, 0)
    BY <1>5 DEF TimeOut
  <2>1. Heard(n, 0)
    BY <1>1, <1>5 DEF TimeOut, Heard
  <2> QED
    BY <1>5, <2>1 DEF TimeOut
<1> QED
  BY <1>2, <1>3, <1>4, <1>5

LEMMA ShapeHeard == ASSUME IInv, Shape, NEW n, NEW c, Heard(n, c) PROVE Shape'
<1>1. TypeOK /\ Placed /\ order # NoOrder /\ n \in Nat /\ c \in Nat /\ Answered(n, c) /\ order.leg \in Legs
  BY DEF IInv, Heard, Placed
<1>2. /\ fire'.id = fire.id /\ order' = NoOrder
      /\ \A k \in Legs : k # order.leg =>
                            /\ fire'.filled[k] = fire.filled[k] /\ fire'.cost[k] = fire.cost[k]
                            /\ fire'.remaining[k] = fire.remaining[k] /\ fire'.limit[k] = fire.limit[k]
  <2>1. /\ fire.filled \in [Legs -> Nat] /\ fire.cost \in [Legs -> Nat]
    BY <1>1 DEF TypeOK, FireType
  <2> QED
    BY <1>1, <2>1, AnsweredFields
<1>3. FireOf[order.leg] = fire.id
  BY <1>1 DEF Shape, Own, Posted
<1> QED
  BY <1>2, <1>3 DEF Shape, Own, Posted

LEMMA ShapeKept == IInv /\ Shape /\ [Next]_vars => Shape'
<1> SUFFICES ASSUME IInv, Shape, [Next]_vars PROVE Shape'
  OBVIOUS
<1>1. CASE BeginCycle \/ EndCycle \/ UNCHANGED vars \/ \E f \in Fires : RefuseFire(f)
  BY <1>1, ShapeSame DEF BeginCycle, EndCycle, vars, RefuseFire
<1>2. ASSUME NEW f \in Fires, StartFire(f) PROVE Shape'
  BY <1>2, ShapeStart
<1>3. CASE PlanRung
  BY <1>3, ShapePlan
<1>4. CASE Conclude \/ StandDown \/ SaleRaises \/ AuditFails \/ Crash
  BY <1>4, ShapeDropped DEF Conclude, StandDown, SaleRaises, Between, AuditFails, Crash
<1>7. CASE Fund
  BY <1>7, ShapeFunded
<1>5. ASSUME NEW l \in Legs, PaperLevel(l) \/ PaperDone(l) \/ LiveSkip(l) \/ LivePost(l) \/ RestingFills(l)
      PROVE Shape'
  BY <1>5, ShapePaper, ShapeSkip, ShapePost, ShapeSame DEF RestingFills
<1>6. CASE Reported \/ CostUnknown \/ ReportLost \/ TimeOut
  BY <1>6, Hearing, ShapeHeard
<1> QED
  BY <1>1, <1>2, <1>3, <1>4, <1>5, <1>6, <1>7 DEF Next

-----------------------------------------------------------------------------
(* The marks: what says that a fire has been raised, and where that is written. *)
Lane(f) ==
    /\ Kind[f] \in {"target", "next"} => cfg.strategy_mode = "consensus_lock"
    /\ Kind[f] \in {"first", "refire"} => cfg.strategy_mode = "reversal"
Marked(f) ==
    CASE Kind[f] \in {"target", "next"} -> Key[f] \in opened
      [] Kind[f] = "first"              -> state.fires[Key[f]] >= 1
      [] Kind[f] = "refire"             -> state.fires[Key[f]] >= 2
      [] Kind[f] = "sleeve"             -> Key[f] \in state.sleeves \/ fire.id = f
Rivals(f, g) == f # g /\ Key[f] = Key[g] /\ {Kind[f], Kind[g]} = {"target", "next"}

OneLane ==
    /\ \A f \in Fires : starts[f] > 0 => Lane(f)
    /\ fire.id \in Fires => Lane(fire.id) /\ starts[fire.id] > 0
Signed(st) ==
    \A l \in st.recorded : /\ Lane(FireOf[l])
                           /\ Kind[FireOf[l]] = "sleeve" => Key[FireOf[l]] \in st.sleeves
                           /\ Kind[FireOf[l]] = "refire" => st.fires[Key[FireOf[l]]] >= 2
Fresh ==
    fire.id \in Fires =>
        /\ \A l \in state.recorded : FireOf[l] # fire.id
        /\ Kind[fire.id] \notin {"sleeve", "refire"} => Main(Key[fire.id]) = {}
        /\ Kind[fire.id] = "refire" => state.fires[Key[fire.id]] >= 2
Once ==
    /\ \A f \in Fires : starts[f] <= undone[f] + (IF Marked(f) THEN 1 ELSE 0)
    /\ \A f, g \in Fires :
          Rivals(f, g) => starts[f] + starts[g] <= undone[f] + (IF Key[f] \in opened THEN 1 ELSE 0)

Marks == OneLane /\ Signed(state) /\ Signed(disk) /\ Fresh /\ Once

LEMMA KindCases ==
    ASSUME NEW f \in Fires
    PROVE  /\ Kind[f] \in Kinds /\ Key[f] \in Sessions
           /\ Kind[f] \in {"target", "next"} => (Marked(f) <=> Key[f] \in opened)
           /\ Kind[f] = "first" => (Marked(f) <=> state.fires[Key[f]] >= 1)
           /\ Kind[f] = "refire" => (Marked(f) <=> state.fires[Key[f]] >= 2)
           /\ Kind[f] = "sleeve" => (Marked(f) <=> Key[f] \in state.sleeves \/ fire.id = f)
<1>1. Kind[f] \in Kinds /\ Key[f] \in Sessions
  BY ConstantsAssumption
<1>2. CASE Kind[f] = "target"
  BY <1>1, <1>2 DEF Marked
<1>3. CASE Kind[f] = "next"
  BY <1>1, <1>3 DEF Marked
<1>4. CASE Kind[f] = "first"
  BY <1>1, <1>4 DEF Marked
<1>5. CASE Kind[f] = "refire"
  BY <1>1, <1>5 DEF Marked
<1>6. CASE Kind[f] = "sleeve"
  BY <1>1, <1>6 DEF Marked
<1> QED
  BY <1>1, <1>2, <1>3, <1>4, <1>5, <1>6 DEF Kinds

(* The same on the other side of a step. *)
LEMMA KindCasesNext ==
    ASSUME NEW f \in Fires
    PROVE  /\ Kind[f] \in {"target", "next"} => (Marked(f)' <=> Key[f] \in opened')
           /\ Kind[f] = "first" => (Marked(f)' <=> state'.fires[Key[f]] >= 1)
           /\ Kind[f] = "refire" => (Marked(f)' <=> state'.fires[Key[f]] >= 2)
           /\ Kind[f] = "sleeve" => (Marked(f)' <=> Key[f] \in state'.sleeves \/ fire'.id = f)
<1>1. Kind[f] \in Kinds /\ Key[f] \in Sessions
  BY ConstantsAssumption
<1>2. CASE Kind[f] = "target"
  BY <1>1, <1>2 DEF Marked
<1>3. CASE Kind[f] = "next"
  BY <1>1, <1>3 DEF Marked
<1>4. CASE Kind[f] = "first"
  BY <1>1, <1>4 DEF Marked
<1>5. CASE Kind[f] = "refire"
  BY <1>1, <1>5 DEF Marked
<1>6. CASE Kind[f] = "sleeve"
  BY <1>1, <1>6 DEF Marked
<1> QED
  BY <1>1, <1>2, <1>3, <1>4, <1>5, <1>6 DEF Kinds

(* Steps that raise no fire, close none and leave the marks of the ledger alone. *)
LEMMA MarksSame ==
    ASSUME Marks, fire'.id = fire.id, UNCHANGED <<cfg, disk, opened, starts, undone>>,
           state'.recorded = state.recorded, state'.fires = state.fires, state'.sleeves = state.sleeves
    PROVE  Marks'
<1>1. \A f \in Fires : (Marked(f)' <=> Marked(f)) /\ (Lane(f)' <=> Lane(f))
  BY DEF Marked, Lane
<1>2. OneLane'
  BY <1>1 DEF Marks, OneLane
<1>3. Signed(state)' /\ Signed(disk)'
  BY DEF Marks, Signed, Lane
<1>4. Fresh'
  BY DEF Marks, Fresh, Main
<1>5. Once'
  BY <1>1 DEF Marks, Once
<1> QED
  BY <1>2, <1>3, <1>4, <1>5 DEF Marks

LEMMA MarksSaved == ASSUME Marks, EndCycle PROVE Marks'
<1>0. /\ disk' = state /\ UNCHANGED <<cfg, state, opened, fire, starts, undone>>
  BY DEF EndCycle, ghosts
<1>1. \A f \in Fires : (Marked(f)' <=> Marked(f)) /\ (Lane(f)' <=> Lane(f))
  BY <1>0 DEF Marked, Lane
<1>2. OneLane'
  BY <1>0, <1>1 DEF Marks, OneLane
<1>3. Signed(state)' /\ Signed(disk)'
  BY <1>0 DEF Marks, Signed, Lane
<1>4. Fresh'
  BY <1>0 DEF Marks, Fresh, Main
<1>5. Once'
  BY <1>0, <1>1 DEF Marks, Once
<1> QED
  BY <1>2, <1>3, <1>4, <1>5 DEF Marks

LEMMA StampedFields ==
    ASSUME state \in LedgerType, NEW f \in Fires
    PROVE  /\ Stamped(f).recorded = state.recorded /\ Stamped(f).sleeves = state.sleeves
           /\ Stamped(f).capital = state.capital
           /\ Stamped(f).shares = state.shares /\ Stamped(f).cost = state.cost
           /\ Stamped(f).stranded = state.stranded
           /\ \A s \in Sessions : Stamped(f).fires[s] =
                 state.fires[s] + (IF Kind[f] \in {"first", "refire"} /\ s = Key[f] THEN 1 ELSE 0)
<1>1. Key[f] \in Sessions /\ state.fires \in [Sessions -> Nat]
  BY Parameters DEF LedgerType
<1>2. CASE Kind[f] \in {"first", "refire"}
  <2> DEFINE g == [state EXCEPT !.fires[Key[f]] = @ + 1]
  <2>1. /\ g.recorded = state.recorded /\ g.sleeves = state.sleeves /\ g.capital = state.capital
        /\ g.shares = state.shares /\ g.cost = state.cost /\ g.stranded = state.stranded
        /\ g.fires = [state.fires EXCEPT ![Key[f]] = @ + 1]
    BY DEF LedgerType
  <2>2. Stamped(f) = g
    BY <1>2 DEF Stamped
  <2> HIDE DEF g
  <2> QED
    BY <1>1, <1>2, <2>1, <2>2
<1>3. CASE ~ (Kind[f] \in {"first", "refire"})
  BY <1>1, <1>3 DEF Stamped
<1> QED
  BY <1>2, <1>3

LEMMA StoodDownFields ==
    ASSUME NEW st \in LedgerType, NEW f \in Fires
    PROVE  /\ StoodDown(st, f).recorded = st.recorded /\ StoodDown(st, f).capital = st.capital
           /\ StoodDown(st, f).shares = st.shares /\ StoodDown(st, f).cost = st.cost
           /\ StoodDown(st, f).stranded = st.stranded
           /\ StoodDown(st, f).sleeves =
                 (IF Kind[f] = "sleeve" THEN st.sleeves \cup {Key[f]} ELSE st.sleeves)
           /\ \A s \in Sessions : StoodDown(st, f).fires[s] =
                 IF Kind[f] \in {"target", "next"} /\ s = Key[f] THEN 1 ELSE st.fires[s]
<1>1. Key[f] \in Sessions /\ st.fires \in [Sessions -> Nat]
  BY Parameters DEF LedgerType
<1>2. CASE Kind[f] \in {"target", "next"}
  <2> DEFINE g == [st EXCEPT !.fires[Key[f]] = 1]
  <2>1. /\ g.recorded = st.recorded /\ g.sleeves = st.sleeves /\ g.capital = st.capital
        /\ g.shares = st.shares /\ g.cost = st.cost /\ g.stranded = st.stranded
        /\ g.fires = [st.fires EXCEPT ![Key[f]] = 1]
    BY DEF LedgerType
  <2>2. StoodDown(st, f) = g /\ Kind[f] # "sleeve"
    BY <1>2 DEF StoodDown
  <2> HIDE DEF g
  <2> QED
    BY <1>1, <1>2, <2>1, <2>2
<1>3. CASE Kind[f] = "sleeve"
  <2> DEFINE g == [st EXCEPT !.sleeves = @ \cup {Key[f]}]
  <2>1. /\ g.recorded = st.recorded /\ g.sleeves = st.sleeves \cup {Key[f]} /\ g.capital = st.capital
        /\ g.shares = st.shares /\ g.cost = st.cost /\ g.fires = st.fires
        /\ g.stranded = st.stranded
    BY DEF LedgerType
  <2>2. StoodDown(st, f) = g
    BY <1>3 DEF StoodDown
  <2> HIDE DEF g
  <2> QED
    BY <1>1, <1>3, <2>1, <2>2
<1>4. CASE Kind[f] \notin {"sleeve", "target", "next"}
  BY <1>1, <1>4 DEF StoodDown
<1> QED
  BY <1>2, <1>3, <1>4

LEMMA RecordedFields ==
    ASSUME NEW st \in LedgerType, NEW f \in Fires, fire \in FireType
    PROVE  /\ Recorded(st, f).capital = st.capital /\ Recorded(st, f).stranded = st.stranded
           /\ Recorded(st, f).recorded = st.recorded \cup NewLegs(f)
           /\ \A l \in Legs : l \in NewLegs(f) => /\ Recorded(st, f).shares[l] = fire.filled[l]
                                               /\ Recorded(st, f).cost[l] = fire.cost[l]
           /\ \A l \in Legs : l \notin NewLegs(f) => /\ Recorded(st, f).shares[l] = st.shares[l]
                                                  /\ Recorded(st, f).cost[l] = st.cost[l]
           /\ Recorded(st, f).fires = st.fires
           /\ Recorded(st, f).sleeves =
                 (IF Kind[f] = "sleeve" THEN st.sleeves \cup {Key[f]} ELSE st.sleeves)
<1> DEFINE shares == [l \in Legs |-> IF l \in NewLegs(f) THEN fire.filled[l] ELSE st.shares[l]]
           cost   == [l \in Legs |-> IF l \in NewLegs(f) THEN fire.cost[l] ELSE st.cost[l]]
           slept  == IF Kind[f] = "sleeve" THEN st.sleeves \cup {Key[f]} ELSE st.sleeves
<1>1. Recorded(st, f) = [st EXCEPT !.recorded = @ \cup NewLegs(f),
                                   !.shares = shares, !.cost = cost, !.sleeves = slept]
  BY DEF Recorded
<1> HIDE DEF shares, cost, slept
<1>2. /\ Recorded(st, f).capital = st.capital /\ Recorded(st, f).stranded = st.stranded
      /\ Recorded(st, f).recorded = st.recorded \cup NewLegs(f)
      /\ Recorded(st, f).shares = shares /\ Recorded(st, f).cost = cost
      /\ Recorded(st, f).fires = st.fires /\ Recorded(st, f).sleeves = slept
  BY <1>1 DEF LedgerType
<1> QED
  BY <1>2 DEF shares, cost, slept

(* What raising a fire found: its mark not set, its lane open, none of its legs on record. *)
LEMMA RaisedFacts ==
    ASSUME IInv, Marks, NEW f \in Fires, Raised(f)
    PROVE  /\ fire = Idle /\ Lane(f) /\ ~ Marked(f)
           /\ Kind[f] \in {"target", "next"} => Key[f] \notin opened
           /\ \A l \in state.recorded : FireOf[l] # f
           /\ Kind[f] \notin {"sleeve", "refire"} => Main(Key[f]) = {}
           /\ Kind[f] = "refire" => state.fires[Key[f]] = 1
           /\ opened' = IF Kind[f] \in {"target", "next"} THEN opened \cup {Key[f]} ELSE opened
<1>1. /\ fire = Idle /\ (Entry(f) \/ Reversal(f) \/ Sleeve(f))
      /\ opened' = IF Kind[f] \in {"target", "next"} THEN opened \cup {Key[f]} ELSE opened
  BY DEF Raised
<1>2. fire.id # f
  BY <1>1, IdleFields, Parameters
<1>3. Signed(state) /\ state.fires[Key[f]] \in Nat
  BY Parameters DEF Marks, IInv, TypeOK, LedgerType
<1>4. CASE Entry(f)
  BY <1>1, <1>2, <1>4, KindCases DEF Entry, Lane, Main
<1>5. CASE Reversal(f)
  <2>1. CASE Kind[f] = "first"
    BY <1>1, <1>2, <1>5, <2>1, KindCases DEF Reversal, Lane, Main
  <2>2. CASE Kind[f] = "refire"
    <3>1. cfg.strategy_mode = "reversal" /\ state.fires[Key[f]] = 1
      BY <1>5, <2>2 DEF Reversal
    <3>2. \A l \in state.recorded : FireOf[l] # f
      BY <1>3, <2>2, <3>1 DEF Signed
    <3> QED
      BY <1>1, <1>2, <2>2, <3>1, <3>2, KindCases DEF Lane
  <2> QED
    BY <1>5, <2>1, <2>2 DEF Reversal
<1>6. CASE Sleeve(f)
  <2>1. Kind[f] = "sleeve" /\ Key[f] \notin state.sleeves
    BY <1>6 DEF Sleeve
  <2>2. \A l \in state.recorded : FireOf[l] # f
    BY <1>3, <2>1 DEF Signed
  <2> QED
    BY <1>1, <1>2, <2>1, <2>2, KindCases DEF Lane
<1> QED
  BY <1>1, <1>4, <1>5, <1>6

(* A mark stays where nothing is taken back. *)
Grown ==
    /\ opened \subseteq opened' /\ state.sleeves \subseteq state'.sleeves
    /\ cfg.strategy_mode = "reversal" => \A s \in Sessions : state'.fires[s] >= state.fires[s]

LEMMA MarkStays ==
    ASSUME IInv, IInv', Grown, NEW g \in Fires, Lane(g), Marked(g),
           fire.id = g => fire'.id = g \/ Key[g] \in state'.sleeves \/ Kind[g] # "sleeve"
    PROVE  Marked(g)'
<1>1. Kind[g] \in Kinds /\ Key[g] \in Sessions
  BY KindCases
<1>2. state.fires[Key[g]] \in Nat /\ state'.fires[Key[g]] \in Nat
  BY <1>1 DEF IInv, TypeOK, LedgerType
<1>3. CASE Kind[g] \in {"target", "next"}
  BY <1>3, KindCases, KindCasesNext DEF Grown
<1>4. CASE Kind[g] = "first"
  <2>1. state.fires[Key[g]] >= 1 /\ cfg.strategy_mode = "reversal"
    BY <1>4, KindCases DEF Lane
  <2> QED
    BY <1>1, <1>2, <1>4, <2>1, KindCasesNext DEF Grown
<1>5. CASE Kind[g] = "refire"
  <2>1. state.fires[Key[g]] >= 2 /\ cfg.strategy_mode = "reversal"
    BY <1>5, KindCases DEF Lane
  <2> QED
    BY <1>1, <1>2, <1>5, <2>1, KindCasesNext DEF Grown
<1>6. CASE Kind[g] = "sleeve"
  BY <1>6, KindCases, KindCasesNext DEF Grown
<1> QED
  BY <1>1, <1>3, <1>4, <1>5, <1>6 DEF Kinds

(* So do the signatures of the positions on record. *)
LEMMA SignedStays ==
    ASSUME IInv, IInv', Grown, Signed(state), cfg' = cfg, NEW l \in state.recorded
    PROVE  /\ Lane(FireOf[l])'
           /\ Kind[FireOf[l]] = "sleeve" => Key[FireOf[l]] \in state'.sleeves
           /\ Kind[FireOf[l]] = "refire" => state'.fires[Key[FireOf[l]]] >= 2
<1>1. FireOf[l] \in Fires
  BY Parameters DEF IInv, TypeOK, LedgerType
<1>2. /\ Lane(FireOf[l])
      /\ Kind[FireOf[l]] = "sleeve" => Key[FireOf[l]] \in state.sleeves
      /\ Kind[FireOf[l]] = "refire" => state.fires[Key[FireOf[l]]] >= 2
  BY DEF Signed
<1>3. Kind[FireOf[l]] = "refire" => state'.fires[Key[FireOf[l]]] >= 2
  <2> SUFFICES ASSUME Kind[FireOf[l]] = "refire" PROVE state'.fires[Key[FireOf[l]]] >= 2
    OBVIOUS
  <2> DEFINE s == Key[FireOf[l]]
  <2>1. s \in Sessions /\ state.fires[s] >= 2 /\ cfg.strategy_mode = "reversal"
    BY <1>1, <1>2, KindCases DEF Lane
  <2> HIDE DEF s
  <2>2. state.fires[s] \in Nat /\ state'.fires[s] \in Nat /\ state'.fires[s] >= state.fires[s]
    BY <2>1 DEF IInv, TypeOK, LedgerType, Grown
  <2> QED
    BY <2>1, <2>2 DEF s
<1> QED
  BY <1>2, <1>3 DEF Lane, Grown

(* And nobody has fired more often than the marks and the crashes account for. *)
LEMMA OnceStays ==
    ASSUME IInv, IInv', Marks, Grown, UNCHANGED <<cfg, starts>>,
           \A g \in Fires : undone'[g] >= undone[g],
           \A g \in Fires : fire.id = g =>
               fire'.id = g \/ Key[g] \in state'.sleeves \/ undone'[g] = undone[g] + 1
                  \/ Kind[g] # "sleeve"
    PROVE  Once'
<1>1. \A g \in Fires : /\ starts[g] \in Nat /\ undone[g] \in Nat /\ undone'[g] \in Nat
                       /\ undone'[g] >= undone[g]
  BY DEF IInv, TypeOK
<1>2. ASSUME NEW g \in Fires
      PROVE  starts[g] <= undone'[g] + (IF Marked(g)' THEN 1 ELSE 0)
  <2>1. starts[g] <= undone[g] + (IF Marked(g) THEN 1 ELSE 0) /\ (starts[g] > 0 => Lane(g))
    BY DEF Marks, Once, OneLane
  <2>2. CASE ~ Marked(g) \/ starts[g] = 0
    BY <1>1, <2>1, <2>2
  <2>3. CASE Marked(g) /\ starts[g] > 0 /\ undone'[g] # undone[g] + 1
    <3>1. Marked(g)'
      BY <2>1, <2>3, MarkStays
    <3> QED
      BY <1>1, <2>1, <3>1
  <2>4. CASE undone'[g] = undone[g] + 1
    BY <1>1, <2>1, <2>4
  <2> QED
    BY <1>1, <2>2, <2>3, <2>4
<1>3. ASSUME NEW g \in Fires, NEW h \in Fires, Rivals(g, h)
      PROVE  starts[g] + starts[h] <= undone'[g] + (IF Key[g] \in opened' THEN 1 ELSE 0)
  <2>1. starts[g] + starts[h] <= undone[g] + (IF Key[g] \in opened THEN 1 ELSE 0)
    BY <1>3 DEF Marks, Once
  <2>2. Key[g] \in opened => Key[g] \in opened'
    BY DEF Grown
  <2> QED
    BY <1>1, <2>1, <2>2
<1> QED
  BY <1>2, <1>3 DEF Once, Rivals

(* A refused fire may leave its mark and nothing else. *)
LEMMA MarksRefused == ASSUME IInv, Marks, NEW f \in Fires, RefuseFire(f) PROVE Marks'
<1> DEFINE st == Stamped(f)
<1>1. /\ Raised(f) /\ state' = StoodDown(st, f)
      /\ UNCHANGED <<cfg, disk, fire, starts, undone>>
  BY DEF RefuseFire, ghosts
<1>2. state \in LedgerType /\ st \in LedgerType
  BY StampedType DEF IInv, TypeOK
<1>3. fire.id \notin Fires /\ fire'.id = fire.id /\ Lane(f)
  BY <1>1, RaisedFacts, IdleFields, Parameters
<1>4. /\ state'.recorded = state.recorded
      /\ state'.sleeves = IF Kind[f] = "sleeve" THEN state.sleeves \cup {Key[f]} ELSE state.sleeves
      /\ \A s \in Sessions :
            state'.fires[s] = IF Kind[f] \in {"target", "next"} /\ s = Key[f] THEN 1
                              ELSE state.fires[s] + (IF Kind[f] \in {"first", "refire"} /\ s = Key[f] THEN 1 ELSE 0)
  <2>1. /\ st.recorded = state.recorded /\ st.sleeves = state.sleeves
        /\ \A s \in Sessions : st.fires[s] =
              state.fires[s] + (IF Kind[f] \in {"first", "refire"} /\ s = Key[f] THEN 1 ELSE 0)
    BY <1>2, StampedFields
  <2> HIDE DEF st
  <2>2. /\ state'.recorded = st.recorded
        /\ state'.sleeves = IF Kind[f] = "sleeve" THEN st.sleeves \cup {Key[f]} ELSE st.sleeves
        /\ \A s \in Sessions :
              state'.fires[s] = IF Kind[f] \in {"target", "next"} /\ s = Key[f] THEN 1 ELSE st.fires[s]
    BY <1>1, <1>2, StoodDownFields
  <2> QED
    BY <2>1, <2>2
<1>5. \A s \in Sessions : state.fires[s] \in Nat
  BY <1>2 DEF LedgerType
<1>6. \A s \in Sessions : cfg.strategy_mode = "reversal" => state'.fires[s] >= state.fires[s]
  BY <1>3, <1>4, <1>5 DEF Lane
<1>7. opened \subseteq opened' /\ state.sleeves \subseteq state'.sleeves
  BY <1>1, <1>4, RaisedFacts
<1>8. \A g \in Fires : Lane(g)' <=> Lane(g)
  BY <1>1 DEF Lane
<1>9. IInv' /\ Grown
  BY <1>6, <1>7, RefuseFireKeep DEF Grown
<1>10. OneLane'
  BY <1>1, <1>3, <1>8 DEF Marks, OneLane
<1>11. Signed(state)'
  BY <1>1, <1>4, <1>9, SignedStays DEF Marks, Signed
<1>12. Signed(disk)'
  BY <1>1 DEF Marks, Signed, Lane
<1>13. Fresh'
  BY <1>3 DEF Fresh
<1>14. Once'
  <2>1. \A g \in Fires : undone'[g] >= undone[g] /\ fire.id # g
    BY <1>1, <1>3 DEF IInv, TypeOK
  <2> QED
    BY <1>1, <1>9, <2>1, OnceStays
<1> QED
  BY <1>10, <1>11, <1>12, <1>13, <1>14 DEF Marks

(* A fire that starts sets a mark that was not set. *)
LEMMA MarksStarted == ASSUME IInv, Marks, NEW f \in Fires, StartFire(f) PROVE Marks'
<1>1. /\ Raised(f) /\ state' = Stamped(f) /\ starts' = [starts EXCEPT ![f] = @ + 1]
      /\ UNCHANGED <<cfg, disk, undone>> /\ fire'.id = f
  BY StartFields DEF StartFire
<1>2. state \in LedgerType /\ IInv'
  BY StartFireKeep DEF IInv, TypeOK
<1>3. /\ fire.id \notin Fires /\ Lane(f) /\ ~ Marked(f)
      /\ Kind[f] \in {"target", "next"} => Key[f] \notin opened
      /\ \A l \in state.recorded : FireOf[l] # f
      /\ Kind[f] \notin {"sleeve", "refire"} => Main(Key[f]) = {}
      /\ Kind[f] = "refire" => state.fires[Key[f]] = 1
      /\ opened' = IF Kind[f] \in {"target", "next"} THEN opened \cup {Key[f]} ELSE opened
  BY <1>1, RaisedFacts, IdleFields, Parameters
<1>4. /\ state'.recorded = state.recorded /\ state'.sleeves = state.sleeves
      /\ \A s \in Sessions : state'.fires[s] =
            state.fires[s] + (IF Kind[f] \in {"first", "refire"} /\ s = Key[f] THEN 1 ELSE 0)
  BY <1>1, <1>2, StampedFields
<1>5. \A s \in Sessions : state.fires[s] \in Nat
  BY <1>2 DEF LedgerType
<1>6. Grown
  <2>1. \A s \in Sessions : state'.fires[s] >= state.fires[s]
    BY <1>4, <1>5
  <2> QED
    BY <1>3, <1>4, <2>1 DEF Grown
<1>7. \A g \in Fires : /\ starts[g] \in Nat /\ undone[g] \in Nat
                       /\ starts'[g] = IF g = f THEN starts[f] + 1 ELSE starts[g]
  BY <1>1 DEF IInv, TypeOK
<1>8. \A g \in Fires : Lane(g)' <=> Lane(g)
  BY <1>1 DEF Lane
<1>9. Marked(f)'
  <2>1. Kind[f] \in Kinds /\ Key[f] \in Sessions
    BY KindCases
  <2>2. CASE Kind[f] \in {"target", "next"}
    BY <1>3, <2>2, KindCasesNext
  <2>3. CASE Kind[f] \in {"first", "refire"}
    <3>1. state'.fires[Key[f]] = state.fires[Key[f]] + 1
      BY <1>4, <2>1, <2>3
    <3> QED
      BY <1>3, <1>5, <2>1, <2>3, <3>1, KindCasesNext
  <2>4. CASE Kind[f] = "sleeve"
    BY <1>1, <2>4, KindCasesNext
  <2> QED
    BY <2>1, <2>2, <2>3, <2>4 DEF Kinds
<1>10. OneLane'
  <2>1. Lane(f)' /\ starts'[f] > 0
    BY <1>1, <1>3, <1>7, <1>8
  <2>2. ASSUME NEW g \in Fires, starts'[g] > 0 PROVE Lane(g)'
    BY <1>3, <1>7, <1>8, <2>2 DEF Marks, OneLane
  <2> QED
    BY <1>1, <1>3, <1>7, <1>8, <2>2 DEF OneLane, Lane
<1>11. Signed(state)'
  BY <1>1, <1>2, <1>4, <1>6, SignedStays DEF Marks, Signed
<1>12. Signed(disk)'
  BY <1>1 DEF Marks, Signed, Lane
<1>13. Fresh'
  <2>1. Main(Key[f])' = Main(Key[f])
    BY <1>4 DEF Main
  <2>2. Kind[f] = "refire" => state'.fires[Key[f]] >= 2
    <3>1. Key[f] \in Sessions
      BY KindCases
    <3> QED
      BY <1>3, <1>4, <3>1
  <2> QED
    BY <1>1, <1>3, <1>4, <2>1, <2>2 DEF Fresh
<1>14. Once'
  <2>1. ASSUME NEW g \in Fires
        PROVE  starts'[g] <= undone[g] + (IF Marked(g)' THEN 1 ELSE 0)
    <3>1. starts[g] <= undone[g] + (IF Marked(g) THEN 1 ELSE 0) /\ (starts[g] > 0 => Lane(g))
      BY DEF Marks, Once, OneLane
    <3>2. CASE g = f
      BY <1>3, <1>7, <1>9, <3>1, <3>2
    <3>3. CASE g # f /\ starts[g] > 0 /\ Marked(g)
      <4>1. Marked(g)'
        BY <1>2, <1>3, <1>6, <3>1, <3>3, MarkStays
      <4> QED
        BY <1>7, <3>1, <3>3, <4>1
    <3>4. CASE g # f /\ ~ (starts[g] > 0 /\ Marked(g))
      BY <1>7, <3>1, <3>4
    <3> QED
      BY <3>2, <3>3, <3>4
  <2>2. ASSUME NEW g \in Fires, NEW h \in Fires, Rivals(g, h)
        PROVE  starts'[g] + starts'[h] <= undone[g] + (IF Key[g] \in opened' THEN 1 ELSE 0)
    <3>1. starts[g] + starts[h] <= undone[g] + (IF Key[g] \in opened THEN 1 ELSE 0)
      BY <2>2 DEF Marks, Once
    <3>2. CASE f \in {g, h}
      <4>1. Kind[f] \in {"target", "next"} /\ Key[g] = Key[f] /\ g # h
        BY <2>2, <3>2 DEF Rivals
      <4> QED
        BY <1>3, <1>7, <3>1, <3>2, <4>1
    <3>3. CASE f \notin {g, h}
      BY <1>3, <1>7, <3>1, <3>3
    <3> QED
      BY <3>2, <3>3
  <2> QED
    BY <1>1, <2>1, <2>2 DEF Once, Rivals
<1> QED
  BY <1>10, <1>11, <1>12, <1>13, <1>14 DEF Marks

(* A fire that concludes is on record, or stands down with its mark. *)
LEMMA MarksConcluded == ASSUME IInv, Marks, Conclude \/ StandDown PROVE Marks'
<1> DEFINE f == fire.id
<1>1. /\ fire.id # NoFire /\ fire' = Idle
      /\ state' = Recorded(state, f) \/ state' = StoodDown(state, f)
      /\ UNCHANGED <<cfg, disk, opened, starts, undone>>
  BY DEF Conclude, StandDown, Between
<1>2. state \in LedgerType /\ fire \in FireType /\ f \in Fires /\ IInv'
  BY <1>1, ConcludeKeep DEF IInv, TypeOK, FireType
<1>3. Lane(f) /\ f = fire.id
  BY <1>2 DEF Marks, OneLane
<1> HIDE DEF f
<1>4. /\ state'.sleeves = IF Kind[f] = "sleeve" THEN state.sleeves \cup {Key[f]} ELSE state.sleeves
      /\ \A s \in Sessions :
            state'.fires[s] = state.fires[s] \/ (Kind[f] \in {"target", "next"} /\ state'.fires[s] = 1)
      /\ state'.recorded \subseteq state.recorded \cup NewLegs(f)
  <2>1. CASE state' = Recorded(state, f)
    BY <1>2, <2>1, RecordedFields
  <2>2. CASE state' = StoodDown(state, f)
    BY <1>2, <2>2, StoodDownFields
  <2> QED
    BY <1>1, <2>1, <2>2
<1>5. Grown
  <2>1. \A s \in Sessions : state.fires[s] \in Nat
    BY <1>2 DEF LedgerType
  <2>2. cfg.strategy_mode = "reversal" => \A s \in Sessions : state'.fires[s] = state.fires[s]
    BY <1>3, <1>4 DEF Lane
  <2> QED
    BY <1>1, <1>4, <2>1, <2>2 DEF Grown
<1>6. fire'.id \notin Fires
  BY <1>1, IdleFields, Parameters
<1>7. OneLane'
  BY <1>1, <1>6 DEF Marks, OneLane, Lane
<1>8. Signed(state)'
  <2>1. ASSUME NEW l \in NewLegs(f)
        PROVE  /\ Lane(FireOf[l])'
               /\ Kind[FireOf[l]] = "sleeve" => Key[FireOf[l]] \in state'.sleeves
               /\ Kind[FireOf[l]] = "refire" => state'.fires[Key[FireOf[l]]] >= 2
    <3>1. FireOf[l] = f
      BY DEF NewLegs, LegsOf
    <3>2. Kind[f] = "refire" => state.fires[Key[f]] >= 2
      BY <1>2, <1>3 DEF Marks, Fresh
    <3>3. Key[f] \in Sessions
      BY <1>2, KindCases
    <3> QED
      BY <1>1, <1>3, <1>4, <3>1, <3>2, <3>3 DEF Lane
  <2>2. ASSUME NEW l \in state.recorded
        PROVE  /\ Lane(FireOf[l])'
               /\ Kind[FireOf[l]] = "sleeve" => Key[FireOf[l]] \in state'.sleeves
               /\ Kind[FireOf[l]] = "refire" => state'.fires[Key[FireOf[l]]] >= 2
    BY <1>1, <1>2, <1>5, SignedStays DEF Marks
  <2> QED
    BY <1>4, <2>1, <2>2 DEF Signed
<1>9. Signed(disk)'
  BY <1>1 DEF Marks, Signed, Lane
<1>10. Fresh'
  BY <1>6 DEF Fresh
<1>11. Once'
  <2>1. \A g \in Fires : undone'[g] >= undone[g]
    BY <1>1 DEF IInv, TypeOK
  <2>2. \A g \in Fires : fire.id = g => Key[g] \in state'.sleeves \/ Kind[g] # "sleeve"
    BY <1>3, <1>4
  <2> QED
    BY <1>1, <1>2, <1>5, <2>1, <2>2, OnceStays
<1> QED
  BY <1>7, <1>8, <1>9, <1>10, <1>11 DEF Marks

(* A sale that raises leaves the fire's mark where it was. *)
LEMMA MarksStranded == ASSUME IInv, Marks, SaleRaises PROVE Marks'
<1>1. /\ fire' = Idle /\ Kind[fire.id] = "refire"
      /\ state'.recorded = state.recorded /\ state'.fires = state.fires
      /\ state'.sleeves = state.sleeves
      /\ UNCHANGED <<cfg, disk, opened, starts, undone>>
  BY StrandedFields DEF IInv
<1>2. fire'.id \notin Fires /\ IInv'
  BY <1>1, IdleFields, Parameters, SaleRaisesKeep
<1>3. Grown
  BY <1>1 DEF Grown, IInv, TypeOK, LedgerType
<1>4. OneLane' /\ Fresh'
  BY <1>1, <1>2 DEF Marks, OneLane, Lane, Fresh
<1>5. Signed(state)' /\ Signed(disk)'
  BY <1>1 DEF Marks, Signed, Lane
<1>6. Once'
  <2>1. \A g \in Fires : undone'[g] >= undone[g]
    BY <1>1 DEF IInv, TypeOK
  <2>2. \A g \in Fires : fire.id = g => Kind[g] # "sleeve"
    BY <1>1
  <2> QED
    BY <1>1, <1>2, <1>3, <2>1, <2>2, OnceStays
<1> QED
  BY <1>4, <1>5, <1>6 DEF Marks

(* An exception drops the fire; only a sleeve's mark goes with it. *)
LEMMA MarksDropped == ASSUME IInv, Marks, AuditFails PROVE Marks'
<1>1. /\ fire' = Idle /\ UNCHANGED <<cfg, state, disk, opened, starts>>
      /\ undone' = [f \in Fires |-> IF f = fire.id /\ Kind[f] = "sleeve" THEN undone[f] + 1 ELSE undone[f]]
  BY DEF AuditFails
<1>2. fire'.id \notin Fires /\ IInv'
  BY <1>1, IdleFields, Parameters, DroppedKeep
<1>3. Grown
  BY <1>1 DEF Grown, IInv, TypeOK, LedgerType
<1>4. OneLane' /\ Fresh'
  BY <1>1, <1>2 DEF Marks, OneLane, Lane, Fresh
<1>5. Signed(state)' /\ Signed(disk)'
  BY <1>1 DEF Marks, Signed, Lane
<1>6. Once'
  <2>1. \A g \in Fires : undone'[g] >= undone[g]
    BY <1>1 DEF IInv, TypeOK
  <2>2. \A g \in Fires : fire.id = g => undone'[g] = undone[g] + 1 \/ Kind[g] # "sleeve"
    BY <1>1
  <2> QED
    BY <1>1, <1>2, <1>3, <2>1, <2>2, OnceStays
<1> QED
  BY <1>4, <1>5, <1>6 DEF Marks

(* A crash wipes marks, once for every fire, and brings back the record as saved. *)
LEMMA MarksCrash == ASSUME IInv, Marks, Crash PROVE Marks'
<1>1. /\ fire' = Idle /\ state' = disk /\ UNCHANGED <<cfg, disk, starts>>
      /\ undone' = [f \in Fires |-> undone[f] + 1] /\ opened' = {}
  BY DEF Crash
<1>2. fire'.id \notin Fires
  BY <1>1, IdleFields, Parameters
<1>3. OneLane' /\ Fresh'
  BY <1>1, <1>2 DEF Marks, OneLane, Lane, Fresh
<1>4. Signed(state)' /\ Signed(disk)'
  BY <1>1 DEF Marks, Signed, Lane
<1>5. \A g \in Fires : starts[g] \in Nat /\ undone[g] \in Nat /\ undone'[g] = undone[g] + 1
  BY <1>1 DEF IInv, TypeOK
<1>6. \A g \in Fires : starts[g] <= undone'[g]
  BY <1>5 DEF Marks, Once
<1>7. \A g, h \in Fires : Rivals(g, h) => starts[g] + starts[h] <= undone'[g]
  BY <1>5 DEF Marks, Once
<1>8. Once'
  BY <1>1, <1>5, <1>6, <1>7 DEF Once, Rivals
<1> QED
  BY <1>3, <1>4, <1>8 DEF Marks

LEMMA MarksInit == Init => Marks
<1> SUFFICES ASSUME Init PROVE Marks
  OBVIOUS
<1>1. /\ state.recorded = {} /\ disk = state
      /\ \A f \in Fires : starts[f] = 0 /\ undone[f] = 0
  BY DEF Init
<1>2. fire.id \notin Fires
  BY IdleFields, Parameters DEF Init
<1> QED
  BY <1>1, <1>2 DEF Marks, OneLane, Signed, Fresh, Once

LEMMA MarksKept == IInv /\ Marks /\ [Next]_vars => Marks'
<1> SUFFICES ASSUME IInv, Marks, [Next]_vars PROVE Marks'
  OBVIOUS
<1>1. CASE BeginCycle \/ UNCHANGED vars
  BY <1>1, MarksSame DEF BeginCycle, vars, ghosts
<1>2. CASE EndCycle
  BY <1>2, MarksSaved
<1>3. ASSUME NEW f \in Fires, StartFire(f) \/ RefuseFire(f) PROVE Marks'
  BY <1>3, MarksStarted, MarksRefused
<1>4. CASE PlanRung
  <2>1. fire'.id = fire.id
    BY <1>4, PlanFields DEF IInv
  <2> QED
    BY <1>4, <2>1, MarksSame DEF PlanRung, ghosts
<1>5. CASE Conclude \/ StandDown \/ SaleRaises \/ AuditFails \/ Crash
  BY <1>5, MarksConcluded, MarksStranded, MarksDropped, MarksCrash
<1>10. CASE Fund
  <2>1. /\ fire'.id = fire.id /\ state'.recorded = state.recorded
        /\ state'.fires = state.fires /\ state'.sleeves = state.sleeves
        /\ UNCHANGED <<cfg, disk, opened, ghosts>>
    BY <1>10, FundFields DEF IInv
  <2> QED
    BY <2>1, MarksSame DEF ghosts
<1>6. ASSUME NEW l \in Legs, PaperLevel(l) PROVE Marks'
  <2>1. UNCHANGED <<cfg, state, disk, opened, starts, undone>>
    BY <1>6 DEF PaperLevel
  <2>2. PICK n, p \in Nat : fire' = Filled(l, n, n * p)
    BY <1>6, PaperEats
  <2> DEFINE c == n * p
  <2>3. c \in Nat /\ fire' = Filled(l, n, c)
    BY <2>2
  <2> HIDE DEF c
  <2>4. fire'.id = fire.id
    BY <2>3, PaperFields
  <2> QED
    BY <2>1, <2>4, MarksSame
<1>7. ASSUME NEW l \in Legs, PaperDone(l) \/ LiveSkip(l) PROVE Marks'
  <2>1. fire'.id = fire.id
    BY <1>7, SkipFields DEF IInv
  <2> QED
    BY <1>7, <2>1, MarksSame DEF PaperDone, LiveSkip, ghosts
<1>8. ASSUME NEW l \in Legs, LivePost(l) \/ RestingFills(l) PROVE Marks'
  BY <1>8, MarksSame DEF LivePost, RestingFills
<1>9. CASE Reported \/ CostUnknown \/ ReportLost \/ TimeOut
  <2>1. PICK n, c : Heard(n, c)
    BY <1>9, Hearing
  <2>2. fire'.id = fire.id
    BY <2>1, AnsweredFields DEF IInv, Heard
  <2> QED
    BY <2>1, <2>2, MarksSame DEF Heard
<1> QED
  BY <1>1, <1>2, <1>3, <1>4, <1>5, <1>6, <1>7, <1>8, <1>9, <1>10 DEF Next

LEMMA ShapeInit == Init => Shape
  BY IdleFields DEF Init, Shape, Own, Posted

LEMMA MarksHold == Spec => [](IInv /\ Shape /\ Marks)
  BY InitInv, Inductive, ShapeInit, ShapeKept, MarksInit, MarksKept, PTL DEF Spec

(* A fire goes through its window once, and a consensus session through one of its two      *)
(* channels, but for the crashes and exceptions that wiped a mark.                          *)
THEOREM FiresOnce == Spec => []FiredOnce
<1>1. IInv /\ Marks => FiredOnce
  <2> SUFFICES ASSUME IInv, Marks, NEW f \in Fires, NEW g \in Fires
               PROVE  /\ starts[f] <= 1 + undone[f]
                      /\ Rivals(f, g) => starts[f] + starts[g] <= 1 + undone[f]
    BY DEF FiredOnce, Rivals
  <2> QED
    BY DEF Marks, Once, IInv, TypeOK
<1> QED
  BY <1>1, MarksHold, PTL

-----------------------------------------------------------------------------
(* What a leg's fire has spent and may still spend.                                         *)
LEMMA Products ==
    ASSUME NEW a \in Nat, NEW b \in Nat, NEW c \in Nat
    PROVE  /\ a * b \in Nat
           /\ (a + b) * c = a * c + b * c
           /\ b <= c => a * b <= a * c
           /\ a <= b => (b - a) * c = b * c - a * c /\ a * c <= b * c
<1>1. a * b \in Nat /\ a * c \in Nat /\ b * c \in Nat
  OBVIOUS
<1>2. (a + b) * c = a * c + b * c
  OBVIOUS
<1>3. ASSUME b <= c PROVE a * b <= a * c
  <2>1. c - b \in Nat /\ a * (c - b) \in Nat
    BY <1>3
  <2>2. a * c = a * b + a * (c - b)
    BY <1>3
  <2> QED
    BY <1>1, <2>1, <2>2
<1>4. ASSUME a <= b PROVE (b - a) * c = b * c - a * c /\ a * c <= b * c
  <2>1. b - a \in Nat /\ (b - a) * c \in Nat
    BY <1>4
  <2>2. b * c = a * c + (b - a) * c
    BY <1>4
  <2> QED
    BY <1>1, <2>1, <2>2
<1> QED
  BY <1>1, <1>2, <1>3, <1>4

Rest(l, n) == IF n < fire.remaining[l] THEN fire.remaining[l] - n ELSE 0

(* No leg is wanted over its target or bid over its cap, and what an order in flight can    *)
(* spend was still to be spent.                                                             *)
Wanted(l) ==
    /\ fire.remaining[l] <= Target[l] /\ fire.limit[l] <= Cap[l]
    /\ order.leg = l => /\ order.paid + order.open <= fire.remaining[l] * Cap[l]
                        /\ order.paid + Rest(l, order.shares) * Cap[l] <= fire.remaining[l] * Cap[l]
(* What has been spent and reported, with what rests at the venue and what is still wanted, *)
(* is within a budget for every start and one for every order unheard of.                   *)
Outlay(l) == (spent[l] - InHand(l)) + resting[l] + fire.remaining[l] * Cap[l]
Allowed(l) == (starts[FireOf[l]] + unheard[l]) * Budget(l)
Spend == \A l \in Legs : Wanted(l) /\ Outlay(l) <= Allowed(l)

LEMMA SpendTypes ==
    ASSUME IInv, NEW l \in Legs
    PROVE  /\ Cap[l] \in Nat /\ Target[l] \in Nat /\ Budget(l) \in Nat /\ FireOf[l] \in Fires
           /\ spent[l] \in Nat /\ resting[l] \in Nat /\ unheard[l] \in Nat /\ starts[FireOf[l]] \in Nat
           /\ fire.remaining[l] \in Nat /\ fire.limit[l] \in Nat /\ fire.filled[l] \in Nat
           /\ order.paid \in Nat /\ order.open \in Nat /\ order.shares \in Nat
           /\ InHand(l) \in Nat /\ InHand(l) <= spent[l]
           /\ fire.remaining[l] * Cap[l] \in Nat /\ Allowed(l) \in Nat
<1>1. /\ Cap[l] \in Nat /\ Target[l] \in Nat /\ FireOf[l] \in Fires
      /\ spent[l] \in Nat /\ resting[l] \in Nat /\ unheard[l] \in Nat /\ starts[FireOf[l]] \in Nat
      /\ fire.remaining[l] \in Nat /\ fire.limit[l] \in Nat /\ fire.filled[l] \in Nat
      /\ order.paid \in Nat /\ order.open \in Nat /\ order.shares \in Nat
  BY Parameters DEF IInv, TypeOK, FireType, OrderType
<1>2. InHand(l) \in Nat /\ InHand(l) <= spent[l]
  BY Amounts DEF IInv, Covered
<1>3. Budget(l) \in Nat /\ fire.remaining[l] * Cap[l] \in Nat
  BY <1>1, Products DEF Budget
<1>4. Allowed(l) \in Nat
  <2>1. starts[FireOf[l]] + unheard[l] \in Nat
    BY <1>1
  <2> QED
    BY <1>3, <2>1, Products DEF Allowed
<1> QED
  BY <1>1, <1>2, <1>3, <1>4

(* The invariant gives the bound. *)
LEMMA SpendEnough == ASSUME IInv, Spend PROVE SpendBounded
<1> SUFFICES ASSUME NEW l \in Legs
             PROVE  spent[l] + resting[l] + (IF order.leg = l THEN order.open ELSE 0) <= Allowed(l)
  BY DEF SpendBounded, Allowed
<1> DEFINE left == fire.remaining[l] * Cap[l]
<1>1. /\ spent[l] \in Nat /\ resting[l] \in Nat /\ order.paid \in Nat /\ order.open \in Nat
      /\ InHand(l) \in Nat /\ left \in Nat /\ Allowed(l) \in Nat
  BY SpendTypes
<1>2. (spent[l] - InHand(l)) + resting[l] + left <= Allowed(l)
  BY DEF Spend, Outlay
<1>3. order.leg = l => order.paid + order.open <= left
  BY DEF Spend, Wanted
<1> HIDE DEF left
<1> QED
  BY <1>1, <1>2, <1>3 DEF InHand

LEMMA SpendSame ==
    ASSUME Spend, UNCHANGED <<order, spent, resting, unheard, starts>>,
           \A l \in Legs : fire'.remaining[l] = fire.remaining[l] /\ fire'.limit[l] <= Cap[l]
    PROVE  Spend'
  BY DEF Spend, Wanted, Outlay, InHand, Rest, Allowed

(* A start brings one budget more, and wants no more than that. *)
LEMMA SpendStarted ==
    ASSUME IInv, Shape, Spend, NEW f \in Fires, StartFire(f) PROVE Spend'
<1>1. order = NoOrder /\ UNCHANGED <<order, spent, resting, unheard>> /\ fire = Idle
      /\ starts' = [starts EXCEPT ![f] = @ + 1]
  BY ShapeIdle, StartFields DEF StartFire
<1> SUFFICES ASSUME NEW l \in Legs PROVE (Wanted(l) /\ Outlay(l) <= Allowed(l))'
  BY DEF Spend
<1>2. order.leg # l /\ fire.remaining[l] = 0 /\ fire'.limit[l] = 0
      /\ fire'.remaining[l] = IF FireOf[l] = f THEN Target[l] ELSE 0
  BY <1>1, StartFields, IdleFields, Parameters
<1>3. Outlay(l) <= Allowed(l) /\ fire.remaining[l] * Cap[l] = 0
  BY <1>2, SpendTypes DEF Spend
<1>4. Wanted(l)'
  BY <1>1, <1>2, SpendTypes DEF Wanted
<1>5. InHand(l)' = 0 /\ InHand(l) = 0
  BY <1>1, <1>2 DEF InHand
<1>6. starts'[FireOf[l]] = starts[FireOf[l]] + (IF FireOf[l] = f THEN 1 ELSE 0)
  BY <1>1, SpendTypes DEF IInv, TypeOK
<1>7. CASE FireOf[l] = f
  <2> DEFINE n == starts[FireOf[l]] + unheard[l]
  <2>1. n \in Nat /\ Budget(l) \in Nat
    BY SpendTypes
  <2>2. Allowed(l)' = (n + 1) * Budget(l)
    <3>1. starts'[FireOf[l]] + unheard'[l] = n + 1
      <4>1. starts'[FireOf[l]] = starts[FireOf[l]] + 1 /\ unheard'[l] = unheard[l]
        BY <1>1, <1>6, <1>7
      <4>2. starts[FireOf[l]] \in Nat /\ unheard[l] \in Nat
        BY SpendTypes
      <4> QED
        BY <4>1, <4>2
    <3>2. Allowed(l)' = (starts'[FireOf[l]] + unheard'[l]) * Budget(l)
      BY DEF Allowed, Budget
    <3> HIDE DEF n
    <3> QED
      BY <3>1, <3>2
  <2>3. Allowed(l) = n * Budget(l)
    BY DEF Allowed
  <2> HIDE DEF n
  <2>4. Allowed(l)' = Allowed(l) + Budget(l)
    BY <2>1, <2>2, <2>3, Products
  <2>5. fire'.remaining[l] * Cap[l] = Budget(l)
    BY <1>2, <1>7 DEF Budget
  <2> QED
    BY <1>1, <1>3, <1>4, <1>5, <2>4, <2>5, SpendTypes DEF Outlay
<1>8. CASE FireOf[l] # f
  <2>1. Allowed(l)' = Allowed(l)
    BY <1>1, <1>6, <1>8, SpendTypes DEF Allowed, Budget
  <2>2. fire'.remaining[l] * Cap[l] = 0
    BY <1>2, <1>8, SpendTypes
  <2> QED
    BY <1>1, <1>3, <1>4, <1>5, <2>1, <2>2 DEF Outlay
<1> QED
  BY <1>7, <1>8

LEMMA SpendPlanned == ASSUME IInv, Spend, PlanRung PROVE Spend'
<1>1. UNCHANGED <<order, spent, resting, unheard, starts>>
  BY DEF PlanRung, ghosts
<1>2. ASSUME NEW l \in Legs PROVE fire'.limit[l] <= Cap[l]
  <2>1. fire'.limit[l] = IF fire.remaining[l] > 0 /\ Takeable(l) THEN LimitAt(l, fire.rung + 1) ELSE 0
    BY PlanFields DEF IInv
  <2>2. Takeable(l) => Best(Token[l]) \in Nat
    BY BestIsAsk, Parameters DEF Takeable
  <2> QED
    BY <2>1, <2>2, Parameters DEF LimitAt, Least
<1> QED
  BY <1>1, <1>2, PlanFields, SpendSame DEF IInv

LEMMA SpendSkipped ==
    ASSUME IInv, Spend, NEW l \in Legs, PaperDone(l) \/ LiveSkip(l) PROVE Spend'
<1>1. UNCHANGED <<order, spent, resting, unheard, starts>>
  BY DEF PaperDone, LiveSkip, ghosts
<1>2. \A k \in Legs : fire'.remaining[k] = fire.remaining[k] /\ fire'.limit[k] <= Cap[k]
  BY SkipFields, SpendTypes DEF Spend, Wanted, IInv
<1> QED
  BY <1>1, <1>2, SpendSame

(* Paper pays for n shares no more than they were allotted at the cap. *)
LEMMA SpendPaper == ASSUME IInv, Shape, Spend, NEW l \in Legs, PaperLevel(l) PROVE Spend'
<1>1. PICK n, p \in Nat : /\ n <= fire.remaining[l] /\ p <= fire.limit[l]
                          /\ fire' = Filled(l, n, n * p)
                          /\ spent' = [spent EXCEPT ![l] = @ + n * p]
  BY PaperEats
<1> DEFINE c == n * p
<1>2. c \in Nat /\ fire' = Filled(l, n, c) /\ spent' = [spent EXCEPT ![l] = @ + c]
  BY <1>1
<1>3. c <= n * Cap[l]
  <2>1. p <= Cap[l] /\ Cap[l] \in Nat
    BY <1>1, SpendTypes DEF Spend, Wanted
  <2> QED
    BY <1>1, <2>1, Products
<1> HIDE DEF c
<1>4. UNCHANGED <<order, resting, unheard, starts>> /\ order = NoOrder
  BY PaperEats DEF Shape, Posted
<1> SUFFICES ASSUME NEW k \in Legs PROVE (Wanted(k) /\ Outlay(k) <= Allowed(k))'
  BY DEF Spend
<1>5. /\ fire'.limit[k] = fire.limit[k]
      /\ fire'.remaining[k] = IF k = l THEN fire.remaining[k] - n ELSE fire.remaining[k]
  <2>1. fire.remaining[l] \in Nat
    BY SpendTypes
  <2> QED
    BY <1>1, <1>2, <2>1, PaperFields
<1>6. order.leg # k /\ InHand(k) = 0 /\ InHand(k)' = 0
  BY <1>4, IdleFields DEF InHand
<1>7. spent'[k] = spent[k] + (IF k = l THEN c ELSE 0)
  BY <1>2 DEF IInv, TypeOK
<1>8. Wanted(k)'
  BY <1>1, <1>4, <1>5, <1>6, SpendTypes DEF Spend, Wanted
<1>9. Allowed(k)' = Allowed(k) /\ Outlay(k) <= Allowed(k)
  BY <1>4 DEF Spend, Allowed, Budget
<1>10. CASE k = l
  <2> DEFINE left == fire.remaining[k] * Cap[k]
             used == n * Cap[k]
  <2>1. fire'.remaining[k] * Cap[k] = left - used /\ left \in Nat /\ used \in Nat
    BY <1>1, <1>5, <1>10, SpendTypes, Products
  <2>2. c <= used
    BY <1>3, <1>10
  <2> HIDE DEF left, used
  <2>3. Outlay(k)' = (spent[k] + c) + resting[k] + (left - used)
    BY <1>4, <1>6, <1>7, <1>10, <2>1, <1>2, SpendTypes DEF Outlay
  <2>4. Outlay(k) = spent[k] + resting[k] + left
    BY <1>6, SpendTypes DEF Outlay, left
  <2> QED
    BY <1>2, <1>8, <1>9, <2>1, <2>2, <2>3, <2>4, SpendTypes
<1>11. CASE k # l
  BY <1>4, <1>5, <1>6, <1>7, <1>8, <1>9, <1>11, SpendTypes DEF Outlay
<1> QED
  BY <1>10, <1>11

(* An order carries what its leg may still spend; what it fills is paid in hand. *)
LEMMA SpendPosted == ASSUME IInv, Spend, NEW l \in Legs, LivePost(l) PROVE Spend'
<1> DEFINE amount == fire.remaining[l] * fire.limit[l]
           left == fire.remaining[l] * Cap[l]
<1>1. PICK p \in 1..fire.limit[l] : \E n \in 0..amount :
          /\ n * p <= amount
          /\ order' = [leg |-> l, shares |-> n, paid |-> n * p, open |-> amount - n * p]
          /\ spent' = [spent EXCEPT ![l] = @ + n * p]
  BY DEF LivePost, MarketAmount
<1>2. PICK n \in 0..amount :
          /\ n * p <= amount
          /\ order' = [leg |-> l, shares |-> n, paid |-> n * p, open |-> amount - n * p]
          /\ spent' = [spent EXCEPT ![l] = @ + n * p]
  BY <1>1
<1>3. /\ fire.remaining[l] \in Nat /\ fire.limit[l] \in Nat /\ Cap[l] \in Nat
      /\ fire.limit[l] <= Cap[l] /\ fire.remaining[l] <= Target[l]
  BY SpendTypes DEF Spend, Wanted
<1>4. amount \in Nat /\ left \in Nat /\ amount <= left
  BY <1>3, Products
<1> HIDE DEF amount
<1>5. n \in Nat /\ p \in Nat /\ p <= Cap[l]
  BY <1>3, <1>4
<1> DEFINE c == n * p
           used == n * Cap[l]
<1>6. c \in Nat /\ used \in Nat /\ c <= used /\ c <= amount
  BY <1>2, <1>3, <1>5, Products
<1>7. /\ order'.leg = l /\ order'.shares = n /\ order'.paid = c /\ order'.open = amount - c
      /\ spent' = [spent EXCEPT ![l] = @ + c]
  BY <1>2
<1>8. c + Rest(l, n) * Cap[l] <= left
  <2>1. CASE n < fire.remaining[l]
    <3>1. (fire.remaining[l] - n) * Cap[l] = left - used
      <4>1. n <= fire.remaining[l]
        BY <1>3, <1>5, <2>1
      <4> QED
        BY <1>3, <1>5, <4>1, Products
    <3> HIDE DEF c, used, left
    <3> QED
      BY <1>4, <1>6, <2>1, <3>1 DEF Rest
  <2>2. CASE ~ (n < fire.remaining[l])
    <3>1. Rest(l, n) * Cap[l] = 0
      BY <1>3, <2>2 DEF Rest
    <3> HIDE DEF c, used, left
    <3> QED
      BY <1>4, <1>6, <3>1
  <2> QED
    BY <2>1, <2>2
<1> HIDE DEF c, used
<1>9. order = NoOrder /\ UNCHANGED <<fire, resting, starts, unheard>>
  BY DEF LivePost
<1> SUFFICES ASSUME NEW k \in Legs PROVE (Wanted(k) /\ Outlay(k) <= Allowed(k))'
  BY DEF Spend
<1>10. Wanted(k) /\ Outlay(k) <= Allowed(k) /\ Allowed(k)' = Allowed(k)
  BY <1>9 DEF Spend, Allowed, Budget
<1>11. CASE k = l
  <2>1. Wanted(k)'
    <3>1. order'.paid + order'.open <= left
      BY <1>4, <1>6, <1>7
    <3>2. order'.paid + Rest(l, order.shares)' * Cap[l] <= left
      <4>1. Rest(l, order.shares)' = Rest(l, n)
        BY <1>7, <1>9 DEF Rest
      <4> QED
        BY <1>7, <1>8, <4>1
    <3> QED
      BY <1>3, <1>9, <1>11, <3>1, <3>2 DEF Wanted
  <2>2. spent'[k] - InHand(k)' = spent[k] - InHand(k)
    <3>1. InHand(k)' = c /\ InHand(k) = 0
      BY <1>7, <1>9, <1>11, IdleFields DEF InHand
    <3>2. spent'[k] = spent[k] + c
      BY <1>7, <1>11 DEF IInv, TypeOK
    <3> QED
      BY <1>6, <3>1, <3>2, SpendTypes
  <2>3. Outlay(k)' = Outlay(k)
    BY <1>9, <2>2 DEF Outlay
  <2> QED
    BY <1>10, <2>1, <2>3
<1>12. CASE k # l
  <2>1. order'.leg # k /\ order.leg # k /\ spent'[k] = spent[k]
    BY <1>7, <1>9, <1>12, IdleFields DEF IInv, TypeOK
  <2>2. Wanted(k)'
    BY <1>9, <1>10, <2>1 DEF Wanted
  <2>3. InHand(k)' = 0 /\ InHand(k) = 0
    BY <2>1 DEF InHand
  <2>4. Outlay(k)' = Outlay(k)
    BY <1>9, <2>1, <2>3 DEF Outlay
  <2> QED
    BY <1>10, <2>2, <2>4
<1> QED
  BY <1>11, <1>12

LEMMA LeftBehindFields ==
    ASSUME IInv, LeftBehind
    PROVE  \E rest \in Nat : /\ order # NoOrder => rest <= order.open
                             /\ \A k \in Legs : resting'[k] = resting[k] + (IF order.leg = k THEN rest ELSE 0)
<1>1. CASE order = NoOrder
  <2>1. \A k \in Legs : order.leg # k /\ resting'[k] = resting[k] /\ resting[k] \in Nat
    BY <1>1, IdleFields DEF LeftBehind, IInv, TypeOK
  <2>2. \A k \in Legs : resting'[k] = resting[k] + (IF order.leg = k THEN 0 ELSE 0)
    BY <2>1
  <2> QED
    BY <1>1, <2>2
<1>2. CASE order # NoOrder
  <2>1. PICK rest \in {0, order.open} : resting' = [resting EXCEPT ![order.leg] = @ + rest]
    BY <1>2 DEF LeftBehind
  <2>2. rest \in Nat /\ rest <= order.open /\ order.leg \in Legs
    BY <1>2 DEF IInv, TypeOK, OrderType, Placed
  <2>3. \A k \in Legs : resting'[k] = resting[k] + (IF order.leg = k THEN rest ELSE 0)
    BY <2>1, <2>2 DEF IInv, TypeOK
  <2> QED
    BY <2>2, <2>3
<1> QED
  BY <1>1, <1>2

(* An order whose report is believed gives back what it did not pay; one unheard of gives   *)
(* nothing back, and brings a budget more.                                                  *)
LEMMA SpendHeard ==
    ASSUME IInv, Shape, Spend, Reported \/ CostUnknown \/ ReportLost \/ TimeOut
    PROVE  Spend'
<1>1. PICK n, c : /\ Heard(n, c)
                  /\ \/ n = order.shares /\ UNCHANGED <<resting, unheard>>
                     \/ LeftBehind /\ unheard' = [unheard EXCEPT ![order.leg] = @ + 1]
  BY Hearing
<1>2. /\ order # NoOrder /\ Answered(n, c) /\ n \in Nat /\ c \in Nat /\ n <= order.shares
      /\ UNCHANGED <<spent, starts>> /\ order.leg \in Legs
  BY <1>1 DEF Heard, IInv, Placed
<1> DEFINE l == order.leg
<1>3. /\ order' = NoOrder
      /\ \A k \in Legs : /\ fire'.limit[k] = IF k = l THEN 0 ELSE fire.limit[k]
                         /\ fire'.remaining[k] = IF k = l THEN Rest(l, n) ELSE fire.remaining[k]
  BY <1>2, AnsweredFields DEF IInv, Rest
<1>4. l \in Legs /\ l = order.leg
  BY <1>2
<1> HIDE DEF l
<1> SUFFICES ASSUME NEW k \in Legs PROVE (Wanted(k) /\ Outlay(k) <= Allowed(k))'
  BY DEF Spend
<1>5. Wanted(k) /\ Outlay(k) <= Allowed(k)
  BY DEF Spend
<1>6. /\ Rest(l, n) \in Nat /\ Rest(l, n) <= fire.remaining[l]
      /\ Rest(l, n) * Cap[l] \in Nat /\ Rest(l, n) * Cap[l] <= fire.remaining[l] * Cap[l]
  <2>1. Rest(l, n) \in Nat /\ Rest(l, n) <= fire.remaining[l]
    BY <1>2, <1>4, SpendTypes DEF Rest
  <2> QED
    BY <1>4, <2>1, SpendTypes, Products
<1>7. Wanted(k)'
  BY <1>3, <1>5, <1>6, SpendTypes, IdleFields DEF Wanted
<1>8. InHand(k)' = 0
  BY <1>3, IdleFields DEF InHand
<1>9. CASE k # l
  <2>1. resting'[k] = resting[k] /\ unheard'[k] = unheard[k]
    <3>1. CASE UNCHANGED <<resting, unheard>>
      BY <3>1
    <3>2. CASE LeftBehind /\ unheard' = [unheard EXCEPT ![order.leg] = @ + 1]
      BY <1>4, <1>9, <3>2, LeftBehindFields, SpendTypes DEF IInv, TypeOK
    <3> QED
      BY <1>1, <3>1, <3>2
  <2>2. InHand(k) = 0 /\ fire'.remaining[k] = fire.remaining[k]
    BY <1>3, <1>4, <1>9 DEF InHand
  <2>3. Outlay(k)' = Outlay(k) /\ Allowed(k)' = Allowed(k)
    BY <1>2, <1>8, <2>1, <2>2 DEF Outlay, Allowed, Budget
  <2> QED
    BY <1>5, <1>7, <2>3
<1>10. CASE k = l
  <2> DEFINE left == fire.remaining[k] * Cap[k]
             over == Rest(k, n) * Cap[k]
  <2>1. /\ left \in Nat /\ over \in Nat /\ over <= left
        /\ order.paid + order.open <= left
        /\ n = order.shares => order.paid + over <= left
    BY <1>4, <1>5, <1>6, <1>10, SpendTypes DEF Wanted
  <2>2. InHand(k) = order.paid
    BY <1>4, <1>10 DEF InHand
  <2>3. Outlay(k) = (spent[k] - order.paid) + resting[k] + left
    BY <2>2 DEF Outlay
  <2>4. Outlay(k)' = spent[k] + resting'[k] + over
    <3>1. Outlay(k)' = (spent'[k] - InHand(k)') + resting'[k] + fire'.remaining[k] * Cap[k]
      BY DEF Outlay
    <3>2. fire'.remaining[k] * Cap[k] = over
      BY <1>3, <1>10
    <3> HIDE DEF over
    <3> QED
      BY <1>2, <1>8, <3>1, <3>2, SpendTypes
  <2> HIDE DEF left, over
  <2>5. CASE n = order.shares /\ UNCHANGED <<resting, unheard>>
    <3>1. Allowed(k)' = Allowed(k)
      BY <1>2, <2>5 DEF Allowed, Budget
    <3> QED
      BY <1>5, <1>7, <2>1, <2>3, <2>4, <2>5, <3>1, SpendTypes
  <2>6. CASE LeftBehind /\ unheard' = [unheard EXCEPT ![order.leg] = @ + 1]
    <3>1. PICK rest \in Nat : rest <= order.open /\ resting'[k] = resting[k] + rest
      BY <1>2, <1>4, <1>10, <2>6, LeftBehindFields
    <3>2. Allowed(k)' = Allowed(k) + Budget(k)
      <4> DEFINE m == starts[FireOf[k]] + unheard[k]
      <4>1. m \in Nat /\ Budget(k) \in Nat
        BY SpendTypes
      <4>2. starts'[FireOf[k]] + unheard'[k] = m + 1
        <5>1. starts[FireOf[k]] \in Nat /\ unheard[k] \in Nat
          BY SpendTypes
        <5>2. starts'[FireOf[k]] = starts[FireOf[k]] /\ unheard'[k] = unheard[k] + 1
          BY <1>2, <1>4, <1>10, <2>6 DEF IInv, TypeOK
        <5> QED
          BY <5>1, <5>2
      <4>3. Allowed(k)' = (starts'[FireOf[k]] + unheard'[k]) * Budget(k)
        BY DEF Allowed, Budget
      <4>4. Allowed(k) = m * Budget(k)
        BY DEF Allowed
      <4> HIDE DEF m
      <4> QED
        BY <4>1, <4>2, <4>3, <4>4, Products
    <3>3. left <= Budget(k)
      BY <1>5, SpendTypes, Products DEF Wanted, Budget, left
    <3> QED
      BY <1>5, <1>7, <2>1, <2>3, <2>4, <3>1, <3>2, <3>3, SpendTypes
  <2> QED
    BY <1>1, <2>5, <2>6
<1> QED
  BY <1>9, <1>10

(* What rests was counted before it filled. *)
LEMMA SpendRested == ASSUME IInv, Spend, NEW l \in Legs, RestingFills(l) PROVE Spend'
<1>1. PICK p \in 1..Cap[l] : \E n \in 1..resting[l] :
          /\ n * p <= resting[l]
          /\ resting' = [resting EXCEPT ![l] = @ - n * p]
          /\ spent' = [spent EXCEPT ![l] = @ + n * p]
  BY DEF RestingFills
<1>2. PICK n \in 1..resting[l] :
          /\ n * p <= resting[l]
          /\ resting' = [resting EXCEPT ![l] = @ - n * p]
          /\ spent' = [spent EXCEPT ![l] = @ + n * p]
  BY <1>1
<1> DEFINE c == n * p
<1>3. c \in Nat
  BY SpendTypes, Products
<1>4. resting' = [resting EXCEPT ![l] = @ - c] /\ spent' = [spent EXCEPT ![l] = @ + c]
  BY <1>2
<1> HIDE DEF c
<1>5. UNCHANGED <<fire, order, starts, unheard>>
  BY DEF RestingFills
<1> SUFFICES ASSUME NEW k \in Legs PROVE (Wanted(k) /\ Outlay(k) <= Allowed(k))'
  BY DEF Spend
<1>6. Wanted(k)' /\ Outlay(k) <= Allowed(k) /\ Allowed(k)' = Allowed(k) /\ InHand(k)' = InHand(k)
  BY <1>5 DEF Spend, Wanted, Rest, Allowed, Budget, InHand
<1>7. spent'[k] + resting'[k] = spent[k] + resting[k]
  BY <1>3, <1>4, SpendTypes DEF IInv, TypeOK
<1>8. spent'[k] \in Int /\ resting'[k] \in Int
  BY <1>3, <1>4, SpendTypes DEF IInv, TypeOK
<1> DEFINE left == fire.remaining[k] * Cap[k]
<1>9. left \in Nat /\ Outlay(k) = (spent[k] - InHand(k)) + resting[k] + left
      /\ Outlay(k)' = (spent'[k] - InHand(k)) + resting'[k] + left
  <2>1. Outlay(k)' = (spent'[k] - InHand(k)') + resting'[k] + fire'.remaining[k] * Cap[k]
    BY DEF Outlay
  <2>2. Outlay(k) = (spent[k] - InHand(k)) + resting[k] + left /\ left \in Nat
    BY SpendTypes DEF Outlay
  <2> QED
    BY <1>5, <1>6, <2>1, <2>2
<1> HIDE DEF left
<1>10. Outlay(k)' = Outlay(k)
  <2>1. spent[k] \in Nat /\ resting[k] \in Nat /\ InHand(k) \in Nat
    BY SpendTypes
  <2> QED
    BY <1>7, <1>8, <1>9, <2>1
<1> QED
  BY <1>6, <1>10

(* A fire that ends wants no more; the rest of its order may stay at the venue. *)
LEMMA SpendDropped ==
    ASSUME IInv, Spend, fire' = Idle, order' = NoOrder, UNCHANGED <<spent, starts, unheard>>,
           LeftBehind \/ (order = NoOrder /\ resting' = resting)
    PROVE  Spend'
<1> SUFFICES ASSUME NEW k \in Legs PROVE (Wanted(k) /\ Outlay(k) <= Allowed(k))'
  BY DEF Spend
<1>1. PICK rest \in Nat : /\ order.leg = k => rest <= order.open
                          /\ resting'[k] = resting[k] + (IF order.leg = k THEN rest ELSE 0)
  <2>1. CASE LeftBehind
    BY <2>1, LeftBehindFields, IdleFields
  <2>2. CASE order = NoOrder /\ resting' = resting
    BY <2>2, IdleFields, SpendTypes
  <2> QED
    BY <2>1, <2>2
<1>2. fire'.remaining[k] = 0 /\ fire'.limit[k] = 0 /\ order'.leg # k
  BY IdleFields
<1>3. Wanted(k)' /\ InHand(k)' = 0 /\ Allowed(k)' = Allowed(k)
  BY <1>2, SpendTypes DEF Wanted, InHand, Allowed, Budget
<1> DEFINE left == fire.remaining[k] * Cap[k]
<1>4. left \in Nat /\ Outlay(k) = (spent[k] - InHand(k)) + resting[k] + left
  BY SpendTypes DEF Outlay
<1>5. Outlay(k) <= Allowed(k) /\ (order.leg = k => order.paid + order.open <= left)
  BY DEF Spend, Wanted
<1> HIDE DEF left
<1>6. Outlay(k)' = spent[k] + resting'[k]
  <2>1. fire'.remaining[k] * Cap[k] = 0
    BY <1>2, SpendTypes
  <2>2. Outlay(k)' = (spent'[k] - InHand(k)') + resting'[k] + fire'.remaining[k] * Cap[k]
    BY DEF Outlay
  <2> QED
    BY <1>1, <1>3, <2>1, <2>2, SpendTypes
<1>7. CASE order.leg = k
  <2>1. InHand(k) = order.paid /\ rest <= order.open /\ resting'[k] = resting[k] + rest
    BY <1>1, <1>7 DEF InHand
  <2> QED
    BY <1>3, <1>4, <1>5, <1>6, <1>7, <2>1, SpendTypes
<1>8. CASE order.leg # k
  <2>1. InHand(k) = 0 /\ resting'[k] = resting[k]
    BY <1>1, <1>8, SpendTypes DEF InHand
  <2> QED
    BY <1>3, <1>4, <1>5, <1>6, <2>1, SpendTypes
<1> QED
  BY <1>7, <1>8

LEMMA SpendInit == Init => Spend
<1> SUFFICES ASSUME Init, NEW l \in Legs PROVE Wanted(l) /\ Outlay(l) <= Allowed(l)
  BY DEF Spend
<1>1. /\ order.leg # l /\ fire.remaining[l] = 0 /\ fire.limit[l] = 0
      /\ spent[l] = 0 /\ resting[l] = 0 /\ unheard[l] = 0 /\ starts[FireOf[l]] = 0
  BY IdleFields, Parameters DEF Init, Zero
<1>2. Cap[l] \in Nat /\ Target[l] \in Nat /\ Budget(l) \in Nat
  BY Parameters, Products DEF Budget
<1>3. fire.remaining[l] * Cap[l] = 0 /\ Allowed(l) = 0 /\ InHand(l) = 0
  BY <1>1, <1>2 DEF Allowed, InHand
<1> QED
  BY <1>1, <1>2, <1>3 DEF Wanted, Outlay

LEMMA SpendKept == IInv /\ Shape /\ Spend /\ [Next]_vars => Spend'
<1> SUFFICES ASSUME IInv, Shape, Spend, [Next]_vars PROVE Spend'
  OBVIOUS
<1>0. \A l \in Legs : fire.limit[l] <= Cap[l]
  BY DEF Spend, Wanted
<1>1. CASE BeginCycle \/ EndCycle \/ UNCHANGED vars \/ \E f \in Fires : RefuseFire(f)
  <2>1. UNCHANGED <<fire, order, spent, resting, unheard, starts>>
    BY <1>1 DEF BeginCycle, EndCycle, vars, ghosts, RefuseFire
  <2> QED
    BY <1>0, <2>1, SpendSame
<1>2. ASSUME NEW f \in Fires, StartFire(f) PROVE Spend'
  BY <1>2, SpendStarted
<1>3. CASE PlanRung
  BY <1>3, SpendPlanned
<1>4. CASE Conclude \/ StandDown \/ SaleRaises \/ AuditFails \/ Crash
  <2>1. UNCHANGED <<spent, starts, unheard>> /\ fire' = Idle /\ order' = NoOrder
    BY <1>4 DEF Conclude, StandDown, SaleRaises, Between, AuditFails, Crash
  <2>2. LeftBehind \/ (order = NoOrder /\ resting' = resting)
    BY <1>4 DEF Conclude, StandDown, SaleRaises, Between, AuditFails, Crash
  <2> QED
    BY <2>1, <2>2, SpendDropped
<1>5. ASSUME NEW l \in Legs, PaperLevel(l) \/ PaperDone(l) \/ LiveSkip(l) \/ LivePost(l) \/ RestingFills(l)
      PROVE Spend'
  BY <1>5, SpendPaper, SpendSkipped, SpendPosted, SpendRested
<1>6. CASE Reported \/ CostUnknown \/ ReportLost \/ TimeOut
  BY <1>6, SpendHeard
<1>7. CASE Fund
  <2>1. fire'.remaining = fire.remaining /\ fire'.limit = fire.limit /\ UNCHANGED <<order, resting, ghosts>>
    BY <1>7, FundFields DEF IInv
  <2> QED
    BY <1>0, <2>1, SpendSame DEF ghosts
<1> QED
  BY <1>1, <1>2, <1>3, <1>4, <1>5, <1>6, <1>7 DEF Next

LEMMA SpendHolds == Spec => [](IInv /\ Shape /\ Spend)
  BY InitInv, Inductive, ShapeInit, ShapeKept, SpendInit, SpendKept, PTL DEF Spec

(* However often the ladder, the port and the venue retry, a leg costs at most one budget   *)
(* for every time its fire started and one for every order nobody heard of.                 *)
THEOREM SpendWithinBudgets == Spec => []SpendBounded
  BY SpendHolds, SpendEnough, PTL

-----------------------------------------------------------------------------
(* Where the shares are.                                                                    *)
Saved ==
    \A l \in Legs :
        /\ l \in disk.recorded => l \in state.recorded /\ disk.shares[l] = state.shares[l]
        /\ l \notin state.recorded => state.shares[l] = 0
        /\ l \notin disk.recorded => disk.shares[l] = 0
Placement ==
    cfg.mode = "live" => \A l \in Legs : wallet[l] = state.shares[l] + InFlight(l) + lost[l]
(* As long as nothing has failed: a mark tells of every start, nothing rests, and shares    *)
(* are lost only with fires that are over and left no position.                             *)
Clean ==
    faults = 0 =>
        /\ \A f \in Fires : undone[f] = 0
        /\ \A l \in Legs : /\ resting[l] = 0
                           /\ l \in state.recorded \/ FireOf[l] = fire.id => lost[l] = 0
                           /\ lost[l] > 0 => starts[FireOf[l]] > 0

Wallet == Saved /\ Placement /\ Clean

LEMMA WalletTypes ==
    ASSUME IInv, NEW l \in Legs
    PROVE  /\ wallet[l] \in Nat /\ state.shares[l] \in Nat /\ disk.shares[l] \in Nat
           /\ lost[l] \in Nat /\ resting[l] \in Nat /\ fire.filled[l] \in Nat
           /\ InFlight(l) \in Nat /\ FireOf[l] \in Fires /\ order.shares \in Nat
           /\ starts[FireOf[l]] \in Nat /\ Forgotten[l] \in Nat /\ faults \in Nat
           /\ Forgotten[l] = IF cfg.mode = "live" THEN lost[l] + InFlight(l) ELSE lost[l]
<1>1. /\ wallet[l] \in Nat /\ state.shares[l] \in Nat /\ disk.shares[l] \in Nat
      /\ lost[l] \in Nat /\ resting[l] \in Nat /\ fire.filled[l] \in Nat
      /\ FireOf[l] \in Fires /\ order.shares \in Nat /\ starts[FireOf[l]] \in Nat /\ faults \in Nat
  BY Parameters DEF IInv, TypeOK, LedgerType, FireType, OrderType
<1>2. InFlight(l) \in Nat
  BY <1>1 DEF InFlight
<1>3. Forgotten[l] = IF cfg.mode = "live" THEN lost[l] + InFlight(l) ELSE lost[l]
  BY DEF Forgotten
<1> QED
  BY <1>1, <1>2, <1>3

(* What is in flight belongs to the fire at work, whose legs are not on record. *)
LEMMA InFlightOwn ==
    ASSUME IInv, Shape, Marks, NEW l \in Legs, InFlight(l) > 0
    PROVE  FireOf[l] = fire.id /\ fire.id \in Fires /\ l \notin state.recorded /\ starts[FireOf[l]] > 0
<1>1. fire.filled[l] > 0 \/ order.leg = l
  BY WalletTypes DEF InFlight
<1>2. FireOf[l] = fire.id
  <2>1. CASE fire.filled[l] > 0
    BY <2>1 DEF Shape, Own
  <2>2. CASE order.leg = l
    <3>1. order # NoOrder
      BY <2>2, IdleFields
    <3>2. fire.limit[l] > 0
      BY <2>2, <3>1 DEF Shape, Posted
    <3> QED
      BY <3>2 DEF Shape, Own
  <2> QED
    BY <1>1, <2>1, <2>2
<1>3. fire.id \in Fires
  BY <1>2, WalletTypes
<1> QED
  BY <1>2, <1>3 DEF Marks, Fresh, OneLane

LEMMA WalletEnough == ASSUME IInv, Shape, Marks, Wallet PROVE WalletExplained
<1> SUFFICES ASSUME cfg.mode = "live"
             PROVE  /\ \A l \in Legs : wallet[l] = state.shares[l] + InFlight(l) + lost[l]
                    /\ faults = 0 => \A l \in state.recorded : wallet[l] = state.shares[l]
  BY DEF WalletExplained
<1>1. ASSUME faults = 0, NEW l \in state.recorded PROVE wallet[l] = state.shares[l]
  <2>1. l \in Legs
    BY DEF IInv, TypeOK, LedgerType
  <2>2. lost[l] = 0
    BY <1>1, <2>1 DEF Wallet, Clean
  <2>3. InFlight(l) = 0
    BY <2>1, InFlightOwn, WalletTypes
  <2> QED
    BY <2>1, <2>2, <2>3, WalletTypes DEF Wallet, Placement
<1> QED
  BY <1>1 DEF Wallet, Placement

LEMMA WalletSame ==
    ASSUME Wallet, UNCHANGED <<cfg, order, wallet, resting, undone, lost, starts, faults>>,
           fire'.id = fire.id, fire'.filled = fire.filled,
           \/ UNCHANGED <<state, disk>>
           \/ state' = state /\ disk' = state
           \/ disk' = disk /\ state'.recorded = state.recorded /\ state'.shares = state.shares
    PROVE  Wallet'
<1>1. Saved'
  BY DEF Wallet, Saved
<1>2. Placement'
  BY DEF Wallet, Placement, InFlight
<1>3. Clean'
  BY DEF Wallet, Clean
<1> QED
  BY <1>1, <1>2, <1>3 DEF Wallet

LEMMA WalletRefused == ASSUME IInv, Wallet, NEW f \in Fires, RefuseFire(f) PROVE Wallet'
<1> DEFINE st == Stamped(f)
<1>1. /\ state' = StoodDown(st, f)
      /\ UNCHANGED <<cfg, disk, fire, order, wallet, resting, undone, lost, starts, faults>>
  BY DEF RefuseFire, ghosts
<1>2. st.recorded = state.recorded /\ st.shares = state.shares /\ st \in LedgerType
  BY StampedFields, StampedType DEF IInv, TypeOK
<1> HIDE DEF st
<1>3. state'.recorded = state.recorded /\ state'.shares = state.shares
  BY <1>1, <1>2, StoodDownFields
<1> QED
  BY <1>1, <1>3, WalletSame

LEMMA WalletStarted ==
    ASSUME IInv, Shape, Marks, Wallet, NEW f \in Fires, StartFire(f) PROVE Wallet'
<1>1. /\ order = NoOrder /\ fire = Idle /\ fire'.id = f /\ Raised(f) /\ state' = Stamped(f)
      /\ UNCHANGED <<cfg, disk, order, wallet, resting, undone, lost, faults>>
      /\ starts' = [starts EXCEPT ![f] = @ + 1]
      /\ \A l \in Legs : fire'.filled[l] = 0 /\ fire.filled[l] = 0
  <2>1. fire = Idle /\ fire'.id = f /\ \A l \in Legs : fire'.filled[l] = 0
    BY StartFields
  <2>2. order = NoOrder /\ \A l \in Legs : fire.filled[l] = 0
    BY <2>1, ShapeIdle, IdleFields
  <2> QED
    BY <2>1, <2>2 DEF StartFire
<1>2. state'.recorded = state.recorded /\ state'.shares = state.shares
  BY <1>1, StampedFields DEF IInv, TypeOK
<1>3. Saved'
  BY <1>1, <1>2 DEF Wallet, Saved
<1>4. Placement'
  BY <1>1, <1>2 DEF Wallet, Placement, InFlight
<1>5. Clean'
  <2> SUFFICES ASSUME faults = 0, NEW l \in Legs
               PROVE  /\ l \in state.recorded \/ FireOf[l] = f => lost[l] = 0
                      /\ lost[l] > 0 => starts'[FireOf[l]] > 0
    BY <1>1, <1>2 DEF Wallet, Clean
  <2>1. /\ l \in state.recorded => lost[l] = 0
        /\ lost[l] > 0 => starts[FireOf[l]] > 0
        /\ undone[f] = 0
    BY DEF Wallet, Clean
  <2>2. starts[f] = 0
    <3>1. ~ Marked(f) /\ starts[f] \in Nat
      BY <1>1, RaisedFacts DEF IInv, TypeOK
    <3> QED
      BY <2>1, <3>1 DEF Marks, Once
  <2>3. lost[l] \in Nat /\ FireOf[l] \in Fires /\ starts[FireOf[l]] \in Nat
    BY WalletTypes
  <2>4. starts'[FireOf[l]] >= starts[FireOf[l]]
    BY <1>1, <2>3 DEF IInv, TypeOK
  <2>5. starts'[FireOf[l]] \in Nat
    BY <1>1, <2>3 DEF IInv, TypeOK
  <2> QED
    BY <2>1, <2>2, <2>3, <2>4, <2>5
<1> QED
  BY <1>3, <1>4, <1>5 DEF Wallet

LEMMA WalletPaper == ASSUME IInv, Wallet, NEW l \in Legs, PaperLevel(l) PROVE Wallet'
<1>1. /\ cfg.mode = "paper"
      /\ UNCHANGED <<cfg, state, disk, wallet, resting, undone, lost, starts, faults>>
  BY DEF PaperLevel
<1>2. PICK n, p \in Nat : fire' = Filled(l, n, n * p)
  BY PaperEats
<1> DEFINE c == n * p
<1>3. c \in Nat /\ fire' = Filled(l, n, c)
  BY <1>2
<1> HIDE DEF c
<1>4. fire'.id = fire.id
  BY <1>3, PaperFields
<1> QED
  BY <1>1, <1>4 DEF Wallet, Saved, Placement, Clean

LEMMA WalletPosted == ASSUME IInv, Wallet, NEW l \in Legs, LivePost(l) PROVE Wallet'
<1>1. PICK p \in 1..fire.limit[l] : \E n \in 0..MarketAmount(l) :
          /\ order' = [leg |-> l, shares |-> n, paid |-> n * p, open |-> MarketAmount(l) - n * p]
          /\ wallet' = [wallet EXCEPT ![l] = @ + n]
  BY DEF LivePost
<1>2. PICK n \in 0..MarketAmount(l) :
          /\ order' = [leg |-> l, shares |-> n, paid |-> n * p, open |-> MarketAmount(l) - n * p]
          /\ wallet' = [wallet EXCEPT ![l] = @ + n]
  BY <1>1
<1>3. n \in Nat
  <2>1. fire.limit[l] \in Nat /\ fire.remaining[l] \in Nat
    BY DEF IInv, TypeOK, FireType
  <2>2. MarketAmount(l) \in Nat
    BY <2>1, Products DEF MarketAmount
  <2> QED
    BY <2>2
<1>4. order'.leg = l /\ order'.shares = n
  BY <1>2
<1>5. order = NoOrder
      /\ UNCHANGED <<cfg, state, disk, fire, resting, undone, lost, starts, faults>>
  BY DEF LivePost
<1>6. Placement'
  <2> SUFFICES ASSUME cfg.mode = "live", NEW k \in Legs
               PROVE  wallet'[k] = state.shares[k] + InFlight(k)' + lost[k]
    BY <1>5 DEF Placement
  <2>1. wallet[k] = state.shares[k] + InFlight(k) + lost[k]
    BY DEF Wallet, Placement
  <2>2. wallet'[k] = wallet[k] + (IF k = l THEN n ELSE 0)
    BY <1>2, <1>3 DEF IInv, TypeOK
  <2>3. InFlight(k)' = InFlight(k) + (IF k = l THEN n ELSE 0)
    <3>1. order.leg # k /\ fire.filled[k] \in Nat
      BY <1>5, IdleFields, WalletTypes
    <3> QED
      BY <1>3, <1>4, <1>5, <3>1 DEF InFlight
  <2> QED
    BY <1>3, <2>1, <2>2, <2>3, WalletTypes
<1> QED
  BY <1>5, <1>6 DEF Wallet, Saved, Clean

LEMMA WalletHeard ==
    ASSUME IInv, Wallet, Reported \/ CostUnknown \/ ReportLost \/ TimeOut
    PROVE  Wallet'
<1>1. PICK n, c : /\ Heard(n, c)
                  /\ \/ faults' = faults /\ n = order.shares /\ resting' = resting
                     \/ faults' = faults + 1
  BY Hearing
<1>2. /\ order # NoOrder /\ Answered(n, c) /\ n \in Nat /\ c \in Nat /\ n <= order.shares
      /\ UNCHANGED <<cfg, state, disk, wallet, starts, undone>> /\ order.leg \in Legs
  BY <1>1 DEF Heard, IInv, Placed
<1>3. /\ fire'.id = fire.id /\ order' = NoOrder
      /\ \A k \in Legs :
            /\ fire'.filled[k] = fire.filled[k] + (IF k = order.leg THEN n ELSE 0)
            /\ lost'[k] = IF k = order.leg THEN lost[k] + order.shares - n ELSE lost[k]
  BY <1>2, AnsweredFields DEF IInv
<1>4. Placement'
  <2> SUFFICES ASSUME cfg.mode = "live", NEW k \in Legs
               PROVE  wallet[k] = state.shares[k] + InFlight(k)' + lost'[k]
    BY <1>2 DEF Placement
  <2>1. wallet[k] = state.shares[k] + InFlight(k) + lost[k]
    BY DEF Wallet, Placement
  <2>2. InFlight(k)' = fire'.filled[k]
    BY <1>2, <1>3, IdleFields, WalletTypes DEF InFlight
  <2>3. InFlight(k) = fire.filled[k] + (IF k = order.leg THEN order.shares ELSE 0)
    BY DEF InFlight
  <2>4. /\ fire.filled[k] \in Nat /\ lost[k] \in Nat /\ order.shares \in Nat /\ state.shares[k] \in Nat
    BY WalletTypes
  <2> QED
    BY <1>2, <1>3, <2>1, <2>2, <2>3, <2>4
<1>5. Clean'
  <2>1. faults \in Nat
    BY DEF IInv, TypeOK
  <2>2. CASE faults' = faults + 1
    BY <2>1, <2>2 DEF Clean
  <2>3. CASE faults' = faults /\ n = order.shares /\ resting' = resting
    <3>1. \A k \in Legs : lost'[k] = lost[k]
      BY <1>3, <2>3, WalletTypes
    <3> QED
      BY <1>2, <1>3, <2>3, <3>1 DEF Wallet, Clean
  <2> QED
    BY <1>1, <2>2, <2>3
<1> QED
  BY <1>2, <1>4, <1>5 DEF Wallet, Saved

LEMMA WalletRested == ASSUME IInv, Wallet, NEW l \in Legs, RestingFills(l) PROVE Wallet'
<1>1. PICK p \in 1..Cap[l] : \E n \in 1..resting[l] :
          /\ wallet' = [wallet EXCEPT ![l] = @ + n]
          /\ lost' = [lost EXCEPT ![l] = @ + n]
  BY DEF RestingFills
<1>2. PICK n \in 1..resting[l] :
          /\ wallet' = [wallet EXCEPT ![l] = @ + n]
          /\ lost' = [lost EXCEPT ![l] = @ + n]
  BY <1>1
<1>3. n \in Nat /\ resting[l] > 0
  BY WalletTypes
<1>4. UNCHANGED <<cfg, state, disk, fire, order, starts, undone, faults>>
  BY DEF RestingFills
<1>5. Placement'
  <2> SUFFICES ASSUME cfg.mode = "live", NEW k \in Legs
               PROVE  wallet'[k] = state.shares[k] + InFlight(k)' + lost'[k]
    BY <1>4 DEF Placement
  <2>1. wallet[k] = state.shares[k] + InFlight(k) + lost[k] /\ InFlight(k)' = InFlight(k)
    BY <1>4 DEF Wallet, Placement, InFlight
  <2>2. /\ wallet'[k] = wallet[k] + (IF k = l THEN n ELSE 0)
        /\ lost'[k] = lost[k] + (IF k = l THEN n ELSE 0)
    BY <1>2, <1>3 DEF IInv, TypeOK
  <2> QED
    BY <1>3, <2>1, <2>2, WalletTypes
<1>6. Clean'
  BY <1>3, <1>4, WalletTypes DEF Wallet, Clean
<1> QED
  BY <1>4, <1>5, <1>6 DEF Wallet, Saved

LEMMA WalletConcluded ==
    ASSUME IInv, Shape, Marks, Wallet, Conclude \/ StandDown PROVE Wallet'
<1> DEFINE f == fire.id
           new == IF fire.funded THEN NewLegs(f) ELSE {}
<1>1. /\ order = NoOrder /\ fire.id # NoFire /\ fire' = Idle
      /\ state' = IF fire.funded THEN Recorded(state, f) ELSE StoodDown(state, f)
      /\ UNCHANGED <<cfg, disk, order, wallet, resting, starts, undone, faults>>
      /\ \A l \in Legs : lost'[l] = IF l \in new THEN lost[l] ELSE Forgotten[l]
  BY DEF Conclude, StandDown, Between
<1>2. state \in LedgerType /\ fire \in FireType /\ f \in Fires /\ f = fire.id
  BY <1>1 DEF IInv, TypeOK, FireType
<1> HIDE DEF f
<1>3. /\ state'.recorded = state.recorded \cup new
      /\ \A l \in Legs : /\ l \in new => state'.shares[l] = fire.filled[l]
                         /\ l \notin new => state'.shares[l] = state.shares[l]
  <2>1. CASE fire.funded
    <3>1. state' = Recorded(state, f) /\ new = NewLegs(f)
      BY <1>1, <2>1
    <3> HIDE DEF new
    <3> QED
      BY <1>2, <3>1, RecordedFields
  <2>2. CASE ~ fire.funded
    BY <1>1, <1>2, <2>2, StoodDownFields
  <2> QED
    BY <2>1, <2>2
<1>4. \A l \in new : l \in Legs /\ FireOf[l] = fire.id /\ l \notin state.recorded
  BY <1>2 DEF NewLegs, LegsOf, Marks, Fresh
<1> HIDE DEF new
<1>5. fire'.id = NoFire /\ \A l \in Legs : fire'.filled[l] = 0 /\ order.leg # l /\ FireOf[l] # NoFire
  BY <1>1, IdleFields, Parameters
<1>6. Saved'
  <2> SUFFICES ASSUME NEW l \in Legs
               PROVE  /\ l \in disk.recorded => l \in state'.recorded /\ disk.shares[l] = state'.shares[l]
                      /\ l \notin state'.recorded => state'.shares[l] = 0
                      /\ l \notin disk.recorded => disk.shares[l] = 0
    BY <1>1 DEF Saved
  <2> QED
    BY <1>3, <1>4 DEF Wallet, Saved
<1>7. Placement'
  <2> SUFFICES ASSUME cfg.mode = "live", NEW l \in Legs
               PROVE  wallet[l] = state'.shares[l] + InFlight(l)' + lost'[l]
    BY <1>1 DEF Placement
  <2>1. wallet[l] = state.shares[l] + InFlight(l) + lost[l]
    BY DEF Wallet, Placement
  <2>2. InFlight(l) = fire.filled[l] /\ InFlight(l)' = 0
    BY <1>1, <1>5, WalletTypes DEF InFlight
  <2>3. l \in new => state.shares[l] = 0
    BY <1>4 DEF Wallet, Saved
  <2> QED
    BY <1>1, <1>3, <2>1, <2>2, <2>3, WalletTypes
<1>8. Clean'
  <2> SUFFICES ASSUME faults = 0, NEW l \in Legs
               PROVE  /\ l \in state'.recorded => lost'[l] = 0
                      /\ lost'[l] > 0 => starts[FireOf[l]] > 0
    BY <1>1, <1>5 DEF Wallet, Clean
  <2>1. /\ l \in state.recorded \/ FireOf[l] = fire.id => lost[l] = 0
        /\ lost[l] > 0 => starts[FireOf[l]] > 0
    BY DEF Wallet, Clean
  <2>2. InFlight(l) > 0 => l \notin state.recorded /\ starts[FireOf[l]] > 0
    BY InFlightOwn
  <2> QED
    BY <1>1, <1>3, <1>4, <2>1, <2>2, WalletTypes
<1> QED
  BY <1>6, <1>7, <1>8 DEF Wallet

LEMMA WalletDropped ==
    ASSUME IInv, Wallet, SaleRaises \/ AuditFails \/ Crash PROVE Wallet'
<1>1. /\ fire' = Idle /\ order' = NoOrder /\ faults' = faults + 1 /\ UNCHANGED <<cfg, disk, wallet>>
      /\ \/ /\ state'.recorded = state.recorded /\ state'.shares = state.shares
            /\ lost' = Forgotten
         \/ /\ state' = disk
            /\ lost' = IF cfg.mode = "live" THEN [l \in Legs |-> Forgotten[l] + Unsaved(l)] ELSE lost
  BY StrandedFields DEF IInv, AuditFails, Crash
<1>2. Clean'
  BY <1>1 DEF Clean, IInv, TypeOK
<1>3. Saved'
  BY <1>1 DEF Wallet, Saved
<1>4. Placement'
  <2> SUFFICES ASSUME cfg.mode = "live", NEW l \in Legs
               PROVE  wallet[l] = state'.shares[l] + InFlight(l)' + lost'[l]
    BY <1>1 DEF Placement
  <2>1. wallet[l] = state.shares[l] + InFlight(l) + lost[l]
    BY DEF Wallet, Placement
  <2>2. InFlight(l)' = 0
    BY <1>1, IdleFields DEF InFlight
  <2>3. CASE state'.shares = state.shares /\ lost' = Forgotten
    BY <2>1, <2>2, <2>3, WalletTypes
  <2>4. CASE state' = disk /\ lost' = [k \in Legs |-> Forgotten[k] + Unsaved(k)]
    <3>1. state.shares[l] = disk.shares[l] + Unsaved(l)
      BY WalletTypes DEF Wallet, Saved, Unsaved
    <3>2. Unsaved(l) \in Nat
      BY WalletTypes DEF Unsaved
    <3> QED
      BY <2>1, <2>2, <2>4, <3>1, <3>2, WalletTypes
  <2> QED
    BY <1>1, <2>3, <2>4
<1> QED
  BY <1>2, <1>3, <1>4 DEF Wallet

LEMMA WalletInit == Init => Wallet
<1> SUFFICES ASSUME Init PROVE Wallet
  OBVIOUS
<1>1. /\ disk = state /\ state.recorded = {} /\ state.shares = Zero
      /\ wallet = Zero /\ resting = Zero /\ lost = Zero
      /\ \A f \in Fires : undone[f] = 0
  BY DEF Init
<1>2. \A l \in Legs : InFlight(l) = 0 /\ Zero[l] = 0
  BY IdleFields DEF Init, InFlight, Zero
<1> QED
  BY <1>1, <1>2 DEF Wallet, Saved, Placement, Clean

LEMMA WalletKept == IInv /\ Shape /\ Marks /\ Wallet /\ [Next]_vars => Wallet'
<1> SUFFICES ASSUME IInv, Shape, Marks, Wallet, [Next]_vars PROVE Wallet'
  OBVIOUS
<1>1. CASE BeginCycle \/ EndCycle \/ UNCHANGED vars
  <2>1. /\ UNCHANGED <<cfg, order, wallet, resting, undone, lost, starts, faults, fire>>
        /\ UNCHANGED <<state, disk>> \/ (state' = state /\ disk' = state)
    BY <1>1 DEF BeginCycle, EndCycle, vars, ghosts
  <2> QED
    BY <2>1, WalletSame
<1>2. ASSUME NEW f \in Fires, StartFire(f) \/ RefuseFire(f) PROVE Wallet'
  BY <1>2, WalletStarted, WalletRefused
<1>3. CASE PlanRung
  <2>1. UNCHANGED <<cfg, state, disk, order, wallet, resting, undone, lost, starts, faults>>
    BY <1>3 DEF PlanRung, ghosts
  <2> QED
    BY <1>3, <2>1, PlanFields, WalletSame DEF IInv
<1>4. CASE Conclude \/ StandDown
  BY <1>4, WalletConcluded
<1>5. CASE SaleRaises \/ AuditFails \/ Crash
  BY <1>5, WalletDropped
<1>9. CASE Fund
  BY <1>9, FundFields, WalletSame DEF IInv, ghosts
<1>6. ASSUME NEW l \in Legs, PaperDone(l) \/ LiveSkip(l) PROVE Wallet'
  <2>1. UNCHANGED <<cfg, state, disk, order, wallet, resting, undone, lost, starts, faults>>
    BY <1>6 DEF PaperDone, LiveSkip, ghosts
  <2> QED
    BY <1>6, <2>1, SkipFields, WalletSame DEF IInv
<1>7. ASSUME NEW l \in Legs, PaperLevel(l) \/ LivePost(l) \/ RestingFills(l) PROVE Wallet'
  BY <1>7, WalletPaper, WalletPosted, WalletRested
<1>8. CASE Reported \/ CostUnknown \/ ReportLost \/ TimeOut
  BY <1>8, WalletHeard
<1> QED
  BY <1>1, <1>2, <1>3, <1>4, <1>5, <1>6, <1>7, <1>8, <1>9 DEF Next

LEMMA WalletHolds == Spec => [](IInv /\ Shape /\ Marks /\ Wallet)
  BY MarksHold, WalletInit, WalletKept, PTL DEF Spec

(* Live, every share the venue gave is on a position, with the fire at work or counted as   *)
(* lost; and without a fault the positions show exactly what the wallet holds.              *)
THEOREM WalletAlwaysExplained == Spec => []WalletExplained
  BY WalletHolds, WalletEnough, PTL

-----------------------------------------------------------------------------
(* What the ledger owes.                                                                    *)
(* A funded fire buys nothing more. *)
Quiet == fire.funded => order = NoOrder /\ \A l \in Legs : fire.limit[l] = 0

Held == Quiet /\ StrandedByRefire(state) /\ StrandedByRefire(disk)

LEMMA StrandedSame ==
    ASSUME IInv, Held, cfg' = cfg, faults' \in {faults, faults + 1},
           \/ state'.stranded = state.stranded /\ disk' \in {state, disk}
           \/ state' = disk /\ disk' = disk
    PROVE  StrandedByRefire(state)' /\ StrandedByRefire(disk)'
<1>1. faults \in Nat
  BY DEF IInv, TypeOK
<1>2. \A l \in Legs : /\ state.stranded[l] > 0 =>
                         cfg.mode = "live" /\ Kind[FireOf[l]] = "refire" /\ faults > 0
                      /\ disk.stranded[l] > 0 =>
                         cfg.mode = "live" /\ Kind[FireOf[l]] = "refire" /\ faults > 0
  BY DEF Held, StrandedByRefire
<1>3. faults > 0 => faults' > 0
  BY <1>1
<1> QED
  BY <1>2, <1>3 DEF StrandedByRefire

LEMMA HeldStranded == ASSUME IInv, Shape, Held, SaleRaises PROVE Held'
<1>1. /\ \A l \in Legs : state'.stranded[l] = state.stranded[l] + fire.cost[l]
      /\ fire' = Idle /\ faults' = faults + 1 /\ UNCHANGED <<cfg, disk>>
      /\ cfg.mode = "live" /\ Kind[fire.id] = "refire"
  BY StrandedFields DEF IInv
<1>2. faults \in Nat /\ \A l \in Legs : state.stranded[l] \in Nat /\ fire.cost[l] \in Nat
  BY DEF IInv, TypeOK, LedgerType, FireType
<1>3. ASSUME NEW l \in Legs, state'.stranded[l] > 0 PROVE Kind[FireOf[l]] = "refire"
  <2>1. CASE state.stranded[l] > 0
    BY <2>1 DEF Held, StrandedByRefire
  <2>2. CASE fire.cost[l] > 0
    BY <1>1, <2>2 DEF Shape, Own
  <2> QED
    BY <1>1, <1>2, <1>3, <2>1, <2>2
<1>4. StrandedByRefire(state)'
  BY <1>1, <1>2, <1>3 DEF StrandedByRefire
<1>5. StrandedByRefire(disk)'
  BY <1>1, <1>2 DEF Held, StrandedByRefire
<1>6. Quiet'
  BY <1>1, IdleFields DEF Quiet
<1> QED
  BY <1>4, <1>5, <1>6 DEF Held

LEMMA QuietBuyer ==
    ASSUME Held, NEW l \in Legs, l \in Planned PROVE ~ fire.funded
  BY DEF Held, Quiet, Planned

LEMMA HeldKept == IInv /\ Shape /\ Held /\ [Next]_vars => Held'
<1> SUFFICES ASSUME IInv, Shape, Held, [Next]_vars PROVE Held'
  OBVIOUS
<1>0. TypeOK /\ faults \in Nat
  BY DEF IInv, TypeOK
<1>1. CASE BeginCycle \/ EndCycle \/ UNCHANGED vars \/ \E l \in Legs : RestingFills(l)
  <2>1. /\ state' = state /\ disk' \in {disk, state} /\ UNCHANGED <<cfg, fire, order, faults>>
    BY <1>1 DEF BeginCycle, EndCycle, vars, ghosts, RestingFills
  <2> QED
    BY <2>1, StrandedSame DEF Held, Quiet
<1>2. ASSUME NEW f \in Fires, StartFire(f) PROVE Held'
  <2>1. /\ state'.stranded = state.stranded /\ ~ fire'.funded /\ UNCHANGED <<cfg, disk, faults>>
    BY <1>0, <1>2, StartFields, StampedFields DEF StartFire, TypeOK
  <2> QED
    BY <2>1, StrandedSame DEF Held, Quiet
<1>3. ASSUME NEW f \in Fires, RefuseFire(f) PROVE Held'
  <2> DEFINE st == Stamped(f)
  <2>1. st \in LedgerType /\ st.stranded = state.stranded
    BY <1>0, StampedType DEF TypeOK
  <2>2. state' = StoodDown(st, f) /\ UNCHANGED <<cfg, disk, fire, order, faults>>
    BY <1>3 DEF RefuseFire, ghosts
  <2> HIDE DEF st
  <2>3. state'.stranded = state.stranded
    BY <2>1, <2>2, StoodDownFields
  <2> QED
    BY <2>2, <2>3, StrandedSame DEF Held, Quiet
<1>4. CASE PlanRung
  <2>1. ~ fire'.funded /\ UNCHANGED <<cfg, state, disk, faults>>
    BY <1>0, <1>4, PlanFields DEF PlanRung, ghosts
  <2> QED
    BY <2>1, StrandedSame DEF Held, Quiet
<1>5. CASE Fund
  <2>1. /\ state'.stranded = state.stranded /\ order' = NoOrder /\ fire'.limit = fire.limit
        /\ Planned = {} /\ UNCHANGED <<cfg, disk, faults>>
    BY <1>0, <1>5, FundFields DEF ghosts
  <2>2. \A l \in Legs : fire'.limit[l] = 0
    BY <1>0, <2>1 DEF Planned, TypeOK, FireType
  <2> QED
    BY <2>1, <2>2, StrandedSame DEF Held, Quiet
<1>6. CASE Conclude \/ StandDown
  <2> DEFINE f == fire.id
  <2>1. f \in Fires /\ state \in LedgerType /\ fire \in FireType
    BY <1>0, <1>6 DEF Conclude, StandDown, Between, TypeOK, FireType
  <2>2. /\ state' \in {Recorded(state, f), StoodDown(state, f)} /\ fire' = Idle
        /\ UNCHANGED <<cfg, disk, faults>>
    BY <1>6 DEF Conclude, StandDown
  <2> HIDE DEF f
  <2>3. state'.stranded = state.stranded
    BY <2>1, <2>2, RecordedType, StoodDownType
  <2> QED
    BY <2>2, <2>3, IdleFields, StrandedSame DEF Held, Quiet
<1>7. CASE SaleRaises
  BY <1>7, HeldStranded
<1>8. CASE AuditFails \/ Crash
  <2>1. /\ fire' = Idle /\ disk' = disk /\ state' \in {state, disk} /\ faults' = faults + 1
        /\ cfg' = cfg
    BY <1>8 DEF AuditFails, Crash
  <2> QED
    BY <2>1, IdleFields, StrandedSame DEF Held, Quiet
<1>9. ASSUME NEW l \in Legs, PaperLevel(l) \/ PaperDone(l) \/ LiveSkip(l) \/ LivePost(l) PROVE Held'
  <2>1. ~ fire.funded /\ UNCHANGED <<cfg, state, disk, faults>>
    BY <1>9, QuietBuyer DEF PaperLevel, PaperDone, LiveSkip, LivePost, ghosts
  <2>2. fire'.funded = fire.funded
    <3>1. CASE PaperDone(l) \/ LiveSkip(l)
      BY <1>0, <3>1, SkipFields
    <3>2. CASE LivePost(l)
      BY <3>2 DEF LivePost
    <3>3. CASE PaperLevel(l)
      <4>1. PICK n, p \in Nat : fire' = Filled(l, n, n * p)
        BY <3>3, PaperEats
      <4> DEFINE c == n * p
      <4>2. c \in Nat /\ fire' = Filled(l, n, c)
        BY <4>1
      <4> HIDE DEF c
      <4> QED
        BY <4>2, PaperFields
    <3> QED
      BY <1>9, <3>1, <3>2, <3>3
  <2> QED
    BY <2>1, <2>2, StrandedSame DEF Held, Quiet
<1>10. CASE Reported \/ CostUnknown \/ ReportLost \/ TimeOut
  <2>1. PICK n, c : Heard(n, c) /\ faults' \in {faults, faults + 1}
    BY <1>10, Hearing
  <2>2. ~ fire.funded /\ fire'.funded = fire.funded /\ UNCHANGED <<cfg, state, disk>>
    BY <2>1, AnsweredFields DEF IInv, Heard, Held, Quiet
  <2> QED
    BY <2>1, <2>2, StrandedSame DEF Held, Quiet
<1> QED
  BY <1>1, <1>2, <1>3, <1>4, <1>5, <1>6, <1>7, <1>8, <1>9, <1>10 DEF Next

LEMMA HeldInit == Init => Held
<1> SUFFICES ASSUME Init PROVE Held
  OBVIOUS
<1>1. /\ disk = state /\ state.stranded = Zero /\ ~ fire.funded
  BY IdleFields DEF Init
<1> QED
  BY <1>1 DEF Held, Quiet, StrandedByRefire, Zero

-----------------------------------------------------------------------------
(* What the fire in flight costs is what its legs cost, and no leg costs without shares.    *)
Counted == fire.total = SumFunctionOnSet(fire.cost, Legs)
NoneFree ==
    /\ \A l \in Legs : fire.filled[l] = 0 => fire.cost[l] = 0
    /\ order # NoOrder /\ order.shares = 0 => order.paid = 0

Ledger == Balanced(state, OnHold) /\ Balanced(disk, 0) /\ Counted /\ NoneFree

LEMMA LedgerSame ==
    ASSUME Ledger, order' \in {order, NoOrder}, fire'.funded = fire.funded,
           fire'.total = fire.total, fire'.cost = fire.cost, fire'.filled = fire.filled,
           disk' = disk \/ (disk' = state /\ ~ fire.funded),
           state'.capital = state.capital, state'.recorded = state.recorded,
           state'.cost = state.cost, state'.stranded = state.stranded
    PROVE  Ledger'
<1>1. Balanced(state, OnHold)' /\ Balanced(disk, 0)'
  BY DEF Ledger, Balanced, OnHold
<1>2. Counted' /\ NoneFree'
  BY DEF Ledger, Counted, NoneFree
<1> QED
  BY <1>1, <1>2 DEF Ledger

(* A fire that has just started, or is over, has cost nothing. *)
LEMMA CountedZero ==
    ASSUME fire' \in FireType, fire'.total = 0, \A l \in Legs : fire'.cost[l] = 0
    PROVE  Counted'
<1> DEFINE cost == fire'.cost
<1>1. \A l \in Legs : cost[l] = 0
  OBVIOUS
<1> HIDE DEF cost
<1>2. SumFunctionOnSet(cost, Legs) = 0
  BY <1>1, SumZero, ConstantsAssumption
<1> QED
  BY <1>2 DEF Counted, cost

(* A fill adds to one leg what it adds to the total. *)
LEMMA CountedFill ==
    ASSUME IInv, Counted, IInv', NEW l \in Legs, NEW c \in Nat, fire'.total = fire.total + c,
           \A k \in Legs : fire'.cost[k] = fire.cost[k] + (IF k = l THEN c ELSE 0)
    PROVE  Counted'
<1> DEFINE before == fire.cost
           after  == fire'.cost
<1>1. \A k \in Legs : /\ before[k] \in Int /\ after[k] \in Int
                      /\ k # l => before[k] = after[k]
  BY DEF IInv, TypeOK, FireType
<1>2. after[l] = before[l] + c /\ before[l] \in Int
  BY <1>1
<1> HIDE DEF before, after
<1>3. SumFunctionOnSet(after, Legs) = SumFunctionOnSet(before, Legs) - before[l] + after[l]
  BY <1>1, SumChange, ConstantsAssumption
<1>4. SumFunctionOnSet(before, Legs) \in Int
  BY <1>1, SumInt, ConstantsAssumption
<1>5. SumFunctionOnSet(after, Legs) = SumFunctionOnSet(before, Legs) + c
  BY <1>2, <1>3, <1>4
<1> QED
  BY <1>5 DEF Counted, before, after

LEMMA LedgerFill ==
    ASSUME IInv, Ledger, IInv', NEW l \in Legs, NEW n \in Nat, NEW c \in Nat, n = 0 => c = 0 ,
           fire'.total = fire.total + c, UNCHANGED <<state, disk>>, order' \in {order, NoOrder},
           ~ fire.funded, ~ fire'.funded,
           \A k \in Legs : /\ fire'.cost[k] = fire.cost[k] + (IF k = l THEN c ELSE 0)
                           /\ fire'.filled[k] = fire.filled[k] + (IF k = l THEN n ELSE 0)
    PROVE  Ledger'
<1>1. Balanced(state, OnHold)' /\ Balanced(disk, 0)'
  BY DEF Ledger, Balanced, OnHold
<1>2. Counted'
  BY CountedFill DEF Ledger
<1>3. NoneFree'
  <2>1. \A k \in Legs : fire.filled[k] \in Nat /\ fire.cost[k] \in Nat
    BY DEF IInv, TypeOK, FireType
  <2>2. \A k \in Legs : fire'.filled[k] = 0 => fire'.cost[k] = 0
    BY <2>1 DEF Ledger, NoneFree
  <2>3. order' # NoOrder /\ order'.shares = 0 => order'.paid = 0
    BY DEF Ledger, NoneFree
  <2> QED
    BY <2>2, <2>3 DEF NoneFree
<1> QED
  BY <1>1, <1>2, <1>3 DEF Ledger

LEMMA LedgerPaper == ASSUME IInv, Held, Ledger, NEW l \in Legs, PaperLevel(l) PROVE Ledger'
<1>1. PICK n, p \in Nat : fire' = Filled(l, n, n * p)
  BY PaperEats
<1> DEFINE c == n * p
<1>2. c \in Nat /\ fire' = Filled(l, n, c) /\ (n = 0 => c = 0)
  BY <1>1
<1> HIDE DEF c
<1>3. UNCHANGED <<state, disk, order>> /\ IInv' /\ ~ fire.funded
  BY PaperLevelKeep, QuietBuyer DEF PaperLevel
<1> QED
  BY <1>2, <1>3, PaperFields, LedgerFill

LEMMA LedgerHeard ==
    ASSUME IInv, Held, Ledger, Reported \/ CostUnknown \/ ReportLost \/ TimeOut, IInv'
    PROVE  Ledger'
<1>1. PICK n, c : /\ Heard(n, c)
                  /\ \/ n = order.shares /\ (c = order.paid \/ c = 0)
                     \/ c = 0
  BY Hearing
<1>2. /\ order # NoOrder /\ Answered(n, c) /\ n \in Nat /\ c \in Nat
      /\ UNCHANGED <<state, disk>> /\ order.leg \in Legs
  BY <1>1 DEF Heard, IInv, Placed
<1>3. n = 0 => c = 0
  BY <1>1, <1>2 DEF Ledger, NoneFree
<1>4. /\ order' = NoOrder /\ fire'.total = fire.total + c /\ ~ fire.funded /\ ~ fire'.funded
      /\ \A k \in Legs : /\ fire'.cost[k] = fire.cost[k] + (IF k = order.leg THEN c ELSE 0)
                         /\ fire'.filled[k] = fire.filled[k] + (IF k = order.leg THEN n ELSE 0)
  BY <1>2, AnsweredFields DEF IInv, Held, Quiet
<1> DEFINE l == order.leg
<1>5. l \in Legs /\ l = order.leg
  BY <1>2
<1> HIDE DEF l
<1> QED
  BY <1>2, <1>3, <1>4, <1>5, LedgerFill

LEMMA LedgerPosted == ASSUME IInv, Ledger, NEW l \in Legs, LivePost(l) PROVE Ledger'
<1>1. PICK p \in 1..fire.limit[l] : \E n \in 0..MarketAmount(l) :
          order' = [leg |-> l, shares |-> n, paid |-> n * p, open |-> MarketAmount(l) - n * p]
  BY DEF LivePost
<1>2. PICK n \in 0..MarketAmount(l) :
          order' = [leg |-> l, shares |-> n, paid |-> n * p, open |-> MarketAmount(l) - n * p]
  BY <1>1
<1>3. p \in Nat
  BY DEF IInv, TypeOK, FireType
<1>4. order'.shares = 0 => order'.paid = 0
  BY <1>2, <1>3
<1>5. UNCHANGED <<fire, state, disk>>
  BY DEF LivePost
<1> QED
  BY <1>4, <1>5 DEF Ledger, Balanced, OnHold, Counted, NoneFree

LEMMA LedgerStarted ==
    ASSUME IInv, Shape, Ledger, NEW f \in Fires, StartFire(f), IInv' PROVE Ledger'
<1>1. /\ order = NoOrder /\ UNCHANGED <<order, disk>> /\ state' = Stamped(f)
  BY ShapeIdle, StartFields DEF StartFire
<1>2. /\ state'.capital = state.capital /\ state'.recorded = state.recorded
      /\ state'.cost = state.cost /\ state'.stranded = state.stranded
  BY <1>1, StampedFields DEF IInv, TypeOK
<1>3. Balanced(state, OnHold)' /\ Balanced(disk, 0)'
  BY <1>1, <1>2, StartFields, IdleFields DEF Ledger, Balanced, OnHold
<1>4. Counted'
  BY StartFields, CountedZero DEF IInv, TypeOK
<1>5. NoneFree'
  BY <1>1, StartFields DEF NoneFree
<1> QED
  BY <1>3, <1>4, <1>5 DEF Ledger

LEMMA LedgerRefused == ASSUME IInv, Ledger, NEW f \in Fires, RefuseFire(f) PROVE Ledger'
<1> DEFINE st == Stamped(f)
<1>1. state' = StoodDown(st, f) /\ UNCHANGED <<disk, fire, order>>
  BY DEF RefuseFire
<1>2. /\ st.recorded = state.recorded /\ st.cost = state.cost /\ st.capital = state.capital
      /\ st.stranded = state.stranded
      /\ st \in LedgerType
  BY StampedFields, StampedType DEF IInv, TypeOK
<1> HIDE DEF st
<1>3. /\ state'.recorded = state.recorded /\ state'.cost = state.cost
      /\ state'.capital = state.capital /\ state'.stranded = state.stranded
  BY <1>1, <1>2, StoodDownFields
<1> QED
  BY <1>1, <1>3, LedgerSame

(* The legs recorded are the legs that cost something. *)
LEMMA NewLegsCost ==
    ASSUME IInv, Shape, Marks, Ledger, fire.id \in Fires, NEW l \in Legs, l \notin NewLegs(fire.id)
    PROVE  fire.cost[l] = 0
<1> SUFFICES ASSUME fire.cost[l] # 0 PROVE FALSE
  OBVIOUS
<1>1. fire.cost[l] \in Nat /\ fire.filled[l] \in Nat
  BY DEF IInv, TypeOK, FireType
<1>2. FireOf[l] = fire.id
  BY <1>1 DEF Shape, Own
<1>3. fire.filled[l] > 0
  BY <1>1 DEF Ledger, NoneFree
<1>4. Kind[fire.id] \notin {"sleeve", "refire"} => Main(Key[fire.id]) = {}
  BY DEF Marks, Fresh
<1> QED
  BY <1>2, <1>3, <1>4 DEF NewLegs, LegsOf

(* What a fire had reserved, the legs recorded with it now carry. *)
LEMMA LedgerRecorded ==
    ASSUME IInv, Shape, Marks, Ledger, fire.id \in Fires, fire.funded, fire' = Idle,
           state' = Recorded(state, fire.id), IInv'
    PROVE  Balanced(state, OnHold)'
<1> DEFINE f == fire.id
           new == NewLegs(f)
           old == state.recorded
           was == state.cost
           now == state'.cost
           add == fire.cost
           stuck == SumFunctionOnSet(state.stranded, Legs)
<1>1. state \in LedgerType /\ fire \in FireType /\ f \in Fires /\ f = fire.id /\ state' = Recorded(state, f)
  BY DEF IInv, TypeOK
<1>2. old \subseteq Legs /\ new \subseteq Legs /\ IsFiniteSet(Legs)
  BY <1>1, ConstantsAssumption DEF LedgerType, NewLegs, LegsOf
<1>3. IsFiniteSet(old) /\ IsFiniteSet(new)
  BY <1>2, FS_Subset
<1>4. old \cap new = {}
  BY DEF Marks, Fresh, NewLegs, LegsOf
<1>5. \A l \in Legs : l \notin new => add[l] = 0
  BY <1>1, NewLegsCost
<1> HIDE DEF f
<1>6. /\ state'.capital = state.capital /\ state'.stranded = state.stranded
      /\ state'.recorded = old \cup new
      /\ \A l \in Legs : /\ l \in new => now[l] = add[l]
                         /\ l \notin new => now[l] = was[l]
  <2>1. /\ Recorded(state, f).capital = state.capital
        /\ Recorded(state, f).stranded = state.stranded
        /\ Recorded(state, f).recorded = state.recorded \cup NewLegs(f)
    BY <1>1, RecordedFields
  <2>2. Recorded(state, f).cost
           = [l \in Legs |-> IF l \in NewLegs(f) THEN fire.cost[l] ELSE state.cost[l]]
    BY <1>1 DEF Recorded, LedgerType
  <2> QED
    BY <1>1, <2>1, <2>2
<1>7. \A l \in Legs : now[l] \in Int /\ was[l] \in Int /\ add[l] \in Int
  BY DEF IInv, TypeOK, LedgerType, FireType
<1>8. Balanced(state, fire.total) /\ fire.total = SumFunctionOnSet(add, Legs) /\ OnHold' = 0
  BY IdleFields DEF Ledger, Counted, OnHold
<1>17. stuck \in Int
  <2>1. \A l \in Legs : state.stranded[l] \in Int
    BY <1>1 DEF LedgerType
  <2> QED
    BY <1>2, <2>1, SumInt
<1> HIDE DEF new, old, was, now, add, stuck
<1>9. SumFunctionOnSet(now, old \cup new) = SumFunctionOnSet(now, old) + SumFunctionOnSet(now, new)
  <2>1. \A l \in old \cup new : now[l] \in Int
    BY <1>2, <1>7
  <2> QED
    BY <1>3, <1>4, <2>1, SumUnion
<1>10. SumFunctionOnSet(now, old) = SumFunctionOnSet(was, old)
  <2>1. \A l \in old : now[l] \in Int /\ now[l] = was[l]
    BY <1>2, <1>4, <1>6, <1>7
  <2> QED
    BY <1>3, <2>1, SumSame
<1>11. SumFunctionOnSet(now, new) = SumFunctionOnSet(add, new)
  <2>1. \A l \in new : now[l] \in Int /\ now[l] = add[l]
    BY <1>2, <1>6, <1>7
  <2> QED
    BY <1>3, <2>1, SumSame
<1>12. SumFunctionOnSet(add, Legs) = SumFunctionOnSet(add, new)
  BY <1>2, <1>5, <1>7, SumOfSupport
<1>13. SumFunctionOnSet(was, old) \in Int /\ SumFunctionOnSet(add, new) \in Int
  <2>1. (\A l \in old : was[l] \in Int) /\ (\A l \in new : add[l] \in Int)
    BY <1>2, <1>7
  <2> QED
    BY <1>3, <2>1, SumInt
<1>14. /\ state.capital >= 0
       /\ state.capital + fire.total + SumFunctionOnSet(was, old) + stuck = Capital
  BY <1>8 DEF Balanced, was, old, stuck
<1>15. state.capital \in Int /\ fire.total \in Nat /\ Capital \in Nat
  BY Parameters DEF IInv, TypeOK, LedgerType, FireType
<1>16. /\ state'.capital >= 0
       /\ state'.capital + 0 + SumFunctionOnSet(now, old \cup new) + stuck = Capital
  BY <1>6, <1>8, <1>9, <1>10, <1>11, <1>12, <1>13, <1>14, <1>15, <1>17
<1> QED
  BY <1>6, <1>8, <1>16 DEF Balanced, now, stuck

(* A fire that is over costs nothing any more. *)
LEMMA OverCounted ==
    ASSUME IInv', fire' = Idle, order' = NoOrder PROVE Counted' /\ NoneFree'
  BY CountedZero, IdleFields DEF NoneFree, IInv, TypeOK

LEMMA LedgerConcluded == ASSUME IInv, Shape, Marks, Ledger, Conclude, IInv' PROVE Ledger'
<1>1. /\ order = NoOrder /\ fire.id \in Fires /\ fire' = Idle /\ UNCHANGED <<disk, order>>
      /\ state' = Recorded(state, fire.id) /\ fire.funded
  BY DEF Conclude, Between, IInv, TypeOK, FireType
<1>2. Counted' /\ NoneFree'
  BY <1>1, OverCounted
<1>3. Balanced(disk, 0)'
  BY <1>1 DEF Ledger, Balanced
<1>4. Balanced(state, OnHold)'
  BY <1>1, LedgerRecorded
<1> QED
  BY <1>2, <1>3, <1>4 DEF Ledger

LEMMA LedgerStoodDown == ASSUME IInv, Ledger, StandDown, IInv' PROVE Ledger'
<1> DEFINE f == fire.id
<1>1. /\ order = NoOrder /\ f \in Fires /\ fire' = Idle /\ UNCHANGED <<disk, order>>
      /\ state' = StoodDown(state, f) /\ ~ fire.funded /\ state \in LedgerType
  BY DEF StandDown, Between, IInv, TypeOK, FireType
<1>2. Counted' /\ NoneFree'
  BY <1>1, OverCounted
<1> HIDE DEF f
<1>3. /\ state'.capital = state.capital /\ state'.recorded = state.recorded
      /\ state'.cost = state.cost /\ state'.stranded = state.stranded
  BY <1>1, StoodDownFields
<1>4. Balanced(state, OnHold)' /\ Balanced(disk, 0)'
  BY <1>1, <1>3, IdleFields DEF Ledger, Balanced, OnHold
<1> QED
  BY <1>2, <1>4 DEF Ledger

(* Reserving takes from the capital what the fire then holds. *)
LEMMA LedgerFunded == ASSUME IInv, Ledger, Fund PROVE Ledger'
<1>1. /\ state'.capital = state.capital - fire.total /\ state'.recorded = state.recorded
      /\ state'.cost = state.cost /\ state'.stranded = state.stranded
      /\ fire'.funded /\ ~ fire.funded /\ fire'.total = fire.total /\ fire'.cost = fire.cost
      /\ fire'.filled = fire.filled /\ fire.total <= state.capital
      /\ UNCHANGED <<disk, order>>
  BY FundFields DEF IInv
<1> DEFINE booked == SumFunctionOnSet(state.cost, state.recorded)
           stuck  == SumFunctionOnSet(state.stranded, Legs)
<1>2. state.capital >= 0 /\ state.capital + 0 + booked + stuck = Capital
  BY <1>1 DEF Ledger, Balanced, OnHold
<1>3. state.capital \in Int /\ fire.total \in Nat
  BY DEF IInv, TypeOK, LedgerType, FireType
<1>4. booked \in Int /\ stuck \in Int
  <2>1. /\ IsFiniteSet(state.recorded) /\ IsFiniteSet(Legs)
        /\ \A l \in state.recorded : state.cost[l] \in Int
        /\ \A l \in Legs : state.stranded[l] \in Int
    BY ConstantsAssumption, FS_Subset DEF IInv, TypeOK, LedgerType
  <2> QED
    BY <2>1, SumInt
<1> HIDE DEF booked, stuck
<1>5. state.capital - fire.total >= 0 /\ state.capital - fire.total + fire.total + booked + stuck = Capital
  BY <1>1, <1>2, <1>3, <1>4
<1>6. Balanced(state, OnHold)' /\ Balanced(disk, 0)'
  BY <1>1, <1>5 DEF Ledger, Balanced, OnHold, booked, stuck
<1>7. Counted' /\ NoneFree'
  BY <1>1 DEF Ledger, Counted, NoneFree
<1> QED
  BY <1>6, <1>7 DEF Ledger

(* The debit of a refire whose sale raises stays, in no position. *)
LEMMA LedgerStranded == ASSUME IInv, Ledger, SaleRaises, IInv' PROVE Ledger'
<1>1. /\ state'.capital = state.capital /\ state'.recorded = state.recorded
      /\ state'.cost = state.cost
      /\ \A l \in Legs : state'.stranded[l] = state.stranded[l] + fire.cost[l]
      /\ order = NoOrder /\ fire' = Idle /\ fire.funded /\ UNCHANGED <<disk, order>>
  BY StrandedFields DEF IInv
<1> DEFINE before == state.stranded
           after  == state'.stranded
           add    == fire.cost
           booked == SumFunctionOnSet(state.cost, state.recorded)
<1>2. \A l \in Legs : before[l] \in Int /\ add[l] \in Int /\ after[l] = before[l] + add[l]
  BY <1>1 DEF IInv, TypeOK, LedgerType, FireType
<1>3. /\ state.capital >= 0 /\ fire.total = SumFunctionOnSet(add, Legs)
      /\ state.capital + fire.total + booked + SumFunctionOnSet(before, Legs) = Capital
  BY <1>1 DEF Ledger, Balanced, OnHold, Counted
<1>4. booked \in Int
  <2>1. /\ IsFiniteSet(state.recorded)
        /\ \A l \in state.recorded : state.cost[l] \in Int
    BY ConstantsAssumption, FS_Subset DEF IInv, TypeOK, LedgerType
  <2> QED
    BY <2>1, SumInt
<1>5. state.capital \in Int /\ fire.total \in Nat /\ IsFiniteSet(Legs)
  BY ConstantsAssumption DEF IInv, TypeOK, LedgerType, FireType
<1> HIDE DEF before, after, add, booked
<1>6. /\ SumFunctionOnSet(after, Legs) = SumFunctionOnSet(before, Legs) + SumFunctionOnSet(add, Legs)
      /\ SumFunctionOnSet(before, Legs) \in Int
  BY <1>2, <1>5, SumPlus, SumInt
<1>7. state.capital + 0 + booked + SumFunctionOnSet(after, Legs) = Capital
  BY <1>3, <1>4, <1>5, <1>6
<1>8. Balanced(state, OnHold)'
  BY <1>1, <1>3, <1>7, IdleFields DEF Balanced, OnHold, after, booked
<1>9. Balanced(disk, 0)'
  BY <1>1 DEF Ledger, Balanced
<1>10. Counted' /\ NoneFree'
  BY <1>1, OverCounted
<1> QED
  BY <1>8, <1>9, <1>10 DEF Ledger

LEMMA LedgerDropped == ASSUME IInv, Held, Ledger, AuditFails \/ Crash, IInv' PROVE Ledger'
<1>1. /\ fire' = Idle /\ order' = NoOrder /\ disk' = disk
      /\ state' = disk \/ (state' = state /\ Planned # {})
  BY DEF AuditFails, Crash
<1>2. Counted' /\ NoneFree'
  BY <1>1, OverCounted
<1>3. state' = state => ~ fire.funded \/ state' = disk
  BY <1>1, QuietBuyer DEF Planned
<1>4. Balanced(state, OnHold)' /\ Balanced(disk, 0)'
  BY <1>1, <1>3, IdleFields DEF Ledger, Balanced, OnHold
<1> QED
  BY <1>2, <1>4 DEF Ledger

LEMMA LedgerInit == Init => Ledger
<1> SUFFICES ASSUME Init PROVE Ledger
  OBVIOUS
<1>1. /\ state.capital = Capital /\ state.recorded = {} /\ disk = state /\ Capital \in Nat
      /\ state.stranded = Zero /\ OnHold = 0
  BY Parameters, IdleFields DEF Init, OnHold
<1>2. SumFunctionOnSet(state.cost, state.recorded) = 0
  BY <1>1, SumEmpty
<1>6. SumFunctionOnSet(Zero, Legs) = 0
  <2>1. \A l \in Legs : Zero[l] = 0
    BY DEF Zero
  <2> QED
    BY <2>1, SumZero, ConstantsAssumption
<1>3. Balanced(state, OnHold) /\ Balanced(disk, 0)
  BY <1>1, <1>2, <1>6 DEF Balanced
<1>4. /\ fire.total = 0 /\ order = NoOrder
      /\ \A l \in Legs : fire.cost[l] = 0
  BY IdleFields DEF Init
<1>5. SumFunctionOnSet(fire.cost, Legs) = 0
  <2> DEFINE cost == fire.cost
  <2>1. \A l \in Legs : cost[l] = 0
    BY <1>4
  <2> HIDE DEF cost
  <2>2. SumFunctionOnSet(cost, Legs) = 0
    BY <2>1, SumZero, ConstantsAssumption
  <2> QED
    BY <2>2 DEF cost
<1> QED
  BY <1>3, <1>4, <1>5 DEF Ledger, Counted, NoneFree

LEMMA LedgerKept == IInv /\ Shape /\ Marks /\ Held /\ Ledger /\ [Next]_vars => Ledger'
<1> SUFFICES ASSUME IInv, Shape, Marks, Held, Ledger, [Next]_vars PROVE Ledger'
  OBVIOUS
<1>0. IInv'
  BY Inductive
<1>1. CASE BeginCycle \/ EndCycle \/ UNCHANGED vars \/ \E l \in Legs : RestingFills(l)
  <2>1. /\ state' = state /\ UNCHANGED <<fire, order>>
        /\ disk' = disk \/ (disk' = state /\ ~ fire.funded)
    BY <1>1, IdleFields DEF BeginCycle, EndCycle, vars, RestingFills
  <2> QED
    BY <2>1, LedgerSame
<1>2. ASSUME NEW f \in Fires, StartFire(f) \/ RefuseFire(f) PROVE Ledger'
  BY <1>0, <1>2, LedgerStarted, LedgerRefused
<1>3. CASE PlanRung
  <2>1. UNCHANGED <<state, disk, order>>
    BY <1>3 DEF PlanRung
  <2> QED
    BY <1>3, <2>1, PlanFields, LedgerSame DEF IInv
<1>4. CASE Fund \/ Conclude \/ StandDown \/ SaleRaises \/ AuditFails \/ Crash
  BY <1>0, <1>4, LedgerFunded, LedgerConcluded, LedgerStoodDown, LedgerStranded, LedgerDropped
<1>5. ASSUME NEW l \in Legs, PaperDone(l) \/ LiveSkip(l) PROVE Ledger'
  <2>1. UNCHANGED <<state, disk, order>>
    BY <1>5 DEF PaperDone, LiveSkip
  <2> QED
    BY <1>5, <2>1, SkipFields, LedgerSame DEF IInv
<1>6. ASSUME NEW l \in Legs, PaperLevel(l) \/ LivePost(l) PROVE Ledger'
  BY <1>6, LedgerPaper, LedgerPosted
<1>7. CASE Reported \/ CostUnknown \/ ReportLost \/ TimeOut
  BY <1>0, <1>7, LedgerHeard
<1> QED
  BY <1>1, <1>2, <1>3, <1>4, <1>5, <1>6, <1>7 DEF Next

LEMMA LedgerHolds == Spec => [](IInv /\ Shape /\ Marks /\ Held /\ Ledger)
  BY MarksHold, HeldInit, HeldKept, LedgerInit, LedgerKept, PTL DEF Spec

(* In memory and on disk, the ledger's debit is what the recorded positions cost, what the  *)
(* fire at work has reserved and what live refires left stranded; it never exceeds the      *)
(* capital, and nothing is stranded but by a refire whose sale of the old YES leg raised.   *)
THEOREM LedgerAlwaysMatches == Spec => []LedgerMatches
<1>1. Held /\ Ledger => LedgerMatches
  BY DEF Held, Ledger, LedgerMatches
<1> QED
  BY <1>1, LedgerHolds, PTL
=============================================================================
