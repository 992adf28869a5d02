----------------------------- MODULE FireWindow -----------------------------
(***************************************************************************)
(* The entry fire: the capped FAK ladder of src/re_execution.py run by     *)
(* _paper_fire (src/_r_cycle.py) through the execution port                *)
(* (src/live/port.py), and the position it leaves behind.                  *)
(*                                                                         *)
(* A fire takes up to Rungs looks at the cached books.  Each look plans a  *)
(* limit for every leg still short of its target and sends the planned     *)
(* legs one by one: paper eats the cached ladder, live posts a FAK BUY and *)
(* believes the report that comes back.  Then the ledger reserves the cost *)
(* reported, or the whole fire stands down; and then the position is       *)
(* recorded: a live refire sells the old YES leg first, and an exception   *)
(* of that sale leaves the debit without a position (the sale itself is in *)
(* LiveExit, the second fire's life in ReversalSession).                   *)
(* Live reports can be lost or short, an order can stay resting, an audit  *)
(* write can fail, and the process can die between any two steps.          *)
(*                                                                         *)
(* Shares, prices (ticks) and cash (share x tick) are small integers.      *)
(***************************************************************************)
EXTENDS LegWindow, FiniteSets, FiniteSetsExt

CONSTANTS
    Sessions,   \* "city|date|direction"
    Fires,      \* the fires these sessions can raise
    Kind,       \* of a fire: target, next, sleeve, first or refire
    Key,        \* of a fire: its session
    Legs,
    FireOf,     \* the fire a leg belongs to
    Token,      \* the outcome token a leg buys
    Tokens,
    YesLegs,
    Channel,    \* the entry channel a leg declares
    Cap,        \* the most a leg pays
    Floor,      \* the ask must be over it (0: no floor)
    Bands,      \* the YES bands in the configuration
    MinSizes,   \* the minimum order sizes a book can state
    Target,     \* size_legs: the leg's budget at its cap
    Ladders,    \* the ask sides a book can show: shares offered at each price
    Capital,    \* paper_initial_capital_usdc
    Setups,     \* the configurations to run under
    Rungs,      \* looks the fire budget allows (t = 0, 1500, 4000 ms)
    NoFire, NoLeg,
    MaxFaults   \* bound: lost reports, time-outs, exceptions and crashes

Kinds  == {"target", "next", "sleeve", "first", "refire"}
Prices == 1..One

Configs == [mode : {"paper", "live"}, strategy_mode : {"consensus_lock", "reversal"},
            sleeve_enabled : BOOLEAN]

ASSUME ConstantsAssumption ==
    /\ Setups \subseteq Configs
    /\ NoFire \notin Fires /\ NoLeg \notin Legs
    /\ Kind \in [Fires -> Kinds] /\ Key \in [Fires -> Sessions]
    /\ IsFiniteSet(Legs)
    /\ FireOf \in [Legs -> Fires] /\ Token \in [Legs -> Tokens] /\ YesLegs \subseteq Legs
    /\ Channel \in [Legs -> Channels] /\ Bands \in Settings /\ MinSizes \subseteq Raw
    /\ Cap \in [Legs -> Prices] /\ Floor \in [Legs -> Nat] /\ Target \in [Legs -> Nat]
    /\ Ladders \subseteq [Prices -> Nat]
    /\ {Capital, Rungs, MaxFaults} \subseteq Nat

VARIABLES
    cfg,        \* the configuration: it never changes
    state,      \* the engine's state dict; history in it: the costs debited for legs that
                \* no position shows (stranded)
    disk,       \* the state file as last saved
    opened,     \* ConsensusLockStrategy.open_positions: lost with the process
    stage,      \* idle, or visiting the rules of a cycle
    seen,       \* sessions whose entry branch ran in this cycle
    book,       \* the cached ask ladders
    fire,       \* the fire in flight
    order,      \* the live order in flight
    wallet,     \* live: shares bought at the venue, by leg
    resting,    \* live: cash an order of the leg may still spend at the venue
    spent,      \* history: cash really spent on a leg
    starts,     \* history: times a fire went through its window
    undone,     \* history: times an exception or a crash may have wiped its mark
    unheard,    \* history: orders of a leg whose report was lost or short
    lost,       \* history: shares bought that no position will show
    displayed,  \* history: the ladders as last fetched
    taken,      \* history: shares paper took from them
    faults      \* history: faults so far

ghosts == <<spent, starts, undone, unheard, lost, displayed, taken, faults>>
vars   == <<cfg, state, disk, opened, stage, seen, book, fire, order, wallet, resting, ghosts>>

-----------------------------------------------------------------------------
Zero == [l \in Legs |-> 0]

Idle    == [id |-> NoFire, rung |-> 0, funded |-> FALSE, total |-> 0,
            remaining |-> Zero, limit |-> Zero, filled |-> Zero, cost |-> Zero]
NoOrder == [leg |-> NoLeg, shares |-> 0, paid |-> 0, open |-> 0]

LegsOf(f) == {l \in Legs : FireOf[l] = f}
Least(a, b) == IF a < b THEN a ELSE b

NoAsks  == [p \in Prices |-> 0]   \* a book never fetched, or fetched without asks
Asks(t) == {p \in Prices : book[t][p] > 0}
Best(t) == CHOOSE p \in Asks(t) : \A q \in Asks(t) : p <= q

(* The legs of a session's main position; the sleeve is a position of its own. *)
Main(s) == {l \in state.recorded : Key[FireOf[l]] = s /\ Kind[FireOf[l]] # "sleeve"}

Init ==
    /\ cfg \in Setups
    /\ state = [capital  |-> Capital,
                recorded |-> {},
                shares   |-> Zero,
                cost     |-> Zero,
                fires    |-> [s \in Sessions |-> 0],
                sleeves  |-> {},
                stranded |-> Zero]
    /\ disk = state
    /\ opened = {}
    /\ stage = "idle" /\ seen = {}
    /\ book = [t \in Tokens |-> NoAsks]
    /\ fire = Idle /\ order = NoOrder
    /\ wallet = Zero /\ resting = Zero
    /\ spent = Zero /\ unheard = Zero /\ lost = Zero
    /\ starts = [f \in Fires |-> 0] /\ undone = [f \in Fires |-> 0]
    /\ displayed = book
    /\ taken = [t \in Tokens |-> NoAsks]
    /\ faults = 0

-----------------------------------------------------------------------------
(* Raising a fire.                                                         *)

(* A cycle fetches the books that are due (pull or WebSocket pump); the others stay cached. *)
Fetched(new, ts) ==
    /\ book'      = [t \in Tokens |-> IF t \in ts THEN new[t] ELSE book[t]]
    /\ displayed' = [t \in Tokens |-> IF t \in ts THEN new[t] ELSE displayed[t]]
    /\ taken'     = [t \in Tokens |-> IF t \in ts THEN NoAsks ELSE taken[t]]

BeginCycle ==
    /\ stage = "idle"
    /\ stage' = "rules"
    /\ \E ts \in SUBSET Tokens : \E new \in [ts -> Ladders] : Fetched(new, ts)
    /\ UNCHANGED <<cfg, state, disk, opened, seen, fire, order, wallet, resting,
                   spent, starts, undone, unheard, lost, faults>>

(* The strategy's price window: both ends included (capped_taker, next bucket). *)
Signalled(f) ==
    \A l \in LegsOf(f) : Asks(Token[l]) # {} /\ Best(Token[l]) \in Floor[l]..Cap[l]

(* evaluate_entry tries the next-bucket channel first; neither runs over an open position. *)
Entry(f) ==
    /\ cfg.strategy_mode = "consensus_lock" /\ Kind[f] \in {"target", "next"}
    /\ Key[f] \notin seen \cup opened /\ Main(Key[f]) = {}
    /\ Signalled(f)
    /\ Kind[f] = "target" => ~ \E g \in Fires : Kind[g] = "next" /\ Key[g] = Key[f] /\ Signalled(g)

(* maybe_arm_or_fire: one fire, and one more (refire) once the first holds a YES leg. *)
Reversal(f) ==
    /\ cfg.strategy_mode = "reversal" /\ Key[f] \notin seen
    /\ \/ Kind[f] = "first" /\ state.fires[Key[f]] = 0 /\ Main(Key[f]) = {}
       \/ /\ Kind[f] = "refire" /\ state.fires[Key[f]] = 1
          /\ \E l \in Main(Key[f]) \cap YesLegs : state.shares[l] > 0

(* _sleeve_tick, before the session's entry branch: one sleeve, none once it has fired. *)
Sleeve_NoDedupe(f) ==
    /\ cfg.sleeve_enabled /\ Kind[f] = "sleeve" /\ Key[f] \notin seen
    /\ state.fires[Key[f]] = 0
Sleeve(f) ==
    /\ cfg.sleeve_enabled /\ Kind[f] = "sleeve" /\ Key[f] \notin seen
    /\ Key[f] \notin state.sleeves /\ state.fires[Key[f]] = 0

(* What the caller writes before the window opens: the consensus strategy books the session *)
(* as open in memory, the reversal strategy stamps its fire marker.                         *)
Raised(f) ==
    /\ stage = "rules" /\ fire = Idle
    /\ Entry(f) \/ Reversal(f) \/ Sleeve(f)
    /\ seen'   = IF Kind[f] = "sleeve" THEN seen ELSE seen \cup {Key[f]}
    /\ opened' = IF Kind[f] \in {"target", "next"} THEN opened \cup {Key[f]} ELSE opened
Stamped(f) ==
    IF Kind[f] \in {"first", "refire"} THEN [state EXCEPT !.fires[Key[f]] = @ + 1] ELSE state

(* Preflight passed; books missing for the fire's tokens are fetched once. *)
StartFire(f) ==
    /\ Raised(f)
    /\ state' = Stamped(f)
    /\ fire' = [Idle EXCEPT !.id = f,
                            !.remaining = [l \in Legs |-> IF FireOf[l] = f THEN Target[l] ELSE 0]]
    /\ LET missing == {t \in {Token[l] : l \in LegsOf(f)} : displayed[t] = NoAsks}
       IN  \E new \in [missing -> Ladders \cup {NoAsks}] : Fetched(new, missing)
    /\ starts' = [starts EXCEPT ![f] = @ + 1]
    /\ UNCHANGED <<cfg, disk, stage, order, wallet, resting, spent, undone, unheard, lost, faults>>

(* A fire that stands down is not tried again: its session counts as fired (the reversal    *)
(* fires stamped it before), a sleeve as tried.                                             *)
StoodDown(st, f) ==
    IF Kind[f] = "sleeve" THEN [st EXCEPT !.sleeves = @ \cup {Key[f]}]
    ELSE IF Kind[f] \in {"target", "next"} THEN [st EXCEPT !.fires[Key[f]] = 1]
    ELSE st

(* get_port reads the gates again for every fire (two switches and the phrase of the day),  *)
(* even when its port is cached: paper has none, live may be refused at any fire.           *)
MayRefuse == cfg.mode = "live"

(* The port or its preflight refuses: gates, account, caps.  What Raised wrote stays. *)
RefuseFire(f) ==
    /\ MayRefuse /\ Raised(f)
    /\ state' = StoodDown(Stamped(f), f)
    /\ UNCHANGED <<cfg, disk, stage, book, fire, order, wallet, resting, ghosts>>

-----------------------------------------------------------------------------
(* The ladder.                                                             *)

Planned == {l \in Legs : fire.limit[l] > 0}
Between == fire.id # NoFire /\ Planned = {} /\ order = NoOrder

(* plan_leg_attempts sends nothing at or under the floor, nothing over the cap; cap_price   *)
(* gives one tick away from the second look on, inside the cap.                             *)
Takeable(l) ==
    Asks(Token[l]) # {} /\ Floor[l] < Best(Token[l]) /\ Best(Token[l]) <= Cap[l]

LimitAt(l, rung) == Least(Best(Token[l]) + (IF rung > 1 THEN 1 ELSE 0), Cap[l])

PlanRung ==
    /\ Between /\ ~fire.funded /\ fire.rung < Rungs
    /\ fire' = [fire EXCEPT
                   !.rung  = @ + 1,
                   !.limit = [l \in Legs |-> IF fire.remaining[l] > 0 /\ Takeable(l)
                                             THEN LimitAt(l, fire.rung + 1) ELSE 0]]
    /\ UNCHANGED <<cfg, state, disk, opened, stage, seen, book, order, wallet, resting, ghosts>>

(* One order's fill, as the engine hears of it: n shares for c. *)
Filled_LastOnly(l, n, c) ==
    [fire EXCEPT !.filled[l] = n, !.cost[l] = c, !.total = @ + c,
                 !.remaining[l] = IF n < @ THEN @ - n ELSE 0]
Filled_SameRest(l, n, c) ==
    [fire EXCEPT !.filled[l] = @ + n, !.cost[l] = @ + c, !.total = @ + c]
Filled_Overdrawn(l, n, c) ==
    [fire EXCEPT !.filled[l] = @ + n, !.cost[l] = @ + c, !.total = @ + c, !.remaining[l] = @ - n]
Filled(l, n, c) ==
    [fire EXCEPT !.filled[l] = @ + n, !.cost[l] = @ + c, !.total = @ + c,
                 !.remaining[l] = IF n < @ THEN @ - n ELSE 0]

(* paper_match_fak, one price level a step: the level is taken out of the cached book. *)
Leftover_Kept(t, p, n) == book
Leftover(t, p, n) == [book EXCEPT ![t][p] = @ - n]

PaperLevel(l) ==
    LET t == Token[l] p == Best(t) n == Least(fire.remaining[l], book[t][p]) IN
    /\ cfg.mode = "paper" /\ l \in Planned
    /\ fire.remaining[l] > 0 /\ Asks(t) # {} /\ p <= fire.limit[l]
    /\ fire' = Filled(l, n, n * p)
    /\ book' = Leftover(t, p, n)
    /\ taken' = [taken EXCEPT ![t][p] = @ + n]
    /\ spent' = [spent EXCEPT ![l] = @ + n * p]
    /\ UNCHANGED <<cfg, state, disk, opened, stage, seen, order, wallet, resting,
                   starts, undone, unheard, lost, displayed, faults>>

PaperDone(l) ==
    /\ cfg.mode = "paper" /\ l \in Planned
    /\ \/ fire.remaining[l] = 0
       \/ Asks(Token[l]) = {}
       \/ Asks(Token[l]) # {} /\ Best(Token[l]) > fire.limit[l]
    /\ fire' = [fire EXCEPT !.limit[l] = 0]
    /\ UNCHANGED <<cfg, state, disk, opened, stage, seen, book, order, wallet, resting, ghosts>>

(* The port's own word on a planned leg, by the same cached book; the venue's minimum size  *)
(* and the sources that know the signing domain may differ from one order to the next.      *)
Intent(l) == [yes |-> l \in YesLegs, channel |-> Channel[l], floor |-> Floor[l], cap |-> Cap[l]]
Permitted(l) ==
    LET t == Token[l] IN
    fill_mode(Intent(l), Bands, Best(t)) /\ DeepEnough(Best(t), book[t][Best(t)])
Sendable(l, min, known) ==
    Permitted(l) /\ BigEnough(fire.remaining[l], min) /\ resolve_neg_risk(known)

(* LivePort.match sends nothing. *)
LiveSkip(l) ==
    /\ cfg.mode = "live" /\ l \in Planned /\ order = NoOrder
    /\ \E min \in MinSizes : \E known \in SUBSET DomainSources : ~ Sendable(l, min, known)
    /\ fire' = [fire EXCEPT !.limit[l] = 0]
    /\ UNCHANGED <<cfg, state, disk, opened, stage, seen, book, order, wallet, resting, ghosts>>

(* A market BUY carries cash, the shares wanted at the limit: the venue fills part of it at *)
(* one price under the limit (and may so return more shares than were wanted).              *)
MarketAmount(l) == fire.remaining[l] * fire.limit[l]
LivePost(l) ==
    /\ cfg.mode = "live" /\ l \in Planned /\ order = NoOrder
    /\ \E min \in MinSizes : \E known \in SUBSET DomainSources : Sendable(l, min, known)
    /\ LET amount == MarketAmount(l) IN
       \E p \in 1..fire.limit[l] : \E n \in 0..amount :
          /\ n * p <= amount
          /\ order' = [leg |-> l, shares |-> n, paid |-> n * p, open |-> amount - n * p]
          /\ wallet' = [wallet EXCEPT ![l] = @ + n]
          /\ spent' = [spent EXCEPT ![l] = @ + n * p]
    /\ UNCHANGED <<cfg, state, disk, opened, stage, seen, book, fire, resting,
                   starts, undone, unheard, lost, displayed, taken, faults>>

Answered(n, c) ==
    /\ fire' = [Filled(order.leg, n, c) EXCEPT !.limit[order.leg] = 0]
    /\ order' = NoOrder
    /\ lost' = [lost EXCEPT ![order.leg] = @ + order.shares - n]

(* poll_fill finds the order terminal and its trades readable: they sum to what was paid. *)
fill_trades == order.paid
Reported ==
    /\ order # NoOrder
    /\ Answered(order.shares, fill_trades)
    /\ UNCHANGED <<cfg, state, disk, opened, stage, seen, book, wallet, resting,
                   spent, starts, undone, unheard, displayed, taken, faults>>

(* Terminal, but the trades cannot be read: the shares count, their cost is booked as zero. *)
CostUnread_AtLimit == order.shares * fire.limit[order.leg]
CostUnread == 0
CostUnknown ==
    /\ order # NoOrder /\ order.shares > 0 /\ faults < MaxFaults
    /\ Answered(order.shares, CostUnread)
    /\ faults' = faults + 1
    /\ UNCHANGED <<cfg, state, disk, opened, stage, seen, book, wallet, resting,
                   spent, starts, undone, unheard, displayed, taken>>

(* The rest of an order nobody follows any more: voided (it was fill-and-kill), cancelled, or *)
(* resting where no cancel was confirmed.                                                   *)
LeftBehind ==
    IF order = NoOrder THEN UNCHANGED resting
    ELSE \E rest \in {0, order.open} : resting' = [resting EXCEPT ![order.leg] = @ + rest]

(* submit_failed, no_order_id or poll_error: the engine hears of no fill at all. *)
ReportLost ==
    /\ order # NoOrder /\ faults < MaxFaults
    /\ Answered(0, 0) /\ LeftBehind
    /\ unheard' = [unheard EXCEPT ![order.leg] = @ + 1]
    /\ faults' = faults + 1
    /\ UNCHANGED <<cfg, state, disk, opened, stage, seen, book, wallet,
                   spent, starts, undone, displayed, taken>>

(* Polling ends without a terminal state: what was matched so far counts, at no cost. *)
TimeOut ==
    /\ order # NoOrder /\ faults < MaxFaults
    /\ \E n \in 0..order.shares : Answered(n, 0)
    /\ LeftBehind
    /\ unheard' = [unheard EXCEPT ![order.leg] = @ + 1]
    /\ faults' = faults + 1
    /\ UNCHANGED <<cfg, state, disk, opened, stage, seen, book, wallet,
                   spent, starts, undone, displayed, taken>>

(* An order left at the venue fills later; nobody books it. *)
RestingFills(l) ==
    /\ \E p \in 1..Cap[l] : \E n \in 1..resting[l] :
          /\ n * p <= resting[l]
          /\ resting' = [resting EXCEPT ![l] = @ - n * p]
          /\ wallet' = [wallet EXCEPT ![l] = @ + n]
          /\ spent' = [spent EXCEPT ![l] = @ + n * p]
          /\ lost' = [lost EXCEPT ![l] = @ + n]
    /\ UNCHANGED <<cfg, state, disk, opened, stage, seen, book, fire, order,
                   starts, undone, unheard, displayed, taken, faults>>

-----------------------------------------------------------------------------
(* Booking.                                                                *)

(* An entry keeps a position already open under its key, a refire appends the legs that     *)
(* filled, a sleeve has a key of its own.                                                   *)
NewLegs(f) ==
    {l \in LegsOf(f) : \/ Kind[f] = "sleeve"
                      \/ (Kind[f] = "refire" /\ fire.filled[l] > 0)
                      \/ (Kind[f] \notin {"sleeve", "refire"} /\ Main(Key[f]) = {})}

Reserved_Unchecked(st) == TRUE
Reserved(st) == fire.total <= st.capital

Recorded(st, f) ==
    [st EXCEPT !.recorded = @ \cup NewLegs(f),
               !.shares   = [l \in Legs |-> IF l \in NewLegs(f) THEN fire.filled[l] ELSE @[l]],
               !.cost     = [l \in Legs |-> IF l \in NewLegs(f) THEN fire.cost[l] ELSE @[l]],
               !.sleeves  = IF Kind[f] = "sleeve" THEN @ \cup {Key[f]} ELSE @]

InFlight(l) == fire.filled[l] + (IF order.leg = l THEN order.shares ELSE 0)

(* What a position drops or a stand-down forgets stays in the wallet. *)
Forgotten == IF cfg.mode = "live" THEN [l \in Legs |-> lost[l] + InFlight(l)] ELSE lost

(* After the last rung: the ledger reserves the cost reported. *)
Fund ==
    /\ Between /\ ~fire.funded /\ fire.rung = Rungs /\ Reserved(state)
    /\ state' = [state EXCEPT !.capital = @ - fire.total]
    /\ fire' = [fire EXCEPT !.funded = TRUE]
    /\ UNCHANGED <<cfg, disk, opened, stage, seen, book, order, wallet, resting, ghosts>>

(* A cost the ledger cannot reserve stands the fire down. *)
StandDown ==
    /\ Between /\ ~fire.funded /\ fire.rung = Rungs /\ ~Reserved(state)
    /\ state' = StoodDown(state, fire.id)
    /\ lost' = Forgotten
    /\ fire' = Idle
    /\ UNCHANGED <<cfg, disk, opened, stage, seen, book, order, wallet, resting,
                   spent, starts, undone, unheard, displayed, taken, faults>>

(* What was reserved is recorded. *)
Conclude ==
    /\ Between /\ fire.funded
    /\ state' = Recorded(state, fire.id)
    /\ lost' = [l \in Legs |-> IF l \in NewLegs(fire.id) THEN lost[l] ELSE Forgotten[l]]
    /\ fire' = Idle
    /\ UNCHANGED <<cfg, disk, opened, stage, seen, book, order, wallet, resting,
                   spent, starts, undone, unheard, displayed, taken, faults>>

(* A live refire that bought its YES leg sells the old one before its own legs are merged:  *)
(* when that sale raises, the cycle is gone, the debit stays and the legs are nowhere.      *)
SellsOldYes(f) ==
    /\ cfg.mode = "live" /\ Kind[f] = "refire" /\ NewLegs(f) \cap YesLegs # {}
    /\ \E l \in Main(Key[f]) \cap YesLegs : state.shares[l] > 0
Stranded(st) == [st EXCEPT !.stranded = [l \in Legs |-> @[l] + fire.cost[l]]]
SaleRaises ==
    /\ Between /\ fire.funded /\ SellsOldYes(fire.id) /\ faults < MaxFaults
    /\ state' = Stranded(state)
    /\ lost' = Forgotten
    /\ fire' = Idle
    /\ stage' = "idle" /\ seen' = {}
    /\ faults' = faults + 1
    /\ UNCHANGED <<cfg, disk, opened, book, order, wallet, resting,
                   spent, starts, undone, unheard, displayed, taken>>

(* The cycle ends: the state file is written. *)
EndCycle ==
    /\ stage = "rules" /\ fire = Idle
    /\ stage' = "idle" /\ seen' = {} /\ disk' = state
    /\ UNCHANGED <<cfg, state, opened, book, fire, order, wallet, resting, ghosts>>

-----------------------------------------------------------------------------
(* What goes wrong.                                                        *)

(* The mandatory audit row cannot be written, before or after the post: the exception drops *)
(* the fire; a sleeve swallows it, any other fire takes the cycle with it, unsaved.         *)
AuditFails ==
    /\ cfg.mode = "live" /\ faults < MaxFaults
    /\ Planned # {}
    /\ lost' = Forgotten /\ LeftBehind
    /\ fire' = Idle /\ order' = NoOrder
    /\ stage' = IF Kind[fire.id] = "sleeve" THEN stage ELSE "idle"
    /\ seen' = IF Kind[fire.id] = "sleeve" THEN seen ELSE {}
    /\ undone' = [f \in Fires |-> IF f = fire.id /\ Kind[f] = "sleeve" THEN undone[f] + 1 ELSE undone[f]]
    /\ faults' = faults + 1
    /\ UNCHANGED <<cfg, state, disk, opened, book, wallet,
                   spent, starts, unheard, displayed, taken>>

(* The process dies and starts again from the state file. *)
Unsaved(l) == IF l \in state.recorded \ disk.recorded THEN state.shares[l] ELSE 0

Crash ==
    /\ faults < MaxFaults
    /\ state' = disk /\ LeftBehind
    /\ lost' = IF cfg.mode = "live" THEN [l \in Legs |-> Forgotten[l] + Unsaved(l)] ELSE lost
    /\ opened' = {} /\ seen' = {}
    /\ stage' = "idle" /\ fire' = Idle /\ order' = NoOrder
    /\ undone' = [f \in Fires |-> undone[f] + 1]
    /\ faults' = faults + 1
    /\ UNCHANGED <<cfg, disk, book, wallet, spent, starts, unheard, displayed, taken>>

-----------------------------------------------------------------------------
Next ==
    \/ BeginCycle \/ PlanRung \/ EndCycle
    \/ Fund \/ StandDown \/ Conclude \/ SaleRaises
    \/ \E f \in Fires : StartFire(f) \/ RefuseFire(f)
    \/ \E l \in Legs : PaperLevel(l) \/ PaperDone(l) \/ LiveSkip(l) \/ LivePost(l)
    \/ Reported \/ CostUnknown \/ ReportLost \/ TimeOut
    \/ \E l \in Legs : RestingFills(l)
    \/ AuditFails \/ Crash

Spec == Init /\ [][Next]_vars

-----------------------------------------------------------------------------
(* Properties.                                                             *)

LedgerType ==
    [capital : Int, recorded : SUBSET Legs, shares : [Legs -> Nat], cost : [Legs -> Nat],
     fires : [Sessions -> Nat], sleeves : SUBSET Sessions, stranded : [Legs -> Nat]]

FireType ==
    [id : Fires \cup {NoFire}, rung : Nat, funded : BOOLEAN, total : Nat,
     remaining : [Legs -> Nat], limit : [Legs -> Nat], filled : [Legs -> Nat],
     cost : [Legs -> Nat]]

OrderType == [leg : Legs \cup {NoLeg}, shares : Nat, paid : Nat, open : Nat]

(* The type of every variable. *)
TypeOK ==
    /\ cfg \in Setups
    /\ state \in LedgerType /\ disk \in LedgerType
    /\ opened \subseteq Sessions /\ seen \subseteq Sessions /\ stage \in {"idle", "rules"}
    /\ book \in [Tokens -> [Prices -> Nat]]
    /\ fire \in FireType /\ order \in OrderType
    /\ wallet \in [Legs -> Nat] /\ resting \in [Legs -> Nat] /\ spent \in [Legs -> Nat]
    /\ starts \in [Fires -> Nat] /\ undone \in [Fires -> Nat]
    /\ unheard \in [Legs -> Nat] /\ lost \in [Legs -> Nat]
    /\ displayed \in [Tokens -> [Prices -> Nat]] /\ taken \in [Tokens -> [Prices -> Nat]]
    /\ faults \in Nat

(* The ledger's debit is the cost of the recorded positions, what the fire at work has      *)
(* reserved, and what a refire debited before the sale of the old YES leg raised: such      *)
(* costs are in no position, they survive in the file, and only a live refire leaves them.  *)
(* A fire that stands down, a position kept and a lost report leave no debit behind, and    *)
(* capital is never overdrawn (_paper_fire, _record_fire_event, record_refire).             *)
Balanced(st, reserved) ==
    /\ st.capital >= 0
    /\ st.capital + reserved + SumFunctionOnSet(st.cost, st.recorded)
                            + SumFunctionOnSet(st.stranded, Legs) = Capital
OnHold == IF fire.funded THEN fire.total ELSE 0
StrandedByRefire(st) ==
    \A l \in Legs : st.stranded[l] > 0 =>
        cfg.mode = "live" /\ Kind[FireOf[l]] = "refire" /\ faults > 0
LedgerMatches ==
    /\ Balanced(state, OnHold) /\ Balanced(disk, 0)
    /\ StrandedByRefire(state) /\ StrandedByRefire(disk)

(* Live: every share the venue gave is in a position, in the fire at work, or counted among *)
(* those no report or no save told of; and as long as nothing has failed, a position shows  *)
(* exactly what the wallet holds, however many looks and orders it took to buy it.          *)
WalletExplained ==
    cfg.mode = "live" =>
        /\ \A l \in Legs : wallet[l] = state.shares[l] + InFlight(l) + lost[l]
        /\ faults = 0 => \A l \in state.recorded : wallet[l] = state.shares[l]

(* However the ladder retries, a leg's fire spends no more than its budget, and one budget  *)
(* more for every order whose report was lost or short; what still rests at the venue       *)
(* counts as spent.                                                                         *)
Budget(l) == Target[l] * Cap[l]
SpendBounded ==
    \A l \in Legs : spent[l] + resting[l] + (IF order.leg = l THEN order.open ELSE 0)
                       <= (starts[FireOf[l]] + unheard[l]) * Budget(l)

(* The cost debited for a leg, booked on its position or stranded, is never over the cash   *)
(* really spent on it: a cost that cannot be read is booked as zero, never as shares times  *)
(* limit (match and _fill_cost).                                                            *)
Debited(st, l) == st.cost[l] + st.stranded[l]
CostNotInflated == \A l \in Legs : Debited(state, l) + fire.cost[l] <= spent[l]

(* Two fires of one cycle never buy the same displayed shares: what paper took of a price   *)
(* level is gone from the cached ladder they share.                                         *)
DepthConserved ==
    cfg.mode = "paper" => \A t \in Tokens, p \in Prices : book[t][p] + taken[t][p] = displayed[t][p]

(* A fire goes through its window once, and a consensus session through one channel only,   *)
(* as long as no crash wipes the marks that say so.                                         *)
FiredOnce ==
    \A f, g \in Fires :
        /\ starts[f] <= 1 + undone[f]
        /\ (f # g /\ Key[f] = Key[g] /\ {Kind[f], Kind[g]} = {"target", "next"})
              => starts[f] + starts[g] <= 1 + undone[f]

=============================================================================
