------------------------------ MODULE LiveExit ------------------------------
(***************************************************************************)
(* The live exit channel (src/live/exit.py) inside the poll cycle that     *)
(* drives it (src/_r_cycle.py, src/runner_impl.py).                        *)
(*                                                                         *)
(* One engine thread walks the stages of a cycle: for every market rule    *)
(* take-profit, early stop, METAR breach or abortion (or the refire of the *)
(* reversal lane), then the retry sweep over pending exits, the sleeve     *)
(* time-out, settlement and the save of the state file.  An exit is a      *)
(* conversation with the venue: cancel our own resting orders, post one    *)
(* FAK SELL, poll the fill, book what was reported.  The venue fills our   *)
(* resting orders whenever it likes, its reports may be lost, and the      *)
(* process may die anywhere.                                               *)
(*                                                                         *)
(* Shares are small integers (one unit = 2.5 shares), prices are ticks.    *)
(***************************************************************************)
EXTENDS Naturals, FiniteSets

CONSTANTS
    Sessions,     \* position keys: "city|date|direction" and "...#sleeve"
    Legs,         \* the legs (tokens) those positions can hold
    Owner,        \* the session of each leg
    YesLegs,      \* legs whose outcome is YES; the others are NO
    RefireLegs,   \* legs that only a refire would buy
    Restable,     \* legs whose entry may have left an order resting at the venue
    Lane,         \* which part of the cycle drives a session
    NoLeg,
    Lots,         \* the sizes an entry can have
    MinOrder,     \* the venue's min_order_size
    TpMin,        \* fewest shares take-profit acts on     (5 shares)
    TpHalf,       \* from here take-profit sells only half (10 shares)
    MaxAttempts,  \* live_sell_max_attempts_per_cycle
    Floor,        \* live_sell_floor
    Slip,         \* the two ticks a breach or abortion order gives away
    TpBid,        \* bid at which take-profit signals (1.5 x entry price)
    MaxBid,       \* bound: largest bid
    MaxFaults     \* bound: crashes, lost reports and audit failures

Lanes == {"consensus_lock", "reversal", "sleeve"}
StopChannels == {"early_stop", "breach_rc", "abortion_rc", "refire_liq", "sleeve_timeout"}
Channels == StopChannels \cup {"take_profit"}
None == "none"
Stages == {"idle", "rules", "take_profit", "early_stop", "metar", "retry", "sleeve", "settle", "save"}
Phases == {"idle", "cancel", "post", "book"}

ASSUME ConstantsAssumption ==
    /\ NoLeg \notin Legs
    /\ Owner \in [Legs -> Sessions]
    /\ Lane \in [Sessions -> Lanes]
    /\ YesLegs \subseteq Legs /\ RefireLegs \subseteq Legs /\ Restable \subseteq Legs
    /\ Lots \subseteq Nat \ {0}
    /\ {MinOrder, TpMin, TpHalf, MaxAttempts, Floor, Slip, TpBid, MaxBid, MaxFaults}
          \subseteq Nat
    /\ MinOrder > 0 /\ Floor > 0 /\ TpMin > 0 /\ TpHalf > 1

(* Consensus-lock entries buy one YES leg per session (buy_yes_lock or buy_yes_next). *)
ASSUME OneYesLegAssumption ==
    \A l, m \in YesLegs : Owner[l] = Owner[m] /\ Lane[Owner[l]] = "consensus_lock" => l = m

VARIABLES
    state,     \* the engine's state dict
    disk,      \* the state file as last saved
    stage,     \* where the engine is in run_cycle
    todo,      \* rules the cycle has not visited yet
    cur,       \* the rule being visited
    channel,   \* the exit channel the current stage raised
    work,      \* legs that stage still has to sell
    request,   \* take-profit's shares_override (0: the whole leg) and the bid it saw
    merging,   \* the leg a refire filled and has not recorded yet, and its shares
    job,       \* the exit attempt in flight
    attempts,  \* live_exit_attempts of the current cycle
    wallet,    \* shares really held at the venue
    resting,   \* legs with an own order resting at the venue
    posted,    \* history: SELL orders posted in this cycle
    lost,      \* history: shares sold at the venue the books know nothing of
    faults     \* history: faults so far

engine == <<stage, todo, cur, channel, work, request, merging, job>>
venue  == <<wallet, resting>>
ghosts == <<posted, lost, faults>>
vars   == <<state, disk, engine, attempts, venue, ghosts>>

-----------------------------------------------------------------------------
(* Reading the state dict. *)

LegsOf(st, s) == {l \in st.recorded : Owner[l] = s}
OpenYes(s)    == (LegsOf(state, s) \cap YesLegs) \ state.settled
AllSettled(st, legs) == legs # {} /\ legs \subseteq st.settled

(* The test behind "liquidated": every YES leg of the position is closed. *)
Flat_Unchecked(st, s) == TRUE
Flat(st, s) == AllSettled(st, LegsOf(st, s) \cap YesLegs)

Rules   == {s \in Sessions : Lane[s] # "sleeve"}
Live(s) == s \notin state.posSettled /\ s \notin state.liquidated
Least(a, b) == IF a < b THEN a ELSE b

WholeLeg == [shares |-> 0, bid |-> 0]
Nothing  == [leg |-> NoLeg, shares |-> 0]
NoJob == [phase |-> "idle", leg |-> NoLeg, channel |-> None, size |-> 0, limit |-> 0, filled |-> 0]
Quiet == work = {} /\ job = NoJob

-----------------------------------------------------------------------------
Init ==
    /\ \E held \in [Legs -> Lots \cup {0}] :
          /\ \A l \in Legs : l \in RefireLegs <=> held[l] = 0
          /\ state = [recorded   |-> Legs \ RefireLegs,
                      shares     |-> held,
                      settled    |-> {},
                      resolved   |-> {},
                      pending    |-> [l \in Legs |-> None],
                      liquidated |-> {},
                      posSettled |-> {},
                      tpDone     |-> {},
                      refired    |-> {},
                      bought     |-> held,
                      credited   |-> [l \in Legs |-> 0]]
          /\ wallet = held
    /\ disk = state
    /\ stage = "idle" /\ todo = {} /\ cur \in Rules
    /\ channel = None /\ work = {} /\ request = WholeLeg /\ merging = Nothing /\ job = NoJob
    /\ attempts = [l \in Legs |-> 0]
    /\ resting \in SUBSET Restable
    /\ posted = [l \in Legs |-> 0]
    /\ lost = [l \in Legs |-> 0]
    /\ faults = 0

-----------------------------------------------------------------------------
(* The cycle: one rule after the other, then the sweeps.                   *)

(* run_cycle opens: live_exit.bump_cycle starts a new attempt count.        *)
BeginCycle ==
    /\ stage = "idle"
    /\ stage' = "rules"
    /\ todo' = Rules
    /\ attempts' = [l \in Legs |-> 0]
    /\ posted' = [l \in Legs |-> 0]
    /\ UNCHANGED <<state, disk, cur, channel, work, request, merging, job, venue, lost, faults>>

EnterRule(s) ==
    /\ stage = "rules" /\ s \in todo
    /\ todo' = todo \ {s}
    /\ cur' = s
    /\ stage' = CASE Lane[s] = "reversal" -> "metar"
                  [] Lane[s] = "consensus_lock" /\ Live(s) -> "take_profit"
                  [] OTHER -> "rules"
    /\ UNCHANGED <<state, disk, channel, work, request, merging, job, attempts, venue, ghosts>>

(* A stage raises an exit: the legs it will sell, one live_exit_leg each. *)
Raise(ch, legs, override) ==
    /\ channel' = ch
    /\ work' = legs
    /\ request' = override

(* evaluate_take_profit: half of a large leg, the whole of a small one. *)
TakeProfitSize(l) == IF state.shares[l] >= TpHalf THEN state.shares[l] \div 2 ELSE state.shares[l]

TakeProfit ==
    /\ stage = "take_profit" /\ channel = None
    /\ cur \notin state.tpDone
    /\ \E l \in OpenYes(cur), b \in TpBid..MaxBid :
          /\ state.shares[l] >= TpMin
          /\ Raise("take_profit", OpenYes(cur), [shares |-> TakeProfitSize(l), bid |-> b])
    /\ UNCHANGED <<state, disk, stage, todo, cur, merging, job, attempts, venue, ghosts>>

(* evaluate_early_stop_loss fires on the book (bid under the channel's floor, *)
(* or the next bucket's ask surging): the model lets it fire on any book.     *)
EarlyStop ==
    /\ stage = "early_stop" /\ channel = None
    /\ Raise("early_stop", OpenYes(cur), WholeLeg)
    /\ UNCHANGED <<state, disk, stage, todo, cur, merging, job, attempts, venue, ghosts>>

(* A METAR report breaches the held bucket, or else falsifies the day's high. *)
MetarExit(ch) ==
    /\ stage = "metar" /\ channel = None
    /\ Lane[cur] = "consensus_lock" /\ Live(cur)
    /\ Raise(ch, OpenYes(cur), WholeLeg)
    /\ UNCHANGED <<state, disk, stage, todo, cur, merging, job, attempts, venue, ghosts>>

(* The second fire of the reversal lane has bought a new YES leg: the old one *)
(* is sold, then the bought leg joins the position (Conclude).  A position    *)
(* already settled is out of reach: its market's day is over.                 *)
Refire(new, n) ==
    LET old == {l \in OpenYes(cur) : state.shares[l] > 0}
    IN  /\ stage = "metar" /\ channel = None
        /\ Lane[cur] = "reversal" /\ cur \notin state.posSettled /\ cur \notin state.refired
        /\ Owner[new] = cur /\ new \in RefireLegs \cap YesLegs
        /\ wallet' = [wallet EXCEPT ![new] = @ + n]
        /\ state' = [state EXCEPT !.refired = @ \cup {cur}]
        /\ merging' = [leg |-> new, shares |-> n]
        /\ IF old = {} THEN Raise("refire_liq", {}, WholeLeg)
                       ELSE \E l \in old : Raise("refire_liq", {l}, WholeLeg)
        /\ UNCHANGED <<disk, stage, todo, cur, job, attempts, resting, ghosts>>

(* The stage sees nothing to exit: the bid is short of the target, no stop, no report. *)
Pass ==
    /\ stage \in {"take_profit", "early_stop", "metar"} /\ channel = None
    /\ stage' = CASE stage = "take_profit" -> "early_stop"
                  [] stage = "early_stop"  -> "metar"
                  [] OTHER                 -> "rules"
    /\ UNCHANGED <<state, disk, todo, cur, channel, work, request, merging, job, attempts,
                   venue, ghosts>>

(* _retry_pending_exits: every pending exit of a position not yet settled.   *)
SweptLegs_NoRefire ==
    {l \in state.recorded : state.pending[l] \notin {None, "refire_liq"} /\ Owner[l] \notin state.posSettled}
SweptLegs == {l \in state.recorded : state.pending[l] # None /\ Owner[l] \notin state.posSettled}

RetrySweep ==
    /\ stage = "rules" /\ todo = {}
    /\ stage' = "retry"
    /\ Raise("retry", SweptLegs, WholeLeg)
    /\ UNCHANGED <<state, disk, todo, cur, merging, job, attempts, venue, ghosts>>

(* The sweep drops the record of a leg that is settled by now. *)
DropPending(l) ==
    /\ stage = "retry" /\ job = NoJob /\ l \in work /\ l \in state.settled
    /\ state' = [state EXCEPT !.pending[l] = None]
    /\ work' = work \ {l}
    /\ UNCHANGED <<disk, stage, todo, cur, channel, request, merging, job, attempts, venue, ghosts>>

(* _expire_stale_sleeves: one open leg of every sleeve past its time-out.     *)
SleeveTimeout ==
    /\ stage = "sleeve" /\ channel = None
    /\ \E stale \in SUBSET {l \in state.recorded \ state.settled :
                               Lane[Owner[l]] = "sleeve" /\ Owner[l] \notin state.posSettled} :
          /\ \A l, m \in stale : Owner[l] = Owner[m] => l = m
          /\ Raise("sleeve_timeout", stale, WholeLeg)
    /\ UNCHANGED <<state, disk, stage, todo, cur, merging, job, attempts, venue, ghosts>>

-----------------------------------------------------------------------------
(* One exit attempt (live_exit_leg): decide, cancel, sell, book.           *)

ChannelFor_Sweep(l) == channel
ChannelFor(l) == IF stage = "retry" THEN state.pending[l] ELSE channel
SizeFor(l)    == IF request.shares > 0 THEN request.shares ELSE state.shares[l]

(* plan_live_exit after the gates: shares, venue minimum, attempts, bid, floor. *)
Sellable_OneMore(l, b) ==
    l \notin state.settled /\ SizeFor(l) >= MinOrder /\ attempts[l] <= MaxAttempts /\ b >= Floor
Sellable(l, b) ==
    /\ l \notin state.settled
    /\ SizeFor(l) >= MinOrder
    /\ attempts[l] < MaxAttempts
    /\ b >= Floor

(* The best bid of the book cache, fetched once more from the venue when it has none;       *)
(* 0 is no bid.  Take-profit sells at the bid that raised it, any other stage at any bid.   *)
BidSeen == IF request.bid > 0 THEN {request.bid} ELSE 0..MaxBid

(* A breach or abortion order sells two ticks under the bid, never under the floor. *)
LimitFor(ch, b) ==
    IF ch \in {"breach_rc", "abortion_rc"}
    THEN IF b >= Floor + Slip THEN b - Slip ELSE Floor
    ELSE b

(* The three gates are read at the attempt; a closed one defers whatever the book says, *)
(* and so does every other reason of plan_live_exit.  Nothing is written.               *)
Defer(l) ==
    /\ job = NoJob /\ l \in work
    /\ stage = "retry" => l \notin state.settled
    /\ work' = work \ {l}
    /\ UNCHANGED <<state, disk, stage, todo, cur, channel, request, merging, job, attempts,
                   venue, ghosts>>

(* note_attempt, before anything is sent. *)
Decide(l) ==
    /\ job = NoJob /\ l \in work
    /\ \E b \in BidSeen :
          /\ Sellable(l, b)
          /\ job' = [phase |-> "cancel", leg |-> l, channel |-> ChannelFor(l), size |-> SizeFor(l),
                     limit |-> LimitFor(ChannelFor(l), b), filled |-> 0]
    /\ attempts' = [attempts EXCEPT ![l] = @ + 1]
    /\ work' = work \ {l}
    /\ UNCHANGED <<state, disk, stage, todo, cur, channel, request, merging, venue, ghosts>>

(* sell_leg: every own order resting on the position's tokens is cancelled before the SELL; *)
(* no client, no signing domain or one failed cancel means no order this time.              *)
OwnOrders(l) == resting \cap LegsOf(state, Owner[l])

Confirmed_Ignored(l, gone) == TRUE
Confirmed(l, gone) == gone = OwnOrders(l)

CancelFirst ==
    /\ job.phase = "cancel"
    /\ \E gone \in SUBSET OwnOrders(job.leg) :
          /\ resting' = resting \ gone
          /\ job' = [job EXCEPT !.phase = IF Confirmed(job.leg, gone) THEN "post" ELSE "book"]
    /\ UNCHANGED <<state, disk, stage, todo, cur, channel, work, request, merging, attempts,
                   wallet, ghosts>>

(* execute_leg posts one FAK; the venue fills any part the wallet covers, the rest is void. *)
PostSell ==
    /\ job.phase = "post"
    /\ \E f \in 0..Least(job.size, wallet[job.leg]) :
          /\ wallet' = [wallet EXCEPT ![job.leg] = @ - f]
          /\ job' = [job EXCEPT !.phase = "book", !.filled = f]
    /\ posted' = [posted EXCEPT ![job.leg] = @ + 1]
    /\ UNCHANGED <<state, disk, stage, todo, cur, channel, work, request, merging, attempts,
                   resting, lost, faults>>

(* apply_live_exit_fill and the tail of live_exit_leg: r shares are reported sold.          *)
(* pending_exit keeps what is left to sell, under the channel that tried; a take-profit     *)
(* that sold something, like a leg sold out, removes the token's entry whoever put it there.*)
(* Only run_cycle's own take-profit stage stamps take_profit_done, only the sleeve stage    *)
(* settles a position.                                                                      *)
Remaining_NotReduced(st, l, r) == st.shares[l]
Remaining(st, l, r) == st.shares[l] - r

SoldOut_AnyFill(st, l, r) == r > 0
SoldOut(st, l, r) == r > 0 /\ Remaining(st, l, r) = 0

PendingAfter_DropsRest(st, l, ch, r) == IF r = 0 THEN ch ELSE None
PendingAfter(st, l, ch, r) ==
    IF r = 0 \/ (Remaining(st, l, r) > 0 /\ ch # "take_profit") THEN ch ELSE None

Booked(st, l, ch, r) ==
    LET next == [st EXCEPT
                    !.shares[l]   = Remaining(st, l, r),
                    !.credited[l] = @ + r,
                    !.settled     = IF SoldOut(st, l, r) THEN @ \cup {l} ELSE @,
                    !.pending[l]  = PendingAfter(st, l, ch, r)]
    IN  [next EXCEPT
            !.liquidated = IF Flat(next, Owner[l]) THEN @ \cup {Owner[l]} ELSE @,
            !.tpDone     = IF stage = "take_profit" /\ r > 0 THEN @ \cup {Owner[l]} ELSE @,
            !.posSettled = IF /\ stage = "sleeve" /\ SoldOut(st, l, r)
                              /\ AllSettled(next, LegsOf(next, Owner[l]))
                           THEN @ \cup {Owner[l]} ELSE @]

Book(r) ==
    /\ job.phase = "book" /\ r <= job.filled
    /\ state' = Booked(state, job.leg, job.channel, r)
    /\ job' = NoJob
    /\ UNCHANGED <<disk, stage, todo, cur, channel, work, request, merging, attempts, venue, posted>>

(* poll_fill tells the fill it read at the venue ... *)
BookFill == Book(job.filled) /\ UNCHANGED <<lost, faults>>

(* ... or less: a read error reports nothing, a time-out what was matched so far.           *)
LoseReport ==
    /\ faults < MaxFaults
    /\ \E r \in 0..job.filled :
          /\ r < job.filled
          /\ Book(r)
          /\ lost' = [lost EXCEPT ![job.leg] = @ + job.filled - r]
    /\ faults' = faults + 1

-----------------------------------------------------------------------------
(* A stage ends; the cycle settles what the market resolved and saves.     *)

NextStage == CASE stage = "take_profit" -> "early_stop"
               [] stage = "early_stop"  -> "metar"
               [] stage = "metar"       -> "rules"
               [] stage = "retry"       -> "sleeve"
               [] stage = "sleeve"      -> "settle"
               [] OTHER                 -> stage

(* After its sales: an exit of the whole YES side marks the position liquidated, a refire   *)
(* appends the legs it bought.                                                              *)
Merged(st) ==
    IF merging = Nothing THEN st
    ELSE [st EXCEPT !.recorded            = @ \cup {merging.leg},
                    !.shares[merging.leg] = merging.shares,
                    !.bought[merging.leg] = merging.shares]

Concluded(st) ==
    CASE channel \in {"early_stop", "breach_rc", "abortion_rc"} ->
             [st EXCEPT !.liquidated = IF Flat(st, cur) THEN @ \cup {cur} ELSE @]
      [] channel = "refire_liq" -> Merged(st)
      [] OTHER -> st

Conclude ==
    /\ Quiet /\ channel # None
    /\ state' = Concluded(state)
    /\ stage' = NextStage
    /\ channel' = None /\ request' = WholeLeg /\ merging' = Nothing
    /\ UNCHANGED <<disk, todo, cur, work, job, attempts, venue, ghosts>>

(* settle_markets: a winning leg is credited its booked shares, a losing one written off.   *)
Resolved(st, done, won) ==
    LET next == [st EXCEPT
                    !.settled  = @ \cup done,
                    !.resolved = @ \cup done,
                    !.credited = [l \in Legs |-> IF l \in won THEN @[l] + st.shares[l] ELSE @[l]]]
    IN  [next EXCEPT !.posSettled = @ \cup {s \in Sessions : AllSettled(next, LegsOf(next, s))}]

Settle ==
    /\ stage = "settle"
    /\ \E done \in SUBSET {l \in state.recorded \ state.settled : Owner[l] \notin state.posSettled} :
       \E won \in SUBSET done : state' = Resolved(state, done, won)
    /\ stage' = "save"
    /\ UNCHANGED <<disk, todo, cur, channel, work, request, merging, job, attempts, venue, ghosts>>

(* Settlement is TTL-gated: most cycles go straight to the save. *)
SkipSettle ==
    /\ stage = "settle" /\ stage' = "save"
    /\ UNCHANGED <<state, disk, todo, cur, channel, work, request, merging, job, attempts,
                   venue, ghosts>>

Save ==
    /\ stage = "save"
    /\ disk' = state
    /\ stage' = "idle"
    /\ UNCHANGED <<state, todo, cur, channel, work, request, merging, job, attempts, venue, ghosts>>

-----------------------------------------------------------------------------
(* What goes wrong.                                                        *)

(* An own BUY order left by the entry fills at the venue; no position books it. *)
RestingFills(l) ==
    /\ l \in resting
    /\ resting' = resting \ {l}
    /\ wallet' = [wallet EXCEPT ![l] = @ + 1]
    /\ UNCHANGED <<state, disk, engine, attempts, ghosts>>

Abandon ==
    /\ stage' = "idle" /\ todo' = {} /\ UNCHANGED cur
    /\ channel' = None /\ work' = {} /\ request' = WholeLeg /\ merging' = Nothing /\ job' = NoJob

InFlight(l) == IF job.leg = l THEN job.filled ELSE 0

(* The mandatory audit row cannot be written (before the post: no order goes out; after it: *)
(* the order stands): the exception ends the cycle unsaved, or in the sweep just this leg.  *)
AuditFails ==
    /\ faults < MaxFaults /\ job.phase \in {"post", "book"}
    /\ lost' = [l \in Legs |-> lost[l] + InFlight(l)]
    /\ IF stage = "retry"
       THEN job' = NoJob /\ UNCHANGED <<stage, todo, cur, channel, work, request, merging>>
       ELSE Abandon
    /\ faults' = faults + 1
    /\ UNCHANGED <<state, disk, attempts, venue, posted>>

(* Any other exception of a cycle: main logs it and starts over, keeping what is in memory. *)
CycleError ==
    /\ faults < MaxFaults /\ stage # "idle" /\ job = NoJob
    /\ Abandon
    /\ faults' = faults + 1
    /\ UNCHANGED <<state, disk, attempts, venue, posted, lost>>

(* The process dies and starts again from the state file. *)
Crash ==
    /\ faults < MaxFaults
    /\ state' = disk
    /\ Abandon
    /\ lost' = [l \in Legs |-> lost[l] + InFlight(l)
                   + (IF disk.shares[l] > state.shares[l] THEN disk.shares[l] - state.shares[l] ELSE 0)]
    /\ faults' = faults + 1
    /\ UNCHANGED <<disk, attempts, venue, posted>>

-----------------------------------------------------------------------------
Engine ==
    \/ BeginCycle \/ Pass \/ TakeProfit \/ EarlyStop \/ RetrySweep \/ SleeveTimeout
    \/ CancelFirst \/ PostSell \/ BookFill \/ Conclude \/ Settle \/ SkipSettle \/ Save
    \/ \E s \in Sessions : EnterRule(s)
    \/ \E ch \in {"breach_rc", "abortion_rc"} : MetarExit(ch)
    \/ \E l \in Legs : DropPending(l) \/ Defer(l) \/ Decide(l)
    \/ \E l \in Legs, n \in Lots : Refire(l, n)

Environment == \E l \in Legs : RestingFills(l)

Fault == LoseReport \/ AuditFails \/ CycleError \/ Crash

Next == Engine \/ Environment \/ Fault

Spec == Init /\ [][Next]_vars

(* The engine thread never stops walking (main's loop).  Of the venue, liveness assumes     *)
(* that it comes to its senses: from some moment on gates are open and bids at or over the  *)
(* floor, so that a leg is deferred only for what plan_live_exit itself finds wrong, cancels*)
(* are confirmed, and an order fills whole.  Before that it may misbehave as it likes.      *)
VenueWorks ==
    /\ \A l \in Legs : Defer(l) => ~ \E b \in BidSeen : Sellable(l, b)
    /\ CancelFirst => job'.phase = "post"
    /\ PostSell => job'.filled = job.size

FairSpec == Spec /\ WF_vars(Engine) /\ <>[][VenueWorks]_vars

-----------------------------------------------------------------------------
(* Properties.                                                             *)

LedgerType ==
    [recorded   : SUBSET Legs,
     shares     : [Legs -> Nat],
     settled    : SUBSET Legs,
     resolved   : SUBSET Legs,
     pending    : [Legs -> Channels \cup {None}],
     liquidated : SUBSET Sessions,
     posSettled : SUBSET Sessions,
     tpDone     : SUBSET Sessions,
     refired    : SUBSET Sessions,
     bought     : [Legs -> Nat],
     credited   : [Legs -> Nat]]

JobType ==
    [phase : Phases, leg : Legs \cup {NoLeg}, channel : Channels \cup {None},
     size : Nat, limit : Nat, filled : Nat]

(* The type of every variable. *)
TypeOK ==
    /\ state \in LedgerType /\ disk \in LedgerType
    /\ stage \in Stages /\ todo \subseteq Sessions /\ cur \in Sessions
    /\ channel \in Channels \cup {None, "retry"}
    /\ work \subseteq Legs /\ request \in [shares : Nat, bid : Nat]
    /\ merging \in [leg : Legs \cup {NoLeg}, shares : Nat]
    /\ job \in JobType
    /\ attempts \in [Legs -> Nat]
    /\ wallet \in [Legs -> Nat] /\ resting \subseteq Legs
    /\ posted \in [Legs -> Nat] /\ lost \in [Legs -> Nat] /\ faults \in Nat

(* Every share an entry booked is accounted for exactly once: it is still held, or its sale *)
(* was credited; a leg closed by a sale was sold to the last share (no virtual close), and a *)
(* resolved one is never credited more than was bought (apply_live_exit_fill, settle_leg).  *)
Accounted(st) ==
    \A l \in st.recorded :
        /\ l \notin st.settled => st.credited[l] + st.shares[l] = st.bought[l]
        /\ l \in st.settled \ st.resolved => st.shares[l] = 0 /\ st.credited[l] = st.bought[l]
        /\ st.credited[l] <= st.bought[l]
Conserved == Accounted(state) /\ Accounted(disk)

(* The books never claim a share the wallet lacks, except one sold in an order whose report *)
(* was lost or whose booking a crash undid: retries and settlement act on real shares.      *)
Backed == \A l \in Legs : state.shares[l] <= wallet[l] + InFlight(l) + lost[l]

(* When a SELL goes out, no own order rests on any leg of the position, the limit is not    *)
(* under the sell floor, the venue takes the size and the position still holds it.          *)
SellGuarded ==
    job.phase = "post" =>
        /\ OwnOrders(job.leg) = {}
        /\ job.limit >= Floor
        /\ job.size >= MinOrder /\ job.size <= state.shares[job.leg]

(* However many stages and sweeps of one cycle want to exit a leg, no more orders than      *)
(* live_sell_max_attempts_per_cycle are posted for it.                                      *)
AttemptsCapped == \A l \in Legs : posted[l] <= MaxAttempts

(* A consensus-lock position marked liquidated, which run_cycle stops guarding, holds no    *)
(* open YES leg: neither a partial fill nor a sale of one leg may raise the flag.           *)
FlatWhenLiquidated(st) ==
    \A s \in st.liquidated :
        Lane[s] = "consensus_lock" => LegsOf(st, s) \cap YesLegs \subseteq st.settled
LiquidatedIsFlat == FlatWhenLiquidated(state)

(* What a stop exit leaves unsold stays registered until it is sold or resolved: "the       *)
(* remainder is never dropped" (_retry_pending_exits), in the lanes where no take-profit     *)
(* works beside it.                                                                         *)
RemainderTracked ==
    \A l \in {m \in state.recorded : Lane[Owner[m]] # "consensus_lock"} :
        (state.credited[l] > 0 /\ l \notin state.settled) => state.pending[l] # None

(* A stop exit that was once registered is worked off: the leg is sold out or resolved, or  *)
(* what is left of it is too small for the venue to take.                                   *)
PendingExitsComplete ==
    \A l \in Legs :
        state.pending[l] # None ~> (l \in state.settled \/ state.shares[l] < MinOrder)
=============================================================================
