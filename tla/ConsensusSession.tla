-------------------------- MODULE ConsensusSession --------------------------
(***************************************************************************)
(* The consensus-lock lane over one session of a market day, on the paper  *)
(* track: the strategy object of src/strategy_consensus_lock.py, which     *)
(* lives in the process, the position row and the ledger, which live in    *)
(* the state file, the price memory of src/consensus_tracker.py, and the   *)
(* cycle of src/_r_cycle.py that joins them.                               *)
(*                                                                         *)
(* A cycle records the books it sees, brings the strategy's memory up to   *)
(* date from the row, takes profit, evaluates the early stop, then visits  *)
(* the METAR report: breach or abortion of an open row, entry otherwise.   *)
(* The row is settled when its market resolves, and the file is written    *)
(* last.  A cycle can fail between two steps and keep its dict; a process  *)
(* can die and begin again from the file with an empty memory.             *)
(*                                                                         *)
(* Prices are cents, shares hundredths, cash the product of the two.       *)
(* Temperatures are whole degrees, one to a bucket; the end buckets are    *)
(* open.  The instants of the day (cutoffs, window) are ticks.             *)
(***************************************************************************)
EXTENDS ConsensusTracker, FiniteSets

CONSTANTS
    Buckets,      \* 1..n
    Looks,        \* of a direction: the looks at the books a cycle can have
    Days,         \* of a direction: [ref, temps, storms], the day a station can have
    PartialFills, \* shares a fire can fill besides nothing and all
    LastTick,     \* bound: the clock stops here
    Window,       \* next_bucket_twap_window_s
    Dwell,        \* of a direction: min_dwell_seconds_if_rising, low_min_dwell_seconds
    Grace,        \* early_stop_grace_seconds
    WindowEnd,    \* high_local_end, low_local_end
    SolarCutoff,  \* next_entry_high_cutoff_hour
    AbortFrom,    \* weather_abortion_cutoff_hour
    MaxCycles,    \* bound: cycles begun
    MaxFaults     \* bound: failed cycles and crashes

(* src/config/yes2re_reversal.json *)
Capital     == 1000000
FireBudget  == 1000       \* cents
NextPercent == 50         \* next_entry_budget_pct
TargetFloor == 42
TargetCap   == 86
NextFloor   == 27
NextCap     == 40
NextMinBid  == 18
NextMaxSpread == 12
NextMaxAsk  == 30         \* next_bucket_max_instant_ask
NextMaxBid  == 15         \* next_bucket_max_instant_bid
NextMaxTwap == [high |-> 26, low |-> 35]
StopFloor   == 65         \* early_stop_bid_floor
StopPercent == 50         \* next_bucket_stop_loss_pct
StopAbs     == 12         \* next_bucket_bid_floor
SurgeAsk    == 35
SurgeBid    == 15
WinningAsk  == 70
AbortDrop   == 3          \* whole degrees, 2.5 in the file
MaxFires    == 2

Directions == DOMAIN Days

ASSUME ConstantsAssumption ==
    /\ IsFiniteSet(Buckets) /\ Buckets = 1..Cardinality(Buckets)
    /\ Directions \subseteq {"high", "low"} /\ DOMAIN Looks = Directions
    /\ \A d \in Directions : Looks[d] \subseteq [Buckets -> [bid : Nat, ask : Nat]]
    /\ {LastTick, Window, Grace, WindowEnd, SolarCutoff, AbortFrom, MaxCycles, MaxFaults} \subseteq Nat
    /\ \A d \in Directions : \A today \in Days[d] :
          /\ today.ref \in Buckets \cup {0}
          /\ today.temps \in [1..LastTick + 1 -> Int]
          /\ today.storms \in [1..LastTick + 1 -> BOOLEAN]
    /\ Dwell \in [Directions -> Nat]
    /\ PartialFills \subseteq Nat

VARIABLES
    now,        \* ticks
    direction,  \* of the market: "high" or "low"
    day,        \* TAF extreme (0: none), and of each tick the temperature and the storm
    winner,     \* the bucket the market resolved to, 0 before
    look,       \* rule_books of this cycle
    report,     \* the report of this cycle
    samples,    \* the tracker's series
    mem,        \* the strategy object
    state,      \* the state dict
    disk,       \* the state file
    stage,      \* where the cycle is
    fire,       \* the entry fire in flight
    cycles,     \* history: cycles begun
    faults      \* history: faults so far

vars == <<now, direction, day, winner, look, report, samples, mem, state, disk, stage, fire, cycles, faults>>
world == <<now, direction, day, winner>>

-----------------------------------------------------------------------------
NoLook   == [b \in Buckets |-> NoQuote]
NoReport == [temp |-> "none"]
NoFire   == [channel |-> "none"]
NoBucket == 0
Bucket(temp) == IF temp \in Buckets THEN temp
                ELSE IF temp < 1 THEN 1 ELSE Cardinality(Buckets)

(* The bucket the extreme would move to, and whether one lies beyond another. *)
Ahead(b)     == IF direction = "high" THEN b + 1 ELSE b - 1
Beyond(b, c) == IF direction = "high" THEN b > c ELSE b < c

(* A strategy that has just been made, and a state without positions. *)
NoOpen  == [bucket |-> NoBucket, live |-> FALSE]
NoLock  == [channel |-> "none", target |-> NoBucket]
NoHist  == [prev |-> 0, last |-> 0, at |-> -1, len |-> 0, peak |-> 0]
NewMemory == [open |-> NoOpen, locked |-> NoLock, fires |-> 0, stopped |-> FALSE,
              breached |-> FALSE, used |-> 0, hist |-> NoHist]
NoRow   == [legs |-> <<>>, channel |-> "none", entered |-> 0, settled |-> FALSE,
            tpDone |-> FALSE, ended |-> 0, why |-> "none"]
NewLeg(b, shares, avg) == [bucket |-> b, shares |-> shares, cost |-> shares * avg,
                           avg |-> avg, payout |-> 0, settled |-> FALSE]
HasRow(row)  == row.legs # <<>>
RowOpen(row) == HasRow(row) /\ ~row.settled
IsHeld(l)    == l.shares > 0

Init ==
    /\ now = 0
    /\ direction \in Directions
    /\ day \in UNION {Days[d] : d \in Directions} /\ day \in Days[direction]
    /\ winner = NoBucket
    /\ look = NoLook /\ report = NoReport
    /\ samples = <<>>
    /\ mem = NewMemory
    /\ state = [row |-> NoRow, debit |-> 0,
                sold |-> 0]     \* history: cost of what a take-profit sold
    /\ disk = state
    /\ stage = "idle" /\ fire = NoFire /\ cycles = 0 /\ faults = 0

-----------------------------------------------------------------------------
(* The world. *)

Tick == /\ stage = "idle" /\ now < LastTick
        /\ now' = now + 1
        /\ UNCHANGED <<direction, day, winner, look, report, samples, mem, state, disk, stage, fire, cycles, faults>>

Resolve == /\ stage = "idle" /\ now = LastTick /\ winner = NoBucket
           /\ winner' \in Buckets
           /\ UNCHANGED <<now, direction, day, look, report, samples, mem, state, disk, stage, fire, cycles, faults>>

(* The report of this tick or the one before, or none; the books as they are cached. *)
Reports == {NoReport} \cup {[temp |-> day.temps[t + 1], storm |-> day.storms[t + 1]]
                               : t \in {now - 1, now} \cap Nat}
BeginCycle ==
    /\ stage = "idle" /\ cycles < MaxCycles
    /\ cycles' = cycles + 1
    /\ look' \in Looks[direction] \cup {NoLook}
    /\ report' \in Reports
    /\ samples' = Pruned(Recorded(samples, look', now), now, Window)
    /\ stage' = "exits"
    /\ UNCHANGED <<world, mem, state, disk, fire, faults>>

-----------------------------------------------------------------------------
(* The exit stage: memory from the row, take-profit, early stop. *)

OpenFrom(row) ==
    LET held == {i \in DOMAIN row.legs : IsHeld(row.legs[i])} IN
    IF held = {} THEN mem.open
    ELSE LET l == row.legs[Max(held)] IN
         [bucket |-> l.bucket, live |-> TRUE, avg |-> l.avg, entered |-> row.entered]
Synced_LockOnly(row) == [mem EXCEPT !.locked = [channel |-> row.channel, target |-> NoBucket]]
Synced(row) == [mem EXCEPT !.open = OpenFrom(row),
                           !.locked = [channel |-> row.channel, target |-> NoBucket]]
Spent_NotRemembered(m) == m
Spent(m) == [m EXCEPT !.stopped = TRUE, !.breached = TRUE]

(* evaluate_take_profit: half of a leg worth half as much again, all of a small one. *)
Ripe(row, l) == /\ ~row.tpDone /\ ~l.settled
                /\ look[l.bucket].bid > 0 /\ l.avg > 0
                /\ 2 * look[l.bucket].bid >= 3 * l.avg
                /\ l.shares >= 500
Sellable(l) == IF l.shares >= 1000 THEN l.shares \div 2 ELSE l.shares
SoldCost(l) == (l.cost * Sellable(l)) \div l.shares
Reduced_KeepsCost(l) == [l EXCEPT !.shares = @ - Sellable(l), !.settled = Sellable(l) = l.shares]
Reduced(l) == [l EXCEPT !.shares = @ - Sellable(l), !.cost = @ - SoldCost(l),
                        !.settled = Sellable(l) = l.shares]
TakeProfit(st) ==
    LET leg == Head(st.row.legs) IN
    IF ~Ripe(st.row, leg) THEN st
    ELSE [st EXCEPT !.row.legs = <<Reduced(leg)>>, !.row.tpDone = TRUE, !.sold = @ + SoldCost(leg)]

(* evaluate_early_stop_loss, on the position in memory.  A stop floor is a multiple of  *)
(* a half cent; a broken floor is looked at first and a surge only when there is none.  *)
Larger(a, b) == IF a > b THEN a ELSE b
TwiceFloor(m) == IF m.locked.channel = "next"
                 THEN Larger((m.open.avg * StopPercent) \div 50, 2 * StopAbs)
                 ELSE 2 * StopFloor
BidOf(m)   == look[m.open.bucket].bid
Winning(m) == look[m.open.bucket].ask >= WinningAsk
FloorBroken(m) == ~Winning(m) /\ BidOf(m) > 0 /\ 2 * BidOf(m) < TwiceFloor(m)
Surges(m) == /\ ~Winning(m) /\ Ahead(m.open.bucket) \in Buckets
             /\ look[Ahead(m.open.bucket)].ask >= SurgeAsk
             /\ look[Ahead(m.open.bucket)].bid >= SurgeBid
InGrace(m) == now - m.open.entered < Grace
Suppressed(m) == FloorBroken(m) /\ InGrace(m)
StopsNow(m) == m.open.live /\ (FloorBroken(m) \/ Surges(m)) /\ ~Suppressed(m)
Cause(m) == IF FloorBroken(m) THEN "floor" ELSE "surge"

(* close_leg_at_best_bid on every YES leg, then the row is settled. *)
Closable(l) == ~l.settled /\ l.shares > 0
Proceeds(l) == IF Closable(l) THEN l.shares * look[l.bucket].bid ELSE 0
ClosedLeg(l) == IF Closable(l) THEN [l EXCEPT !.settled = TRUE, !.payout = @ + Proceeds(l)] ELSE l
Closed(st, why) ==
    [st EXCEPT !.row.legs = <<ClosedLeg(Head(@))>>, !.row.settled = TRUE,
               !.row.why = why, !.row.ended = now,
               !.debit = @ - Proceeds(Head(st.row.legs))]

StopPosition(m) == Spent([m EXCEPT !.open.live = FALSE])
ExitStage ==
    /\ stage = "exits" /\ stage' = "report"
    /\ IF look = NoLook \/ ~HasRow(state.row) THEN UNCHANGED <<mem, state>>
       ELSE IF state.row.settled THEN mem' = Spent(mem) /\ UNCHANGED state
       ELSE LET m  == Synced(state.row)
                st == TakeProfit(state)
            IN  IF StopsNow(m)
                THEN mem' = StopPosition(m) /\ state' = Closed(st, Cause(m))
                ELSE mem' = m /\ state' = st
    /\ UNCHANGED <<world, look, report, samples, disk, fire, cycles, faults>>

-----------------------------------------------------------------------------
(* The report stage.  record_metar_observation keeps a temperature when it is new or     *)
(* when the last one was kept in an earlier tick (300 s): reports carry no age, so the    *)
(* time of the record is the time it was read.                                            *)
Kept(h, temp)  == h.len = 0 \/ h.last # temp \/ h.at # now
Noted(m) ==
    LET h == m.hist temp == report.temp IN
    [m EXCEPT
        !.hist = IF ~Kept(h, temp) THEN h
                 ELSE [prev |-> h.last, last |-> temp, at |-> now,
                       len |-> IF h.len < 2 THEN h.len + 1 ELSE 2,
                       peak |-> IF h.len = 0 THEN temp ELSE Larger(h.peak, temp)]]
(* The velocity gate: the last two temperatures kept. *)
TooFresh(m) == /\ m.hist.len = 2
               /\ IF direction = "high" THEN m.hist.last > m.hist.prev ELSE m.hist.last < m.hist.prev
               /\ now - m.hist.at < Dwell[direction]

Reported == stage = "report" /\ report # NoReport
NoReportYet ==
    /\ stage = "report" /\ report = NoReport
    /\ stage' = "settle"
    /\ UNCHANGED <<world, look, report, samples, mem, state, disk, fire, cycles, faults>>

(* handle_breach_risk_control: the bucket to compare with is the lock's, else the open    *)
(* position's; a session unknown to the memory is left alone.                             *)
Original(m) == IF m.locked.target # NoBucket THEN m.locked.target ELSE m.open.bucket
Breached(m) == Original(m) # NoBucket /\ Beyond(Bucket(report.temp), Original(m))
FiresOf(m)  == IF m.fires = 0 THEN 1 ELSE m.fires
Breach ==
    /\ Reported /\ RowOpen(state.row)
    /\ LET m == Noted(mem) IN
       /\ Breached(m)
       /\ mem' = [m EXCEPT !.breached = TRUE, !.open.live = FALSE,
                           !.fires = IF FiresOf(m) >= MaxFires THEN @ ELSE FiresOf(m) + 1]
       /\ stage' = IF FiresOf(m) >= MaxFires THEN "settle" ELSE "hedge"
    /\ state' = Closed(state, "breach")
    /\ UNCHANGED <<world, look, report, samples, disk, fire, cycles, faults>>

(* handle_weather_abortion_risk_control. *)
Aborts(m) == /\ direction = "high" /\ now >= AbortFrom
             /\ m.hist.peak - report.temp >= AbortDrop /\ report.storm
Abort ==
    /\ Reported /\ RowOpen(state.row)
    /\ ~Breached(Noted(mem)) /\ Aborts(Noted(mem))
    /\ mem' = Spent(Noted(mem))
    /\ state' = Closed(state, "abortion")
    /\ stage' = "settle"
    /\ UNCHANGED <<world, look, report, samples, disk, fire, cycles, faults>>

Hold ==
    /\ Reported /\ RowOpen(state.row)
    /\ ~Breached(Noted(mem)) /\ ~Aborts(Noted(mem))
    /\ mem' = Noted(mem)
    /\ stage' = "settle"
    /\ UNCHANGED <<world, look, report, samples, state, disk, fire, cycles, faults>>

-----------------------------------------------------------------------------
(* evaluate_entry. *)

Leader == Leaders(samples, Buckets, now)
(* The TAF extreme when there is one for the day, else a leading bucket. *)
References == IF day.ref # NoBucket THEN {day.ref} ELSE Leader
MayEnter(m) == /\ ~m.stopped /\ ~m.breached /\ ~m.open.live
               /\ m.fires < MaxFires /\ now < WindowEnd /\ ~TooFresh(m)
AtReference(ref) == Bucket(report.temp) = ref

(* The next-bucket channel: the bucket ahead, cheap and really bid for. *)
NextOffered(ref) ==
    /\ direction = "high" => now < SolarCutoff /\ ~report.storm
    /\ ref \in Leader /\ Ahead(ref) \in Buckets
    /\ LET q == look[Ahead(ref)] IN
       /\ q.ask >= NextFloor /\ q.ask <= NextCap
       /\ q.bid >= NextMinBid /\ q.ask - q.bid <= NextMaxSpread

(* The target channel: the leading bucket, the one ahead quiet over the window and now. *)
QuietAhead(ref) ==
    Ahead(ref) \in Buckets =>
       /\ LET series == Series(samples, Ahead(ref)) IN
          series = <<>> \/ LET twap == Twap(series, Ahead(ref), now) IN
                           twap.over < 2 * NextMaxTwap[direction] * twap.total
       /\ look[Ahead(ref)].ask < NextMaxAsk /\ look[Ahead(ref)].bid < NextMaxBid
TargetOffered(ref) ==
    /\ ref \in Leader /\ QuietAhead(ref)
    /\ look[ref].ask >= TargetFloor /\ look[ref].ask <= TargetCap

Taken(m, channel, b, used) ==
    [m EXCEPT !.open = [bucket |-> b, live |-> TRUE, avg |-> look[b].ask, entered |-> now],
              !.locked = [channel |-> channel, target |-> b],
              !.fires = @ + 1, !.used = used]
NextBudget == (FireBudget * NextPercent) \div 100
TargetBudget(m) == Larger(0, FireBudget - m.used)

Enters(m, ref) == Reported /\ ~RowOpen(state.row) /\ MayEnter(m) /\ AtReference(ref)
EnterNext ==
    /\ LET m == Noted(mem) IN
       \E ref \in References :
          /\ Enters(m, ref) /\ NextOffered(ref)
          /\ mem' = Taken(m, "next", Ahead(ref), NextBudget)
          /\ fire' = [channel |-> "next", bucket |-> Ahead(ref), budget |-> NextBudget,
                      floor |-> NextFloor, cap |-> NextCap]
    /\ stage' = "fire"
    /\ UNCHANGED <<world, look, report, samples, state, disk, cycles, faults>>

EnterTarget ==
    /\ LET m == Noted(mem) IN
       \E ref \in References :
          /\ Enters(m, ref) /\ ~NextOffered(ref) /\ TargetOffered(ref)
          /\ mem' = Taken(m, "target", ref, m.used)
          /\ fire' = [channel |-> "target", bucket |-> ref, budget |-> TargetBudget(m),
                      floor |-> TargetFloor, cap |-> TargetCap]
    /\ stage' = "fire"
    /\ UNCHANGED <<world, look, report, samples, state, disk, cycles, faults>>

Refuse ==
    /\ Reported /\ ~RowOpen(state.row)
    /\ \/ References = {}
       \/ \E ref \in References : \/ ~Enters(Noted(mem), ref)
                                  \/ ~NextOffered(ref) /\ ~TargetOffered(ref)
    /\ mem' = Noted(mem)
    /\ stage' = "settle"
    /\ UNCHANGED <<world, look, report, samples, state, disk, fire, cycles, faults>>

-----------------------------------------------------------------------------
(* The fires.  size_legs: a leg's share of the budget over its cap.  The books have moved *)
(* on since the decision: the fill is at what the cache holds now.                        *)
Shares(budget, percent, cap) == (budget * percent) \div cap
Fillable(q, floor, cap) == q.ask > floor /\ q.ask <= cap
Fills(size, q) == IF Fillable(q, fire.floor, fire.cap)
                  THEN {0, size} \cup {p \in PartialFills : p < size} ELSE {0}

(* _paper_fire and _record_fire_event: a fill the ledger affords opens the row, and so    *)
(* does a fire that fills nothing; a port that refuses leaves no row.                     *)
Fire ==
    /\ stage = "fire"
    /\ \E fresh \in Looks[direction] \cup {NoLook} :
          LET q == fresh[fire.bucket] size == Shares(fire.budget, 100, fire.cap) IN
          \E shares \in Fills(size, q) :
             /\ shares * q.ask <= Capital - state.debit
             /\ state' = [state EXCEPT
                   !.debit = @ + shares * q.ask,
                   !.row = [NoRow EXCEPT !.legs = <<NewLeg(fire.bucket, shares,
                                                          IF shares > 0 THEN q.ask ELSE 0)>>,
                                         !.channel = fire.channel, !.entered = now]]
    /\ stage' = "settle" /\ fire' = NoFire
    /\ UNCHANGED <<world, look, report, samples, mem, disk, cycles, faults>>

PortRefuses ==
    /\ stage = "fire"
    /\ stage' = "settle" /\ fire' = NoFire
    /\ UNCHANGED <<world, look, report, samples, mem, state, disk, cycles, faults>>

(* The hedge of a breach: NO of the broken bucket and YES of the new one, then          *)
(* record_refire appends the legs that filled.  The legs carry a cap and a budget of     *)
(* their own but no share of the fire's budget, and a leg without one counts as 0.       *)
HedgePercent == 0
HedgeLegs == {[bucket |-> Original(mem), cap |-> 85], [bucket |-> Bucket(report.temp), cap |-> 75]}
HedgeSize(leg) == Shares(FireBudget, HedgePercent, leg.cap)
Hedge ==
    /\ stage = "hedge"
    /\ \A leg \in HedgeLegs : HedgeSize(leg) = 0     \* nothing to order, nothing to append
    /\ stage' = "settle"
    /\ UNCHANGED <<world, look, report, samples, mem, state, disk, fire, cycles, faults>>

-----------------------------------------------------------------------------
(* settle_markets, the file, and what can go wrong. *)

Redeemed(l) == IF ~l.settled /\ l.bucket = winner THEN l.shares * 100 ELSE 0
Settle(pulled) ==
    /\ stage = "settle"
    /\ IF pulled
       THEN /\ winner # NoBucket /\ RowOpen(state.row)
            /\ LET l == Head(state.row.legs) IN
               state' = [state EXCEPT
                   !.row.legs = <<[l EXCEPT !.settled = TRUE, !.payout = @ + Redeemed(l)]>>,
                   !.row.settled = TRUE, !.row.why = "resolved", !.row.ended = now,
                   !.debit = @ - Redeemed(l)]
       ELSE UNCHANGED state
    /\ stage' = "save" /\ look' = NoLook /\ report' = NoReport
    /\ UNCHANGED <<world, samples, mem, disk, fire, cycles, faults>>

Save == /\ stage = "save"
        /\ disk' = state /\ stage' = "idle"
        /\ UNCHANGED <<world, look, report, samples, mem, state, fire, cycles, faults>>

(* The books and the report of a cycle are its own. *)
CycleEnds_MidFire == stage' = "idle" /\ look' = NoLook /\ report' = NoReport /\ fire' = fire
CycleEnds == stage' = "idle" /\ look' = NoLook /\ report' = NoReport /\ fire' = NoFire
Fault == faults < MaxFaults /\ faults' = faults + 1

CycleError == /\ stage # "idle" /\ Fault /\ CycleEnds
              /\ UNCHANGED <<world, samples, mem, state, disk, cycles>>

Crash == /\ Fault /\ CycleEnds
         /\ state' = disk /\ mem' = NewMemory /\ samples' = <<>>
         /\ UNCHANGED <<world, disk, cycles>>

Next == \/ Tick \/ Resolve
        \/ BeginCycle \/ ExitStage
        \/ NoReportYet \/ Breach \/ Abort \/ Hold
        \/ EnterNext \/ EnterTarget \/ Refuse
        \/ Fire \/ PortRefuses \/ Hedge
        \/ \E pulled \in BOOLEAN : Settle(pulled)
        \/ Save \/ CycleError \/ Crash

Spec == Init /\ [][Next]_vars

-----------------------------------------------------------------------------
(* Types. *)
Channels == {"none", "next", "target"}
TypeOK ==
    /\ now \in 0..LastTick /\ direction \in Directions /\ day \in Days[direction]
    /\ winner \in Buckets \cup {NoBucket}
    /\ look \in Looks[direction] \cup {NoLook}
    /\ \A i \in 1..Len(samples) : samples[i].at \in 0..now
    /\ mem.fires \in 0..MaxFires /\ mem.locked.channel \in Channels
    /\ mem.open.bucket \in Buckets \cup {NoBucket} /\ mem.open.live \in BOOLEAN
    /\ Len(state.row.legs) <= 1 /\ state.row.channel \in Channels
    /\ stage \in {"idle", "exits", "report", "fire", "hedge", "settle", "save"}
    /\ (fire = NoFire) = (stage # "fire")
    /\ cycles \in 0..MaxCycles /\ faults \in 0..MaxFaults

(* The paper ledger is what the row explains: its cost, less what it brought, plus the    *)
(* cost of what a take-profit sold, whose proceeds the ledger never sees                  *)
(* (paper_capital.py reserve, release; _r_cycle.py take-profit stage).                    *)
LedgerExplained ==
    LET legs == state.row.legs
        net  == [i \in DOMAIN legs |-> legs[i].cost - legs[i].payout]
    IN  state.debit = SumFunctionOnSet(net, DOMAIN legs) + state.sold

(* A fallen bid does not close a young position, of either channel and across restarts    *)
(* (evaluate_early_stop_loss: the grace after an entry).                                  *)
GraceHolds == state.row.why = "floor" => state.row.ended - state.row.entered >= Grace

(* Once a cycle with books has visited a report beyond the bucket of a position with      *)
(* shares, the position is closed, whatever the process remembered of it before           *)
(* (handle_breach_risk_control after the memory was rebuilt from the row).                *)
BreachedRowCloses ==
    stage \in {"hedge", "settle"} /\ look # NoLook /\ report # NoReport =>
        \A l \in Range(state.row.legs) :
            IsHeld(l) /\ state.row.entered < now => ~(RowOpen(state.row) /\ Beyond(Bucket(report.temp), l.bucket))

(* A position is closed when it must be and not before, also by a process that remembers     *)
(* nothing but the row.                                                                   *)
ExitsSound == GraceHolds /\ BreachedRowCloses

(* The saved row of a session only goes forward: it opens once, it closes once, and a     *)
(* session that has closed never trades again, not after a restart either                 *)
(* (the refinement of SessionLife).                                                       *)
Phase(st) == IF ~HasRow(st.row) THEN "waiting" ELSE IF st.row.settled THEN "over" ELSE "once"
Life == INSTANCE SessionLife WITH Sessions <- {"session"}, phase <- [s \in {"session"} |-> Phase(disk)]
LifeGoesForward == Life!Spec

(* The hedge of a breach orders something (handle_breach_risk_control, and the test of    *)
(* the breach cycle: the hedge fire actually fills).                                      *)
HedgeOrders == stage = "hedge" => \E leg \in HedgeLegs : HedgeSize(leg) > 0
=============================================================================
