-------------------------- MODULE ReversalSession --------------------------
(***************************************************************************)
(* The reversal lane over a market day, on the paper track: the session    *)
(* records of src/reversal_strategy.py (armed, fired, extremes, the last   *)
(* observations), the sleeve beside them, the position rows they open and  *)
(* the paper ledger of src/paper_capital.py behind those.                  *)
(*                                                                         *)
(* A poll cycle prunes the records, visits the rule of every session whose *)
(* market day is today (sleeve, then maybe_arm_or_fire on the last METAR   *)
(* report, then the fire's window), retires sleeves, settles resolved rows *)
(* and saves.  Reports come late, twice or out of order; a cycle can fail  *)
(* between any two steps and keeps its dict; a process can die and starts  *)
(* again from the file; a city can leave the registry and come back.       *)
(*                                                                         *)
(* Temperatures are whole degrees, buckets are numbered in their order.    *)
(* The hours are 0 (dawn, the LOW window), 1 (afternoon, the HIGH window)  *)
(* and 2 (after midnight).                                                 *)
(***************************************************************************)
EXTENDS Integers, Sequences, FiniteSets, Functions

CONSTANTS
    Sessions,    \* "city|date|direction", each of a city of its own
    Temps,       \* temperatures a report or a forecast can carry
    Width,       \* degrees in a bucket: 1 in a Celsius market, 2 in a Fahrenheit one
    Margin,      \* break_confirm_margin_f: 0 in a Celsius market
    Curves,      \* of a direction: the reports a station can issue over the day, in order of their times
    SleeveBuckets, \* the neighbours a sleeve can buy
    Capital,     \* paper_initial_capital_usdc
    StrategyCap, \* max_open_positions as maybe_arm_or_fire reads it (0: none)
    MaxFires,    \* MAX_FIRES_PER_SESSION
    SleeveOn,    \* sleeve_enabled
    NoSession,
    MaxEntries,  \* bound: sleeves entered in a session
    MaxFaults    \* bound: failed cycles, crashes and cities that leave

LastHour == 2    \* bound: the clock stops after midnight

ASSUME ConstantsAssumption ==
    /\ IsFiniteSet(Sessions) /\ NoSession \notin Sessions
    /\ Temps \subseteq Nat /\ Curves.high \cup Curves.low \subseteq Seq(Temps)
    /\ Width \in Nat \ {0}
    /\ SleeveBuckets \subseteq {t \div Width : t \in Temps}
    /\ {Margin, Capital, StrategyCap, MaxFires, MaxEntries, MaxFaults} \subseteq Nat
    /\ MaxFires <= 2                \* the refire has one way to choose its target
    /\ SleeveOn \in BOOLEAN

VARIABLES
    now,        \* hours since the market day began
    universe,   \* sessions whose city is in the registry
    direction,  \* of each session's market: "high" or "low"
    curve,      \* the reports of each session's station
    feed,       \* the one this cycle sees (0: none)
    winner,     \* the bucket each session's market resolved to
    state,      \* the state dict
    disk,       \* the state file
    stage,      \* where the cycle is
    todo,       \* rules this cycle has not visited
    fire,       \* the fire in flight
    dropped,    \* history: sessions pruned because their city was gone
    faults      \* history: faults so far

vars == <<now, universe, direction, curve, feed, winner, state, disk, stage, todo, fire, dropped, faults>>

-----------------------------------------------------------------------------
Bucket(t) == t \div Width
Buckets   == {Bucket(t) : t \in Temps}
Unseen    == [s \in Sessions |-> 0]
Unknown   == -1                  \* no extreme yet, or no resolution yet
NoMark    == -1                  \* no fired record
Lock      == 0                   \* a fired record without a fires counter
Today     == now < 2             \* the sessions' market day is the local day

Row(legs)  == [legs |-> legs, settled |-> FALSE]
NoRow      == [legs |-> {}, settled |-> TRUE]    \* treated like a settled one everywhere
Keys       == {<<s, k>> : s \in Sessions, k \in {"main", "sleeve"}}
Main(s)    == <<s, "main">>
Sleeve(s)  == <<s, "sleeve">>
Open(key)  == ~state.rows[key].settled
OpenLeg(l) == l.status = "open"

Filled    == [shares |-> 2, cost |-> 1]
Unfilled  == [shares |-> 0, cost |-> 0]
Fills     == {Filled, Unfilled}
Bids      == {0, 1}              \* what a whole leg brings at the best bid, 0 without one
NewLeg(f, outcome, bucket, fill) ==
    [fire |-> f, outcome |-> outcome, bucket |-> bucket, shares |-> fill.shares,
     cost |-> fill.cost, payout |-> 0, status |-> "open"]
NoFire == [s |-> NoSession, no |-> 0, broken |-> 0, new |-> 0]

Init ==
    /\ now = 0 /\ universe = Sessions
    /\ direction \in [Sessions -> {"high", "low"}]
    /\ curve \in [Sessions -> Curves.high \cup Curves.low]
    /\ \A s \in Sessions : curve[s] \in Curves[direction[s]]
    /\ feed = Unseen
    /\ winner = [s \in Sessions |-> Unknown]
    /\ state = [armed   |-> {},
                ever    |-> {},
                fired   |-> [s \in Sessions |-> NoMark],
                extreme |-> [s \in Sessions |-> Unknown],
                lastObs |-> [s \in Sessions |-> 0],
                fireObs |-> [s \in Sessions |-> 0],
                sleeves |-> [s \in Sessions |-> "none"],
                rows    |-> [k \in Keys |-> NoRow],
                debit   |-> 0,
                \* history: the fires of each session, sleeves entered, and the
                \* net cost of rows a later sleeve replaced.  On the paper track a
                \* fire exists in the dict alone, and so does its history.
                shots   |-> [s \in Sessions |-> <<>>],
                entries |-> [s \in Sessions |-> 0],
                gone    |-> 0]
    /\ disk = state
    /\ stage = "idle" /\ todo = {} /\ fire = NoFire
    /\ dropped = {} /\ faults = 0

-----------------------------------------------------------------------------
(* The environment. *)

Hour == /\ stage = "idle" /\ now < LastHour
        /\ now' = now + 1
        /\ UNCHANGED <<universe, direction, curve, feed, winner, state, disk, stage, todo, fire, dropped, faults>>

(* The registry file is read at every cycle; a city leaves it at most once here. *)
Fault == faults < MaxFaults /\ faults' = faults + 1

LeaveRegistry(s) ==
    /\ stage = "idle" /\ s \in universe \ dropped
    /\ Fault
    /\ universe' = universe \ {s}
    /\ UNCHANGED <<now, direction, curve, feed, winner, state, disk, stage, todo, fire, dropped>>

RejoinRegistry(s) ==
    /\ stage = "idle" /\ s \notin universe
    /\ universe' = universe \cup {s}
    /\ UNCHANGED <<now, direction, curve, feed, winner, state, disk, stage, todo, fire, dropped, faults>>

Resolve(s) ==
    /\ stage = "idle" /\ ~Today /\ winner[s] = Unknown
    /\ \E b \in Buckets : winner' = [winner EXCEPT ![s] = b]
    /\ UNCHANGED <<now, universe, direction, curve, feed, state, disk, stage, todo, fire, dropped, faults>>

-----------------------------------------------------------------------------
(* prune_stale_sessions: records of unknown cities go; so do those of a past day, except   *)
(* the fired mark of a session whose row is still open; so do LOW sessions armed past dawn. *)
KeptMark_Settled(s) == ~Open(Main(s))
KeptMark(s) == Open(Main(s))
Gone(s)      == s \notin universe
Expired(s)   == Gone(s) \/ ~Today
Zombie(s) == direction[s] = "low" /\ now > 0
Unmarked(s)  == Gone(s) \/ (~Today /\ ~KeptMark(s))

Pruned ==
    [state EXCEPT
        !.armed   = {s \in @ : ~Expired(s) /\ ~Zombie(s)},
        !.ever    = {s \in @ : ~Expired(s)},
        !.fired   = [s \in Sessions |-> IF Unmarked(s) THEN NoMark ELSE @[s]],
        !.extreme = [s \in Sessions |-> IF Expired(s) THEN Unknown ELSE @[s]],
        !.lastObs = [s \in Sessions |-> IF Expired(s) THEN 0 ELSE @[s]],
        !.fireObs = [s \in Sessions |-> IF Expired(s) THEN 0 ELSE @[s]]]

(* The rules cache may still list yesterday's rules; only today's are visited. *)
(* The METAR pull brings a report of the day: a new one, the same, an older one late.      *)
BeginCycle ==
    /\ stage = "idle"
    /\ feed' \in {f \in [Sessions -> {0} \cup UNION {DOMAIN curve[s] : s \in Sessions}] :
                   \A s \in Sessions : f[s] \in {0} \cup IF Today THEN DOMAIN curve[s] ELSE {}}
    /\ state' = Pruned
    /\ dropped' = dropped \cup {s \in Sessions : Gone(s)}
    /\ todo' = {s \in universe : Today}
    /\ stage' = "rules"
    /\ UNCHANGED <<now, universe, direction, curve, winner, disk, fire, faults>>

-----------------------------------------------------------------------------
(* The ledger. *)

Remaining == Capital - state.debit
Affords(cost) == cost <= Remaining
Released_Clamped(amount) == IF amount > state.debit THEN 0 ELSE state.debit - amount
Released(amount) == state.debit - amount
Cost(legs) == SumFunctionOnSet([l \in legs |-> l.cost - l.payout], legs)

(* close_leg_at_best_bid, settle_leg: the leg ends and what it brought is its payout. *)
Closed(l, amount) == [l EXCEPT !.status = "settled", !.payout = amount]
SettledIf(legs) == \A l \in legs : ~OpenLeg(l)

(* _enter_sleeve: one entry for each record; a sleeve row is written over what was there. *)
SleeveAllowed(s) == state.fired[s] = NoMark /\ state.sleeves[s] = "none"
SleeveStatus(funded) == IF funded THEN "open" ELSE "no_fill"
EnterSleeve(s) ==
    /\ SleeveOn /\ stage = "rules" /\ s \in todo /\ state.entries[s] < MaxEntries
    /\ SleeveAllowed(s)
    /\ \E b \in SleeveBuckets, fill \in Fills :
          LET funded == fill.cost = 0 \/ Affords(fill.cost) IN
          state' = [state EXCEPT
              !.sleeves[s] = SleeveStatus(funded),
              !.entries[s] = @ + (IF funded THEN 1 ELSE 0),
              !.gone = @ + (IF funded THEN Cost(state.rows[Sleeve(s)].legs) ELSE 0),
              !.debit = @ + (IF funded THEN fill.cost ELSE 0),
              !.rows[Sleeve(s)] = IF funded THEN Row({NewLeg(0, "YES", b, fill)}) ELSE @]
    /\ UNCHANGED <<now, universe, direction, curve, feed, winner, disk, stage, todo, fire, dropped, faults>>

-----------------------------------------------------------------------------
(* maybe_arm_or_fire. *)

FiresUsed(s) == IF state.fired[s] = NoMark THEN 0
                ELSE IF state.fired[s] = Lock THEN 1 ELSE state.fired[s]
OpenCount   == Cardinality({k \in Keys : Open(k)})
AtCap       == StrategyCap > 0 /\ OpenCount >= StrategyCap
Spent(s) == FiresUsed(s) >= MaxFires
Unlocked(s) == state.fired[s] = NoMark /\ Open(Main(s))
IsRepeat(s) == \/ state.fireObs[s] = feed[s]
               \/ state.lastObs[s] = feed[s]

Visit(s) == /\ stage = "rules" /\ s \in todo
            /\ todo' = todo \ {s}
            /\ UNCHANGED <<now, universe, direction, curve, feed, winner, disk, dropped, faults>>

(* No report, both fires used, the same report again, or the cap is reached. *)
Skip(s) ==
    /\ Visit(s)
    /\ \/ feed[s] = 0
       \/ Spent(s)
       \/ ~Unlocked(s) /\ (IsRepeat(s) \/ AtCap)
    /\ UNCHANGED <<state, stage, fire>>

(* An open row without a fired mark: the mark is restored, as a lock. *)
LockOpenRow(s) ==
    /\ Visit(s) /\ feed[s] # 0
    /\ ~Spent(s) /\ Unlocked(s)
    /\ state' = [state EXCEPT !.fired[s] = Lock]
    /\ UNCHANGED <<stage, fire>>

Consumes(s) == /\ feed[s] # 0
               /\ ~Spent(s) /\ ~Unlocked(s) /\ ~AtCap /\ ~IsRepeat(s)

Up(s)      == direction[s] = "high"
Further(a, b) == IF a > b THEN a ELSE b
Lesser(a, b)  == IF a < b THEN a ELSE b
Running(s) == IF state.extreme[s] = Unknown THEN curve[s][feed[s]]
              ELSE IF Up(s) THEN Further(state.extreme[s], curve[s][feed[s]])
              ELSE Lesser(state.extreme[s], curve[s][feed[s]])
Seen(s)    == [state EXCEPT !.lastObs[s] = feed[s], !.extreme[s] = Running(s)]

(* The reference: the TAF extreme, else the middle of the market's rank-1 bucket. *)
(* Distances are doubled so that a middle is whole.                               *)
References == {[bucket |-> Bucket(t), twice |-> 2 * t] : t \in Temps}
              \cup {[bucket |-> b, twice |-> (2 * b + 1) * Width] : b \in Buckets}
Jump(s, ref) == IF Up(s) THEN Bucket(Running(s)) - ref.bucket
                ELSE ref.bucket - Bucket(Running(s))
Apart(s, ref) == Further(2 * Running(s) - ref.twice, ref.twice - 2 * Running(s))
Near(s, ref) == Apart(s, ref) <= 2          \* arm_c = 1.0
Away(s, ref) == Apart(s, ref) > 3           \* arm_c + 0.7, of half degrees
InWindow(s)  == now = IF Up(s) THEN 1 ELSE 0
Confirmed(s, ref) == IF Up(s) THEN Running(s) >= (ref.bucket + 1) * Width + Margin
                     ELSE Running(s) <= ref.bucket * Width - Margin
Armed(s) == s \in state.armed \cup state.ever

(* refire_target_index: the open YES leg of the first fire lies behind the extreme. *)
YesHeld(s) == {l \in state.rows[Main(s)].legs :
                  OpenLeg(l) /\ l.outcome = "YES" /\ l.shares > 0}
Passed(s, l) == IF Up(s) THEN Bucket(Running(s)) > l.bucket ELSE Bucket(Running(s)) < l.bucket
FirstYes(s)  == CHOOSE l \in YesHeld(s) : \A m \in YesHeld(s) : l.fire <= m.fire
Advanced_AnyBreak(s) == Open(Main(s))
Advanced(s) == /\ Open(Main(s))
                /\ YesHeld(s) # {} /\ Passed(s, FirstYes(s))
MayRefire(s) == FiresUsed(s) = 1 => Advanced(s)

NoReference(s) ==
    /\ Visit(s) /\ Consumes(s)
    /\ state' = Seen(s)
    /\ UNCHANGED <<stage, fire>>

(* A break that is not confirmed, out of hours, stale, or refused by the consensus      *)
(* filter (the report's age and the tracker's verdict are inputs); or no further break. *)
Ignore(s) ==
    /\ Visit(s) /\ Consumes(s)
    /\ \E ref \in References : Jump(s, ref) > 0 \/ FiresUsed(s) = 1
    /\ state' = Seen(s)
    /\ UNCHANGED <<stage, fire>>

Arm(s) ==
    /\ Visit(s) /\ Consumes(s) /\ FiresUsed(s) = 0
    /\ \E ref \in References : Jump(s, ref) <= 0 /\ Near(s, ref) /\ InWindow(s)
    /\ state' = [Seen(s) EXCEPT !.armed = @ \cup {s}, !.ever = @ \cup {s}]
    /\ UNCHANGED <<stage, fire>>

Disarm(s) ==
    /\ Visit(s) /\ Consumes(s) /\ FiresUsed(s) = 0
    /\ \E ref \in References :
          /\ Jump(s, ref) <= 0 /\ ~(Near(s, ref) /\ InWindow(s))
          /\ state' = [Seen(s) EXCEPT !.armed = IF Away(s, ref) THEN @ \ {s} ELSE @]
    /\ UNCHANGED <<stage, fire>>

Breaks(s, ref) == Jump(s, ref) > 0 /\ MayRefire(s) /\ Confirmed(s, ref) /\ InWindow(s)

(* Two buckets at once, or a session that never armed: locked without a trade.  A mark *)
(* that is there already stays.                                                        *)
LockMark_Overwrite(s) == Lock
LockMark(s) == IF state.fired[s] = NoMark THEN Lock ELSE state.fired[s]
Misfire(s) ==
    /\ Visit(s) /\ Consumes(s)
    /\ \E ref \in References : Breaks(s, ref) /\ (Jump(s, ref) # 1 \/ ~Armed(s))
    /\ state' = [Seen(s) EXCEPT !.fired[s] = LockMark(s), !.armed = @ \ {s}]
    /\ UNCHANGED <<stage, fire>>

NextMark(s) == Lesser(MaxFires, FiresUsed(s) + 1)
Fire(s) ==
    /\ Visit(s) /\ Consumes(s)
    /\ \E ref \in References :
          /\ Breaks(s, ref) /\ Jump(s, ref) = 1 /\ Armed(s)
          /\ fire' = [s |-> s, no |-> NextMark(s), broken |-> ref.bucket,
                      new |-> Bucket(Running(s))]
          /\ state' = [Seen(s) EXCEPT
                 !.fired[s] = NextMark(s), !.armed = @ \ {s}, !.ever = @ \cup {s},
                 !.fireObs[s] = feed[s],
                 !.shots[s] = Append(@, [obs |-> feed[s], new |-> Bucket(Running(s))])]
    /\ stage' = "fire"

-----------------------------------------------------------------------------
(* The fire's window on the paper track, then the row: a first fire opens one, a second  *)
(* one sells the first YES leg when its own filled, and adds its filled legs to the row. *)

FireLegs(f1, f2) == {NewLeg(fire.no, "NO", fire.broken, f1), NewLeg(fire.no, "YES", fire.new, f2)}
WithShares(legs) == {l \in legs : l.shares > 0}
HasYes(legs) == \E l \in legs : l.outcome = "YES"

StandDown ==
    /\ stage = "fire"
    /\ \E f1, f2 \in Fills : f1.cost + f2.cost > 0 /\ ~Affords(f1.cost + f2.cost)
    /\ stage' = "rules" /\ fire' = NoFire
    /\ UNCHANGED <<now, universe, direction, curve, feed, winner, state, disk, todo, dropped, faults>>

FirstFire ==
    /\ stage = "fire" /\ fire.no = 1
    /\ \E f1, f2 \in Fills :
          /\ Affords(f1.cost + f2.cost)
          /\ state' = [state EXCEPT
                !.debit = @ + f1.cost + f2.cost,
                !.rows[Main(fire.s)] = IF ~@.settled THEN @ ELSE Row(FireLegs(f1, f2))]
    /\ stage' = "rules" /\ fire' = NoFire
    /\ UNCHANGED <<now, universe, direction, curve, feed, winner, disk, todo, dropped, faults>>

Merged(row, new, bid) ==
    LET old == FirstYes(fire.s)
        sells == ~row.settled /\ HasYes(new) /\ YesHeld(fire.s) # {}
    IN  IF sells THEN [row EXCEPT !.legs = (@ \ {old}) \cup {Closed(old, bid)} \cup new]
        ELSE [row EXCEPT !.legs = @ \cup new]
Proceeds(new, bid) ==
    IF Open(Main(fire.s)) /\ HasYes(new) /\ YesHeld(fire.s) # {} THEN bid ELSE 0
SecondFire ==
    /\ stage = "fire" /\ fire.no = 2
    /\ \E f1, f2 \in Fills, bid \in Bids :
          LET new == WithShares(FireLegs(f1, f2)) IN
          /\ Affords(f1.cost + f2.cost)
          /\ state' = IF new = {} THEN state
                      ELSE [state EXCEPT
                          !.debit = Released(Proceeds(new, bid)) + f1.cost + f2.cost,
                          !.rows[Main(fire.s)] = Merged(@, new, bid)]
    /\ stage' = "rules" /\ fire' = NoFire
    /\ UNCHANGED <<now, universe, direction, curve, feed, winner, disk, todo, dropped, faults>>

-----------------------------------------------------------------------------
(* _expire_stale_sleeves: an open sleeve of a session with a fired record is validated, an *)
(* old one is sold at the bid; then closed records whose row is settled are deleted.       *)

TimesOut(s, old) == state.sleeves[s] = "open" /\ state.fired[s] = NoMark /\ s \in old
SleeveLegs(s)  == state.rows[Sleeve(s)].legs
SoldRow(s, bid) ==
    Row({Closed(l, IF l.shares > 0 THEN bid ELSE 0) : l \in SleeveLegs(s)})
Sells(s, old)  == TimesOut(s, old) /\ Open(Sleeve(s)) /\ \E l \in SleeveLegs(s) : l.shares > 0
AfterTimeout(s, old) ==
    IF state.sleeves[s] # "open" THEN state.sleeves[s]
    ELSE IF state.fired[s] # NoMark THEN "validated"
    ELSE IF s \notin old THEN "open"
    ELSE IF ~Open(Sleeve(s)) THEN "no_position"
    ELSE IF Sells(s, old) THEN "expired" ELSE "no_leg"
Sweepable(status, settled) == status \notin {"open", "no_fill", "no_position"} /\ settled
RetireSleeves ==
    /\ stage = "rules" /\ todo = {}
    /\ \E old \in SUBSET Sessions, bid \in Bids :
          LET sold == {s \in Sessions : Sells(s, old)}
              settled(s) == ~Open(Sleeve(s)) \/ s \in sold
          IN  state' = [state EXCEPT
                  !.debit = Released(bid * Cardinality(sold)),
                  !.rows = [k \in Keys |-> IF k[2] = "sleeve" /\ k[1] \in sold
                                           THEN [SoldRow(k[1], bid) EXCEPT !.settled = TRUE]
                                           ELSE @[k]],
                  !.sleeves = [s \in Sessions |->
                                  IF Sweepable(AfterTimeout(s, old), settled(s)) THEN "none"
                                  ELSE AfterTimeout(s, old)]]
    /\ stage' = "settle" /\ feed' = Unseen
    /\ UNCHANGED <<now, universe, direction, curve, winner, disk, todo, fire, dropped, faults>>

(* settle_markets: each open leg of a registered city whose market shows a winner; the pull *)
(* for a bucket may fail and leave its legs for a later cycle.                             *)
Won(l, s) == (l.bucket = winner[s]) = (l.outcome = "YES")
Payout(l, s) == IF Won(l, s) THEN l.shares ELSE 0
Outcome(l, s) == IF OpenLeg(l) THEN Closed(l, Payout(l, s)) ELSE l
Ready(k) == Open(k) /\ k[1] \in universe /\ winner[k[1]] # Unknown
Paid(k, legs) == LET due == {l \in legs : OpenLeg(l)}
                 IN  SumFunctionOnSet([l \in due |-> Payout(l, k[1])], due)
Resolved(k, pulled) ==
    IF ~Ready(k) THEN state.rows[k]
    ELSE LET legs == {IF l.bucket \in pulled[k] THEN Outcome(l, k[1]) ELSE l
                         : l \in state.rows[k].legs}
         IN  [legs |-> legs, settled |-> SettledIf(legs)]
LegBuckets(k) == {l.bucket : l \in {m \in state.rows[k].legs : OpenLeg(m)}}
Settle ==
    /\ stage = "settle"
    /\ \E pulled \in [Keys -> SUBSET Buckets] :
          /\ \A k \in Keys : pulled[k] \subseteq IF Ready(k) THEN LegBuckets(k) ELSE {}
          /\ state' = [state EXCEPT
              !.debit = Released(SumFunctionOnSet([k \in Keys |->
                  Paid(k, {l \in state.rows[k].legs : l.bucket \in pulled[k]})], Keys)),
              !.rows = [k \in Keys |-> Resolved(k, pulled)]]
    /\ stage' = "save"
    /\ UNCHANGED <<now, universe, direction, curve, feed, winner, disk, todo, fire, dropped, faults>>

Save ==
    /\ stage = "save"
    /\ disk' = state
    /\ stage' = "idle"
    /\ UNCHANGED <<now, universe, direction, curve, feed, winner, state, todo, fire, dropped, faults>>

(* main: a failed cycle keeps the dict and saves nothing; a dead process loses it. *)
CycleError ==
    /\ stage # "idle" /\ Fault
    /\ stage' = "idle" /\ feed' = Unseen /\ todo' = {} /\ fire' = NoFire
    /\ UNCHANGED <<now, universe, direction, curve, winner, state, disk, dropped>>

Crash ==
    /\ Fault
    /\ state' = disk
    /\ stage' = "idle" /\ feed' = Unseen /\ todo' = {} /\ fire' = NoFire
    /\ UNCHANGED <<now, universe, direction, curve, winner, disk, dropped>>

Cycle == \/ BeginCycle \/ StandDown \/ FirstFire \/ SecondFire \/ RetireSleeves \/ Settle \/ Save
         \/ \E s \in Sessions : \/ EnterSleeve(s) \/ Skip(s) \/ LockOpenRow(s)
                                \/ NoReference(s) \/ Ignore(s) \/ Arm(s) \/ Disarm(s)
                                \/ Misfire(s) \/ Fire(s)

Next == \/ Cycle \/ Hour \/ CycleError \/ Crash
        \/ \E s \in Sessions : Resolve(s) \/ LeaveRegistry(s) \/ RejoinRegistry(s)

Spec == Init /\ [][Next]_vars

-----------------------------------------------------------------------------
(* Properties. *)

LegShape(l) == /\ l.fire \in 0..MaxFires /\ l.outcome \in {"YES", "NO"} /\ l.bucket \in Buckets
               /\ {l.shares, l.cost, l.payout} \subseteq Nat
               /\ l.status \in {"open", "settled"}
StateShape(st) ==
    /\ st.armed \subseteq Sessions /\ st.ever \subseteq Sessions
    /\ \A s \in Sessions :
          /\ st.fired[s] \in {NoMark, Lock} \cup 1..MaxFires
          /\ st.extreme[s] \in Temps \cup {Unknown}
          /\ {st.lastObs[s], st.fireObs[s]} \subseteq Nat
          /\ st.sleeves[s] \in {"none", "open", "no_fill", "no_position", "no_leg", "validated"}
    /\ \A k \in Keys : \A l \in st.rows[k].legs : LegShape(l)
    /\ st.debit \in Int

(* The dict and the file keep the shapes of the code's records. *)
TypeOK ==
    /\ StateShape(state) /\ StateShape(disk)
    /\ stage \in {"idle", "rules", "fire", "settle", "save"}
    /\ todo \subseteq universe /\ (stage = "fire" <=> fire.s # NoSession)

(* reversal_strategy.py:16: a session fires at most twice, whatever order its reports      *)
(* arrive in and wherever cycles fail or the process dies.  (A city that left the registry *)
(* has lost its marks; that day is excepted.)                                              *)
AtMostTwice == \A s \in Sessions \ dropped : Len(state.shots[s]) <= MaxFires

(* The two fires of a session come from two observations, and the second bought the YES of *)
(* a bucket further in the direction of travel than the first: drift inside one bucket, a  *)
(* late report and a repeated one never fire again.                                        *)
SecondBreakIsFurther ==
    \A s \in Sessions \ dropped : \A i, j \in DOMAIN state.shots[s] :
        i < j => LET a == state.shots[s][i]  b == state.shots[s][j] IN
                 /\ a.obs # b.obs
                 /\ IF Up(s) THEN a.new < b.new ELSE a.new > b.new

(* prune_stale_sessions keeps "the one-fire dedupe credential until the position settles": *)
(* in the dict and in the file, an open row has its fired mark, over midnight, errors and  *)
(* restarts.                                                                               *)
MarkOutlivesRow ==
    \A st \in {state, disk} : \A s \in Sessions \ dropped :
        ~st.rows[Main(s)].settled => st.fired[s] \in 1..MaxFires

(* No sleeve is forgotten: an open sleeve row always has a record that keeps a second      *)
(* sleeve from being written over it.                                                      *)
SleeveTracked == \A st \in {state, disk} : \A s \in Sessions :
                     ~st.rows[Sleeve(s)].settled => st.sleeves[s] # "none"

(* The firing discipline of a day (MAX_FIRES_PER_SESSION, refire_target_index): no third    *)
(* fire, and no second one on the first one's break.                                        *)
FiresSound == AtMostTwice /\ SecondBreakIsFurther

(* The ledger's debit is exactly what the rows cost and did not bring back: nothing is     *)
(* charged without a row, and no leg is sold or paid twice, through refire, sleeve time-out *)
(* and settlement, in the dict and in the file.                                            *)
LedgerExplained ==
    \A st \in {state, disk} :
        st.debit = st.gone + SumFunctionOnSet([k \in Keys |-> Cost(st.rows[k].legs)], Keys)

(* Cash is never spent twice: the ledger never owes more than the capital. *)
NeverOverdrawn == state.debit <= Capital

(* The ledger over a row's whole life: explained by the rows, and never overdrawn. *)
LedgerSound == LedgerExplained /\ NeverOverdrawn

(* armed drives the loop's fast poll (runner_impl.py): once a cycle has begun, no session   *)
(* whose fire window is over for the day is armed, not even one armed before midnight or   *)
(* reloaded from an older file after a crash.                                              *)
WindowOver(s) == ~Today \/ (~Up(s) /\ now > 0)
FastPollEnds == stage # "idle" => \A s \in state.armed : ~WindowOver(s)

(* The session records, in their shapes, outlive the positions they guard and not the day   *)
(* they belong to (prune_stale_sessions and the sweep of the sleeves delete neither too      *)
(* much nor too little).                                                                    *)
RecordsSound == TypeOK /\ MarkOutlivesRow /\ SleeveTracked /\ FastPollEnds

(* The saved marks of a session only move forward (SessionLife), until its day is over or  *)
(* its city left.                                                                          *)
Phase(s) == IF ~Today \/ s \in dropped    THEN "over"
            ELSE IF disk.fired[s] = NoMark THEN "waiting"
            ELSE IF disk.fired[s] = Lock   THEN "locked"
            ELSE IF disk.fired[s] = 1      THEN "once" ELSE "twice"
Life == INSTANCE SessionLife WITH phase <- [s \in Sessions |-> Phase(s)]
LifeGoesForward == Life!Spec
=============================================================================
