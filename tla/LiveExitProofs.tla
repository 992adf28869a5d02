--------------------------- MODULE LiveExitProofs ---------------------------
(* The safety of the exit channel for every set of positions, legs and lots: *)
(* one inductive invariant, and the properties of LiveExit that follow.      *)
EXTENDS LiveExit, TLAPS

(* Where the cycle stands decides what is under way: only an exit stage has raised a        *)
(* channel, and without a channel there is no work, no attempt, no refire to record.        *)
Shape ==
    /\ stage \in {"idle", "rules", "settle", "save"} => channel = None
    /\ channel = None =>
           work = {} /\ job = NoJob /\ request = WholeLeg /\ merging = Nothing
    /\ stage = "retry" <=> channel = "retry"
    /\ stage \in {"take_profit", "early_stop"} => Lane[cur] = "consensus_lock"

(* The legs a stage has still to sell are recorded, the sweep's carry a channel, and        *)
(* take-profit's override is not more than they hold.                                       *)
Targets ==
    /\ work \subseteq state.recorded
    /\ stage = "retry" => \A l \in work : state.pending[l] # None
    /\ request.shares > 0 => \A l \in work : request.shares <= state.shares[l]

(* What a refire of the reversal lane bought is in the wallet and not yet in the books. *)
Bought ==
    merging # Nothing =>
        /\ merging.leg \in Legs \ state.recorded
        /\ merging.shares <= wallet[merging.leg]
        /\ Owner[merging.leg] \in state.refired /\ Lane[Owner[merging.leg]] = "reversal"

(* The attempt in flight sells an open leg that is not waiting any more, within what the    *)
(* leg holds, was counted before its order went out, and posts only over a cleared book.    *)
Attempt ==
    job # NoJob =>
        /\ job.phase # "idle" /\ job.channel \in Channels
        /\ job.leg \in state.recorded \ (state.settled \cup work)
        /\ job.filled <= job.size /\ job.size <= state.shares[job.leg]
        /\ job.size >= MinOrder /\ job.limit >= Floor
        /\ job.phase \in {"cancel", "post"} =>
               job.filled = 0 /\ posted[job.leg] < attempts[job.leg]
        /\ job.phase = "post" => OwnOrders(job.leg) = {}

Counted == \A l \in Legs : posted[l] <= attempts[l] /\ attempts[l] <= MaxAttempts

(* A sound set of books: every share accounted for, nothing known of a leg not bought, a    *)
(* refire's leg only after the refire, flat positions where they are called liquidated.     *)
Sound(st) ==
    /\ Accounted(st)
    /\ \A l \in Legs \ st.recorded :
           st.shares[l] = 0 /\ st.credited[l] = 0 /\ st.bought[l] = 0 /\ l \notin st.settled
    /\ \A l \in st.recorded \cap RefireLegs : Owner[l] \in st.refired
    /\ FlatWhenLiquidated(st)

IInv ==
    /\ TypeOK /\ Shape /\ Targets /\ Bought /\ Attempt /\ Counted
    /\ Sound(state) /\ Sound(disk)
    /\ Backed

-----------------------------------------------------------------------------
(* What the operators that rewrite the books do to them.                   *)

LEMMA SaleTyped ==
    ASSUME NEW st \in LedgerType, NEW sh \in [Legs -> Nat], NEW cr \in [Legs -> Nat],
           NEW se \in SUBSET Legs, NEW pe \in [Legs -> Channels \cup {None}]
    PROVE  [st EXCEPT !.shares = sh, !.credited = cr, !.settled = se, !.pending = pe] \in LedgerType
BY DEF LedgerType

LEMMA FlagsTyped ==
    ASSUME NEW st \in LedgerType, NEW li \in SUBSET Sessions, NEW tp \in SUBSET Sessions,
           NEW ps \in SUBSET Sessions
    PROVE  [st EXCEPT !.liquidated = li, !.tpDone = tp, !.posSettled = ps] \in LedgerType
BY DEF LedgerType

LEMMA ResolutionTyped ==
    ASSUME NEW st \in LedgerType, NEW se \in SUBSET Legs, NEW re \in SUBSET Legs,
           NEW cr \in [Legs -> Nat]
    PROVE  [st EXCEPT !.settled = se, !.resolved = re, !.credited = cr] \in LedgerType
BY DEF LedgerType

LEMMA MergeTyped ==
    ASSUME NEW st \in LedgerType, NEW rc \in SUBSET Legs, NEW sh \in [Legs -> Nat],
           NEW bo \in [Legs -> Nat]
    PROVE  [st EXCEPT !.recorded = rc, !.shares = sh, !.bought = bo] \in LedgerType
BY DEF LedgerType

LEMMA FieldTypes ==
    ASSUME NEW st \in LedgerType
    PROVE  /\ st.recorded \in SUBSET Legs /\ st.shares \in [Legs -> Nat]
           /\ st.settled \in SUBSET Legs /\ st.resolved \in SUBSET Legs
           /\ st.pending \in [Legs -> Channels \cup {None}]
           /\ st.liquidated \in SUBSET Sessions /\ st.posSettled \in SUBSET Sessions
           /\ st.tpDone \in SUBSET Sessions /\ st.refired \in SUBSET Sessions
           /\ st.bought \in [Legs -> Nat] /\ st.credited \in [Legs -> Nat]
BY DEF LedgerType

(* b is st after a sale of r shares of l by channel ch. *)
SoldFrom(b, st, l, ch, r) ==
    /\ b \in LedgerType
    /\ b.recorded = st.recorded /\ b.resolved = st.resolved
    /\ b.refired = st.refired /\ b.bought = st.bought
    /\ b.shares = [st.shares EXCEPT ![l] = @ - r]
    /\ b.credited = [st.credited EXCEPT ![l] = @ + r]
    /\ b.settled = IF r > 0 /\ st.shares[l] = r THEN st.settled \cup {l} ELSE st.settled
    /\ b.pending[l] = PendingAfter(st, l, ch, r)
    /\ \A m \in Legs : m # l => b.pending[m] = st.pending[m]
    /\ \A s \in b.liquidated : s \in st.liquidated \/ Flat(b, s)

LEMMA BookedFacts ==
    ASSUME NEW st \in LedgerType, NEW l \in Legs, NEW ch \in Channels,
           NEW r \in Nat, r <= st.shares[l]
    PROVE  SoldFrom(Booked(st, l, ch, r), st, l, ch, r)
<1> DEFINE next == [st EXCEPT
                       !.shares[l]   = Remaining(st, l, r),
                       !.credited[l] = @ + r,
                       !.settled     = IF SoldOut(st, l, r) THEN @ \cup {l} ELSE @,
                       !.pending[l]  = PendingAfter(st, l, ch, r)]
           b == Booked(st, l, ch, r)
           sh == [st.shares EXCEPT ![l] = Remaining(st, l, r)]
           cr == [st.credited EXCEPT ![l] = @ + r]
           se == IF SoldOut(st, l, r) THEN st.settled \cup {l} ELSE st.settled
           pe == [st.pending EXCEPT ![l] = PendingAfter(st, l, ch, r)]
           li == IF Flat(next, Owner[l]) THEN next.liquidated \cup {Owner[l]} ELSE next.liquidated
           tp == IF stage = "take_profit" /\ r > 0 THEN next.tpDone \cup {Owner[l]} ELSE next.tpDone
           ps == IF /\ stage = "sleeve" /\ SoldOut(st, l, r)
                    /\ AllSettled(next, LegsOf(next, Owner[l]))
                 THEN next.posSettled \cup {Owner[l]} ELSE next.posSettled
<1>1. /\ st.shares[l] \in Nat /\ st.credited[l] \in Nat
      /\ st.shares \in [Legs -> Nat] /\ st.credited \in [Legs -> Nat]
      /\ st.pending \in [Legs -> Channels \cup {None}] /\ st.settled \in SUBSET Legs
  BY FieldTypes
<1>2. Remaining(st, l, r) = st.shares[l] - r /\ Remaining(st, l, r) \in Nat
  BY <1>1 DEF Remaining
<1>3. PendingAfter(st, l, ch, r) \in Channels \cup {None}
  BY DEF PendingAfter
<1>4. SoldOut(st, l, r) <=> r > 0 /\ st.shares[l] = r
  BY <1>1, <1>2 DEF SoldOut
<1>5. next \in LedgerType
  <2>1. sh \in [Legs -> Nat] /\ cr \in [Legs -> Nat]
    BY <1>1, <1>2
  <2>2. se \in SUBSET Legs /\ pe \in [Legs -> Channels \cup {None}]
    BY <1>1, <1>3
  <2>3. next = [st EXCEPT !.shares = sh, !.credited = cr, !.settled = se, !.pending = pe]
    OBVIOUS
  <2> HIDE DEF sh, cr, se, pe, next
  <2> QED
    BY <2>1, <2>2, <2>3, SaleTyped
<1>6. Owner[l] \in Sessions
  BY ConstantsAssumption
<1>7. b = [next EXCEPT !.liquidated = li, !.tpDone = tp, !.posSettled = ps]
  BY DEF Booked
<1>8. /\ next.recorded = st.recorded /\ next.resolved = st.resolved
      /\ next.refired = st.refired /\ next.bought = st.bought
      /\ next.shares = sh /\ next.credited = cr /\ next.settled = se /\ next.pending = pe
      /\ next.liquidated = st.liquidated
  BY DEF LedgerType
<1> HIDE DEF next
<1>9. b \in LedgerType
  <2>1. li \in SUBSET Sessions /\ tp \in SUBSET Sessions /\ ps \in SUBSET Sessions
    BY <1>5, <1>6, FieldTypes
  <2> HIDE DEF li, tp, ps, b
  <2> QED
    BY <1>5, <1>7, <2>1, FlagsTyped
<1>10. /\ b.recorded = next.recorded /\ b.resolved = next.resolved /\ b.refired = next.refired
       /\ b.bought = next.bought /\ b.shares = next.shares /\ b.credited = next.credited
       /\ b.settled = next.settled /\ b.pending = next.pending /\ b.liquidated = li
  <2> HIDE DEF li, tp, ps, b
  <2> QED
    BY <1>5, <1>7 DEF LedgerType
<1>11. \A s : Flat(b, s) <=> Flat(next, s)
  BY <1>10 DEF Flat, AllSettled, LegsOf
<1> HIDE DEF b
<1>12. \A s \in b.liquidated : s \in st.liquidated \/ Flat(b, s)
  BY <1>8, <1>10, <1>11
<1>13. b.shares = [st.shares EXCEPT ![l] = @ - r]
  BY <1>2, <1>8, <1>10
<1>14. /\ b.pending[l] = PendingAfter(st, l, ch, r)
       /\ \A m \in Legs : m # l => b.pending[m] = st.pending[m]
  BY <1>1, <1>8, <1>10
<1>15. b.settled = IF r > 0 /\ st.shares[l] = r THEN st.settled \cup {l} ELSE st.settled
  BY <1>4, <1>8, <1>10
<1> QED
  BY <1>8, <1>9, <1>10, <1>12, <1>13, <1>14, <1>15 DEF b, SoldFrom

(* e is st after the legs of done resolved, those of won in our favour. *)
ResolvedFrom(e, st, done, won) ==
    /\ e \in LedgerType
    /\ e.recorded = st.recorded /\ e.shares = st.shares /\ e.refired = st.refired
    /\ e.bought = st.bought /\ e.pending = st.pending /\ e.liquidated = st.liquidated
    /\ e.settled = st.settled \cup done /\ e.resolved = st.resolved \cup done
    /\ e.credited = [l \in Legs |-> IF l \in won THEN st.credited[l] + st.shares[l]
                                               ELSE st.credited[l]]

LEMMA ResolvedFacts ==
    ASSUME NEW st \in LedgerType, NEW done \in SUBSET Legs, NEW won \in SUBSET done
    PROVE  ResolvedFrom(Resolved(st, done, won), st, done, won)
<1> DEFINE next == [st EXCEPT
                       !.settled  = @ \cup done,
                       !.resolved = @ \cup done,
                       !.credited = [l \in Legs |-> IF l \in won THEN @[l] + st.shares[l] ELSE @[l]]]
           cr == [l \in Legs |-> IF l \in won THEN st.credited[l] + st.shares[l] ELSE st.credited[l]]
           ps == next.posSettled \cup {s \in Sessions : AllSettled(next, LegsOf(next, s))}
<1>1. next \in LedgerType
  <2>1. cr \in [Legs -> Nat] /\ st.settled \cup done \in SUBSET Legs
        /\ st.resolved \cup done \in SUBSET Legs
    BY FieldTypes
  <2>2. next = [st EXCEPT !.settled = st.settled \cup done, !.resolved = st.resolved \cup done,
                          !.credited = cr]
    OBVIOUS
  <2> HIDE DEF cr, next
  <2> QED
    BY <2>1, <2>2, ResolutionTyped
<1>2. Resolved(st, done, won)
        = [next EXCEPT !.liquidated = next.liquidated, !.tpDone = next.tpDone, !.posSettled = ps]
  BY DEF Resolved
<1>3. /\ next.recorded = st.recorded /\ next.shares = st.shares /\ next.refired = st.refired
      /\ next.bought = st.bought /\ next.pending = st.pending /\ next.liquidated = st.liquidated
      /\ next.settled = st.settled \cup done /\ next.resolved = st.resolved \cup done
      /\ next.credited = [l \in Legs |-> IF l \in won THEN st.credited[l] + st.shares[l]
                                                       ELSE st.credited[l]]
  BY DEF LedgerType
<1> HIDE DEF next
<1>4. ps \in SUBSET Sessions /\ next.liquidated \in SUBSET Sessions /\ next.tpDone \in SUBSET Sessions
  BY <1>1, FieldTypes
<1> HIDE DEF ps
<1>5. Resolved(st, done, won) \in LedgerType
  <2> DEFINE li == next.liquidated
             tp == next.tpDone
             e  == Resolved(st, done, won)
  <2>1. li \in SUBSET Sessions /\ tp \in SUBSET Sessions
    BY <1>4
  <2>2. e = [next EXCEPT !.liquidated = li, !.tpDone = tp, !.posSettled = ps]
    BY <1>2
  <2> HIDE DEF li, tp, e
  <2>3. e \in LedgerType
    BY <1>1, <1>4, <2>1, <2>2, FlagsTyped
  <2> QED
    BY <2>3 DEF e
<1>6. LET e == Resolved(st, done, won)
      IN  /\ e.recorded = st.recorded /\ e.shares = st.shares /\ e.refired = st.refired
          /\ e.bought = st.bought /\ e.pending = st.pending /\ e.liquidated = st.liquidated
          /\ e.settled = st.settled \cup done /\ e.resolved = st.resolved \cup done
          /\ e.credited = cr
  BY <1>1, <1>2, <1>3 DEF LedgerType
<1> QED
  BY <1>5, <1>6 DEF ResolvedFrom

LEMMA ConcludedFacts ==
    ASSUME TypeOK, Bought
    PROVE  /\ Concluded(state) \in LedgerType
           /\ Concluded(state).resolved = state.resolved
           /\ Concluded(state).refired = state.refired
           /\ Concluded(state).settled = state.settled
           /\ Concluded(state).credited = state.credited
           /\ Concluded(state).pending = state.pending
           /\ \/ /\ Concluded(state).recorded = state.recorded
                 /\ Concluded(state).shares = state.shares
                 /\ Concluded(state).bought = state.bought
              \/ /\ merging # Nothing
                 /\ Concluded(state).recorded = state.recorded \cup {merging.leg}
                 /\ Concluded(state).shares = [state.shares EXCEPT ![merging.leg] = merging.shares]
                 /\ Concluded(state).bought = [state.bought EXCEPT ![merging.leg] = merging.shares]
           /\ \A s \in Concluded(state).liquidated :
                  s \in state.liquidated \/ Flat(Concluded(state), s)
<1> DEFINE c  == Concluded(state)
           li == IF Flat(state, cur) THEN state.liquidated \cup {cur} ELSE state.liquidated
           rc == state.recorded \cup {merging.leg}
           sh == [state.shares EXCEPT ![merging.leg] = merging.shares]
           bo == [state.bought EXCEPT ![merging.leg] = merging.shares]
<1>1. state \in LedgerType /\ cur \in Sessions /\ merging.shares \in Nat
  BY DEF TypeOK
<1>2. merging # Nothing => merging.leg \in Legs
  BY DEF Bought
<1>3. CASE channel \in {"early_stop", "breach_rc", "abortion_rc"}
  <2> DEFINE tp == state.tpDone
             ps == state.posSettled
  <2>1. c = [state EXCEPT !.liquidated = li]
    BY <1>3 DEF Concluded
  <2>2. li \in SUBSET Sessions /\ tp \in SUBSET Sessions /\ ps \in SUBSET Sessions
    BY <1>1, FieldTypes
  <2>3. c = [state EXCEPT !.liquidated = li, !.tpDone = tp, !.posSettled = ps]
    BY <1>1, <2>1 DEF LedgerType
  <2> HIDE DEF li, tp, ps, c
  <2>4. c \in LedgerType
    BY <1>1, <2>2, <2>3, FlagsTyped
  <2>5. /\ c.resolved = state.resolved /\ c.refired = state.refired /\ c.settled = state.settled
        /\ c.credited = state.credited /\ c.recorded = state.recorded /\ c.shares = state.shares
        /\ c.bought = state.bought /\ c.liquidated = li /\ c.pending = state.pending
    BY <1>1, <2>1 DEF LedgerType
  <2>6. Flat(c, cur) <=> Flat(state, cur)
    BY <2>5 DEF Flat, AllSettled, LegsOf
  <2>7. \A s \in c.liquidated : s \in state.liquidated \/ Flat(c, s)
    BY <2>5, <2>6 DEF li
  <2> QED
    BY <2>4, <2>5, <2>7 DEF c
<1>4. CASE channel = "refire_liq" /\ merging # Nothing
  <2>1. c = [state EXCEPT !.recorded = rc, !.shares = sh, !.bought = bo]
    BY <1>4 DEF Concluded, Merged
  <2>2. rc \in SUBSET Legs /\ sh \in [Legs -> Nat] /\ bo \in [Legs -> Nat]
    BY <1>1, <1>2, <1>4, FieldTypes
  <2> HIDE DEF rc, sh, bo, c
  <2>3. c \in LedgerType
    BY <1>1, <2>1, <2>2, MergeTyped
  <2>4. /\ c.resolved = state.resolved /\ c.refired = state.refired /\ c.settled = state.settled
        /\ c.credited = state.credited /\ c.recorded = rc /\ c.shares = sh /\ c.bought = bo
        /\ c.liquidated = state.liquidated /\ c.pending = state.pending
    BY <1>1, <2>1 DEF LedgerType
  <2> QED
    BY <1>4, <2>3, <2>4 DEF c, rc, sh, bo
<1>5. CASE ~ (channel \in {"early_stop", "breach_rc", "abortion_rc"})
           /\ ~ (channel = "refire_liq" /\ merging # Nothing)
  <2>1. c = state
    BY <1>5 DEF Concluded, Merged
  <2> QED
    BY <1>1, <2>1
<1> QED
  BY <1>3, <1>4, <1>5

-----------------------------------------------------------------------------
(* Every action keeps the invariant.                                       *)

LEMMA OpenYesRecorded ==
    ASSUME TypeOK
    PROVE  OpenYes(cur) \subseteq state.recorded /\ state.recorded \subseteq Legs
BY FieldTypes DEF TypeOK, OpenYes, LegsOf

USE ConstantsAssumption
    DEF IInv, Shape, Targets, Bought, Attempt, Counted, vars, engine, venue, ghosts,
        Nothing, WholeLeg, NoJob, Quiet, Raise, Abandon, Stages, Phases, Channels, StopChannels, None

LEMMA BeginCycleKeeps == IInv /\ BeginCycle => IInv'
<1> SUFFICES ASSUME IInv, BeginCycle PROVE IInv'
  OBVIOUS
<1>1. TypeOK'
  BY DEF BeginCycle, TypeOK, Rules
<1>2. Shape' /\ Targets' /\ Bought' /\ Attempt' /\ Counted'
  BY DEF BeginCycle
<1>3. Sound(state)' /\ Sound(disk)' /\ Backed'
  BY DEF BeginCycle, Sound, Accounted, FlatWhenLiquidated, LegsOf, Backed, InFlight
<1> QED
  BY <1>1, <1>2, <1>3

LEMMA EnterRuleKeeps == \A s \in Sessions : IInv /\ EnterRule(s) => IInv'
<1> SUFFICES ASSUME NEW s \in Sessions, IInv, EnterRule(s) PROVE IInv'
  OBVIOUS
<1>1. TypeOK'
  BY DEF EnterRule, TypeOK
<1>2. Shape' /\ Targets' /\ Bought' /\ Attempt' /\ Counted'
  BY DEF EnterRule, OwnOrders, LegsOf
<1>3. Sound(state)' /\ Sound(disk)' /\ Backed'
  BY DEF EnterRule, Sound, Accounted, FlatWhenLiquidated, LegsOf, Backed, InFlight
<1> QED
  BY <1>1, <1>2, <1>3

LEMMA PassKeeps == IInv /\ Pass => IInv'
<1> SUFFICES ASSUME IInv, Pass PROVE IInv'
  OBVIOUS
<1>1. TypeOK'
  BY DEF Pass, TypeOK
<1>2. Shape' /\ Targets' /\ Bought' /\ Attempt' /\ Counted'
  BY DEF Pass, OwnOrders, LegsOf
<1>3. Sound(state)' /\ Sound(disk)' /\ Backed'
  BY DEF Pass, Sound, Accounted, FlatWhenLiquidated, LegsOf, Backed, InFlight
<1> QED
  BY <1>1, <1>2, <1>3

(* The override is taken from the one YES leg there is to sell. *)
LEMMA TakeProfitKeeps == IInv /\ TakeProfit => IInv'
<1> SUFFICES ASSUME IInv, TakeProfit PROVE IInv'
  OBVIOUS
<1>1. PICK l \in OpenYes(cur), b \in TpBid..MaxBid :
          Raise("take_profit", OpenYes(cur), [shares |-> TakeProfitSize(l), bid |-> b])
  BY DEF TakeProfit
<1>2. OpenYes(cur) \subseteq state.recorded /\ state.recorded \subseteq Legs
  BY OpenYesRecorded
<1>3. state.shares[l] \in Nat
  BY <1>2, FieldTypes DEF TypeOK
<1>4. TakeProfitSize(l) \in Nat /\ TakeProfitSize(l) <= state.shares[l]
  BY <1>3 DEF TakeProfitSize
<1>5. \A m \in OpenYes(cur) : m = l
  BY OneYesLegAssumption DEF TakeProfit, OpenYes, LegsOf
<1>6. work' = OpenYes(cur) /\ request' = [shares |-> TakeProfitSize(l), bid |-> b] /\ b \in Nat
  BY <1>1
<1>7. TypeOK'
  BY <1>1, <1>2, <1>4, <1>6 DEF TakeProfit, TypeOK
<1>8. Shape' /\ Bought' /\ Attempt' /\ Counted'
  BY <1>1 DEF TakeProfit
<1>9. Targets'
  BY <1>2, <1>4, <1>5, <1>6 DEF TakeProfit
<1>10. Sound(state)' /\ Sound(disk)' /\ Backed'
  BY DEF TakeProfit, Sound, Accounted, FlatWhenLiquidated, LegsOf, Backed, InFlight
<1> QED
  BY <1>7, <1>8, <1>9, <1>10

LEMMA EarlyStopKeeps == IInv /\ EarlyStop => IInv'
<1> SUFFICES ASSUME IInv, EarlyStop PROVE IInv'
  OBVIOUS
<1>1. OpenYes(cur) \subseteq state.recorded /\ state.recorded \subseteq Legs
  BY OpenYesRecorded
<1>2. TypeOK'
  BY <1>1 DEF EarlyStop, TypeOK
<1>3. Shape' /\ Targets' /\ Bought' /\ Attempt' /\ Counted'
  BY <1>1 DEF EarlyStop
<1>4. Sound(state)' /\ Sound(disk)' /\ Backed'
  BY DEF EarlyStop, Sound, Accounted, FlatWhenLiquidated, LegsOf, Backed, InFlight
<1> QED
  BY <1>2, <1>3, <1>4

LEMMA MetarExitKeeps == \A ch \in {"breach_rc", "abortion_rc"} : IInv /\ MetarExit(ch) => IInv'
<1> SUFFICES ASSUME NEW ch \in {"breach_rc", "abortion_rc"}, IInv, MetarExit(ch) PROVE IInv'
  OBVIOUS
<1>1. OpenYes(cur) \subseteq state.recorded /\ state.recorded \subseteq Legs
  BY OpenYesRecorded
<1>2. TypeOK'
  BY <1>1 DEF MetarExit, TypeOK
<1>3. Shape' /\ Targets' /\ Bought' /\ Attempt' /\ Counted'
  BY <1>1 DEF MetarExit
<1>4. Sound(state)' /\ Sound(disk)' /\ Backed'
  BY DEF MetarExit, Sound, Accounted, FlatWhenLiquidated, LegsOf, Backed, InFlight
<1> QED
  BY <1>2, <1>3, <1>4

(* What the refire bought goes to the wallet now and to the books when it is concluded. *)
LEMMA RefireKeeps == \A l \in Legs, n \in Lots : IInv /\ Refire(l, n) => IInv'
<1> SUFFICES ASSUME NEW l \in Legs, NEW n \in Lots, IInv, Refire(l, n) PROVE IInv'
  OBVIOUS
<1> DEFINE re == state.refired \cup {cur}
<1>1. state \in LedgerType /\ cur \in Sessions /\ wallet \in [Legs -> Nat] /\ n \in Nat
  BY DEF TypeOK
<1>2. state' = [state EXCEPT !.refired = re]
  BY DEF Refire
<1>3. /\ state'.recorded = state.recorded /\ state'.shares = state.shares
      /\ state'.settled = state.settled /\ state'.resolved = state.resolved
      /\ state'.pending = state.pending /\ state'.liquidated = state.liquidated
      /\ state'.refired = re /\ state'.bought = state.bought /\ state'.credited = state.credited
  BY <1>1, <1>2 DEF LedgerType
<1>4. re \in SUBSET Sessions
  BY <1>1, FieldTypes
<1> HIDE DEF re
<1>5. state' \in LedgerType
  BY <1>1, <1>2, <1>4 DEF LedgerType
<1>6. work' \subseteq state.recorded /\ channel' = "refire_liq" /\ request' = WholeLeg
  BY DEF Refire, OpenYes, LegsOf
<1>7. /\ merging' = [leg |-> l, shares |-> n] /\ wallet' = [wallet EXCEPT ![l] = @ + n]
      /\ UNCHANGED <<disk, stage, todo, cur, job, attempts, resting, posted, lost, faults>>
  BY DEF Refire
<1>8. TypeOK'
  <2>1. work' \subseteq Legs
    BY <1>1, <1>6, FieldTypes
  <2>2. wallet' \in [Legs -> Nat] /\ merging' \in [leg : Legs \cup {NoLeg}, shares : Nat]
    BY <1>1, <1>7
  <2> QED
    BY <1>5, <1>6, <1>7, <2>1, <2>2 DEF TypeOK
<1>9. stage = "metar" /\ channel = None /\ cur \notin state.refired /\ Owner[l] = cur
      /\ l \in RefireLegs /\ Lane[cur] = "reversal"
  BY DEF Refire
<1>10. Shape' /\ Targets' /\ Attempt' /\ Counted'
  BY <1>3, <1>6, <1>7, <1>9
<1>11. Bought'
  <2>1. l \notin state.recorded
    BY <1>9 DEF Sound
  <2>2. Owner[l] \in re
    BY <1>9 DEF re
  <2>3. merging'.leg = l /\ merging'.shares = n /\ wallet'[l] = wallet[l] + n /\ wallet[l] \in Nat
    BY <1>1, <1>7
  <2>4. Lane[Owner[l]] = "reversal"
    BY <1>9
  <2> QED
    BY <1>1, <1>3, <2>1, <2>2, <2>3, <2>4
<1>12. Sound(state)' /\ Sound(disk)'
  <2>1. \A s \in state.refired : s \in re
    BY DEF re
  <2> QED
    BY <1>3, <1>7, <2>1 DEF Sound, Accounted, FlatWhenLiquidated, LegsOf
<1>13. Backed'
  <2>1. state.shares \in [Legs -> Nat] /\ lost \in [Legs -> Nat]
    BY <1>1, FieldTypes DEF TypeOK
  <2>2. \A m \in Legs : wallet'[m] >= wallet[m] /\ wallet'[m] \in Nat
    BY <1>1, <1>7
  <2>3. job' = NoJob /\ job = NoJob
    BY <1>7, <1>9
  <2>4. \A m \in Legs : InFlight(m)' = 0 /\ InFlight(m) = 0
    BY <2>3 DEF InFlight
  <2>5. ASSUME NEW m \in Legs
        PROVE  state.shares[m] <= wallet'[m] + 0 + lost[m]
    <3>1. state.shares[m] <= wallet[m] + 0 + lost[m]
      BY <2>4 DEF Backed
    <3>2. state.shares[m] \in Nat /\ wallet[m] \in Nat /\ lost[m] \in Nat
      BY <1>1, <2>1
    <3> QED
      BY <2>2, <3>1, <3>2
  <2> QED
    BY <1>3, <1>7, <2>4, <2>5 DEF Backed
<1> QED
  BY <1>8, <1>10, <1>11, <1>12, <1>13

LEMMA RetrySweepKeeps == IInv /\ RetrySweep => IInv'
<1> SUFFICES ASSUME IInv, RetrySweep PROVE IInv'
  OBVIOUS
<1>1. state.recorded \subseteq Legs
  BY FieldTypes DEF TypeOK
<1>2. work' = SweptLegs /\ SweptLegs \subseteq state.recorded
      /\ \A l \in SweptLegs : state.pending[l] # None
  BY DEF RetrySweep, SweptLegs
<1>3. TypeOK'
  BY <1>1, <1>2 DEF RetrySweep, TypeOK
<1>4. Shape' /\ Targets' /\ Bought' /\ Attempt' /\ Counted'
  BY <1>2 DEF RetrySweep
<1>5. Sound(state)' /\ Sound(disk)' /\ Backed'
  BY DEF RetrySweep, Sound, Accounted, FlatWhenLiquidated, LegsOf, Backed, InFlight
<1> QED
  BY <1>3, <1>4, <1>5

LEMMA DropPendingKeeps == \A l \in Legs : IInv /\ DropPending(l) => IInv'
<1> SUFFICES ASSUME NEW l \in Legs, IInv, DropPending(l) PROVE IInv'
  OBVIOUS
<1> DEFINE pe == [state.pending EXCEPT ![l] = None]
<1>1. state \in LedgerType /\ pe \in [Legs -> Channels \cup {None}]
  BY FieldTypes DEF TypeOK
<1>2. state' = [state EXCEPT !.pending = pe]
  BY DEF DropPending
<1>3. \A m \in Legs : m # l => pe[m] = state.pending[m]
  BY <1>1, FieldTypes
<1> HIDE DEF pe
<1>4. state' \in LedgerType
  BY <1>1, <1>2 DEF LedgerType
<1>5. /\ state'.recorded = state.recorded /\ state'.shares = state.shares
      /\ state'.settled = state.settled /\ state'.resolved = state.resolved
      /\ state'.pending = pe /\ state'.liquidated = state.liquidated
      /\ state'.refired = state.refired
      /\ state'.bought = state.bought /\ state'.credited = state.credited
  BY <1>1, <1>2 DEF LedgerType
<1>6. /\ work' = work \ {l}
      /\ UNCHANGED <<disk, stage, todo, cur, channel, request, merging, job, attempts, wallet,
                     resting, posted, lost, faults>>
  BY DEF DropPending
<1>7. TypeOK'
  BY <1>4, <1>6 DEF TypeOK
<1>8. Shape' /\ Bought' /\ Attempt' /\ Counted'
  BY <1>5, <1>6 DEF DropPending
<1>9. Targets'
  <2>1. work \subseteq Legs
    BY DEF TypeOK
  <2> QED
    BY <1>3, <1>5, <1>6, <2>1
<1>10. Sound(state)' /\ Sound(disk)'
  BY <1>5, <1>6 DEF Sound, Accounted, FlatWhenLiquidated, LegsOf
<1>11. Backed'
  BY <1>5, <1>6 DEF Backed, InFlight
<1> QED
  BY <1>7, <1>8, <1>9, <1>10, <1>11

LEMMA SleeveTimeoutKeeps == IInv /\ SleeveTimeout => IInv'
<1> SUFFICES ASSUME IInv, SleeveTimeout PROVE IInv'
  OBVIOUS
<1>1. state.recorded \subseteq Legs
  BY FieldTypes DEF TypeOK
<1>2. work' \subseteq state.recorded
  BY DEF SleeveTimeout
<1>3. TypeOK'
  BY <1>1, <1>2 DEF SleeveTimeout, TypeOK
<1>4. Shape' /\ Targets' /\ Bought' /\ Attempt' /\ Counted'
  BY <1>2 DEF SleeveTimeout
<1>5. Sound(state)' /\ Sound(disk)' /\ Backed'
  BY DEF SleeveTimeout, Sound, Accounted, FlatWhenLiquidated, LegsOf, Backed, InFlight
<1> QED
  BY <1>3, <1>4, <1>5

LEMMA DeferKeeps == \A l \in Legs : IInv /\ Defer(l) => IInv'
<1> SUFFICES ASSUME NEW l \in Legs, IInv, Defer(l) PROVE IInv'
  OBVIOUS
<1>1. TypeOK'
  BY DEF Defer, TypeOK
<1>2. Shape' /\ Targets' /\ Bought' /\ Attempt' /\ Counted'
  BY DEF Defer
<1>3. Sound(state)' /\ Sound(disk)' /\ Backed'
  BY DEF Defer, Sound, Accounted, FlatWhenLiquidated, LegsOf, Backed, InFlight
<1> QED
  BY <1>1, <1>2, <1>3

LEMMA LimitAboveFloor ==
    ASSUME NEW ch, NEW b \in Nat, b >= Floor
    PROVE  LimitFor(ch, b) \in Nat /\ LimitFor(ch, b) >= Floor
BY DEF LimitFor

(* The size is what the leg holds or take-profit's override, the channel a real one. *)
LEMMA DecideKeeps == \A l \in Legs : IInv /\ Decide(l) => IInv'
<1> SUFFICES ASSUME NEW l \in Legs, IInv, Decide(l) PROVE IInv'
  OBVIOUS
<1> DEFINE ch == ChannelFor(l)
           n  == SizeFor(l)
<1>1. PICK b \in BidSeen :
          /\ Sellable(l, b)
          /\ job' = [phase |-> "cancel", leg |-> l, channel |-> ch, size |-> n,
                     limit |-> LimitFor(ch, b), filled |-> 0]
  BY DEF Decide
<1>2. /\ job = NoJob /\ l \in work /\ work' = work \ {l}
      /\ attempts' = [attempts EXCEPT ![l] = @ + 1]
      /\ UNCHANGED <<state, disk, stage, todo, cur, channel, request, merging, wallet, resting,
                     posted, lost, faults>>
  BY DEF Decide
<1>3. b \in Nat /\ b >= Floor /\ n >= MinOrder /\ l \notin state.settled /\ attempts[l] < MaxAttempts
  BY <1>1 DEF BidSeen, Sellable, TypeOK
<1>4. state.shares[l] \in Nat /\ state.pending[l] \in Channels \cup {None} /\ l \in state.recorded
  BY <1>2, FieldTypes DEF TypeOK
<1>5. n \in Nat /\ n <= state.shares[l]
  BY <1>2, <1>4 DEF SizeFor, TypeOK
<1>6. ch \in Channels
  <2>1. CASE stage = "retry"
    BY <1>2, <1>4, <2>1 DEF ChannelFor
  <2>2. CASE stage # "retry"
    BY <1>2, <2>2 DEF ChannelFor, TypeOK
  <2> QED
    BY <2>1, <2>2
<1> DEFINE lim == LimitFor(ch, b)
<1>7. lim \in Nat /\ lim >= Floor
  BY <1>3, LimitAboveFloor
<1> HIDE DEF ch, n, lim
<1>8. job' = [phase |-> "cancel", leg |-> l, channel |-> ch, size |-> n, limit |-> lim, filled |-> 0]
  BY <1>1 DEF lim
<1>9. attempts \in [Legs -> Nat] /\ posted \in [Legs -> Nat] /\ MaxAttempts \in Nat
  BY DEF TypeOK
<1>10. TypeOK'
  <2>1. job' \in JobType
    BY <1>5, <1>6, <1>7, <1>8 DEF JobType
  <2>2. attempts' \in [Legs -> Nat]
    BY <1>2, <1>9
  <2> QED
    BY <1>2, <2>1, <2>2 DEF TypeOK
<1>11. Shape' /\ Targets' /\ Bought'
  BY <1>2
<1>12. Counted'
  BY <1>2, <1>3, <1>9
<1>13. Attempt'
  <2>1. posted'[l] < attempts'[l]
    BY <1>2, <1>9
  <2> QED
    BY <1>2, <1>3, <1>4, <1>5, <1>6, <1>7, <1>8, <2>1
<1>14. Sound(state)' /\ Sound(disk)'
  BY <1>2 DEF Sound, Accounted, FlatWhenLiquidated, LegsOf
<1>15. Backed'
  <2>1. \A m \in Legs : InFlight(m)' = 0 /\ InFlight(m) = 0
    BY <1>2, <1>8 DEF InFlight
  <2> QED
    BY <1>2, <2>1 DEF Backed
<1> QED
  BY <1>10, <1>11, <1>12, <1>13, <1>14, <1>15

LEMMA JobFacts ==
    ASSUME IInv, job # NoJob
    PROVE  /\ job \in JobType /\ job.leg \in Legs /\ job.channel \in Channels
           /\ job.size \in Nat /\ job.limit \in Nat /\ job.filled \in Nat
           /\ job.filled <= state.shares[job.leg]
           /\ state \in LedgerType /\ state.shares \in [Legs -> Nat]
           /\ channel # None
<1>1. job \in JobType /\ state \in LedgerType
  BY DEF TypeOK
<1>2. state.recorded \subseteq Legs /\ state.shares \in [Legs -> Nat]
  BY <1>1, FieldTypes
<1>3. job.size \in Nat /\ job.limit \in Nat /\ job.filled \in Nat
  BY <1>1 DEF JobType
<1>4. job.leg \in Legs
  BY <1>2
<1>5. job.filled <= job.size /\ job.size <= state.shares[job.leg] /\ state.shares[job.leg] \in Nat
  BY <1>2, <1>4
<1> QED
  BY <1>1, <1>2, <1>3, <1>4, <1>5

(* An order goes out only when every own order is confirmed gone. *)
LEMMA CancelFirstKeeps == IInv /\ CancelFirst => IInv'
<1> SUFFICES ASSUME IInv, CancelFirst PROVE IInv'
  OBVIOUS
<1>1. PICK gone \in SUBSET OwnOrders(job.leg) :
          /\ resting' = resting \ gone
          /\ job' = [job EXCEPT !.phase = IF gone = OwnOrders(job.leg) THEN "post" ELSE "book"]
  BY DEF CancelFirst, Confirmed
<1>2. /\ job.phase = "cancel"
      /\ UNCHANGED <<state, disk, stage, todo, cur, channel, work, request, merging, attempts,
                     wallet, posted, lost, faults>>
  BY DEF CancelFirst
<1>3. job # NoJob
  BY <1>2
<1>4. /\ job'.leg = job.leg /\ job'.channel = job.channel /\ job'.size = job.size
      /\ job'.limit = job.limit /\ job'.filled = job.filled
      /\ job'.phase = IF gone = OwnOrders(job.leg) THEN "post" ELSE "book"
      /\ job' \in JobType
  BY <1>1, <1>3, JobFacts DEF JobType
<1>5. TypeOK'
  BY <1>1, <1>2, <1>4 DEF TypeOK
<1>6. Shape' /\ Targets' /\ Bought' /\ Counted'
  BY <1>2, <1>3
<1>7. Attempt'
  <2>1. job'.phase = "post" => OwnOrders(job.leg)' = {}
    BY <1>1, <1>2, <1>4 DEF OwnOrders, LegsOf
  <2> QED
    BY <1>2, <1>3, <1>4, <2>1
<1>8. Sound(state)' /\ Sound(disk)'
  BY <1>2 DEF Sound, Accounted, FlatWhenLiquidated, LegsOf
<1>9. Backed'
  BY <1>2, <1>4 DEF Backed, InFlight
<1> QED
  BY <1>5, <1>6, <1>7, <1>8, <1>9

(* What the venue fills leaves the wallet and stays in flight until it is booked. *)
LEMMA PostSellKeeps == IInv /\ PostSell => IInv'
<1> SUFFICES ASSUME IInv, PostSell PROVE IInv'
  OBVIOUS
<1> DEFINE k == job.leg
<1>1. PICK f \in 0..Least(job.size, wallet[k]) :
          /\ wallet' = [wallet EXCEPT ![k] = @ - f]
          /\ job' = [job EXCEPT !.phase = "book", !.filled = f]
  BY DEF PostSell
<1>2. /\ job.phase = "post" /\ posted' = [posted EXCEPT ![k] = @ + 1]
      /\ UNCHANGED <<state, disk, stage, todo, cur, channel, work, request, merging, attempts,
                     resting, lost, faults>>
  BY DEF PostSell
<1>3. job # NoJob
  BY <1>2
<1>4. /\ k \in Legs /\ job.size \in Nat /\ wallet \in [Legs -> Nat] /\ wallet[k] \in Nat
      /\ posted \in [Legs -> Nat] /\ attempts \in [Legs -> Nat] /\ lost \in [Legs -> Nat]
      /\ state.shares \in [Legs -> Nat]
  BY <1>3, JobFacts DEF TypeOK
<1>5. f \in Nat /\ f <= job.size /\ f <= wallet[k]
  BY <1>1, <1>4 DEF Least
<1>6. /\ job'.leg = k /\ job'.channel = job.channel /\ job'.size = job.size
      /\ job'.limit = job.limit /\ job'.filled = f /\ job'.phase = "book"
      /\ job' \in JobType
  BY <1>1, <1>3, <1>5, JobFacts DEF JobType
<1>7. job.filled = 0 /\ posted[k] < attempts[k]
  BY <1>2, <1>3
<1> HIDE DEF k
<1>8. TypeOK'
  <2>1. wallet' \in [Legs -> Nat] /\ posted' \in [Legs -> Nat]
    BY <1>1, <1>2, <1>4, <1>5
  <2> QED
    BY <1>2, <1>6, <2>1 DEF TypeOK
<1>9. Shape' /\ Targets'
  BY <1>2, <1>3
<1>10. Bought'
  <2>1. k \in state.recorded
    BY <1>3 DEF k
  <2> QED
    BY <1>1, <1>2, <1>4, <2>1
<1>11. Attempt'
  BY <1>2, <1>3, <1>5, <1>6 DEF k
<1>12. Counted'
  BY <1>2, <1>4, <1>7
<1>13. Sound(state)' /\ Sound(disk)'
  BY <1>2 DEF Sound, Accounted, FlatWhenLiquidated, LegsOf
<1>14. Backed'
  <2> SUFFICES ASSUME NEW m \in Legs
               PROVE  state.shares[m] <= wallet'[m] + InFlight(m)' + lost[m]
    BY <1>2 DEF Backed
  <2>1. state.shares[m] <= wallet[m] + InFlight(m) + lost[m]
    BY DEF Backed
  <2>2. InFlight(m) = 0 /\ InFlight(m)' = IF m = k THEN f ELSE 0
    BY <1>6, <1>7 DEF InFlight, k
  <2>3. wallet'[m] = IF m = k THEN wallet[k] - f ELSE wallet[m]
    BY <1>1, <1>4
  <2>4. state.shares[m] \in Nat /\ wallet[m] \in Nat /\ lost[m] \in Nat
    BY <1>4
  <2> QED
    BY <1>5, <2>1, <2>2, <2>3, <2>4
<1> QED
  BY <1>8, <1>9, <1>10, <1>11, <1>12, <1>13, <1>14

(* Booking r of the filled shares keeps them all accounted for; the rest is known to be lost. *)
LEMMA BookKeeps ==
    ASSUME IInv, NEW r \in Nat, Book(r), faults' \in Nat,
           lost' = [lost EXCEPT ![job.leg] = @ + job.filled - r]
    PROVE  IInv'
<1> DEFINE k == job.leg
           b == Booked(state, k, job.channel, r)
<1>1. /\ job.phase = "book" /\ r <= job.filled /\ state' = b /\ job' = NoJob
      /\ UNCHANGED <<disk, stage, todo, cur, channel, work, request, merging, attempts, wallet,
                     resting, posted>>
  BY DEF Book
<1>2. job # NoJob
  BY <1>1
<1>3. /\ k \in Legs /\ job.channel \in Channels /\ job.filled \in Nat
      /\ job.filled <= state.shares[k] /\ state \in LedgerType /\ channel # None
      /\ state.shares \in [Legs -> Nat] /\ state.credited \in [Legs -> Nat]
      /\ state.bought \in [Legs -> Nat] /\ state.recorded \subseteq Legs
      /\ lost \in [Legs -> Nat] /\ wallet \in [Legs -> Nat]
  BY <1>2, JobFacts, FieldTypes DEF TypeOK
<1>4. r <= state.shares[k] /\ state.shares[k] \in Nat
  BY <1>1, <1>3
<1>5. k \in state.recorded \ (state.settled \cup work)
  BY <1>2
<1> HIDE DEF k
<1>6. SoldFrom(b, state, k, job.channel, r)
  BY <1>3, <1>4, BookedFacts
<1> HIDE DEF b
<1>7. /\ b \in LedgerType /\ b.recorded = state.recorded /\ b.resolved = state.resolved
      /\ b.refired = state.refired /\ b.bought = state.bought
      /\ b.shares = [state.shares EXCEPT ![k] = @ - r]
      /\ b.credited = [state.credited EXCEPT ![k] = @ + r]
      /\ b.settled = IF r > 0 /\ state.shares[k] = r THEN state.settled \cup {k} ELSE state.settled
      /\ \A m \in Legs : m # k => b.pending[m] = state.pending[m]
      /\ \A s \in b.liquidated : s \in state.liquidated \/ Flat(b, s)
  BY <1>6 DEF SoldFrom
<1>8. TypeOK'
  <2>1. lost' \in [Legs -> Nat]
    BY <1>1, <1>3 DEF k
  <2>2. job' \in JobType
    BY <1>1 DEF JobType
  <2> QED
    BY <1>1, <1>7, <2>1, <2>2 DEF TypeOK
<1>9. Shape' /\ Bought' /\ Attempt' /\ Counted'
  BY <1>1, <1>3, <1>7
<1>10. Targets'
  BY <1>1, <1>3, <1>5, <1>7
<1>11. Sound(state)' /\ Sound(disk)'
  <2>1. Sound(disk)'
    BY <1>1 DEF Sound, Accounted, FlatWhenLiquidated, LegsOf
  <2>2. Accounted(state)'
    <3> SUFFICES ASSUME NEW m \in state.recorded
                 PROVE  /\ m \notin b.settled => b.credited[m] + b.shares[m] = b.bought[m]
                        /\ m \in b.settled \ b.resolved =>
                               b.shares[m] = 0 /\ b.credited[m] = b.bought[m]
                        /\ b.credited[m] <= b.bought[m]
      BY <1>1, <1>7 DEF Accounted
    <3>1. Accounted(state)
      BY DEF Sound
    <3>2. CASE m # k
      BY <1>3, <1>7, <3>1, <3>2 DEF Accounted
    <3>3. CASE m = k
      <4>1. state.credited[k] + state.shares[k] = state.bought[k]
        BY <1>5, <3>1 DEF Accounted
      <4>2. b.shares[k] = state.shares[k] - r /\ b.credited[k] = state.credited[k] + r
        BY <1>3, <1>7
      <4>3. state.credited[k] \in Nat /\ state.bought[k] \in Nat
        BY <1>3
      <4> QED
        BY <1>4, <1>5, <1>7, <3>3, <4>1, <4>2, <4>3
    <3> QED
      BY <3>2, <3>3
  <2>3. \A m \in Legs \ b.recorded :
            b.shares[m] = 0 /\ b.credited[m] = 0 /\ b.bought[m] = 0 /\ m \notin b.settled
    BY <1>3, <1>5, <1>7 DEF Sound
  <2>4. \A m \in b.recorded \cap RefireLegs : Owner[m] \in b.refired
    BY <1>7 DEF Sound
  <2>5. FlatWhenLiquidated(b)
    BY <1>7 DEF Sound, FlatWhenLiquidated, Flat, AllSettled, LegsOf
  <2> QED
    BY <1>1, <2>1, <2>2, <2>3, <2>4, <2>5 DEF Sound
<1>12. Backed'
  <2> SUFFICES ASSUME NEW m \in Legs
               PROVE  b.shares[m] <= wallet[m] + 0 + lost'[m]
    BY <1>1 DEF Backed, InFlight
  <2>1. state.shares[m] <= wallet[m] + InFlight(m) + lost[m]
    BY DEF Backed
  <2>2. InFlight(m) = IF m = k THEN job.filled ELSE 0
    BY DEF InFlight, k
  <2>3. lost'[m] = IF m = k THEN lost[m] + job.filled - r ELSE lost[m]
    BY <1>3 DEF k
  <2>4. b.shares[m] = IF m = k THEN state.shares[m] - r ELSE state.shares[m]
    BY <1>3, <1>7
  <2>5. state.shares[m] \in Nat /\ wallet[m] \in Nat /\ lost[m] \in Nat
    BY <1>3
  <2> QED
    BY <1>3, <2>1, <2>2, <2>3, <2>4, <2>5
<1> QED
  BY <1>8, <1>9, <1>10, <1>11, <1>12

LEMMA BookFillKeeps == IInv /\ BookFill => IInv'
<1> SUFFICES ASSUME IInv, BookFill PROVE IInv'
  OBVIOUS
<1>1. Book(job.filled) /\ lost' = lost /\ faults' = faults
  BY DEF BookFill
<1>2. job # NoJob
  BY <1>1 DEF Book
<1>3. job.filled \in Nat /\ job.leg \in Legs /\ lost \in [Legs -> Nat] /\ faults \in Nat
  BY <1>2, JobFacts DEF TypeOK
<1>4. lost' = [lost EXCEPT ![job.leg] = @ + job.filled - job.filled]
  BY <1>1, <1>3
<1> QED
  BY <1>1, <1>3, <1>4, BookKeeps

LEMMA LoseReportKeeps == IInv /\ LoseReport => IInv'
<1> SUFFICES ASSUME IInv, LoseReport PROVE IInv'
  OBVIOUS
<1>1. PICK r \in 0..job.filled :
          Book(r) /\ lost' = [lost EXCEPT ![job.leg] = @ + job.filled - r]
  BY DEF LoseReport
<1>2. faults' \in Nat
  BY DEF LoseReport, TypeOK
<1>3. job # NoJob
  BY <1>1 DEF Book
<1>4. r \in Nat
  BY <1>3, JobFacts
<1> QED
  BY <1>1, <1>2, <1>4, BookKeeps

(* A refire's leg joins the books with what the wallet holds of it. *)
LEMMA ConcludeKeeps == IInv /\ Conclude => IInv'
<1> SUFFICES ASSUME IInv, Conclude PROVE IInv'
  OBVIOUS
<1> DEFINE c == Concluded(state)
<1>1. /\ work = {} /\ job = NoJob /\ channel # None /\ state' = c /\ stage' = NextStage
      /\ channel' = None /\ request' = WholeLeg /\ merging' = Nothing
      /\ UNCHANGED <<disk, todo, cur, work, job, attempts, wallet, resting, posted, lost, faults>>
  BY DEF Conclude
<1>2. /\ c \in LedgerType /\ c.resolved = state.resolved /\ c.refired = state.refired
      /\ c.settled = state.settled /\ c.credited = state.credited
      /\ \/ /\ c.recorded = state.recorded
            /\ c.shares = state.shares
            /\ c.bought = state.bought
         \/ /\ merging # Nothing
            /\ c.recorded = state.recorded \cup {merging.leg}
            /\ c.shares = [state.shares EXCEPT ![merging.leg] = merging.shares]
            /\ c.bought = [state.bought EXCEPT ![merging.leg] = merging.shares]
      /\ \A s \in c.liquidated : s \in state.liquidated \/ Flat(c, s)
  BY ConcludedFacts
<1> HIDE DEF c
<1>3. /\ state.shares \in [Legs -> Nat] /\ state.bought \in [Legs -> Nat]
      /\ state.credited \in [Legs -> Nat] /\ state.recorded \subseteq Legs
      /\ merging.shares \in Nat /\ wallet \in [Legs -> Nat] /\ lost \in [Legs -> Nat]
  BY FieldTypes DEF TypeOK
<1>4. stage' \in {"early_stop", "metar", "rules", "sleeve", "settle"}
      /\ (stage' = "early_stop" => stage = "take_profit")
  BY <1>1 DEF NextStage, TypeOK
<1>5. TypeOK'
  BY <1>1, <1>2, <1>4 DEF TypeOK
<1>6. Shape' /\ Targets' /\ Bought' /\ Attempt' /\ Counted'
  BY <1>1, <1>4
<1>7. Sound(state)' /\ Sound(disk)'
  <2>1. Sound(disk)'
    BY <1>1 DEF Sound, Accounted, FlatWhenLiquidated, LegsOf
  <2>2. Accounted(c)
    <3>1. Accounted(state)
      BY DEF Sound
    <3>2. CASE c.recorded = state.recorded /\ c.shares = state.shares /\ c.bought = state.bought
      BY <1>2, <3>1, <3>2 DEF Accounted
    <3>3. CASE /\ merging # Nothing
               /\ c.recorded = state.recorded \cup {merging.leg}
               /\ c.shares = [state.shares EXCEPT ![merging.leg] = merging.shares]
               /\ c.bought = [state.bought EXCEPT ![merging.leg] = merging.shares]
      <4>1. state.credited[merging.leg] = 0 /\ merging.leg \notin state.settled
            /\ merging.leg \in Legs \ state.recorded
        BY <3>3 DEF Sound
      <4> QED
        BY <1>2, <1>3, <3>1, <3>3, <4>1 DEF Accounted
    <3> QED
      BY <1>2, <3>2, <3>3
  <2>3. \A m \in Legs \ c.recorded :
            c.shares[m] = 0 /\ c.credited[m] = 0 /\ c.bought[m] = 0 /\ m \notin c.settled
    BY <1>2, <1>3 DEF Sound
  <2>4. \A m \in c.recorded \cap RefireLegs : Owner[m] \in c.refired
    BY <1>2 DEF Sound
  <2>5. FlatWhenLiquidated(c)
    BY <1>2 DEF Sound, FlatWhenLiquidated, Flat, AllSettled, LegsOf
  <2> QED
    BY <1>1, <2>1, <2>2, <2>3, <2>4, <2>5 DEF Sound
<1>8. Backed'
  BY <1>1, <1>2, <1>3 DEF Backed, InFlight
<1> QED
  BY <1>5, <1>6, <1>7, <1>8

LEMMA SettleKeeps == IInv /\ Settle => IInv'
<1> SUFFICES ASSUME IInv, Settle PROVE IInv'
  OBVIOUS
<1>1. PICK done \in SUBSET (state.recorded \ state.settled) :
          \E won \in SUBSET done : state' = Resolved(state, done, won)
  BY DEF Settle
<1>2. PICK won \in SUBSET done : state' = Resolved(state, done, won)
  BY <1>1
<1>3. /\ stage = "settle" /\ stage' = "save"
      /\ UNCHANGED <<disk, todo, cur, channel, work, request, merging, job, attempts, wallet,
                     resting, posted, lost, faults>>
  BY DEF Settle
<1>4. /\ state \in LedgerType /\ state.recorded \subseteq Legs
      /\ state.shares \in [Legs -> Nat] /\ state.credited \in [Legs -> Nat]
      /\ state.bought \in [Legs -> Nat]
  BY FieldTypes DEF TypeOK
<1>5. done \in SUBSET Legs
  BY <1>4
<1> DEFINE e == Resolved(state, done, won)
<1>6. ResolvedFrom(e, state, done, won)
  BY <1>4, <1>5, ResolvedFacts
<1> HIDE DEF e
<1>7. /\ e \in LedgerType /\ e.recorded = state.recorded /\ e.shares = state.shares
      /\ e.refired = state.refired /\ e.bought = state.bought /\ e.pending = state.pending
      /\ e.liquidated = state.liquidated /\ e.settled = state.settled \cup done
      /\ e.resolved = state.resolved \cup done
      /\ e.credited = [l \in Legs |-> IF l \in won THEN state.credited[l] + state.shares[l]
                                                    ELSE state.credited[l]]
  BY <1>6 DEF ResolvedFrom
<1>8. state' = e
  BY <1>2 DEF e
<1>9. TypeOK'
  BY <1>3, <1>7, <1>8 DEF TypeOK
<1>10. Shape' /\ Targets' /\ Bought' /\ Attempt' /\ Counted'
  BY <1>3
<1>11. Sound(state)' /\ Sound(disk)'
  <2>1. Sound(disk)'
    BY <1>3 DEF Sound, Accounted, FlatWhenLiquidated, LegsOf
  <2>2. Accounted(e)
    <3> SUFFICES ASSUME NEW m \in state.recorded
                 PROVE  /\ m \notin e.settled => e.credited[m] + e.shares[m] = e.bought[m]
                        /\ m \in e.settled \ e.resolved =>
                               e.shares[m] = 0 /\ e.credited[m] = e.bought[m]
                        /\ e.credited[m] <= e.bought[m]
      BY <1>7 DEF Accounted
    <3>1. Accounted(state) /\ m \in Legs
      BY <1>4 DEF Sound
    <3>2. state.shares[m] \in Nat /\ state.credited[m] \in Nat /\ state.bought[m] \in Nat
      BY <1>4, <3>1
    <3>3. e.credited[m] = IF m \in won THEN state.credited[m] + state.shares[m]
                                       ELSE state.credited[m]
      BY <1>7, <3>1
    <3>4. m \in won => m \in done /\ m \notin state.settled
      OBVIOUS
    <3> QED
      BY <1>7, <3>1, <3>2, <3>3, <3>4 DEF Accounted
  <2>3. \A m \in Legs \ e.recorded :
            e.shares[m] = 0 /\ e.credited[m] = 0 /\ e.bought[m] = 0 /\ m \notin e.settled
    BY <1>7 DEF Sound
  <2>4. \A m \in e.recorded \cap RefireLegs : Owner[m] \in e.refired
    BY <1>7 DEF Sound
  <2>5. FlatWhenLiquidated(e)
    BY <1>7 DEF Sound, FlatWhenLiquidated, LegsOf
  <2> QED
    BY <1>8, <2>1, <2>2, <2>3, <2>4, <2>5 DEF Sound
<1>12. Backed'
  BY <1>3, <1>7, <1>8 DEF Backed, InFlight
<1> QED
  BY <1>9, <1>10, <1>11, <1>12

LEMMA SkipSettleKeeps == IInv /\ SkipSettle => IInv'
<1> SUFFICES ASSUME IInv, SkipSettle PROVE IInv'
  OBVIOUS
<1>1. TypeOK'
  BY DEF SkipSettle, TypeOK
<1>2. Shape' /\ Targets' /\ Bought' /\ Attempt' /\ Counted'
  BY DEF SkipSettle, OwnOrders, LegsOf
<1>3. Sound(state)' /\ Sound(disk)' /\ Backed'
  BY DEF SkipSettle, Sound, Accounted, FlatWhenLiquidated, LegsOf, Backed, InFlight
<1> QED
  BY <1>1, <1>2, <1>3

LEMMA SaveKeeps == IInv /\ Save => IInv'
<1> SUFFICES ASSUME IInv, Save PROVE IInv'
  OBVIOUS
<1>1. TypeOK'
  BY DEF Save, TypeOK
<1>2. Shape' /\ Targets' /\ Bought' /\ Attempt' /\ Counted'
  BY DEF Save, OwnOrders, LegsOf
<1>3. Sound(state)' /\ Sound(disk)' /\ Backed'
  BY DEF Save, Sound, Accounted, FlatWhenLiquidated, LegsOf, Backed, InFlight
<1> QED
  BY <1>1, <1>2, <1>3

LEMMA CycleErrorKeeps == IInv /\ CycleError => IInv'
<1> SUFFICES ASSUME IInv, CycleError PROVE IInv'
  OBVIOUS
<1>1. TypeOK'
  BY DEF CycleError, TypeOK
<1>2. Shape' /\ Targets' /\ Bought' /\ Attempt' /\ Counted'
  BY DEF CycleError, OwnOrders, LegsOf
<1>3. Sound(state)' /\ Sound(disk)' /\ Backed'
  BY DEF CycleError, Sound, Accounted, FlatWhenLiquidated, LegsOf, Backed, InFlight
<1> QED
  BY <1>1, <1>2, <1>3

(* A resting order that fills only adds to the wallet. *)
LEMMA RestingFillsKeeps == \A l \in Legs : IInv /\ RestingFills(l) => IInv'
<1> SUFFICES ASSUME NEW l \in Legs, IInv, RestingFills(l) PROVE IInv'
  OBVIOUS
<1>1. /\ resting' = resting \ {l} /\ wallet' = [wallet EXCEPT ![l] = @ + 1]
      /\ UNCHANGED <<state, disk, stage, todo, cur, channel, work, request, merging, job,
                     attempts, posted, lost, faults>>
  BY DEF RestingFills
<1>2. /\ wallet \in [Legs -> Nat] /\ lost \in [Legs -> Nat]
      /\ state.shares \in [Legs -> Nat] /\ merging.shares \in Nat /\ job \in JobType
  BY FieldTypes DEF TypeOK
<1>3. wallet' \in [Legs -> Nat] /\ \A m \in Legs : wallet[m] <= wallet'[m]
  BY <1>1, <1>2
<1>4. TypeOK'
  BY <1>1, <1>3 DEF TypeOK
<1>5. Shape' /\ Targets' /\ Attempt' /\ Counted'
  BY <1>1 DEF OwnOrders, LegsOf
<1>6. Bought'
  <2> SUFFICES ASSUME merging # Nothing
               PROVE  merging.shares <= wallet'[merging.leg]
    BY <1>1
  <2>1. merging.leg \in Legs /\ merging.shares <= wallet[merging.leg]
    OBVIOUS
  <2>2. wallet[merging.leg] \in Nat /\ wallet'[merging.leg] \in Nat
        /\ wallet[merging.leg] <= wallet'[merging.leg]
    BY <1>2, <1>3, <2>1
  <2> QED
    BY <1>2, <2>1, <2>2
<1>7. Sound(state)' /\ Sound(disk)'
  BY <1>1 DEF Sound, Accounted, FlatWhenLiquidated, LegsOf
<1>8. Backed'
  <2> SUFFICES ASSUME NEW m \in Legs
               PROVE  state.shares[m] <= wallet'[m] + InFlight(m) + lost[m]
    BY <1>1 DEF Backed, InFlight
  <2>1. state.shares[m] <= wallet[m] + InFlight(m) + lost[m]
    BY DEF Backed
  <2>2. InFlight(m) \in Nat
    BY <1>2 DEF InFlight, JobType
  <2>3. state.shares[m] \in Nat /\ wallet[m] \in Nat /\ wallet'[m] \in Nat /\ lost[m] \in Nat
        /\ wallet[m] <= wallet'[m]
    BY <1>2, <1>3
  <2> QED
    BY <2>1, <2>2, <2>3
<1> QED
  BY <1>4, <1>5, <1>6, <1>7, <1>8

LEMMA InFlightNat == ASSUME TypeOK, NEW m \in Legs PROVE InFlight(m) \in Nat
BY DEF TypeOK, JobType, InFlight

(* Without its report a fill is lost, and known to be. *)
LEMMA AuditFailsKeeps == IInv /\ AuditFails => IInv'
<1> SUFFICES ASSUME IInv, AuditFails PROVE IInv'
  OBVIOUS
<1>1. /\ lost' = [m \in Legs |-> lost[m] + InFlight(m)] /\ job' = NoJob /\ faults' = faults + 1
      /\ UNCHANGED <<state, disk, attempts, wallet, resting, posted>>
      /\ \/ UNCHANGED <<stage, todo, cur, channel, work, request, merging>>
         \/ /\ stage' = "idle" /\ todo' = {} /\ cur' = cur /\ channel' = None /\ work' = {}
            /\ request' = WholeLeg /\ merging' = Nothing
  BY DEF AuditFails
<1>2. lost' \in [Legs -> Nat]
  BY <1>1, InFlightNat DEF TypeOK
<1>3. TypeOK'
  <2>1. job' \in JobType
    BY <1>1 DEF JobType
  <2>2. merging' \in [leg : Legs \cup {NoLeg}, shares : Nat] /\ request' \in [shares : Nat, bid : Nat]
    BY <1>1 DEF TypeOK
  <2> QED
    BY <1>1, <1>2, <2>1, <2>2 DEF TypeOK
<1>4. channel # None
  BY DEF AuditFails
<1>5. Shape' /\ Targets' /\ Bought' /\ Attempt' /\ Counted'
  BY <1>1, <1>4
<1>6. Sound(state)' /\ Sound(disk)'
  BY <1>1 DEF Sound, Accounted, FlatWhenLiquidated, LegsOf
<1>7. Backed'
  <2> SUFFICES ASSUME NEW m \in Legs
               PROVE  state.shares[m] <= wallet[m] + 0 + lost'[m]
    BY <1>1 DEF Backed, InFlight
  <2>1. state.shares[m] <= wallet[m] + InFlight(m) + lost[m]
    BY DEF Backed
  <2>2. InFlight(m) \in Nat
    BY InFlightNat
  <2>3. state.shares[m] \in Nat /\ wallet[m] \in Nat /\ lost[m] \in Nat
    BY FieldTypes DEF TypeOK
  <2> QED
    BY <1>1, <2>1, <2>2, <2>3
<1> QED
  BY <1>3, <1>5, <1>6, <1>7

(* The state file is a sound set of books; what it claims above memory was sold meanwhile. *)
LEMMA CrashKeeps == IInv /\ Crash => IInv'
<1> SUFFICES ASSUME IInv, Crash PROVE IInv'
  OBVIOUS
<1> DEFINE undone(m) == IF disk.shares[m] > state.shares[m] THEN disk.shares[m] - state.shares[m] ELSE 0
<1>1. /\ state' = disk /\ stage' = "idle" /\ todo' = {} /\ cur' = cur /\ channel' = None
      /\ work' = {} /\ request' = WholeLeg /\ merging' = Nothing /\ job' = NoJob
      /\ lost' = [m \in Legs |-> lost[m] + InFlight(m) + undone(m)] /\ faults' = faults + 1
      /\ UNCHANGED <<disk, attempts, wallet, resting, posted>>
  BY DEF Crash
<1>2. \A m \in Legs : /\ state.shares[m] \in Nat /\ disk.shares[m] \in Nat /\ wallet[m] \in Nat
                       /\ lost[m] \in Nat /\ InFlight(m) \in Nat
  BY FieldTypes, InFlightNat DEF TypeOK
<1>3. TypeOK'
  <2>1. lost' \in [Legs -> Nat]
    BY <1>1, <1>2
  <2>2. job' \in JobType
    BY <1>1 DEF JobType
  <2>3. merging' \in [leg : Legs \cup {NoLeg}, shares : Nat] /\ request' \in [shares : Nat, bid : Nat]
    BY <1>1
  <2> QED
    BY <1>1, <2>1, <2>2, <2>3 DEF TypeOK
<1>4. Shape' /\ Targets' /\ Bought' /\ Attempt' /\ Counted'
  BY <1>1
<1>5. Sound(state)' /\ Sound(disk)'
  BY <1>1 DEF Sound, Accounted, FlatWhenLiquidated, LegsOf
<1>6. Backed'
  <2> SUFFICES ASSUME NEW m \in Legs
               PROVE  disk.shares[m] <= wallet[m] + 0 + lost'[m]
    BY <1>1 DEF Backed, InFlight
  <2>1. state.shares[m] <= wallet[m] + InFlight(m) + lost[m]
    BY DEF Backed
  <2> QED
    BY <1>1, <1>2, <2>1
<1> QED
  BY <1>3, <1>4, <1>5, <1>6

-----------------------------------------------------------------------------
(* The theorems.                                                           *)

LEMMA InitHolds == Init => IInv
<1> SUFFICES ASSUME Init PROVE IInv
  OBVIOUS
<1>1. PICK held \in [Legs -> Lots \cup {0}] :
          /\ \A l \in Legs : l \in RefireLegs <=> held[l] = 0
          /\ state = [recorded   |-> Legs \ RefireLegs,
                      shares     |-> held,
                      settled    |-> {},
                      resolved   |-> {},
                      pending    |-> [l \in Legs |-> None],
                      liquidated |-> {},
                      posSettled |-> {},
                      tpDone     |-> {},
                      refired    |-> {},
                      bought     |-> held,
                      credited   |-> [l \in Legs |-> 0]]
          /\ wallet = held
  BY DEF Init
<1>2. /\ disk = state /\ stage = "idle" /\ todo = {} /\ cur \in Rules /\ channel = None
      /\ work = {} /\ request = WholeLeg /\ merging = Nothing /\ job = NoJob
      /\ attempts = [l \in Legs |-> 0] /\ resting \in SUBSET Restable
      /\ posted = [l \in Legs |-> 0] /\ lost = [l \in Legs |-> 0] /\ faults = 0
  BY DEF Init
<1>3. held \in [Legs -> Nat] /\ \A l \in Legs : l \in RefireLegs => held[l] = 0
  <2>1. Lots \cup {0} \subseteq Nat
    OBVIOUS
  <2>2. held \in [Legs -> Lots \cup {0}]
    OBVIOUS
  <2> QED
    BY <1>1, <2>1, <2>2
<1>4. /\ state.recorded = Legs \ RefireLegs /\ state.shares = held /\ state.bought = held
      /\ state.settled = {} /\ state.resolved = {} /\ state.liquidated = {}
      /\ state.credited = [l \in Legs |-> 0]
  BY <1>1
<1>5. TypeOK
  <2>1. state \in LedgerType
    BY <1>1, <1>3 DEF LedgerType
  <2>2. job \in JobType
    BY <1>2 DEF JobType
  <2> QED
    BY <1>1, <1>2, <1>3, <2>1, <2>2 DEF TypeOK, Rules
<1>6. Shape /\ Targets /\ Bought /\ Attempt /\ Counted
  BY <1>2
<1>7. Sound(state) /\ Sound(disk)
  BY <1>2, <1>3, <1>4 DEF Sound, Accounted, FlatWhenLiquidated
<1>8. Backed
  BY <1>1, <1>2, <1>3, <1>4 DEF Backed, InFlight
<1> QED
  BY <1>5, <1>6, <1>7, <1>8

LEMMA NextKeeps == IInv /\ [Next]_vars => IInv'
<1> SUFFICES ASSUME IInv, [Next]_vars PROVE IInv'
  OBVIOUS
<1>1. CASE UNCHANGED vars
  BY <1>1 DEF TypeOK, Sound, Accounted, FlatWhenLiquidated, LegsOf, Backed, InFlight, OwnOrders
<1>2. CASE Engine
  <2> HIDE DEF IInv
  <2> QED
    BY <1>2, BeginCycleKeeps, PassKeeps, TakeProfitKeeps, EarlyStopKeeps, RetrySweepKeeps,
       SleeveTimeoutKeeps, CancelFirstKeeps, PostSellKeeps, BookFillKeeps, ConcludeKeeps,
       SettleKeeps, SkipSettleKeeps, SaveKeeps, EnterRuleKeeps, MetarExitKeeps, DropPendingKeeps,
       DeferKeeps, DecideKeeps, RefireKeeps DEF Engine
<1>3. CASE Environment
  <2> HIDE DEF IInv
  <2> QED
    BY <1>3, RestingFillsKeeps DEF Environment
<1>4. CASE Fault
  <2> HIDE DEF IInv
  <2> QED
    BY <1>4, LoseReportKeeps, AuditFailsKeeps, CycleErrorKeeps, CrashKeeps DEF Fault
<1> QED
  BY <1>1, <1>2, <1>3, <1>4 DEF Next

(* The inductive invariant holds in every reachable state: run_cycle and the exit channel,  *)
(* whatever the venue fills, reports or loses and wherever the process dies, keep it.       *)
THEOREM Invariant == Spec => []IInv
<1> HIDE DEF IInv, vars
<1> QED
  BY InitHolds, NextKeeps, PTL DEF Spec

(* The type of every variable, on every set of positions and legs. *)
THEOREM TypeCorrect == Spec => []TypeOK
<1>1. IInv => TypeOK
  OBVIOUS
<1> HIDE DEF IInv
<1> QED
  BY <1>1, Invariant, PTL

(* Every share booked at entry stays accounted for exactly once, whatever mix of partial    *)
(* fills, lost reports, crashes, refires and resolutions the books go through.              *)
THEOREM SharesConserved == Spec => []Conserved
<1>1. IInv => Conserved
  BY DEF Conserved, Sound
<1> HIDE DEF IInv
<1> QED
  BY <1>1, Invariant, PTL

(* The books claim no share the wallet lacks, beyond the fills whose report was lost.       *)
THEOREM BooksBacked == Spec => []Backed
<1>1. IInv => Backed
  OBVIOUS
<1> HIDE DEF IInv
<1> QED
  BY <1>1, Invariant, PTL

(* No SELL goes out while an own order rests on the position, under the floor, below the    *)
(* venue's minimum or above what the position holds.                                        *)
THEOREM SellsGuarded == Spec => []SellGuarded
<1>1. IInv => SellGuarded
  BY DEF SellGuarded
<1> HIDE DEF IInv
<1> QED
  BY <1>1, Invariant, PTL

(* The stages and sweeps of one cycle together never post more than the allowed orders.     *)
THEOREM AttemptsBounded == Spec => []AttemptsCapped
<1>1. IInv => AttemptsCapped
  BY DEF AttemptsCapped, TypeOK
<1> HIDE DEF IInv
<1> QED
  BY <1>1, Invariant, PTL

(* The flag that ends the guarding of a consensus-lock position means that it is flat.      *)
THEOREM LiquidatedFlat == Spec => []LiquidatedIsFlat
<1>1. IInv => LiquidatedIsFlat
  BY DEF LiquidatedIsFlat, Sound
<1> HIDE DEF IInv
<1> QED
  BY <1>1, Invariant, PTL
-----------------------------------------------------------------------------
(* RemainderTracked needs to know where a take-profit can reach: its channel is raised in   *)
(* the consensus lane only, and what it leaves pending there stays there.                   *)

HIDE ConstantsAssumption
     DEF IInv, Shape, Targets, Bought, Attempt, Counted, vars, engine, venue, ghosts,
         Nothing, WholeLeg, NoJob, Quiet, Raise, Abandon, Stages, Phases, Channels, StopChannels, None

Locked(l) == Lane[Owner[l]] = "consensus_lock"

(* The remainder of a leg outside that lane is registered, and not as a take-profit.        *)
Kept(st) ==
    \A l \in st.recorded :
        ~Locked(l) /\ st.credited[l] > 0 /\ l \notin st.settled => st.pending[l] # None
Owned(st) == \A l \in Legs : st.pending[l] = "take_profit" => Locked(l)

Raised ==
    /\ channel = "take_profit" => \A l \in work : Locked(l)
    /\ job.channel = "take_profit" => Locked(job.leg)

Tracked == Kept(state) /\ Kept(disk) /\ Owned(state) /\ Owned(disk) /\ Raised

(* Books that agree on what Kept and Owned read are as well kept. *)
LEMMA SameTrack ==
    ASSUME NEW a, NEW b, b.recorded = a.recorded, b.credited = a.credited,
           b.settled = a.settled, b.pending = a.pending, Kept(a), Owned(a)
    PROVE  Kept(b) /\ Owned(b)
  BY DEF Kept, Owned

LEMMA TrackedInit == Init => Tracked
<1> SUFFICES ASSUME Init PROVE Tracked
  OBVIOUS
<1>1. /\ \A l \in Legs : state.credited[l] = 0 /\ state.pending[l] = None
      /\ state.recorded \subseteq Legs /\ disk = state
  BY DEF Init
<1>2. None # "take_profit" BY DEF None
<1>3. Kept(state) /\ Owned(state) BY <1>1, <1>2 DEF Kept, Owned
<1>4. Raised BY DEF Init, Raised, NoJob, None
<1> QED BY <1>1, <1>3, <1>4 DEF Tracked

(* The steps that write neither the books nor the attempt. *)
LEMMA QuietTracks ==
    ASSUME Tracked, UNCHANGED <<state, disk>>,
           channel' = "take_profit" => \A l \in work' : Locked(l),
           job' = job \/ job' = NoJob
    PROVE  Tracked'
<1>1. Raised' BY DEF Tracked, Raised, NoJob, None
<1>2. Kept(state)' /\ Kept(disk)' /\ Owned(state)' /\ Owned(disk)' BY DEF Tracked
<1> QED BY <1>1, <1>2 DEF Tracked

LEMMA EngineTracks ==
    ASSUME IInv, Tracked,
           \/ BeginCycle \/ Pass \/ TakeProfit \/ EarlyStop \/ RetrySweep \/ SleeveTimeout
           \/ PostSell \/ CancelFirst \/ SkipSettle
           \/ \E s \in Sessions : EnterRule(s)
           \/ \E ch \in {"breach_rc", "abortion_rc"} : MetarExit(ch)
           \/ \E l \in Legs : Defer(l)
    PROVE  Tracked'
<1>1. UNCHANGED <<state, disk>>
  BY DEF BeginCycle, Pass, TakeProfit, EarlyStop, RetrySweep, SleeveTimeout, PostSell, CancelFirst,
         SkipSettle, EnterRule, MetarExit, Defer
<1>2. CASE TakeProfit
  <2>1. stage = "take_profit" /\ work' = OpenYes(cur) /\ UNCHANGED job
    BY <1>2 DEF TakeProfit, Raise
  <2>2. Lane[cur] = "consensus_lock" BY <2>1 DEF IInv, Shape
  <2>3. \A l \in work' : Locked(l) BY <2>1, <2>2 DEF OpenYes, LegsOf, Locked
  <2> QED BY <1>1, <2>1, <2>3, QuietTracks
<1>3. CASE EarlyStop \/ RetrySweep \/ SleeveTimeout \/ \E ch \in {"breach_rc", "abortion_rc"} : MetarExit(ch)
  <2>1. channel' # "take_profit" /\ UNCHANGED job
    BY <1>3 DEF EarlyStop, RetrySweep, SleeveTimeout, MetarExit, Raise
  <2> QED BY <1>1, <2>1, QuietTracks
<1>4. CASE BeginCycle \/ Pass \/ SkipSettle \/ \E s \in Sessions : EnterRule(s)
  <2>1. UNCHANGED <<channel, work, job>>
    BY <1>4 DEF BeginCycle, Pass, SkipSettle, EnterRule
  <2> QED BY <1>1, <2>1, QuietTracks DEF Tracked, Raised
<1>5. CASE \E l \in Legs : Defer(l)
  <2>1. UNCHANGED <<channel, job>> /\ work' \subseteq work BY <1>5 DEF Defer
  <2> QED BY <1>1, <2>1, QuietTracks DEF Tracked, Raised
<1>6. CASE PostSell \/ CancelFirst
  <2>0. job \in JobType BY DEF IInv, TypeOK
  <2>1. /\ UNCHANGED <<channel, work>>
        /\ job'.leg = job.leg /\ job'.channel = job.channel
    <3>1. CASE PostSell BY <2>0, <3>1 DEF PostSell, JobType
    <3>2. CASE CancelFirst
      <4>1. PICK ph \in {"post", "book"} : job' = [job EXCEPT !.phase = ph]
        BY <3>2 DEF CancelFirst
      <4> QED BY <2>0, <3>2, <4>1 DEF CancelFirst, JobType
    <3> QED BY <1>6, <3>1, <3>2
  <2>2. Raised' BY <2>1 DEF Tracked, Raised
  <2>3. Kept(state)' /\ Kept(disk)' /\ Owned(state)' /\ Owned(disk)' BY <1>1 DEF Tracked
  <2> QED BY <2>2, <2>3 DEF Tracked
<1> QED BY <1>2, <1>3, <1>4, <1>5, <1>6

(* An attempt inherits the channel of its stage, or in the sweep that of the pending exit.  *)
LEMMA DecideTracks == ASSUME IInv, Tracked, NEW l \in Legs, Decide(l) PROVE Tracked'
<1>1. /\ UNCHANGED <<state, disk, channel>> /\ work' \subseteq work /\ l \in work
      /\ job'.leg = l /\ job'.channel = ChannelFor(l)
  BY DEF Decide
<1>2. ChannelFor(l) = "take_profit" => Locked(l)
  BY <1>1 DEF ChannelFor, Tracked, Raised, Owned
<1>3. Raised' BY <1>1, <1>2 DEF Tracked, Raised
<1>4. Kept(state)' /\ Kept(disk)' /\ Owned(state)' /\ Owned(disk)' BY <1>1 DEF Tracked
<1> QED BY <1>3, <1>4 DEF Tracked

(* The sweep forgets only what is settled. *)
LEMMA DropPendingTracks == ASSUME IInv, Tracked, NEW l \in Legs, DropPending(l) PROVE Tracked'
<1>1. /\ UNCHANGED <<disk, channel, job>> /\ work' \subseteq work /\ l \in state.settled
      /\ state' = [state EXCEPT !.pending = [state.pending EXCEPT ![l] = None]]
  BY DEF DropPending
<1>2. state \in LedgerType BY DEF IInv, TypeOK
<1> DEFINE pe == [state.pending EXCEPT ![l] = None]
<1>3. pe[l] = None /\ \A m \in Legs : m # l => pe[m] = state.pending[m] BY <1>2, FieldTypes
<1>4. state'.pending = pe /\ state'.recorded = state.recorded /\ state'.credited = state.credited
      /\ state'.settled = state.settled
  <2> HIDE DEF pe
  <2> QED BY <1>1, <1>2 DEF LedgerType, pe
<1>5. state.recorded \subseteq Legs /\ None # "take_profit" BY <1>2, FieldTypes DEF None
<1> HIDE DEF pe
<1>6. Kept(state') BY <1>1, <1>3, <1>4, <1>5 DEF Kept, Tracked
<1>7. Owned(state') BY <1>3, <1>4, <1>5 DEF Owned, Tracked
<1>8. Raised' BY <1>1 DEF Tracked, Raised
<1> QED BY <1>1, <1>6, <1>7, <1>8 DEF Tracked

(* A sale that sells nothing, or leaves a rest, registers it under the channel that tried.  *)
LEMMA BookTracks ==
    ASSUME IInv, Tracked, NEW r \in Nat, Book(r)
    PROVE  Tracked'
<1>1. /\ UNCHANGED <<disk, channel, work>> /\ job' = NoJob /\ job.phase = "book"
      /\ state' = Booked(state, job.leg, job.channel, r) /\ r <= job.filled
  BY DEF Book
<1> DEFINE l == job.leg  ch == job.channel  b == Booked(state, l, ch, r)
<1>2. state \in LedgerType /\ job \in JobType /\ job # NoJob
  BY <1>1 DEF IInv, TypeOK, NoJob
<1>3. /\ ch \in Channels /\ l \in state.recorded /\ l \in Legs
      /\ job.filled <= job.size /\ job.size <= state.shares[l]
  BY <1>2, FieldTypes DEF IInv, Attempt
<1>4. r <= state.shares[l] /\ state.shares[l] \in Nat
  BY <1>1, <1>2, <1>3, FieldTypes DEF JobType
<1>5. SoldFrom(b, state, l, ch, r) BY <1>2, <1>3, <1>4, BookedFacts
<1>6. /\ b.recorded = state.recorded /\ b.pending[l] = PendingAfter(state, l, ch, r)
      /\ b.settled = IF r > 0 /\ state.shares[l] = r THEN state.settled \cup {l} ELSE state.settled
      /\ b.credited = [state.credited EXCEPT ![l] = @ + r]
      /\ \A m \in Legs : m # l => b.pending[m] = state.pending[m]
  BY <1>5 DEF SoldFrom
<1>7. \A m \in Legs : m # l => b.credited[m] = state.credited[m]
  BY <1>2, <1>6, FieldTypes
<1>8. ch # None /\ None # "take_profit" BY <1>3 DEF Channels, StopChannels, None
<1>9. ch = "take_profit" => Locked(l) BY DEF Tracked, Raised
<1>10. Remaining(state, l, r) = state.shares[l] - r BY DEF Remaining
<1>11. ~Locked(l) /\ l \notin b.settled => b.pending[l] # None
  BY <1>4, <1>6, <1>8, <1>9, <1>10 DEF PendingAfter
<1>12. b.pending[l] = "take_profit" => Locked(l)
  BY <1>6, <1>8, <1>9 DEF PendingAfter
<1>13. state.recorded \subseteq Legs BY <1>2, FieldTypes
<1> HIDE DEF b, l, ch
<1>14. Kept(b)
  <2> SUFFICES ASSUME NEW m \in b.recorded, ~Locked(m), b.credited[m] > 0, m \notin b.settled
               PROVE  b.pending[m] # None
    BY DEF Kept
  <2>1. m \in Legs /\ m \in state.recorded /\ m \notin state.settled BY <1>6, <1>13
  <2> QED BY <1>6, <1>7, <1>11, <2>1 DEF Tracked, Kept
<1>15. Owned(b) BY <1>6, <1>12 DEF Tracked, Owned
<1>16. Raised' BY <1>1 DEF Tracked, Raised, NoJob, None
<1> QED BY <1>1, <1>14, <1>15, <1>16 DEF Tracked, b, l, ch

LEMMA ConcludeTracks == ASSUME IInv, Tracked, Conclude PROVE Tracked'
<1>1. /\ UNCHANGED <<disk, work, job>> /\ channel' = None /\ state' = Concluded(state)
  BY DEF Conclude
<1>2. TypeOK /\ Bought /\ Sound(state) BY DEF IInv
<1> DEFINE c == Concluded(state)
<1>3. /\ c.pending = state.pending /\ c.credited = state.credited /\ c.settled = state.settled
      /\ c.recorded \in {state.recorded, state.recorded \cup {merging.leg}}
      /\ merging # Nothing \/ c.recorded = state.recorded
  BY <1>2, ConcludedFacts
<1>4. merging # Nothing => state.credited[merging.leg] = 0
  BY <1>2 DEF Bought, Sound
<1> HIDE DEF c
<1>5. Kept(c) BY <1>3, <1>4 DEF Tracked, Kept
<1>6. Owned(c) BY <1>3 DEF Tracked, Owned
<1>7. Raised' BY <1>1 DEF Tracked, Raised, None
<1> QED BY <1>1, <1>5, <1>6, <1>7 DEF Tracked, c

LEMMA SettleTracks == ASSUME IInv, Tracked, Settle PROVE Tracked'
<1>1. UNCHANGED <<disk, channel, work, job>> BY DEF Settle
<1>2. state \in LedgerType /\ state.recorded \subseteq Legs BY FieldTypes DEF IInv, TypeOK
<1>a. PICK done \in SUBSET Legs : \E won \in SUBSET done : state' = Resolved(state, done, won)
  BY <1>2 DEF Settle
<1>3. PICK won \in SUBSET done : state' = Resolved(state, done, won)
  BY <1>a
<1> DEFINE e == Resolved(state, done, won)
<1>4. ResolvedFrom(e, state, done, won) BY <1>2, ResolvedFacts
<1>5. /\ e.recorded = state.recorded /\ e.pending = state.pending
      /\ e.settled = state.settled \cup done
      /\ \A l \in Legs : l \notin done => e.credited[l] = state.credited[l]
  BY <1>4 DEF ResolvedFrom
<1> HIDE DEF e
<1>6. Kept(e) BY <1>2, <1>5 DEF Tracked, Kept
<1>7. Owned(e) BY <1>5 DEF Tracked, Owned
<1>8. Raised' BY <1>1 DEF Tracked, Raised
<1> QED BY <1>1, <1>3, <1>6, <1>7, <1>8 DEF Tracked, e

LEMMA RefireTracks ==
    ASSUME IInv, Tracked, NEW l \in Legs, NEW n \in Lots, Refire(l, n)
    PROVE  Tracked'
<1>1. /\ UNCHANGED <<disk, job>> /\ channel' = "refire_liq"
      /\ state' = [state EXCEPT !.refired = @ \cup {cur}]
  BY DEF Refire, Raise
<1>2. state \in LedgerType BY DEF IInv, TypeOK
<1>3. /\ state'.recorded = state.recorded /\ state'.credited = state.credited
      /\ state'.settled = state.settled /\ state'.pending = state.pending
  BY <1>1, <1>2 DEF LedgerType
<1>4. Kept(state') /\ Owned(state') BY <1>3, SameTrack DEF Tracked
<1>5. Raised' BY <1>1 DEF Tracked, Raised
<1> QED BY <1>1, <1>4, <1>5 DEF Tracked

LEMMA SaveTracks == ASSUME Tracked, Save PROVE Tracked'
<1>1. UNCHANGED <<state, channel, work, job>> /\ disk' = state BY DEF Save
<1>2. Raised' BY <1>1 DEF Tracked, Raised
<1> QED BY <1>1, <1>2 DEF Tracked

(* Whatever ends a cycle early leaves no attempt behind, and the books or the file's.       *)
LEMMA OutsideTracks ==
    ASSUME Tracked, AuditFails \/ CycleError \/ Crash \/ (\E l \in Legs : RestingFills(l)) \/ UNCHANGED vars
    PROVE  Tracked'
<1>1. UNCHANGED disk /\ state' \in {state, disk}
  BY DEF AuditFails, CycleError, Crash, RestingFills, vars
<1>2. \/ job' = NoJob /\ channel' = None
      \/ job' = NoJob /\ UNCHANGED <<channel, work>>
      \/ UNCHANGED <<job, channel, work>>
  BY DEF AuditFails, CycleError, Crash, RestingFills, vars, engine, Abandon
<1>3. Raised' BY <1>2 DEF Tracked, Raised, NoJob, None
<1> QED BY <1>1, <1>3 DEF Tracked

LEMMA TrackedKept == IInv /\ Tracked /\ [Next]_vars => Tracked'
<1> SUFFICES ASSUME IInv, Tracked, [Next]_vars PROVE Tracked'
  OBVIOUS
<1>1. CASE BookFill \/ LoseReport
  <2>1. job \in JobType BY DEF IInv, TypeOK
  <2>2. \E r \in Nat : Book(r) BY <1>1, <2>1 DEF BookFill, LoseReport, JobType
  <2> QED BY <2>2, BookTracks
<1>2. CASE Conclude BY <1>2, ConcludeTracks
<1>3. CASE Settle BY <1>3, SettleTracks
<1>4. CASE Save BY <1>4, SaveTracks
<1>5. CASE \E l \in Legs : Decide(l) \/ DropPending(l) BY <1>5, DecideTracks, DropPendingTracks
<1>6. CASE \E l \in Legs, n \in Lots : Refire(l, n) BY <1>6, RefireTracks
<1>7. CASE AuditFails \/ CycleError \/ Crash \/ (\E l \in Legs : RestingFills(l)) \/ UNCHANGED vars
  BY <1>7, OutsideTracks
<1> QED BY <1>1, <1>2, <1>3, <1>4, <1>5, <1>6, <1>7, EngineTracks
        DEF Next, Engine, Environment, Fault

(* What a stop exit outside the consensus lane leaves unsold stays registered, through lost *)
(* reports, the sweep, a refire's merge, settlement, crashes and restarts.                  *)
THEOREM RemaindersTracked == Spec => []RemainderTracked
<1>1. IInv /\ Tracked => RemainderTracked
  BY DEF Tracked, Kept, Locked, RemainderTracked
<1> QED
  BY <1>1, Invariant, TrackedInit, TrackedKept, PTL DEF Spec
=============================================================================
