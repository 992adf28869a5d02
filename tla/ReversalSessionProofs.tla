------------------------ MODULE ReversalSessionProofs ------------------------
(***************************************************************************)
(* Proofs about ReversalSession, for any sessions, temperatures, curves,   *)
(* capital, bounds and up to two fires.                                    *)
(*                                                                         *)
(* The invariant grows in layers, each proved to be kept under the ones    *)
(* before it: Typed (types, the clock, the fire in flight), Marked (what a *)
(* fired mark says of the row, the extreme and the records), Travelled     *)
(* (what the legs and the history of the fires say of each other), Tidy    *)
(* (what tells the legs of a row apart, and what they have brought) and    *)
(* Explained (the ledger).                                                 *)
(***************************************************************************)
EXTENDS ReversalSession, FiniteSums, TLAPS

-----------------------------------------------------------------------------
(* Types. *)
Marks    == {NoMark, Lock} \cup 1..MaxFires
LegRec   == [fire : 0..MaxFires, outcome : {"YES", "NO"}, bucket : Buckets,
             shares : Nat, cost : Nat, payout : Nat, status : {"open", "settled"}]
LegSets  == {L \in SUBSET LegRec : IsFiniteSet(L)}
RowRec   == [legs : LegSets, settled : BOOLEAN]
ShotRec  == [obs : Nat, new : Buckets]
Statuses == {"none", "open", "no_fill", "no_position", "no_leg", "validated"}
Dict == [armed : SUBSET Sessions, ever : SUBSET Sessions,
         fired : [Sessions -> Marks], extreme : [Sessions -> Temps \cup {Unknown}],
         lastObs : [Sessions -> Nat], fireObs : [Sessions -> Nat],
         sleeves : [Sessions -> Statuses], rows : [Keys -> RowRec], debit : Int,
         shots : [Sessions -> Seq(ShotRec)], entries : [Sessions -> Nat], gone : Int]
Stages == {"idle", "rules", "fire", "settle", "save"}

(* The environment, and the report each session has in this cycle. *)
WorldTyped ==
    /\ now \in Nat /\ universe \subseteq Sessions /\ dropped \subseteq Sessions
    /\ direction \in [Sessions -> {"high", "low"}]
    /\ curve \in [Sessions -> Seq(Temps)]
    /\ feed \in [Sessions -> Nat]
    /\ \A s \in Sessions : feed[s] # 0 => feed[s] \in DOMAIN curve[s]
    /\ winner \in [Sessions -> Buckets \cup {Unknown}]
    /\ \A s \in Sessions : winner[s] # Unknown => ~Today

(* The loop: rules are visited and fires placed on the market day alone. *)
CycleTyped ==
    /\ stage \in Stages /\ todo \subseteq universe
    /\ stage \in {"idle", "settle", "save"} => todo = {}
    /\ todo # {} \/ stage = "fire" => Today
    /\ stage # "fire" => fire = NoFire
    /\ stage = "fire" => /\ fire.s \in Sessions /\ fire.no \in 1..MaxFires
                         /\ fire.broken \in Buckets /\ fire.new \in Buckets

Typed == WorldTyped /\ CycleTyped /\ state \in Dict /\ disk \in Dict

-----------------------------------------------------------------------------
(* Temperatures, buckets and the running extreme. *)
LEMMA BucketIn == ASSUME NEW t \in Temps PROVE Bucket(t) \in Buckets
BY DEF Bucket, Buckets

LEMMA BucketsInt == Buckets \subseteq Nat
<1>1. ASSUME NEW t \in Temps PROVE t \div Width \in Nat
  <2>1. t \in Nat /\ Width \in Nat /\ Width > 0 BY ConstantsAssumption
  <2> QED BY <2>1
<1> QED BY <1>1 DEF Buckets, Bucket

LEMMA UnknownApart == Unknown \notin Temps /\ Unknown \notin Buckets /\ Unknown \in Int
BY BucketsInt, ConstantsAssumption DEF Unknown

LEMMA RunningIn ==
    ASSUME WorldTyped, state \in Dict, NEW s \in Sessions, feed[s] # 0
    PROVE  Running(s) \in Temps
<1>1. curve[s] \in Seq(Temps) /\ feed[s] \in DOMAIN curve[s] BY DEF WorldTyped
<1>2. curve[s][feed[s]] \in Temps BY <1>1
<1>3. state.extreme[s] \in Temps \cup {Unknown} BY DEF Dict
<1> QED BY <1>2, <1>3 DEF Running, Further, Lesser

LEMMA ReferenceIn ==
    ASSUME NEW ref \in References PROVE ref.bucket \in Buckets
BY BucketIn DEF References

LEMMA SeenIn ==
    ASSUME WorldTyped, state \in Dict, NEW s \in Sessions, feed[s] # 0
    PROVE  Seen(s) \in Dict
<1>1. Running(s) \in Temps BY RunningIn
<1>2. feed[s] \in Nat BY DEF WorldTyped
<1> QED BY <1>1, <1>2 DEF Seen, Dict

LEMMA KeysIn == ASSUME NEW s \in Sessions
                PROVE  /\ Main(s) \in Keys /\ Sleeve(s) \in Keys
                       /\ \A t \in Sessions : /\ Main(s) # Sleeve(t)
                                              /\ (Main(s) = Main(t) => s = t)
                                              /\ (Sleeve(s) = Sleeve(t) => s = t)
BY DEF Keys, Main, Sleeve

LEMMA NewLegIn ==
    ASSUME NEW f \in 0..MaxFires, NEW outcome \in {"YES", "NO"}, NEW b \in Buckets,
           NEW fill \in Fills
    PROVE  NewLeg(f, outcome, b, fill) \in LegRec
BY DEF NewLeg, LegRec, Fills, Filled, Unfilled

LEMMA ClosedIn == ASSUME NEW l \in LegRec, NEW amount \in Nat
                  PROVE  Closed(l, amount) \in LegRec
BY DEF Closed, LegRec

(* A mark is one of at most four. *)
LEMMA MarksAre == /\ Marks \subseteq {NoMark, Lock, 1, 2}
                  /\ NoMark \notin 1..MaxFires /\ Lock \notin 1..MaxFires
                  /\ NoMark # Lock
                  /\ NoMark \in Marks /\ Lock \in Marks
BY ConstantsAssumption DEF Marks, NoMark, Lock

(* A fire is the first or the second, and leaves its number as the mark. *)
LEMMA NextMarkIn ==
    ASSUME state \in Dict, NEW s \in Sessions, ~Spent(s)
    PROVE  /\ NextMark(s) \in 1..MaxFires
           /\ NextMark(s) = FiresUsed(s) + 1 /\ FiresUsed(s) \in {0, 1}
<1>1. state.fired[s] \in Marks BY DEF Dict
<1> QED BY <1>1, MarksAre, ConstantsAssumption
        DEF Spent, FiresUsed, NextMark, Lesser, NoMark, Lock, Marks

-----------------------------------------------------------------------------
(* Typed is kept. *)
LEMMA TypedInit == Init => Typed
<1> SUFFICES ASSUME Init PROVE Typed OBVIOUS
<1>1. curve \in [Sessions -> Seq(Temps)]
  BY ConstantsAssumption DEF Init
<1>2. state \in Dict
  <2>1. \A k \in Keys : [k2 \in Keys |-> NoRow][k] \in RowRec
    BY FS_EmptySet DEF NoRow, RowRec, LegSets
  <2>2. <<>> \in Seq(ShotRec) OBVIOUS
  <2> QED BY <2>1, <2>2, MarksAre, UnknownApart DEF Init, Dict, Statuses
<1>3. disk \in Dict BY <1>2 DEF Init
<1> QED BY <1>1, <1>2, <1>3 DEF Init, Typed, WorldTyped, CycleTyped, Unseen, Stages, Today

LEMMA TypedSame ==
    ASSUME Typed, UNCHANGED vars PROVE Typed'
BY DEF Typed, WorldTyped, CycleTyped, vars, Today

LEMMA TypedEnvironment ==
    ASSUME Typed,
           \/ Hour \/ Save \/ CycleError \/ Crash
           \/ \E s \in Sessions : Resolve(s) \/ LeaveRegistry(s) \/ RejoinRegistry(s)
    PROVE  Typed'
<1>1. CASE Hour BY <1>1 DEF Hour, Typed, WorldTyped, CycleTyped, Today, LastHour
<1>2. CASE Save BY <1>2 DEF Save, Typed, WorldTyped, CycleTyped, Today, Stages
<1>3. CASE CycleError
  BY <1>3 DEF CycleError, Fault, Typed, WorldTyped, CycleTyped, Today, Stages, Unseen
<1>4. CASE Crash
  BY <1>4 DEF Crash, Fault, Typed, WorldTyped, CycleTyped, Today, Stages, Unseen
<1>5. ASSUME NEW s \in Sessions, Resolve(s) PROVE Typed'
  <2>1. winner' \in [Sessions -> Buckets \cup {Unknown}]
    BY <1>5 DEF Resolve, Typed, WorldTyped
  <2> QED BY <1>5, <2>1 DEF Resolve, Typed, WorldTyped, CycleTyped, Today
<1>6. ASSUME NEW s \in Sessions, LeaveRegistry(s) PROVE Typed'
  BY <1>6 DEF LeaveRegistry, Fault, Typed, WorldTyped, CycleTyped, Today
<1>7. ASSUME NEW s \in Sessions, RejoinRegistry(s) PROVE Typed'
  BY <1>7 DEF RejoinRegistry, Typed, WorldTyped, CycleTyped, Today
<1> QED BY <1>1, <1>2, <1>3, <1>4, <1>5, <1>6, <1>7

LEMMA TypedBegin == ASSUME Typed, BeginCycle PROVE Typed'
<1> USE DEF BeginCycle
<1>1. Pruned \in Dict BY MarksAre, UnknownApart DEF Typed, Pruned, Dict
<1>2. feed' \in [Sessions -> Nat]
         /\ \A s \in Sessions : feed'[s] # 0 => feed'[s] \in DOMAIN curve[s]
  <2>1. \A s \in Sessions : DOMAIN curve[s] \subseteq Nat
    BY DEF Typed, WorldTyped
  <2>2. \A s \in Sessions : feed'[s] \in {0} \cup DOMAIN curve[s] OBVIOUS
  <2>3. DOMAIN feed' = Sessions /\ feed' = [s \in Sessions |-> feed'[s]] OBVIOUS
  <2> QED BY <2>1, <2>2, <2>3
<1>3. WorldTyped' BY <1>2 DEF Typed, WorldTyped, Today
<1>4. CycleTyped' BY DEF Typed, WorldTyped, CycleTyped, Today, Stages
<1> QED BY <1>1, <1>3, <1>4 DEF Typed

(* A visit leaves the world as it is, and keeps to the rules unless it fires. *)
LEMMA TypedVisit ==
    ASSUME Typed, NEW s \in Sessions, Visit(s), stage' = stage, fire' = fire, state' \in Dict
    PROVE  Typed'
BY DEF Visit, Typed, WorldTyped, CycleTyped, Today, Stages

LEMMA TypedRule ==
    ASSUME Typed, NEW s \in Sessions,
           \/ Skip(s) \/ LockOpenRow(s) \/ NoReference(s) \/ Ignore(s) \/ Arm(s) \/ Disarm(s)
           \/ Misfire(s)
    PROVE  Typed'
<1>0. state \in Dict /\ WorldTyped BY DEF Typed
<1>1. CASE Skip(s) BY <1>0, <1>1, TypedVisit DEF Skip
<1>2. CASE LockOpenRow(s)
  <2>1. state' \in Dict BY <1>0, <1>2, MarksAre DEF LockOpenRow, Dict
  <2> QED BY <1>2, <2>1, TypedVisit DEF LockOpenRow
<1>3. CASE NoReference(s) \/ Ignore(s)
  <2>1. state' \in Dict BY <1>0, <1>3, SeenIn DEF NoReference, Ignore, Consumes
  <2> QED BY <1>3, <2>1, TypedVisit DEF NoReference, Ignore
<1>4. CASE Arm(s)
  <2>1. Seen(s) \in Dict BY <1>0, <1>4, SeenIn DEF Arm, Consumes
  <2>2. state' \in Dict BY <1>4, <2>1 DEF Arm, Dict
  <2> QED BY <1>4, <2>2, TypedVisit DEF Arm
<1>5. CASE Disarm(s)
  <2>1. Seen(s) \in Dict BY <1>0, <1>5, SeenIn DEF Disarm, Consumes
  <2>2. state' \in Dict BY <1>5, <2>1 DEF Disarm, Dict
  <2> QED BY <1>5, <2>2, TypedVisit DEF Disarm
<1>6. CASE Misfire(s)
  <2>1. Seen(s) \in Dict BY <1>0, <1>6, SeenIn DEF Misfire, Consumes
  <2>2. LockMark(s) \in Marks BY <1>0, MarksAre DEF LockMark, Dict
  <2>3. state' \in Dict BY <1>6, <2>1, <2>2 DEF Misfire, Dict
  <2> QED BY <1>6, <2>3, TypedVisit DEF Misfire
<1> QED BY <1>1, <1>2, <1>3, <1>4, <1>5, <1>6

LEMMA TypedFire == ASSUME Typed, NEW s \in Sessions, Fire(s) PROVE Typed'
<1>0. state \in Dict /\ WorldTyped BY DEF Typed
<1>1. feed[s] # 0 /\ ~Spent(s) BY DEF Fire, Consumes
<1>2. Seen(s) \in Dict /\ Running(s) \in Temps BY <1>0, <1>1, SeenIn, RunningIn
<1>3. NextMark(s) \in 1..MaxFires BY <1>0, <1>1, NextMarkIn
<1>4. PICK ref \in References :
          /\ fire' = [s |-> s, no |-> NextMark(s), broken |-> ref.bucket,
                      new |-> Bucket(Running(s))]
          /\ state' = [Seen(s) EXCEPT
                 !.fired[s] = NextMark(s), !.armed = @ \ {s}, !.ever = @ \cup {s},
                 !.fireObs[s] = feed[s],
                 !.shots[s] = Append(@, [obs |-> feed[s], new |-> Bucket(Running(s))])]
  BY DEF Fire
<1>5. ref.bucket \in Buckets /\ Bucket(Running(s)) \in Buckets /\ feed[s] \in Nat
  BY <1>0, <1>2, ReferenceIn, BucketIn DEF WorldTyped
<1>6. state' \in Dict
  <2> DEFINE shot == [obs |-> feed[s], new |-> Bucket(Running(s))]
  <2>1. shot \in ShotRec BY <1>5 DEF ShotRec
  <2>2. Append(Seen(s).shots[s], shot) \in Seq(ShotRec)
    <3>1. Seen(s).shots[s] \in Seq(ShotRec) BY <1>2 DEF Dict
    <3> HIDE DEF shot
    <3> QED BY <2>1, <3>1
  <2>3. NextMark(s) \in Marks BY <1>3 DEF Marks
  <2>4. state' = [Seen(s) EXCEPT
                 !.fired[s] = NextMark(s), !.armed = @ \ {s}, !.ever = @ \cup {s},
                 !.fireObs[s] = feed[s],
                 !.shots[s] = Append(@, shot)]
    BY <1>4
  <2> HIDE DEF shot
  <2> QED BY <1>2, <1>5, <2>2, <2>3, <2>4 DEF Dict
<1>7. WorldTyped' BY <1>0 DEF Fire, Visit, WorldTyped, Today
<1>8. CycleTyped'
  <2>1. stage' = "fire" /\ todo' \subseteq todo /\ universe' = universe /\ Today'
    BY DEF Fire, Visit, Typed, CycleTyped, Today
  <2>2. fire'.s = s /\ fire'.no = NextMark(s) /\ fire'.broken = ref.bucket
          /\ fire'.new = Bucket(Running(s))
    BY <1>4
  <2>3. todo \subseteq universe BY DEF Typed, CycleTyped
  <2> QED BY <1>3, <1>5, <2>1, <2>2, <2>3 DEF CycleTyped, Stages
<1>9. disk' \in Dict BY DEF Fire, Visit, Typed
<1> QED BY <1>6, <1>7, <1>8, <1>9 DEF Typed

-----------------------------------------------------------------------------
(* Rows, and what their legs cost and are paid. *)
LEMMA FiniteKeys == IsFiniteSet(Keys)
<1>1. IsFiniteSet({"main", "sleeve"})
  <2>1. IsFiniteSet({"main"}) BY FS_Singleton
  <2>2. IsFiniteSet({"main"} \cup {"sleeve"}) BY <2>1, FS_AddElement
  <2> QED BY <2>2
<1>2. IsFiniteSet(Sessions \X {"main", "sleeve"}) BY <1>1, ConstantsAssumption, FS_Product
<1>3. Keys = Sessions \X {"main", "sleeve"} BY DEF Keys
<1> QED BY <1>2, <1>3

LEMMA CostInt == ASSUME NEW legs \in LegSets PROVE Cost(legs) \in Int
<1> DEFINE f == [l \in legs |-> l.cost - l.payout]
<1>1. \A l \in legs : f[l] \in Int BY DEF LegSets, LegRec
<1>2. IsFiniteSet(legs) BY DEF LegSets
<1> HIDE DEF f
<1>3. SumFunctionOnSet(f, legs) \in Int BY <1>1, <1>2, SumInt
<1> QED BY <1>3 DEF Cost, f

LEMMA PayoutIn == ASSUME NEW l \in LegRec, NEW s PROVE Payout(l, s) \in Nat
BY DEF Payout, LegRec

LEMMA PaidNat == ASSUME NEW k, NEW legs, legs \in LegSets PROVE Paid(k, legs) \in Nat
<1> DEFINE due == {l \in legs : OpenLeg(l)}
           f == [l \in due |-> Payout(l, k[1])]
<1>1. \A l \in due : f[l] \in Nat BY PayoutIn DEF LegSets
<1>2. IsFiniteSet(due) BY FS_Subset DEF LegSets
<1>3. Paid(k, legs) = SumFunctionOnSet(f, due) BY DEF Paid
<1> HIDE DEF f, due
<1> QED BY <1>1, <1>2, <1>3, SumNat

LEMMA RowIn == ASSUME NEW legs \in LegSets PROVE Row(legs) \in RowRec
BY DEF Row, RowRec

LEMMA OneLegIn == ASSUME NEW l \in LegRec PROVE {l} \in LegSets
BY FS_Singleton DEF LegSets

LEMMA FireLegsIn ==
    ASSUME fire.no \in 1..MaxFires, fire.broken \in Buckets, fire.new \in Buckets,
           NEW f1 \in Fills, NEW f2 \in Fills
    PROVE  /\ FireLegs(f1, f2) \in LegSets
           /\ WithShares(FireLegs(f1, f2)) \in LegSets
<1>1. fire.no \in 0..MaxFires BY ConstantsAssumption
<1> DEFINE a == NewLeg(fire.no, "NO", fire.broken, f1)  b == NewLeg(fire.no, "YES", fire.new, f2)
<1>2. a \in LegRec /\ b \in LegRec BY <1>1, NewLegIn
<1>3. FireLegs(f1, f2) = {a, b} BY DEF FireLegs
<1> HIDE DEF a, b
<1>4. IsFiniteSet({a, b})
  <2>1. IsFiniteSet({a}) BY FS_Singleton
  <2>2. IsFiniteSet({a} \cup {b}) BY <2>1, FS_AddElement
  <2> QED BY <2>2
<1>5. FireLegs(f1, f2) \in LegSets BY <1>2, <1>3, <1>4 DEF LegSets
<1> QED BY <1>5, FS_Subset DEF WithShares, LegSets

LEMMA UnionIn == ASSUME NEW a \in LegSets, NEW b \in LegSets
                 PROVE  a \cup b \in LegSets /\ \A x : a \ {x} \in LegSets
<1>1. IsFiniteSet(a \cup b) BY FS_Union DEF LegSets
<1>2. \A x : IsFiniteSet(a \ {x}) BY FS_Subset DEF LegSets
<1> QED BY <1>1, <1>2 DEF LegSets

LEMMA RowsIn == ASSUME NEW st \in Dict, NEW k \in Keys
                PROVE  st.rows[k] \in RowRec /\ st.rows[k].legs \in LegSets
BY DEF Dict, RowRec

(* The leg a second fire sells: an open YES leg of the row. *)
LEMMA FirstYesIn == ASSUME NEW s, YesHeld(s) # {},
                           \A l \in YesHeld(s) : l \in LegRec
                    PROVE  /\ FirstYes(s) \in YesHeld(s)
                           /\ \A m \in YesHeld(s) : FirstYes(s).fire <= m.fire
<1> SUFFICES \E l \in YesHeld(s) : \A m \in YesHeld(s) : l.fire <= m.fire
  BY DEF FirstYes
<1>1. \A l \in YesHeld(s) : l.fire \in {0, 1, 2} BY ConstantsAssumption DEF LegRec
<1>2. CASE \E l \in YesHeld(s) : l.fire = 0 BY <1>1, <1>2
<1>3. CASE ~(\E l \in YesHeld(s) : l.fire = 0) /\ \E l \in YesHeld(s) : l.fire = 1
  BY <1>1, <1>3
<1>4. CASE ~(\E l \in YesHeld(s) : l.fire = 0) /\ ~(\E l \in YesHeld(s) : l.fire = 1)
  BY <1>1, <1>4
<1> QED BY <1>2, <1>3, <1>4

(* What a cycle does beside the visits: the world stays, and the dict stays a dict. *)
LEMMA TypedBeside ==
    ASSUME Typed, state' \in Dict, todo' = todo,
           feed' \in {feed, Unseen},
           stage' \in Stages \ {"fire"}, fire' = NoFire,
           stage' \in {"idle", "settle", "save"} => todo = {},
           UNCHANGED <<now, universe, direction, curve, winner, disk, dropped>>
    PROVE  Typed'
BY DEF Typed, WorldTyped, CycleTyped, Today, Stages, Unseen

LEMMA TypedEnterSleeve ==
    ASSUME Typed, NEW s \in Sessions, EnterSleeve(s) PROVE Typed'
<1>1. PICK b \in SleeveBuckets, fill \in Fills :
          LET funded == fill.cost = 0 \/ Affords(fill.cost) IN
          state' = [state EXCEPT
              !.sleeves[s] = SleeveStatus(funded),
              !.entries[s] = @ + (IF funded THEN 1 ELSE 0),
              !.gone = @ + (IF funded THEN Cost(state.rows[Sleeve(s)].legs) ELSE 0),
              !.debit = @ + (IF funded THEN fill.cost ELSE 0),
              !.rows[Sleeve(s)] = IF funded THEN Row({NewLeg(0, "YES", b, fill)}) ELSE @]
  BY DEF EnterSleeve
<1> DEFINE funded == fill.cost = 0 \/ Affords(fill.cost)
           status == SleeveStatus(funded)
           more == state.entries[s] + (IF funded THEN 1 ELSE 0)
           lost == state.gone + (IF funded THEN Cost(state.rows[Sleeve(s)].legs) ELSE 0)
           paid == state.debit + (IF funded THEN fill.cost ELSE 0)
           row == IF funded THEN Row({NewLeg(0, "YES", b, fill)}) ELSE state.rows[Sleeve(s)]
<1>2. b \in Buckets /\ fill.cost \in Nat
  BY ConstantsAssumption DEF Buckets, Bucket, Fills, Filled, Unfilled
<1>3. state \in Dict /\ Sleeve(s) \in Keys /\ 0 \in 0..MaxFires
  BY KeysIn, ConstantsAssumption DEF Typed
<1>4. row \in RowRec /\ Cost(state.rows[Sleeve(s)].legs) \in Int
  BY <1>2, <1>3, RowsIn, NewLegIn, OneLegIn, RowIn, CostInt
<1>5. status \in Statuses BY DEF SleeveStatus, Statuses
<1>6. more \in Nat /\ lost \in Int /\ paid \in Int
  <2>1. state.entries[s] \in Nat /\ state.gone \in Int /\ state.debit \in Int BY <1>3 DEF Dict
  <2> QED BY <2>1, <1>2, <1>4
<1>7. state' = [state EXCEPT
              !.sleeves[s] = status, !.entries[s] = more, !.gone = lost,
              !.debit = paid, !.rows[Sleeve(s)] = row]
  BY <1>1
<1> HIDE DEF funded, status, more, lost, paid, row
<1>8. state' \in Dict BY <1>3, <1>4, <1>5, <1>6, <1>7 DEF Dict
<1>9. stage = "rules" /\ fire = NoFire /\ todo # {}
  BY DEF EnterSleeve, Typed, CycleTyped
<1> QED BY <1>8, <1>9, TypedBeside DEF EnterSleeve, Stages

LEMMA TypedFills ==
    ASSUME Typed, StandDown \/ FirstFire \/ SecondFire PROVE Typed'
<1>1. CASE StandDown
  BY <1>1, TypedBeside DEF StandDown, Stages, Typed
<1>2. CASE FirstFire
  <2>1. PICK f1 \in Fills, f2 \in Fills :
          state' = [state EXCEPT
                !.debit = @ + f1.cost + f2.cost,
                !.rows[Main(fire.s)] = IF ~@.settled THEN @ ELSE Row(FireLegs(f1, f2))]
    BY <1>2 DEF FirstFire
  <2>2. /\ fire.s \in Sessions /\ fire.no \in 1..MaxFires
        /\ fire.broken \in Buckets /\ fire.new \in Buckets
    BY <1>2 DEF FirstFire, Typed, CycleTyped
  <2> DEFINE k == Main(fire.s)
             row == IF ~state.rows[k].settled THEN state.rows[k] ELSE Row(FireLegs(f1, f2))
             paid == state.debit + f1.cost + f2.cost
  <2>3. k \in Keys /\ state \in Dict BY <2>2, KeysIn DEF Typed
  <2>4. row \in RowRec BY <2>2, <2>3, RowsIn, FireLegsIn, RowIn
  <2>5. paid \in Int BY <2>3 DEF Dict, Fills, Filled, Unfilled
  <2>6. state' = [state EXCEPT !.debit = paid, !.rows[k] = row] BY <2>1
  <2> HIDE DEF k, row, paid
  <2>7. state' \in Dict BY <2>3, <2>4, <2>5, <2>6 DEF Dict
  <2> QED BY <1>2, <2>7, TypedBeside DEF FirstFire, Stages
<1>3. CASE SecondFire
  <2>1. PICK f1 \in Fills, f2 \in Fills, bid \in Bids :
          LET new == WithShares(FireLegs(f1, f2)) IN
          state' = IF new = {} THEN state
                      ELSE [state EXCEPT
                          !.debit = Released(Proceeds(new, bid)) + f1.cost + f2.cost,
                          !.rows[Main(fire.s)] = Merged(@, new, bid)]
    BY <1>3 DEF SecondFire
  <2>2. /\ fire.s \in Sessions /\ fire.no \in 1..MaxFires
        /\ fire.broken \in Buckets /\ fire.new \in Buckets
    BY <1>3 DEF SecondFire, Typed, CycleTyped
  <2> DEFINE k == Main(fire.s)
             new == WithShares(FireLegs(f1, f2))
             row == Merged(state.rows[k], new, bid)
             debit == Released(Proceeds(new, bid)) + f1.cost + f2.cost
  <2>3. k \in Keys /\ state \in Dict BY <2>2, KeysIn DEF Typed
  <2>4. new \in LegSets BY <2>2, FireLegsIn
  <2>5. bid \in Nat BY DEF Bids
  <2>6. row \in RowRec
    <3> DEFINE old == FirstYes(fire.s)
    <3>1. state.rows[k] \in RowRec /\ state.rows[k].legs \in LegSets BY <2>3, RowsIn
    <3>2. state.rows[k].legs \cup new \in LegSets BY <2>4, <3>1, UnionIn
    <3>3. ASSUME YesHeld(fire.s) # {}
          PROVE  (state.rows[k].legs \ {old}) \cup {Closed(old, bid)} \cup new \in LegSets
      <4>1. old \in state.rows[k].legs
        <5>1. \A l \in YesHeld(fire.s) : l \in state.rows[k].legs BY DEF YesHeld
        <5>2. \A l \in YesHeld(fire.s) : l \in LegRec BY <3>1, <5>1 DEF LegSets
        <5> QED BY <3>3, <5>1, <5>2, FirstYesIn
      <4> HIDE DEF old
      <4>2. old \in LegRec BY <3>1, <4>1 DEF LegSets
      <4>3. {Closed(old, bid)} \in LegSets BY <2>5, <4>2, ClosedIn, OneLegIn
      <4>4. state.rows[k].legs \ {old} \in LegSets BY <3>1, UnionIn
      <4>5. (state.rows[k].legs \ {old}) \cup {Closed(old, bid)} \in LegSets
        BY <4>3, <4>4, UnionIn
      <4> QED BY <2>4, <4>5, UnionIn
    <3> HIDE DEF k, new, old
    <3> QED BY <3>1, <3>2, <3>3 DEF row, Merged, RowRec, old
  <2>7. debit \in Int
    BY <2>3, <2>5 DEF Released, Proceeds, Dict, Fills, Filled, Unfilled
  <2>8. state' = IF new = {} THEN state
                 ELSE [state EXCEPT !.debit = debit, !.rows[k] = row]
    BY <2>1
  <2> HIDE DEF k, new, row, debit
  <2>9. state' \in Dict BY <2>3, <2>6, <2>7, <2>8 DEF Dict
  <2> QED BY <1>3, <2>9, TypedBeside DEF SecondFire, Stages
<1> QED BY <1>1, <1>2, <1>3

LEMMA ImageFinite ==
    ASSUME NEW f, NEW S, IsFiniteSet(S) PROVE IsFiniteSet({f[x] : x \in S})
<1> DEFINE g == [x \in S |-> f[x]]  T == {f[x] : x \in S}
<1>1. g \in Surjection(S, T) BY DEF Surjection
<1> QED BY <1>1, FS_Surjection

(* What a leg becomes when its row is sold, or when its bucket's pull shows the winner. *)
LEMMA SoldRowIn ==
    ASSUME NEW s \in Sessions, NEW bid \in Bids, state \in Dict
    PROVE  /\ SoldRow(s, bid) \in RowRec
           /\ [SoldRow(s, bid) EXCEPT !.settled = TRUE] \in RowRec
<1>1. SleeveLegs(s) \in LegSets BY KeysIn, RowsIn DEF SleeveLegs
<1> DEFINE legs == SleeveLegs(s)
           f == [l \in legs |-> Closed(l, IF l.shares > 0 THEN bid ELSE 0)]
           sold == {f[l] : l \in legs}
<1>2. IsFiniteSet(sold) BY <1>1, ImageFinite DEF LegSets
<1>3. \A l \in legs : f[l] \in LegRec
  <2> SUFFICES ASSUME NEW l \in legs PROVE f[l] \in LegRec OBVIOUS
  <2>1. l \in LegRec BY <1>1 DEF LegSets
  <2>2. (IF l.shares > 0 THEN bid ELSE 0) \in Nat BY DEF Bids
  <2> QED BY <2>1, <2>2, ClosedIn
<1>4. sold = {Closed(l, IF l.shares > 0 THEN bid ELSE 0) : l \in legs} OBVIOUS
<1>5. SoldRow(s, bid) = Row(sold) BY <1>4 DEF SoldRow
<1> HIDE DEF f
<1>6. sold \in LegSets BY <1>2, <1>3 DEF LegSets
<1> QED BY <1>5, <1>6, RowIn DEF RowRec

LEMMA ResolvedIn ==
    ASSUME NEW k \in Keys, NEW pulled, state \in Dict
    PROVE  Resolved(k, pulled) \in RowRec
<1>1. state.rows[k] \in RowRec /\ state.rows[k].legs \in LegSets BY RowsIn
<1> DEFINE legs == state.rows[k].legs
           f == [l \in legs |-> IF l.bucket \in pulled[k] THEN Outcome(l, k[1]) ELSE l]
           after == {f[l] : l \in legs}
<1>2. IsFiniteSet(after) BY <1>1, ImageFinite DEF LegSets
<1>3. \A l \in legs : f[l] \in LegRec
  <2> SUFFICES ASSUME NEW l \in legs PROVE f[l] \in LegRec OBVIOUS
  <2>1. l \in LegRec BY <1>1 DEF LegSets
  <2> QED BY <2>1, ClosedIn, PayoutIn DEF Outcome
<1>4. Resolved(k, pulled) = IF ~Ready(k) THEN state.rows[k]
                            ELSE [legs |-> after, settled |-> SettledIf(after)]
  BY DEF Resolved
<1> HIDE DEF f
<1>5. after \in LegSets BY <1>2, <1>3 DEF LegSets
<1>6. SettledIf(after) \in BOOLEAN BY DEF SettledIf
<1> HIDE DEF after
<1> QED BY <1>1, <1>4, <1>5, <1>6 DEF RowRec

LEMMA PulledPaid ==
    ASSUME state \in Dict, NEW pulled
    PROVE  SumFunctionOnSet([k \in Keys |->
                  Paid(k, {l \in state.rows[k].legs : l.bucket \in pulled[k]})], Keys) \in Nat
<1> DEFINE due(k) == {l \in state.rows[k].legs : l.bucket \in pulled[k]}
           f == [k \in Keys |-> Paid(k, due(k))]
<1>1. \A k \in Keys : due(k) \in LegSets BY RowsIn, FS_Subset DEF LegSets
<1>2. \A k \in Keys : f[k] \in Nat BY <1>1, PaidNat
<1> HIDE DEF f
<1>3. SumFunctionOnSet(f, Keys) \in Nat BY <1>2, FiniteKeys, SumNat
<1> QED BY <1>3 DEF f

LEMMA TypedSettle == ASSUME Typed, Settle PROVE Typed'
<1>1. PICK pulled \in [Keys -> SUBSET Buckets] :
          state' = [state EXCEPT
              !.debit = Released(SumFunctionOnSet([k \in Keys |->
                  Paid(k, {l \in state.rows[k].legs : l.bucket \in pulled[k]})], Keys)),
              !.rows = [k \in Keys |-> Resolved(k, pulled)]]
  BY DEF Settle
<1> DEFINE paid == SumFunctionOnSet([k \in Keys |->
                  Paid(k, {l \in state.rows[k].legs : l.bucket \in pulled[k]})], Keys)
           rows == [k \in Keys |-> Resolved(k, pulled)]
<1>2. state \in Dict /\ paid \in Nat BY PulledPaid DEF Typed
<1>3. rows \in [Keys -> RowRec] BY <1>2, ResolvedIn
<1>4. state' = [state EXCEPT !.debit = Released(paid), !.rows = rows] BY <1>1
<1> HIDE DEF paid, rows
<1>5. Released(paid) \in Int BY <1>2 DEF Released, Dict
<1>6. state' \in Dict BY <1>2, <1>3, <1>4, <1>5 DEF Dict
<1> QED BY <1>6, TypedBeside DEF Settle, Stages, Typed, CycleTyped

(* The sleeves a cycle sells are finitely many. *)
LEMMA SoldFinite ==
    ASSUME NEW sold, sold \subseteq Sessions, NEW bid \in Bids
    PROVE  IsFiniteSet(sold) /\ Cardinality(sold) \in Nat /\ bid * Cardinality(sold) \in Nat
<1>1. IsFiniteSet(sold) /\ Cardinality(sold) \in Nat
  BY ConstantsAssumption, FS_Subset, FS_CardinalityType
<1>2. bid = 0 \/ bid = 1 BY DEF Bids
<1> QED BY <1>1, <1>2

LEMMA TypedRetire == ASSUME Typed, RetireSleeves PROVE Typed'
<1>1. PICK old \in SUBSET Sessions, bid \in Bids :
          LET sold == {s \in Sessions : Sells(s, old)}
              settled(s) == ~Open(Sleeve(s)) \/ s \in sold
          IN  state' = [state EXCEPT
                  !.debit = Released(bid * Cardinality(sold)),
                  !.rows = [k \in Keys |-> IF k[2] = "sleeve" /\ k[1] \in sold
                                           THEN [SoldRow(k[1], bid) EXCEPT !.settled = TRUE]
                                           ELSE @[k]],
                  !.sleeves = [s \in Sessions |->
                                  IF Sweepable(AfterTimeout(s, old), settled(s)) THEN "none"
                                  ELSE AfterTimeout(s, old)]]
  BY DEF RetireSleeves
<1> DEFINE sold == {s \in Sessions : Sells(s, old)}
           settled(s) == ~Open(Sleeve(s)) \/ s \in sold
           status(s) == IF Sweepable(AfterTimeout(s, old), settled(s)) THEN "none"
                        ELSE AfterTimeout(s, old)
           sleeves == [s \in Sessions |-> status(s)]
           rows == [k \in Keys |-> IF k[2] = "sleeve" /\ k[1] \in sold
                                   THEN [SoldRow(k[1], bid) EXCEPT !.settled = TRUE]
                                   ELSE state.rows[k]]
           debit == Released(bid * Cardinality(sold))
<1>2. state \in Dict BY DEF Typed
<1>3. \A s \in Sessions : status(s) \in Statuses
  <2> SUFFICES ASSUME NEW s \in Sessions PROVE status(s) \in Statuses OBVIOUS
  <2>1. state.sleeves[s] \in Statuses BY <1>2 DEF Dict
  <2>2. AfterTimeout(s, old) \in Statuses \/ (AfterTimeout(s, old) = "expired" /\ Sells(s, old))
    BY <2>1 DEF AfterTimeout, Statuses
  <2> QED BY <2>2 DEF Sweepable, Statuses
<1>4. \A k \in Keys : rows[k] \in RowRec
  BY <1>2, SoldRowIn, RowsIn
<1>5. state' = [state EXCEPT !.debit = debit, !.rows = rows, !.sleeves = sleeves]
  BY <1>1
<1>6. debit \in Int
  <2>1. sold \subseteq Sessions OBVIOUS
  <2> HIDE DEF sold
  <2>2. bid * Cardinality(sold) \in Nat BY <2>1, SoldFinite
  <2>3. state.debit \in Int BY <1>2 DEF Dict
  <2> QED BY <2>2, <2>3 DEF Released
<1>7. rows \in [Keys -> RowRec] /\ sleeves \in [Sessions -> Statuses] BY <1>3, <1>4
<1> HIDE DEF rows, sleeves, debit
<1>8. state' \in Dict BY <1>2, <1>5, <1>6, <1>7 DEF Dict
<1> QED BY <1>8, TypedBeside DEF RetireSleeves, Stages, Typed, CycleTyped

LEMMA TypedKept == ASSUME Typed, [Next]_vars PROVE Typed'
<1>1. CASE UNCHANGED vars BY <1>1, TypedSame
<1>2. CASE Cycle
  BY <1>2, TypedBegin, TypedFills, TypedRetire, TypedSettle, TypedEnvironment, TypedRule,
     TypedEnterSleeve, TypedFire DEF Cycle
<1>3. CASE Next /\ ~Cycle BY <1>3, TypedEnvironment DEF Next
<1> QED BY <1>1, <1>2, <1>3

(* The state dict, the file, the cycle of runner_impl.py and its fire in flight keep their   *)
(* types, and rules are visited on the market day alone.                                     *)
THEOREM AlwaysTyped == Spec => []Typed
BY TypedInit, TypedKept, PTL DEF Spec

(* TypeOK, the shapes of the dict and of the file (reversal_strategy.py, _r_state.py), is   *)
(* what Typed says of them.                                                                 *)
LEMMA TypedShapes == Typed => TypeOK
<1>1. \A st \in Dict : StateShape(st)
  <2> SUFFICES ASSUME NEW st \in Dict PROVE StateShape(st) OBVIOUS
  <2>1. \A k \in Keys : \A l \in st.rows[k].legs : LegShape(l)
    BY RowsIn DEF LegShape, LegRec, LegSets
  <2>2. st.armed \subseteq Sessions /\ st.ever \subseteq Sessions /\ st.debit \in Int
    BY DEF Dict
  <2>3. ASSUME NEW s \in Sessions
        PROVE  /\ st.fired[s] \in Marks /\ st.extreme[s] \in Temps \cup {Unknown}
               /\ st.lastObs[s] \in Nat /\ st.fireObs[s] \in Nat /\ st.sleeves[s] \in Statuses
    BY DEF Dict
  <2> QED BY <2>1, <2>2, <2>3 DEF StateShape, Marks, Statuses
<1>2. ConstantsAssumption BY ConstantsAssumption
<1> QED BY <1>1, <1>2 DEF Typed, TypeOK, CycleTyped, Stages, NoFire

-----------------------------------------------------------------------------
(* What each step of a cycle changes in the dict. *)

(* A rule that does not fire touches the records of its own session; a mark it sets is a    *)
(* lock on a session that had none, and only a session without a mark is armed.             *)
Rule(s) == \/ Skip(s) \/ LockOpenRow(s) \/ NoReference(s) \/ Ignore(s) \/ Arm(s) \/ Disarm(s)
           \/ Misfire(s)
World == <<now, universe, direction, curve, winner, disk, dropped>>
Ledger(st) == <<st.rows, st.debit, st.gone, st.sleeves, st.entries, st.shots>>

LEMMA RuleChanges ==
    ASSUME Typed, NEW s \in Sessions, Rule(s)
    PROVE  /\ World' = World /\ stage = "rules" /\ stage' = stage
           /\ fire' = fire /\ feed' = feed
           /\ Ledger(state') = Ledger(state) /\ state'.fireObs = state.fireObs
           /\ \A t \in Sessions :
                 \/ state'.fired[t] = state.fired[t]
                 \/ t = s /\ state.fired[s] = NoMark /\ state'.fired[s] = Lock
           /\ \A t \in (state'.armed \cup state'.ever) \ (state.armed \cup state.ever) :
                 t = s /\ state.fired[s] = NoMark /\ ~Open(Main(s))
           /\ \A t \in state'.armed \ state.armed : t = s /\ InWindow(s)
<1>0. state \in Dict BY DEF Typed
<1> USE DEF World, Ledger, Visit
<1>1. CASE Skip(s) BY <1>1 DEF Skip
<1>2. CASE LockOpenRow(s) BY <1>0, <1>2 DEF LockOpenRow, Unlocked, Dict
<1>3. CASE NoReference(s) \/ Ignore(s)
  BY <1>0, <1>3 DEF NoReference, Ignore, Seen, Dict
<1>4. CASE Arm(s)
  <2>1. state.fired[s] \in Marks /\ FiresUsed(s) = 0 /\ ~Unlocked(s) /\ InWindow(s)
    BY <1>0, <1>4 DEF Arm, Consumes, Dict
  <2>2. state.fired[s] = NoMark /\ ~Open(Main(s))
    BY <2>1, MarksAre DEF FiresUsed, Unlocked, NoMark, Lock
  <2> QED BY <1>0, <1>4, <2>1, <2>2 DEF Arm, Seen, Dict
<1>5. CASE Disarm(s) BY <1>0, <1>5 DEF Disarm, Seen, Dict
<1>6. CASE Misfire(s) BY <1>0, <1>6 DEF Misfire, Seen, Dict, LockMark
<1> QED BY <1>1, <1>2, <1>3, <1>4, <1>5, <1>6 DEF Rule

(* A fire takes an armed session from no mark to the first, or from one to the second past *)
(* the open YES leg of its row.                                                             *)
LEMMA FireChanges ==
    ASSUME Typed, NEW s \in Sessions, Fire(s)
    PROVE  /\ World' = World /\ stage = "rules" /\ stage' = "fire" /\ feed' = feed /\ feed[s] # 0
           /\ state'.rows = state.rows /\ state'.debit = state.debit /\ state'.gone = state.gone
           /\ state'.sleeves = state.sleeves
           /\ fire'.s = s /\ fire'.no \in 1..MaxFires /\ fire'.no = FiresUsed(s) + 1
           /\ fire'.new = Bucket(Running(s))
           /\ state'.fired = [state.fired EXCEPT ![s] = fire'.no]
           /\ state'.fireObs = [state.fireObs EXCEPT ![s] = feed[s]]
           /\ state'.shots = [state.shots EXCEPT
                 ![s] = Append(@, [obs |-> feed[s], new |-> Bucket(Running(s))])]
           /\ state'.armed = state.armed \ {s} /\ state'.ever = state.ever \cup {s}
           /\ s \in state.armed \cup state.ever
           /\ state.fireObs[s] # feed[s]
           /\ \/ FiresUsed(s) = 0 /\ state.fired[s] = NoMark /\ ~Open(Main(s))
              \/ FiresUsed(s) = 1 /\ state.fired[s] \in {Lock, 1} /\ Advanced(s)
<1>0. state \in Dict BY DEF Typed
<1>1. ~Spent(s) /\ ~Unlocked(s) /\ ~IsRepeat(s) /\ feed[s] # 0 BY DEF Fire, Consumes
<1>2. NextMark(s) \in 1..MaxFires /\ NextMark(s) = FiresUsed(s) + 1 /\ FiresUsed(s) \in {0, 1}
  BY <1>0, <1>1, NextMarkIn
<1>3. PICK ref \in References :
          /\ Breaks(s, ref) /\ Armed(s)
          /\ fire' = [s |-> s, no |-> NextMark(s), broken |-> ref.bucket,
                      new |-> Bucket(Running(s))]
          /\ state' = [Seen(s) EXCEPT
                 !.fired[s] = NextMark(s), !.armed = @ \ {s}, !.ever = @ \cup {s},
                 !.fireObs[s] = feed[s],
                 !.shots[s] = Append(@, [obs |-> feed[s], new |-> Bucket(Running(s))])]
  BY DEF Fire
<1>4. MayRefire(s) /\ s \in state.armed \cup state.ever BY <1>3 DEF Breaks, Armed
<1>5. \/ FiresUsed(s) = 0 /\ state.fired[s] = NoMark /\ ~Open(Main(s))
      \/ FiresUsed(s) = 1 /\ state.fired[s] \in {Lock, 1} /\ Advanced(s)
  <2>1. state.fired[s] \in Marks BY <1>0 DEF Dict
  <2> QED BY <1>1, <1>2, <1>4, <2>1, MarksAre DEF FiresUsed, Unlocked, MayRefire, NoMark, Lock
<1>6. fire'.s = s /\ fire'.no = NextMark(s) /\ fire'.new = Bucket(Running(s)) BY <1>3
<1>7. /\ state'.rows = state.rows /\ state'.debit = state.debit /\ state'.gone = state.gone
      /\ state'.sleeves = state.sleeves
      /\ state'.fired = [state.fired EXCEPT ![s] = NextMark(s)]
      /\ state'.fireObs = [state.fireObs EXCEPT ![s] = feed[s]]
      /\ state'.shots = [state.shots EXCEPT
                 ![s] = Append(@, [obs |-> feed[s], new |-> Bucket(Running(s))])]
      /\ state'.armed = state.armed \ {s} /\ state'.ever = state.ever \cup {s}
  BY <1>0, <1>3 DEF Seen, Dict
<1>8. World' = World /\ stage = "rules" /\ stage' = "fire" /\ feed' = feed
  BY DEF Fire, Visit, World
<1> QED BY <1>1, <1>2, <1>4, <1>5, <1>6, <1>7, <1>8 DEF IsRepeat

(* The prune, field by field. *)
LEMMA BeginChanges ==
    ASSUME Typed, BeginCycle
    PROVE  /\ now' = now /\ direction' = direction /\ universe' = universe /\ disk' = disk
           /\ winner' = winner /\ curve' = curve
           /\ stage = "idle" /\ stage' = "rules" /\ fire' = fire
           /\ dropped' = dropped \cup {s \in Sessions : Gone(s)}
           /\ Ledger(state') = Ledger(state)
           /\ state'.armed = {s \in state.armed : ~Expired(s) /\ ~Zombie(s)}
           /\ state'.ever = {s \in state.ever : ~Expired(s)}
           /\ \A s \in Sessions :
                 /\ state'.fired[s] = IF Unmarked(s) THEN NoMark ELSE state.fired[s]
                 /\ state'.fireObs[s] = IF Expired(s) THEN 0 ELSE state.fireObs[s]
<1>0. state \in Dict BY DEF Typed
<1>1. state' = Pruned BY DEF BeginCycle
<1>2. Ledger(state') = Ledger(state) BY <1>0, <1>1 DEF Pruned, Dict, Ledger
<1>3. /\ state'.armed = {s \in state.armed : ~Expired(s) /\ ~Zombie(s)}
      /\ state'.ever = {s \in state.ever : ~Expired(s)}
      /\ state'.fired = [s \in Sessions |-> IF Unmarked(s) THEN NoMark ELSE state.fired[s]]
      /\ state'.fireObs = [s \in Sessions |-> IF Expired(s) THEN 0 ELSE state.fireObs[s]]
  BY <1>0, <1>1 DEF Pruned, Dict
<1> QED BY <1>2, <1>3 DEF BeginCycle

(* The fills, the time-outs and the settlement leave the records alone. *)
Records(st) == <<st.armed, st.ever, st.fired, st.extreme, st.lastObs, st.fireObs, st.shots>>

LEMMA EnterChanges ==
    ASSUME Typed, NEW s \in Sessions, EnterSleeve(s)
    PROVE  /\ World' = World /\ stage = "rules" /\ stage' = stage /\ fire' = fire /\ feed' = feed
           /\ Records(state') = Records(state)
           /\ state.sleeves[s] = "none"
           /\ \A t \in Sessions : t # s => state'.sleeves[t] = state.sleeves[t]
           /\ \A k \in Keys : k # Sleeve(s) => state'.rows[k] = state.rows[k]
           /\ \/ /\ state'.rows = state.rows
                 /\ state'.debit = state.debit /\ state'.gone = state.gone
              \/ \E b \in SleeveBuckets, fill \in Fills :
                    /\ fill.cost = 0 \/ Affords(fill.cost)
                    /\ state'.sleeves[s] = "open"
                    /\ state'.rows[Sleeve(s)] = Row({NewLeg(0, "YES", b, fill)})
                    /\ state'.debit = state.debit + fill.cost
                    /\ state'.gone = state.gone + Cost(state.rows[Sleeve(s)].legs)
<1>0. state \in Dict /\ Sleeve(s) \in Keys BY KeysIn DEF Typed
<1>1. PICK b \in SleeveBuckets, fill \in Fills :
          LET funded == fill.cost = 0 \/ Affords(fill.cost) IN
          state' = [state EXCEPT
              !.sleeves[s] = SleeveStatus(funded),
              !.entries[s] = @ + (IF funded THEN 1 ELSE 0),
              !.gone = @ + (IF funded THEN Cost(state.rows[Sleeve(s)].legs) ELSE 0),
              !.debit = @ + (IF funded THEN fill.cost ELSE 0),
              !.rows[Sleeve(s)] = IF funded THEN Row({NewLeg(0, "YES", b, fill)}) ELSE @]
  BY DEF EnterSleeve
<1> DEFINE funded == fill.cost = 0 \/ Affords(fill.cost)
<1>2. /\ Records(state') = Records(state)
      /\ \A t \in Sessions : t # s => state'.sleeves[t] = state.sleeves[t]
      /\ \A k \in Keys : k # Sleeve(s) => state'.rows[k] = state.rows[k]
  BY <1>0, <1>1 DEF Dict, Records
<1>3. CASE funded
  <2>1. /\ state'.sleeves[s] = "open"
        /\ state'.rows[Sleeve(s)] = Row({NewLeg(0, "YES", b, fill)})
        /\ state'.debit = state.debit + fill.cost
        /\ state'.gone = state.gone + Cost(state.rows[Sleeve(s)].legs)
    BY <1>0, <1>1, <1>3 DEF Dict, SleeveStatus
  <2> QED BY <1>2, <1>3, <2>1 DEF EnterSleeve, SleeveAllowed, World
<1>4. CASE ~funded
  <2>1. state.debit + 0 = state.debit /\ state.gone + 0 = state.gone BY <1>0 DEF Dict
  <2>2. state'.rows = state.rows /\ state'.debit = state.debit /\ state'.gone = state.gone
    BY <1>0, <1>1, <1>4, <2>1 DEF Dict
  <2> QED BY <1>2, <2>2 DEF EnterSleeve, SleeveAllowed, World
<1> QED BY <1>3, <1>4

LEMMA FirstFireChanges ==
    ASSUME Typed, FirstFire
    PROVE  /\ World' = World /\ stage = "fire" /\ stage' = "rules" /\ fire.no = 1 /\ feed' = feed
           /\ fire.s \in Sessions
           /\ Records(state') = Records(state) /\ state'.sleeves = state.sleeves
           /\ state'.gone = state.gone
           /\ \E f1, f2 \in Fills :
                 /\ Affords(f1.cost + f2.cost)
                 /\ state'.debit = state.debit + f1.cost + f2.cost
                 /\ \A k \in Keys :
                       state'.rows[k] = IF k = Main(fire.s) /\ ~Open(k) THEN Row(FireLegs(f1, f2))
                                        ELSE state.rows[k]
<1>1. fire.s \in Sessions BY DEF FirstFire, Typed, CycleTyped
<1>2. state \in Dict /\ Main(fire.s) \in Keys BY <1>1, KeysIn DEF Typed
<1>3. PICK f1 \in Fills, f2 \in Fills :
          /\ Affords(f1.cost + f2.cost)
          /\ state' = [state EXCEPT
                !.debit = @ + f1.cost + f2.cost,
                !.rows[Main(fire.s)] = IF ~@.settled THEN @ ELSE Row(FireLegs(f1, f2))]
  BY DEF FirstFire
<1>4. /\ Records(state') = Records(state) /\ state'.sleeves = state.sleeves
      /\ state'.gone = state.gone /\ state'.debit = state.debit + f1.cost + f2.cost
      /\ state'.rows = [state.rows EXCEPT
            ![Main(fire.s)] = IF ~@.settled THEN @ ELSE Row(FireLegs(f1, f2))]
  BY <1>2, <1>3 DEF Dict, Records
<1>5. \A k \in Keys :
          state'.rows[k] = IF k = Main(fire.s) /\ ~Open(k) THEN Row(FireLegs(f1, f2))
                           ELSE state.rows[k]
  BY <1>2, <1>4 DEF Dict, Open
<1> QED BY <1>1, <1>3, <1>4, <1>5 DEF FirstFire, World

LEMMA SecondFireChanges ==
    ASSUME Typed, SecondFire
    PROVE  /\ World' = World /\ stage = "fire" /\ stage' = "rules" /\ fire.no = 2 /\ feed' = feed
           /\ fire.s \in Sessions
           /\ Records(state') = Records(state) /\ state'.sleeves = state.sleeves
           /\ state'.gone = state.gone
           /\ \E f1, f2 \in Fills, bid \in Bids :
                 LET new == WithShares(FireLegs(f1, f2)) IN
                 /\ Affords(f1.cost + f2.cost)
                 /\ new = {} => state' = state
                 /\ new # {} =>
                       /\ state'.debit = Released(Proceeds(new, bid)) + f1.cost + f2.cost
                       /\ \A k \in Keys :
                             state'.rows[k] = IF k = Main(fire.s)
                                              THEN Merged(state.rows[k], new, bid)
                                              ELSE state.rows[k]
<1>1. fire.s \in Sessions BY DEF SecondFire, Typed, CycleTyped
<1>2. state \in Dict /\ Main(fire.s) \in Keys BY <1>1, KeysIn DEF Typed
<1>3. PICK f1 \in Fills, f2 \in Fills, bid \in Bids :
          LET new == WithShares(FireLegs(f1, f2)) IN
          /\ Affords(f1.cost + f2.cost)
          /\ state' = IF new = {} THEN state
                      ELSE [state EXCEPT
                          !.debit = Released(Proceeds(new, bid)) + f1.cost + f2.cost,
                          !.rows[Main(fire.s)] = Merged(@, new, bid)]
  BY DEF SecondFire
<1> DEFINE new == WithShares(FireLegs(f1, f2))
           debit == Released(Proceeds(new, bid)) + f1.cost + f2.cost
           row == Merged(state.rows[Main(fire.s)], new, bid)
<1>4. state' = IF new = {} THEN state
               ELSE [state EXCEPT !.debit = debit, !.rows[Main(fire.s)] = row]
  BY <1>3
<1> HIDE DEF new, debit, row
<1>5. Records(state') = Records(state) /\ state'.sleeves = state.sleeves
        /\ state'.gone = state.gone
  BY <1>2, <1>4 DEF Dict, Records
<1>6. new = {} => state' = state BY <1>4
<1>7. new # {} =>
         /\ state'.debit = debit
         /\ \A k \in Keys : state'.rows[k] = IF k = Main(fire.s) THEN row ELSE state.rows[k]
  BY <1>2, <1>4 DEF Dict
<1> QED BY <1>1, <1>3, <1>5, <1>6, <1>7 DEF SecondFire, World, new, debit, row

LEMMA RetireChanges ==
    ASSUME Typed, RetireSleeves
    PROVE  /\ World' = World /\ stage = "rules" /\ stage' = "settle" /\ fire' = fire
           /\ Records(state') = Records(state) /\ state'.gone = state.gone
           /\ \E old \in SUBSET Sessions, bid \in Bids :
                 /\ state'.debit = Released(bid * Cardinality({s \in Sessions : Sells(s, old)}))
                 /\ \A s \in Sessions :
                       /\ state'.rows[Main(s)] = state.rows[Main(s)]
                       /\ state'.rows[Sleeve(s)]
                            = IF Sells(s, old) THEN [SoldRow(s, bid) EXCEPT !.settled = TRUE]
                              ELSE state.rows[Sleeve(s)]
                       /\ state'.sleeves[s]
                            = IF Sweepable(AfterTimeout(s, old), ~Open(Sleeve(s)) \/ Sells(s, old))
                              THEN "none" ELSE AfterTimeout(s, old)
<1>0. state \in Dict BY DEF Typed
<1>1. PICK old \in SUBSET Sessions, bid \in Bids :
          LET sold == {s \in Sessions : Sells(s, old)}
              settled(s) == ~Open(Sleeve(s)) \/ s \in sold
          IN  state' = [state EXCEPT
                  !.debit = Released(bid * Cardinality(sold)),
                  !.rows = [k \in Keys |-> IF k[2] = "sleeve" /\ k[1] \in sold
                                           THEN [SoldRow(k[1], bid) EXCEPT !.settled = TRUE]
                                           ELSE @[k]],
                  !.sleeves = [s \in Sessions |->
                                  IF Sweepable(AfterTimeout(s, old), settled(s)) THEN "none"
                                  ELSE AfterTimeout(s, old)]]
  BY DEF RetireSleeves
<1> DEFINE sold == {s \in Sessions : Sells(s, old)}
           debit == Released(bid * Cardinality(sold))
           rows == [k \in Keys |-> IF k[2] = "sleeve" /\ k[1] \in sold
                                   THEN [SoldRow(k[1], bid) EXCEPT !.settled = TRUE]
                                   ELSE state.rows[k]]
           sleeves == [s \in Sessions |->
                        IF Sweepable(AfterTimeout(s, old), ~Open(Sleeve(s)) \/ s \in sold)
                        THEN "none" ELSE AfterTimeout(s, old)]
<1>2. state' = [state EXCEPT !.debit = debit, !.rows = rows, !.sleeves = sleeves]
  BY <1>1
<1>3. /\ Records(state') = Records(state) /\ state'.gone = state.gone
      /\ state'.debit = debit /\ state'.rows = rows /\ state'.sleeves = sleeves
  <2> HIDE DEF debit, rows, sleeves
  <2> QED BY <1>0, <1>2 DEF Dict, Records
<1>4. \A s \in Sessions : rows[Main(s)] = state.rows[Main(s)]
  BY KeysIn DEF Main
<1>5. \A s \in Sessions :
          rows[Sleeve(s)] = IF Sells(s, old) THEN [SoldRow(s, bid) EXCEPT !.settled = TRUE]
                            ELSE state.rows[Sleeve(s)]
  <2> SUFFICES ASSUME NEW s \in Sessions
               PROVE  rows[Sleeve(s)]
                        = IF Sells(s, old) THEN [SoldRow(s, bid) EXCEPT !.settled = TRUE]
                          ELSE state.rows[Sleeve(s)]
    OBVIOUS
  <2>1. Sleeve(s) \in Keys /\ Sleeve(s)[1] = s /\ Sleeve(s)[2] = "sleeve"
    BY KeysIn DEF Sleeve
  <2> QED BY <2>1
<1>6. \A s \in Sessions :
          sleeves[s] = IF Sweepable(AfterTimeout(s, old), ~Open(Sleeve(s)) \/ Sells(s, old))
                       THEN "none" ELSE AfterTimeout(s, old)
  OBVIOUS
<1> HIDE DEF rows, sleeves
<1>7. World' = World /\ stage = "rules" /\ stage' = "settle" /\ fire' = fire
  BY DEF RetireSleeves, World
<1> QED BY <1>3, <1>4, <1>5, <1>6, <1>7

LEMMA SettleChanges ==
    ASSUME Typed, Settle
    PROVE  /\ World' = World /\ stage = "settle" /\ stage' = "save" /\ fire' = fire
           /\ Records(state') = Records(state) /\ state'.sleeves = state.sleeves
           /\ state'.gone = state.gone
           /\ \E pulled \in [Keys -> SUBSET Buckets] :
                 /\ \A k \in Keys : ~Ready(k) => pulled[k] = {}
                 /\ state'.debit = Released(SumFunctionOnSet([k \in Keys |->
                       Paid(k, {l \in state.rows[k].legs : l.bucket \in pulled[k]})], Keys))
                 /\ \A k \in Keys : state'.rows[k] = Resolved(k, pulled)
<1>0. state \in Dict BY DEF Typed
<1>1. PICK pulled \in [Keys -> SUBSET Buckets] :
          /\ \A k \in Keys : pulled[k] \subseteq IF Ready(k) THEN LegBuckets(k) ELSE {}
          /\ state' = [state EXCEPT
              !.debit = Released(SumFunctionOnSet([k \in Keys |->
                  Paid(k, {l \in state.rows[k].legs : l.bucket \in pulled[k]})], Keys)),
              !.rows = [k \in Keys |-> Resolved(k, pulled)]]
  BY DEF Settle
<1> DEFINE debit == Released(SumFunctionOnSet([k \in Keys |->
                  Paid(k, {l \in state.rows[k].legs : l.bucket \in pulled[k]})], Keys))
           rows == [k \in Keys |-> Resolved(k, pulled)]
<1>2. state' = [state EXCEPT !.debit = debit, !.rows = rows] BY <1>1
<1>3. \A k \in Keys : rows[k] = Resolved(k, pulled) OBVIOUS
<1>4. /\ Records(state') = Records(state) /\ state'.sleeves = state.sleeves
      /\ state'.gone = state.gone /\ state'.debit = debit /\ state'.rows = rows
  <2> HIDE DEF debit, rows
  <2> QED BY <1>0, <1>2 DEF Dict, Records
<1>5. \A k \in Keys : ~Ready(k) => pulled[k] = {} BY <1>1
<1> HIDE DEF rows
<1> QED BY <1>3, <1>4, <1>5 DEF Settle, World

LEMMA StandDownChanges ==
    ASSUME StandDown
    PROVE  /\ World' = World /\ stage = "fire" /\ stage' = "rules" /\ state' = state
           /\ fire' = NoFire /\ feed' = feed
BY DEF StandDown, World

(* Between two cycles, and when a cycle fails or the process dies, the dict and the file    *)
(* are each what one of them was, and the hours only move on.                               *)
Environment == \/ Hour \/ Save \/ CycleError \/ Crash
               \/ \E s \in Sessions : Resolve(s) \/ LeaveRegistry(s) \/ RejoinRegistry(s)
LEMMA EnvironmentChanges ==
    ASSUME Typed, Environment
    PROVE  /\ \/ state' = state /\ disk' = disk
              \/ state' = disk' /\ disk' \in {state, disk}
           /\ disk' = disk \/ (disk' = state /\ state' = state /\ now' = now)
           /\ stage' = "idle" /\ dropped' = dropped /\ direction' = direction
           /\ curve' = curve
           /\ Today' => Today
BY DEF Environment, Hour, Save, CycleError, Crash, Resolve, LeaveRegistry, RejoinRegistry,
       Typed, WorldTyped, Today

LEMMA Steps ==
    ASSUME [Next]_vars
    PROVE  \/ Environment \/ UNCHANGED vars
           \/ BeginCycle \/ StandDown \/ FirstFire \/ SecondFire \/ RetireSleeves \/ Settle
           \/ \E s \in Sessions : EnterSleeve(s) \/ Rule(s) \/ Fire(s)
BY DEF Next, Cycle, Environment, Rule

-----------------------------------------------------------------------------
(* Marked: what a fired mark says of the row, and what says that a window is over. *)

RowOpen(st, key) == ~st.rows[key].settled

(* An open row has its mark, unless its city left, and then its session never arms again;   *)
(* an open sleeve row has its record; on the market day a settled row has no legs yet.      *)
Protected(st) ==
    \A s \in Sessions :
        /\ RowOpen(st, Main(s)) /\ s \notin dropped => st.fired[s] \in 1..MaxFires
        /\ RowOpen(st, Main(s)) /\ st.fired[s] \notin 1..MaxFires => s \notin st.armed \cup st.ever
        /\ RowOpen(st, Sleeve(s)) => st.sleeves[s] # "none"
        /\ Today /\ ~RowOpen(st, Main(s)) => st.rows[Main(s)].legs = {}

(* A fire in flight left its number as the mark; only a second fire has a row. *)
Flying == stage = "fire" => /\ state.fired[fire.s] = fire.no
                            /\ fire.no = 1 => ~Open(Main(fire.s))
                            /\ fire.no = 2 => Open(Main(fire.s))

Marked == Protected(state) /\ Protected(disk) /\ Flying /\ FastPollEnds

LEMMA MarkedInit == ASSUME Init PROVE Marked
BY KeysIn DEF Init, Marked, Protected, RowOpen, Flying, FastPollEnds, NoRow

LEMMA MarkedEnvironment == ASSUME Typed, Marked, Environment PROVE Marked'
BY EnvironmentChanges DEF Marked, Protected, RowOpen, Flying, FastPollEnds

LEMMA MarkedBegin == ASSUME Typed, Marked, BeginCycle PROVE Marked'
<1>1. Protected(state)'
  <2> SUFFICES ASSUME NEW s \in Sessions
               PROVE  /\ RowOpen(state', Main(s)) /\ s \notin dropped' => state'.fired[s] \in 1..MaxFires
                      /\ RowOpen(state', Main(s)) /\ state'.fired[s] \notin 1..MaxFires
                            => s \notin state'.armed \cup state'.ever
                      /\ RowOpen(state', Sleeve(s)) => state'.sleeves[s] # "none"
                      /\ Today' /\ ~RowOpen(state', Main(s)) => state'.rows[Main(s)].legs = {}
    BY DEF Protected
  <2>1. state'.fired[s] = state.fired[s] \/ Expired(s)
    BY BeginChanges DEF Unmarked, Expired
  <2>2. RowOpen(state, Main(s)) /\ s \notin dropped' => state'.fired[s] = state.fired[s]
    BY BeginChanges DEF Unmarked, KeptMark, Open, RowOpen
  <2>3. state'.rows = state.rows /\ state'.sleeves = state.sleeves /\ Today' = Today
    BY BeginChanges DEF Ledger, Today
  <2>4. \/ ~Expired(s) /\ s \in state'.armed \cup state'.ever => s \in state.armed \cup state.ever
        \/ s \notin state'.armed \cup state'.ever
    BY BeginChanges
  <2>5. Expired(s) => s \notin state'.armed \cup state'.ever BY BeginChanges
  <2>6. dropped \subseteq dropped' BY BeginChanges
  <2>7. /\ RowOpen(state, Main(s)) /\ s \notin dropped => state.fired[s] \in 1..MaxFires
        /\ RowOpen(state, Main(s)) /\ state.fired[s] \notin 1..MaxFires
              => s \notin state.armed \cup state.ever
        /\ RowOpen(state, Sleeve(s)) => state.sleeves[s] # "none"
        /\ Today /\ ~RowOpen(state, Main(s)) => state.rows[Main(s)].legs = {}
    BY DEF Marked, Protected
  <2> HIDE DEF Expired
  <2> QED BY <2>1, <2>2, <2>3, <2>4, <2>5, <2>6, <2>7 DEF RowOpen
<1>2. Protected(disk)'
  <2>1. disk' = disk /\ Today' = Today /\ dropped \subseteq dropped' BY BeginChanges DEF Today
  <2> QED BY <2>1 DEF Marked, Protected, RowOpen
<1>3. Flying' BY BeginChanges DEF Flying
<1>4. FastPollEnds'
  <2>1. now' = now /\ direction' = direction BY BeginChanges
  <2>2. \A s \in state'.armed : ~Expired(s) /\ ~Zombie(s) BY BeginChanges
  <2>3. \A s \in Sessions : direction[s] \in {"high", "low"} BY DEF Typed, WorldTyped
  <2>4. state'.armed \subseteq Sessions BY BeginChanges DEF Typed, Dict
  <2> QED BY <2>1, <2>2, <2>3, <2>4 DEF FastPollEnds, WindowOver, Up, Zombie, Expired, Today
<1> QED BY <1>1, <1>2, <1>3, <1>4 DEF Marked

LEMMA MarkedRule == ASSUME Typed, Marked, NEW s \in Sessions, Rule(s) PROVE Marked'
<1>0. now' = now /\ direction' = direction /\ dropped' = dropped /\ disk' = disk
  BY RuleChanges DEF World
<1>1. Protected(state)'
  <2> SUFFICES ASSUME NEW t \in Sessions
               PROVE  /\ RowOpen(state', Main(t)) /\ t \notin dropped' => state'.fired[t] \in 1..MaxFires
                      /\ RowOpen(state', Main(t)) /\ state'.fired[t] \notin 1..MaxFires
                            => t \notin state'.armed \cup state'.ever
                      /\ RowOpen(state', Sleeve(t)) => state'.sleeves[t] # "none"
                      /\ Today' /\ ~RowOpen(state', Main(t)) => state'.rows[Main(t)].legs = {}
    BY DEF Protected
  <2>1. state'.rows = state.rows /\ state'.sleeves = state.sleeves BY RuleChanges DEF Ledger
  <2>2. \/ state'.fired[t] = state.fired[t]
        \/ state.fired[t] = NoMark /\ state'.fired[t] = Lock
    BY RuleChanges
  <2>3. t \in state'.armed \cup state'.ever
          => t \in state.armed \cup state.ever \/ ~RowOpen(state, Main(t))
    BY RuleChanges DEF Open, RowOpen
  <2>4. /\ RowOpen(state, Main(t)) /\ t \notin dropped => state.fired[t] \in 1..MaxFires
        /\ RowOpen(state, Main(t)) /\ state.fired[t] \notin 1..MaxFires
              => t \notin state.armed \cup state.ever
        /\ RowOpen(state, Sleeve(t)) => state.sleeves[t] # "none"
        /\ Today /\ ~RowOpen(state, Main(t)) => state.rows[Main(t)].legs = {}
    BY DEF Marked, Protected
  <2> QED BY <1>0, <2>1, <2>2, <2>3, <2>4, MarksAre DEF RowOpen, Today
<1>2. Protected(disk)' BY <1>0 DEF Marked, Protected, RowOpen, Today
<1>3. Flying' BY RuleChanges DEF Flying
<1>4. FastPollEnds'
  <2>1. \A t \in state'.armed : t \in state.armed \/ (t = s /\ InWindow(s)) BY RuleChanges
  <2>2. stage = "rules" /\ stage' = "rules" BY RuleChanges
  <2>3. InWindow(s) => ~WindowOver(s) BY DEF InWindow, WindowOver, Today
  <2> QED BY <1>0, <2>1, <2>2, <2>3 DEF Marked, FastPollEnds, WindowOver, Today, Up
<1> QED BY <1>1, <1>2, <1>3, <1>4 DEF Marked

LEMMA MarkedFire == ASSUME Typed, Marked, NEW s \in Sessions, Fire(s) PROVE Marked'
<1>0. /\ now' = now /\ direction' = direction /\ dropped' = dropped /\ disk' = disk
      /\ state'.rows = state.rows /\ state'.sleeves = state.sleeves
  BY FireChanges DEF World
<1>1. /\ fire'.s = s /\ fire'.no \in 1..MaxFires /\ fire'.no = FiresUsed(s) + 1
      /\ state'.fired = [state.fired EXCEPT ![s] = fire'.no]
      /\ state'.armed = state.armed \ {s} /\ state'.ever = state.ever \cup {s}
      /\ \/ FiresUsed(s) = 0 /\ ~Open(Main(s))
         \/ FiresUsed(s) = 1 /\ Open(Main(s))
  BY FireChanges DEF Advanced
<1>2. state'.fired[s] = fire'.no /\ \A t \in Sessions : t # s => state'.fired[t] = state.fired[t]
  <2>1. state.fired \in [Sessions -> Marks] BY DEF Typed, Dict
  <2> QED BY <1>1, <2>1
<1>3. Protected(state)'
  <2> SUFFICES ASSUME NEW t \in Sessions
               PROVE  /\ RowOpen(state', Main(t)) /\ t \notin dropped' => state'.fired[t] \in 1..MaxFires
                      /\ RowOpen(state', Main(t)) /\ state'.fired[t] \notin 1..MaxFires
                            => t \notin state'.armed \cup state'.ever
                      /\ RowOpen(state', Sleeve(t)) => state'.sleeves[t] # "none"
                      /\ Today' /\ ~RowOpen(state', Main(t)) => state'.rows[Main(t)].legs = {}
    BY DEF Protected
  <2>1. /\ RowOpen(state, Main(t)) /\ t \notin dropped => state.fired[t] \in 1..MaxFires
        /\ RowOpen(state, Main(t)) /\ state.fired[t] \notin 1..MaxFires
              => t \notin state.armed \cup state.ever
        /\ RowOpen(state, Sleeve(t)) => state.sleeves[t] # "none"
        /\ Today /\ ~RowOpen(state, Main(t)) => state.rows[Main(t)].legs = {}
    BY DEF Marked, Protected
  <2> QED BY <1>0, <1>1, <1>2, <2>1 DEF RowOpen, Today
<1>4. Protected(disk)' BY <1>0 DEF Marked, Protected, RowOpen, Today
<1>5. Flying' BY <1>0, <1>1, <1>2 DEF Flying, Open
<1>6. FastPollEnds'
  <2>1. stage = "rules" BY FireChanges
  <2> QED BY <1>0, <1>1, <2>1 DEF Marked, FastPollEnds, WindowOver, Today, Up
<1> QED BY <1>3, <1>4, <1>5, <1>6 DEF Marked

(* What keeps the records and only settles or opens rows the marks allow. *)
LEMMA MarkedRows ==
    ASSUME Typed, Marked, World' = World, Records(state') = Records(state),
           stage # "idle", stage' # "fire",
           \A s \in Sessions :
               /\ RowOpen(state', Main(s)) /\ ~RowOpen(state, Main(s)) => state.fired[s] \in 1..MaxFires
               /\ RowOpen(state', Sleeve(s)) => state'.sleeves[s] # "none"
               /\ Today /\ ~RowOpen(state', Main(s)) => state'.rows[Main(s)].legs = {}
    PROVE  Marked'
<1>1. /\ now' = now /\ direction' = direction /\ dropped' = dropped /\ disk' = disk
      /\ state'.armed = state.armed /\ state'.ever = state.ever /\ state'.fired = state.fired
  BY DEF World, Records
<1>2. Protected(state)' BY <1>1 DEF Marked, Protected, Today
<1>3. Protected(disk)' BY <1>1 DEF Marked, Protected, RowOpen, Today
<1>4. Flying' BY DEF Flying
<1>5. FastPollEnds' BY <1>1 DEF Marked, FastPollEnds, WindowOver, Today, Up
<1> QED BY <1>2, <1>3, <1>4, <1>5 DEF Marked

LEMMA MarkedEnter == ASSUME Typed, Marked, NEW s \in Sessions, EnterSleeve(s) PROVE Marked'
<1>1. /\ World' = World /\ Records(state') = Records(state) /\ stage = "rules" /\ stage' = "rules"
      /\ \A t \in Sessions : t # s => state'.sleeves[t] = state.sleeves[t]
      /\ \A k \in Keys : k # Sleeve(s) => state'.rows[k] = state.rows[k]
      /\ state'.rows = state.rows \/ state'.sleeves[s] = "open"
      /\ state.sleeves[s] = "none"
  BY EnterChanges
<1>2. \A t \in Sessions : /\ state'.rows[Main(t)] = state.rows[Main(t)]
                          /\ t # s => state'.rows[Sleeve(t)] = state.rows[Sleeve(t)]
  BY <1>1, KeysIn
<1> QED BY <1>1, <1>2, MarkedRows DEF Marked, Protected, RowOpen

LEMMA MarkedStandDown == ASSUME Typed, Marked, StandDown PROVE Marked'
<1>1. World' = World /\ state' = state /\ stage = "fire" /\ stage' = "rules" BY StandDownChanges
<1>2. Records(state') = Records(state) BY <1>1
<1> QED BY <1>1, <1>2, MarkedRows DEF Marked, Protected, RowOpen

LEMMA MarkedFirst == ASSUME Typed, Marked, FirstFire PROVE Marked'
<1>1. /\ World' = World /\ Records(state') = Records(state) /\ stage = "fire" /\ stage' = "rules"
      /\ fire.s \in Sessions /\ fire.no = 1 /\ state'.sleeves = state.sleeves
  BY FirstFireChanges
<1>2. PICK f1 \in Fills, f2 \in Fills :
         \A k \in Keys :
            state'.rows[k] = IF k = Main(fire.s) /\ ~Open(k) THEN Row(FireLegs(f1, f2))
                             ELSE state.rows[k]
  BY FirstFireChanges
<1>3. /\ \A t \in Sessions : /\ state'.rows[Sleeve(t)] = state.rows[Sleeve(t)]
                             /\ t # fire.s => state'.rows[Main(t)] = state.rows[Main(t)]
      /\ RowOpen(state', Main(fire.s))
  BY <1>1, <1>2, KeysIn DEF RowOpen, Open, Row
<1>4. state.fired[fire.s] = 1 /\ 1 \in 1..MaxFires
  BY <1>1 DEF Marked, Flying, Typed, CycleTyped
<1> QED BY <1>1, <1>3, <1>4, MarkedRows DEF Marked, Protected, RowOpen

LEMMA MarkedSecond == ASSUME Typed, Marked, SecondFire PROVE Marked'
<1>1. /\ World' = World /\ Records(state') = Records(state) /\ stage = "fire" /\ stage' = "rules"
      /\ fire.s \in Sessions /\ fire.no = 2 /\ state'.sleeves = state.sleeves
  BY SecondFireChanges
<1>2. PICK f1 \in Fills, f2 \in Fills, bid \in Bids :
         LET new == WithShares(FireLegs(f1, f2)) IN
         /\ new = {} => state' = state
         /\ new # {} => \A k \in Keys :
               state'.rows[k] = IF k = Main(fire.s) THEN Merged(state.rows[k], new, bid)
                                ELSE state.rows[k]
  BY SecondFireChanges
<1> DEFINE new == WithShares(FireLegs(f1, f2))
<1>3. Open(Main(fire.s)) BY <1>1 DEF Marked, Flying
<1>4. Merged(state.rows[Main(fire.s)], new, bid).settled = state.rows[Main(fire.s)].settled
  <2>1. state.rows[Main(fire.s)] \in RowRec BY <1>1, KeysIn, RowsIn DEF Typed
  <2> HIDE DEF new
  <2> QED BY <2>1 DEF Merged, RowRec
<1> HIDE DEF new
<1>5. /\ new = {} => state' = state
      /\ new # {} => \A k \in Keys :
               state'.rows[k] = IF k = Main(fire.s) THEN Merged(state.rows[k], new, bid)
                                ELSE state.rows[k]
  BY <1>2 DEF new
<1>6. /\ \A t \in Sessions : /\ state'.rows[Sleeve(t)] = state.rows[Sleeve(t)]
                             /\ t # fire.s => state'.rows[Main(t)] = state.rows[Main(t)]
      /\ RowOpen(state', Main(fire.s)) /\ RowOpen(state, Main(fire.s))
  BY <1>1, <1>3, <1>4, <1>5, KeysIn DEF RowOpen, Open
<1> QED BY <1>1, <1>6, MarkedRows DEF Marked, Protected, RowOpen

LEMMA MarkedRetire == ASSUME Typed, Marked, RetireSleeves PROVE Marked'
<1>1. World' = World /\ Records(state') = Records(state) /\ stage = "rules" /\ stage' = "settle"
  BY RetireChanges
<1>2. PICK old \in SUBSET Sessions, bid \in Bids :
         \A s \in Sessions :
               /\ state'.rows[Main(s)] = state.rows[Main(s)]
               /\ state'.rows[Sleeve(s)]
                    = IF Sells(s, old) THEN [SoldRow(s, bid) EXCEPT !.settled = TRUE]
                      ELSE state.rows[Sleeve(s)]
               /\ state'.sleeves[s]
                    = IF Sweepable(AfterTimeout(s, old), ~Open(Sleeve(s)) \/ Sells(s, old))
                      THEN "none" ELSE AfterTimeout(s, old)
  BY RetireChanges
<1>3. ASSUME NEW s \in Sessions, RowOpen(state', Sleeve(s)) PROVE state'.sleeves[s] # "none"
  <2>1. [SoldRow(s, bid) EXCEPT !.settled = TRUE].settled = TRUE BY DEF SoldRow, Row
  <2>2. ~Sells(s, old) /\ Open(Sleeve(s)) BY <1>2, <1>3, <2>1 DEF RowOpen, Open
  <2>3. state.sleeves[s] # "none" BY <2>2 DEF Marked, Protected, Open, RowOpen
  <2>4. state'.sleeves[s] = AfterTimeout(s, old) BY <1>2, <2>2 DEF Sweepable
  <2> QED BY <2>3, <2>4 DEF AfterTimeout
<1> QED BY <1>1, <1>2, <1>3, MarkedRows DEF Marked, Protected, RowOpen

(* A settlement can only close rows, and only after the market day. *)
LEMMA ResolvedCloses ==
    ASSUME Typed, NEW k \in Keys, NEW pulled
    PROVE  /\ ~Resolved(k, pulled).settled => Open(k)
           /\ Today => Resolved(k, pulled) = state.rows[k]
<1>1. Ready(k) => ~Today BY DEF Ready, Keys, Typed, WorldTyped
<1> QED BY <1>1 DEF Resolved, Ready, Open

LEMMA MarkedSettle == ASSUME Typed, Marked, Settle PROVE Marked'
<1>1. /\ World' = World /\ Records(state') = Records(state) /\ stage = "settle" /\ stage' = "save"
      /\ state'.sleeves = state.sleeves
  BY SettleChanges
<1>2. PICK pulled \in [Keys -> SUBSET Buckets] :
         \A k \in Keys : state'.rows[k] = Resolved(k, pulled)
  BY SettleChanges
<1>3. \A k \in Keys : /\ RowOpen(state', k) => RowOpen(state, k)
                      /\ Today => state'.rows[k] = state.rows[k]
  BY <1>2, ResolvedCloses DEF RowOpen, Open
<1>4. \A s \in Sessions : Main(s) \in Keys /\ Sleeve(s) \in Keys BY KeysIn
<1> QED BY <1>1, <1>3, <1>4, MarkedRows DEF Marked, Protected, RowOpen

LEMMA MarkedKept == ASSUME Typed, Marked, [Next]_vars PROVE Marked'
<1>1. CASE UNCHANGED vars
  BY <1>1 DEF vars, Marked, Protected, RowOpen, Flying, FastPollEnds, WindowOver, Today, Up, Open
<1> QED
  BY <1>1, Steps, MarkedEnvironment, MarkedBegin, MarkedRule, MarkedFire, MarkedEnter,
     MarkedStandDown, MarkedFirst, MarkedSecond, MarkedRetire, MarkedSettle

(* The session records, in their shapes, outlive the positions they guard and not the day   *)
(* they belong to (prune_stale_sessions, _expire_stale_sleeves).                            *)
THEOREM RecordsAlwaysSound == Spec => []RecordsSound
<1>1. Init => Marked BY MarkedInit
<1>2. Typed /\ Marked /\ [Next]_vars => Marked' BY MarkedKept
<1>3. Typed /\ Marked => RecordsSound
  BY TypedShapes DEF Marked, Protected, RowOpen, RecordsSound, MarkOutlivesRow, SleeveTracked
<1> QED BY AlwaysTyped, <1>1, <1>2, <1>3, PTL DEF Spec

-----------------------------------------------------------------------------
(* Travelled: the fires of a session whose city stayed, its marks and the legs they bought. *)

(* The counter counts the fires, and the last one's observation is remembered. *)
Counted(st, s) ==
    Today => /\ st.fired[s] \in 1..MaxFires
                  => /\ Len(st.shots[s]) = st.fired[s]
                     /\ st.fireObs[s] = st.shots[s][st.fired[s]].obs
             /\ st.fired[s] \notin 1..MaxFires => st.shots[s] = <<>>
(* An open YES leg carries the bucket its fire bought. *)
Bought(st, s, l) == OpenLeg(l) /\ l.outcome = "YES"
                      => l.fire \in 1..Len(st.shots[s]) /\ l.bucket = st.shots[s][l.fire].new
Discipline(st, s) ==
    /\ Len(st.shots[s]) <= MaxFires
    /\ \A i, j \in DOMAIN st.shots[s] :
          i < j => LET a == st.shots[s][i]  b == st.shots[s][j] IN
                   /\ a.obs # b.obs
                   /\ IF Up(s) THEN a.new < b.new ELSE a.new > b.new
Recorded(st) == \A s \in Sessions \ dropped :
                    /\ Counted(st, s) /\ Discipline(st, s)
                    /\ \A l \in st.rows[Main(s)].legs : Bought(st, s, l)

(* The fire in flight is the last one of its session. *)
Aimed == stage = "fire" /\ fire.s \notin dropped
            => state.shots[fire.s][fire.no].new = fire.new

(* What the file says of a session is what the dict says, or an earlier mark of it. *)
Ahead(s) == \/ disk.fired[s] = NoMark
            \/ state.fired[s] = disk.fired[s]
            \/ disk.fired[s] = 1 /\ state.fired[s] = 2
Forward == \A s \in Sessions \ dropped : Today => Ahead(s)

Travelled == Recorded(state) /\ Recorded(disk) /\ Aimed /\ Forward

LEMMA TravelledInit == ASSUME Init PROVE Travelled
<1>1. /\ dropped = {} /\ disk = state /\ stage # "fire"
      /\ \A s \in Sessions : state.fired[s] = NoMark /\ state.shots[s] = <<>>
      /\ \A k \in Keys : state.rows[k].legs = {}
  BY DEF Init, NoRow
<1>2. 0 <= MaxFires BY ConstantsAssumption
<1> QED BY <1>1, <1>2, KeysIn, MarksAre
        DEF Travelled, Recorded, Counted, Discipline, Aimed, Forward, Ahead

LEMMA TravelledEnvironment == ASSUME Typed, Travelled, Environment PROVE Travelled'
<1>1. /\ state' \in {state, disk} /\ disk' \in {state, disk} /\ stage' = "idle"
      /\ dropped' = dropped /\ direction' = direction /\ (Today' => Today)
  BY EnvironmentChanges
<1>2. ASSUME NEW st \in {state, disk} PROVE Recorded(st)'
  <2> SUFFICES ASSUME NEW s \in Sessions \ dropped
               PROVE  /\ Counted(st, s)' /\ Discipline(st, s)'
                      /\ \A l \in st.rows[Main(s)].legs : Bought(st, s, l)'
    BY <1>1 DEF Recorded
  <2>1. /\ Counted(st, s) /\ Discipline(st, s)
        /\ \A l \in st.rows[Main(s)].legs : Bought(st, s, l)
    BY DEF Travelled, Recorded
  <2> QED BY <1>1, <2>1 DEF Counted, Discipline, Bought, Up
<1>3. Recorded(state)' /\ Recorded(disk)'
  BY <1>1, <1>2 DEF Recorded, Counted, Discipline, Bought, Up
<1>4. Aimed' BY <1>1 DEF Aimed
<1>5. Forward' BY EnvironmentChanges DEF Travelled, Forward, Ahead
<1> QED BY <1>3, <1>4, <1>5 DEF Travelled

(* The file's half, and the marks of the dict, where neither moves. *)
LEMMA TravelledFile ==
    ASSUME Typed, Travelled, disk' = disk, Today' = Today, dropped \subseteq dropped',
           direction' = direction
    PROVE  Recorded(disk)'
<1> SUFFICES ASSUME NEW s \in Sessions \ dropped'
             PROVE  /\ Counted(disk, s)' /\ Discipline(disk, s)'
                    /\ \A l \in disk.rows[Main(s)].legs : Bought(disk, s, l)'
  BY DEF Recorded
<1>1. /\ Counted(disk, s) /\ Discipline(disk, s)
      /\ \A l \in disk.rows[Main(s)].legs : Bought(disk, s, l)
  BY DEF Travelled, Recorded
<1> QED BY <1>1 DEF Counted, Discipline, Bought, Up

LEMMA TravelledBegin == ASSUME Typed, Travelled, BeginCycle PROVE Travelled'
<1>0. /\ Today' = Today /\ dropped \subseteq dropped' /\ direction' = direction /\ disk' = disk
      /\ state'.rows = state.rows /\ state'.shots = state.shots /\ stage' = "rules"
      /\ dropped' = dropped \cup {s \in Sessions : Gone(s)}
  BY BeginChanges DEF Today, Ledger
<1>1. ASSUME NEW s \in Sessions \ dropped', Today
      PROVE  state'.fired[s] = state.fired[s] /\ state'.fireObs[s] = state.fireObs[s]
  <2>1. ~Expired(s) /\ ~Unmarked(s) BY <1>0, <1>1 DEF Expired, Unmarked
  <2> QED BY <2>1, BeginChanges
<1>2. Recorded(state)'
  <2> SUFFICES ASSUME NEW s \in Sessions \ dropped'
               PROVE  /\ Counted(state, s)' /\ Discipline(state, s)'
                      /\ \A l \in state'.rows[Main(s)].legs : Bought(state, s, l)'
    BY DEF Recorded
  <2>1. /\ Counted(state, s) /\ Discipline(state, s)
        /\ \A l \in state.rows[Main(s)].legs : Bought(state, s, l)
    BY <1>0 DEF Travelled, Recorded
  <2> QED BY <1>0, <1>1, <2>1 DEF Counted, Discipline, Bought, Up
<1>3. Recorded(disk)' BY <1>0, TravelledFile
<1>4. Aimed' BY <1>0 DEF Aimed
<1>5. Forward' BY <1>0, <1>1 DEF Travelled, Forward, Ahead
<1> QED BY <1>2, <1>3, <1>4, <1>5 DEF Travelled

LEMMA TravelledRule ==
    ASSUME Typed, Marked, Travelled, NEW s \in Sessions, Rule(s) PROVE Travelled'
<1>0. /\ now' = now /\ direction' = direction /\ dropped' = dropped /\ disk' = disk
      /\ state'.rows = state.rows /\ state'.shots = state.shots
      /\ state'.fireObs = state.fireObs /\ stage' = "rules"
  BY RuleChanges DEF World, Ledger
<1>1. \A t \in Sessions : \/ state'.fired[t] = state.fired[t]
                          \/ state.fired[t] = NoMark /\ state'.fired[t] = Lock
  BY RuleChanges
<1>2. Recorded(state)'
  <2> SUFFICES ASSUME NEW t \in Sessions \ dropped
               PROVE  /\ Counted(state, t)' /\ Discipline(state, t)'
                      /\ \A l \in state'.rows[Main(t)].legs : Bought(state, t, l)'
    BY <1>0 DEF Recorded
  <2>1. /\ Counted(state, t) /\ Discipline(state, t)
        /\ \A l \in state.rows[Main(t)].legs : Bought(state, t, l)
    BY DEF Travelled, Recorded
  <2> QED BY <1>0, <1>1, <2>1, MarksAre DEF Counted, Discipline, Bought, Up, Today
<1>3. Recorded(disk)' BY <1>0, TravelledFile DEF Today
<1>4. Aimed' BY <1>0 DEF Aimed
<1>5. Forward' BY <1>0, <1>1, MarksAre DEF Travelled, Forward, Ahead, Today, NoMark
<1> QED BY <1>2, <1>3, <1>4, <1>5 DEF Travelled

(* A second fire comes from another observation, and buys further on. *)
LEMMA TravelledFire ==
    ASSUME Typed, Marked, Travelled, NEW s \in Sessions, Fire(s) PROVE Travelled'
<1>0. /\ now' = now /\ direction' = direction /\ dropped' = dropped /\ disk' = disk
      /\ state'.rows = state.rows /\ feed[s] # 0
      /\ fire'.s = s /\ fire'.no = FiresUsed(s) + 1 /\ fire'.no \in 1..MaxFires
      /\ fire'.new = Bucket(Running(s))
      /\ state'.fired = [state.fired EXCEPT ![s] = fire'.no]
      /\ state'.fireObs = [state.fireObs EXCEPT ![s] = feed[s]]
      /\ state.fireObs[s] # feed[s]
  BY FireChanges DEF World
<1> DEFINE shot == [obs |-> feed[s], new |-> Bucket(Running(s))]
           shots == state.shots[s]
<1>1. state'.shots = [state.shots EXCEPT ![s] = Append(@, shot)] BY FireChanges
<1>2. /\ state.fired \in [Sessions -> Marks] /\ state.fireObs \in [Sessions -> Nat]
      /\ state.shots \in [Sessions -> Seq(ShotRec)]
  BY DEF Typed, Dict
<1>3. shot \in ShotRec
  <2>1. Running(s) \in Temps BY <1>0, RunningIn DEF Typed
  <2>2. feed[s] \in Nat BY DEF Typed, WorldTyped
  <2> QED BY <2>1, <2>2, BucketIn DEF ShotRec
<1>4. /\ shot.obs = feed[s] /\ shot.new = Bucket(Running(s))
      /\ shots \in Seq(ShotRec)
  BY <1>2
<1>5. Today BY DEF Fire, Visit, Typed, CycleTyped
<1>6. ASSUME s \notin dropped
      PROVE  /\ Len(shots) = FiresUsed(s)
             /\ FiresUsed(s) \in {0, 1}
             /\ FiresUsed(s) = 1 =>
                   /\ shots[1].obs # feed[s]
                   /\ IF Up(s) THEN shots[1].new < Bucket(Running(s))
                      ELSE shots[1].new > Bucket(Running(s))
             /\ state.fired[s] # Lock
  <2>1. Counted(state, s) /\ \A l \in state.rows[Main(s)].legs : Bought(state, s, l)
    BY <1>6 DEF Travelled, Recorded
  <2>2. CASE FiresUsed(s) = 0 /\ state.fired[s] = NoMark
    BY <1>5, <2>1, <2>2, MarksAre DEF Counted
  <2>3. CASE FiresUsed(s) = 1 /\ state.fired[s] \in {Lock, 1} /\ Advanced(s)
    <3>1. Open(Main(s)) /\ YesHeld(s) # {} /\ Passed(s, FirstYes(s)) BY <2>3 DEF Advanced
    <3>2. state.fired[s] \in 1..MaxFires /\ state.fired[s] = 1
      BY <1>6, <2>3, <3>1, MarksAre DEF Marked, Protected, Open, RowOpen
    <3>3. Len(shots) = 1 /\ state.fireObs[s] = shots[1].obs BY <1>5, <2>1, <3>2 DEF Counted
    <3>4. \A l \in YesHeld(s) : l \in state.rows[Main(s)].legs BY DEF YesHeld
    <3>5. \A l \in YesHeld(s) : l \in LegRec
      BY <3>4, KeysIn, RowsIn DEF Typed, LegSets
    <3>6. FirstYes(s) \in YesHeld(s) BY <3>1, <3>5, FirstYesIn
    <3>7. Bought(state, s, FirstYes(s)) /\ OpenLeg(FirstYes(s)) /\ FirstYes(s).outcome = "YES"
      BY <2>1, <3>6 DEF YesHeld
    <3>8. FirstYes(s).bucket = shots[1].new BY <3>3, <3>7 DEF Bought
    <3>9. shots[1].new \in Nat /\ Bucket(Running(s)) \in Nat
      <4>1. shot.new \in Nat BY <1>3, BucketsInt DEF ShotRec
      <4>2. shots[1] \in ShotRec
        <5>1. shots \in Seq(ShotRec) /\ Len(shots) = 1 BY <1>4, <3>3
        <5> HIDE DEF shots, shot
        <5> QED BY <5>1
      <4> QED BY <1>4, <4>1, <4>2, BucketsInt DEF ShotRec
    <3>10. IF Up(s) THEN shots[1].new < Bucket(Running(s))
           ELSE shots[1].new > Bucket(Running(s))
      BY <3>1, <3>8, <3>9 DEF Passed
    <3> QED BY <1>0, <2>3, <3>2, <3>3, <3>10, MarksAre
  <2> QED BY <2>2, <2>3, FireChanges
<1> HIDE DEF shot, shots
<1>7. Append(shots, shot) \in Seq(ShotRec) /\ Len(Append(shots, shot)) = Len(shots) + 1
        /\ Append(shots, shot)[Len(shots) + 1] = shot
        /\ \A i \in 1..Len(shots) : Append(shots, shot)[i] = shots[i]
  BY <1>3, <1>4
<1>8. state'.shots[s] = Append(shots, shot)
        /\ \A t \in Sessions : t # s => state'.shots[t] = state.shots[t]
  BY <1>1, <1>2 DEF shots
<1>9. /\ state'.fired[s] = fire'.no /\ state'.fireObs[s] = feed[s]
      /\ \A t \in Sessions : t # s => /\ state'.fired[t] = state.fired[t]
                                      /\ state'.fireObs[t] = state.fireObs[t]
  BY <1>0, <1>2
<1>10. ASSUME s \notin dropped PROVE Counted(state, s)'
  <2>1. Len(state'.shots[s]) = state'.fired[s] BY <1>0, <1>6, <1>7, <1>8, <1>9, <1>10
  <2>2. state'.shots[s][state'.fired[s]].obs = feed[s]
    BY <1>0, <1>4, <1>6, <1>7, <1>8, <1>9, <1>10
  <2> QED BY <1>0, <1>9, <2>1, <2>2 DEF Counted
<1>11. ASSUME s \notin dropped PROVE Discipline(state, s)'
  <2>1. Len(state'.shots[s]) = FiresUsed(s) + 1 /\ FiresUsed(s) \in {0, 1}
    BY <1>6, <1>7, <1>8, <1>11
  <2>2. Len(state'.shots[s]) <= MaxFires BY <1>0, <2>1, ConstantsAssumption
  <2>3. ASSUME NEW i \in DOMAIN state'.shots[s], NEW j \in DOMAIN state'.shots[s], i < j
        PROVE  LET a == state'.shots[s][i]  b == state'.shots[s][j] IN
               /\ a.obs # b.obs
               /\ IF Up(s) THEN a.new < b.new ELSE a.new > b.new
    <3>1. state'.shots[s] \in Seq(ShotRec) BY <1>7, <1>8
    <3>2. i = 1 /\ j = 2 /\ FiresUsed(s) = 1
      <4>1. i \in 1..Len(state'.shots[s]) /\ j \in 1..Len(state'.shots[s]) BY <2>3, <3>1
      <4> QED BY <2>1, <2>3, <4>1
    <3>3. Len(shots) = 1 BY <1>6, <1>11, <3>2
    <3>4. state'.shots[s][1] = shots[1] /\ state'.shots[s][2] = shot BY <1>7, <1>8, <3>3
    <3> QED BY <1>4, <1>6, <1>11, <3>2, <3>4
  <2> QED BY <1>0, <2>2, <2>3 DEF Discipline, Up
<1>12. ASSUME s \notin dropped, NEW l \in state'.rows[Main(s)].legs PROVE Bought(state, s, l)'
  <2>1. Bought(state, s, l) BY <1>0, <1>12 DEF Travelled, Recorded
  <2> QED BY <2>1, <1>4, <1>7, <1>8 DEF Bought, shots
<1>13. Recorded(state)'
  <2> SUFFICES ASSUME NEW t \in Sessions \ dropped, t # s
               PROVE  /\ Counted(state, t)' /\ Discipline(state, t)'
                      /\ \A l \in state'.rows[Main(t)].legs : Bought(state, t, l)'
    BY <1>0, <1>10, <1>11, <1>12 DEF Recorded
  <2>1. /\ Counted(state, t) /\ Discipline(state, t)
        /\ \A l \in state.rows[Main(t)].legs : Bought(state, t, l)
    BY DEF Travelled, Recorded
  <2>2. /\ state'.shots[t] = state.shots[t] /\ state'.fired[t] = state.fired[t]
        /\ state'.fireObs[t] = state.fireObs[t] /\ state'.rows = state.rows
    BY <1>0, <1>8, <1>9
  <2>3. Counted(state, t)' BY <1>0, <2>1, <2>2 DEF Counted, Today
  <2>4. Discipline(state, t)' BY <1>0, <2>1, <2>2 DEF Discipline, Up
  <2>5. \A l \in state'.rows[Main(t)].legs : Bought(state, t, l)'
    BY <2>1, <2>2 DEF Bought
  <2> QED BY <2>3, <2>4, <2>5
<1>14. Recorded(disk)' BY <1>0, TravelledFile DEF Today
<1>15. Aimed'
  BY <1>0, <1>4, <1>6, <1>7, <1>8 DEF Aimed
<1>16. Forward'
  <2>1. s \notin dropped => \/ state.fired[s] = NoMark /\ state'.fired[s] = 1
                            \/ state.fired[s] = 1 /\ state'.fired[s] = 2
    <3>1. \/ FiresUsed(s) = 0 /\ state.fired[s] = NoMark
          \/ FiresUsed(s) = 1 /\ state.fired[s] \in {Lock, 1}
      BY FireChanges
    <3>2. s \notin dropped => state.fired[s] # Lock BY <1>6
    <3>3. state'.fired[s] = FiresUsed(s) + 1 BY <1>0, <1>9
    <3> QED BY <3>1, <3>2, <3>3
  <2> QED BY <1>0, <1>9, <2>1, MarksAre DEF Travelled, Forward, Ahead, Today, NoMark
<1> QED BY <1>13, <1>14, <1>15, <1>16 DEF Travelled

(* What keeps the records, and leaves no open YES leg in a row that no fire bought. *)
LEMMA TravelledRows ==
    ASSUME Typed, Travelled, World' = World, Records(state') = Records(state), stage' # "fire",
           \A s \in Sessions \ dropped : \A l \in state'.rows[Main(s)].legs :
               l \in state.rows[Main(s)].legs \/ Bought(state, s, l)
    PROVE  Travelled'
<1>0. /\ now' = now /\ direction' = direction /\ dropped' = dropped /\ disk' = disk
      /\ state'.fired = state.fired /\ state'.shots = state.shots
      /\ state'.fireObs = state.fireObs
  BY DEF World, Records
<1>1. Recorded(state)'
  <2> SUFFICES ASSUME NEW s \in Sessions \ dropped
               PROVE  /\ Counted(state, s)' /\ Discipline(state, s)'
                      /\ \A l \in state'.rows[Main(s)].legs : Bought(state, s, l)'
    BY <1>0 DEF Recorded
  <2>1. /\ Counted(state, s) /\ Discipline(state, s)
        /\ \A l \in state.rows[Main(s)].legs : Bought(state, s, l)
    BY DEF Travelled, Recorded
  <2>2. Counted(state, s)' BY <1>0, <2>1 DEF Counted, Today
  <2>3. Discipline(state, s)' BY <1>0, <2>1 DEF Discipline, Up
  <2>4. \A l \in state'.rows[Main(s)].legs : Bought(state, s, l) BY <2>1
  <2>5. \A l \in state'.rows[Main(s)].legs : Bought(state, s, l)' BY <1>0, <2>4 DEF Bought
  <2> QED BY <2>2, <2>3, <2>5
<1>2. Recorded(disk)' BY <1>0, TravelledFile DEF Today
<1>3. Aimed' BY DEF Aimed
<1>4. Forward' BY <1>0 DEF Travelled, Forward, Ahead, Today
<1> QED BY <1>1, <1>2, <1>3, <1>4 DEF Travelled

(* The YES leg of the fire in flight is bought where the fire aimed. *)
LEMMA BoughtNow ==
    ASSUME Typed, Marked, Travelled, stage = "fire", fire.s \notin dropped,
           NEW f1 \in Fills, NEW f2 \in Fills, NEW l \in FireLegs(f1, f2)
    PROVE  Bought(state, fire.s, l)
<1>1. fire.s \in Sessions /\ fire.no \in 1..MaxFires /\ Today BY DEF Typed, CycleTyped
<1>2. state.fired[fire.s] = fire.no BY DEF Marked, Flying
<1>3. Len(state.shots[fire.s]) = fire.no
  BY <1>1, <1>2 DEF Travelled, Recorded, Counted
<1>4. state.shots[fire.s][fire.no].new = fire.new BY DEF Travelled, Aimed
<1>5. l.outcome = "YES" => l.fire = fire.no /\ l.bucket = fire.new
  BY DEF FireLegs, NewLeg
<1>6. fire.no \in 1..fire.no BY <1>1
<1> QED BY <1>3, <1>4, <1>5, <1>6 DEF Bought

LEMMA TravelledFills ==
    ASSUME Typed, Marked, Travelled, StandDown \/ FirstFire \/ SecondFire PROVE Travelled'
<1>1. CASE StandDown
  <2>1. /\ World' = World /\ state' = state /\ stage' = "rules" BY <1>1, StandDownChanges
  <2>2. Records(state') = Records(state) BY <2>1
  <2> QED BY <2>1, <2>2, TravelledRows
<1>2. CASE FirstFire
  <2>1. /\ World' = World /\ Records(state') = Records(state) /\ stage = "fire" /\ stage' = "rules"
        /\ fire.s \in Sessions
    BY <1>2, FirstFireChanges
  <2>2. PICK f1 \in Fills, f2 \in Fills :
           \A k \in Keys :
              state'.rows[k] = IF k = Main(fire.s) /\ ~Open(k) THEN Row(FireLegs(f1, f2))
                               ELSE state.rows[k]
    BY <1>2, FirstFireChanges
  <2>3. ASSUME NEW s \in Sessions \ dropped, NEW l \in state'.rows[Main(s)].legs
        PROVE  l \in state.rows[Main(s)].legs \/ Bought(state, s, l)
    <3>1. Main(s) \in Keys /\ (Main(s) = Main(fire.s) => s = fire.s) BY <2>1, KeysIn
    <3>2. \/ state'.rows[Main(s)] = state.rows[Main(s)]
          \/ s = fire.s /\ state'.rows[Main(s)].legs = FireLegs(f1, f2)
      BY <2>2, <3>1 DEF Row
    <3> QED BY <2>1, <2>3, <3>2, BoughtNow
  <2> QED BY <2>1, <2>3, TravelledRows
<1>3. CASE SecondFire
  <2>1. /\ World' = World /\ Records(state') = Records(state) /\ stage = "fire" /\ stage' = "rules"
        /\ fire.s \in Sessions
    BY <1>3, SecondFireChanges
  <2>2. PICK f1 \in Fills, f2 \in Fills, bid \in Bids :
           LET new == WithShares(FireLegs(f1, f2)) IN
           /\ new = {} => state' = state
           /\ new # {} => \A k \in Keys :
                 state'.rows[k] = IF k = Main(fire.s) THEN Merged(state.rows[k], new, bid)
                                  ELSE state.rows[k]
    BY <1>3, SecondFireChanges
  <2> DEFINE new == WithShares(FireLegs(f1, f2))
             old == FirstYes(fire.s)
  <2>3. new \subseteq FireLegs(f1, f2) BY DEF WithShares
  <2>4. state.rows[Main(fire.s)] \in RowRec BY <2>1, KeysIn, RowsIn DEF Typed
  <2>5. \A l \in Merged(state.rows[Main(fire.s)], new, bid).legs :
            l \in state.rows[Main(fire.s)].legs \/ l \in new \/ ~OpenLeg(l)
    <3>1. YesHeld(fire.s) # {} => ~OpenLeg(Closed(old, bid))
      <4>1. ASSUME YesHeld(fire.s) # {} PROVE old \in LegRec
        <5>1. \A l \in YesHeld(fire.s) : l \in LegRec BY <2>4 DEF YesHeld, RowRec, LegSets
        <5>2. old \in YesHeld(fire.s) BY <4>1, <5>1, FirstYesIn
        <5> QED BY <5>1, <5>2
      <4> HIDE DEF old
      <4> QED BY <4>1 DEF OpenLeg, Closed, LegRec
    <3> HIDE DEF new, old
    <3> QED BY <2>4, <3>1 DEF Merged, RowRec, old
  <2> HIDE DEF new, old
  <2>6. ASSUME NEW s \in Sessions \ dropped, NEW l \in state'.rows[Main(s)].legs
        PROVE  l \in state.rows[Main(s)].legs \/ Bought(state, s, l)
    <3>1. Main(s) \in Keys /\ (Main(s) = Main(fire.s) => s = fire.s) BY <2>1, KeysIn
    <3>2. \/ state'.rows[Main(s)] = state.rows[Main(s)]
          \/ s = fire.s /\ state'.rows[Main(s)] = Merged(state.rows[Main(s)], new, bid)
      BY <2>2, <3>1 DEF new
    <3>3. ~OpenLeg(l) => Bought(state, s, l) BY DEF Bought
    <3>4. s = fire.s /\ l \in new => Bought(state, s, l) BY <2>1, <2>3, BoughtNow
    <3> QED BY <2>5, <3>2, <3>3, <3>4, <2>6
  <2> QED BY <2>1, <2>6, TravelledRows
<1> QED BY <1>1, <1>2, <1>3

LEMMA TravelledSleeves ==
    ASSUME Typed, Travelled, RetireSleeves \/ \E s \in Sessions : EnterSleeve(s)
    PROVE  Travelled'
<1>1. /\ World' = World /\ Records(state') = Records(state) /\ stage' # "fire"
      /\ \A t \in Sessions : state'.rows[Main(t)] = state.rows[Main(t)]
  <2>1. CASE RetireSleeves BY <2>1, RetireChanges
  <2>2. ASSUME NEW s \in Sessions, EnterSleeve(s)
        PROVE  /\ World' = World /\ Records(state') = Records(state) /\ stage' # "fire"
               /\ \A t \in Sessions : state'.rows[Main(t)] = state.rows[Main(t)]
    <3>1. \A k \in Keys : k # Sleeve(s) => state'.rows[k] = state.rows[k]
      BY <2>2, EnterChanges
    <3> QED BY <2>2, <3>1, KeysIn, EnterChanges
  <2> QED BY <2>1, <2>2
<1> QED BY <1>1, TravelledRows

(* A settlement closes legs, it opens none. *)
LEMMA ResolvedLegs ==
    ASSUME Typed, NEW k \in Keys, NEW pulled, NEW l \in Resolved(k, pulled).legs
    PROVE  l \in state.rows[k].legs \/ ~OpenLeg(l)
<1>1. CASE ~Ready(k) BY <1>1 DEF Resolved
<1>2. CASE Ready(k)
  <2>1. l \in {IF m.bucket \in pulled[k] THEN Outcome(m, k[1]) ELSE m : m \in state.rows[k].legs}
    BY <1>2 DEF Resolved
  <2>2. PICK m \in state.rows[k].legs : l = IF m.bucket \in pulled[k] THEN Outcome(m, k[1]) ELSE m
    BY <2>1
  <2>3. m \in LegRec BY RowsIn DEF Typed, LegSets
  <2> QED BY <2>2, <2>3 DEF Outcome, Closed, OpenLeg, LegRec
<1> QED BY <1>1, <1>2

LEMMA TravelledSettle == ASSUME Typed, Travelled, Settle PROVE Travelled'
<1>1. /\ World' = World /\ Records(state') = Records(state) /\ stage' = "save"
  BY SettleChanges
<1>2. PICK pulled \in [Keys -> SUBSET Buckets] :
         \A k \in Keys : state'.rows[k] = Resolved(k, pulled)
  BY SettleChanges
<1>3. ASSUME NEW s \in Sessions \ dropped, NEW l \in state'.rows[Main(s)].legs
      PROVE  l \in state.rows[Main(s)].legs \/ Bought(state, s, l)
  <2>1. Main(s) \in Keys BY KeysIn
  <2>2. l \in Resolved(Main(s), pulled).legs BY <1>2, <1>3, <2>1
  <2> QED BY <2>1, <2>2, ResolvedLegs DEF Bought
<1> QED BY <1>1, <1>3, TravelledRows

LEMMA TravelledKept == ASSUME Typed, Marked, Travelled, [Next]_vars PROVE Travelled'
<1>1. CASE UNCHANGED vars
  BY <1>1 DEF vars, Travelled, Recorded, Counted, Discipline, Bought, Aimed, Forward, Ahead,
              Today, Up
<1> QED
  BY <1>1, Steps, TravelledEnvironment, TravelledBegin, TravelledRule, TravelledFire,
     TravelledFills, TravelledSleeves, TravelledSettle

(* The first three layers, of which the theorems on records, fires and marks are read off:   *)
(* maybe_arm_or_fire and prune_stale_sessions keep the marks in step with rows and fires.    *)
THEOREM AlwaysMarked == Spec => [](Typed /\ Marked /\ Travelled)
<1>1. Init => Typed /\ Marked /\ Travelled BY TypedInit, MarkedInit, TravelledInit
<1>2. Typed /\ Marked /\ Travelled /\ [Next]_vars => (Typed /\ Marked /\ Travelled)'
  BY TypedKept, MarkedKept, TravelledKept
<1> QED BY <1>1, <1>2, PTL DEF Spec

(* The firing discipline of a day (MAX_FIRES_PER_SESSION, refire_target_index): no third    *)
(* fire, and a second one only on another observation and further on, however the reports   *)
(* are ordered and wherever cycles fail or the process dies.                                *)
THEOREM FiresAlwaysSound == Spec => []FiresSound
<1>1. Travelled => FiresSound
  BY DEF Travelled, Recorded, Discipline, FiresSound, AtMostTwice, SecondBreakIsFurther
<1> QED BY <1>1, AlwaysMarked, PTL

-----------------------------------------------------------------------------
(* The saved marks of a session implement SessionLife. *)
LEMMA FileMoves ==
    ASSUME Typed, [Next]_vars
    PROVE  /\ Today' => Today
           /\ dropped \subseteq dropped'
           /\ disk' = disk \/ disk' = state
<1>1. CASE Environment BY <1>1, EnvironmentChanges
<1>2. CASE UNCHANGED vars BY <1>2 DEF vars, Today
<1>3. CASE BeginCycle BY <1>3, BeginChanges DEF Today
<1>4. CASE World' = World BY <1>4 DEF World, Today
<1>5. CASE StandDown \/ FirstFire \/ SecondFire \/ RetireSleeves \/ Settle
           \/ \E s \in Sessions : EnterSleeve(s) \/ Rule(s) \/ Fire(s)
  <2>1. World' = World
    BY <1>5, StandDownChanges, FirstFireChanges, SecondFireChanges, RetireChanges,
       SettleChanges, EnterChanges, RuleChanges, FireChanges
  <2> QED BY <2>1, <1>4
<1> QED BY <1>1, <1>2, <1>3, <1>5, Steps

LEMMA PhaseForward ==
    ASSUME Typed, Travelled, Typed', [Next]_vars, NEW s \in Sessions
    PROVE  /\ Phase(s) \in Life!Phases /\ Phase(s)' \in Life!Phases
           /\ Phase(s)' = Phase(s) \/ Phase(s)' \in Life!Later[Phase(s)]
<1>1. disk.fired[s] \in {NoMark, Lock, 1, 2} /\ disk'.fired[s] \in {NoMark, Lock, 1, 2}
  BY MarksAre DEF Typed, Dict
<1>2. NoMark \notin {Lock, 1, 2} /\ Lock \notin {1, 2} BY DEF NoMark, Lock
<1> DEFINE over == ~Today \/ s \in dropped
<1>3. over => over' BY FileMoves
<1>4. ~over => Ahead(s) BY DEF Travelled, Forward
<1>5. /\ over => Phase(s) = "over"
      /\ ~over /\ disk.fired[s] = NoMark => Phase(s) = "waiting"
      /\ ~over /\ disk.fired[s] = Lock => Phase(s) = "locked"
      /\ ~over /\ disk.fired[s] = 1 => Phase(s) = "once"
      /\ ~over /\ disk.fired[s] = 2 => Phase(s) = "twice"
  BY <1>2 DEF Phase
<1>6. /\ over' => Phase(s)' = "over"
      /\ ~over' /\ disk'.fired[s] = NoMark => Phase(s)' = "waiting"
      /\ ~over' /\ disk'.fired[s] = Lock => Phase(s)' = "locked"
      /\ ~over' /\ disk'.fired[s] = 1 => Phase(s)' = "once"
      /\ ~over' /\ disk'.fired[s] = 2 => Phase(s)' = "twice"
  BY <1>2 DEF Phase
<1> HIDE DEF over
<1>7. disk' = disk \/ disk' = state BY FileMoves
<1>8. Phase(s) \in Life!Phases /\ Phase(s)' \in Life!Phases
  BY <1>1, <1>5, <1>6 DEF Life!Phases
<1>9. CASE over' BY <1>1, <1>5, <1>6, <1>8, <1>9 DEF Life!Later
<1>10. CASE ~over' /\ disk' = disk BY <1>1, <1>3, <1>5, <1>6, <1>8, <1>10
<1>11. CASE ~over' /\ disk' = state
  <2>1. Ahead(s) /\ ~over BY <1>3, <1>4, <1>11
  <2>2. \/ disk.fired[s] = NoMark
        \/ disk'.fired[s] = disk.fired[s]
        \/ disk.fired[s] = 1 /\ disk'.fired[s] = 2
    BY <1>11, <2>1 DEF Ahead
  <2> QED BY <1>1, <1>5, <1>6, <1>8, <1>11, <2>1, <2>2 DEF Life!Later
<1> QED BY <1>7, <1>8, <1>9, <1>10, <1>11

(* The refinement: the marks in the state file go from waiting to a lock, or over one fire   *)
(* to two, and nothing leads back while the day lasts, whatever is lost and loaded again.   *)
THEOREM LifeAlwaysGoesForward == Spec => LifeGoesForward
<1>1. Init => Life!Init
  <2>1. ASSUME Init, NEW s \in Sessions PROVE Phase(s) = "waiting"
    BY <2>1 DEF Init, Phase, Today
  <2> QED BY <2>1 DEF Life!Init
<1>2. ASSUME Typed, Travelled, Typed', [Next]_vars
      PROVE  Life!Next
  BY <1>2, PhaseForward DEF Life!Next
<1>3. Typed /\ Travelled /\ Typed' /\ [Next]_vars
         => [Life!Next]_([s \in Sessions |-> Phase(s)])
  BY <1>2
<1> QED BY <1>1, <1>3, AlwaysMarked, PTL DEF Spec, LifeGoesForward, Life!Spec

-----------------------------------------------------------------------------
(* Explained: the ledger is what the rows cost and did not bring back. *)
Net(l) == l.cost - l.payout

LEMMA CostOf == ASSUME NEW legs \in LegSets, NEW f, \A l \in legs : f[l] = Net(l)
                PROVE  Cost(legs) = SumFunctionOnSet(f, legs)
<1> DEFINE g == [l \in legs |-> l.cost - l.payout]
<1>1. \A l \in legs : g[l] \in Int /\ g[l] = f[l] BY DEF LegSets, LegRec, Net
<1>2. IsFiniteSet(legs) BY DEF LegSets
<1>3. Cost(legs) = SumFunctionOnSet(g, legs) BY DEF Cost
<1> HIDE DEF g
<1> QED BY <1>1, <1>2, <1>3, SumSame

LEMMA CostUnion == ASSUME NEW a \in LegSets, NEW b \in LegSets, a \cap b = {}
                   PROVE  Cost(a \cup b) = Cost(a) + Cost(b)
<1> DEFINE f == [l \in a \cup b |-> Net(l)]
<1>1. \A l \in a \cup b : f[l] \in Int /\ f[l] = Net(l) BY DEF LegSets, LegRec, Net
<1>2. IsFiniteSet(a) /\ IsFiniteSet(b) BY DEF LegSets
<1>3. a \cup b \in LegSets BY UnionIn
<1> HIDE DEF f
<1>4. SumFunctionOnSet(f, a \cup b) = SumFunctionOnSet(f, a) + SumFunctionOnSet(f, b)
  BY <1>1, <1>2, SumUnion
<1>5. Cost(a \cup b) = SumFunctionOnSet(f, a \cup b) BY <1>1, <1>3, CostOf
<1>6. Cost(a) = SumFunctionOnSet(f, a) /\ Cost(b) = SumFunctionOnSet(f, b) BY <1>1, CostOf
<1> QED BY <1>4, <1>5, <1>6

LEMMA NoneIn == {} \in LegSets
BY FS_EmptySet DEF LegSets

LEMMA CostNone == Cost({}) = 0
<1>1. SumFunctionOnSet([l \in {} |-> l.cost - l.payout], {}) = 0 BY SumEmpty
<1> QED BY <1>1 DEF Cost

LEMMA CostOne == ASSUME NEW l \in LegRec PROVE Cost({l}) = Net(l)
<1> DEFINE f == [m \in {l} |-> Net(m)]
<1>1. f[l] = Net(l) /\ Net(l) \in Int BY DEF LegRec, Net
<1>2. {l} \in LegSets BY OneLegIn
<1> HIDE DEF f
<1>3. SumFunctionOnSet(f, {} \cup {l}) = f[l] + SumFunctionOnSet(f, {})
  BY <1>1, FS_EmptySet, SumWith
<1>4. SumFunctionOnSet(f, {}) = 0 BY SumEmpty
<1>5. Cost({l}) = SumFunctionOnSet(f, {l})
  <2>1. \A m \in {l} : f[m] = Net(m) BY <1>1
  <2> QED BY <1>2, <2>1, CostOf
<1>6. {} \cup {l} = {l} OBVIOUS
<1> QED BY <1>1, <1>3, <1>4, <1>5, <1>6

(* A fire's legs are two, and cost what the fills cost; unfilled ones cost nothing. *)
LEMMA FireCost ==
    ASSUME fire.no \in 1..MaxFires, fire.broken \in Buckets, fire.new \in Buckets,
           NEW f1 \in Fills, NEW f2 \in Fills
    PROVE  /\ Cost(FireLegs(f1, f2)) = f1.cost + f2.cost
           /\ Cost(WithShares(FireLegs(f1, f2))) = f1.cost + f2.cost
<1> DEFINE a == NewLeg(fire.no, "NO", fire.broken, f1)  b == NewLeg(fire.no, "YES", fire.new, f2)
<1>1. fire.no \in 0..MaxFires BY ConstantsAssumption
<1>2. a \in LegRec /\ b \in LegRec BY <1>1, NewLegIn
<1>3. a # b /\ Net(a) = f1.cost /\ Net(b) = f2.cost /\ a.shares = f1.shares /\ b.shares = f2.shares
  BY DEF NewLeg, Net, Fills, Filled, Unfilled
<1>4. /\ f1.cost \in Nat /\ f2.cost \in Nat
      /\ f1.shares > 0 \/ f1.cost = 0
      /\ f2.shares > 0 \/ f2.cost = 0
  BY DEF Fills, Filled, Unfilled
<1>5. FireLegs(f1, f2) = {a} \cup {b} BY DEF FireLegs
<1> HIDE DEF a, b
<1>6. {a} \in LegSets /\ {b} \in LegSets BY <1>2, OneLegIn
<1>7. Cost({a}) = f1.cost /\ Cost({b}) = f2.cost BY <1>2, <1>3, CostOne
<1>8. Cost({a} \cup {b}) = f1.cost + f2.cost
  <2>1. {a} \cap {b} = {} BY <1>3
  <2> QED BY <1>6, <1>7, <2>1, CostUnion
<1>9. WithShares(FireLegs(f1, f2))
        = (IF f1.shares > 0 THEN {a} ELSE {}) \cup (IF f2.shares > 0 THEN {b} ELSE {})
  BY <1>3, <1>5 DEF WithShares
<1>10. Cost(WithShares(FireLegs(f1, f2))) = f1.cost + f2.cost
  <2>1. CASE f1.shares > 0 /\ f2.shares > 0 BY <1>8, <1>9, <2>1
  <2>2. CASE f1.shares > 0 /\ ~(f2.shares > 0)
    <3>1. WithShares(FireLegs(f1, f2)) = {a} BY <1>9, <2>2
    <3> QED BY <1>4, <1>7, <2>2, <3>1
  <2>3. CASE ~(f1.shares > 0) /\ f2.shares > 0
    <3>1. WithShares(FireLegs(f1, f2)) = {b} BY <1>9, <2>3
    <3> QED BY <1>4, <1>7, <2>3, <3>1
  <2>4. CASE ~(f1.shares > 0) /\ ~(f2.shares > 0)
    <3>1. WithShares(FireLegs(f1, f2)) = {} BY <1>9, <2>4
    <3> QED BY <1>4, <2>4, <3>1, CostNone
  <2> QED BY <2>1, <2>2, <2>3, <2>4
<1> QED BY <1>5, <1>8, <1>10

-----------------------------------------------------------------------------
(* The sum over the rows. *)
Total(rows) == SumFunctionOnSet([k \in Keys |-> Cost(rows[k].legs)], Keys)

LEMMA TotalSame ==
    ASSUME NEW r, NEW q, \A k \in Keys : r[k].legs \in LegSets /\ Cost(q[k].legs) = Cost(r[k].legs)
    PROVE  Total(q) = Total(r) /\ Total(r) \in Int
<1> DEFINE f == [k \in Keys |-> Cost(r[k].legs)]  g == [k \in Keys |-> Cost(q[k].legs)]
<1>1. \A k \in Keys : f[k] \in Int /\ f[k] = g[k] BY CostInt
<1> HIDE DEF f, g
<1>2. SumFunctionOnSet(f, Keys) = SumFunctionOnSet(g, Keys) /\ SumFunctionOnSet(f, Keys) \in Int
  BY <1>1, FiniteKeys, SumSame, SumInt
<1> QED BY <1>2 DEF f, g, Total

LEMMA TotalInt == ASSUME NEW r, \A k \in Keys : r[k].legs \in LegSets PROVE Total(r) \in Int
BY TotalSame

(* One row rewritten. *)
LEMMA TotalChange ==
    ASSUME NEW r, NEW q, NEW key \in Keys,
           \A k \in Keys : /\ r[k].legs \in LegSets /\ q[k].legs \in LegSets
                           /\ k # key => q[k].legs = r[k].legs
    PROVE  Total(q) = Total(r) - Cost(r[key].legs) + Cost(q[key].legs)
<1> DEFINE f == [k \in Keys |-> Cost(r[k].legs)]  g == [k \in Keys |-> Cost(q[k].legs)]
<1>1. \A k \in Keys : f[k] \in Int /\ g[k] \in Int /\ (k # key => f[k] = g[k]) BY CostInt
<1>2. f[key] = Cost(r[key].legs) /\ g[key] = Cost(q[key].legs) OBVIOUS
<1> HIDE DEF f, g
<1>3. SumFunctionOnSet(g, Keys) = SumFunctionOnSet(f, Keys) - f[key] + g[key]
  BY <1>1, FiniteKeys, SumChange
<1> QED BY <1>2, <1>3 DEF f, g, Total

(* Every row cheaper by what its key brought. *)
LEMMA TotalBrought ==
    ASSUME NEW r, NEW q, NEW brought,
           \A k \in Keys : /\ r[k].legs \in LegSets /\ q[k].legs \in LegSets
                           /\ brought[k] \in Int
                           /\ Cost(q[k].legs) = Cost(r[k].legs) - brought[k]
    PROVE  Total(q) = Total(r) - SumFunctionOnSet(brought, Keys)
<1> DEFINE f == [k \in Keys |-> Cost(r[k].legs)]  g == [k \in Keys |-> Cost(q[k].legs)]
<1>1. \A k \in Keys : f[k] \in Int /\ g[k] \in Int /\ brought[k] \in Int
                      /\ f[k] = g[k] + brought[k]
  <2> SUFFICES ASSUME NEW k \in Keys
               PROVE  f[k] \in Int /\ g[k] \in Int /\ brought[k] \in Int
                      /\ f[k] = g[k] + brought[k]
    OBVIOUS
  <2>1. Cost(r[k].legs) \in Int /\ Cost(q[k].legs) \in Int BY CostInt
  <2>2. f[k] = Cost(r[k].legs) /\ g[k] = Cost(q[k].legs) OBVIOUS
  <2> HIDE DEF f, g
  <2> QED BY <2>1, <2>2
<1> HIDE DEF f, g
<1>2. SumFunctionOnSet(f, Keys) = SumFunctionOnSet(g, Keys) + SumFunctionOnSet(brought, Keys)
  BY <1>1, FiniteKeys, SumPlus
<1>3. SumFunctionOnSet(g, Keys) \in Int /\ SumFunctionOnSet(brought, Keys) \in Int
  BY <1>1, FiniteKeys, SumInt
<1>4. Total(q) = SumFunctionOnSet(g, Keys) /\ Total(r) = SumFunctionOnSet(f, Keys)
  BY DEF f, g, Total
<1> QED BY <1>2, <1>3, <1>4

-----------------------------------------------------------------------------
(* Clean: what tells the legs of a row apart, and what they have brought. *)
Distinct(legs) == \A l, m \in legs : l.fire = m.fire /\ l.outcome = m.outcome => l = m
Unpaid(legs)   == \A l \in legs : OpenLeg(l) => l.payout = 0
(* A sleeve's row has one leg, which is open as long as the row is. *)
OneLeg(row) == /\ \A l, m \in row.legs : l = m
               /\ ~row.settled => \A l \in row.legs : OpenLeg(l)
(* No leg of an open row is younger than the row's mark. *)
UpTo(row, mark) == ~row.settled /\ mark \in 1..MaxFires => \A l \in row.legs : l.fire <= mark
Clean(st) == /\ \A k \in Keys : Distinct(st.rows[k].legs) /\ Unpaid(st.rows[k].legs)
             /\ \A s \in Sessions : /\ OneLeg(st.rows[Sleeve(s)])
                                    /\ UpTo(st.rows[Main(s)], st.fired[s])
(* A second fire in flight finds the legs of the first. *)
FirstLegs == stage = "fire" /\ fire.no = 2 => \A l \in state.rows[Main(fire.s)].legs : l.fire <= 1
Tidy == Clean(state) /\ Clean(disk) /\ FirstLegs

LEMMA TidyInit == ASSUME Init PROVE Tidy
<1>1. stage # "fire" /\ disk = state /\ \A k \in Keys : state.rows[k].legs = {}
  BY DEF Init, NoRow
<1> QED BY <1>1, KeysIn DEF Tidy, Clean, Distinct, Unpaid, OneLeg, UpTo, FirstLegs

LEMMA TidyEnvironment == ASSUME Typed, Tidy, Environment PROVE Tidy'
<1>1. state' \in {state, disk} /\ disk' \in {state, disk} /\ stage' = "idle"
  BY EnvironmentChanges
<1> QED BY <1>1 DEF Tidy, Clean, Distinct, Unpaid, OneLeg, UpTo, FirstLegs

(* The rows stand, and a mark only goes, or is a lock. *)
LEMMA TidyMarks ==
    ASSUME Tidy, disk' = disk, stage' # "fire", state'.rows = state.rows,
           \A s \in Sessions : state'.fired[s] = state.fired[s] \/ state'.fired[s] \notin 1..MaxFires
    PROVE  Tidy'
BY DEF Tidy, Clean, Distinct, Unpaid, OneLeg, UpTo, FirstLegs

LEMMA TidyBeginRule ==
    ASSUME Typed, Tidy, BeginCycle \/ \E s \in Sessions : Rule(s) PROVE Tidy'
<1>1. CASE BeginCycle
  <2>1. disk' = disk /\ stage' = "rules" /\ state'.rows = state.rows
    BY <1>1, BeginChanges DEF Ledger
  <2>2. \A s \in Sessions : state'.fired[s] = state.fired[s] \/ state'.fired[s] \notin 1..MaxFires
    BY <1>1, BeginChanges, MarksAre
  <2> QED BY <2>1, <2>2, TidyMarks
<1>2. ASSUME NEW s \in Sessions, Rule(s) PROVE Tidy'
  <2>1. disk' = disk /\ stage' = "rules" /\ state'.rows = state.rows
    BY <1>2, RuleChanges DEF Ledger, World
  <2>2. \A t \in Sessions : state'.fired[t] = state.fired[t] \/ state'.fired[t] \notin 1..MaxFires
    BY <1>2, RuleChanges, MarksAre
  <2> QED BY <2>1, <2>2, TidyMarks
<1> QED BY <1>1, <1>2

LEMMA TidyFire == ASSUME Typed, Marked, Tidy, NEW s \in Sessions, Fire(s) PROVE Tidy'
<1>0. /\ disk' = disk /\ state'.rows = state.rows
      /\ fire'.s = s /\ fire'.no = FiresUsed(s) + 1
      /\ state'.fired = [state.fired EXCEPT ![s] = fire'.no]
      /\ s \in state.armed \cup state.ever
      /\ \/ FiresUsed(s) = 0 /\ ~Open(Main(s))
         \/ FiresUsed(s) = 1 /\ state.fired[s] \in {Lock, 1} /\ Open(Main(s))
  BY FireChanges DEF World, Advanced
<1>1. state'.fired[s] = fire'.no /\ \A t \in Sessions : t # s => state'.fired[t] = state.fired[t]
  <2>1. state.fired \in [Sessions -> Marks] BY DEF Typed, Dict
  <2> QED BY <1>0, <2>1
<1>2. Open(Main(s)) => fire'.no = 2 /\ \A l \in state.rows[Main(s)].legs : l.fire <= 1
  <2> SUFFICES ASSUME Open(Main(s))
               PROVE  fire'.no = 2 /\ \A l \in state.rows[Main(s)].legs : l.fire <= 1
    OBVIOUS
  <2>1. FiresUsed(s) = 1 /\ state.fired[s] \in {Lock, 1} BY <1>0
  <2>2. state.fired[s] \in 1..MaxFires BY <1>0 DEF Marked, Protected, RowOpen, Open
  <2>3. state.fired[s] = 1 BY <2>1, <2>2, MarksAre
  <2>4. UpTo(state.rows[Main(s)], 1) BY <2>3 DEF Tidy, Clean
  <2> QED BY <1>0, <2>1, <2>2, <2>3, <2>4 DEF UpTo, Open
<1>3. \A l \in state.rows[Main(s)].legs : l.fire \in Nat
  <2>1. state.rows[Main(s)].legs \in LegSets BY KeysIn, RowsIn DEF Typed
  <2> QED BY <2>1, ConstantsAssumption DEF LegSets, LegRec
<1>4. UpTo(state'.rows[Main(s)], state'.fired[s])
  BY <1>0, <1>1, <1>2, <1>3 DEF UpTo, Open
<1>5. Clean(state)'
  <2>1. \A t \in Sessions : t # s => UpTo(state'.rows[Main(t)], state'.fired[t])
    BY <1>0, <1>1 DEF Tidy, Clean
  <2>2. \A k \in Keys : Distinct(state'.rows[k].legs) /\ Unpaid(state'.rows[k].legs)
    BY <1>0 DEF Tidy, Clean
  <2>3. \A t \in Sessions : OneLeg(state'.rows[Sleeve(t)])
    BY <1>0 DEF Tidy, Clean
  <2> QED BY <1>4, <2>1, <2>2, <2>3 DEF Clean, Distinct, Unpaid, OneLeg, UpTo
<1>6. Clean(disk)' BY <1>0 DEF Tidy, Clean, Distinct, Unpaid, OneLeg, UpTo
<1>7. FirstLegs'
  <2>1. fire'.no = 2 => Open(Main(s)) BY <1>0
  <2> QED BY <1>0, <1>2, <2>1 DEF FirstLegs
<1> QED BY <1>5, <1>6, <1>7 DEF Tidy

(* Rows that change while the records stand. *)
LEMMA TidyRows ==
    ASSUME Tidy, World' = World, Records(state') = Records(state), stage' # "fire",
           \A s \in Sessions :
               /\ LET row == state'.rows[Main(s)] IN
                  \/ row = state.rows[Main(s)]
                  \/ Distinct(row.legs) /\ Unpaid(row.legs) /\ UpTo(row, state.fired[s])
               /\ LET row == state'.rows[Sleeve(s)] IN
                  \/ row = state.rows[Sleeve(s)]
                  \/ Distinct(row.legs) /\ Unpaid(row.legs) /\ OneLeg(row)
    PROVE  Tidy'
<1>1. disk' = disk /\ state'.fired = state.fired BY DEF World, Records
<1>2. \A s \in Sessions : Main(s) \in Keys /\ Sleeve(s) \in Keys BY KeysIn
<1>3. \A k \in Keys : \E s \in Sessions : k = Main(s) \/ k = Sleeve(s)
  BY DEF Keys, Main, Sleeve
<1>4. \A s \in Sessions :
         /\ Distinct(state'.rows[Main(s)].legs) /\ Unpaid(state'.rows[Main(s)].legs)
         /\ UpTo(state'.rows[Main(s)], state'.fired[s])
         /\ Distinct(state'.rows[Sleeve(s)].legs) /\ Unpaid(state'.rows[Sleeve(s)].legs)
         /\ OneLeg(state'.rows[Sleeve(s)])
  BY <1>1, <1>2 DEF Tidy, Clean
<1>5. \A k \in Keys : Distinct(state'.rows[k].legs) /\ Unpaid(state'.rows[k].legs)
  BY <1>3, <1>4
<1>6. Clean(state)' BY <1>4, <1>5 DEF Clean, Distinct, Unpaid, OneLeg, UpTo
<1>7. Clean(disk)' BY <1>1 DEF Tidy, Clean, Distinct, Unpaid, OneLeg, UpTo
<1> QED BY <1>6, <1>7 DEF Tidy, FirstLegs

LEMMA TidyEnter == ASSUME Typed, Tidy, NEW s \in Sessions, EnterSleeve(s) PROVE Tidy'
<1>1. /\ World' = World /\ Records(state') = Records(state) /\ stage' # "fire"
      /\ \A k \in Keys : k # Sleeve(s) => state'.rows[k] = state.rows[k]
      /\ \/ state'.rows = state.rows
         \/ \E b \in SleeveBuckets, fill \in Fills :
               state'.rows[Sleeve(s)] = Row({NewLeg(0, "YES", b, fill)})
  BY EnterChanges
<1>2. \A t \in Sessions : /\ state'.rows[Main(t)] = state.rows[Main(t)]
                          /\ t # s => state'.rows[Sleeve(t)] = state.rows[Sleeve(t)]
  BY <1>1, KeysIn
<1>3. ASSUME NEW b \in SleeveBuckets, NEW fill \in Fills
      PROVE  LET row == Row({NewLeg(0, "YES", b, fill)}) IN
             Distinct(row.legs) /\ Unpaid(row.legs) /\ OneLeg(row)
  BY DEF Row, NewLeg, Distinct, Unpaid, OneLeg, OpenLeg
<1>4. \/ state'.rows[Sleeve(s)] = state.rows[Sleeve(s)]
      \/ /\ Distinct(state'.rows[Sleeve(s)].legs) /\ Unpaid(state'.rows[Sleeve(s)].legs)
         /\ OneLeg(state'.rows[Sleeve(s)])
  BY <1>1, <1>3
<1> QED BY <1>1, <1>2, <1>4, TidyRows

LEMMA FireLegsClean ==
    ASSUME NEW f1 \in Fills, NEW f2 \in Fills
    PROVE  /\ Distinct(FireLegs(f1, f2)) /\ Unpaid(FireLegs(f1, f2))
           /\ \A l \in FireLegs(f1, f2) : l.fire = fire.no /\ OpenLeg(l)
BY DEF FireLegs, NewLeg, Distinct, Unpaid, OpenLeg

LEMMA TidyFirst == ASSUME Typed, Marked, Tidy, FirstFire PROVE Tidy'
<1>1. /\ World' = World /\ Records(state') = Records(state) /\ stage = "fire" /\ stage' = "rules"
      /\ fire.s \in Sessions /\ fire.no = 1
  BY FirstFireChanges
<1>2. PICK f1 \in Fills, f2 \in Fills :
         \A k \in Keys :
            state'.rows[k] = IF k = Main(fire.s) /\ ~Open(k) THEN Row(FireLegs(f1, f2))
                             ELSE state.rows[k]
  BY FirstFireChanges
<1>3. /\ \A t \in Sessions : /\ state'.rows[Sleeve(t)] = state.rows[Sleeve(t)]
                             /\ t # fire.s => state'.rows[Main(t)] = state.rows[Main(t)]
      /\ \/ state'.rows[Main(fire.s)] = state.rows[Main(fire.s)]
         \/ state'.rows[Main(fire.s)] = Row(FireLegs(f1, f2))
  BY <1>1, <1>2, KeysIn
<1>4. state.fired[fire.s] = 1 BY <1>1 DEF Marked, Flying
<1>5. LET row == Row(FireLegs(f1, f2)) IN
      Distinct(row.legs) /\ Unpaid(row.legs) /\ UpTo(row, state.fired[fire.s])
  BY <1>1, <1>4, FireLegsClean DEF Row, UpTo
<1>6. \/ state'.rows[Main(fire.s)] = state.rows[Main(fire.s)]
      \/ /\ Distinct(state'.rows[Main(fire.s)].legs) /\ Unpaid(state'.rows[Main(fire.s)].legs)
         /\ UpTo(state'.rows[Main(fire.s)], state.fired[fire.s])
  BY <1>3, <1>5
<1> QED BY <1>1, <1>3, <1>6, TidyRows

(* The second fire's legs join the row of the first, where the leg it sells is open. *)
LEMMA MergedClean ==
    ASSUME Typed, Marked, Tidy, stage = "fire", fire.no = 2,
           NEW new \in LegSets, Distinct(new), Unpaid(new),
           \A l \in new : l.fire = 2, NEW bid \in Bids
    PROVE  LET row == state.rows[Main(fire.s)]
               old == FirstYes(fire.s)
               merged == Merged(row, new, bid)
           IN  /\ Distinct(merged.legs) /\ Unpaid(merged.legs)
               /\ row.legs \cap new = {}
               /\ row.legs \in LegSets
               /\ YesHeld(fire.s) # {} => /\ old \in row.legs /\ OpenLeg(old) /\ old.payout = 0
                                          /\ Closed(old, bid) \in LegRec
                                          /\ Closed(old, bid) \notin row.legs \cup new
                                          /\ Net(Closed(old, bid)) = Net(old) - bid
<1> DEFINE row == state.rows[Main(fire.s)]
           old == FirstYes(fire.s)
<1>1. fire.s \in Sessions BY DEF Typed, CycleTyped
<1>2. row \in RowRec /\ row.legs \in LegSets /\ Main(fire.s) \in Keys
  BY <1>1, KeysIn, RowsIn DEF Typed
<1>3. /\ Distinct(row.legs) /\ Unpaid(row.legs) /\ \A l \in row.legs : l.fire <= 1
  BY <1>1, <1>2 DEF Tidy, Clean, FirstLegs
<1>4. \A l \in row.legs : l \in LegRec BY <1>2 DEF LegSets
<1>5. row.legs \cap new = {} BY <1>3, <1>4 DEF LegRec
<1>6. ASSUME YesHeld(fire.s) # {}
      PROVE  /\ old \in row.legs /\ OpenLeg(old) /\ old.payout = 0
             /\ Closed(old, bid) \in LegRec
             /\ Closed(old, bid).fire = old.fire /\ Closed(old, bid).outcome = old.outcome
             /\ ~OpenLeg(Closed(old, bid))
             /\ Net(Closed(old, bid)) = Net(old) - bid
  <2>1. \A l \in YesHeld(fire.s) : l \in row.legs /\ OpenLeg(l) /\ l \in LegRec
    BY <1>4 DEF YesHeld
  <2>2. old \in YesHeld(fire.s) BY <1>6, <2>1, FirstYesIn
  <2>3. old \in row.legs /\ OpenLeg(old) /\ old \in LegRec BY <2>1, <2>2
  <2> HIDE DEF old, row
  <2>4. old.payout = 0 BY <1>3, <2>3 DEF Unpaid
  <2>5. bid \in Nat BY DEF Bids
  <2>6. /\ Closed(old, bid).fire = old.fire /\ Closed(old, bid).outcome = old.outcome
        /\ Closed(old, bid).cost = old.cost /\ Closed(old, bid).payout = bid
        /\ Closed(old, bid).status = "settled"
    BY <2>3 DEF Closed, LegRec
  <2>7. Closed(old, bid) \in LegRec BY <2>3, <2>5, ClosedIn
  <2>8. old.cost \in Nat BY <2>3 DEF LegRec
  <2>9. Net(Closed(old, bid)) = Net(old) - bid BY <2>4, <2>5, <2>6, <2>8 DEF Net
  <2> QED BY <2>3, <2>4, <2>6, <2>7, <2>9 DEF OpenLeg
<1> HIDE DEF row, old
<1>7. YesHeld(fire.s) # {} => Closed(old, bid) \notin row.legs \cup new
  <2> SUFFICES ASSUME YesHeld(fire.s) # {} PROVE Closed(old, bid) \notin row.legs \cup new
    OBVIOUS
  <2>1. Closed(old, bid) \notin row.legs BY <1>3, <1>6 DEF Distinct
  <2>2. old.fire <= 1 BY <1>3, <1>6
  <2> QED BY <1>6, <2>1, <2>2
<1>8. LET legs == (row.legs \ {old}) \cup {Closed(old, bid)} \cup new IN
      YesHeld(fire.s) # {} => Distinct(legs) /\ Unpaid(legs)
  <2> SUFFICES ASSUME YesHeld(fire.s) # {}
               PROVE  LET legs == (row.legs \ {old}) \cup {Closed(old, bid)} \cup new IN
                      Distinct(legs) /\ Unpaid(legs)
    OBVIOUS
  <2>1. \A l \in row.legs : l.fire # 2 BY <1>3, <1>4 DEF LegRec
  <2>2. old.fire # 2 BY <1>6, <2>1
  <2> QED BY <1>3, <1>6, <2>1, <2>2 DEF Distinct, Unpaid
<1>9. Distinct(row.legs \cup new) /\ Unpaid(row.legs \cup new)
  <2>1. \A l \in row.legs : l.fire # 2 BY <1>3, <1>4 DEF LegRec
  <2> QED BY <1>3, <2>1 DEF Distinct, Unpaid
<1>10. LET merged == Merged(row, new, bid) IN
       \/ merged.legs = row.legs \cup new
       \/ /\ YesHeld(fire.s) # {}
          /\ merged.legs = (row.legs \ {old}) \cup {Closed(old, bid)} \cup new
  BY <1>2 DEF Merged, old, RowRec
<1>11. Distinct(Merged(row, new, bid).legs) /\ Unpaid(Merged(row, new, bid).legs)
  BY <1>8, <1>9, <1>10
<1> QED BY <1>2, <1>5, <1>6, <1>7, <1>11 DEF row, old

LEMMA NewLegsClean ==
    ASSUME NEW f1 \in Fills, NEW f2 \in Fills
    PROVE  LET new == WithShares(FireLegs(f1, f2)) IN
           /\ Distinct(new) /\ Unpaid(new)
           /\ \A l \in new : l.fire = fire.no
<1>1. WithShares(FireLegs(f1, f2)) \subseteq FireLegs(f1, f2) BY DEF WithShares
<1> QED BY <1>1, FireLegsClean DEF Distinct, Unpaid

LEMMA TidySecond == ASSUME Typed, Typed', Marked, Tidy, SecondFire PROVE Tidy'
<1>1. /\ World' = World /\ Records(state') = Records(state) /\ stage = "fire" /\ stage' = "rules"
      /\ fire.s \in Sessions /\ fire.no = 2
  BY SecondFireChanges
<1>2. PICK f1 \in Fills, f2 \in Fills, bid \in Bids :
         LET new == WithShares(FireLegs(f1, f2)) IN
         /\ new = {} => state' = state
         /\ new # {} => \A k \in Keys :
               state'.rows[k] = IF k = Main(fire.s) THEN Merged(state.rows[k], new, bid)
                                ELSE state.rows[k]
  BY SecondFireChanges
<1> DEFINE new == WithShares(FireLegs(f1, f2))
<1>3. new \in LegSets /\ Distinct(new) /\ Unpaid(new) /\ \A l \in new : l.fire = 2
  BY <1>1, NewLegsClean, FireLegsIn DEF Typed, CycleTyped
<1>4. /\ new = {} => state' = state
      /\ new # {} => \A k \in Keys :
               state'.rows[k] = IF k = Main(fire.s) THEN Merged(state.rows[k], new, bid)
                                ELSE state.rows[k]
  BY <1>2
<1> HIDE DEF new
<1>5. LET merged == Merged(state.rows[Main(fire.s)], new, bid) IN
      Distinct(merged.legs) /\ Unpaid(merged.legs)
  BY <1>1, <1>3, MergedClean
<1>6. /\ \A t \in Sessions : /\ state'.rows[Sleeve(t)] = state.rows[Sleeve(t)]
                             /\ t # fire.s => state'.rows[Main(t)] = state.rows[Main(t)]
      /\ \/ state'.rows[Main(fire.s)] = state.rows[Main(fire.s)]
         \/ state'.rows[Main(fire.s)] = Merged(state.rows[Main(fire.s)], new, bid)
  BY <1>1, <1>4, KeysIn
<1>7. state.fired[fire.s] = 2 BY <1>1 DEF Marked, Flying
<1>8. \A l \in state'.rows[Main(fire.s)].legs : l.fire <= 2
  <2>1. state'.rows[Main(fire.s)].legs \in LegSets BY <1>1, KeysIn, RowsIn DEF Typed
  <2>2. \A n \in 0..MaxFires : n <= 2 BY ConstantsAssumption
  <2> QED BY <2>1, <2>2 DEF LegSets, LegRec
<1>9. UpTo(state'.rows[Main(fire.s)], state.fired[fire.s]) BY <1>7, <1>8 DEF UpTo
<1>10. \/ state'.rows[Main(fire.s)] = state.rows[Main(fire.s)]
       \/ /\ Distinct(state'.rows[Main(fire.s)].legs) /\ Unpaid(state'.rows[Main(fire.s)].legs)
          /\ UpTo(state'.rows[Main(fire.s)], state.fired[fire.s])
  BY <1>5, <1>6, <1>9
<1> QED BY <1>1, <1>6, <1>10, TidyRows

LEMMA TidyStandDown == ASSUME Typed, Tidy, StandDown PROVE Tidy'
<1>1. World' = World /\ state' = state /\ stage' = "rules" BY StandDownChanges
<1>2. Records(state') = Records(state) BY <1>1
<1> QED BY <1>1, <1>2, TidyRows

LEMMA TidyRetire == ASSUME Typed, Tidy, RetireSleeves PROVE Tidy'
<1>1. World' = World /\ Records(state') = Records(state) /\ stage' = "settle"
  BY RetireChanges
<1>2. PICK old \in SUBSET Sessions, bid \in Bids :
         \A s \in Sessions :
               /\ state'.rows[Main(s)] = state.rows[Main(s)]
               /\ state'.rows[Sleeve(s)]
                    = IF Sells(s, old) THEN [SoldRow(s, bid) EXCEPT !.settled = TRUE]
                      ELSE state.rows[Sleeve(s)]
  BY RetireChanges
<1>3. ASSUME NEW s \in Sessions
      PROVE  LET row == [SoldRow(s, bid) EXCEPT !.settled = TRUE] IN
             Distinct(row.legs) /\ Unpaid(row.legs) /\ OneLeg(row)
  <2> DEFINE legs == {Closed(l, IF l.shares > 0 THEN bid ELSE 0) : l \in SleeveLegs(s)}
  <2>1. OneLeg(state.rows[Sleeve(s)]) /\ state.rows[Sleeve(s)].legs \in LegSets
    BY KeysIn, RowsIn DEF Tidy, Clean, Typed
  <2>2. \A l, m \in SleeveLegs(s) : l = m BY <2>1 DEF OneLeg, SleeveLegs
  <2>3. \A l, m \in legs : l = m BY <2>2
  <2>4. \A l \in legs : ~OpenLeg(l)
    BY <2>1 DEF Closed, OpenLeg, LegRec, LegSets, SleeveLegs
  <2>5. LET row == [SoldRow(s, bid) EXCEPT !.settled = TRUE] IN
        row.legs = legs /\ row.settled = TRUE
    BY DEF SoldRow, Row
  <2> HIDE DEF legs
  <2> QED BY <2>3, <2>4, <2>5 DEF Distinct, Unpaid, OneLeg
<1>4. \A s \in Sessions :
         \/ state'.rows[Sleeve(s)] = state.rows[Sleeve(s)]
         \/ /\ Distinct(state'.rows[Sleeve(s)].legs) /\ Unpaid(state'.rows[Sleeve(s)].legs)
            /\ OneLeg(state'.rows[Sleeve(s)])
  BY <1>2, <1>3
<1> QED BY <1>1, <1>2, <1>4, TidyRows

(* What the pull of a bucket makes of a leg. *)
Shown(k, pulled, l) == IF l.bucket \in pulled[k] THEN Outcome(l, k[1]) ELSE l

LEMMA ShownLeg ==
    ASSUME NEW l \in LegRec, NEW k, NEW pulled
    PROVE  /\ Shown(k, pulled, l) \in LegRec
           /\ Shown(k, pulled, l).fire = l.fire /\ Shown(k, pulled, l).outcome = l.outcome
           /\ OpenLeg(Shown(k, pulled, l)) => Shown(k, pulled, l) = l
           /\ Shown(k, pulled, l).cost = l.cost
<1>1. Payout(l, k[1]) \in Nat BY PayoutIn
<1>2. Closed(l, Payout(l, k[1])) \in LegRec BY <1>1, ClosedIn
<1> QED BY <1>1, <1>2 DEF Shown, Outcome, Closed, OpenLeg, LegRec

LEMMA ResolvedRow ==
    ASSUME Typed, NEW k \in Keys, NEW pulled
    PROVE  \/ Resolved(k, pulled) = state.rows[k]
           \/ LET legs == {Shown(k, pulled, l) : l \in state.rows[k].legs} IN
              /\ Open(k)
              /\ Resolved(k, pulled).legs = legs
              /\ Resolved(k, pulled).settled = SettledIf(legs)
BY DEF Resolved, Ready, Shown

LEMMA ResolvedClean ==
    ASSUME Typed, Tidy, NEW k \in Keys, NEW pulled
    PROVE  /\ Distinct(Resolved(k, pulled).legs) /\ Unpaid(Resolved(k, pulled).legs)
           /\ OneLeg(state.rows[k]) => OneLeg(Resolved(k, pulled))
           /\ \A mark : UpTo(state.rows[k], mark) => UpTo(Resolved(k, pulled), mark)
<1> DEFINE legs == {Shown(k, pulled, l) : l \in state.rows[k].legs}
<1>1. /\ Distinct(state.rows[k].legs) /\ Unpaid(state.rows[k].legs)
      /\ \A l \in state.rows[k].legs : l \in LegRec
  BY RowsIn DEF Tidy, Clean, Typed, LegSets
<1>2. CASE Resolved(k, pulled) = state.rows[k] BY <1>1, <1>2
<1>3. CASE /\ Open(k)
           /\ Resolved(k, pulled).legs = legs
           /\ Resolved(k, pulled).settled = SettledIf(legs)
  <2>1. \A m \in legs : \E l \in state.rows[k].legs : m = Shown(k, pulled, l) OBVIOUS
  <2>2. Distinct(legs)
    <3> SUFFICES ASSUME NEW m \in legs, NEW n \in legs, m.fire = n.fire, m.outcome = n.outcome
                 PROVE  m = n
      BY DEF Distinct
    <3>1. PICK x \in state.rows[k].legs : m = Shown(k, pulled, x) BY <2>1
    <3>2. PICK y \in state.rows[k].legs : n = Shown(k, pulled, y) BY <2>1
    <3>3. x.fire = y.fire /\ x.outcome = y.outcome BY <1>1, <3>1, <3>2, ShownLeg
    <3>4. x = y BY <1>1, <3>3 DEF Distinct
    <3> QED BY <3>1, <3>2, <3>4
  <2>3. ASSUME NEW m \in legs, OpenLeg(m) PROVE m \in state.rows[k].legs
    <3>1. PICK x \in state.rows[k].legs : m = Shown(k, pulled, x) BY <2>1
    <3> QED BY <1>1, <2>3, <3>1, ShownLeg
  <2>4. Unpaid(legs) BY <1>1, <2>3 DEF Unpaid
  <2>5. OneLeg(state.rows[k]) => OneLeg(Resolved(k, pulled))
    <3> SUFFICES ASSUME OneLeg(state.rows[k]) PROVE OneLeg(Resolved(k, pulled)) OBVIOUS
    <3>1. \A m, n \in legs : m = n BY DEF OneLeg
    <3> HIDE DEF legs
    <3>2. ~SettledIf(legs) => \A m \in legs : OpenLeg(m) BY <3>1 DEF SettledIf
    <3> QED BY <1>3, <3>1, <3>2 DEF OneLeg
  <2>6. ASSUME NEW mark, UpTo(state.rows[k], mark) PROVE UpTo(Resolved(k, pulled), mark)
    <3> SUFFICES ASSUME mark \in 1..MaxFires, NEW m \in legs PROVE m.fire <= mark
      BY <1>3 DEF UpTo
    <3>1. PICK x \in state.rows[k].legs : m = Shown(k, pulled, x) BY <2>1
    <3>2. m.fire = x.fire BY <1>1, <3>1, ShownLeg
    <3>3. x.fire <= mark BY <1>3, <2>6, <3>1 DEF UpTo, Open
    <3> QED BY <3>2, <3>3
  <2> HIDE DEF legs
  <2> QED BY <1>3, <2>2, <2>4, <2>5, <2>6
<1> QED BY <1>2, <1>3, ResolvedRow

LEMMA TidySettle == ASSUME Typed, Tidy, Settle PROVE Tidy'
<1>1. World' = World /\ Records(state') = Records(state) /\ stage' = "save"
  BY SettleChanges
<1>2. PICK pulled \in [Keys -> SUBSET Buckets] :
         \A k \in Keys : state'.rows[k] = Resolved(k, pulled)
  BY SettleChanges
<1>3. \A s \in Sessions : Main(s) \in Keys /\ Sleeve(s) \in Keys BY KeysIn
<1>4. \A s \in Sessions : OneLeg(state.rows[Sleeve(s)]) /\ UpTo(state.rows[Main(s)], state.fired[s])
  BY DEF Tidy, Clean
<1>5. \A s \in Sessions :
         /\ Distinct(state'.rows[Main(s)].legs) /\ Unpaid(state'.rows[Main(s)].legs)
         /\ UpTo(state'.rows[Main(s)], state.fired[s])
         /\ Distinct(state'.rows[Sleeve(s)].legs) /\ Unpaid(state'.rows[Sleeve(s)].legs)
         /\ OneLeg(state'.rows[Sleeve(s)])
  BY <1>2, <1>3, <1>4, ResolvedClean
<1> QED BY <1>1, <1>5, TidyRows

LEMMA TidyKept == ASSUME Typed, Marked, Tidy, [Next]_vars, Typed' PROVE Tidy'
<1>1. CASE UNCHANGED vars
  BY <1>1 DEF vars, Tidy, Clean, Distinct, Unpaid, OneLeg, UpTo, FirstLegs
<1> QED
  BY <1>1, Steps, TidyEnvironment, TidyBeginRule, TidyFire, TidyEnter, TidyStandDown,
     TidyFirst, TidySecond, TidyRetire, TidySettle

-----------------------------------------------------------------------------
(* Explained, step by step. *)
Squared(st) == st.debit = st.gone + Total(st.rows) /\ st.debit <= Capital
Explained == Squared(state) /\ Squared(disk)

LEMMA ExplainedInit == ASSUME Init PROVE Explained
<1>1. state.debit = 0 /\ state.gone = 0 /\ disk = state /\ \A k \in Keys : state.rows[k].legs = {}
  BY DEF Init, NoRow
<1> DEFINE f == [k \in Keys |-> Cost(state.rows[k].legs)]
<1>2. \A k \in Keys : f[k] = 0 BY <1>1, CostNone
<1> HIDE DEF f
<1>3. SumFunctionOnSet(f, Keys) = 0 BY <1>2, FiniteKeys, SumZero
<1>4. Total(state.rows) = 0 BY <1>3 DEF f, Total
<1>5. 0 <= Capital BY ConstantsAssumption
<1> QED BY <1>1, <1>4, <1>5 DEF Explained, Squared

LEMMA LegsIn == ASSUME Typed PROVE \A k \in Keys : /\ state.rows[k].legs \in LegSets
                                                   /\ disk.rows[k].legs \in LegSets
BY RowsIn DEF Typed

LEMMA ExplainedSame ==
    ASSUME Explained, disk' = disk,
           state'.rows = state.rows, state'.debit = state.debit, state'.gone = state.gone
    PROVE  Explained'
BY DEF Explained, Squared

LEMMA ExplainedEnvironment == ASSUME Typed, Explained, Environment PROVE Explained'
<1>1. state' \in {state, disk} /\ disk' \in {state, disk} BY EnvironmentChanges
<1> QED BY <1>1 DEF Explained, Squared

LEMMA ExplainedEnter ==
    ASSUME Typed, Typed', Explained, NEW s \in Sessions, EnterSleeve(s) PROVE Explained'
<1>1. /\ disk' = disk
      /\ \A k \in Keys : k # Sleeve(s) => state'.rows[k] = state.rows[k]
  BY EnterChanges DEF World
<1>2. CASE state'.rows = state.rows /\ state'.debit = state.debit /\ state'.gone = state.gone
  BY <1>1, <1>2, ExplainedSame
<1>3. ASSUME NEW b \in SleeveBuckets, NEW fill \in Fills,
             fill.cost = 0 \/ Affords(fill.cost),
             state'.rows[Sleeve(s)] = Row({NewLeg(0, "YES", b, fill)}),
             state'.debit = state.debit + fill.cost,
             state'.gone = state.gone + Cost(state.rows[Sleeve(s)].legs)
      PROVE  Explained'
  <2>1. Sleeve(s) \in Keys /\ 0 \in 0..MaxFires BY KeysIn, ConstantsAssumption
  <2>2. Total(state'.rows) = Total(state.rows) - Cost(state.rows[Sleeve(s)].legs)
                               + Cost(state'.rows[Sleeve(s)].legs)
    <3>1. \A k \in Keys : state.rows[k].legs \in LegSets /\ state'.rows[k].legs \in LegSets
      BY LegsIn, RowsIn DEF Typed
    <3> QED BY <1>1, <2>1, <3>1, TotalChange
  <2>3. Cost(state'.rows[Sleeve(s)].legs) = fill.cost /\ fill.cost \in Nat
    <3> DEFINE l == NewLeg(0, "YES", b, fill)
    <3>1. b \in Buckets BY ConstantsAssumption DEF Buckets, Bucket
    <3>2. l \in LegRec BY <2>1, <3>1, NewLegIn
    <3>3. Net(l) = fill.cost /\ fill.cost \in Nat BY DEF Net, NewLeg, Fills, Filled, Unfilled
    <3>4. state'.rows[Sleeve(s)].legs = {l} BY <1>3 DEF Row
    <3> HIDE DEF l
    <3> QED BY <3>2, <3>3, <3>4, CostOne
  <2>4. /\ Cost(state.rows[Sleeve(s)].legs) \in Int /\ Total(state.rows) \in Int
        /\ state.debit \in Int /\ state.gone \in Int
    BY <2>1, LegsIn, CostInt, TotalInt DEF Typed, Dict
  <2>5. state'.debit <= Capital
    <3>1. state.debit <= Capital BY DEF Explained, Squared
    <3>2. fill.cost = 0 \/ fill.cost <= Capital - state.debit BY <1>3 DEF Affords, Remaining
    <3>3. Capital \in Int /\ state'.debit = state.debit + fill.cost BY <1>3, ConstantsAssumption
    <3> QED BY <2>3, <2>4, <3>1, <3>2, <3>3
  <2>6. state'.debit = state'.gone + Total(state'.rows)
    BY <1>3, <2>2, <2>3, <2>4 DEF Explained, Squared
  <2> QED BY <1>1, <2>5, <2>6 DEF Explained, Squared
<1> QED BY <1>2, <1>3, EnterChanges

LEMMA ExplainedFirst ==
    ASSUME Typed, Typed', Marked, Explained, FirstFire PROVE Explained'
<1>1. /\ disk' = disk /\ fire.s \in Sessions /\ fire.no = 1 /\ stage = "fire"
      /\ state'.gone = state.gone
  BY FirstFireChanges DEF World
<1>2. PICK f1 \in Fills, f2 \in Fills :
         /\ Affords(f1.cost + f2.cost)
         /\ state'.debit = state.debit + f1.cost + f2.cost
         /\ \A k \in Keys :
               state'.rows[k] = IF k = Main(fire.s) /\ ~Open(k) THEN Row(FireLegs(f1, f2))
                                ELSE state.rows[k]
  BY FirstFireChanges
<1>3. Main(fire.s) \in Keys /\ ~Open(Main(fire.s)) /\ Today
  BY <1>1, KeysIn DEF Marked, Flying, Typed, CycleTyped
<1>4. state.rows[Main(fire.s)].legs = {} BY <1>1, <1>3 DEF Marked, Protected, RowOpen, Open
<1>5. state'.rows[Main(fire.s)].legs = FireLegs(f1, f2) BY <1>2, <1>3 DEF Row
<1>6. Total(state'.rows) = Total(state.rows) - Cost(state.rows[Main(fire.s)].legs)
                             + Cost(state'.rows[Main(fire.s)].legs)
  <2>1. \A k \in Keys : state.rows[k].legs \in LegSets /\ state'.rows[k].legs \in LegSets
    BY LegsIn, RowsIn DEF Typed
  <2> QED BY <1>2, <1>3, <2>1, TotalChange
<1>7. Cost(FireLegs(f1, f2)) = f1.cost + f2.cost BY <1>1, FireCost DEF Typed, CycleTyped
<1>8. f1.cost \in Nat /\ f2.cost \in Nat BY DEF Fills, Filled, Unfilled
<1>9. Total(state.rows) \in Int /\ state.debit \in Int /\ state.gone \in Int
  BY LegsIn, TotalInt DEF Typed, Dict
<1>10. Total(state'.rows) = Total(state.rows) + f1.cost + f2.cost
  BY <1>4, <1>5, <1>6, <1>7, <1>8, <1>9, CostNone
<1>11. state'.debit <= Capital
  <2>1. f1.cost + f2.cost <= Capital - state.debit BY <1>2 DEF Affords, Remaining
  <2>2. Capital \in Int BY ConstantsAssumption
  <2>3. state'.debit = state.debit + f1.cost + f2.cost BY <1>2
  <2> QED BY <1>8, <1>9, <2>1, <2>2, <2>3
<1>12. state'.debit = state'.gone + Total(state'.rows)
  <2>1. state'.debit = state.debit + f1.cost + f2.cost BY <1>2
  <2>2. state.debit = state.gone + Total(state.rows) BY DEF Explained, Squared
  <2> QED BY <1>1, <1>8, <1>9, <1>10, <2>1, <2>2
<1> QED BY <1>1, <1>11, <1>12 DEF Explained, Squared

(* The row of a second fire is dearer by its legs, and cheaper by what the sold leg brought. *)
LEMMA MergedCost ==
    ASSUME Typed, Marked, Tidy, stage = "fire", fire.no = 2,
           NEW f1 \in Fills, NEW f2 \in Fills, NEW bid \in Bids
    PROVE  LET row == state.rows[Main(fire.s)]
               new == WithShares(FireLegs(f1, f2))
           IN  /\ Cost(Merged(row, new, bid).legs)
                    = Cost(row.legs) - Proceeds(new, bid) + f1.cost + f2.cost
               /\ Proceeds(new, bid) \in Nat
<1> DEFINE row == state.rows[Main(fire.s)]
           new == WithShares(FireLegs(f1, f2))
           old == FirstYes(fire.s)
           sells == ~row.settled /\ HasYes(new) /\ YesHeld(fire.s) # {}
           sold == Closed(old, bid)
<1>0. new \in LegSets /\ Distinct(new) /\ Unpaid(new) /\ \A l \in new : l.fire = 2
  BY NewLegsClean, FireLegsIn DEF Typed, CycleTyped
<1>1. Cost(new) = f1.cost + f2.cost BY FireCost DEF Typed, CycleTyped
<1>2. f1.cost \in Nat /\ f2.cost \in Nat /\ bid \in Nat BY DEF Fills, Filled, Unfilled, Bids
<1>3. Proceeds(new, bid) = IF sells THEN bid ELSE 0 BY DEF Proceeds, Open
<1>4. row \in RowRec
  <2>1. fire.s \in Sessions BY DEF Typed, CycleTyped
  <2> QED BY <2>1, KeysIn, RowsIn DEF Typed
<1>5. Merged(row, new, bid).legs = IF sells THEN (row.legs \ {old}) \cup {sold} \cup new
                                   ELSE row.legs \cup new
  BY <1>4 DEF Merged, RowRec
<1> HIDE DEF new
<1>6. /\ row.legs \cap new = {}
      /\ row.legs \in LegSets
      /\ YesHeld(fire.s) # {} => /\ old \in row.legs /\ sold \in LegRec
                                 /\ sold \notin row.legs \cup new
                                 /\ Net(sold) = Net(old) - bid
  BY <1>0, MergedClean
<1> HIDE DEF row, old, sold, sells
<1>7. Cost(row.legs) \in Int BY <1>6, CostInt
<1>8. CASE ~sells
  <2>1. Cost(row.legs \cup new) = Cost(row.legs) + Cost(new) BY <1>0, <1>6, CostUnion
  <2>2. Proceeds(new, bid) = 0 BY <1>3, <1>8
  <2>3. Merged(row, new, bid).legs = row.legs \cup new BY <1>5, <1>8
  <2>4. Cost(Merged(row, new, bid).legs) = Cost(row.legs) - 0 + f1.cost + f2.cost
    BY <1>1, <1>2, <1>7, <2>1, <2>3
  <2> QED BY <2>2, <2>4 DEF new, row
<1>9. CASE sells
  <2>1. YesHeld(fire.s) # {} BY <1>9 DEF sells
  <2> DEFINE rest == row.legs \ {old}
  <2>2. old \in row.legs /\ sold \in LegRec /\ sold \notin row.legs \cup new
          /\ Net(sold) = Net(old) - bid
    BY <1>6, <2>1
  <2>3. old \in LegRec BY <1>6, <2>2 DEF LegSets
  <2>4. rest \in LegSets /\ {old} \in LegSets /\ {sold} \in LegSets
    BY <1>6, <2>2, <2>3, UnionIn, OneLegIn
  <2>5. row.legs = rest \cup {old} /\ rest \cap {old} = {} /\ rest \cap {sold} = {}
          /\ (rest \cup {sold}) \cap new = {}
    BY <1>6, <2>2
  <2>6. rest \cup {sold} \in LegSets BY <2>4, UnionIn
  <2> HIDE DEF rest
  <2>7. Cost(rest \cup {old}) = Cost(rest) + Cost({old}) BY <2>4, <2>5, CostUnion
  <2>8. Cost(rest \cup {sold}) = Cost(rest) + Cost({sold}) BY <2>4, <2>5, CostUnion
  <2>9. Cost((rest \cup {sold}) \cup new) = Cost(rest \cup {sold}) + Cost(new)
    BY <1>0, <2>5, <2>6, CostUnion
  <2>10. Cost({old}) = Net(old) /\ Cost({sold}) = Net(sold) BY <2>2, <2>3, CostOne
  <2>11. Cost(rest) \in Int /\ Net(old) \in Int BY <2>3, <2>4, CostInt DEF Net, LegRec
  <2>12. Merged(row, new, bid).legs = (rest \cup {sold}) \cup new BY <1>5, <1>9 DEF rest
  <2>13. Cost(row.legs) = Cost(rest) + Net(old) BY <2>5, <2>7, <2>10
  <2>14. Cost(Merged(row, new, bid).legs) = Cost(rest) + (Net(old) - bid) + (f1.cost + f2.cost)
    BY <1>1, <2>2, <2>8, <2>9, <2>10, <2>12
  <2>15. Cost(Merged(row, new, bid).legs) = Cost(row.legs) - bid + f1.cost + f2.cost
    BY <1>2, <2>11, <2>13, <2>14
  <2>16. Proceeds(new, bid) = bid BY <1>3, <1>9
  <2> QED BY <1>2, <2>15, <2>16 DEF new, row
<1> QED BY <1>8, <1>9

LEMMA ExplainedSecond ==
    ASSUME Typed, Typed', Marked, Tidy, Explained, SecondFire PROVE Explained'
<1>1. /\ disk' = disk /\ fire.s \in Sessions /\ fire.no = 2 /\ stage = "fire"
      /\ state'.gone = state.gone
  BY SecondFireChanges DEF World
<1>2. PICK f1 \in Fills, f2 \in Fills, bid \in Bids :
         LET new == WithShares(FireLegs(f1, f2)) IN
         /\ Affords(f1.cost + f2.cost)
         /\ new = {} => state' = state
         /\ new # {} =>
               /\ state'.debit = Released(Proceeds(new, bid)) + f1.cost + f2.cost
               /\ \A k \in Keys :
                     state'.rows[k] = IF k = Main(fire.s)
                                      THEN Merged(state.rows[k], new, bid)
                                      ELSE state.rows[k]
  BY SecondFireChanges
<1> DEFINE new == WithShares(FireLegs(f1, f2))
           got == Proceeds(new, bid)
           key == Main(fire.s)
<1>3. /\ Cost(Merged(state.rows[key], new, bid).legs)
           = Cost(state.rows[key].legs) - got + f1.cost + f2.cost
      /\ got \in Nat
  BY <1>1, MergedCost
<1>4. key \in Keys BY <1>1, KeysIn
<1>5. f1.cost \in Nat /\ f2.cost \in Nat BY DEF Fills, Filled, Unfilled
<1>6. /\ Total(state.rows) \in Int /\ state.debit \in Int /\ state.gone \in Int
      /\ Cost(state.rows[key].legs) \in Int
  BY <1>4, LegsIn, TotalInt, CostInt DEF Typed, Dict
<1>7. CASE new = {}
  <2>1. state' = state BY <1>2, <1>7
  <2> QED BY <1>1, <2>1, ExplainedSame
<1>8. CASE new # {}
  <2>1. state'.debit = state.debit - got + f1.cost + f2.cost BY <1>2, <1>8 DEF Released
  <2>2. \A k \in Keys : state'.rows[k] = IF k = key THEN Merged(state.rows[k], new, bid)
                                         ELSE state.rows[k]
    BY <1>2, <1>8
  <2>3. f1.cost + f2.cost <= Capital - state.debit BY <1>2 DEF Affords, Remaining
  <2> HIDE DEF new, got, key
  <2>4. Total(state'.rows) = Total(state.rows) - Cost(state.rows[key].legs)
                               + Cost(state'.rows[key].legs)
    <3>1. \A k \in Keys : state.rows[k].legs \in LegSets /\ state'.rows[k].legs \in LegSets
      BY LegsIn, RowsIn DEF Typed
    <3> QED BY <1>4, <2>2, <3>1, TotalChange
  <2>5. Cost(state'.rows[key].legs) = Cost(state.rows[key].legs) - got + f1.cost + f2.cost
    BY <1>3, <1>4, <2>2
  <2>6. Total(state'.rows) = Total(state.rows) - got + f1.cost + f2.cost
    BY <1>3, <1>5, <1>6, <2>4, <2>5
  <2>7. state.debit = state.gone + Total(state.rows) BY DEF Explained, Squared
  <2>8. state'.debit = state'.gone + Total(state'.rows)
    BY <1>1, <1>3, <1>5, <1>6, <2>1, <2>6, <2>7
  <2>9. Capital \in Int BY ConstantsAssumption
  <2>10. state'.debit <= Capital BY <1>3, <1>5, <1>6, <2>1, <2>3, <2>9
  <2> QED BY <1>1, <2>8, <2>10 DEF Explained, Squared
<1> QED BY <1>7, <1>8

(* A sleeve that is sold brings what its leg is sold for. *)
LEMMA SoldCost ==
    ASSUME Typed, Tidy, NEW s \in Sessions, NEW old, Sells(s, old), NEW bid \in Bids
    PROVE  Cost([SoldRow(s, bid) EXCEPT !.settled = TRUE].legs)
             = Cost(state.rows[Sleeve(s)].legs) - bid
<1>1. Sleeve(s) \in Keys BY KeysIn
<1>2. PICK l \in SleeveLegs(s) : l.shares > 0 BY DEF Sells
<1>3. OneLeg(state.rows[Sleeve(s)]) /\ Open(Sleeve(s)) /\ Unpaid(state.rows[Sleeve(s)].legs)
  BY <1>1 DEF Tidy, Clean, Sells
<1>4. SleeveLegs(s) = {l} /\ OpenLeg(l) /\ l.payout = 0
  BY <1>2, <1>3 DEF OneLeg, SleeveLegs, Open, Unpaid
<1>5. l \in LegRec
  <2>1. state.rows[Sleeve(s)].legs \in LegSets BY <1>1, LegsIn
  <2> QED BY <1>2, <2>1 DEF LegSets, SleeveLegs
<1>6. bid \in Nat BY DEF Bids
<1>7. [SoldRow(s, bid) EXCEPT !.settled = TRUE].legs = {Closed(l, bid)}
  BY <1>2, <1>4 DEF SoldRow, Row
<1>8. Closed(l, bid) \in LegRec BY <1>5, <1>6, ClosedIn
<1>9. Net(Closed(l, bid)) = Net(l) - bid
  <2>1. Closed(l, bid).cost = l.cost /\ Closed(l, bid).payout = bid /\ l.cost \in Nat
    BY <1>5 DEF Closed, LegRec
  <2> QED BY <1>4, <1>6, <2>1 DEF Net
<1>10. Cost({Closed(l, bid)}) = Net(Closed(l, bid)) /\ Cost({l}) = Net(l)
  BY <1>5, <1>8, CostOne
<1> QED BY <1>4, <1>7, <1>9, <1>10 DEF SleeveLegs

LEMMA ExplainedRetire ==
    ASSUME Typed, Typed', Tidy, Explained, RetireSleeves PROVE Explained'
<1>1. disk' = disk /\ state'.gone = state.gone BY RetireChanges DEF World
<1>2. PICK old \in SUBSET Sessions, bid \in Bids :
         /\ state'.debit = Released(bid * Cardinality({s \in Sessions : Sells(s, old)}))
         /\ \A s \in Sessions :
               /\ state'.rows[Main(s)] = state.rows[Main(s)]
               /\ state'.rows[Sleeve(s)]
                    = IF Sells(s, old) THEN [SoldRow(s, bid) EXCEPT !.settled = TRUE]
                      ELSE state.rows[Sleeve(s)]
  BY RetireChanges
<1> DEFINE sold == {s \in Sessions : Sells(s, old)}
           keys == {Sleeve(s) : s \in sold}
           brought == [k \in Keys |-> IF k \in keys THEN bid ELSE 0]
           sum == SumFunctionOnSet(brought, Keys)
<1>3. \A k \in Keys : Cost(state'.rows[k].legs) = Cost(state.rows[k].legs) - brought[k]
  <2> SUFFICES ASSUME NEW k \in Keys
               PROVE  Cost(state'.rows[k].legs) = Cost(state.rows[k].legs) - brought[k]
    OBVIOUS
  <2>1. PICK s \in Sessions : k = Main(s) \/ k = Sleeve(s) BY DEF Keys, Main, Sleeve
  <2>2. Cost(state.rows[k].legs) \in Int BY LegsIn, CostInt
  <2>3. CASE k = Main(s)
    <3>1. k \notin keys BY <2>1, <2>3, KeysIn
    <3>2. state'.rows[k] = state.rows[k] BY <1>2, <2>1, <2>3
    <3>3. brought[k] = 0 BY <3>1
    <3> HIDE DEF brought
    <3> QED BY <2>2, <3>2, <3>3
  <2>4. CASE k = Sleeve(s) /\ ~Sells(s, old)
    <3>1. k \notin keys BY <2>1, <2>4, KeysIn
    <3>2. state'.rows[k] = state.rows[k] BY <1>2, <2>1, <2>4
    <3>3. brought[k] = 0 BY <3>1
    <3> HIDE DEF brought
    <3> QED BY <2>2, <3>2, <3>3
  <2>5. CASE k = Sleeve(s) /\ Sells(s, old)
    <3>1. k \in keys BY <2>5
    <3> QED BY <1>2, <2>5, <3>1, SoldCost
  <2> QED BY <2>1, <2>3, <2>4, <2>5
<1>4. sold \subseteq Sessions /\ keys \subseteq Keys BY KeysIn
<1>5. \A k \in Keys : brought[k] \in Int /\ (k \in keys => brought[k] = bid)
                      /\ (k \notin keys => brought[k] = 0)
  BY DEF Bids
<1>6. Cardinality(keys) = Cardinality(sold) /\ IsFiniteSet(keys)
  <2> DEFINE f == [s \in sold |-> Sleeve(s)]
  <2>1. IsFiniteSet(sold) BY <1>4, ConstantsAssumption, FS_Subset
  <2>2. f \in Surjection(sold, keys) BY DEF Surjection
  <2>3. f \in Injection(sold, keys) BY KeysIn DEF Injection, IsInjective
  <2> HIDE DEF f, sold, keys
  <2> QED BY <2>1, <2>2, <2>3, FS_Surjection
<1> HIDE DEF brought, keys
<1>7. sum = bid * Cardinality(sold) /\ sum \in Nat
  <2>1. Cardinality(sold) \in Nat BY <1>4, SoldFinite
  <2>2. CASE bid = 0
    <3>1. \A k \in Keys : brought[k] = 0 BY <1>5, <2>2
    <3>2. sum = 0 BY <3>1, FiniteKeys, SumZero
    <3> QED BY <2>1, <2>2, <3>2
  <2>3. CASE bid = 1
    <3>1. sum = SumFunctionOnSet(brought, keys) BY <1>4, <1>5, FiniteKeys, SumOfSupport
    <3>2. \A k \in keys : brought[k] = 1 BY <1>4, <1>5, <2>3
    <3>3. SumFunctionOnSet(brought, keys) = Cardinality(keys) BY <1>6, <3>2, SumOnes
    <3> QED BY <1>6, <2>1, <2>3, <3>1, <3>3
  <2> QED BY <2>2, <2>3 DEF Bids
<1>8. Total(state'.rows) = Total(state.rows) - sum
  <2>1. \A k \in Keys : state.rows[k].legs \in LegSets /\ state'.rows[k].legs \in LegSets
    BY LegsIn, RowsIn DEF Typed
  <2> QED BY <1>3, <1>5, <2>1, TotalBrought
<1>9. state'.debit = state.debit - sum BY <1>2, <1>7 DEF Released
<1> HIDE DEF sum
<1>10. Total(state.rows) \in Int /\ state.debit \in Int /\ state.gone \in Int /\ Capital \in Int
  <2>1. Total(state.rows) \in Int BY LegsIn, TotalInt
  <2>2. state.debit \in Int /\ state.gone \in Int BY DEF Typed, Dict
  <2>3. Capital \in Int BY ConstantsAssumption
  <2> QED BY <2>1, <2>2, <2>3
<1>11. state.debit = state.gone + Total(state.rows) /\ state.debit <= Capital
  BY DEF Explained, Squared
<1>12. state'.debit = state'.gone + Total(state'.rows) /\ state'.debit <= Capital
  BY <1>1, <1>7, <1>8, <1>9, <1>10, <1>11
<1> QED BY <1>1, <1>12 DEF Explained, Squared

(* A settled row brings what is paid on its legs that were open and pulled. *)
LEMMA ResolvedCost ==
    ASSUME Typed, Tidy, NEW k \in Keys, NEW pulled, ~Ready(k) => pulled[k] = {}
    PROVE  Cost(Resolved(k, pulled).legs)
             = Cost(state.rows[k].legs)
                 - Paid(k, {l \in state.rows[k].legs : l.bucket \in pulled[k]})
<1> DEFINE legs == state.rows[k].legs
           some == {l \in legs : l.bucket \in pulled[k]}
           due == {l \in some : OpenLeg(l)}
<1>1. legs \in LegSets /\ Distinct(legs) /\ Unpaid(legs) BY LegsIn DEF Tidy, Clean
<1>2. Cost(legs) \in Int BY <1>1, CostInt
<1>3. CASE ~Ready(k)
  <2>1. due = {} BY <1>3
  <2>2. Paid(k, some) = SumFunctionOnSet([l \in due |-> Payout(l, k[1])], due) BY DEF Paid
  <2>3. Paid(k, some) = 0 BY <2>1, <2>2, SumEmpty
  <2>4. Resolved(k, pulled).legs = legs BY <1>3 DEF Resolved
  <2> QED BY <1>2, <2>3, <2>4
<1>4. CASE Ready(k)
  <2> DEFINE h == [l \in legs |-> Shown(k, pulled, l)]
             after == {h[l] : l \in legs}
             f == [m \in after |-> Net(m)]
             g == [l \in legs |-> Net(Shown(k, pulled, l))]
             p == [l \in legs |-> IF l \in due THEN Payout(l, k[1]) ELSE 0]
             n == [l \in legs |-> Net(l)]
  <2>1. \A l \in legs : l \in LegRec BY <1>1 DEF LegSets
  <2>2. IsFiniteSet(legs) /\ IsFiniteSet(due) BY <1>1, FS_Subset DEF LegSets
  <2>3. Resolved(k, pulled).legs = after BY <1>4 DEF Resolved, Shown
  <2>4. after \in LegSets
    <3>1. IsFiniteSet(after) BY <2>2, ImageFinite
    <3>2. after \subseteq LegRec BY <2>1, ShownLeg
    <3> QED BY <3>1, <3>2 DEF LegSets
  <2>5. \A l \in legs : g[l] \in Int /\ f[h[l]] = g[l]
    <3> SUFFICES ASSUME NEW l \in legs PROVE g[l] \in Int /\ f[h[l]] = g[l] OBVIOUS
    <3>1. Shown(k, pulled, l) \in LegRec BY <2>1, ShownLeg
    <3>2. Net(Shown(k, pulled, l)) \in Int BY <3>1 DEF Net, LegRec
    <3>3. h[l] = Shown(k, pulled, l) /\ h[l] \in after OBVIOUS
    <3> QED BY <3>2, <3>3
  <2>6. \A l, m \in legs : h[l] = h[m] => l = m
    <3> SUFFICES ASSUME NEW l \in legs, NEW m \in legs, h[l] = h[m] PROVE l = m OBVIOUS
    <3>1. Shown(k, pulled, l) = Shown(k, pulled, m) OBVIOUS
    <3>2. l.fire = m.fire /\ l.outcome = m.outcome BY <2>1, <3>1, ShownLeg
    <3> QED BY <1>1, <3>2 DEF Distinct
  <2>7. \A m \in after : f[m] = Net(m) OBVIOUS
  <2>8. \A l \in legs : g[l] \in Int /\ p[l] \in Int /\ n[l] = g[l] + p[l]
    <3> SUFFICES ASSUME NEW l \in legs PROVE g[l] \in Int /\ p[l] \in Int /\ n[l] = g[l] + p[l]
      OBVIOUS
    <3> DEFINE pay == Payout(l, k[1])
    <3>1. l \in LegRec /\ pay \in Nat BY <2>1, PayoutIn
    <3>2. l.cost \in Nat /\ l.payout \in Nat /\ Shown(k, pulled, l).cost = l.cost
      BY <3>1, ShownLeg DEF LegRec
    <3>3. l \in due => Shown(k, pulled, l).payout = pay /\ l.payout = 0
      BY <1>1, <3>1 DEF Shown, Outcome, Closed, Unpaid, LegRec
    <3>4. l \notin due => Shown(k, pulled, l) = l
      BY DEF Shown, Outcome
    <3>5. g[l] = Net(Shown(k, pulled, l)) /\ n[l] = Net(l) /\ p[l] = IF l \in due THEN pay ELSE 0
      OBVIOUS
    <3> HIDE DEF g, n, p, due, pay
    <3> QED BY <3>1, <3>2, <3>3, <3>4, <3>5 DEF Net
  <2>9. \A l \in legs : n[l] = Net(l) OBVIOUS
  <2>10. due \subseteq legs /\ \A l \in legs : (l \notin due => p[l] = 0) OBVIOUS
  <2>11. SumFunctionOnSet(p, due) = Paid(k, some)
    <3> DEFINE q == [l \in due |-> Payout(l, k[1])]
    <3>1. \A l \in due : p[l] \in Int /\ p[l] = q[l] BY <2>8
    <3>2. Paid(k, some) = SumFunctionOnSet(q, due) BY DEF Paid
    <3> HIDE DEF p, q, due
    <3> QED BY <2>2, <3>1, <3>2, SumSame
  <2> HIDE DEF f, g, h, p, n, due
  <2>12. SumFunctionOnSet(f, after) = SumFunctionOnSet(g, legs) BY <2>2, <2>5, <2>6, SumRenamed
  <2>13. SumFunctionOnSet(n, legs) = SumFunctionOnSet(g, legs) + SumFunctionOnSet(p, legs)
    BY <2>2, <2>8, SumPlus
  <2>14. SumFunctionOnSet(p, legs) = SumFunctionOnSet(p, due)
    BY <2>2, <2>8, <2>10, SumOfSupport
  <2>15. Cost(legs) = SumFunctionOnSet(n, legs) BY <1>1, <2>9, CostOf
  <2> HIDE DEF after
  <2>16. Cost(after) = SumFunctionOnSet(f, after) BY <2>4, <2>7, CostOf
  <2>17. SumFunctionOnSet(g, legs) \in Int /\ SumFunctionOnSet(p, legs) \in Int
    BY <2>2, <2>8, SumInt
  <2>18. Cost(after) = Cost(legs) - Paid(k, some)
    BY <2>11, <2>12, <2>13, <2>14, <2>15, <2>16, <2>17
  <2> QED BY <2>3, <2>18
<1> QED BY <1>3, <1>4

LEMMA ExplainedSettle ==
    ASSUME Typed, Typed', Tidy, Explained, Settle PROVE Explained'
<1>1. disk' = disk /\ state'.gone = state.gone BY SettleChanges DEF World
<1>2. PICK pulled \in [Keys -> SUBSET Buckets] :
         /\ \A k \in Keys : ~Ready(k) => pulled[k] = {}
         /\ state'.debit = Released(SumFunctionOnSet([k \in Keys |->
               Paid(k, {l \in state.rows[k].legs : l.bucket \in pulled[k]})], Keys))
         /\ \A k \in Keys : state'.rows[k] = Resolved(k, pulled)
  BY SettleChanges
<1> DEFINE due(k) == {l \in state.rows[k].legs : l.bucket \in pulled[k]}
           brought == [k \in Keys |-> Paid(k, due(k))]
           sum == SumFunctionOnSet(brought, Keys)
<1>3. \A k \in Keys : brought[k] \in Int /\ brought[k] = Paid(k, due(k))
  <2> SUFFICES ASSUME NEW k \in Keys PROVE brought[k] \in Int /\ brought[k] = Paid(k, due(k))
    OBVIOUS
  <2>1. due(k) \in LegSets BY LegsIn, FS_Subset DEF LegSets
  <2> HIDE DEF due
  <2>2. Paid(k, due(k)) \in Nat BY <2>1, PaidNat
  <2> QED BY <2>2
<1>4. \A k \in Keys : Cost(state'.rows[k].legs) = Cost(state.rows[k].legs) - brought[k]
  <2> SUFFICES ASSUME NEW k \in Keys
               PROVE  Cost(state'.rows[k].legs) = Cost(state.rows[k].legs) - brought[k]
    OBVIOUS
  <2>1. Cost(Resolved(k, pulled).legs) = Cost(state.rows[k].legs) - Paid(k, due(k))
    BY <1>2, ResolvedCost
  <2>2. state'.rows[k] = Resolved(k, pulled) BY <1>2
  <2>3. brought[k] = Paid(k, due(k)) BY <1>3
  <2> HIDE DEF brought, due
  <2> QED BY <2>1, <2>2, <2>3
<1>5. sum \in Nat BY PulledPaid DEF Typed
<1>6. state'.debit = Released(sum) BY <1>2
<1> HIDE DEF brought
<1>7. Total(state'.rows) = Total(state.rows) - sum
  <2>1. \A k \in Keys : state.rows[k].legs \in LegSets /\ state'.rows[k].legs \in LegSets
    BY LegsIn, RowsIn DEF Typed
  <2> QED BY <1>3, <1>4, <2>1, TotalBrought
<1> HIDE DEF sum
<1>8. state'.debit = state.debit - sum BY <1>6 DEF Released
<1>9. Total(state.rows) \in Int /\ state.debit \in Int /\ state.gone \in Int /\ Capital \in Int
  <2>1. Total(state.rows) \in Int BY LegsIn, TotalInt
  <2>2. state.debit \in Int /\ state.gone \in Int BY DEF Typed, Dict
  <2>3. Capital \in Int BY ConstantsAssumption
  <2> QED BY <2>1, <2>2, <2>3
<1>10. state.debit = state.gone + Total(state.rows) /\ state.debit <= Capital
  BY DEF Explained, Squared
<1>11. state'.debit = state'.gone + Total(state'.rows) /\ state'.debit <= Capital
  BY <1>1, <1>5, <1>7, <1>8, <1>9, <1>10
<1> QED BY <1>1, <1>11 DEF Explained, Squared

LEMMA ExplainedKept ==
    ASSUME Typed, Typed', Marked, Tidy, Explained, [Next]_vars PROVE Explained'
<1>1. CASE UNCHANGED vars BY <1>1, ExplainedSame DEF vars
<1>2. CASE BeginCycle
  <2>1. disk' = disk /\ Ledger(state') = Ledger(state) BY <1>2, BeginChanges
  <2> QED BY <2>1, ExplainedSame DEF Ledger
<1>3. CASE StandDown BY <1>3, StandDownChanges, ExplainedSame DEF World
<1>4. ASSUME NEW s \in Sessions, Rule(s) PROVE Explained'
  <2>1. disk' = disk /\ Ledger(state') = Ledger(state) BY <1>4, RuleChanges DEF World
  <2> QED BY <2>1, ExplainedSame DEF Ledger
<1>5. ASSUME NEW s \in Sessions, Fire(s) PROVE Explained'
  <2>1. /\ disk' = disk /\ state'.rows = state.rows /\ state'.debit = state.debit
        /\ state'.gone = state.gone
    BY <1>5, FireChanges DEF World
  <2> QED BY <2>1, ExplainedSame
<1> QED BY <1>1, <1>2, <1>3, <1>4, <1>5, Steps, ExplainedEnvironment, ExplainedEnter,
           ExplainedFirst, ExplainedSecond, ExplainedRetire, ExplainedSettle

(* The ledger over a row's whole life: at every moment, in the dict and in the file, the     *)
(* debit of paper_capital.py is what the rows cost and have not brought back, through every  *)
(* fill, merge, time-out and settlement, and the wallet is never overdrawn.                  *)
THEOREM LedgerAlwaysSound == Spec => []LedgerSound
<1>1. Init => Typed /\ Marked /\ Tidy /\ Explained
  BY TypedInit, MarkedInit, TidyInit, ExplainedInit
<1>2. Typed /\ Marked /\ Tidy /\ Explained /\ [Next]_vars
         => (Typed /\ Marked /\ Tidy /\ Explained)'
  BY TypedKept, MarkedKept, TidyKept, ExplainedKept
<1>3. Explained => LedgerSound
  BY DEF Explained, Squared, Total, LedgerSound, LedgerExplained, NeverOverdrawn
<1> QED BY <1>1, <1>2, <1>3, PTL DEF Spec
=============================================================================
