----------------------- MODULE ConsensusSessionProofs -----------------------
(***************************************************************************)
(* Proofs about ConsensusSession, for any buckets, books, days, fills and  *)
(* bounds.                                                                 *)
(*                                                                         *)
(* The invariant grows in layers, each kept under the ones before it:      *)
(* Typed (types), Remembered (what the strategy object knows of the row,   *)
(* and the file of the dict), Closing (when a row has been closed) and     *)
(* Explained (the ledger).                                                 *)
(***************************************************************************)
EXTENDS ConsensusSession, FiniteSums, TLAPS

-----------------------------------------------------------------------------
(* Types. *)
Quotes  == [Buckets -> [bid : Nat, ask : Nat]]
Samples == [at : Nat, look : Quotes]
LegRec  == [bucket : Buckets, shares : Nat, cost : Int, avg : Nat, payout : Nat,
            settled : BOOLEAN]
LegSeqs == {<<>>} \cup {<<l>> : l \in LegRec}
Reasons == {"none", "floor", "surge", "breach", "abortion", "resolved"}
RowRec  == [legs : LegSeqs, channel : Channels, entered : Nat, settled : BOOLEAN,
            tpDone : BOOLEAN, ended : Nat, why : Reasons]
Dict    == [row : RowRec, debit : Int, sold : Int]
OpenRec == [bucket : Buckets, live : BOOLEAN, avg : Nat, entered : Nat]
NoneOpen == [bucket : {NoBucket}, live : {FALSE}]
LockRec == [channel : Channels, target : Buckets \cup {NoBucket}]
HistRec == [prev : Int, last : Int, at : Int, len : Nat, peak : Int]
Memory  == [open : OpenRec \cup NoneOpen, locked : LockRec, fires : 0..MaxFires,
            stopped : BOOLEAN, breached : BOOLEAN, used : Int, hist : HistRec]
FireRec == [channel : {"next", "target"}, bucket : Buckets, budget : Nat, floor : Nat,
            cap : Nat \ {0}]
ReportRec == [temp : Int, storm : BOOLEAN]
Stages  == {"idle", "exits", "report", "fire", "hedge", "settle", "save"}

WorldTyped == /\ now \in 0..LastTick /\ direction \in Directions /\ day \in Days[direction]
              /\ winner \in Buckets \cup {NoBucket}
SeenTyped  == /\ look \in Looks[direction] \cup {NoLook}
              /\ report \in ReportRec \cup {NoReport}
              /\ samples \in Seq(Samples)
              /\ \A i \in 1..Len(samples) : samples[i].at <= now
CycleTyped == /\ stage \in Stages
              /\ stage = "fire" => fire \in FireRec
              /\ stage # "fire" => fire = NoFire
              /\ cycles \in 0..MaxCycles /\ faults \in 0..MaxFaults
Typed == WorldTyped /\ SeenTyped /\ CycleTyped /\ mem \in Memory /\ state \in Dict /\ disk \in Dict

Leg(row) == row.legs[1]

LEMMA BucketsAre == Buckets \subseteq Nat \ {0}
<1>1. IsFiniteSet(Buckets) /\ Buckets = 1..Cardinality(Buckets) BY ConstantsAssumption
<1>2. Cardinality(Buckets) \in Nat BY <1>1, FS_CardinalityType
<1> QED BY <1>1, <1>2

LEMMA NoneAre == /\ NoBucket \notin Buckets /\ NoReport \notin ReportRec
                 /\ NoFire \notin FireRec
<1>1. NoBucket \notin Buckets BY BucketsAre DEF NoBucket
<1>3. NoReport \notin ReportRec
  <2>1. DOMAIN NoReport = {"temp"} BY DEF NoReport
  <2>2. \A r \in ReportRec : "storm" \in DOMAIN r BY DEF ReportRec
  <2> QED BY <2>1, <2>2
<1>4. NoFire \notin FireRec
  <2>1. NoFire.channel = "none" BY DEF NoFire
  <2> QED BY <2>1 DEF FireRec
<1> QED BY <1>1, <1>3, <1>4

LEMMA LooksAre == ASSUME NEW d \in Directions
                  PROVE  Looks[d] \cup {NoLook} \subseteq Quotes
BY ConstantsAssumption DEF Quotes, NoLook, NoQuote

(* A row has no leg or one. *)
LEMMA LegIn == ASSUME NEW row \in RowRec
               PROVE  /\ HasRow(row) <=> row.legs = <<Leg(row)>>
                      /\ HasRow(row) => /\ Leg(row) \in LegRec /\ Head(row.legs) = Leg(row)
                                        /\ Range(row.legs) = {Leg(row)}
                      /\ ~HasRow(row) => row.legs = <<>> /\ Range(row.legs) = {}
<1>1. CASE row.legs = <<>> BY <1>1 DEF HasRow, Range
<1>2. ASSUME NEW l \in LegRec, row.legs = <<l>>
      PROVE  /\ HasRow(row) /\ Leg(row) = l /\ Head(row.legs) = l /\ Range(row.legs) = {l}
  BY <1>2 DEF HasRow, Leg, Range
<1> QED BY <1>1, <1>2 DEF RowRec, LegSeqs, HasRow

-----------------------------------------------------------------------------
(* The pieces the actions are made of: their types and what they leave alone. *)
LEMMA AheadIn == ASSUME WorldTyped, NEW b \in Buckets PROVE Ahead(b) \in Int
BY BucketsAre DEF Ahead

LEMMA NotedIn ==
    ASSUME mem \in Memory, report \in ReportRec, WorldTyped
    PROVE  /\ Noted(mem) \in Memory
           /\ Noted(mem).open = mem.open /\ Noted(mem).locked = mem.locked
           /\ Noted(mem).fires = mem.fires /\ Noted(mem).used = mem.used
           /\ Noted(mem).stopped = mem.stopped /\ Noted(mem).breached = mem.breached
<1>1. mem.hist \in HistRec /\ report.temp \in Int /\ now \in Int
  BY ConstantsAssumption DEF Memory, ReportRec, WorldTyped
<1> DEFINE h == IF ~Kept(mem.hist, report.temp) THEN mem.hist
                ELSE [prev |-> mem.hist.last, last |-> report.temp, at |-> now,
                      len |-> IF mem.hist.len < 2 THEN mem.hist.len + 1 ELSE 2,
                      peak |-> IF mem.hist.len = 0 THEN report.temp
                               ELSE Larger(mem.hist.peak, report.temp)]
<1>2. h \in HistRec BY <1>1 DEF HistRec, Larger
<1>3. Noted(mem) = [mem EXCEPT !.hist = h] BY DEF Noted
<1> HIDE DEF h
<1> QED BY <1>2, <1>3 DEF Memory

LEMMA SpentIn ==
    ASSUME NEW m \in Memory
    PROVE  /\ Spent(m) \in Memory /\ Spent(m).stopped /\ Spent(m).breached
           /\ Spent(m).open = m.open /\ Spent(m).locked = m.locked /\ Spent(m).fires = m.fires
BY DEF Spent, Memory

(* The position is the last leg with shares; without one the memory keeps what it had. *)
LEMMA OpenFromIn ==
    ASSUME mem \in Memory, NEW row \in RowRec, HasRow(row)
    PROVE  OpenFrom(row) = IF IsHeld(Leg(row))
                           THEN [bucket |-> Leg(row).bucket, live |-> TRUE,
                                 avg |-> Leg(row).avg, entered |-> row.entered]
                           ELSE mem.open
<1> DEFINE held == {i \in DOMAIN row.legs : IsHeld(row.legs[i])}
<1>1. row.legs = <<Leg(row)>> /\ DOMAIN row.legs = {1} BY LegIn
<1>2. held = IF IsHeld(Leg(row)) THEN {1} ELSE {} BY <1>1 DEF Leg
<1>3. IsHeld(Leg(row)) => Max(held) = 1 BY <1>2 DEF Max
<1> QED BY <1>1, <1>2, <1>3 DEF OpenFrom, Leg

LEMMA DroppedIn == ASSUME NEW p \in OpenRec \cup NoneOpen
                   PROVE  /\ [p EXCEPT !.live = FALSE] \in OpenRec \cup NoneOpen
                          /\ ~[p EXCEPT !.live = FALSE].live
BY DEF OpenRec, NoneOpen

LEMMA SyncedIn ==
    ASSUME mem \in Memory, NEW row \in RowRec, HasRow(row)
    PROVE  /\ Synced(row) \in Memory
           /\ Synced(row).open = OpenFrom(row)
           /\ Synced(row).locked = [channel |-> row.channel, target |-> NoBucket]
           /\ Synced(row).fires = mem.fires
           /\ Synced(row).stopped = mem.stopped /\ Synced(row).breached = mem.breached
<1>1. Leg(row) \in LegRec /\ row.entered \in Nat /\ row.channel \in Channels
  BY LegIn DEF RowRec
<1>2. OpenFrom(row) \in OpenRec \cup NoneOpen
  <2>1. CASE IsHeld(Leg(row))
    <3>1. OpenFrom(row) = [bucket |-> Leg(row).bucket, live |-> TRUE,
                           avg |-> Leg(row).avg, entered |-> row.entered]
      BY <2>1, OpenFromIn
    <3> QED BY <1>1, <3>1 DEF OpenRec, LegRec
  <2>2. CASE ~IsHeld(Leg(row)) BY <2>2, OpenFromIn DEF Memory
  <2> QED BY <2>1, <2>2
<1>3. [channel |-> row.channel, target |-> NoBucket] \in LockRec BY <1>1 DEF LockRec
<1> QED BY <1>2, <1>3 DEF Synced, Memory

LEMMA WithLeg == ASSUME NEW row, NEW l, row.legs = <<l>>
                 PROVE  HasRow(row) /\ Leg(row) = l
BY DEF HasRow, Leg

(* A take-profit keeps a row open and its cost accounted for. *)
LEMMA ReducedIn ==
    ASSUME NEW row \in RowRec, HasRow(row), Ripe(row, Leg(row))
    PROVE  LET l == Leg(row) IN
           /\ Reduced(l) \in LegRec /\ SoldCost(l) \in Int
           /\ Reduced(l).bucket = l.bucket /\ Reduced(l).payout = l.payout
           /\ Reduced(l).cost = l.cost - SoldCost(l)
           /\ IsHeld(l)
<1> DEFINE l == Leg(row)
<1>1. l \in LegRec BY LegIn
<1>2. l.shares \in Nat /\ l.shares >= 500 /\ l.cost \in Int BY <1>1 DEF LegRec, Ripe
<1>3. Sellable(l) \in Nat /\ Sellable(l) <= l.shares BY <1>2 DEF Sellable
<1>4. SoldCost(l) \in Int
  <2>1. l.cost * Sellable(l) \in Int BY <1>2, <1>3
  <2> QED BY <1>2, <2>1 DEF SoldCost
<1>5. (Sellable(l) = l.shares) \in BOOLEAN OBVIOUS
<1> DEFINE n == l.shares - Sellable(l)  c == l.cost - SoldCost(l)  e == Sellable(l) = l.shares
<1>6. Reduced(l) = [l EXCEPT !.shares = n, !.cost = c, !.settled = e] BY <1>1 DEF Reduced, LegRec
<1>7. n \in Nat /\ c \in Int /\ e \in BOOLEAN BY <1>2, <1>3, <1>4
<1> HIDE DEF n, e, l
<1>8. /\ Reduced(l) \in LegRec /\ Reduced(l).bucket = l.bucket /\ Reduced(l).payout = l.payout
      /\ Reduced(l).cost = c
  <2> HIDE DEF c
  <2> QED BY <1>1, <1>6, <1>7 DEF LegRec
<1>9. IsHeld(l) BY <1>2 DEF IsHeld
<1> QED BY <1>4, <1>8, <1>9 DEF l

LEMMA TakeProfitIn ==
    ASSUME NEW st \in Dict, HasRow(st.row)
    PROVE  LET tp == TakeProfit(st) IN
           /\ tp \in Dict /\ HasRow(tp.row) /\ tp.debit = st.debit
           /\ Leg(tp.row).bucket = Leg(st.row).bucket
           /\ IsHeld(Leg(tp.row)) => IsHeld(Leg(st.row))
           /\ Leg(tp.row).cost + tp.sold = Leg(st.row).cost + st.sold
           /\ Leg(tp.row).payout = Leg(st.row).payout
           /\ tp.row.entered = st.row.entered /\ tp.row.settled = st.row.settled
           /\ tp.row.why = st.row.why /\ tp.row.ended = st.row.ended
<1> DEFINE l == Leg(st.row)
<1>1. st.row \in RowRec /\ l \in LegRec /\ Head(st.row.legs) = l BY LegIn DEF Dict
<1>2. CASE ~Ripe(st.row, l)
  <2>1. TakeProfit(st) = st BY <1>1, <1>2 DEF TakeProfit
  <2> QED BY <2>1
<1>3. CASE Ripe(st.row, l)
  <2> DEFINE r == Reduced(l)  c == st.sold + SoldCost(l)
  <2>1. /\ r \in LegRec /\ SoldCost(l) \in Int /\ r.bucket = l.bucket /\ r.payout = l.payout
        /\ r.cost = l.cost - SoldCost(l) /\ IsHeld(l)
    BY <1>1, <1>3, ReducedIn
  <2>2. TakeProfit(st) = [st EXCEPT !.row.legs = <<r>>, !.row.tpDone = TRUE, !.sold = c]
    BY <1>1, <1>3 DEF TakeProfit, Dict
  <2>3. c \in Int /\ r.cost + c = l.cost + st.sold BY <1>1, <2>1 DEF Dict, LegRec
  <2> HIDE DEF r, c, l
  <2>4. <<r>> \in LegSeqs BY <2>1 DEF LegSeqs
  <2>5. /\ TakeProfit(st) \in Dict /\ TakeProfit(st).row.legs = <<r>>
        /\ TakeProfit(st).sold = c /\ TakeProfit(st).debit = st.debit
        /\ TakeProfit(st).row.entered = st.row.entered
        /\ TakeProfit(st).row.settled = st.row.settled
        /\ TakeProfit(st).row.why = st.row.why /\ TakeProfit(st).row.ended = st.row.ended
    <3> DEFINE q == [st.row EXCEPT !.legs = <<r>>, !.tpDone = TRUE]
    <3>1. TakeProfit(st) = [st EXCEPT !.row = q, !.sold = c] BY <2>2 DEF Dict
    <3>2. /\ q \in RowRec /\ q.legs = <<r>> /\ q.entered = st.row.entered
          /\ q.settled = st.row.settled /\ q.why = st.row.why /\ q.ended = st.row.ended
      BY <1>1, <2>4 DEF RowRec
    <3> HIDE DEF q
    <3> QED BY <2>3, <3>1, <3>2 DEF Dict
  <2>6. HasRow(TakeProfit(st).row) /\ Leg(TakeProfit(st).row) = r BY <2>5 DEF HasRow, Leg
  <2> QED BY <2>1, <2>3, <2>5, <2>6 DEF l
<1> QED BY <1>2, <1>3

(* A closed row brings what its leg is sold for. *)
LEMMA ProceedsIn ==
    ASSUME NEW l \in LegRec, look \in Quotes
    PROVE  Proceeds(l) \in Nat /\ ClosedLeg(l) \in LegRec
           /\ ClosedLeg(l).cost = l.cost /\ ClosedLeg(l).payout = l.payout + Proceeds(l)
<1>1. l.shares \in Nat /\ look[l.bucket].bid \in Nat /\ l.payout \in Nat
  BY DEF LegRec, Quotes
<1>2. Proceeds(l) \in Nat BY <1>1 DEF Proceeds
<1> DEFINE p == l.payout + Proceeds(l)
<1>3. p \in Nat BY <1>1, <1>2
<1>4. Closable(l) => ClosedLeg(l) = [l EXCEPT !.settled = TRUE, !.payout = p]
  BY <1>1 DEF ClosedLeg, LegRec
<1>5. ~Closable(l) => ClosedLeg(l) = l /\ p = l.payout BY <1>1 DEF ClosedLeg, Proceeds
<1> HIDE DEF p
<1>6. ClosedLeg(l) \in LegRec /\ ClosedLeg(l).cost = l.cost /\ ClosedLeg(l).payout = p
  BY <1>3, <1>4, <1>5 DEF LegRec
<1> QED BY <1>2, <1>6 DEF p

LEMMA ClosedIn ==
    ASSUME NEW st \in Dict, HasRow(st.row), look \in Quotes, now \in Nat, NEW why \in Reasons
    PROVE  LET c == Closed(st, why) IN
           /\ c \in Dict /\ HasRow(c.row) /\ c.row.settled
           /\ c.row.why = why /\ c.row.ended = now /\ c.row.entered = st.row.entered
           /\ c.sold = st.sold
           /\ c.debit - (Leg(c.row).cost - Leg(c.row).payout)
                = st.debit - (Leg(st.row).cost - Leg(st.row).payout)
<1> DEFINE l == Leg(st.row)  r == ClosedLeg(l)  d == st.debit - Proceeds(l)
<1>1. st.row \in RowRec /\ l \in LegRec /\ Head(st.row.legs) = l BY LegIn DEF Dict
<1>2. Proceeds(l) \in Nat /\ r \in LegRec /\ r.cost = l.cost /\ r.payout = l.payout + Proceeds(l)
  BY <1>1, ProceedsIn
<1>3. Closed(st, why) = [st EXCEPT !.row.legs = <<r>>, !.row.settled = TRUE, !.row.why = why,
                                   !.row.ended = now, !.debit = d]
  BY <1>1 DEF Closed, Dict, RowRec
<1>4. d \in Int /\ d - (r.cost - r.payout) = st.debit - (l.cost - l.payout)
  BY <1>1, <1>2 DEF Dict, LegRec
<1> HIDE DEF l, r, d
<1>5. <<r>> \in LegSeqs BY <1>2 DEF LegSeqs
<1>6. /\ Closed(st, why) \in Dict /\ Closed(st, why).row.legs = <<r>>
      /\ Closed(st, why).row.settled /\ Closed(st, why).row.why = why
      /\ Closed(st, why).row.ended = now /\ Closed(st, why).row.entered = st.row.entered
      /\ Closed(st, why).sold = st.sold /\ Closed(st, why).debit = d
  <2> DEFINE q == [st.row EXCEPT !.legs = <<r>>, !.settled = TRUE, !.why = why, !.ended = now]
  <2>1. Closed(st, why) = [st EXCEPT !.row = q, !.debit = d] BY <1>3 DEF Dict
  <2>2. /\ q \in RowRec /\ q.legs = <<r>> /\ q.settled /\ q.why = why /\ q.ended = now
        /\ q.entered = st.row.entered
    BY <1>1, <1>5 DEF RowRec
  <2> HIDE DEF q
  <2> QED BY <1>4, <2>1, <2>2 DEF Dict
<1>7. HasRow(Closed(st, why).row) /\ Leg(Closed(st, why).row) = r BY <1>6 DEF HasRow, Leg
<1> QED BY <1>4, <1>6, <1>7 DEF l

-----------------------------------------------------------------------------
(* The price memory stays a sequence of looks, none of them from the future. *)
PastSamples(series, t) == /\ series \in Seq(Samples)
                          /\ \A i \in 1..Len(series) : series[i].at <= t

LEMMA EarlierIn == ASSUME NEW series, NEW t \in Nat, PastSamples(series, t)
                   PROVE  PastSamples(Earlier(series, t), t)
<1>1. CASE Earlier(series, t) = series BY <1>1
<1>2. CASE series # <<>> /\ Earlier(series, t) = SubSeq(series, 1, Len(series) - 1)
  <2>1. Len(series) \in Nat \ {0} BY <1>2 DEF PastSamples
  <2> DEFINE n == Len(series) - 1
  <2>2. n \in Nat /\ n <= Len(series) BY <2>1
  <2> HIDE DEF n
  <2>3. /\ SubSeq(series, 1, n) \in Seq(Samples) /\ Len(SubSeq(series, 1, n)) = n
        /\ \A i \in 1..n : SubSeq(series, 1, n)[i] = series[i]
    BY <2>2 DEF PastSamples
  <2>4. \A i \in 1..n : i \in 1..Len(series) BY <2>2
  <2> QED BY <1>2, <2>3, <2>4 DEF PastSamples, n
<1> QED BY <1>1, <1>2 DEF Earlier, Front

LEMMA RecordedIn == ASSUME NEW series, NEW t \in Nat, PastSamples(series, t), NEW q \in Quotes
                    PROVE  PastSamples(Recorded(series, q, t), t)
<1> DEFINE e == Earlier(series, t)  x == [at |-> t, look |-> q]
<1>1. PastSamples(e, t) BY EarlierIn
<1>2. x \in Samples /\ x.at = t BY DEF Samples
<1>3. Recorded(series, q, t) \in {series, Append(e, x)} BY DEF Recorded
<1> HIDE DEF e, x
<1>4. PastSamples(Append(e, x), t)
  <2>1. /\ Append(e, x) \in Seq(Samples) /\ Len(Append(e, x)) = Len(e) + 1
        /\ \A i \in 1..Len(e) : Append(e, x)[i] = e[i]
        /\ Append(e, x)[Len(e) + 1] = x
    BY <1>1, <1>2 DEF PastSamples
  <2>2. Len(e) \in Nat BY <1>1 DEF PastSamples
  <2>3. \A i \in 1..Len(e) + 1 : i \in 1..Len(e) \/ i = Len(e) + 1 BY <2>2
  <2> QED BY <1>1, <1>2, <2>1, <2>2, <2>3 DEF PastSamples
<1> QED BY <1>3, <1>4

LEMMA PrunedIn == ASSUME NEW series, NEW t \in Nat, PastSamples(series, t), NEW w \in Nat
                  PROVE  PastSamples(Pruned(series, t, w), t)
<1> DEFINE young == Young(series, t, w)
<1>1. CASE young = {}
  <2>1. Pruned(series, t, w) = <<>> BY <1>1 DEF Pruned
  <2> QED BY <2>1 DEF PastSamples
<1>2. CASE young # {}
  <2>1. Len(series) \in Nat /\ young \subseteq 1..Len(series) BY DEF PastSamples, Young
  <2>2. Min(young) \in young
    <3>1. \E i \in young : \A j \in young : i <= j
      <4>1. young \subseteq Nat BY <2>1
      <4> HIDE DEF young
      <4> QED BY <1>2, <4>1, Lowest
    <3> HIDE DEF young
    <3> QED BY <3>1 DEF Min
  <2> DEFINE m == Min(young)
  <2>3. m \in 1..Len(series) BY <2>1, <2>2
  <2>4. Pruned(series, t, w) = SubSeq(series, m, Len(series)) BY <1>2 DEF Pruned
  <2> HIDE DEF m
  <2>5. /\ SubSeq(series, m, Len(series)) \in Seq(Samples)
        /\ Len(SubSeq(series, m, Len(series))) = Len(series) - m + 1
        /\ \A i \in 1..(Len(series) - m + 1) :
              SubSeq(series, m, Len(series))[i] = series[m + i - 1]
    BY <2>1, <2>3 DEF PastSamples
  <2>6. \A i \in 1..(Len(series) - m + 1) : m + i - 1 \in 1..Len(series) BY <2>1, <2>3
  <2> QED BY <2>4, <2>5, <2>6 DEF PastSamples
<1> QED BY <1>1, <1>2

-----------------------------------------------------------------------------
(* What each action changes, and that it keeps the types of what it changes. *)
LEMMA SeenIn == ASSUME Typed
                PROVE  /\ look \in Quotes /\ NoLook \in Quotes
                       /\ now \in Nat /\ LastTick \in Nat
                       /\ \A fresh \in Looks[direction] \cup {NoLook} : fresh \in Quotes
BY LooksAre, ConstantsAssumption DEF Typed, WorldTyped, SeenTyped

LEMMA DictIn == ASSUME NEW st \in Dict PROVE st.row \in RowRec
BY DEF Dict

LEMMA ReportsIn == ASSUME WorldTyped PROVE Reports \subseteq ReportRec \cup {NoReport}
<1>1. day.temps \in [1..LastTick + 1 -> Int] /\ day.storms \in [1..LastTick + 1 -> BOOLEAN]
  BY ConstantsAssumption DEF WorldTyped
<1>2. ASSUME NEW t \in {now - 1, now} \cap Nat
      PROVE  [temp |-> day.temps[t + 1], storm |-> day.storms[t + 1]] \in ReportRec
  <2>1. LastTick \in Nat /\ now \in 0..LastTick BY ConstantsAssumption DEF WorldTyped
  <2>2. t + 1 \in 1..LastTick + 1 BY <2>1
  <2> QED BY <1>1, <2>2 DEF ReportRec
<1> QED BY <1>2 DEF Reports

Aside == <<world, cycles, faults, disk>>

LEMMA ExitChanges ==
    ASSUME Typed, ExitStage
    PROVE  /\ Aside' = Aside /\ UNCHANGED <<look, report, samples, fire>>
           /\ stage = "exits" /\ stage' = "report"
           /\ mem' \in Memory /\ state' \in Dict
           /\ \/ /\ look = NoLook \/ ~HasRow(state.row)
                 /\ mem' = mem /\ state' = state
              \/ /\ HasRow(state.row) /\ state.row.settled
                 /\ mem' = Spent(mem) /\ state' = state
              \/ /\ RowOpen(state.row) /\ StopsNow(Synced(state.row))
                 /\ mem'.stopped /\ ~mem'.open.live
                 /\ state' = Closed(TakeProfit(state), Cause(Synced(state.row)))
              \/ /\ RowOpen(state.row) /\ mem' = Synced(state.row) /\ state' = TakeProfit(state)
<1>0. mem \in Memory /\ state \in Dict /\ state.row \in RowRec /\ look \in Quotes /\ now \in Nat
  BY SeenIn, DictIn DEF Typed
<1>1. Aside' = Aside /\ UNCHANGED <<look, report, samples, fire>> /\ stage = "exits"
        /\ stage' = "report"
  BY DEF ExitStage, Aside
<1>2. CASE look = NoLook \/ ~HasRow(state.row)
  <2>1. mem' = mem /\ state' = state BY <1>2 DEF ExitStage
  <2> QED BY <1>0, <1>1, <1>2, <2>1
<1>3. CASE look # NoLook /\ HasRow(state.row) /\ state.row.settled
  <2>1. mem' = Spent(mem) /\ state' = state BY <1>3 DEF ExitStage
  <2> QED BY <1>0, <1>1, <1>3, <2>1, SpentIn
<1>4. CASE look # NoLook /\ HasRow(state.row) /\ ~state.row.settled
  <2> DEFINE m == Synced(state.row)  st == TakeProfit(state)
  <2>1. m \in Memory BY <1>0, <1>4, SyncedIn
  <2>2. st \in Dict /\ HasRow(st.row) BY <1>0, <1>4, TakeProfitIn
  <2>3. RowOpen(state.row) BY <1>4 DEF RowOpen
  <2>4. CASE StopsNow(m)
    <3>1. mem' = StopPosition(m) /\ state' = Closed(st, Cause(m)) BY <1>4, <2>4 DEF ExitStage
    <3>2. Cause(m) \in Reasons BY DEF Cause, Reasons
    <3> DEFINE o == [m.open EXCEPT !.live = FALSE]  n == [m EXCEPT !.open = o]
    <3>3. o \in OpenRec \cup NoneOpen /\ ~o.live
      <4>1. m.open \in OpenRec \cup NoneOpen BY <2>1 DEF Memory
      <4> QED BY <4>1, DroppedIn
    <3>4. StopPosition(m) = Spent(n) BY <2>1 DEF StopPosition, Memory
    <3> HIDE DEF o
    <3>5. n \in Memory /\ ~n.open.live BY <2>1, <3>3 DEF Memory
    <3> HIDE DEF n
    <3>6. mem' \in Memory /\ mem'.stopped /\ ~mem'.open.live BY <3>1, <3>4, <3>5, SpentIn
    <3>7. state' \in Dict
      <4> HIDE DEF st, m
      <4> QED BY <1>0, <2>2, <3>1, <3>2, ClosedIn
    <3> QED BY <1>1, <2>3, <2>4, <3>1, <3>6, <3>7
  <2>5. CASE ~StopsNow(m)
    <3>1. mem' = m /\ state' = st BY <1>4, <2>5 DEF ExitStage
    <3> QED BY <1>1, <2>1, <2>2, <2>3, <3>1
  <2> QED BY <2>4, <2>5
<1> QED BY <1>2, <1>3, <1>4

(* A report: a breach closes the row and forgets the position, an abortion closes it and     *)
(* remembers; both leave the memory of the lock alone.                                       *)
LEMMA BreachChanges ==
    ASSUME Typed, Breach
    PROVE  /\ Aside' = Aside /\ UNCHANGED <<look, report, samples, fire>>
           /\ stage = "report" /\ stage' \in {"settle", "hedge"}
           /\ mem' \in Memory /\ state' \in Dict
           /\ RowOpen(state.row) /\ ~mem'.open.live
           /\ state' = Closed(state, "breach")
<1>0. mem \in Memory /\ state \in Dict /\ look \in Quotes /\ now \in Nat /\ WorldTyped
  BY SeenIn DEF Typed
<1>1. report \in ReportRec BY DEF Breach, Reported, Typed, SeenTyped
<1> DEFINE m == Noted(mem)
           o == [m.open EXCEPT !.live = FALSE]
           f == IF FiresOf(m) >= MaxFires THEN m.fires ELSE FiresOf(m) + 1
<1>2. m \in Memory BY <1>0, <1>1, NotedIn
<1>3. mem' = [m EXCEPT !.breached = TRUE, !.open = o, !.fires = f] BY <1>2 DEF Breach, Memory
<1>4. o \in OpenRec \cup NoneOpen /\ ~o.live
  <2>1. m.open \in OpenRec \cup NoneOpen BY <1>2 DEF Memory
  <2> QED BY <2>1, DroppedIn
<1>5. f \in 0..MaxFires BY <1>2 DEF Memory, MaxFires, FiresOf
<1> HIDE DEF o, f
<1>6. mem' \in Memory /\ ~mem'.open.live
  <2> HIDE DEF m
  <2> QED BY <1>2, <1>3, <1>4, <1>5 DEF Memory
<1>7. RowOpen(state.row) /\ state' = Closed(state, "breach") BY DEF Breach
<1>8. state' \in Dict
  <2>1. "breach" \in Reasons BY DEF Reasons
  <2> QED BY <1>0, <1>7, <2>1, ClosedIn DEF RowOpen
<1> QED BY <1>6, <1>7, <1>8 DEF Breach, Reported, Aside

LEMMA AbortChanges ==
    ASSUME Typed, Abort
    PROVE  /\ Aside' = Aside /\ UNCHANGED <<look, report, samples, fire>>
           /\ stage = "report" /\ stage' = "settle"
           /\ mem' \in Memory /\ state' \in Dict
           /\ RowOpen(state.row) /\ mem'.open = mem.open
           /\ state' = Closed(state, "abortion")
<1>0. mem \in Memory /\ state \in Dict /\ look \in Quotes /\ now \in Nat /\ WorldTyped
  BY SeenIn DEF Typed
<1>1. report \in ReportRec BY DEF Abort, Reported, Typed, SeenTyped
<1>2. mem' = Spent(Noted(mem)) BY DEF Abort
<1>3. mem' \in Memory /\ mem'.open = mem.open BY <1>0, <1>1, <1>2, NotedIn, SpentIn
<1>4. RowOpen(state.row) /\ state' = Closed(state, "abortion") BY DEF Abort
<1>5. state' \in Dict
  <2>1. "abortion" \in Reasons BY DEF Reasons
  <2> QED BY <1>0, <1>4, <2>1, ClosedIn DEF RowOpen
<1> QED BY <1>3, <1>4, <1>5 DEF Abort, Reported, Aside

(* A fire is decided on books and without an open row, by a memory that allows it. *)
LEMMA LeaderIn == Leader \subseteq Buckets
BY DEF Leader, Leaders

LEMMA TakenIn ==
    ASSUME Typed, NEW m \in Memory, m.fires < MaxFires, NEW channel \in {"next", "target"},
           NEW b \in Buckets, NEW used \in Int
    PROVE  /\ Taken(m, channel, b, used) \in Memory
           /\ Taken(m, channel, b, used).open.live
           /\ Taken(m, channel, b, used).open.entered = now
<1>1. look \in Quotes /\ now \in Nat BY SeenIn
<1> DEFINE o == [bucket |-> b, live |-> TRUE, avg |-> look[b].ask, entered |-> now]
           k == [channel |-> channel, target |-> b]
           f == m.fires + 1
<1>2. o \in OpenRec \cup NoneOpen /\ o.live /\ o.entered = now BY <1>1 DEF OpenRec, Quotes
<1>3. k \in LockRec BY DEF LockRec, Channels
<1>4. f \in 0..MaxFires BY DEF Memory, MaxFires
<1>5. Taken(m, channel, b, used) = [m EXCEPT !.open = o, !.locked = k, !.fires = f, !.used = used]
  BY DEF Taken, Memory
<1> HIDE DEF o, k, f
<1> QED BY <1>2, <1>3, <1>4, <1>5 DEF Memory

(* Without books there is nothing to buy. *)
LEMMA OfferedLooks == ASSUME Typed, NEW ref \in Buckets, NextOffered(ref) \/ TargetOffered(ref)
                      PROVE  look # NoLook
<1>1. ASSUME NEW b \in Buckets, look[b].ask >= NextFloor \/ look[b].ask >= TargetFloor
      PROVE  look # NoLook
  BY <1>1 DEF NoLook, NoQuote, NextFloor, TargetFloor
<1> QED BY <1>1 DEF NextOffered, TargetOffered

LEMMA EnterChanges ==
    ASSUME Typed, EnterNext \/ EnterTarget
    PROVE  /\ Aside' = Aside /\ UNCHANGED <<look, report, samples, state>>
           /\ stage = "report" /\ stage' = "fire" /\ fire' \in FireRec
           /\ mem' \in Memory /\ mem'.open.live /\ mem'.open.entered = now
           /\ ~RowOpen(state.row) /\ ~mem.stopped /\ ~mem.breached /\ look # NoLook
<1>0. mem \in Memory /\ WorldTyped BY DEF Typed
<1>1. stage = "report" /\ report \in ReportRec BY DEF EnterNext, EnterTarget, Enters, Reported, Typed, SeenTyped
<1> DEFINE m == Noted(mem)
<1>2. m \in Memory /\ m.stopped = mem.stopped /\ m.breached = mem.breached /\ m.used = mem.used
  BY <1>0, <1>1, NotedIn
<1>3. Leader \subseteq Buckets BY LeaderIn
<1>4. CASE EnterNext
  <2>1. PICK ref \in References :
          /\ Enters(m, ref) /\ NextOffered(ref)
          /\ mem' = Taken(m, "next", Ahead(ref), NextBudget)
          /\ fire' = [channel |-> "next", bucket |-> Ahead(ref), budget |-> NextBudget,
                      floor |-> NextFloor, cap |-> NextCap]
    BY <1>4 DEF EnterNext
  <2>2. ref \in Buckets /\ Ahead(ref) \in Buckets BY <1>3, <2>1 DEF NextOffered
  <2>3. m.fires < MaxFires /\ ~m.stopped /\ ~m.breached /\ ~RowOpen(state.row)
    BY <2>1 DEF Enters, MayEnter
  <2>4. NextBudget \in Nat /\ NextFloor \in Nat /\ NextCap \in Nat \ {0}
    BY DEF NextBudget, NextFloor, NextCap, FireBudget, NextPercent
  <2>5. fire' \in FireRec BY <2>1, <2>2, <2>4 DEF FireRec
  <2> HIDE DEF m
  <2>6. mem' \in Memory /\ mem'.open.live /\ mem'.open.entered = now
    BY <1>2, <2>1, <2>2, <2>3, <2>4, TakenIn
  <2>7. look # NoLook BY <2>1, <2>2, OfferedLooks
  <2> QED BY <1>1, <1>2, <1>4, <2>3, <2>5, <2>6, <2>7 DEF EnterNext, Aside
<1>5. CASE EnterTarget
  <2>1. PICK ref \in References :
          /\ Enters(m, ref) /\ TargetOffered(ref)
          /\ mem' = Taken(m, "target", ref, m.used)
          /\ fire' = [channel |-> "target", bucket |-> ref, budget |-> TargetBudget(m),
                      floor |-> TargetFloor, cap |-> TargetCap]
    BY <1>5 DEF EnterTarget
  <2>2. ref \in Buckets BY <1>3, <2>1 DEF TargetOffered
  <2>3. m.fires < MaxFires /\ ~m.stopped /\ ~m.breached /\ ~RowOpen(state.row)
    BY <2>1 DEF Enters, MayEnter
  <2>4. m.used \in Int BY <1>2 DEF Memory
  <2>5. TargetBudget(m) \in Nat /\ TargetFloor \in Nat /\ TargetCap \in Nat \ {0}
    BY <2>4 DEF TargetBudget, Larger, FireBudget, TargetFloor, TargetCap
  <2>6. fire' \in FireRec BY <2>1, <2>2, <2>5 DEF FireRec
  <2> HIDE DEF m
  <2>7. mem' \in Memory /\ mem'.open.live /\ mem'.open.entered = now
    BY <1>2, <2>1, <2>2, <2>3, <2>4, TakenIn
  <2>8. look # NoLook BY <2>1, <2>2, OfferedLooks
  <2> QED BY <1>1, <1>2, <1>5, <2>3, <2>6, <2>7, <2>8 DEF EnterTarget, Aside
<1> QED BY <1>4, <1>5

LEMMA NoteChanges ==
    ASSUME Typed, Hold \/ Refuse
    PROVE  /\ Aside' = Aside /\ UNCHANGED <<look, report, samples, state, fire>>
           /\ stage = "report" /\ stage' = "settle"
           /\ mem' \in Memory /\ mem'.open = mem.open
           /\ Hold => ~Breached(mem)
           /\ Refuse => ~RowOpen(state.row)
<1>0. mem \in Memory /\ WorldTyped BY DEF Typed
<1>1. stage = "report" /\ report \in ReportRec BY DEF Hold, Refuse, Reported, Typed, SeenTyped
<1>2. mem' = Noted(mem) BY DEF Hold, Refuse
<1>3. mem' \in Memory /\ mem'.open = mem.open /\ Noted(mem).open = mem.open
        /\ Noted(mem).locked = mem.locked
  BY <1>0, <1>1, <1>2, NotedIn
<1>4. Breached(Noted(mem)) <=> Breached(mem) BY <1>3 DEF Breached, Original
<1> QED BY <1>1, <1>3, <1>4 DEF Hold, Refuse, Aside

(* A fire opens a row with one leg, charged to the ledger, and leaves the memory alone. *)
LEMMA FireChanges ==
    ASSUME Typed, Fire
    PROVE  /\ Aside' = Aside /\ UNCHANGED <<look, report, samples, mem>>
           /\ stage = "fire" /\ stage' = "settle" /\ fire' = NoFire
           /\ state' \in Dict /\ RowOpen(state'.row)
           /\ state'.row.entered = now /\ state'.row.why = "none" /\ state'.sold = state.sold
           /\ state'.debit = state.debit + Leg(state'.row).cost /\ Leg(state'.row).payout = 0
<1>0. /\ stage = "fire" /\ stage' = "settle" /\ fire' = NoFire /\ fire \in FireRec
      /\ state \in Dict /\ now \in Nat
  BY SeenIn DEF Fire, Typed, CycleTyped
<1>a. PICK fresh \in Looks[direction] \cup {NoLook} :
         LET q == fresh[fire.bucket] IN
         \E shares \in Fills(Shares(fire.budget, 100, fire.cap), q) :
            state' = [state EXCEPT
                   !.debit = @ + shares * q.ask,
                   !.row = [NoRow EXCEPT !.legs = <<NewLeg(fire.bucket, shares,
                                                          IF shares > 0 THEN q.ask ELSE 0)>>,
                                         !.channel = fire.channel, !.entered = now]]
  BY DEF Fire
<1>1. PICK shares \in Fills(Shares(fire.budget, 100, fire.cap), fresh[fire.bucket]) :
         LET q == fresh[fire.bucket] IN
         state' = [state EXCEPT
                   !.debit = @ + shares * q.ask,
                   !.row = [NoRow EXCEPT !.legs = <<NewLeg(fire.bucket, shares,
                                                          IF shares > 0 THEN q.ask ELSE 0)>>,
                                         !.channel = fire.channel, !.entered = now]]
  BY <1>a
<1> DEFINE q == fresh[fire.bucket]
           avg == IF shares > 0 THEN q.ask ELSE 0
           l == NewLeg(fire.bucket, shares, avg)
           d == state.debit + shares * q.ask
           row == [NoRow EXCEPT !.legs = <<l>>, !.channel = fire.channel, !.entered = now]
<1>2. fire.bucket \in Buckets /\ q.ask \in Nat /\ fire.channel \in Channels
  <2>1. fresh \in Quotes BY SeenIn
  <2> QED BY <1>0, <2>1 DEF FireRec, Quotes, Channels
<1>3. shares \in Nat
  <2>1. fire.budget \in Nat /\ fire.cap \in Nat /\ fire.cap > 0 BY <1>0 DEF FireRec
  <2>2. Shares(fire.budget, 100, fire.cap) \in Nat
    <3>1. fire.budget * 100 \in Nat BY <2>1
    <3> QED BY <2>1, <3>1 DEF Shares
  <2>3. PartialFills \subseteq Nat BY ConstantsAssumption
  <2> QED BY <2>2, <2>3 DEF Fills
<1>4. avg \in Nat /\ shares * avg = shares * q.ask /\ shares * q.ask \in Int
  <2>1. CASE shares > 0 BY <1>2, <1>3, <2>1
  <2>2. CASE shares = 0 BY <1>2, <2>2
  <2> QED BY <1>3, <2>1, <2>2
<1>5. l \in LegRec /\ l.cost = shares * q.ask /\ l.payout = 0
  <2> HIDE DEF avg, q
  <2>1. shares * avg \in Int BY <1>4
  <2> QED BY <1>2, <1>3, <1>4, <2>1 DEF NewLeg, LegRec
<1>6. d \in Int /\ d = state.debit + l.cost
  <2>1. state.debit \in Int BY <1>0 DEF Dict
  <2> HIDE DEF q, l
  <2> QED BY <1>4, <1>5, <2>1
<1>7. state' = [state EXCEPT !.debit = d, !.row = row] BY <1>0, <1>1 DEF Dict
<1> HIDE DEF l, d
<1>8. <<l>> \in LegSeqs BY <1>5 DEF LegSeqs
<1>9. /\ row \in RowRec /\ row.legs = <<l>> /\ row.entered = now /\ row.why = "none"
      /\ ~row.settled
  BY <1>0, <1>2, <1>8 DEF NoRow, RowRec, Reasons
<1> HIDE DEF row
<1>10. /\ state' \in Dict /\ state'.row = row /\ state'.debit = d /\ state'.sold = state.sold
  BY <1>0, <1>6, <1>7, <1>9 DEF Dict
<1>11. RowOpen(state'.row) /\ Leg(state'.row) = l BY <1>9, <1>10, WithLeg DEF RowOpen
<1> QED BY <1>0, <1>5, <1>6, <1>9, <1>10, <1>11 DEF Fire, Aside

(* A settlement either pays the leg and closes the row or changes nothing. *)
LEMMA SettleChanges ==
    ASSUME Typed, NEW pulled \in BOOLEAN, Settle(pulled)
    PROVE  /\ Aside' = Aside /\ UNCHANGED <<samples, mem, fire>>
           /\ look' = NoLook /\ report' = NoReport
           /\ stage = "settle" /\ stage' = "save"
           /\ state' \in Dict
           /\ \/ state' = state
              \/ /\ RowOpen(state.row) /\ HasRow(state'.row) /\ state'.row.settled
                 /\ state'.row.why = "resolved" /\ state'.sold = state.sold
                 /\ state'.row.entered = state.row.entered
                 /\ state'.debit - (Leg(state'.row).cost - Leg(state'.row).payout)
                      = state.debit - (Leg(state.row).cost - Leg(state.row).payout)
<1>0. /\ Aside' = Aside /\ UNCHANGED <<samples, mem, fire>>
      /\ look' = NoLook /\ report' = NoReport /\ stage = "settle" /\ stage' = "save"
      /\ state \in Dict /\ now \in Nat
  BY SeenIn DEF Settle, Aside, Typed
<1>1. CASE ~pulled BY <1>0, <1>1 DEF Settle
<1>2. CASE pulled
  <2> DEFINE l == Leg(state.row)
             p == l.payout + Redeemed(l)
             r == [l EXCEPT !.settled = TRUE, !.payout = p]
             d == state.debit - Redeemed(l)
             q == [state.row EXCEPT !.legs = <<r>>, !.settled = TRUE, !.why = "resolved",
                                    !.ended = now]
  <2>1. RowOpen(state.row) BY <1>2 DEF Settle
  <2>2. state.row \in RowRec /\ l \in LegRec /\ Head(state.row.legs) = l
    BY <1>0, <2>1, DictIn, LegIn DEF RowOpen
  <2>3. Redeemed(l) \in Nat BY <2>2 DEF Redeemed, LegRec
  <2>4. state' = [state EXCEPT !.row = q, !.debit = d]
    BY <1>0, <1>2, <2>2 DEF Settle, Dict, RowRec, LegRec
  <2>5. p \in Nat /\ d \in Int /\ d - (l.cost - p) = state.debit - (l.cost - l.payout)
    BY <1>0, <2>2, <2>3 DEF Dict, LegRec
  <2> HIDE DEF p, d
  <2>6. r \in LegRec /\ r.cost = l.cost /\ r.payout = p BY <2>2, <2>5 DEF LegRec
  <2> HIDE DEF r
  <2>7. /\ q \in RowRec /\ q.legs = <<r>> /\ q.settled /\ q.why = "resolved"
        /\ q.entered = state.row.entered
    BY <1>0, <2>2, <2>6 DEF RowRec, LegSeqs, Reasons
  <2> HIDE DEF q
  <2>8. state' \in Dict /\ state'.row = q /\ state'.debit = d /\ state'.sold = state.sold
    BY <1>0, <2>4, <2>5, <2>7 DEF Dict
  <2>9. HasRow(state'.row) /\ Leg(state'.row) = r BY <2>7, <2>8, WithLeg
  <2> QED BY <1>0, <2>1, <2>5, <2>6, <2>7, <2>8, <2>9
<1> QED BY <1>1, <1>2

-----------------------------------------------------------------------------
(* Types are kept. *)
LEMMA NewMemoryIn == NewMemory \in Memory /\ ~NewMemory.open.live
BY DEF NewMemory, NoOpen, NoLock, NoHist, Memory, NoneOpen, LockRec, HistRec, Channels, MaxFires

LEMMA TypedInit == ASSUME Init PROVE Typed
<1>1. state \in Dict /\ disk \in Dict
  BY DEF Init, NoRow, Dict, RowRec, LegSeqs, Channels, Reasons
<1>2. mem \in Memory BY NewMemoryIn DEF Init
<1>3. SeenTyped BY DEF Init, SeenTyped
<1>4. WorldTyped /\ CycleTyped BY ConstantsAssumption DEF Init, WorldTyped, CycleTyped, Stages
<1> QED BY <1>1, <1>2, <1>3, <1>4 DEF Typed

(* The loop's part of the state changes within its types. *)
LEMMA TypedLoop ==
    ASSUME Typed, UNCHANGED <<world, cycles, faults, look, report, samples>>,
           stage' \in Stages \ {"fire"}, fire' = NoFire,
           mem' \in Memory, state' \in Dict, disk' \in Dict
    PROVE  Typed'
BY DEF Typed, WorldTyped, SeenTyped, CycleTyped, world

LEMMA NotFire == ASSUME Typed, stage # "fire" PROVE fire = NoFire
BY DEF Typed, CycleTyped

LEMMA TypedExits == ASSUME Typed, ExitStage PROVE Typed'
<1>1. /\ Aside' = Aside /\ UNCHANGED <<look, report, samples, fire>>
      /\ stage = "exits" /\ stage' = "report" /\ mem' \in Memory /\ state' \in Dict
  BY ExitChanges
<1>2. disk' \in Dict /\ fire' = NoFire /\ stage' \in Stages \ {"fire"}
  BY <1>1, NotFire DEF Aside, Typed, Stages
<1> QED BY <1>1, <1>2, TypedLoop DEF Aside

LEMMA TypedReports == ASSUME Typed, NoReportYet \/ Breach \/ Abort \/ Hold \/ Refuse PROVE Typed'
<1>1. /\ Aside' = Aside /\ UNCHANGED <<look, report, samples, fire>>
      /\ stage = "report" /\ stage' \in {"settle", "hedge"}
      /\ mem' \in Memory /\ state' \in Dict
  <2>1. CASE NoReportYet BY <2>1 DEF NoReportYet, Aside, Typed
  <2> QED BY <2>1, BreachChanges, AbortChanges, NoteChanges DEF Typed
<1>2. disk' \in Dict /\ fire' = NoFire /\ stage' \in Stages \ {"fire"}
  BY <1>1, NotFire DEF Aside, Typed, Stages
<1> QED BY <1>1, <1>2, TypedLoop DEF Aside

LEMMA TypedEnter == ASSUME Typed, EnterNext \/ EnterTarget PROVE Typed'
<1>1. /\ Aside' = Aside /\ UNCHANGED <<look, report, samples, state>>
      /\ stage' = "fire" /\ fire' \in FireRec /\ mem' \in Memory
  BY EnterChanges
<1> QED BY <1>1 DEF Aside, Typed, WorldTyped, SeenTyped, CycleTyped, world, Stages

LEMMA TypedFires == ASSUME Typed, Fire \/ PortRefuses \/ Hedge PROVE Typed'
<1>1. /\ Aside' = Aside /\ UNCHANGED <<look, report, samples>>
      /\ stage' = "settle" /\ fire' = NoFire /\ mem' \in Memory /\ state' \in Dict
  <2>1. CASE PortRefuses \/ Hedge BY <2>1, NotFire DEF PortRefuses, Hedge, Aside, Typed
  <2> QED BY <2>1, FireChanges DEF Typed
<1>2. disk' \in Dict /\ stage' \in Stages \ {"fire"} BY <1>1 DEF Aside, Typed, Stages
<1> QED BY <1>1, <1>2, TypedLoop DEF Aside

LEMMA TypedEnds ==
    ASSUME Typed, CycleError \/ Crash \/ Save \/ \E pulled \in BOOLEAN : Settle(pulled)
    PROVE  Typed'
<1>1. CASE CycleError \/ Crash
  <2>1. /\ mem' \in Memory /\ state' \in Dict /\ disk' \in Dict
        /\ samples' \in {samples, <<>>}
    BY <1>1, NewMemoryIn DEF CycleError, Crash, Typed
  <2>2. samples' \in Seq(Samples) /\ \A i \in 1..Len(samples') : samples'[i].at <= now
    <3>1. CASE samples' = samples BY <3>1 DEF Typed, SeenTyped
    <3>2. CASE samples' = <<>> BY <3>2
    <3> QED BY <2>1, <3>1, <3>2
  <2>4. SeenTyped'
    BY <1>1, <2>2 DEF CycleError, Crash, CycleEnds, SeenTyped, world
  <2>3. CycleTyped' /\ WorldTyped'
    BY <1>1, ConstantsAssumption DEF CycleError, Crash, CycleEnds, Fault, Typed, CycleTyped,
       WorldTyped, world, Stages
  <2> QED BY <2>1, <2>3, <2>4 DEF Typed
<1>2. CASE Save
  <2>1. stage' \in Stages \ {"fire"} /\ fire = NoFire BY <1>2, NotFire DEF Save, Stages
  <2> QED BY <1>2, <2>1, TypedLoop DEF Save, Typed
<1>3. ASSUME NEW pulled \in BOOLEAN, Settle(pulled) PROVE Typed'
  <2>1. /\ Aside' = Aside /\ UNCHANGED <<samples, mem, fire>> /\ look' = NoLook
        /\ report' = NoReport /\ stage' = "save" /\ state' \in Dict /\ fire = NoFire
    BY <1>3, SettleChanges, NotFire
  <2> QED BY <2>1 DEF Aside, Typed, WorldTyped, SeenTyped, CycleTyped, world, Stages
<1> QED BY <1>1, <1>2, <1>3

LEMMA TypedWorld == ASSUME Typed, Tick \/ Resolve \/ BeginCycle PROVE Typed'
<1>0. now \in Nat /\ LastTick \in Nat BY SeenIn
<1>1. CASE Tick
  <2>1. now' \in 0..LastTick BY <1>0, <1>1 DEF Tick
  <2>2. \A i \in 1..Len(samples) : samples[i].at <= now'
    <3> SUFFICES ASSUME NEW i \in 1..Len(samples) PROVE samples[i].at <= now' OBVIOUS
    <3>0. samples[i] \in Samples /\ samples[i].at <= now BY DEF Typed, SeenTyped
    <3>1. samples[i].at \in Nat /\ samples[i].at <= now BY <3>0 DEF Samples
    <3> QED BY <1>0, <1>1, <3>1 DEF Tick
  <2> QED BY <1>1, <2>1, <2>2 DEF Tick, Typed, WorldTyped, SeenTyped, CycleTyped
<1>2. CASE Resolve
  BY <1>2 DEF Resolve, Typed, WorldTyped, SeenTyped, CycleTyped
<1>3. CASE BeginCycle
  <2>1. look' \in Quotes /\ look' \in Looks[direction] \cup {NoLook} /\ Window \in Nat
    BY <1>3, SeenIn, ConstantsAssumption DEF BeginCycle
  <2>2. PastSamples(Recorded(samples, look', now), now)
    <3>1. PastSamples(samples, now) BY DEF Typed, SeenTyped, PastSamples
    <3> QED BY <1>0, <2>1, <3>1, RecordedIn
  <2>3. PastSamples(samples', now) BY <1>0, <1>3, <2>1, <2>2, PrunedIn DEF BeginCycle
  <2>4. report' \in ReportRec \cup {NoReport} BY <1>3, ReportsIn DEF BeginCycle, Typed
  <2>5. cycles' \in 0..MaxCycles
    BY <1>3, ConstantsAssumption DEF BeginCycle, Typed, CycleTyped
  <2>6. SeenTyped' BY <1>3, <2>1, <2>3, <2>4 DEF BeginCycle, SeenTyped, PastSamples, world
  <2>7. WorldTyped' /\ CycleTyped' /\ mem' = mem /\ state' = state /\ disk' = disk
    BY <1>3, <2>5 DEF BeginCycle, Typed, WorldTyped, CycleTyped, world, Stages
  <2> QED BY <2>6, <2>7 DEF Typed
<1> QED BY <1>1, <1>2, <1>3

LEMMA TypedKept == ASSUME Typed, [Next]_vars PROVE Typed'
<1>1. CASE UNCHANGED vars BY <1>1 DEF vars, Typed, WorldTyped, SeenTyped, CycleTyped
<1> QED BY <1>1, TypedExits, TypedReports, TypedEnter, TypedFires, TypedEnds, TypedWorld DEF Next

(* The memory, the row, the file and the cycle keep their types, whatever the books, the     *)
(* reports and the faults (StrategyState and PositionRecord of strategy_consensus_lock.py).  *)
THEOREM TypeCorrect == Spec => []TypeOK
<1>1. Typed => TypeOK
  <2> SUFFICES ASSUME Typed PROVE TypeOK OBVIOUS
  <2>1. \A i \in 1..Len(samples) : samples[i].at \in 0..now
    <3> SUFFICES ASSUME NEW i \in 1..Len(samples) PROVE samples[i].at \in 0..now OBVIOUS
    <3>0. samples[i] \in Samples /\ samples[i].at <= now BY DEF Typed, SeenTyped
    <3>1. samples[i].at \in Nat /\ samples[i].at <= now BY <3>0 DEF Samples
    <3> QED BY <3>1, SeenIn
  <2>2. /\ mem.fires \in 0..MaxFires /\ mem.locked.channel \in Channels
        /\ mem.open.bucket \in Buckets \cup {NoBucket} /\ mem.open.live \in BOOLEAN
    <3>1. mem \in Memory BY DEF Typed
    <3>2. mem.open \in OpenRec \cup NoneOpen /\ mem.locked \in LockRec BY <3>1 DEF Memory
    <3> QED BY <3>1, <3>2 DEF Memory, OpenRec, NoneOpen, LockRec
  <2>3. Len(state.row.legs) <= 1 /\ state.row.channel \in Channels
    <3>1. state.row \in RowRec BY DictIn DEF Typed
    <3>2. state.row.legs \in LegSeqs /\ state.row.channel \in Channels BY <3>1 DEF RowRec
    <3>3. ASSUME NEW legs \in LegSeqs PROVE Len(legs) <= 1
      <4>1. CASE legs = <<>> BY <4>1
      <4>2. ASSUME NEW l, legs = <<l>> PROVE Len(legs) <= 1
        <5>1. Len(<<l>>) = 1 OBVIOUS
        <5> QED BY <4>2, <5>1
      <4> QED BY <4>1, <4>2 DEF LegSeqs
    <3> QED BY <3>2, <3>3
  <2>4. (fire = NoFire) = (stage # "fire") BY NoneAre DEF Typed, CycleTyped
  <2> QED BY <2>1, <2>2, <2>3, <2>4 DEF Typed, WorldTyped, SeenTyped, CycleTyped, Stages, TypeOK
<1> QED BY <1>1, TypedInit, TypedKept, PTL DEF Spec

-----------------------------------------------------------------------------
(* Remembered: what the strategy object knows of the row, and the file of the dict. *)

(* A position in memory entered when the row did. *)
Entered == mem.open.live /\ HasRow(state.row) => mem.open.entered = state.row.entered
(* A fire is placed for a session that never had a row. *)
Firing == stage = "fire" => ~HasRow(state.row) /\ mem.open.live /\ mem.open.entered = now
(* A cycle with books that visits its report knows when the row was closed, and the bucket  *)
(* of one that is not.                                                                      *)
Visiting == stage = "report" /\ look # NoLook
Known   == Visiting /\ HasRow(state.row) /\ state.row.settled => mem.stopped \/ mem.breached
Tracked == Visiting /\ RowOpen(state.row) /\ IsHeld(Leg(state.row))
              => mem.locked.target = NoBucket /\ mem.open.bucket = Leg(state.row).bucket
(* What the file has opened or closed the dict has. *)
Behind == HasRow(disk.row) => HasRow(state.row) /\ (disk.row.settled => state.row.settled)

Remembered == Entered /\ Firing /\ Known /\ Tracked /\ Behind

LEMMA RememberedInit == ASSUME Init PROVE Remembered
BY DEF Init, Remembered, Entered, Firing, Visiting, Known, Tracked, Behind, HasRow, RowOpen, NoRow

LEMMA RememberedExits == ASSUME Typed, Remembered, ExitStage PROVE Remembered'
<1>0. /\ mem \in Memory /\ state \in Dict /\ state.row \in RowRec /\ look \in Quotes /\ now \in Nat
  BY SeenIn, DictIn DEF Typed
<1>1. Aside' = Aside /\ look' = look /\ stage' = "report" /\ now' = now /\ disk' = disk
  BY ExitChanges DEF Aside, world
<1>2. CASE (look = NoLook \/ ~HasRow(state.row)) /\ mem' = mem /\ state' = state
  <2>1. mem' = mem /\ state' = state BY <1>2 DEF ExitStage
  <2> QED BY <1>1, <1>2, <2>1 DEF Remembered, Entered, Firing, Visiting, Known, Tracked, Behind, RowOpen
<1>3. CASE HasRow(state.row) /\ state.row.settled /\ mem' = Spent(mem) /\ state' = state
  <2>1. mem'.stopped /\ mem'.open = mem.open BY <1>0, <1>3, SpentIn
  <2> QED BY <1>1, <1>3, <2>1
          DEF Remembered, Entered, Firing, Visiting, Known, Tracked, Behind, RowOpen
<1>4. CASE /\ RowOpen(state.row) /\ ~mem'.open.live
           /\ mem'.stopped
           /\ state' = Closed(TakeProfit(state), Cause(Synced(state.row)))
  <2> DEFINE st == TakeProfit(state)  why == Cause(Synced(state.row))
  <2>1. st \in Dict /\ HasRow(st.row) BY <1>0, <1>4, TakeProfitIn DEF RowOpen
  <2>2. why \in Reasons BY DEF Cause, Reasons
  <2>3. state' = Closed(st, why) BY <1>4
  <2> HIDE DEF st, why
  <2>4. HasRow(state'.row) /\ state'.row.settled BY <1>0, <2>1, <2>2, <2>3, ClosedIn
  <2> QED BY <1>1, <1>4, <2>4
          DEF Remembered, Entered, Firing, Visiting, Known, Tracked, Behind, RowOpen
<1>5. CASE RowOpen(state.row) /\ mem' = Synced(state.row) /\ state' = TakeProfit(state)
  <2>1. HasRow(state.row) BY <1>5 DEF RowOpen
  <2>2. /\ HasRow(state'.row) /\ state'.row.settled = state.row.settled
        /\ state'.row.entered = state.row.entered
        /\ Leg(state'.row).bucket = Leg(state.row).bucket
        /\ IsHeld(Leg(state'.row)) => IsHeld(Leg(state.row))
    BY <1>0, <1>5, <2>1, TakeProfitIn
  <2>3. mem'.locked.target = NoBucket
    <3>1. mem'.locked = [channel |-> state.row.channel, target |-> NoBucket]
      BY <1>0, <1>5, <2>1, SyncedIn
    <3> QED BY <3>1
  <2>4. CASE IsHeld(Leg(state.row))
    <3>1. mem'.open = [bucket |-> Leg(state.row).bucket, live |-> TRUE,
                       avg |-> Leg(state.row).avg, entered |-> state.row.entered]
      BY <1>0, <1>5, <2>1, <2>4, SyncedIn, OpenFromIn
    <3>2. mem'.open.bucket = Leg(state.row).bucket /\ mem'.open.entered = state.row.entered
      BY <3>1
    <3> QED BY <1>1, <1>5, <2>2, <2>3, <3>2
            DEF Remembered, Entered, Firing, Visiting, Known, Tracked, Behind, RowOpen
  <2>5. CASE ~IsHeld(Leg(state.row))
    <3>1. mem'.open = mem.open BY <1>0, <1>5, <2>1, <2>5, SyncedIn, OpenFromIn
    <3> QED BY <1>1, <1>5, <2>1, <2>2, <2>5, <3>1
            DEF Remembered, Entered, Firing, Visiting, Known, Tracked, Behind, RowOpen
  <2> QED BY <2>4, <2>5
<1> QED BY <1>2, <1>3, <1>4, <1>5, ExitChanges

LEMMA RememberedReports ==
    ASSUME Typed, Remembered, NoReportYet \/ Breach \/ Abort \/ Hold \/ Refuse
    PROVE  Remembered'
<1>0. state \in Dict /\ look \in Quotes /\ now \in Nat BY SeenIn DEF Typed
<1>1. CASE NoReportYet
  BY <1>1 DEF NoReportYet, world, Remembered, Entered, Firing, Visiting, Known, Tracked, Behind
<1>2. ASSUME RowOpen(state.row), state' = Closed(state, "breach") \/ state' = Closed(state, "abortion"),
             disk' = disk, stage' \in {"settle", "hedge"},
             ~mem'.open.live \/ mem'.open = mem.open
      PROVE  Remembered'
  <2>1. HasRow(state.row) /\ "breach" \in Reasons /\ "abortion" \in Reasons
    BY <1>2 DEF RowOpen, Reasons
  <2>2. HasRow(state'.row) /\ state'.row.settled /\ state'.row.entered = state.row.entered
    BY <1>0, <1>2, <2>1, ClosedIn
  <2> QED BY <1>2, <2>1, <2>2 DEF Remembered, Entered, Firing, Visiting, Known, Tracked, Behind
<1>3. CASE Breach \/ Abort
  <2>1. /\ RowOpen(state.row) /\ disk' = disk /\ stage' \in {"settle", "hedge"}
        /\ state' = Closed(state, "breach") \/ state' = Closed(state, "abortion")
        /\ ~mem'.open.live \/ mem'.open = mem.open
    BY <1>3, BreachChanges, AbortChanges DEF Aside
  <2> QED BY <1>2, <2>1
<1>4. CASE Hold \/ Refuse
  <2>1. disk' = disk /\ state' = state /\ stage' = "settle" /\ mem'.open = mem.open
    BY <1>4, NoteChanges DEF Aside
  <2> QED BY <2>1 DEF Remembered, Entered, Firing, Visiting, Known, Tracked, Behind
<1> QED BY <1>1, <1>3, <1>4

LEMMA RememberedEnter == ASSUME Typed, Remembered, EnterNext \/ EnterTarget PROVE Remembered'
<1>1. /\ disk' = disk /\ state' = state /\ now' = now /\ stage = "report" /\ stage' = "fire"
      /\ mem'.open.live /\ mem'.open.entered = now
      /\ ~RowOpen(state.row) /\ ~mem.stopped /\ ~mem.breached /\ look # NoLook
  BY EnterChanges DEF Aside, world
<1>2. ~HasRow(state.row) BY <1>1 DEF Remembered, Visiting, Known, RowOpen
<1> QED BY <1>1, <1>2 DEF Remembered, Entered, Firing, Visiting, Known, Tracked, Behind

LEMMA RememberedFires == ASSUME Typed, Remembered, Fire \/ PortRefuses \/ Hedge PROVE Remembered'
<1>1. CASE PortRefuses \/ Hedge
  BY <1>1 DEF PortRefuses, Hedge, world, Remembered, Entered, Firing, Visiting, Known, Tracked, Behind
<1>2. CASE Fire
  <2>1. /\ disk' = disk /\ mem' = mem /\ stage = "fire" /\ stage' = "settle"
        /\ RowOpen(state'.row) /\ state'.row.entered = now
    BY <1>2, FireChanges DEF Aside
  <2> QED BY <2>1 DEF Remembered, Entered, Firing, Visiting, Known, Tracked, Behind, RowOpen
<1> QED BY <1>1, <1>2

LEMMA RememberedEnds ==
    ASSUME Typed, Remembered, \/ CycleError \/ Crash \/ Save \/ \E pulled \in BOOLEAN : Settle(pulled)
                              \/ Tick \/ Resolve \/ BeginCycle
    PROVE  Remembered'
<1>1. CASE CycleError \/ Save \/ Tick \/ Resolve \/ BeginCycle
  BY <1>1 DEF CycleError, CycleEnds, Save, Tick, Resolve, BeginCycle, world,
     Remembered, Entered, Firing, Visiting, Known, Tracked, Behind
<1>2. CASE Crash
  BY <1>2, NewMemoryIn DEF Crash, CycleEnds, world,
     Remembered, Entered, Firing, Visiting, Known, Tracked, Behind
<1>3. ASSUME NEW pulled \in BOOLEAN, Settle(pulled) PROVE Remembered'
  <2>1. /\ disk' = disk /\ mem' = mem /\ stage' = "save"
        /\ \/ state' = state
           \/ /\ RowOpen(state.row) /\ HasRow(state'.row) /\ state'.row.settled
              /\ state'.row.entered = state.row.entered
    BY <1>3, SettleChanges DEF Aside
  <2> QED BY <2>1 DEF Remembered, Entered, Firing, Visiting, Known, Tracked, Behind, RowOpen
<1> QED BY <1>1, <1>2, <1>3

LEMMA RememberedKept == ASSUME Typed, Remembered, [Next]_vars PROVE Remembered'
<1>1. CASE UNCHANGED vars
  BY <1>1 DEF vars, Remembered, Entered, Firing, Visiting, Known, Tracked, Behind
<1> QED BY <1>1, RememberedExits, RememberedReports, RememberedEnter, RememberedFires,
           RememberedEnds DEF Next

-----------------------------------------------------------------------------
(* Closing: when a row has been closed. *)
Floored(st) == st.row.why = "floor" => st.row.ended - st.row.entered >= Grace
Closing == Floored(state) /\ Floored(disk) /\ BreachedRowCloses

(* Where no report is being answered, the second part says nothing. *)
LEMMA ClosingOutside ==
    ASSUME Closing, stage' \notin {"hedge", "settle"},
           state' \in {state, disk}, disk' \in {state, disk}
    PROVE  Closing'
BY DEF Closing, Floored, BreachedRowCloses

LEMMA ClosingExits == ASSUME Typed, Remembered, Closing, ExitStage PROVE Closing'
<1>0. /\ mem \in Memory /\ state \in Dict /\ state.row \in RowRec /\ look \in Quotes /\ now \in Nat
  BY SeenIn, DictIn DEF Typed
<1>1. stage' = "report" /\ disk' = disk BY ExitChanges DEF Aside
<1>2. CASE state' = state BY <1>1, <1>2, ClosingOutside
<1>3. CASE /\ RowOpen(state.row) /\ StopsNow(Synced(state.row))
           /\ state' = Closed(TakeProfit(state), Cause(Synced(state.row)))
  <2> DEFINE m == Synced(state.row)  st == TakeProfit(state)  why == Cause(m)
  <2>1. HasRow(state.row) BY <1>3 DEF RowOpen
  <2>2. st \in Dict /\ HasRow(st.row) /\ st.row.entered = state.row.entered
    BY <1>0, <2>1, TakeProfitIn
  <2>3. why \in Reasons /\ (why = "floor" => FloorBroken(m)) BY DEF Cause, Reasons
  <2>4. m.open.live /\ (FloorBroken(m) => ~InGrace(m)) BY <1>3 DEF StopsNow, Suppressed
  <2>5. m.open.entered = state.row.entered
    <3>1. m.open = OpenFrom(state.row) BY <1>0, <2>1, SyncedIn
    <3>2. CASE IsHeld(Leg(state.row))
      <4>1. m.open = [bucket |-> Leg(state.row).bucket, live |-> TRUE,
                      avg |-> Leg(state.row).avg, entered |-> state.row.entered]
        BY <1>0, <2>1, <3>1, <3>2, OpenFromIn
      <4> HIDE DEF m
      <4> QED BY <4>1
    <3>3. CASE ~IsHeld(Leg(state.row))
      <4>1. m.open = mem.open BY <1>0, <2>1, <3>1, <3>3, OpenFromIn
      <4> HIDE DEF m
      <4> QED BY <2>1, <2>4, <4>1 DEF Remembered, Entered
    <3> QED BY <3>2, <3>3
  <2>6. why = "floor" => now - state.row.entered >= Grace
    <3>1. state.row.entered \in Nat /\ Grace \in Nat BY <1>0, ConstantsAssumption DEF RowRec
    <3> HIDE DEF m, why
    <3> QED BY <1>0, <2>3, <2>4, <2>5, <3>1 DEF InGrace
  <2>7. state' = Closed(st, why) BY <1>3
  <2> HIDE DEF m, st, why
  <2>8. state'.row.why = why /\ state'.row.ended = now /\ state'.row.entered = state.row.entered
    BY <1>0, <2>2, <2>3, <2>7, ClosedIn
  <2> QED BY <1>1, <2>6, <2>8 DEF Closing, Floored, BreachedRowCloses
<1>4. CASE RowOpen(state.row) /\ state' = TakeProfit(state)
  <2>1. /\ state'.row.entered = state.row.entered /\ state'.row.why = state.row.why
        /\ state'.row.ended = state.row.ended
    BY <1>0, <1>4, TakeProfitIn DEF RowOpen
  <2> QED BY <1>1, <2>1 DEF Closing, Floored, BreachedRowCloses
<1> QED BY <1>2, <1>3, <1>4, ExitChanges

LEMMA ClosingReports ==
    ASSUME Typed, Remembered, Closing, NoReportYet \/ Breach \/ Abort \/ Hold \/ Refuse
    PROVE  Closing'
<1>0. state \in Dict /\ state.row \in RowRec /\ look \in Quotes /\ now \in Nat
  BY SeenIn, DictIn DEF Typed
<1>1. CASE NoReportYet
  BY <1>1 DEF NoReportYet, world, Closing, Floored, BreachedRowCloses
<1>2. CASE Breach \/ Abort
  <2>1. /\ RowOpen(state.row) /\ disk' = disk
        /\ state' = Closed(state, "breach") \/ state' = Closed(state, "abortion")
    BY <1>2, BreachChanges, AbortChanges DEF Aside
  <2>2. HasRow(state.row) /\ "breach" \in Reasons /\ "abortion" \in Reasons
    BY <2>1 DEF RowOpen, Reasons
  <2>3. state'.row.settled /\ state'.row.why # "floor" BY <1>0, <2>1, <2>2, ClosedIn
  <2> QED BY <2>1, <2>3 DEF Closing, Floored, BreachedRowCloses, RowOpen
<1>3. CASE Refuse
  <2>1. disk' = disk /\ state' = state /\ ~RowOpen(state.row)
    BY <1>3, NoteChanges DEF Aside
  <2> QED BY <2>1 DEF Closing, Floored, BreachedRowCloses
<1>4. CASE Hold
  <2>1. /\ disk' = disk /\ state' = state /\ look' = look /\ report' = report
        /\ direction' = direction /\ stage = "report" /\ ~Breached(mem)
        /\ RowOpen(state.row)
    BY <1>4, NoteChanges DEF Aside, world, Hold
  <2>2. HasRow(state.row) BY <2>1 DEF RowOpen
  <2>3. Leg(state.row) \in LegRec /\ Range(state.row.legs) = {Leg(state.row)}
    BY <1>0, <2>2, LegIn
  <2>4. Leg(state.row).bucket # NoBucket BY <2>3, NoneAre DEF LegRec
  <2>5. look # NoLook /\ IsHeld(Leg(state.row))
           => ~Beyond(Bucket(report.temp), Leg(state.row).bucket)
    <3> SUFFICES ASSUME look # NoLook, IsHeld(Leg(state.row))
                 PROVE  ~Beyond(Bucket(report.temp), Leg(state.row).bucket)
      OBVIOUS
    <3>1. mem.locked.target = NoBucket /\ mem.open.bucket = Leg(state.row).bucket
      BY <2>1 DEF Remembered, Tracked, Visiting
    <3>2. Original(mem) = Leg(state.row).bucket BY <3>1 DEF Original
    <3> QED BY <2>1, <2>4, <3>2 DEF Breached
  <2>6. BreachedRowCloses'
    BY <2>1, <2>3, <2>5 DEF BreachedRowCloses, Beyond, Bucket
  <2> QED BY <2>1, <2>6 DEF Closing, Floored
<1> QED BY <1>1, <1>2, <1>3, <1>4

LEMMA ClosingFires ==
    ASSUME Typed, Remembered, Closing, Fire \/ PortRefuses \/ Hedge PROVE Closing'
<1>0. now \in Nat /\ state.row \in RowRec BY SeenIn, DictIn DEF Typed
<1>1. CASE Hedge
  BY <1>1 DEF Hedge, world, Closing, Floored, BreachedRowCloses, Beyond, Bucket
<1>2. CASE PortRefuses
  <2>1. ~RowOpen(state.row) BY <1>2 DEF PortRefuses, Remembered, Firing, RowOpen
  <2> QED BY <1>2, <2>1 DEF PortRefuses, Closing, Floored, BreachedRowCloses
<1>3. CASE Fire
  <2>1. /\ disk' = disk /\ now' = now
        /\ state'.row.entered = now /\ state'.row.why = "none"
    BY <1>3, FireChanges DEF Aside, world
  <2> QED BY <1>0, <2>1 DEF Closing, Floored, BreachedRowCloses
<1> QED BY <1>1, <1>2, <1>3

LEMMA ClosingKept == ASSUME Typed, Remembered, Closing, [Next]_vars PROVE Closing'
<1>1. CASE UNCHANGED vars
  BY <1>1 DEF vars, Closing, Floored, BreachedRowCloses, Beyond, Bucket
<1>2. CASE \/ CycleError \/ Crash \/ Save \/ Tick \/ Resolve \/ BeginCycle
           \/ EnterNext \/ EnterTarget
  <2>1. /\ stage' \notin {"hedge", "settle"}
        /\ state' \in {state, disk} /\ disk' \in {state, disk}
    <3>1. CASE EnterNext \/ EnterTarget BY <3>1, EnterChanges DEF Aside
    <3> QED BY <1>2, <3>1 DEF CycleError, Crash, CycleEnds, Save, Tick, Resolve, BeginCycle
  <2> QED BY <2>1, ClosingOutside
<1>3. ASSUME NEW pulled \in BOOLEAN, Settle(pulled) PROVE Closing'
  <2>1. /\ disk' = disk /\ stage' = "save"
        /\ state' = state \/ state'.row.why = "resolved"
    BY <1>3, SettleChanges DEF Aside
  <2> QED BY <2>1 DEF Closing, Floored, BreachedRowCloses
<1> QED BY <1>1, <1>2, <1>3, ClosingExits, ClosingReports, ClosingFires DEF Next

LEMMA ClosingInit == ASSUME Init PROVE Closing
BY DEF Init, Closing, Floored, BreachedRowCloses, NoRow

(* A position is closed when it must be and not before: no falling bid closes a young one,   *)
(* and a report beyond its bucket closes it in the cycle that has books, whatever process    *)
(* bought it (evaluate_early_stop_loss, handle_breach_risk_control).                         *)
THEOREM ExitsAlwaysSound == Spec => []ExitsSound
<1>1. Init => Typed /\ Remembered /\ Closing BY TypedInit, RememberedInit, ClosingInit
<1>2. Typed /\ Remembered /\ Closing /\ [Next]_vars => (Typed /\ Remembered /\ Closing)'
  BY TypedKept, RememberedKept, ClosingKept
<1>3. Closing => ExitsSound BY DEF Closing, Floored, ExitsSound, GraceHolds
<1> QED BY <1>1, <1>2, <1>3, PTL DEF Spec

-----------------------------------------------------------------------------
(* The refinement: the saved row implements SessionLife. *)
LEMMA FileMoves ==
    ASSUME Typed, Remembered, [Next]_vars
    PROVE  disk' = disk \/ disk' = state
BY ExitChanges, BreachChanges, AbortChanges, NoteChanges, EnterChanges, FireChanges, SettleChanges
   DEF Next, vars, Aside, NoReportYet, PortRefuses, Hedge, Save, CycleError, Crash, Tick,
       Resolve, BeginCycle

(* The saved row of a session opens once and closes once, and nothing leads back: not a      *)
(* failed cycle, not a restart with an empty memory, not a second entry.                     *)
THEOREM LifeAlwaysGoesForward == Spec => LifeGoesForward
<1>1. Init => Life!Init
  BY DEF Init, Life!Init, Phase, HasRow, NoRow
<1>2. ASSUME Typed, Remembered, [Next]_vars PROVE Life!Next
  <2>1. Phase(disk)' = Phase(disk) \/ Phase(disk)' \in Life!Later[Phase(disk)]
    BY <1>2, FileMoves DEF Remembered, Behind, Phase, Life!Later
  <2>2. Phase(disk) \in Life!Phases /\ Phase(disk)' \in Life!Phases
    BY DEF Phase, Life!Phases
  <2> QED BY <2>1, <2>2 DEF Life!Next
<1>3. Typed /\ Remembered /\ [Next]_vars
         => [Life!Next]_([s \in {"session"} |-> Phase(disk)])
  BY <1>2
<1>4. Init => Typed /\ Remembered BY TypedInit, RememberedInit
<1>5. Typed /\ Remembered /\ [Next]_vars => (Typed /\ Remembered)' BY TypedKept, RememberedKept
<1> QED BY <1>1, <1>3, <1>4, <1>5, PTL DEF Spec, LifeGoesForward, Life!Spec

-----------------------------------------------------------------------------
(* Explained: the ledger is what the row cost and did not bring back. *)
Spending(st) == IF HasRow(st.row) THEN Leg(st.row).cost - Leg(st.row).payout ELSE 0
Squared(st)  == st.debit = Spending(st) + st.sold
Explained    == Squared(state) /\ Squared(disk)

LEMMA SpendingInt == ASSUME NEW st \in Dict
                     PROVE  Spending(st) \in Int /\ st.debit \in Int /\ st.sold \in Int
<1>1. HasRow(st.row) => Leg(st.row).cost \in Int /\ Leg(st.row).payout \in Int
  BY DictIn, LegIn DEF LegRec
<1> QED BY <1>1 DEF Spending, Dict

(* A row with a leg before and after, and no other cash. *)
LEMMA SquaredSame ==
    ASSUME NEW a \in Dict, NEW b \in Dict, Squared(a), HasRow(a.row), HasRow(b.row),
           b.sold = a.sold,
           b.debit - (Leg(b.row).cost - Leg(b.row).payout)
             = a.debit - (Leg(a.row).cost - Leg(a.row).payout)
    PROVE  Squared(b)
<1>1. Spending(a) = Leg(a.row).cost - Leg(a.row).payout
        /\ Spending(b) = Leg(b.row).cost - Leg(b.row).payout
  BY DEF Spending
<1>2. /\ Spending(a) \in Int /\ a.debit \in Int /\ a.sold \in Int
      /\ Spending(b) \in Int /\ b.debit \in Int /\ b.sold \in Int
  BY SpendingInt
<1>3. b.debit - Spending(b) = a.debit - Spending(a) BY <1>1
<1> QED BY <1>2, <1>3 DEF Squared

LEMMA ExplainedSame ==
    ASSUME Explained, state' \in {state, disk}, disk' \in {state, disk}
    PROVE  Explained'
BY DEF Explained, Squared, Spending

LEMMA ExplainedExits == ASSUME Typed, Explained, ExitStage PROVE Explained'
<1>0. state \in Dict /\ look \in Quotes /\ now \in Nat BY SeenIn DEF Typed
<1>1. disk' = disk /\ state' \in Dict BY ExitChanges DEF Aside
<1> DEFINE tp == TakeProfit(state)
<1>2. HasRow(state.row) => tp \in Dict /\ HasRow(tp.row) /\ Squared(tp)
  <2> SUFFICES ASSUME HasRow(state.row) PROVE tp \in Dict /\ HasRow(tp.row) /\ Squared(tp)
    OBVIOUS
  <2>1. /\ tp \in Dict /\ HasRow(tp.row) /\ tp.debit = state.debit
        /\ Leg(tp.row).cost + tp.sold = Leg(state.row).cost + state.sold
        /\ Leg(tp.row).payout = Leg(state.row).payout
    BY <1>0, TakeProfitIn
  <2> HIDE DEF tp
  <2>2. Leg(tp.row) \in LegRec /\ Leg(state.row) \in LegRec BY <1>0, <2>1, DictIn, LegIn
  <2>3. /\ Leg(tp.row).cost \in Int /\ Leg(tp.row).payout \in Int /\ tp.sold \in Int
        /\ Leg(state.row).cost \in Int /\ state.sold \in Int
    BY <1>0, <2>1, <2>2 DEF LegRec, Dict
  <2>4. state.debit = Leg(state.row).cost - Leg(state.row).payout + state.sold
    BY DEF Explained, Squared, Spending
  <2>5. tp.debit = Leg(tp.row).cost - Leg(tp.row).payout + tp.sold BY <2>1, <2>3, <2>4
  <2> QED BY <2>1, <2>5 DEF Squared, Spending
<1>3. CASE state' = state BY <1>1, <1>3, ExplainedSame
<1>4. CASE RowOpen(state.row) /\ state' = Closed(tp, Cause(Synced(state.row)))
  <2> DEFINE why == Cause(Synced(state.row))
  <2>1. why \in Reasons BY DEF Cause, Reasons
  <2>2. tp \in Dict /\ HasRow(tp.row) /\ Squared(tp) BY <1>2, <1>4 DEF RowOpen
  <2>3. state' = Closed(tp, why) BY <1>4
  <2> HIDE DEF tp, why
  <2>4. /\ HasRow(state'.row) /\ state'.sold = tp.sold
        /\ state'.debit - (Leg(state'.row).cost - Leg(state'.row).payout)
             = tp.debit - (Leg(tp.row).cost - Leg(tp.row).payout)
    BY <1>0, <2>1, <2>2, <2>3, ClosedIn
  <2>5. Squared(state') BY <1>1, <2>2, <2>4, SquaredSame
  <2> QED BY <1>1, <2>5 DEF Explained
<1>5. CASE RowOpen(state.row) /\ state' = tp
  BY <1>1, <1>2, <1>5 DEF Explained, RowOpen
<1> QED BY <1>3, <1>4, <1>5, ExitChanges

LEMMA ExplainedKept == ASSUME Typed, Typed', Remembered, Explained, [Next]_vars PROVE Explained'
<1>0. state \in Dict /\ state' \in Dict /\ look \in Quotes /\ now \in Nat BY SeenIn DEF Typed
<1>1. CASE \/ UNCHANGED vars \/ Tick \/ Resolve \/ BeginCycle \/ NoReportYet \/ Hold \/ Refuse
           \/ EnterNext \/ EnterTarget \/ PortRefuses \/ Hedge \/ Save \/ CycleError \/ Crash
  <2>1. state' \in {state, disk} /\ disk' \in {state, disk}
    <3>1. CASE Hold \/ Refuse \/ EnterNext \/ EnterTarget
      BY <3>1, NoteChanges, EnterChanges DEF Aside
    <3> QED BY <1>1, <3>1 DEF vars, Tick, Resolve, BeginCycle, NoReportYet, PortRefuses, Hedge,
                             Save, CycleError, Crash, world
  <2> QED BY <2>1, ExplainedSame
<1>2. CASE Breach \/ Abort
  <2>1. /\ HasRow(state.row) /\ disk' = disk
        /\ state' = Closed(state, "breach") \/ state' = Closed(state, "abortion")
    BY <1>2, BreachChanges, AbortChanges DEF Aside, RowOpen
  <2>2. "breach" \in Reasons /\ "abortion" \in Reasons BY DEF Reasons
  <2>3. /\ HasRow(state'.row) /\ state'.sold = state.sold
        /\ state'.debit - (Leg(state'.row).cost - Leg(state'.row).payout)
             = state.debit - (Leg(state.row).cost - Leg(state.row).payout)
    BY <1>0, <2>1, <2>2, ClosedIn
  <2>4. Squared(state') BY <1>0, <2>1, <2>3, SquaredSame DEF Explained
  <2> QED BY <2>1, <2>4 DEF Explained
<1>3. CASE Fire
  <2>1. /\ disk' = disk /\ stage = "fire" /\ HasRow(state'.row) /\ state'.sold = state.sold
        /\ state'.debit = state.debit + Leg(state'.row).cost /\ Leg(state'.row).payout = 0
    BY <1>3, FireChanges DEF Aside, RowOpen
  <2>2. ~HasRow(state.row) BY <2>1 DEF Remembered, Firing
  <2>3. state.debit = 0 + state.sold BY <2>2 DEF Explained, Squared, Spending
  <2>4. Leg(state'.row) \in LegRec BY <1>0, <2>1, DictIn, LegIn
  <2>5. Leg(state'.row).cost \in Int /\ state.sold \in Int BY <1>0, <2>4 DEF LegRec, Dict
  <2>6. state'.debit = Leg(state'.row).cost - Leg(state'.row).payout + state'.sold
    BY <2>1, <2>3, <2>5
  <2> QED BY <2>1, <2>6 DEF Explained, Squared, Spending
<1>4. ASSUME NEW pulled \in BOOLEAN, Settle(pulled) PROVE Explained'
  <2>1. disk' = disk BY <1>4, SettleChanges DEF Aside
  <2>2. CASE state' = state BY <2>1, <2>2, ExplainedSame
  <2>3. CASE state' # state
    <3>1. /\ HasRow(state.row) /\ HasRow(state'.row) /\ state'.sold = state.sold
          /\ state'.debit - (Leg(state'.row).cost - Leg(state'.row).payout)
               = state.debit - (Leg(state.row).cost - Leg(state.row).payout)
      BY <1>4, <2>3, SettleChanges DEF RowOpen
    <3>2. Squared(state') BY <1>0, <3>1, SquaredSame DEF Explained
    <3> QED BY <2>1, <3>2 DEF Explained
  <2> QED BY <2>2, <2>3
<1> QED BY <1>1, <1>2, <1>3, <1>4, ExplainedExits DEF Next

LEMMA ExplainedInit == ASSUME Init PROVE Explained
BY DEF Init, Explained, Squared, Spending, HasRow, NoRow

(* The sum of the property over a row's legs is the spending of its one leg. *)
LEMMA SpendingSum ==
    ASSUME NEW row \in RowRec
    PROVE  SumFunctionOnSet([i \in DOMAIN row.legs |-> row.legs[i].cost - row.legs[i].payout],
                            DOMAIN row.legs)
             = IF HasRow(row) THEN Leg(row).cost - Leg(row).payout ELSE 0
<1> DEFINE net == [i \in DOMAIN row.legs |-> row.legs[i].cost - row.legs[i].payout]
<1>1. CASE ~HasRow(row)
  <2>1. DOMAIN row.legs = {} BY <1>1, LegIn
  <2>2. SumFunctionOnSet(net, {}) = 0 BY SumEmpty
  <2> QED BY <1>1, <2>1, <2>2
<1>2. CASE HasRow(row)
  <2>1. row.legs = <<Leg(row)>> /\ Leg(row) \in LegRec BY <1>2, LegIn
  <2>2. DOMAIN row.legs = {1} BY <2>1
  <2>3. net[1] = Leg(row).cost - Leg(row).payout BY <2>2 DEF Leg
  <2>4. Leg(row).cost - Leg(row).payout \in Int BY <2>1 DEF LegRec
  <2> HIDE DEF net
  <2>5. SumFunctionOnSet(net, {} \cup {1}) = net[1] + SumFunctionOnSet(net, {})
    BY <2>3, <2>4, FS_EmptySet, SumWith
  <2>6. SumFunctionOnSet(net, {}) = 0 BY SumEmpty
  <2>7. {} \cup {1} = {1} OBVIOUS
  <2>8. SumFunctionOnSet(net, {1}) = Leg(row).cost - Leg(row).payout
    BY <2>3, <2>4, <2>5, <2>6, <2>7
  <2> QED BY <1>2, <2>2, <2>8 DEF net
<1> QED BY <1>1, <1>2

(* The ledger is explained by the row at every moment: what its leg cost, less what it       *)
(* brought, and the cost of what a take-profit sold, whose proceeds never reach it           *)
(* (paper_capital.py reserve and release, the take-profit stage of _r_cycle.py).             *)
THEOREM LedgerAlwaysExplained == Spec => []LedgerExplained
<1>1. Init => Typed /\ Remembered /\ Explained BY TypedInit, RememberedInit, ExplainedInit
<1>2. Typed /\ Remembered /\ Explained /\ [Next]_vars => (Typed /\ Remembered /\ Explained)'
  BY TypedKept, RememberedKept, ExplainedKept
<1>3. Typed /\ Explained => LedgerExplained
  <2> SUFFICES ASSUME Typed, Explained PROVE LedgerExplained OBVIOUS
  <2>1. state.row \in RowRec BY DictIn DEF Typed
  <2>2. state.debit = Spending(state) + state.sold BY DEF Explained, Squared
  <2> QED BY <2>1, <2>2, SpendingSum DEF Spending, LedgerExplained
<1> QED BY <1>1, <1>2, <1>3, PTL DEF Spec
=============================================================================
