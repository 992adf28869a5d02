---------------------------- MODULE CyclesProofs ----------------------------
(***************************************************************************)
(* Proofs about the two loops of the repository, which share no state:     *)
(* what the poll cycle pulls (CycleFeeds), and the cycle of the neg-risk   *)
(* desk's account (NegRiskAccount); and about the desk's execution engine  *)
(* (BasketExecution), which neither of them runs.                          *)
(*                                                                         *)
(* CycleFeeds, for any cities, cadences and bounds.  None of its           *)
(* properties is inductive: FedToday needs to know that the sessions armed *)
(* since the prune are today's, the two about pulls that the time a feed   *)
(* was last asked never falls behind its stamp, ArmedFeedsHot where the    *)
(* steps before it left the stamps.                                        *)
(*                                                                         *)
(* NegRiskAccount, for any tokens, books, prices and caps.  The invariant  *)
(* says of an account in memory and of the one in the file alike that it   *)
(* is sound, because a restart replaces the one by the other.              *)
(*                                                                         *)
(* BasketExecution, for baskets of any number of legs and any size: what   *)
(* the records say of each leg against what the venue did with it.         *)
(***************************************************************************)
EXTENDS CycleFeeds, NegRiskAccount, BasketExecution, FiniteSums, TLAPS

Places == {"rules", "books", "bridge", "metar", "early", "feed", "sleep"}
Feeds  == {"rules", "book", "metar"}

(* The shape of the state, with stamps and times as integers. *)
Shape ==
    /\ clock \in Nat /\ start \in Nat /\ start <= clock /\ clock <= MaxClock
    /\ at \in Places
    /\ stamps \in [Cadences -> Int] /\ asked \in [Cities -> [Feeds -> Int]]
    /\ index \subseteq Keys /\ known \subseteq Cities /\ armed \subseteq Keys /\ saved \subseteq Keys
    /\ touched \subseteq Cities /\ fed \subseteq Keys /\ bridge \in BOOLEAN
    /\ DOMAIN ticked = Cities /\ DOMAIN cooled = Cities

(* No stamp and no time of asking lies in the future. *)
Past ==
    /\ \A n \in Cadences : stamps[n] \in {Never} \union 0..clock
    /\ \A c \in Cities, f \in Feeds : asked[c][f] <= clock

(* Once prune has run, only sessions of the cycle's date are armed. *)
Dated ==
    /\ at # "rules" => armed \subseteq Today
    /\ at = "sleep" => fed \subseteq Today

(* Every city is asked for its rules at the stamp, and for its observation at the stamp or  *)
(* later; what a due stamp asks for has been asked by the end of its step.                  *)
Polled ==
    \A c \in Cities :
        /\ asked[c]["rules"] = stamps["rules"]
        /\ stamps["metar"] <= asked[c]["metar"]
        /\ at # "rules" => start - asked[c]["rules"] < RulesTTL
        /\ at \in {"early", "feed"} => start - asked[c]["metar"] < IdleMetar

IInv == Shape /\ Past /\ Dated /\ Polled

LEMMA Parameters ==
    /\ MaxClock \in Nat /\ RulesTTL \in Nat \ {0} /\ IdleMetar \in Nat \ {0}
    /\ IdleBook \in Nat /\ ArmBook \in Nat /\ ArmMetar \in Nat
  BY ConstantsAssumption

LEMMA InitInv == Init => IInv
<1> SUFFICES ASSUME Init PROVE IInv
  OBVIOUS
<1>1. stamps \in [Cadences -> Int] /\ \A n \in Cadences : stamps[n] = Never
  BY DEF Init, NoStamps, Never
<1>2. /\ asked \in [Cities -> [Feeds -> Int]]
      /\ \A c \in Cities, f \in Feeds : asked[c][f] = Never
  BY DEF Init, Never, Feeds
<1>3. Shape
  <2>1. /\ clock = 0 /\ start = 0 /\ at = "rules" /\ index = {} /\ known = {} /\ armed = {}
        /\ saved = {} /\ touched = {} /\ fed = {} /\ bridge = FALSE
        /\ DOMAIN ticked = Cities /\ DOMAIN cooled = Cities
    BY DEF Init
  <2>2. bridge \in BOOLEAN
    BY <2>1
  <2> QED
    BY <1>1, <1>2, <2>1, <2>2, Parameters DEF Shape, Places, Keys
<1>4. Past
  BY <1>1, <1>2 DEF Init, Past, Never
<1>5. Dated /\ Polled
  BY <1>1, <1>2 DEF Init, Dated, Polled, Cadences, Feeds
<1> QED
  BY <1>3, <1>4, <1>5 DEF IInv

(* What asking some cities for one feed does to the times of asking. *)
LEMMA AskedTimes ==
    ASSUME Shape, NEW cs, NEW feed \in Feeds, clock' \in Int, asked' = Asked(cs, feed)
    PROVE  /\ asked' \in [Cities -> [Feeds -> Int]]
           /\ \A c \in Cities, f \in Feeds :
                 asked'[c][f] = IF c \in cs /\ f = feed THEN clock' ELSE asked[c][f]
<1>1. \A c \in Cities : asked[c] \in [Feeds -> Int]
  BY DEF Shape
<1>2. \A c \in Cities : asked'[c] = IF c \in cs THEN [asked[c] EXCEPT ![feed] = clock'] ELSE asked[c]
  BY DEF Asked
<1>3. asked' = [c \in Cities |-> asked'[c]]
  BY DEF Asked
<1>4. \A c \in Cities : asked'[c] \in [Feeds -> Int]
  BY <1>1, <1>2
<1> QED
  BY <1>1, <1>2, <1>3, <1>4

LEMMA JustAsked == \A t \in Nat : start \in Nat /\ clock \in Nat /\ start <= clock /\ clock <= t
                                => start - t < RulesTTL
  BY Parameters

LEMMA TodayIsKeys == Today \subseteq Keys
  BY DEF Today, Keys, DateAt, Days

LEMMA RulesKeep == IInv /\ RulesStep => IInv'
<1> SUFFICES ASSUME IInv, RulesStep PROVE IInv'
  OBVIOUS
<1> USE DEF IInv
<1>1. /\ at = "rules" /\ at' = "books" /\ start' = start /\ Today' = Today
      /\ armed' = armed \intersect Today
      /\ UNCHANGED <<saved, wakeAt, known, bridge, ticked, cooled, touched, fed>>
  BY DEF RulesStep, Today
<1>2. CASE Due("rules", RulesTTL)
  <2> PICK d \in {0, 1}, found \in SUBSET Today :
        /\ Takes(d)
        /\ index' = Listed(found) /\ stamps' = RulesStamped(found)
        /\ asked' = Asked(Cities, "rules")
    BY <1>2 DEF RulesStep
  <2>1. clock' \in Nat /\ clock <= clock' /\ clock' <= MaxClock
    BY DEF Takes, Shape
  <2>2. stamps' \in [Cadences -> Int] /\ stamps'["rules"] = clock'
        /\ \A n \in Cadences : n # "rules" => stamps'[n] = stamps[n]
    BY <2>1 DEF RulesStamped, Shape, Cadences
  <2>3. /\ asked' \in [Cities -> [Feeds -> Int]]
        /\ \A c \in Cities, f \in Feeds : asked'[c][f] = IF f = "rules" THEN clock' ELSE asked[c][f]
    BY <2>1, AskedTimes DEF Feeds
  <2>4. Shape'
    BY <1>1, <2>1, <2>2, <2>3, TodayIsKeys DEF Shape, Listed, Places
  <2>5. Past'
    <3>1. \A n \in Cadences : stamps'[n] \in {Never} \union 0..clock'
      BY <2>1, <2>2 DEF Past, Shape, Never
    <3>2. \A c \in Cities, f \in Feeds : asked'[c][f] <= clock'
      BY <2>1, <2>3 DEF Past, Shape
    <3> QED
      BY <3>1, <3>2 DEF Past
  <2>6. Dated'
    BY <1>1 DEF Dated
  <2>7. Polled'
    <3> SUFFICES ASSUME NEW c \in Cities
                 PROVE  /\ asked'[c]["rules"] = stamps'["rules"]
                        /\ stamps'["metar"] <= asked'[c]["metar"]
                        /\ start' - asked'[c]["rules"] < RulesTTL
      BY <1>1 DEF Polled
    <3>1. asked'[c]["rules"] = clock' /\ asked'[c]["metar"] = asked[c]["metar"]
      BY <2>3 DEF Feeds
    <3>2. stamps'["rules"] = clock' /\ stamps'["metar"] = stamps["metar"]
      BY <2>2 DEF Cadences
    <3>3. stamps["metar"] <= asked[c]["metar"]
      BY DEF Polled
    <3>4. start \in Nat /\ clock \in Nat /\ start <= clock /\ start' = start
      BY <1>1 DEF Shape
    <3>5. start' - clock' < RulesTTL
      BY <2>1, <3>4, JustAsked
    <3>6. stamps["metar"] \in Int /\ asked[c]["metar"] \in Int
      BY DEF Shape, Cadences, Feeds
    <3> QED
      BY <2>1, <3>1, <3>2, <3>3, <3>5, <3>6
  <2> QED
    BY <2>4, <2>5, <2>6, <2>7
<1>3. CASE ~ Due("rules", RulesTTL)
  <2>1. UNCHANGED <<clock, slow, index, stamps, asked>>
    BY <1>3 DEF RulesStep
  <2>2. Shape' /\ Past' /\ Dated'
    BY <1>1, <2>1 DEF Shape, Past, Dated, Places
  <2>3. clock - stamps["rules"] < RulesTTL
    BY <1>3, Parameters DEF Due, Shape, Cadences
  <2>4. Polled'
    BY <1>1, <2>1, <2>3, Parameters DEF Polled, Shape, Cadences
  <2> QED
    BY <2>2, <2>4
<1> QED
  BY <1>2, <1>3

(* The fetch of a step: time moves on by what it takes, inside the bound. *)
LEMMA TakesTime ==
    ASSUME Shape, NEW d \in {0, 1}, Takes(d)
    PROVE  clock' \in Nat /\ clock <= clock' /\ clock' <= MaxClock
  BY DEF Takes, Shape

LEMMA BooksKeep == IInv /\ BooksStep => IInv'
<1> SUFFICES ASSUME IInv, BooksStep PROVE IInv'
  OBVIOUS
<1> USE DEF IInv
<1>1. /\ at = "books" /\ at' = "bridge" /\ Today' = Today
      /\ UNCHANGED <<start, index, known, armed, saved, bridge, ticked, cooled, touched, fed>>
  BY DEF BooksStep, Today
<1>2. CASE UNCHANGED <<clock, stamps, asked>>
  BY <1>1, <1>2 DEF Shape, Past, Dated, Polled, Places
<1>3. CASE ~ UNCHANGED <<clock, stamps, asked>>
  <2> PICK d \in {0, 1}, name \in {"book", "book_fast"}, cs \in {CitiesOf(index), CitiesOf(Warm)} :
        /\ Takes(d)
        /\ stamps' = [stamps EXCEPT ![name] = clock']
        /\ asked' = Asked(cs, "book")
    BY <1>3 DEF BooksStep
  <2>1. clock' \in Nat /\ clock <= clock' /\ clock' <= MaxClock
    BY TakesTime
  <2>2. /\ stamps' \in [Cadences -> Int]
        /\ \A n \in Cadences : stamps'[n] = IF n = name THEN clock' ELSE stamps[n]
    BY <2>1 DEF Shape, Cadences
  <2>3. /\ asked' \in [Cities -> [Feeds -> Int]]
        /\ \A c \in Cities, f \in Feeds :
              asked'[c][f] = IF c \in cs /\ f = "book" THEN clock' ELSE asked[c][f]
    BY <2>1, AskedTimes DEF Feeds
  <2>4. Shape'
    BY <1>1, <2>1, <2>2, <2>3 DEF Shape, Places
  <2>5. Past'
    <3>1. \A n \in Cadences : stamps'[n] \in {Never} \union 0..clock'
      BY <2>1, <2>2 DEF Past, Shape, Never
    <3>2. \A c \in Cities, f \in Feeds : asked'[c][f] <= clock'
      BY <2>1, <2>3 DEF Past, Shape
    <3> QED
      BY <3>1, <3>2 DEF Past
  <2>6. Dated'
    BY <1>1 DEF Dated
  <2>7. Polled'
    <3>1. \A c \in Cities : /\ asked'[c]["rules"] = asked[c]["rules"]
                           /\ asked'[c]["metar"] = asked[c]["metar"]
      BY <2>3 DEF Feeds
    <3>2. stamps'["rules"] = stamps["rules"] /\ stamps'["metar"] = stamps["metar"]
      BY <2>2 DEF Cadences
    <3> QED
      BY <1>1, <3>1, <3>2 DEF Polled
  <2> QED
    BY <2>4, <2>5, <2>6, <2>7
<1> QED
  BY <1>2, <1>3

LEMMA BridgeKeep == IInv /\ BridgeStep => IInv'
<1> SUFFICES ASSUME IInv, BridgeStep PROVE IInv'
  OBVIOUS
<1> USE DEF IInv
<1>1. /\ at = "bridge" /\ at' = "metar" /\ Today' = Today
      /\ UNCHANGED <<clock, start, stamps, index, known, armed, saved, ticked, fed, asked>>
  BY DEF BridgeStep, Today
<1>2. bridge' \in BOOLEAN
  BY DEF BridgeStep
<1>3. touched' \subseteq Cities
  BY DEF BridgeStep, Moving, CitiesOf, Warm, Shape, Keys
<1>4. DOMAIN cooled' = Cities
  BY DEF BridgeStep
<1>5. Shape'
  BY <1>1, <1>2, <1>3, <1>4 DEF Shape, Places
<1>6. Past' /\ Dated' /\ Polled'
  BY <1>1 DEF Past, Dated, Polled
<1> QED
  BY <1>5, <1>6

LEMMA MetarKeep == IInv /\ MetarStep => IInv'
<1> SUFFICES ASSUME IInv, MetarStep PROVE IInv'
  OBVIOUS
<1> USE DEF IInv
<1>1. /\ at = "metar" /\ at' \in {"early", "feed"} /\ Today' = Today
      /\ UNCHANGED <<start, index, armed, saved, bridge, ticked, cooled, touched, fed>>
  BY DEF MetarStep, Today
<1>2. CASE ~ Due("metar", IdleMetar) /\ ~ FastMetarDue
  <2>1. UNCHANGED <<clock, stamps, asked, known>>
    BY <1>2 DEF MetarStep
  <2>2. Shape' /\ Past' /\ Dated'
    BY <1>1, <2>1 DEF Shape, Past, Dated, Places
  <2>3. clock - stamps["metar"] < IdleMetar
    BY <1>2, Parameters DEF Due, Shape, Cadences
  <2>4. Polled'
    BY <1>1, <2>1, <2>3, Parameters DEF Polled, Shape, Cadences, Feeds
  <2> QED
    BY <2>2, <2>4
<1>3. CASE Due("metar", IdleMetar)
  <2> PICK d \in {0, 1}, got \in Answer(Cities) :
        Takes(d) /\ Pulled(Cities, "metar", got) /\ known' = IF got # {} THEN got ELSE known \union got
    BY <1>3 DEF MetarStep
  <2>1. clock' \in Nat /\ clock <= clock' /\ clock' <= MaxClock
    BY TakesTime
  <2>2. /\ stamps' \in [Cadences -> Int]
        /\ \A n \in Cadences : stamps'[n] = stamps[n] \/ (n = "metar" /\ stamps'[n] = clock')
    BY <2>1 DEF Pulled, Shape, Cadences
  <2>3. /\ asked' \in [Cities -> [Feeds -> Int]]
        /\ \A c \in Cities, f \in Feeds : asked'[c][f] = IF f = "metar" THEN clock' ELSE asked[c][f]
    BY <2>1, AskedTimes DEF Pulled, Feeds
  <2>4. known' \subseteq Cities
    BY DEF Answer, Shape
  <2>5. Shape'
    BY <1>1, <2>1, <2>2, <2>3, <2>4 DEF Shape, Places
  <2>6. Past'
    <3>1. \A n \in Cadences : stamps'[n] \in {Never} \union 0..clock'
      BY <2>1, <2>2 DEF Past, Shape, Never
    <3>2. \A c \in Cities, f \in Feeds : asked'[c][f] <= clock'
      BY <2>1, <2>3 DEF Past, Shape
    <3> QED
      BY <3>1, <3>2 DEF Past
  <2>7. Dated'
    BY <1>1 DEF Dated
  <2>8. Polled'
    <3> SUFFICES ASSUME NEW c \in Cities
                 PROVE  /\ asked'[c]["rules"] = stamps'["rules"]
                        /\ stamps'["metar"] <= asked'[c]["metar"]
                        /\ start' - asked'[c]["rules"] < RulesTTL
                        /\ start' - asked'[c]["metar"] < IdleMetar
      BY DEF Polled
    <3>1. asked'[c]["rules"] = asked[c]["rules"] /\ asked'[c]["metar"] = clock'
      BY <2>3 DEF Feeds
    <3>2. stamps'["rules"] = stamps["rules"] /\ stamps'["metar"] <= clock'
      BY <2>1, <2>2, <2>6 DEF Cadences, Past, Shape, Never
    <3>3. asked[c]["rules"] = stamps["rules"] /\ start - asked[c]["rules"] < RulesTTL
      BY <1>1 DEF Polled
    <3>4. start' - clock' < IdleMetar
      BY <1>1, <2>1, Parameters DEF Shape
    <3> QED
      BY <1>1, <3>1, <3>2, <3>3, <3>4
  <2> QED
    BY <2>5, <2>6, <2>7, <2>8
<1>4. CASE ~ Due("metar", IdleMetar) /\ FastMetarDue
  <2> PICK d \in {0, 1}, got \in Answer(CitiesOf(armed)) :
        Takes(d) /\ Pulled(CitiesOf(armed), "metar_fast", got) /\ known' = known \union got
    BY <1>4 DEF MetarStep
  <2>1. clock' \in Nat /\ clock <= clock' /\ clock' <= MaxClock
    BY TakesTime
  <2>2. /\ stamps' \in [Cadences -> Int]
        /\ \A n \in Cadences : stamps'[n] = stamps[n] \/ (n = "metar_fast" /\ stamps'[n] = clock')
    BY <2>1 DEF Pulled, Shape, Cadences
  <2>3. /\ asked' \in [Cities -> [Feeds -> Int]]
        /\ \A c \in Cities, f \in Feeds :
              asked'[c][f] = IF c \in CitiesOf(armed) /\ f = "metar" THEN clock' ELSE asked[c][f]
    BY <2>1, AskedTimes DEF Pulled, Feeds
  <2>4. known' \subseteq Cities
    BY DEF Answer, Shape, CitiesOf, Keys
  <2>5. Shape'
    BY <1>1, <2>1, <2>2, <2>3, <2>4 DEF Shape, Places
  <2>6. Past'
    <3>1. \A n \in Cadences : stamps'[n] \in {Never} \union 0..clock'
      BY <2>1, <2>2 DEF Past, Shape, Never
    <3>2. \A c \in Cities, f \in Feeds : asked'[c][f] <= clock'
      BY <2>1, <2>3 DEF Past, Shape
    <3> QED
      BY <3>1, <3>2 DEF Past
  <2>7. Dated'
    BY <1>1 DEF Dated
  <2>8. Polled'
    <3> SUFFICES ASSUME NEW c \in Cities
                 PROVE  /\ asked'[c]["rules"] = stamps'["rules"]
                        /\ stamps'["metar"] <= asked'[c]["metar"]
                        /\ start' - asked'[c]["rules"] < RulesTTL
                        /\ start' - asked'[c]["metar"] < IdleMetar
      BY DEF Polled
    <3>1. asked'[c]["rules"] = asked[c]["rules"] /\ asked'[c]["metar"] \in {clock', asked[c]["metar"]}
      BY <2>3 DEF Feeds
    <3>2. stamps'["rules"] = stamps["rules"] /\ stamps'["metar"] = stamps["metar"]
      BY <2>2 DEF Cadences
    <3>3. /\ asked[c]["rules"] = stamps["rules"] /\ start - asked[c]["rules"] < RulesTTL
          /\ stamps["metar"] <= asked[c]["metar"]
      BY <1>1 DEF Polled
    <3>4. clock - stamps["metar"] < IdleMetar
      BY <1>4, Parameters DEF Due, Shape, Cadences
    <3>5. /\ stamps["metar"] \in Int /\ asked[c]["metar"] \in Int /\ asked[c]["metar"] <= clock
          /\ start <= clock /\ start \in Nat /\ clock \in Nat
      BY DEF Shape, Past, Cadences, Feeds
    <3> QED
      BY <1>1, <2>1, <3>1, <3>2, <3>3, <3>4, <3>5, Parameters
  <2> QED
    BY <2>5, <2>6, <2>7, <2>8
<1> QED
  BY <1>2, <1>3, <1>4

LEMMA EarlyKeep == IInv /\ EarlyStep => IInv'
<1> SUFFICES ASSUME IInv, EarlyStep PROVE IInv'
  OBVIOUS
<1> USE DEF IInv
<1>1. /\ at = "early" /\ at' = "feed" /\ Today' = Today
      /\ UNCHANGED <<start, stamps, index, armed, saved, bridge, ticked, cooled, touched, fed>>
  BY DEF EarlyStep, Today
<1>2. CASE touched \ known = {}
  <2>1. UNCHANGED <<clock, known, asked>>
    BY <1>2 DEF EarlyStep
  <2> QED
    BY <1>1, <2>1 DEF Shape, Past, Dated, Polled, Places
<1>3. CASE touched \ known # {}
  <2> PICK d \in {0, 1}, cs \in SUBSET Cities, got \in SUBSET Cities :
        Takes(d) /\ known' = known \union got /\ asked' = Asked(cs, "metar")
    BY <1>3 DEF EarlyStep, Answer, Shape
  <2>1. clock' \in Nat /\ clock <= clock' /\ clock' <= MaxClock
    BY TakesTime
  <2>2. /\ asked' \in [Cities -> [Feeds -> Int]]
        /\ \A c \in Cities, f \in Feeds :
              asked'[c][f] = IF c \in cs /\ f = "metar" THEN clock' ELSE asked[c][f]
    BY <2>1, AskedTimes DEF Feeds
  <2>3. known' \subseteq Cities
    BY DEF Shape
  <2>4. Shape'
    BY <1>1, <2>1, <2>2, <2>3 DEF Shape, Places
  <2>5. Past'
    <3>1. \A n \in Cadences : stamps'[n] \in {Never} \union 0..clock'
      BY <1>1, <2>1 DEF Past, Shape, Never
    <3>2. \A c \in Cities, f \in Feeds : asked'[c][f] <= clock'
      BY <2>1, <2>2 DEF Past, Shape
    <3> QED
      BY <3>1, <3>2 DEF Past
  <2>6. Dated'
    BY <1>1 DEF Dated
  <2>7. Polled'
    <3> SUFFICES ASSUME NEW c \in Cities
                 PROVE  /\ asked'[c]["rules"] = stamps'["rules"]
                        /\ stamps'["metar"] <= asked'[c]["metar"]
                        /\ start' - asked'[c]["rules"] < RulesTTL
                        /\ start' - asked'[c]["metar"] < IdleMetar
      BY DEF Polled
    <3>1. asked'[c]["rules"] = asked[c]["rules"] /\ asked'[c]["metar"] \in {clock', asked[c]["metar"]}
      BY <2>2 DEF Feeds
    <3>2. /\ asked[c]["rules"] = stamps["rules"] /\ start - asked[c]["rules"] < RulesTTL
          /\ stamps["metar"] <= asked[c]["metar"] /\ start - asked[c]["metar"] < IdleMetar
      BY <1>1 DEF Polled
    <3>3. /\ stamps["metar"] \in Int /\ asked[c]["metar"] \in Int /\ asked[c]["metar"] <= clock
          /\ start <= clock /\ start \in Nat /\ clock \in Nat
      BY DEF Shape, Past, Cadences, Feeds
    <3> QED
      BY <1>1, <2>1, <3>1, <3>2, <3>3, Parameters
  <2> QED
    BY <2>4, <2>5, <2>6, <2>7
<1> QED
  BY <1>2, <1>3

LEMMA FeedKeep == IInv /\ FeedStep => IInv'
<1> SUFFICES ASSUME IInv, FeedStep PROVE IInv'
  OBVIOUS
<1> USE DEF IInv
<1>1. /\ at = "feed" /\ at' = "sleep" /\ Today' = Today /\ fed' = index \intersect Today
      /\ UNCHANGED <<clock, start, stamps, index, known, bridge, ticked, cooled, touched, asked>>
  BY DEF FeedStep, Today, RulesNow
<1>2. armed' \subseteq armed \union (index \intersect Today)
  BY DEF FeedStep, RulesNow
<1>3. armed \subseteq Today
  BY <1>1 DEF Dated
<1>4. saved' \in {saved, armed'}
  BY DEF FeedStep
<1>5. Shape'
  BY <1>1, <1>2, <1>4 DEF Shape, Places
<1>6. Past'
  BY <1>1 DEF Past
<1>7. Dated'
  BY <1>1, <1>2, <1>3 DEF Dated
<1>8. Polled'
  BY <1>1 DEF Polled
<1> QED
  BY <1>5, <1>6, <1>7, <1>8

LEMMA SleepKeep == IInv /\ Sleep => IInv'
<1> SUFFICES ASSUME IInv, Sleep PROVE IInv'
  OBVIOUS
<1> USE DEF IInv
<1>1. /\ at = "sleep" /\ clock < MaxClock
      /\ UNCHANGED <<armed, saved, stamps, index, known, bridge, ticked, cooled, asked>>
  BY DEF Sleep, process, ghosts
<1>2. CASE clock' = clock + 1 /\ UNCHANGED <<at, start, touched, fed>>
  <2>1. Today' = Today
    BY <1>2 DEF Today
  <2>2. Shape' /\ Dated'
    BY <1>1, <1>2, <2>1, Parameters DEF Shape, Dated
  <2>3. Past'
    <3>1. \A n \in Cadences : stamps'[n] \in {Never} \union 0..clock'
      BY <1>1, <1>2 DEF Past, Shape, Never
    <3>2. \A c \in Cities, f \in Feeds : asked'[c][f] <= clock'
      BY <1>1, <1>2 DEF Past, Shape
    <3> QED
      BY <3>1, <3>2 DEF Past
  <2>4. Polled'
    BY <1>1, <1>2 DEF Polled
  <2> QED
    BY <2>2, <2>3, <2>4
<1>3. CASE /\ at' = "rules" /\ start' = clock /\ touched' = {} /\ fed' = {} /\ UNCHANGED clock
  BY <1>1, <1>3 DEF Shape, Past, Dated, Polled, Places
<1> QED
  BY <1>2, <1>3 DEF Sleep

LEMMA TickKeep == \A c \in Cities : IInv /\ Tick(c) => IInv'
<1> SUFFICES ASSUME NEW c \in Cities, IInv, Tick(c) PROVE IInv'
  OBVIOUS
<1> USE DEF IInv
<1>1. /\ UNCHANGED <<clock, armed, saved, stamps, index, known, bridge, cooled, at, start, touched,
                     fed, asked>>
      /\ Today' = Today /\ DOMAIN ticked' = DOMAIN ticked
  BY DEF Tick, main, ghosts, Today
<1> QED
  BY <1>1 DEF Shape, Past, Dated, Polled

LEMMA RestartKeep == IInv /\ Restart => IInv'
<1> SUFFICES ASSUME IInv, Restart PROVE IInv'
  OBVIOUS
<1> USE DEF IInv
<1>1. /\ at' = "rules" /\ start' = clock /\ UNCHANGED <<clock, saved>> /\ armed' = saved
      /\ index' = {} /\ known' = {} /\ touched' = {} /\ fed' = {} /\ bridge' = FALSE
      /\ DOMAIN ticked' = Cities /\ DOMAIN cooled' = Cities
  BY DEF Restart
<1>2. stamps' \in [Cadences -> Int] /\ \A n \in Cadences : stamps'[n] = Never
  BY DEF Restart, NoStamps, Never
<1>3. /\ asked' \in [Cities -> [Feeds -> Int]]
      /\ \A c \in Cities, f \in Feeds : asked'[c][f] = Never
  BY DEF Restart, Never, Feeds
<1>4. bridge' \in BOOLEAN
  BY <1>1
<1>5. Shape'
  BY <1>1, <1>2, <1>3, <1>4 DEF Shape, Places
<1>6. Past'
  BY <1>1, <1>2, <1>3 DEF Past, Shape, Never
<1>7. Dated' /\ Polled'
  BY <1>1, <1>2, <1>3 DEF Dated, Polled, Cadences, Feeds
<1> QED
  BY <1>5, <1>6, <1>7

LEMMA IdleKeep == IInv /\ UNCHANGED vars => IInv'
<1> SUFFICES ASSUME IInv, UNCHANGED vars PROVE IInv'
  OBVIOUS
<1>1. /\ UNCHANGED <<clock, at, start, stamps, index, known, armed, saved, bridge, ticked, cooled,
                     touched, fed, asked>>
      /\ Today' = Today
  BY DEF vars, process, main, ghosts, Today
<1> QED
  BY <1>1 DEF IInv, Shape, Past, Dated, Polled

LEMMA Inductive == IInv /\ [Next]_vars => IInv'
  BY RulesKeep, BooksKeep, BridgeKeep, MetarKeep, EarlyKeep, FeedKeep, SleepKeep, TickKeep,
     RestartKeep, IdleKeep DEF Next

LEMMA Invariance == Spec => []IInv
  BY InitInv, Inductive, PTL DEF Spec

-----------------------------------------------------------------------------
(* The variables have their types and no stamp lies in the future. *)
THEOREM TypeCorrect == Spec => []TypeOK
<1>1. IInv => TypeOK
  BY DEF IInv, Shape, Past, TypeOK, Places
<1> QED
  BY <1>1, Invariance, PTL

(* No rule of another date reaches the strategy, and no session of another date lives       *)
(* through a cycle: run_cycle's rules_now and the prune at its head.                        *)
THEOREM AlwaysFedToday == Spec => []FedToday
<1>1. IInv => FedToday
  BY DEF IInv, Dated, FedToday
<1> QED
  BY <1>1, Invariance, PTL

(* No failure, partial answer, fast or early pull postpones the full pull of the rules or   *)
(* of the observations past its interval: a stamp is never later than what it stands for.   *)
THEOREM FullPullsComeRound == Spec => []EveryFeedPolled
<1>1. IInv => EveryFeedPolled
  BY DEF IInv, Polled, EveryFeedPolled
<1> QED
  BY <1>1, Invariance, PTL

(* A round of rules lookups in which every one failed leaves the index as it was. *)
THEOREM BlindnessNeedsRestart == Spec => RulesSurvive
<1>1. [Next]_vars => [index # {} /\ index' = {} => stamps' = NoStamps]_vars
  <2> SUFFICES ASSUME Next, index # {}, index' = {} PROVE stamps' = NoStamps
    OBVIOUS
  <2>1. CASE RulesStep
    BY <2>1 DEF RulesStep, Listed
  <2>2. CASE BooksStep \/ BridgeStep \/ MetarStep \/ EarlyStep \/ FeedStep
    BY <2>2 DEF BooksStep, BridgeStep, MetarStep, EarlyStep, FeedStep
  <2>3. CASE Sleep \/ \E c \in Cities : Tick(c)
    BY <2>3 DEF Sleep, Tick, process
  <2>4. CASE Restart
    BY <2>4 DEF Restart
  <2> QED
    BY <2>1, <2>2, <2>3, <2>4 DEF Next
<1> QED
  BY <1>1, PTL DEF Spec, RulesSurvive

(* Gamma is asked at most once an interval, whether it answers or not. *)
THEOREM GammaAskedOnceAnInterval == Spec => GammaNotStormed
<1> DEFINE Calm == \A c \in Cities : asked'[c].rules > asked[c].rules /\ asked[c].rules # Never
                     => clock - asked[c].rules >= RulesTTL
<1>1. IInv /\ [Next]_vars => [Calm]_vars
  <2> SUFFICES ASSUME IInv, Next, NEW c \in Cities,
                      asked'[c].rules > asked[c].rules
               PROVE  clock - asked[c].rules >= RulesTTL
    OBVIOUS
  <2>1. CASE RulesStep
    <3>1. Due("rules", RulesTTL)
      <4> SUFFICES ASSUME ~ Due("rules", RulesTTL) PROVE FALSE
        OBVIOUS
      <4>1. asked' = asked
        BY <2>1 DEF RulesStep
      <4> QED
        BY <4>1 DEF IInv, Shape, Feeds
    <3> QED
      BY <3>1 DEF IInv, Polled, Due
  <2>2. CASE BooksStep \/ MetarStep \/ EarlyStep
    <3>1. \/ asked' = asked
          \/ \E cs \in SUBSET Cities, f \in {"book", "metar"} : asked' = Asked(cs, f)
      <4>1. CASE BooksStep
        BY <4>1 DEF BooksStep, IInv, Shape, CitiesOf, Keys, Warm
      <4>2. CASE MetarStep
        <5>1. CitiesOf(armed) \subseteq Cities
          BY DEF IInv, Shape, CitiesOf, Keys
        <5>2. CASE Due("metar", IdleMetar)
          BY <4>2, <5>2 DEF MetarStep, Pulled
        <5>3. CASE ~ Due("metar", IdleMetar) /\ FastMetarDue
          BY <4>2, <5>1, <5>3 DEF MetarStep, Pulled
        <5>4. CASE ~ Due("metar", IdleMetar) /\ ~ FastMetarDue
          BY <4>2, <5>4 DEF MetarStep
        <5> QED
          BY <5>2, <5>3, <5>4
      <4>3. CASE EarlyStep
        BY <4>3 DEF EarlyStep, IInv, Shape
      <4> QED
        BY <2>2, <4>1, <4>2, <4>3
    <3> QED
      BY <3>1 DEF Asked, IInv, Shape, Feeds
  <2>3. CASE BridgeStep \/ FeedStep \/ Sleep \/ \E d \in Cities : Tick(d)
    <3>1. asked' = asked
      BY <2>3 DEF BridgeStep, FeedStep, Sleep, Tick, ghosts
    <3> QED
      BY <3>1 DEF IInv, Shape, Feeds
  <2>4. CASE Restart
    <3>1. asked'[c].rules = Never
      BY <2>4 DEF Restart
    <3>2. stamps["rules"] \in {Never} \union 0..clock /\ asked[c]["rules"] = stamps["rules"]
      BY DEF IInv, Past, Polled, Cadences
    <3> QED
      BY <3>1, <3>2 DEF IInv, Shape, Never
  <2> QED
    BY <2>1, <2>2, <2>3, <2>4 DEF Next
<1> QED
  BY <1>1, Invariance, PTL DEF Spec, GammaNotStormed

(* Both: an outage of Gamma costs no rules, and Gamma no more than a round an interval. *)
THEOREM RulesKeepSteady == Spec => RulesSteady
  BY BlindnessNeedsRestart, GammaAskedOnceAnInterval DEF RulesSteady
-----------------------------------------------------------------------------
(* ArmedFeedsHot needs the history of a session beside it: while since runs the session is  *)
(* armed and listed, so every fast pull later than since has asked for its city.            *)

(* What since stands for: the session is armed, unless its date is over, and between two    *)
(* cycles its rule is listed too.                                                           *)
Continuous ==
    /\ since \in [Keys -> Int]
    /\ \A k \in Keys : since[k] \in {Never} \union 0..clock
    /\ \A k \in Keys : since[k] # Never =>
          /\ at \in {"sleep", "rules"} => k \in armed \intersect index
          /\ k \in Today => k \in armed

(* A fast pull made since then asked for its city. *)
Warmed ==
    \A k \in armed \intersect index :
        since[k] # Never /\ since[k] < stamps["book_fast"] => stamps["book_fast"] <= asked[k[1]]["book"]
Watched ==
    \A k \in armed :
        since[k] # Never /\ since[k] < stamps["metar_fast"] => stamps["metar_fast"] <= asked[k[1]]["metar"]

(* Behind its step, a feed of an armed session is as fresh as the armed interval asks.      *)
HotBook(k)  == since[k] # Never /\ start - since[k] >= ArmBook => start - asked[k[1]]["book"] < ArmBook
HotMetar(k) == since[k] # Never /\ start - since[k] >= ArmMetar => start - asked[k[1]]["metar"] < ArmMetar
Hot ==
    /\ at \in {"bridge", "metar", "early", "feed"} => \A k \in armed \intersect index : HotBook(k)
    /\ at \in {"early", "feed"} => \A k \in armed : HotMetar(k)

Heated == Continuous /\ Warmed /\ Watched /\ Hot

LEMMA HeatedInit == Init => Heated
  BY DEF Init, Heated, Continuous, Warmed, Watched, Hot, Never

(* The city of a session, and the numbers its feeds are judged by. *)
LEMMA Numbers ==
    ASSUME IInv, Heated, NEW k \in armed
    PROVE  /\ k \in Keys /\ k[1] \in Cities /\ k[1] \in CitiesOf(armed)
           /\ k \in index => k[1] \in CitiesOf(index) /\ k \in Warm /\ k[1] \in CitiesOf(Warm)
           /\ since[k] \in Int /\ start \in Nat /\ clock \in Nat /\ start <= clock
           /\ \A f \in Feeds : asked[k[1]][f] \in Int /\ asked[k[1]][f] <= clock
           /\ \A n \in Cadences : stamps[n] \in Int /\ stamps[n] <= clock
<1>1. k \in Keys /\ k[1] \in Cities BY DEF IInv, Shape, Keys
<1>2. k[1] \in CitiesOf(armed) BY DEF CitiesOf
<1>3. k \in index => k[1] \in CitiesOf(index) /\ k \in Warm /\ k[1] \in CitiesOf(Warm)
  BY DEF CitiesOf, Warm
<1>4. since[k] \in Int BY <1>1 DEF Heated, Continuous
<1>5. start \in Nat /\ clock \in Nat /\ start <= clock BY DEF IInv, Shape
<1>6. \A f \in Feeds : asked[k[1]][f] \in Int /\ asked[k[1]][f] <= clock
  BY <1>1 DEF IInv, Shape, Past
<1>7. \A n \in Cadences : stamps[n] \in Int /\ stamps[n] <= clock
  BY <1>5 DEF IInv, Shape, Past, Never
<1> QED BY <1>1, <1>2, <1>3, <1>4, <1>5, <1>6, <1>7

LEMMA RulesHeated == ASSUME IInv, Heated, RulesStep PROVE Heated'
<1>1. /\ at = "rules" /\ at' = "books" /\ start' = start /\ since' = since /\ Today' = Today
      /\ armed' = armed \intersect Today
  BY DEF RulesStep, Today
<1>2. /\ stamps'["book_fast"] = stamps["book_fast"] /\ stamps'["metar_fast"] = stamps["metar_fast"]
      /\ clock' \in Nat /\ clock <= clock'
      /\ \A c \in Cities : /\ asked'[c]["book"] = asked[c]["book"]
                           /\ asked'[c]["metar"] = asked[c]["metar"]
  <2>1. CASE Due("rules", RulesTTL)
    <3> PICK d \in {0, 1}, found \in SUBSET Today :
          Takes(d) /\ stamps' = RulesStamped(found) /\ asked' = Asked(Cities, "rules")
      BY <2>1 DEF RulesStep
    <3>1. clock' \in Nat /\ clock <= clock' BY TakesTime DEF IInv
    <3>2. \A c \in Cities, f \in Feeds : f # "rules" => asked'[c][f] = asked[c][f]
      BY <3>1, AskedTimes DEF Feeds, IInv
    <3>3. \A n \in Cadences : n # "rules" => stamps'[n] = stamps[n]
      BY DEF RulesStamped, IInv, Shape
    <3> QED BY <3>1, <3>2, <3>3 DEF Feeds, Cadences
  <2>2. CASE ~ Due("rules", RulesTTL)
    <3>1. UNCHANGED <<clock, stamps, asked>> BY <2>2 DEF RulesStep
    <3> QED BY <3>1 DEF IInv, Shape
  <2> QED BY <2>1, <2>2
<1>3. \A k \in armed : k[1] \in Cities BY DEF IInv, Shape, Keys
<1>4. \A k \in Keys : since[k] # Never => k \in index BY <1>1 DEF Heated, Continuous
<1>5. Continuous'
  <2>1. since' \in [Keys -> Int] BY <1>1 DEF Heated, Continuous
  <2>2. \A k \in Keys : since'[k] \in {Never} \union 0..clock'
    BY <1>1, <1>2 DEF Heated, Continuous, IInv, Shape
  <2>3. \A k \in Keys : since'[k] # Never => (k \in Today' => k \in armed')
    BY <1>1 DEF Heated, Continuous
  <2> QED BY <1>1, <2>1, <2>2, <2>3 DEF Continuous
<1>6. Warmed'
  <2>1. \A k \in armed' : k \in armed /\ k \in Keys BY <1>1 DEF IInv, Shape
  <2> QED BY <1>1, <1>2, <1>3, <1>4, <2>1 DEF Heated, Warmed
<1>7. Watched' BY <1>1, <1>2, <1>3 DEF Heated, Watched
<1>8. Hot' BY <1>1 DEF Hot
<1> QED BY <1>5, <1>6, <1>7, <1>8 DEF Heated

LEMMA BooksHeated == ASSUME IInv, Heated, BooksStep PROVE Heated'
<1>1. /\ at = "books" /\ at' = "bridge" /\ Today' = Today
      /\ UNCHANGED <<start, index, armed, since>>
  BY DEF BooksStep, Today
<1> DEFINE full == Due("book", IdleBook) /\ index # {}
           warm == WarmDue /\ Warm # {}
           cs == CitiesOf(IF full THEN index ELSE Warm)
<1>2. CASE full \/ warm
  <2> PICK d \in {0, 1} :
        /\ Takes(d)
        /\ stamps' = [stamps EXCEPT ![IF full THEN "book" ELSE "book_fast"] = clock']
        /\ asked' = Asked(cs, "book")
    BY <1>2 DEF BooksStep
  <2>1. clock' \in Nat /\ clock <= clock' BY TakesTime DEF IInv
  <2>2. \A c \in Cities, f \in Feeds :
           asked'[c][f] = IF c \in cs /\ f = "book" THEN clock' ELSE asked[c][f]
    BY <2>1, AskedTimes DEF Feeds, IInv
  <2>3. /\ stamps'["metar_fast"] = stamps["metar_fast"]
        /\ stamps'["book_fast"] = IF full THEN stamps["book_fast"] ELSE clock'
    BY DEF IInv, Shape, Cadences
  <2>4. \A k \in armed : k \in index => k[1] \in cs BY Numbers
  <2>5. \A k \in armed : /\ k \in index => asked'[k[1]]["book"] = clock'
                         /\ asked'[k[1]]["metar"] = asked[k[1]]["metar"]
    BY <2>2, <2>4, Numbers DEF Feeds
  <2>6. Continuous'
    BY <1>1, <2>1 DEF Heated, Continuous, IInv, Shape
  <2>7. Warmed'
    <3>1. stamps["book_fast"] <= clock /\ stamps["book_fast"] \in Int /\ clock \in Nat
      BY DEF IInv, Shape, Past, Cadences, Never
    <3>2. stamps'["book_fast"] <= clock' BY <2>1, <2>3, <3>1
    <3> QED BY <1>1, <2>5, <3>2 DEF Warmed
  <2>8. Watched' BY <1>1, <2>3, <2>5 DEF Heated, Watched
  <2>9. Hot'
    <3>1. \A k \in armed : k \in index => HotBook(k)'
      <4> SUFFICES ASSUME NEW k \in armed, k \in index PROVE HotBook(k)'
        OBVIOUS
      <4>1. start' - asked'[k[1]]["book"] < ArmBook
        BY <1>1, <2>1, <2>5, Numbers, ConstantsAssumption
      <4> QED BY <4>1 DEF HotBook
    <3> QED BY <1>1, <3>1 DEF Hot
  <2> QED BY <2>6, <2>7, <2>8, <2>9 DEF Heated
<1>3. CASE ~ (full \/ warm)
  <2>1. UNCHANGED <<clock, stamps, asked>> BY <1>3 DEF BooksStep
  <2>2. Continuous' /\ Warmed' /\ Watched'
    BY <1>1, <2>1 DEF Heated, Continuous, Warmed, Watched
  <2>3. \A k \in armed : k \in index => HotBook(k)
    <3> SUFFICES ASSUME NEW k \in armed, k \in index, since[k] # Never, start - since[k] >= ArmBook
                 PROVE  start - asked[k[1]]["book"] < ArmBook
      BY DEF HotBook
    <3>1. ~ Due("book", IdleBook) /\ ~ WarmDue BY <1>3, Numbers
    <3>2. ~ Due("book_fast", ArmBook) BY <3>1 DEF WarmDue
    <3>3. clock - stamps["book_fast"] < ArmBook
      BY <3>2, Numbers, Parameters DEF Due, Cadences
    <3>4. since[k] < stamps["book_fast"] BY <3>3, Numbers, Parameters DEF Cadences
    <3>5. stamps["book_fast"] <= asked[k[1]]["book"] BY <3>4 DEF Heated, Warmed
    <3> QED BY <3>3, <3>5, Numbers, Parameters DEF Cadences, Feeds
  <2>4. Hot' BY <1>1, <2>1, <2>3 DEF Hot, HotBook
  <2> QED BY <2>2, <2>4 DEF Heated
<1> QED BY <1>2, <1>3

LEMMA BridgeHeated == ASSUME IInv, Heated, BridgeStep PROVE Heated'
<1>1. /\ at = "bridge" /\ at' = "metar" /\ Today' = Today
      /\ UNCHANGED <<clock, start, stamps, index, armed, since, asked>>
  BY DEF BridgeStep, Today
<1> QED BY <1>1 DEF Heated, Continuous, Warmed, Watched, Hot, HotBook

LEMMA MetarHeated == ASSUME IInv, Heated, MetarStep PROVE Heated'
<1>1. /\ at = "metar" /\ at' \in {"early", "feed"} /\ Today' = Today
      /\ UNCHANGED <<start, index, armed, since>>
  BY DEF MetarStep, Today
<1> DEFINE full == Due("metar", IdleMetar)
           cs == IF full THEN Cities ELSE CitiesOf(armed)
<1>0. \A k \in armed : k \in index => HotBook(k) BY <1>1 DEF Heated, Hot
<1>2. CASE full \/ FastMetarDue
  <2> PICK d \in {0, 1}, got \in Answer(cs) :
        Takes(d) /\ Pulled(cs, IF full THEN "metar" ELSE "metar_fast", got)
    BY <1>2 DEF MetarStep
  <2>1. clock' \in Nat /\ clock <= clock' BY TakesTime DEF IInv
  <2>2. \A c \in Cities, f \in Feeds :
           asked'[c][f] = IF c \in cs /\ f = "metar" THEN clock' ELSE asked[c][f]
    BY <2>1, AskedTimes DEF Feeds, IInv, Pulled
  <2>3. /\ stamps'["book_fast"] = stamps["book_fast"]
        /\ stamps'["metar_fast"] \in {stamps["metar_fast"], clock'}
    BY DEF Pulled, IInv, Shape, Cadences
  <2>4. \A k \in armed : k[1] \in cs BY Numbers
  <2>5. \A k \in armed : /\ asked'[k[1]]["metar"] = clock'
                         /\ asked'[k[1]]["book"] = asked[k[1]]["book"]
    BY <2>2, <2>4, Numbers DEF Feeds
  <2>6. Continuous'
    BY <1>1, <2>1 DEF Heated, Continuous, IInv, Shape
  <2>7. Warmed' BY <1>1, <2>3, <2>5 DEF Heated, Warmed
  <2>8. Watched'
    <3>1. stamps["metar_fast"] <= clock /\ stamps["metar_fast"] \in Int /\ clock \in Nat
      BY DEF IInv, Shape, Past, Cadences, Never
    <3>2. stamps'["metar_fast"] <= clock' BY <2>1, <2>3, <3>1
    <3> QED BY <1>1, <2>5, <3>2 DEF Watched
  <2>9. Hot'
    <3>1. \A k \in armed : HotMetar(k)'
      <4> SUFFICES ASSUME NEW k \in armed PROVE HotMetar(k)'
        OBVIOUS
      <4>1. start' - asked'[k[1]]["metar"] < ArmMetar
        BY <1>1, <2>1, <2>5, Numbers, ConstantsAssumption
      <4> QED BY <4>1 DEF HotMetar
    <3>2. \A k \in armed : k \in index => HotBook(k)'
      BY <1>0, <1>1, <2>5 DEF HotBook
    <3> QED BY <1>1, <3>1, <3>2 DEF Hot
  <2> QED BY <2>6, <2>7, <2>8, <2>9 DEF Heated
<1>3. CASE ~ (full \/ FastMetarDue)
  <2>1. UNCHANGED <<clock, stamps, asked>> BY <1>3 DEF MetarStep
  <2>2. Continuous' /\ Warmed' /\ Watched'
    BY <1>1, <2>1 DEF Heated, Continuous, Warmed, Watched
  <2>3. \A k \in armed : HotMetar(k)
    <3> SUFFICES ASSUME NEW k \in armed, since[k] # Never, start - since[k] >= ArmMetar
                 PROVE  start - asked[k[1]]["metar"] < ArmMetar
      BY DEF HotMetar
    <3>1. ~ Due("metar_fast", ArmMetar) BY <1>3 DEF FastMetarDue
    <3>2. clock - stamps["metar_fast"] < ArmMetar
      BY <3>1, Numbers, Parameters DEF Due, Cadences
    <3>3. since[k] < stamps["metar_fast"] BY <3>2, Numbers, Parameters DEF Cadences
    <3>4. stamps["metar_fast"] <= asked[k[1]]["metar"] BY <3>3 DEF Heated, Watched
    <3> QED BY <3>2, <3>4, Numbers, Parameters DEF Cadences, Feeds
  <2>4. Hot' BY <1>0, <1>1, <2>1, <2>3 DEF Hot, HotBook, HotMetar
  <2> QED BY <2>2, <2>4 DEF Heated
<1> QED BY <1>2, <1>3

LEMMA EarlyHeated == ASSUME IInv, Heated, EarlyStep PROVE Heated'
<1>1. /\ at = "early" /\ at' = "feed" /\ Today' = Today
      /\ UNCHANGED <<start, stamps, index, armed, since>>
  BY DEF EarlyStep, Today
<1>2. /\ clock' \in Nat /\ clock <= clock'
      /\ \A k \in armed : /\ asked'[k[1]]["book"] = asked[k[1]]["book"]
                          /\ asked'[k[1]]["metar"] \in Int
                          /\ asked[k[1]]["metar"] <= asked'[k[1]]["metar"]
  <2>1. CASE touched \ known = {}
    <3>1. UNCHANGED <<clock, asked>> BY <2>1 DEF EarlyStep
    <3>2. clock \in Nat BY DEF IInv, Shape
    <3> QED BY <3>1, <3>2, Numbers DEF Feeds
  <2>2. CASE touched \ known # {}
    <3> PICK d \in {0, 1}, cs \in SUBSET touched : Takes(d) /\ asked' = Asked(cs, "metar")
      BY <2>2 DEF EarlyStep
    <3>1. clock' \in Nat /\ clock <= clock' BY TakesTime DEF IInv
    <3>2. \A c \in Cities, f \in Feeds :
             asked'[c][f] = IF c \in cs /\ f = "metar" THEN clock' ELSE asked[c][f]
      BY <3>1, AskedTimes DEF Feeds, IInv
    <3>3. \A k \in armed : /\ asked'[k[1]]["book"] = asked[k[1]]["book"]
                           /\ asked'[k[1]]["metar"] \in {clock', asked[k[1]]["metar"]}
      BY <3>2, Numbers DEF Feeds
    <3> QED BY <3>1, <3>3, Numbers DEF Feeds
  <2> QED BY <2>1, <2>2
<1>3. Continuous' BY <1>1, <1>2 DEF Heated, Continuous, IInv, Shape
<1>4. Warmed' BY <1>1, <1>2 DEF Heated, Warmed
<1>5. Watched' BY <1>1, <1>2, Numbers DEF Heated, Watched, Cadences, Feeds
<1>6. Hot'
  <2>1. \A k \in armed : k \in index => HotBook(k)' BY <1>1, <1>2 DEF Heated, Hot, HotBook
  <2>2. \A k \in armed : HotMetar(k)'
    <3> SUFFICES ASSUME NEW k \in armed PROVE HotMetar(k)'
      OBVIOUS
    <3>1. HotMetar(k) BY <1>1 DEF Heated, Hot
    <3>2. ArmMetar \in Nat BY Parameters
    <3>3. start \in Nat /\ asked[k[1]]["metar"] \in Int BY Numbers DEF Feeds
    <3>4. start - asked[k[1]]["metar"] < ArmMetar => start - asked'[k[1]]["metar"] < ArmMetar
      BY <1>2, <3>2, <3>3
    <3> QED BY <1>1, <3>1, <3>4 DEF HotMetar
  <2> QED BY <1>1, <2>1, <2>2 DEF Hot
<1> QED BY <1>3, <1>4, <1>5, <1>6 DEF Heated

LEMMA FeedHeated == ASSUME IInv, Heated, FeedStep PROVE Heated'
<1>1. /\ at = "feed" /\ at' = "sleep" /\ Today' = Today /\ fed' = index \intersect Today
      /\ UNCHANGED <<clock, start, stamps, index, asked>>
  BY DEF FeedStep, Today, RulesNow
<1>2. since' = [k \in Keys |-> IF k \notin armed' \intersect fed' THEN Never
                                ELSE IF since[k] = Never THEN clock ELSE since[k]]
  BY DEF FeedStep
<1>3. \A k \in Keys : since'[k] # Never =>
         /\ k \in armed' /\ k \in index /\ k \in Today
         /\ since'[k] = clock \/ (since[k] # Never /\ since'[k] = since[k])
  BY <1>1, <1>2
<1>4. \A k \in Keys : since'[k] # Never /\ since'[k] # clock =>
         k \in armed /\ since[k] # Never /\ since'[k] = since[k]
  BY <1>3 DEF Heated, Continuous
<1>5. armed' \subseteq Keys BY FeedKeep DEF IInv, Shape
<1>6. clock \in Nat /\ \A n \in Cadences : stamps[n] \in Int /\ stamps[n] <= clock
  BY DEF IInv, Shape, Past, Never
<1>7. Continuous'
  <2>1. since' \in [Keys -> Int] BY <1>2, <1>6 DEF Heated, Continuous, Never
  <2>2. \A k \in Keys : since'[k] \in {Never} \union 0..clock'
    BY <1>1, <1>3, <1>6 DEF Heated, Continuous
  <2> QED BY <1>1, <1>3, <2>1, <2>2 DEF Continuous
<1>8. Warmed'
  <2> SUFFICES ASSUME NEW k \in armed', k \in index, since'[k] # Never,
                      since'[k] < stamps["book_fast"]
               PROVE  stamps["book_fast"] <= asked[k[1]]["book"]
    BY <1>1 DEF Warmed
  <2>1. k \in Keys /\ since'[k] # clock BY <1>5, <1>6 DEF Cadences
  <2> QED BY <1>4, <2>1 DEF Heated, Warmed
<1>9. Watched'
  <2> SUFFICES ASSUME NEW k \in armed', since'[k] # Never, since'[k] < stamps["metar_fast"]
               PROVE  stamps["metar_fast"] <= asked[k[1]]["metar"]
    BY <1>1 DEF Watched
  <2>1. k \in Keys /\ since'[k] # clock BY <1>5, <1>6 DEF Cadences
  <2> QED BY <1>4, <2>1 DEF Heated, Watched
<1>10. Hot' BY <1>1 DEF Hot
<1> QED BY <1>7, <1>8, <1>9, <1>10 DEF Heated

LEMMA SleepHeated == ASSUME IInv, Heated, Sleep PROVE Heated'
<1>1. /\ at = "sleep" /\ at' \in {"sleep", "rules"}
      /\ clock' \in {clock, clock + 1} /\ (at' = "sleep" => start' = start)
      /\ UNCHANGED <<armed, stamps, index, asked, since>>
  BY DEF Sleep, process, ghosts
<1>2. \A k \in Keys : since[k] # Never => k \in armed \intersect index
  BY <1>1 DEF Heated, Continuous
<1>3. Continuous' BY <1>1, <1>2 DEF Heated, Continuous, IInv, Shape
<1> QED BY <1>1, <1>3 DEF Heated, Warmed, Watched, Hot

LEMMA TickHeated == ASSUME Heated, NEW c \in Cities, Tick(c) PROVE Heated'
<1>1. /\ UNCHANGED <<clock, at, start, armed, stamps, index, asked, since>> /\ Today' = Today
  BY DEF Tick, main, ghosts, Today
<1> QED BY <1>1 DEF Heated, Continuous, Warmed, Watched, Hot, HotBook, HotMetar

LEMMA RestartHeated == ASSUME IInv, Restart PROVE Heated'
<1>1. at' = "rules" /\ \A k \in Keys : since'[k] = Never BY DEF Restart
<1>2. since' \in [Keys -> Int] BY DEF Restart, Never
<1>3. armed' \subseteq Keys BY DEF Restart, IInv, Shape
<1> QED BY <1>1, <1>2, <1>3 DEF Heated, Continuous, Warmed, Watched, Hot

LEMMA IdleHeated == ASSUME Heated, UNCHANGED vars PROVE Heated'
<1>1. /\ UNCHANGED <<clock, at, start, armed, stamps, index, asked, since>> /\ Today' = Today
  BY DEF vars, process, main, ghosts, Today
<1> QED BY <1>1 DEF Heated, Continuous, Warmed, Watched, Hot, HotBook, HotMetar

LEMMA HeatedKept == IInv /\ Heated /\ [Next]_vars => Heated'
  BY RulesHeated, BooksHeated, BridgeHeated, MetarHeated, EarlyHeated, FeedHeated, SleepHeated,
     TickHeated, RestartHeated, IdleHeated DEF Next

(* Whatever other sessions are armed meanwhile, whichever pulls fail and whoever shares the *)
(* stamp, a session that has been armed for the armed interval stands on a ladder and an    *)
(* observation asked for within it: the two fast cadences of run_cycle.                     *)
THEOREM ArmedFeedsAlwaysHot == Spec => []ArmedFeedsHot
<1>1. IInv /\ Heated => ArmedFeedsHot
  BY DEF Heated, Hot, HotBook, HotMetar, ArmedFeedsHot, Feeds
<1> QED
  BY <1>1, HeatedInit, HeatedKept, Invariance, PTL DEF Spec

-----------------------------------------------------------------------------
(* The neg-risk desk. *)

(* An account's records, with their fields. *)
Holdings == [shares : Nat, cost : Nat]
Baskets  == [open : BOOLEAN, shares : Nat \ {0}, cost : Nat, payout : Nat]
Accounts == [cash : Int, realized : Int, inv : [Tokens -> Holdings],
             baskets : Seq(Baskets), trades : Nat]

(* What an account owes to no other record: its cash, its caps, its baskets, its equity. *)
Funded(a)    == 2 * a.cash + One >= 0
Capped(a)    == \A t \in Tokens : 2 * a.inv[t].cost <= 2 * InvCap + One
OneBasket(a) == \A i, j \in OpenBaskets(a) : i = j
WorthIt(a)   == \A i \in DOMAIN a.baskets :
                    a.baskets[i].payout - a.baskets[i].cost > Hurdle * a.baskets[i].shares
Explained(a) == a.cash + OpenCost(a) = Capital + a.realized
Sound(a)     == a \in Accounts /\ Funded(a) /\ Capped(a) /\ OneBasket(a) /\ WorthIt(a) /\ Explained(a)

(* The desk: both accounts are sound, and what is listed are tokens of the event. *)
Booked == Sound(acct) /\ Sound(file) /\ listed \subseteq Tokens /\ winner \in Tokens

LEMMA Params ==
    /\ MaxAge \in Nat /\ MaxSkew \in Nat /\ Hurdle \in Nat /\ HalfSpread \in Nat /\ Capital \in Nat
    /\ MinArbCash \in Nat /\ MinMakerCash \in Nat /\ MaxTrades \in Nat
    /\ One \in Nat /\ One > 2 /\ QuoteSize \in Nat /\ QuoteSize > 0 /\ Budget \in Nat /\ Budget > 0
    /\ Chunk \in Nat /\ Chunk > 0 /\ InvCap \in Nat /\ InvCap > 0 /\ SellCap \in Nat /\ SellCap > 0
    /\ IsFiniteSet(Tokens)
  BY AccountAssumption

(* Rounding to the nearest is off by a half at most. *)
LEMMA HalfNear ==
    ASSUME NEW n \in Nat, NEW d \in Nat, d > 0
    PROVE  /\ Half(n, d) \in Nat
           /\ 2 * (Half(n, d) * d) <= 2 * n + d
           /\ 2 * n <= 2 * (Half(n, d) * d) + d
<1> DEFINE q == n \div d
           r == n % d
<1>1. q \in Nat /\ r \in Nat /\ r < d /\ n = q * d + r
  OBVIOUS
<1>2. Half(n, d) = IF 2 * r > d \/ (2 * r = d /\ q % 2 = 1) THEN q + 1 ELSE q BY DEF Half
<1> HIDE DEF q, r
<1>3. (q + 1) * d = q * d + d BY <1>1
<1>4. q * d \in Nat BY <1>1
<1>5. CASE Half(n, d) = q + 1 /\ 2 * r >= d
  <2>1. Half(n, d) * d = q * d + d BY <1>3, <1>5
  <2> QED BY <1>1, <1>4, <1>5, <2>1
<1>6. CASE Half(n, d) = q /\ 2 * r <= d
  <2>1. Half(n, d) * d = q * d BY <1>6
  <2> QED BY <1>1, <1>4, <1>6, <2>1
<1> QED BY <1>1, <1>2, <1>5, <1>6

(* What is no more than k times d is rounded to no more than k. *)
LEMMA HalfWithin ==
    ASSUME NEW n \in Nat, NEW d \in Nat, d > 0, NEW k \in Nat, n <= k * d
    PROVE  Half(n, d) <= k
<1> DEFINE h == Half(n, d)
<1>1. h \in Nat /\ 2 * (h * d) <= 2 * n + d BY HalfNear
<1> HIDE DEF h
<1>2. ASSUME h > k PROVE FALSE
  <2>1. h >= k + 1 /\ h * d >= (k + 1) * d BY <1>1, <1>2
  <2>2. (k + 1) * d = k * d + d /\ k * d \in Nat /\ h * d \in Nat BY <1>1
  <2> QED BY <1>1, <2>1, <2>2
<1> QED BY <1>1, <1>2 DEF h

(* The sum of a function of positive values over a set that is not empty. *)
LEMMA SumPositive ==
    ASSUME NEW S, IsFiniteSet(S), S # {}, NEW f, DOMAIN f = S, \A x \in S : f[x] \in Nat /\ f[x] > 0
    PROVE  SumFunction(f) \in Nat /\ SumFunction(f) > 0
<1>1. SumFunction(f) = SumFunctionOnSet(f, S) BY DEF SumFunction
<1>2. PICK x \in S : TRUE OBVIOUS
<1>3. SumFunctionOnSet(f, S) = f[x] + SumFunctionOnSet(f, S \ {x}) BY SumWithout, <1>2
<1>4. SumFunctionOnSet(f, S \ {x}) \in Nat
  <2>1. IsFiniteSet(S \ {x}) BY FS_RemoveElement
  <2> QED BY <2>1, SumNat
<1> QED BY <1>1, <1>3, <1>4

(* Prices lie inside the dollar, the bid below the ask. *)
LEMMA PricesInside ==
    ASSUME listed \subseteq Tokens, listed # {}, NEW b \in Books, NEW t \in listed
    PROVE  /\ BidPrice(b, t) \in Nat /\ 1 <= BidPrice(b, t) /\ BidPrice(b, t) <= One - 2
           /\ AskPrice(b, t) \in Nat /\ 2 <= AskPrice(b, t) /\ AskPrice(b, t) <= One - 1
<1>1. \A u \in listed : Ask(b, u) \in Nat /\ Bid(b, u) \in Nat
  BY AccountAssumption DEF Ask, Bid
<1>2. \A u \in listed : Mid2(b, u) \in Nat /\ Mid2(b, u) > 0 BY <1>1 DEF Mid2, Most
<1> DEFINE m == [u \in listed |-> Mid2(b, u)]
<1>3. IsFiniteSet(listed) BY Params, FS_Subset
<1>4. SumFunction(m) \in Nat /\ SumFunction(m) > 0
  <2>1. DOMAIN m = listed /\ \A u \in listed : m[u] \in Nat /\ m[u] > 0 BY <1>2
  <2> HIDE DEF m
  <2> QED BY <1>3, <2>1, SumPositive
<1>5. Mid2(b, t) * One \in Nat BY <1>2, Params
<1>6. Fair(b, t) \in Nat BY <1>4, <1>5, HalfNear DEF Fair
<1>7. BidPrice(b, t) \in Nat /\ 1 <= BidPrice(b, t) /\ BidPrice(b, t) <= One - 2
  BY <1>6, Params DEF BidPrice, Most, Least
<1>8. AskPrice(b, t) \in Nat /\ 2 <= AskPrice(b, t) /\ AskPrice(b, t) <= One - 1
  BY <1>6, <1>7, Params DEF AskPrice, Most, Least
<1> QED BY <1>7, <1>8

-----------------------------------------------------------------------------
LEMMA FewBaskets ==
    ASSUME NEW a \in Accounts
    PROVE  /\ IsFiniteSet(OpenBaskets(a)) /\ DOMAIN a.baskets = 1..Len(a.baskets) /\ Len(a.baskets) \in Nat
           /\ OpenBaskets(a) \subseteq DOMAIN a.baskets
           /\ \A i \in DOMAIN a.baskets : a.baskets[i] \in Baskets
<1>1. a.baskets \in Seq(Baskets) BY DEF Accounts
<1>2. DOMAIN a.baskets = 1..Len(a.baskets) /\ Len(a.baskets) \in Nat BY <1>1
<1>3. \A i \in DOMAIN a.baskets : a.baskets[i] \in Baskets BY <1>1
<1>4. OpenBaskets(a) \subseteq DOMAIN a.baskets BY DEF OpenBaskets
<1>5. IsFiniteSet(1..Len(a.baskets)) BY <1>2, FS_Interval
<1> QED BY <1>2, <1>3, <1>4, <1>5, FS_Subset

(* What the open positions cost is a number. *)
LEMMA CostsTyped ==
    ASSUME NEW a \in Accounts
    PROVE  /\ SumFunction([t \in Tokens |-> a.inv[t].cost]) \in Int
           /\ SumFunction([i \in OpenBaskets(a) |-> a.baskets[i].cost]) \in Int
           /\ OpenCost(a) \in Int
<1> DEFINE f == [t \in Tokens |-> a.inv[t].cost]
           g == [i \in OpenBaskets(a) |-> a.baskets[i].cost]
<1>1. SumFunction(f) \in Int
  <2>1. DOMAIN f = Tokens /\ \A t \in Tokens : f[t] \in Int BY DEF Accounts, Holdings
  <2> HIDE DEF f
  <2> QED BY <2>1, Params, SumInt DEF SumFunction
<1>2. SumFunction(g) \in Int
  <2>1. DOMAIN g = OpenBaskets(a) /\ \A i \in OpenBaskets(a) : g[i] \in Int
    BY FewBaskets DEF Baskets
  <2>2. IsFiniteSet(OpenBaskets(a)) BY FewBaskets
  <2> HIDE DEF g
  <2> QED BY <2>1, <2>2, SumInt DEF SumFunction
<1>3. OpenCost(a) = SumFunction(f) + SumFunction(g) BY DEF OpenCost
<1> HIDE DEF f, g
<1>4. OpenCost(a) \in Int BY <1>1, <1>2, <1>3
<1> QED BY <1>1, <1>2, <1>4 DEF f, g

(* A fill moves the cost of its token alone. *)
LEMMA CostMoves ==
    ASSUME NEW a \in Accounts, NEW b \in Accounts, NEW t \in Tokens, b.baskets = a.baskets,
           \A u \in Tokens : u # t => b.inv[u] = a.inv[u]
    PROVE  OpenCost(b) = OpenCost(a) - a.inv[t].cost + b.inv[t].cost
<1> DEFINE f == [u \in Tokens |-> a.inv[u].cost]
           g == [u \in Tokens |-> b.inv[u].cost]
           k == SumFunction([i \in OpenBaskets(a) |-> a.baskets[i].cost])
<1>1. OpenCost(a) = SumFunction(f) + k BY DEF OpenCost
<1>2. OpenBaskets(b) = OpenBaskets(a) BY DEF OpenBaskets
<1>3. OpenCost(b) = SumFunction(g) + k BY <1>2 DEF OpenCost
<1>4. k \in Int BY CostsTyped
<1>5. DOMAIN f = Tokens /\ DOMAIN g = Tokens /\ f[t] = a.inv[t].cost /\ g[t] = b.inv[t].cost
      /\ \A u \in Tokens : f[u] \in Int /\ g[u] \in Int /\ (u # t => f[u] = g[u])
  BY DEF Accounts, Holdings
<1> HIDE DEF f, g, k
<1>6. SumFunctionOnSet(g, Tokens) = SumFunctionOnSet(f, Tokens) - f[t] + g[t]
  BY <1>5, Params, SumChange
<1>7. SumFunctionOnSet(f, Tokens) \in Int /\ SumFunctionOnSet(g, Tokens) \in Int
  BY <1>5, Params, SumInt
<1>8. SumFunction(f) = SumFunctionOnSet(f, Tokens) /\ SumFunction(g) = SumFunctionOnSet(g, Tokens)
  BY <1>5 DEF SumFunction
<1>9. f[t] \in Int /\ g[t] \in Int BY <1>5
<1> QED BY <1>1, <1>3, <1>4, <1>5, <1>6, <1>7, <1>8, <1>9

(* A fill that keeps the books: what it takes of the cash or adds to the profit is what the *)
(* token's cost moves by.                                                                   *)
LEMMA FillSound ==
    ASSUME NEW a, Sound(a), NEW t \in Tokens, NEW c \in Int, NEW z \in Int, NEW h \in Holdings,
           c + h.cost - a.inv[t].cost - a.cash = z - a.realized,
           2 * c + One >= 0, 2 * h.cost <= 2 * InvCap + One
    PROVE  Sound([a EXCEPT !.cash = c, !.realized = z, !.inv[t] = h, !.trades = @ + 1])
<1> DEFINE b == [a EXCEPT !.cash = c, !.realized = z, !.inv[t] = h, !.trades = @ + 1]
<1>1. a \in Accounts BY DEF Sound
<1>2. a.inv \in [Tokens -> Holdings] /\ a.cash \in Int /\ a.realized \in Int /\ a.trades \in Nat
      /\ a.baskets \in Seq(Baskets)
  BY <1>1 DEF Accounts
<1>3. b = [cash |-> c, realized |-> z, inv |-> [a.inv EXCEPT ![t] = h], baskets |-> a.baskets,
           trades |-> a.trades + 1]
  <2> DEFINE X == [Tokens -> Holdings]
             Y == Seq(Baskets)
  <2>1. a \in [cash : Int, realized : Int, inv : X, baskets : Y, trades : Nat] BY <1>1 DEF Accounts
  <2> DEFINE J == [a.inv EXCEPT ![t] = h]
             m == a.trades + 1
  <2>2. b = [a EXCEPT !.cash = c, !.realized = z, !.inv = J, !.trades = m] BY <2>1
  <2> HIDE DEF X, Y, J, m, b
  <2>3. b = [cash |-> c, realized |-> z, inv |-> J, baskets |-> a.baskets, trades |-> m]
    BY <2>1, <2>2
  <2> QED BY <2>3 DEF J, m
<1> DEFINE J == [a.inv EXCEPT ![t] = h]
<1>4. J \in [Tokens -> Holdings] BY <1>2
<1>5. b.cash = c /\ b.realized = z /\ b.baskets = a.baskets BY <1>3
<1>6. b.inv[t] = h /\ \A u \in Tokens : u # t => b.inv[u] = a.inv[u] BY <1>2, <1>3
<1>7. b \in Accounts
  <2>1. b = [cash |-> c, realized |-> z, inv |-> J, baskets |-> a.baskets, trades |-> a.trades + 1]
    BY <1>3
  <2> DEFINE L == a.baskets
             m == a.trades + 1
  <2>2. m \in Nat /\ L \in Seq(Baskets) BY <1>2
  <2>3. b = [cash |-> c, realized |-> z, inv |-> J, baskets |-> L, trades |-> m] BY <2>1
  <2> HIDE DEF b, J, L, m
  <2> QED BY <1>4, <2>2, <2>3 DEF Accounts
<1> HIDE DEF b
<1>8. OpenCost(b) = OpenCost(a) - a.inv[t].cost + b.inv[t].cost BY <1>1, <1>5, <1>6, <1>7, CostMoves
<1>9. OpenCost(a) \in Int /\ OpenCost(b) \in Int BY <1>1, <1>7, CostsTyped
<1>10. a.inv[t].cost \in Int /\ h.cost \in Int BY <1>2 DEF Holdings
<1>11. a.cash + OpenCost(a) = Capital + a.realized BY DEF Sound, Explained
<1>12. b.cash + OpenCost(b) = Capital + b.realized
  <2> DEFINE u == OpenCost(a)
             v == OpenCost(b)
             x == a.inv[t].cost
             y == h.cost
             m == a.cash
             n == a.realized
  <2>1. v = u - x + y BY <1>6, <1>8
  <2>2. m + u = Capital + n BY <1>11
  <2>3. u \in Int /\ v \in Int /\ x \in Int /\ y \in Int /\ m \in Int /\ n \in Int
    BY <1>2, <1>9, <1>10
  <2>4. c + y - x - m = z - n OBVIOUS
  <2> HIDE DEF u, v, x, y, m, n
  <2>5. c + v = Capital + z BY <2>1, <2>2, <2>3, <2>4, Params
  <2> QED BY <1>5, <2>5 DEF v
<1>13. Funded(b) BY <1>5 DEF Funded
<1>14. Capped(b) BY <1>6 DEF Capped, Sound
<1>15. OneBasket(b) BY <1>5 DEF OneBasket, OpenBaskets, Sound
<1>16. WorthIt(b) BY <1>5 DEF WorthIt, Sound
<1>17. Sound(b) BY <1>7, <1>12, <1>13, <1>14, <1>15, <1>16 DEF Sound, Explained
<1> QED BY <1>17 DEF b

(* A quote the bids reach sells what is there. *)
LEMMA AskFillSound ==
    ASSUME listed \subseteq Tokens, NEW a, Sound(a), NEW b \in Books, NEW t \in listed
    PROVE  Sound(AskFill(a, b, t))
<1> DEFINE i == a.inv[t]
           p == AskPrice(b, t)
           n == Sold(i, p)
           k == CostOf(i, n)
<1>1. AskFill(a, b, t) = IF i.shares < 1 \/ Bid(b, t) < p \/ n < 1 THEN a
        ELSE [a EXCEPT !.cash = @ + n * p, !.realized = @ + n * p - k,
                       !.inv[t] = [shares |-> i.shares - n, cost |-> i.cost - k],
                       !.trades = @ + 1]
  BY DEF AskFill
<1>2. t \in Tokens /\ a \in Accounts /\ i.shares \in Nat /\ i.cost \in Nat /\ a.cash \in Int /\ a.realized \in Int
  BY DEF Sound, Accounts, Holdings
<1>3. p \in Nat /\ p >= 2 BY PricesInside
<1>4. Half(QuoteSize, p) \in Nat
  <2> HIDE DEF p
  <2> QED BY <1>3, Params, HalfNear
<1>5. n \in Nat /\ n <= i.shares BY <1>2, <1>4, Params DEF Sold, Least
<1>6. 2 * a.cash + One >= 0 /\ 2 * i.cost <= 2 * InvCap + One BY <1>2 DEF Sound, Funded, Capped
<1> HIDE DEF i, p, n
<1>7. CASE i.shares < 1 \/ Bid(b, t) < p \/ n < 1 BY <1>1, <1>7
<1>8. CASE ~(i.shares < 1 \/ Bid(b, t) < p \/ n < 1)
  <2>1. n * i.cost \in Nat /\ n * i.cost <= i.cost * i.shares BY <1>2, <1>5
  <2>2. i.shares > 0 BY <1>8, <1>2
  <2>3. k \in Nat /\ k <= i.cost BY <1>2, <2>1, <2>2, HalfNear, HalfWithin DEF CostOf
  <2> DEFINE h == [shares |-> i.shares - n, cost |-> i.cost - k]
             c == a.cash + n * p
             z == a.realized + n * p - k
  <2>4. h \in Holdings /\ h.cost = i.cost - k
    <3> HIDE DEF k
    <3> QED BY <1>2, <1>5, <2>3 DEF Holdings
  <2>5. n * p \in Nat BY <1>3, <1>5
  <2>6. c \in Int /\ z \in Int
    <3> HIDE DEF k, h
    <3> QED BY <1>2, <2>3, <2>5
  <2>7. 2 * c + One >= 0
    <3> HIDE DEF k, h, z
    <3> QED BY <1>2, <1>6, <2>5, Params
  <2>8. 2 * h.cost <= 2 * InvCap + One
    <3> HIDE DEF k, h, z, c
    <3> QED BY <1>2, <1>6, <2>3, <2>4, Params
  <2>9. c + h.cost - a.inv[t].cost - a.cash = z - a.realized
    <3>1. a.inv[t].cost = i.cost BY DEF i
    <3> HIDE DEF k, h
    <3> QED BY <1>2, <2>3, <2>4, <2>5, <3>1
  <2>10. AskFill(a, b, t) = [a EXCEPT !.cash = c, !.realized = z, !.inv[t] = h, !.trades = @ + 1]
    BY <1>1, <1>8
  <2> HIDE DEF k, h, z, c
  <2>11. Sound([a EXCEPT !.cash = c, !.realized = z, !.inv[t] = h, !.trades = @ + 1])
    BY <1>2, <2>4, <2>6, <2>7, <2>8, <2>9, FillSound
  <2> QED BY <2>10, <2>11
<1> QED BY <1>7, <1>8

(* A quote the asks reach buys with what is left of the cash and of the cap. *)
LEMMA BidFillSound ==
    ASSUME listed \subseteq Tokens, NEW a, Sound(a), NEW b \in Books, NEW t \in listed
    PROVE  Sound(BidFill(a, b, t))
<1> DEFINE i == a.inv[t]
           p == BidPrice(b, t)
           w == Purse(a, t)
           n == Half(w, p)
           h == [shares |-> i.shares + n, cost |-> i.cost + n * p]
           c == a.cash - n * p
           Kept == i.cost >= InvCap \/ a.cash < MinMakerCash
                   \/ Ask(b, t) = 0 \/ Ask(b, t) > p \/ n < 1
<1>1. t \in Tokens /\ a \in Accounts /\ i \in Holdings /\ i.shares \in Nat /\ i.cost \in Nat
      /\ a.cash \in Int /\ a.realized \in Int
  BY DEF Sound, Accounts, Holdings
<1>2. BidFill(a, b, t) = IF Kept THEN a
        ELSE [a EXCEPT !.cash = c, !.inv[t] = [shares |-> @.shares + n, cost |-> @.cost + n * p],
                       !.trades = @ + 1]
  BY DEF BidFill
<1>3. [a EXCEPT !.cash = c, !.inv[t] = [shares |-> @.shares + n, cost |-> @.cost + n * p],
                !.trades = @ + 1]
      = [a EXCEPT !.cash = c, !.realized = a.realized, !.inv[t] = h, !.trades = @ + 1]
  BY <1>1 DEF Accounts
<1>4. p \in Nat /\ 1 <= p /\ p <= One - 2 BY PricesInside
<1>5. CASE Kept
  <2> HIDE DEF Kept
  <2> QED BY <1>2, <1>5
<1>6. CASE ~Kept
  <2>1. w \in Nat /\ w <= InvCap - i.cost /\ w <= a.cash
    BY <1>1, <1>6, Params DEF Purse, Least
  <2> HIDE DEF w, p
  <2>2. n \in Nat /\ 2 * (n * p) <= 2 * w + p BY <1>4, <2>1, HalfNear
  <2> HIDE DEF n, i
  <2>3. n * p \in Nat BY <1>4, <2>2
  <2>4. h \in Holdings /\ h.cost = i.cost + n * p BY <1>1, <2>2, <2>3 DEF Holdings
  <2>5. c \in Int BY <1>1, <2>3
  <2> DEFINE x == n * p
  <2> HIDE DEF h, Kept
  <2>6. 2 * x <= 2 * w + p /\ x \in Nat /\ c = a.cash - x /\ h.cost = i.cost + x BY <2>2, <2>3, <2>4
  <2> HIDE DEF x, c
  <2>7. 2 * c + One >= 0 BY <1>1, <1>4, <2>1, <2>5, <2>6, Params
  <2>8. 2 * h.cost <= 2 * InvCap + One BY <1>1, <1>4, <2>1, <2>6, Params
  <2>9. c + h.cost - a.inv[t].cost - a.cash = a.realized - a.realized
    <3>1. a.inv[t].cost = i.cost BY DEF i
    <3> QED BY <1>1, <2>6, <3>1
  <2>10. Sound([a EXCEPT !.cash = c, !.realized = a.realized, !.inv[t] = h, !.trades = @ + 1])
    BY <1>1, <2>4, <2>5, <2>7, <2>8, <2>9, FillSound
  <2> QED BY <1>2, <1>3, <1>6, <2>10
<1> QED BY <1>5, <1>6

-----------------------------------------------------------------------------
(* A sum over the listed tokens. *)
LEMMA ListedSum ==
    ASSUME listed \subseteq Tokens, listed # {}, NEW f, DOMAIN f = listed,
           \A t \in listed : f[t] \in Nat /\ f[t] > 0
    PROVE  SumFunction(f) \in Nat /\ SumFunction(f) > 0
<1>1. IsFiniteSet(listed) BY Params, FS_Subset
<1> QED BY <1>1, SumPositive

(* A basket bought by a sound account that has none open, for no more than its stake and a  *)
(* half of what one share costs, and worth more than its hurdle.                            *)
LEMMA WithBasketSound ==
    ASSUME NEW a, Sound(a), OpenBaskets(a) = {}, NEW p \in Baskets, p.open = TRUE,
           2 * p.cost <= 2 * a.cash + One, p.payout - p.cost > Hurdle * p.shares
    PROVE  Sound([a EXCEPT !.cash = @ - p.cost, !.baskets = Append(@, p), !.trades = @ + 1])
<1> DEFINE b == [a EXCEPT !.cash = @ - p.cost, !.baskets = Append(@, p), !.trades = @ + 1]
           c == a.cash - p.cost
           L == Append(a.baskets, p)
           m == a.trades + 1
           n == Len(a.baskets)
<1>1. a \in Accounts BY DEF Sound
<1>2. /\ a.inv \in [Tokens -> Holdings] /\ a.cash \in Int /\ a.realized \in Int /\ a.trades \in Nat
      /\ a.baskets \in Seq(Baskets) /\ p.cost \in Nat /\ n \in Nat
  BY <1>1 DEF Accounts, Baskets
<1>3. /\ L \in Seq(Baskets) /\ Len(L) = n + 1 /\ L[n + 1] = p /\ DOMAIN L = 1..(n + 1)
      /\ \A i \in 1..n : L[i] = a.baskets[i]
  BY <1>2
<1>4. c \in Int /\ m \in Nat BY <1>2
<1>5. b = [cash |-> c, realized |-> a.realized, inv |-> a.inv, baskets |-> L, trades |-> m]
  <2> DEFINE X == [Tokens -> Holdings]
             Y == Seq(Baskets)
  <2>1. a \in [cash : Int, realized : Int, inv : X, baskets : Y, trades : Nat] BY <1>1 DEF Accounts
  <2>2. b = [a EXCEPT !.cash = c, !.baskets = L, !.trades = m] BY <2>1
  <2> HIDE DEF X, Y, c, L, m, b
  <2> QED BY <2>1, <2>2
<1>6. b \in Accounts
  <2> DEFINE I == a.inv
             z == a.realized
  <2>1. b = [cash |-> c, realized |-> z, inv |-> I, baskets |-> L, trades |-> m] BY <1>5
  <2>2. I \in [Tokens -> Holdings] /\ z \in Int BY <1>2
  <2> HIDE DEF b, c, L, m, I, z
  <2> QED BY <1>3, <1>4, <2>1, <2>2 DEF Accounts
<1>7. b.cash = c /\ b.realized = a.realized /\ b.inv = a.inv /\ b.baskets = L BY <1>5
<1> HIDE DEF b
<1>8. \A i \in 1..n : ~a.baskets[i].open
  <2>1. DOMAIN a.baskets = 1..n BY <1>2
  <2> QED BY <2>1 DEF OpenBaskets
<1>9. OpenBaskets(b) = {n + 1}
  <2>1. \A i \in DOMAIN b.baskets : b.baskets[i].open <=> i = n + 1
    <3>1. SUFFICES ASSUME NEW i \in 1..(n + 1) PROVE L[i].open <=> i = n + 1 BY <1>3, <1>7
    <3>2. CASE i = n + 1 BY <1>3, <3>2
    <3>3. CASE i # n + 1
      <4>1. i \in 1..n BY <1>2, <3>3
      <4> QED BY <1>3, <1>8, <3>3, <4>1
    <3> QED BY <3>2, <3>3
  <2>2. n + 1 \in DOMAIN b.baskets BY <1>2, <1>3, <1>7
  <2> QED BY <2>1, <2>2 DEF OpenBaskets
<1>10. OneBasket(b) BY <1>9 DEF OneBasket
<1>11. Capped(b) BY <1>7 DEF Capped, Sound
<1>12. Funded(b)
  <2>1. p.cost \in Int /\ a.cash \in Int BY <1>2
  <2>2. 2 * c + One >= 0 BY <2>1, Params
  <2> QED BY <1>7, <2>2 DEF Funded
<1>13. WorthIt(b)
  <2>1. SUFFICES ASSUME NEW i \in 1..(n + 1) PROVE L[i].payout - L[i].cost > Hurdle * L[i].shares
    BY <1>3, <1>7 DEF WorthIt
  <2>2. CASE i = n + 1 BY <1>3, <2>2
  <2>3. CASE i # n + 1
    <3>1. i \in 1..n /\ i \in DOMAIN a.baskets BY <1>2, <2>3
    <3>2. L[i] = a.baskets[i] BY <1>3, <3>1
    <3> QED BY <3>1, <3>2 DEF Sound, WorthIt
  <2> QED BY <2>2, <2>3
<1>14. Explained(b)
  <2> DEFINE f == [i \in OpenBaskets(a) |-> a.baskets[i].cost]
             g == [i \in OpenBaskets(b) |-> b.baskets[i].cost]
             k == SumFunction([t \in Tokens |-> a.inv[t].cost])
  <2>1. OpenCost(a) = k + SumFunction(f) BY DEF OpenCost
  <2>2. OpenCost(b) = k + SumFunction(g) BY <1>7 DEF OpenCost
  <2>3. k \in Int BY <1>1, CostsTyped
  <2>4. SumFunction(f) = 0
    <3>1. DOMAIN f = {} OBVIOUS
    <3> HIDE DEF f
    <3> QED BY <3>1, SumEmpty DEF SumFunction
  <2>5. SumFunction(g) = p.cost
    <3>1. DOMAIN g = {n + 1} /\ g[n + 1] = p.cost BY <1>3, <1>7, <1>9
    <3> HIDE DEF g, n
    <3>2. IsFiniteSet({n + 1}) BY FS_Singleton
    <3>3. SumFunctionOnSet(g, {n + 1}) = g[n + 1] + SumFunctionOnSet(g, {n + 1} \ {n + 1})
      BY <1>2, <3>1, <3>2, SumWithout
    <3>4. {n + 1} \ {n + 1} = {} OBVIOUS
    <3>5. SumFunctionOnSet(g, {n + 1}) = g[n + 1] + 0 BY <3>3, <3>4, SumEmpty
    <3> QED BY <1>2, <3>1, <3>5 DEF SumFunction
  <2> HIDE DEF f, g, k
  <2>6. a.cash + k = Capital + a.realized BY <2>1, <2>3, <2>4 DEF Sound, Explained
  <2>7. c + (k + p.cost) = a.cash + k BY <1>2, <2>3
  <2> QED BY <1>7, <2>2, <2>5, <2>6, <2>7 DEF Explained
<1>15. Sound(b) BY <1>6, <1>10, <1>11, <1>12, <1>13, <1>14 DEF Sound
<1> QED BY <1>15 DEF b

(* Opening a basket, or not. *)
LEMMA OpenedSound ==
    ASSUME listed \subseteq Tokens, listed # {}, NEW a, Sound(a), NEW b \in Books
    PROVE  Sound(Opened(a, b))
<1>1. a \in Accounts /\ a.cash \in Int BY DEF Sound, Accounts
<1>2. ASSUME MayOpen(a)
      PROVE  OpenBaskets(a) = {} /\ Stake(a) \in Nat /\ Stake(a) <= a.cash
  BY <1>1, <1>2, Params DEF MayOpen, Stake, Least
<1>3. ASSUME MayOpen(a), Long(b) PROVE Sound(WithBasket(a, LongBasket(a, b)))
  <2> DEFINE s == SumAsk(b)
             n == Half(Stake(a), s)
             p == LongBasket(a, b)
             f == [t \in listed |-> Ask(b, t)]
  <2>1. DOMAIN f = listed /\ \A t \in listed : f[t] \in Nat /\ f[t] > 0
    BY <1>3, AccountAssumption DEF Long, Ask
  <2>2. s \in Nat /\ s > 0
    <3> HIDE DEF f
    <3>1. SumFunction(f) \in Nat /\ SumFunction(f) > 0 BY <2>1, ListedSum
    <3> QED BY <3>1 DEF SumAsk, f
  <2>3. s < One - Hurdle BY <1>3 DEF Long
  <2>4. p = [open |-> TRUE, shares |-> n, cost |-> n * s, payout |-> n * One] BY DEF LongBasket
  <2> HIDE DEF s, f
  <2>5. n \in Nat /\ 2 * (n * s) <= 2 * Stake(a) + s BY <1>2, <1>3, <2>2, HalfNear
  <2> HIDE DEF n, p
  <2>6. CASE p.payout <= p.cost \/ p.cost <= 0 BY <2>6 DEF WithBasket, p
  <2>7. CASE ~(p.payout <= p.cost \/ p.cost <= 0)
    <3>1. n * s \in Nat /\ n * One \in Nat BY <2>2, <2>5, Params
    <3>2. n # 0
      <4>1. SUFFICES ASSUME n = 0 PROVE FALSE OBVIOUS
      <4>2. n * s = 0 BY <2>2, <4>1
      <4> QED BY <2>4, <2>7, <3>1, <4>2
    <3>3. p \in Baskets /\ p.open = TRUE /\ p.cost = n * s /\ p.shares = n /\ p.payout = n * One
      BY <2>4, <2>5, <3>1, <3>2 DEF Baskets
    <3>4. 2 * p.cost <= 2 * a.cash + One
      <4> DEFINE x == n * s
                 y == Stake(a)
      <4>1. 2 * x <= 2 * y + s /\ x \in Nat /\ y \in Nat /\ y <= a.cash BY <1>2, <1>3, <2>5, <3>1
      <4> HIDE DEF x, y
      <4>2. 2 * x <= 2 * a.cash + One BY <1>1, <2>2, <2>3, <4>1, Params
      <4> QED BY <3>3, <4>2 DEF x
    <3>5. p.payout - p.cost > Hurdle * p.shares
      <4>1. n * One - n * s = n * (One - s) BY <2>2, <2>5, Params
      <4>2. n * (One - s) > n * Hurdle BY <2>2, <2>3, <2>5, <3>2, Params
      <4>3. n * Hurdle = Hurdle * n BY <2>5, Params
      <4> QED BY <3>3, <4>1, <4>2, <4>3
    <3>6. Sound([a EXCEPT !.cash = @ - p.cost, !.baskets = Append(@, p), !.trades = @ + 1])
      BY <1>2, <1>3, <3>3, <3>4, <3>5, WithBasketSound
    <3>7. WithBasket(a, p) = [a EXCEPT !.cash = @ - p.cost, !.baskets = Append(@, p), !.trades = @ + 1]
      BY <2>7 DEF WithBasket
    <3> QED BY <3>6, <3>7 DEF p
  <2> QED BY <2>6, <2>7
<1>4. ASSUME MayOpen(a), Short(b) PROVE Sound(WithBasket(a, ShortBasket(a, b)))
  <2> DEFINE s == SumBid(b)
             n == Half(Stake(a), One)
             p == ShortBasket(a, b)
             f == [t \in listed |-> Bid(b, t)]
  <2>1. DOMAIN f = listed /\ \A t \in listed : f[t] \in Nat /\ f[t] > 0
    BY <1>4, AccountAssumption DEF Short, Bid
  <2>2. s \in Nat
    <3> HIDE DEF f
    <3>1. SumFunction(f) \in Nat /\ SumFunction(f) > 0 BY <2>1, ListedSum
    <3> QED BY <3>1 DEF SumBid, f
  <2>3. s > One + Hurdle BY <1>4 DEF Short
  <2>4. p = [open |-> TRUE, shares |-> n, cost |-> n * One, payout |-> n * s] BY DEF ShortBasket
  <2> HIDE DEF s, f
  <2>5. n \in Nat /\ 2 * (n * One) <= 2 * Stake(a) + One BY <1>2, <1>4, Params, HalfNear
  <2> HIDE DEF n, p
  <2>6. CASE p.payout <= p.cost \/ p.cost <= 0 BY <2>6 DEF WithBasket, p
  <2>7. CASE ~(p.payout <= p.cost \/ p.cost <= 0)
    <3>1. n * s \in Nat /\ n * One \in Nat BY <2>2, <2>5, Params
    <3>2. n # 0
      <4>1. SUFFICES ASSUME n = 0 PROVE FALSE OBVIOUS
      <4>2. n * One = 0 BY Params, <4>1
      <4> QED BY <2>4, <2>7, <3>1, <4>2
    <3>3. p \in Baskets /\ p.open = TRUE /\ p.cost = n * One /\ p.shares = n /\ p.payout = n * s
      BY <2>4, <2>5, <3>1, <3>2 DEF Baskets
    <3>4. 2 * p.cost <= 2 * a.cash + One
      <4> DEFINE x == n * One
                 y == Stake(a)
      <4>1. 2 * x <= 2 * y + One /\ x \in Nat /\ y \in Nat /\ y <= a.cash BY <1>2, <1>4, <2>5, <3>1
      <4> HIDE DEF x, y
      <4>2. 2 * x <= 2 * a.cash + One BY <1>1, <4>1, Params
      <4> QED BY <3>3, <4>2 DEF x
    <3>5. p.payout - p.cost > Hurdle * p.shares
      <4>1. n * s - n * One = n * (s - One) BY <2>2, <2>5, Params
      <4>2. n * (s - One) > n * Hurdle BY <2>2, <2>3, <2>5, <3>2, Params
      <4>3. n * Hurdle = Hurdle * n BY <2>5, Params
      <4> QED BY <3>3, <4>1, <4>2, <4>3
    <3>6. Sound([a EXCEPT !.cash = @ - p.cost, !.baskets = Append(@, p), !.trades = @ + 1])
      BY <1>2, <1>4, <3>3, <3>4, <3>5, WithBasketSound
    <3>7. WithBasket(a, p) = [a EXCEPT !.cash = @ - p.cost, !.baskets = Append(@, p), !.trades = @ + 1]
      BY <2>7 DEF WithBasket
    <3> QED BY <3>6, <3>7 DEF p
  <2> QED BY <2>6, <2>7
<1>5. CASE ~MayOpen(a) BY <1>5 DEF Opened
<1>6. CASE MayOpen(a)
  <2>1. CASE Long(b) BY <1>3, <1>6, <2>1 DEF Opened
  <2>2. CASE ~Long(b) /\ Short(b) BY <1>4, <1>6, <2>2 DEF Opened
  <2>3. CASE ~Long(b) /\ ~Short(b) BY <1>6, <2>3 DEF Opened
  <2> QED BY <2>1, <2>2, <2>3
<1> QED BY <1>5, <1>6

-----------------------------------------------------------------------------
(* The plan quotes listed tokens. *)
LEMMA PlanListed ==
    ASSUME listed \subseteq Tokens
    PROVE  Cardinality(listed) \in Nat /\ \A k \in 1..Cardinality(listed) : PlanOrder[k] \in listed
<1>1. IsFiniteSet(listed) BY Params, FS_Subset
<1>2. Cardinality(listed) \in Nat /\ ExistsBijection(1..Cardinality(listed), listed)
  BY <1>1, FS_CardinalityType
<1> DEFINE c == Cardinality(listed)
<1>3. \E f \in [1..c -> listed] : IsInjective(f)
  <2>1. PICK f : f \in Bijection(1..c, listed) BY <1>2 DEF ExistsBijection
  <2>2. f \in [1..c -> listed] /\ IsInjective(f)
    BY <2>1 DEF Bijection, Injection, IsInjective
  <2> QED BY <2>2
<1>4. PlanOrder \in [1..c -> listed]
  <2>1. PlanOrder = CHOOSE f \in [1..c -> listed] : IsInjective(f) BY DEF PlanOrder, SetToSeq
  <2> HIDE DEF c
  <2> QED BY <1>3, <2>1
<1> QED BY <1>2, <1>4

(* The course of an account over the first n quotes of the plan. *)
Course(P, a, b, n) ==
    P = [k \in 0..n |-> IF k = 0 THEN a
                        ELSE LET t == PlanOrder[k] IN BidFill(AskFill(P[k - 1], b, t), b, t)]
Step(a, b, k) == BidFill(AskFill(a, b, PlanOrder[k]), b, PlanOrder[k])

LEMMA CourseExists ==
    ASSUME NEW a, NEW b, NEW n \in Nat
    PROVE  \E P : Course(P, a, b, n)
<1> DEFINE Has(m) == \E P : P = [k \in 0..m |-> IF k = 0 THEN a ELSE Step(P[k - 1], b, k)]
           T == {m \in Nat : ~Has(m)}
<1>1. Has(0)
  <2> DEFINE P == [k \in 0..0 |-> a]
  <2>1. P = [k \in 0..0 |-> IF k = 0 THEN a ELSE Step(P[k - 1], b, k)] OBVIOUS
  <2> HIDE DEF P
  <2> QED BY <2>1
<1>2. ASSUME NEW m \in Nat, m # 0, Has(m - 1) PROVE Has(m)
  <2>1. PICK Q : Q = [k \in 0..(m - 1) |-> IF k = 0 THEN a ELSE Step(Q[k - 1], b, k)]
    BY <1>2
  <2> DEFINE last == Step(Q[m - 1], b, m)
             P == [k \in 0..m |-> IF k = m THEN last ELSE Q[k]]
  <2>2. P = [k \in 0..m |-> P[k]] /\ P[m] = last /\ \A k \in 0..(m - 1) : P[k] = Q[k]
    BY <1>2
  <2>3. Q[0] = a /\ \A k \in 0..(m - 1) : k # 0 => Q[k] = Step(Q[k - 1], b, k)
    <3>1. 0 \in 0..(m - 1) BY <1>2
    <3> QED BY <2>1, <3>1
  <2> HIDE DEF P
  <2>4. ASSUME NEW k \in 0..m PROVE P[k] = IF k = 0 THEN a ELSE Step(P[k - 1], b, k)
    <3>1. CASE k = 0
      <4>1. 0 \in 0..(m - 1) BY <1>2
      <4> QED BY <2>2, <2>3, <3>1, <4>1
    <3>2. CASE k # 0 /\ k = m
      <4>1. m - 1 \in 0..(m - 1) BY <1>2
      <4>2. P[m - 1] = Q[m - 1] BY <2>2, <4>1
      <4> QED BY <2>2, <3>2, <4>2
    <3>3. CASE k # 0 /\ k # m
      <4>1. k \in 0..(m - 1) /\ k - 1 \in 0..(m - 1) BY <3>3
      <4>2. P[k] = Q[k] /\ P[k - 1] = Q[k - 1] BY <2>2, <4>1
      <4>3. Q[k] = Step(Q[k - 1], b, k) BY <2>3, <3>3, <4>1
      <4> QED BY <3>3, <4>2, <4>3
    <3> QED BY <3>1, <3>2, <3>3
  <2>5. P = [k \in 0..m |-> IF k = 0 THEN a ELSE Step(P[k - 1], b, k)] BY <2>2, <2>4
  <2> QED BY <2>5
<1> HIDE DEF Has
<1>3. T = {}
  <2> SUFFICES ASSUME T # {} PROVE FALSE OBVIOUS
  <2>1. T \subseteq Nat OBVIOUS
  <2> HIDE DEF T
  <2>2. PICK m \in T : \A q \in T : m <= q BY <2>1, Lowest
  <2>3. m \in Nat /\ ~Has(m) BY <2>2 DEF T
  <2>4. m # 0 BY <1>1, <2>3
  <2>5. m - 1 \in Nat /\ ~(m <= m - 1) BY <2>3, <2>4
  <2>6. Has(m - 1) BY <2>2, <2>5 DEF T
  <2> QED BY <1>2, <2>3, <2>4, <2>6
<1>4. Has(n) BY <1>3
<1> QED BY <1>4 DEF Has, Course, Step

(* The maker's fills keep an account sound, however many of the quotes come to be filled. *)
LEMMA QuotedSound ==
    ASSUME listed \subseteq Tokens, listed # {}, NEW a, Sound(a), NEW b \in Books,
           NEW n \in 0..Cardinality(listed)
    PROVE  Sound(Quoted(a, b, n))
<1> DEFINE after == CHOOSE P : Course(P, a, b, n)
<1>1. n \in Nat /\ \A k \in 1..n : PlanOrder[k] \in listed BY PlanListed
<1>2. Course(after, a, b, n) BY <1>1, CourseExists
<1>3. Quoted(a, b, n) = IF ~Safe(b) \/ a.cash < MinMakerCash THEN a ELSE after[n]
  BY Zenon DEF Quoted, Course
<1> HIDE DEF after
<1>4. after[0] = a /\ \A k \in 1..n : after[k] = BidFill(AskFill(after[k - 1], b, PlanOrder[k]), b, PlanOrder[k])
  <2>1. \A k \in 0..n : after[k] = IF k = 0 THEN a
            ELSE BidFill(AskFill(after[k - 1], b, PlanOrder[k]), b, PlanOrder[k])
    BY <1>2 DEF Course
  <2> QED BY <1>1, <2>1
<1> DEFINE T == {k \in 0..n : ~Sound(after[k])}
<1>5. T = {}
  <2> SUFFICES ASSUME T # {} PROVE FALSE OBVIOUS
  <2>1. T \subseteq Nat OBVIOUS
  <2> HIDE DEF T
  <2>2. PICK k \in T : \A q \in T : k <= q BY <2>1, Lowest
  <2>3. k \in 0..n /\ ~Sound(after[k]) BY <2>2 DEF T
  <2>4. k # 0 BY <1>4, <2>3
  <2>5. k \in 1..n /\ k - 1 \in 0..n /\ ~(k <= k - 1) BY <1>1, <2>3, <2>4
  <2>6. Sound(after[k - 1]) BY <2>2, <2>5 DEF T
  <2>7. PlanOrder[k] \in listed BY <1>1, <2>5
  <2>8. Sound(AskFill(after[k - 1], b, PlanOrder[k])) BY <2>6, <2>7, AskFillSound
  <2>9. Sound(BidFill(AskFill(after[k - 1], b, PlanOrder[k]), b, PlanOrder[k]))
    BY <2>7, <2>8, BidFillSound
  <2> QED BY <1>4, <2>3, <2>5, <2>9
<1>6. Sound(after[n]) BY <1>1, <1>5
<1> QED BY <1>3, <1>6

-----------------------------------------------------------------------------
(* Settlement: the baskets are paid, whole and once. *)
LEMMA BasketsPaidSound ==
    ASSUME NEW a, Sound(a)
    PROVE  Sound(BasketsPaid(a)) /\ OpenBaskets(BasketsPaid(a)) = {}
<1> DEFINE S == OpenBaskets(a)
           f == [i \in S |-> a.baskets[i].payout]
           g == [i \in S |-> a.baskets[i].payout - a.baskets[i].cost]
           k == [i \in S |-> a.baskets[i].cost]
           x == SumFunction(f)
           y == SumFunction(g)
           b == BasketsPaid(a)
           L == [i \in DOMAIN a.baskets |->
                    IF a.baskets[i].open THEN PayBasket(a.baskets[i]) ELSE a.baskets[i]]
           c == a.cash + x
           z == a.realized + y
           n == Len(a.baskets)
<1>1. a \in Accounts BY DEF Sound
<1>2. /\ a.inv \in [Tokens -> Holdings] /\ a.cash \in Int /\ a.realized \in Int /\ a.trades \in Nat
      /\ a.baskets \in Seq(Baskets) /\ n \in Nat /\ DOMAIN a.baskets = 1..n
  BY <1>1 DEF Accounts
<1>3. IsFiniteSet(S) /\ S \subseteq DOMAIN a.baskets
      /\ \A i \in S : a.baskets[i].payout \in Nat /\ a.baskets[i].cost \in Nat
  BY <1>1, FewBaskets DEF Baskets
<1>4. x \in Nat
  <2>1. DOMAIN f = S /\ \A i \in S : f[i] \in Nat BY <1>3
  <2> HIDE DEF f, S
  <2> QED BY <1>3, <2>1, SumNat DEF SumFunction
<1>5. y \in Int /\ SumFunction(k) \in Int /\ x = y + SumFunction(k)
  <2>1. DOMAIN f = S /\ DOMAIN g = S /\ DOMAIN k = S
        /\ \A i \in S : g[i] \in Int /\ k[i] \in Int /\ f[i] = g[i] + k[i]
    BY <1>3
  <2> HIDE DEF f, g, k, S
  <2>2. SumFunctionOnSet(f, S) = SumFunctionOnSet(g, S) + SumFunctionOnSet(k, S)
    BY <1>3, <2>1, SumPlus
  <2>3. SumFunctionOnSet(g, S) \in Int /\ SumFunctionOnSet(k, S) \in Int BY <1>3, <2>1, SumInt
  <2> QED BY <2>1, <2>2, <2>3 DEF SumFunction
<1>6. b = [cash |-> c, realized |-> z, inv |-> a.inv, baskets |-> L, trades |-> a.trades]
  <2> DEFINE X == [Tokens -> Holdings]
             Y == Seq(Baskets)
  <2>1. a \in [cash : Int, realized : Int, inv : X, baskets : Y, trades : Nat] BY <1>1 DEF Accounts
  <2>2. b = [a EXCEPT !.cash = c, !.realized = z, !.baskets = L] BY <2>1 DEF BasketsPaid
  <2> HIDE DEF X, Y, c, z, L, b
  <2> QED BY <2>1, <2>2
<1>7. /\ DOMAIN L = 1..n
      /\ \A i \in 1..n : /\ L[i] \in Baskets /\ L[i].open = FALSE
                         /\ L[i].payout = a.baskets[i].payout /\ L[i].cost = a.baskets[i].cost
                         /\ L[i].shares = a.baskets[i].shares
  <2>1. DOMAIN L = 1..n BY <1>2
  <2>2. ASSUME NEW i \in 1..n
        PROVE  /\ L[i] \in Baskets /\ L[i].open = FALSE
               /\ L[i].payout = a.baskets[i].payout /\ L[i].cost = a.baskets[i].cost
               /\ L[i].shares = a.baskets[i].shares
    <3> DEFINE p == a.baskets[i]
    <3>1. p \in Baskets BY <1>2
    <3>2. L[i] = IF p.open THEN PayBasket(p) ELSE p BY <1>2
    <3> HIDE DEF L, p
    <3>3. CASE p.open
      <4>1. L[i] = [p EXCEPT !.open = FALSE] BY <3>2, <3>3 DEF PayBasket
      <4>2. L[i] \in Baskets /\ L[i].open = FALSE /\ L[i].payout = p.payout /\ L[i].cost = p.cost
            /\ L[i].shares = p.shares
        BY <3>1, <4>1 DEF Baskets
      <4> QED BY <4>2 DEF p
    <3>4. CASE ~p.open
      <4>1. L[i] = p /\ p.open = FALSE BY <3>1, <3>2, <3>4 DEF Baskets
      <4> QED BY <3>1, <4>1 DEF p
    <3> QED BY <3>3, <3>4
  <2> HIDE DEF L
  <2> QED BY <2>1, <2>2
<1>8. L \in Seq(Baskets)
  <2>1. L = [i \in 1..n |-> L[i]] BY <1>2
  <2>2. n \in Nat BY <1>2
  <2> HIDE DEF L, n
  <2>3. L \in [1..n -> Baskets] BY <1>7, <2>1
  <2> QED BY <2>2, <2>3
<1>9. c \in Int /\ z \in Int BY <1>2, <1>4, <1>5
<1>10. b \in Accounts
  <2> DEFINE I == a.inv
             m == a.trades
  <2>1. b = [cash |-> c, realized |-> z, inv |-> I, baskets |-> L, trades |-> m] BY <1>6
  <2>2. I \in [Tokens -> Holdings] /\ m \in Nat BY <1>2
  <2> HIDE DEF b, c, L, m, I, z
  <2> QED BY <1>8, <1>9, <2>1, <2>2 DEF Accounts
<1>11. b.cash = c /\ b.realized = z /\ b.inv = a.inv /\ b.baskets = L BY <1>6
<1> HIDE DEF b, L
<1>12. OpenBaskets(b) = {} BY <1>7, <1>11 DEF OpenBaskets
<1>13. OneBasket(b) BY <1>12 DEF OneBasket
<1>14. Capped(b) BY <1>11 DEF Capped, Sound
<1>15. Funded(b)
  <2>1. 2 * a.cash + One >= 0 BY DEF Sound, Funded
  <2> HIDE DEF x
  <2>2. 2 * c + One >= 0 BY <1>2, <1>4, <2>1, Params
  <2> QED BY <1>11, <2>2 DEF Funded
<1>16. WorthIt(b)
  <2>1. SUFFICES ASSUME NEW i \in 1..n PROVE L[i].payout - L[i].cost > Hurdle * L[i].shares
    BY <1>7, <1>11 DEF WorthIt
  <2>2. i \in DOMAIN a.baskets BY <1>2
  <2>3. a.baskets[i].payout - a.baskets[i].cost > Hurdle * a.baskets[i].shares
    BY <2>2 DEF Sound, WorthIt
  <2> QED BY <1>7, <2>3
<1>17. b.cash + OpenCost(b) = Capital + b.realized
  <2> DEFINE q == SumFunction([t \in Tokens |-> a.inv[t].cost])
             none == [i \in OpenBaskets(b) |-> b.baskets[i].cost]
  <2>1. OpenCost(a) = q + SumFunction(k) BY DEF OpenCost
  <2>2. OpenCost(b) = q + SumFunction(none) BY <1>11 DEF OpenCost
  <2>3. q \in Int BY <1>1, CostsTyped
  <2>4. SumFunction(none) = 0
    <3>1. DOMAIN none = {} BY <1>12
    <3> HIDE DEF none
    <3> QED BY <3>1, SumEmpty DEF SumFunction
  <2>5. a.cash + (q + SumFunction(k)) = Capital + a.realized BY <2>1 DEF Sound, Explained
  <2> DEFINE v == SumFunction(k)
  <2>6. x = y + v /\ v \in Int /\ y \in Int BY <1>5
  <2> DEFINE m == a.cash
             r == a.realized
  <2>7. m + (q + v) = Capital + r /\ m \in Int /\ r \in Int BY <1>2, <2>5
  <2> HIDE DEF q, none, v, x, y, m, r
  <2>10. (m + x) + q = Capital + (r + y) BY <2>3, <2>6, <2>7, Params
  <2>8. c + q = Capital + z BY <2>10 DEF m, r
  <2>9. OpenCost(b) = q BY <2>2, <2>3, <2>4
  <2> QED BY <1>11, <2>8, <2>9
<1>18. Sound(b) BY <1>10, <1>13, <1>14, <1>15, <1>16, <1>17 DEF Sound, Explained
<1> QED BY <1>12, <1>18 DEF b

(* ... and the inventory, at what each token turned out to be worth. *)
LEMMA InventoryPaidSound ==
    ASSUME NEW a, Sound(a)
    PROVE  Sound(InventoryPaid(a))
<1> DEFINE f == [t \in Tokens |-> Worth(a, t)]
           g == [t \in Tokens |-> Worth(a, t) - a.inv[t].cost]
           k == [t \in Tokens |-> a.inv[t].cost]
           x == SumFunction(f)
           y == SumFunction(g)
           v == SumFunction(k)
           b == InventoryPaid(a)
           I == [t \in Tokens |-> Empty]
           c == a.cash + x
           z == a.realized + y
<1>1. a \in Accounts BY DEF Sound
<1>2. /\ a.inv \in [Tokens -> Holdings] /\ a.cash \in Int /\ a.realized \in Int /\ a.trades \in Nat
      /\ a.baskets \in Seq(Baskets)
  BY <1>1 DEF Accounts
<1>3. \A t \in Tokens : Worth(a, t) \in Nat /\ a.inv[t].cost \in Nat
  BY <1>2, Params DEF Worth, Holdings
<1>4. x \in Nat
  <2>1. DOMAIN f = Tokens /\ \A t \in Tokens : f[t] \in Nat BY <1>3
  <2> HIDE DEF f
  <2> QED BY <2>1, Params, SumNat DEF SumFunction
<1>5. y \in Int /\ v \in Int /\ x = y + v
  <2>1. DOMAIN f = Tokens /\ DOMAIN g = Tokens /\ DOMAIN k = Tokens
        /\ \A t \in Tokens : g[t] \in Int /\ k[t] \in Int /\ f[t] = g[t] + k[t]
    BY <1>3
  <2> HIDE DEF f, g, k
  <2>2. SumFunctionOnSet(f, Tokens) = SumFunctionOnSet(g, Tokens) + SumFunctionOnSet(k, Tokens)
    BY <2>1, Params, SumPlus
  <2>3. SumFunctionOnSet(g, Tokens) \in Int /\ SumFunctionOnSet(k, Tokens) \in Int
    BY <2>1, Params, SumInt
  <2> QED BY <2>1, <2>2, <2>3 DEF SumFunction
<1>6. b = [cash |-> c, realized |-> z, inv |-> I, baskets |-> a.baskets, trades |-> a.trades]
  <2> DEFINE X == [Tokens -> Holdings]
             Y == Seq(Baskets)
  <2>1. a \in [cash : Int, realized : Int, inv : X, baskets : Y, trades : Nat] BY <1>1 DEF Accounts
  <2>2. b = [a EXCEPT !.cash = c, !.realized = z, !.inv = I] BY <2>1 DEF InventoryPaid
  <2> HIDE DEF X, Y, c, z, I, b
  <2> QED BY <2>1, <2>2
<1>7. I \in [Tokens -> Holdings] BY DEF Holdings, Empty
<1>8. c \in Int /\ z \in Int BY <1>2, <1>4, <1>5
<1>9. b \in Accounts
  <2> DEFINE L == a.baskets
             m == a.trades
  <2>1. b = [cash |-> c, realized |-> z, inv |-> I, baskets |-> L, trades |-> m] BY <1>6
  <2>2. L \in Seq(Baskets) /\ m \in Nat BY <1>2
  <2> HIDE DEF b, c, L, m, I, z
  <2> QED BY <1>7, <1>8, <2>1, <2>2 DEF Accounts
<1>10. b.cash = c /\ b.realized = z /\ b.baskets = a.baskets
       /\ \A t \in Tokens : b.inv[t].cost = 0
  BY <1>6 DEF Empty
<1> HIDE DEF b
<1>11. OpenBaskets(b) = OpenBaskets(a) BY <1>10 DEF OpenBaskets
<1>12. OneBasket(b) BY <1>11 DEF OneBasket, Sound
<1>13. Capped(b) BY <1>10, Params DEF Capped
<1>14. Funded(b)
  <2>1. 2 * a.cash + One >= 0 BY DEF Sound, Funded
  <2> HIDE DEF x
  <2>2. 2 * c + One >= 0 BY <1>2, <1>4, <2>1, Params
  <2> QED BY <1>10, <2>2 DEF Funded
<1>15. WorthIt(b) BY <1>10 DEF WorthIt, Sound
<1>16. b.cash + OpenCost(b) = Capital + b.realized
  <2> DEFINE q == SumFunction([i \in OpenBaskets(a) |-> a.baskets[i].cost])
             none == [t \in Tokens |-> b.inv[t].cost]
             m == a.cash
             r == a.realized
  <2>1. OpenCost(a) = v + q BY DEF OpenCost
  <2>2. OpenCost(b) = SumFunction(none) + q BY <1>10, <1>11 DEF OpenCost
  <2>3. q \in Int BY <1>1, CostsTyped
  <2>4. SumFunction(none) = 0
    <3>1. DOMAIN none = Tokens /\ \A t \in Tokens : none[t] = 0 BY <1>10
    <3> HIDE DEF none
    <3> QED BY <3>1, Params, SumZero DEF SumFunction
  <2>5. m + (v + q) = Capital + r /\ m \in Int /\ r \in Int BY <1>2, <2>1 DEF Sound, Explained
  <2> HIDE DEF q, none, v, x, y, m, r
  <2>6. (m + x) + q = Capital + (r + y) BY <1>5, <2>3, <2>5, Params
  <2>7. c + q = Capital + z BY <2>6 DEF m, r
  <2>8. OpenCost(b) = q BY <2>2, <2>3, <2>4
  <2> QED BY <1>10, <2>7, <2>8
<1>17. Sound(b) BY <1>9, <1>12, <1>13, <1>14, <1>15, <1>16 DEF Sound, Explained
<1> QED BY <1>17 DEF b

(* A new account. *)
LEMMA BlankSound == Sound(Blank)
<1> DEFINE f == [t \in Tokens |-> Blank.inv[t].cost]
           g == [i \in OpenBaskets(Blank) |-> Blank.baskets[i].cost]
<1>1. Blank \in Accounts
  <2>1. [t \in Tokens |-> Empty] \in [Tokens -> Holdings] BY DEF Empty, Holdings
  <2>2. <<>> \in Seq(Baskets) OBVIOUS
  <2> QED BY <2>1, <2>2, Params DEF Blank, Accounts
<1>2. Blank.cash = Capital /\ Blank.realized = 0 /\ Blank.baskets = <<>>
      /\ \A t \in Tokens : Blank.inv[t].cost = 0
  BY DEF Blank, Empty
<1>3. OpenBaskets(Blank) = {} BY <1>2 DEF OpenBaskets
<1>4. SumFunction(f) = 0
  <2>1. DOMAIN f = Tokens /\ \A t \in Tokens : f[t] = 0 BY <1>2
  <2> HIDE DEF f
  <2> QED BY <2>1, Params, SumZero DEF SumFunction
<1>5. SumFunction(g) = 0
  <2>1. DOMAIN g = {} BY <1>3
  <2> HIDE DEF g
  <2> QED BY <2>1, SumEmpty DEF SumFunction
<1>6. OpenCost(Blank) = 0 BY <1>4, <1>5 DEF OpenCost
<1>7. Explained(Blank) BY <1>2, <1>6, Params DEF Explained
<1>8. Funded(Blank) BY <1>2, Params DEF Funded
<1>9. Capped(Blank) BY <1>2, Params DEF Capped
<1>10. OneBasket(Blank) BY <1>3 DEF OneBasket
<1>11. WorthIt(Blank) BY <1>2 DEF WorthIt
<1> QED BY <1>1, <1>7, <1>8, <1>9, <1>10, <1>11 DEF Sound

-----------------------------------------------------------------------------
(* The desk: the books of the account. *)
LEMMA DeskStart == AcctInit => Booked
  BY BlankSound DEF AcctInit, Booked

LEMMA ScanKeeps == ASSUME Booked, ScanEvent PROVE Booked'
<1>1. Sound(acct) /\ Sound(file) /\ listed \subseteq Tokens /\ winner \in Tokens BY DEF Booked
<1>2. listed # {}
  <2>1. Cardinality(listed) >= 2 BY DEF ScanEvent, Scanned
  <2> QED BY <2>1, FS_EmptySet
<1>3. PICK b \in Books, n \in 0..Cardinality(listed), kept \in BOOLEAN :
         /\ acct' = Quoted(Opened(acct, b), b, n)
         /\ file' = IF kept THEN Quoted(Opened(acct, b), b, n)
                    ELSE IF Opened(acct, b) # acct THEN Opened(acct, b) ELSE file
  BY DEF ScanEvent
<1>4. Sound(Opened(acct, b)) BY <1>1, <1>2, OpenedSound
<1>5. Sound(Quoted(Opened(acct, b), b, n)) BY <1>1, <1>2, <1>4, QuotedSound
<1>6. Sound(acct') BY <1>3, <1>5
<1>7. Sound(file') BY <1>1, <1>3, <1>4, <1>5
<1>8. listed' = listed /\ winner' = winner BY DEF ScanEvent
<1> QED BY <1>1, <1>6, <1>7, <1>8 DEF Booked

LEMMA SettleKeeps == ASSUME Booked, SettleEvent PROVE Booked'
<1>1. Sound(acct) /\ Sound(file) /\ listed \subseteq Tokens /\ winner \in Tokens BY DEF Booked
<1>2. Sound(BasketsPaid(acct)) BY <1>1, BasketsPaidSound
<1>3. Sound(InventoryPaid(BasketsPaid(acct))) BY <1>2, InventoryPaidSound
<1>4. listed' = listed /\ winner' = winner BY DEF SettleEvent
<1>5. CASE acct' = InventoryPaid(BasketsPaid(acct)) /\ file' = acct'
  BY <1>1, <1>3, <1>4, <1>5 DEF Booked
<1>6. CASE acct' = BasketsPaid(acct) /\ file' = file
  BY <1>1, <1>2, <1>4, <1>6 DEF Booked
<1> QED BY <1>5, <1>6 DEF SettleEvent

LEMMA DeskStep == Booked /\ [AcctNext]_acctVars => Booked'
<1> SUFFICES ASSUME Booked, [AcctNext]_acctVars PROVE Booked' OBVIOUS
<1>1. CASE ScanEvent BY <1>1, ScanKeeps
<1>2. CASE SettleEvent BY <1>2, SettleKeeps
<1>3. CASE ShowClosed \/ ShowWinner
  <2>1. UNCHANGED <<listed, winner, acct, file>> BY <1>3 DEF ShowClosed, ShowWinner
  <2> QED BY <2>1 DEF Booked
<1>4. CASE Reload
  <2>1. acct' = file /\ UNCHANGED <<listed, winner, file>> BY <1>4 DEF Reload
  <2> QED BY <2>1 DEF Booked
<1>5. CASE UNCHANGED acctVars
  <2>1. UNCHANGED <<listed, winner, acct, file>> BY <1>5 DEF acctVars
  <2> QED BY <2>1 DEF Booked
<1> QED BY <1>1, <1>2, <1>3, <1>4, <1>5 DEF AcctNext

(* The account's records are sound, over every order of trades, settlements, errors and     *)
(* restarts in either mode: what is sold was there, no order spends past the cash or past a *)
(* token's cap but for its rounding, and one basket at a time is open, each worth more than *)
(* its hurdle.                                                                              *)
THEOREM RecordsOfTheDesk == AcctSpec => []AccountSound
<1>1. Booked => AccountSound
  <2> SUFFICES ASSUME Booked PROVE AccountSound OBVIOUS
  <2>1. Sound(acct) /\ Sound(file) /\ listed \subseteq Tokens /\ winner \in Tokens
    BY DEF Booked
  <2>2. ASSUME NEW a, Sound(a)
        PROVE  /\ AccountShape(a) /\ Cardinality(OpenBaskets(a)) <= 1
               /\ \A i \in DOMAIN a.baskets :
                     a.baskets[i].payout - a.baskets[i].cost > Hurdle * a.baskets[i].shares
    <3>1. a \in Accounts BY <2>2 DEF Sound
    <3>2. \A i \in DOMAIN a.baskets : a.baskets[i].shares \in Nat \ {0}
      BY <3>1, FewBaskets DEF Baskets
    <3>3. AccountShape(a) BY <3>1, <3>2 DEF AccountShape, Accounts, Holdings
    <3>4. Cardinality(OpenBaskets(a)) <= 1
      <4>1. CASE OpenBaskets(a) = {}
        <5>1. Cardinality(OpenBaskets(a)) = 0 BY <4>1, FS_EmptySet
        <5> QED BY <5>1
      <4>2. CASE OpenBaskets(a) # {}
        <5>1. PICK i \in OpenBaskets(a) : TRUE BY <4>2
        <5>2. OpenBaskets(a) = {i} BY <2>2 DEF Sound, OneBasket
        <5>3. Cardinality({i}) = 1 BY FS_Singleton
        <5> QED BY <5>2, <5>3
      <4> QED BY <4>1, <4>2
    <3> QED BY <2>2, <3>3, <3>4 DEF Sound, WorthIt
  <2>3. AccountShape(acct) /\ AccountShape(file) BY <2>1, <2>2
  <2>4. BasketsSound BY <2>1, <2>2 DEF BasketsSound
  <2>5. CashCovered /\ InventoryCapped BY <2>1 DEF CashCovered, InventoryCapped, Sound, Funded, Capped
  <2> QED BY <2>1, <2>3, <2>4, <2>5 DEF AccountSound, DeskShape
<1> QED BY <1>1, DeskStart, DeskStep, PTL DEF AcctSpec

(* Equity is explained at every moment, in memory and in the file, over any number of       *)
(* tokens and baskets: cash and what is open make up the capital and the realised profit.   *)
THEOREM EquityOfTheDesk == AcctSpec => []EquityExplained
<1>1. Booked => EquityExplained BY DEF Booked, Sound, Explained, EquityExplained
<1> QED BY <1>1, DeskStart, DeskStep, PTL DEF AcctSpec

-----------------------------------------------------------------------------
(* The basket in execution. *)
Charted ==
    /\ basket \in Orders /\ next \in 1..(basket.count + 1)
    /\ status \in [Parts -> Statuses] /\ report \in Reports /\ sent \subseteq Parts
    /\ {size, recovered, traded, sold} \subseteq [Parts -> Nat]
    /\ \A i \in Parts : traded[i] <= Size

(* What a leg's record says against what the venue did. *)
Recorded ==
    \A i \in Parts :
        /\ sold[i] <= recovered[i] /\ recovered[i] <= size[i] /\ size[i] <= traded[i]
        /\ i \notin sent => traded[i] = 0
        /\ status[i] = "FILLED" => size[i] = traded[i] /\ size[i] > 0
        /\ status[i] \notin {"FILLED", "UNWOUND"} => size[i] = 0

(* What the report, or its absence, says of every leg. *)
Reported ==
    \A i \in Parts :
        /\ report # "UNWOUND"       => recovered[i] = 0 /\ status[i] # "UNWOUND"
        /\ report = "UNWOUND"       => recovered[i] = size[i]
        /\ report = "ALL_FILLED"    => status[i] = "FILLED"
        /\ report = "PROBE_ABORTED" => status[i] # "FILLED" /\ (i > 1 => i \notin sent)
        /\ report = "none" /\ i >= next => status[i] = "PENDING" /\ i \notin sent

(* Behind a probe no leg is refused while one is to be sent. *)
Probed == basket.probe /\ Submits => \A i \in Parts : status[i] # "REJECTED"

Legged == Charted /\ Recorded /\ Reported /\ Probed /\ ProbeGuards

LEMMA LeggedInit == ExecInit => Legged
<1> SUFFICES ASSUME ExecInit PROVE Legged OBVIOUS
<1>1. basket \in Orders /\ basket.count \in Nat \ {0}
  BY BasketAssumption DEF ExecInit, Orders
<1>2. Parts = 1..basket.count BY DEF Parts
<1>3. /\ next = 1 /\ report = "none" /\ sent = {}
      /\ status = [i \in Parts |-> "PENDING"]
      /\ size = [i \in Parts |-> 0] /\ recovered = [i \in Parts |-> 0]
      /\ traded = [i \in Parts |-> 0] /\ sold = [i \in Parts |-> 0]
  BY DEF ExecInit
<1>4. Charted BY <1>1, <1>2, <1>3, BasketAssumption DEF Charted, Statuses, Reports
<1>5. Recorded /\ Reported BY <1>3 DEF Recorded, Reported
<1>6. Probed /\ ProbeGuards BY <1>3 DEF Probed, ProbeGuards
<1> QED BY <1>4, <1>5, <1>6 DEF Legged

LEMMA PartsFacts ==
    ASSUME Legged
    PROVE  basket.count \in Nat /\ next \in Nat /\ Parts = 1..basket.count
<1>1. basket.count \in Nat BY BasketAssumption DEF Legged, Charted, Orders
<1>2. next \in 1..(basket.count + 1) BY DEF Legged, Charted
<1> QED BY <1>1, <1>2 DEF Parts

(* A leg that is sent: what stays of the others, and what there is of it. *)
LEMMA SendsFacts ==
    ASSUME Legged, NEW n \in 0..Size, Sends(n)
    PROVE  /\ next \in Parts /\ report = "none" /\ basket' = basket /\ Parts' = Parts
           /\ next + 1 \in 1..(basket.count + 1)
           /\ recovered' = recovered /\ sold' = sold /\ sent' = sent \cup {next}
           /\ traded' \in [Parts -> Nat] /\ traded'[next] = n
           /\ \A i \in Parts : i # next => traded'[i] = traded[i]
           /\ status[next] = "PENDING" /\ next \notin sent
           /\ size[next] = 0 /\ recovered[next] = 0 /\ sold[next] = 0
           /\ \A i \in Parts : i > next => i \notin sent
           /\ basket.probe => \A i \in Parts : status[i] # "REJECTED"
<1>1. /\ Running /\ next <= basket.count /\ basket' = basket /\ Submits
      /\ recovered' = recovered /\ sold' = sold /\ sent' = sent \cup {next}
      /\ traded' = [traded EXCEPT ![next] = n]
  BY DEF Sends, Submits
<1>2. basket.count \in Nat BY BasketAssumption DEF Legged, Charted, Orders
<1>3. next \in Parts /\ report = "none" /\ next \in Nat
  BY <1>1, <1>2 DEF Legged, Charted, Parts, Running
<1>4. Parts' = Parts BY <1>1 DEF Parts
<1>5. n \in Nat BY BasketAssumption
<1>6. traded \in [Parts -> Nat] BY DEF Legged, Charted
<1>7. status[next] = "PENDING" /\ next \notin sent
  BY <1>3 DEF Legged, Reported
<1>8. \A i \in Parts : i > next => i \notin sent
  BY <1>2, <1>3 DEF Legged, Reported, Parts
<1>9. /\ size[next] = 0 /\ recovered[next] <= 0 /\ sold[next] <= recovered[next]
      /\ recovered[next] \in Nat /\ sold[next] \in Nat
  BY <1>3, <1>7 DEF Legged, Charted, Recorded
<1>10. basket.probe => \A i \in Parts : status[i] # "REJECTED"
  BY <1>1 DEF Legged, Probed
<1>11. next + 1 \in 1..(basket.count + 1) BY <1>1, <1>2, <1>3
<1> QED BY <1>1, <1>3, <1>4, <1>5, <1>6, <1>7, <1>8, <1>9, <1>10, <1>11

LEMMA FillKeeps == ASSUME Legged, NEW n \in 0..Size, FillLeg(n) PROVE Legged'
<1>1. Sends(n) /\ n > 0 /\ n \in Nat /\ n <= Size BY BasketAssumption DEF FillLeg
<1>2. /\ next \in Parts /\ report = "none" /\ basket' = basket /\ Parts' = Parts
      /\ next + 1 \in 1..(basket.count + 1)
      /\ recovered' = recovered /\ sold' = sold /\ sent' = sent \cup {next}
      /\ traded' \in [Parts -> Nat] /\ traded'[next] = n
      /\ \A i \in Parts : i # next => traded'[i] = traded[i]
      /\ recovered[next] = 0 /\ sold[next] = 0
      /\ \A i \in Parts : i > next => i \notin sent
      /\ basket.probe => \A i \in Parts : status[i] # "REJECTED"
  BY <1>1, SendsFacts
<1>3. /\ status' = [status EXCEPT ![next] = "FILLED"] /\ size' = [size EXCEPT ![next] = n]
      /\ next' = next + 1 /\ report' = report
  BY DEF FillLeg
<1>4. basket.count \in Nat /\ next \in Nat /\ Parts = 1..basket.count
  BY PartsFacts
<1>5. status \in [Parts -> Statuses] /\ size \in [Parts -> Nat] BY DEF Legged, Charted
<1>6. /\ status' \in [Parts -> Statuses] /\ status'[next] = "FILLED"
      /\ size' \in [Parts -> Nat] /\ size'[next] = n
      /\ \A i \in Parts : i # next => status'[i] = status[i] /\ size'[i] = size[i]
  BY <1>1, <1>2, <1>3, <1>5 DEF Statuses
<1>7. Charted'
  <2>1. \A i \in Parts : traded'[i] <= Size
    BY <1>1, <1>2 DEF Legged, Charted
  <2> QED BY <1>2, <1>3, <1>6, <2>1 DEF Legged, Charted
<1>8. Recorded'
  <2> SUFFICES ASSUME NEW i \in Parts
               PROVE  /\ sold'[i] <= recovered'[i] /\ recovered'[i] <= size'[i] /\ size'[i] <= traded'[i]
                      /\ i \notin sent' => traded'[i] = 0
                      /\ status'[i] = "FILLED" => size'[i] = traded'[i] /\ size'[i] > 0
                      /\ status'[i] \notin {"FILLED", "UNWOUND"} => size'[i] = 0
    BY <1>2 DEF Recorded
  <2>1. CASE i = next BY <1>1, <1>2, <1>6, <2>1
  <2>2. CASE i # next BY <1>2, <1>6, <2>2 DEF Legged, Recorded
  <2> QED BY <2>1, <2>2
<1>9. Reported'
  <2> SUFFICES ASSUME NEW i \in Parts
               PROVE  /\ recovered'[i] = 0 /\ status'[i] # "UNWOUND"
                      /\ i >= next' => status'[i] = "PENDING" /\ i \notin sent'
    BY <1>2, <1>3 DEF Reported
  <2>1. recovered[i] = 0 /\ status[i] # "UNWOUND" BY <1>2 DEF Legged, Reported
  <2>2. i >= next + 1 => i # next /\ i >= next /\ i > next BY <1>4
  <2>3. i >= next => status[i] = "PENDING" BY <1>2 DEF Legged, Reported
  <2> QED BY <1>2, <1>3, <1>6, <2>1, <2>2, <2>3
<1>10. basket.probe => \A i \in Parts : status'[i] # "REJECTED"
  BY <1>2, <1>6
<1>11. Probed' /\ ProbeGuards' BY <1>2, <1>10 DEF Probed, ProbeGuards
<1> QED BY <1>7, <1>8, <1>9, <1>11 DEF Legged

LEMMA RefuseKeeps == ASSUME Legged, NEW n \in 0..Size, RefuseLeg(n) PROVE Legged'
<1>1. Sends(n) /\ AfterReject /\ size' = size /\ n \in Nat /\ n <= Size
  BY BasketAssumption DEF RefuseLeg
<1>2. /\ next \in Parts /\ report = "none" /\ basket' = basket /\ Parts' = Parts
      /\ next + 1 \in 1..(basket.count + 1)
      /\ recovered' = recovered /\ sold' = sold /\ sent' = sent \cup {next}
      /\ traded' \in [Parts -> Nat] /\ traded'[next] = n
      /\ \A i \in Parts : i # next => traded'[i] = traded[i]
      /\ size[next] = 0 /\ recovered[next] = 0 /\ sold[next] = 0
      /\ \A i \in Parts : i > next => i \notin sent
      /\ basket.probe => \A i \in Parts : status[i] # "REJECTED"
  BY <1>1, SendsFacts
<1>3. basket.count \in Nat /\ next \in Nat /\ Parts = 1..basket.count
  BY PartsFacts
<1>4. status \in [Parts -> Statuses] BY DEF Legged, Charted
<1>5. \A i \in Parts : traded'[i] <= Size BY <1>1, <1>2 DEF Legged, Charted
<1>6. \A i \in Parts : /\ i >= next => status[i] = "PENDING"
                       /\ recovered[i] = 0 /\ status[i] # "UNWOUND"
  BY <1>2 DEF Legged, Reported
(* A leg keeps its record, or it is refused or cancelled without one. *)
<1>7. ASSUME status' \in [Parts -> Statuses], status'[next] = "REJECTED",
             \A i \in Parts : \/ status'[i] = status[i] /\ i # next
                              \/ status'[i] \in {"REJECTED", "CANCELLED"} /\ i >= next,
             next' \in 1..(basket.count + 1), report' \in Reports
      PROVE  Charted' /\ Recorded'
  <2>1. Charted' BY <1>1, <1>2, <1>5, <1>7 DEF Legged, Charted
  <2> SUFFICES ASSUME NEW i \in Parts
               PROVE  /\ sold[i] <= recovered[i] /\ recovered[i] <= size[i] /\ size[i] <= traded'[i]
                      /\ i \notin sent' => traded'[i] = 0
                      /\ status'[i] = "FILLED" => size[i] = traded'[i] /\ size[i] > 0
                      /\ status'[i] \notin {"FILLED", "UNWOUND"} => size[i] = 0
    BY <1>1, <1>2, <2>1 DEF Recorded
  <2>2. CASE i = next BY <1>1, <1>2, <1>7, <2>2
  <2>3. CASE i # next
    <3>1. i >= next => size[i] = 0 BY <1>6 DEF Legged, Recorded
    <3> QED BY <1>2, <1>7, <2>3, <3>1 DEF Legged, Recorded
  <2> QED BY <2>2, <2>3
<1>8. CASE ~basket.probe
  <2>1. status' = [status EXCEPT ![next] = "REJECTED"] /\ next' = next + 1 /\ report' = "none"
    BY <1>1, <1>2, <1>8 DEF AfterReject
  <2>2. /\ status' \in [Parts -> Statuses] /\ status'[next] = "REJECTED"
        /\ \A i \in Parts : i # next => status'[i] = status[i]
    BY <1>2, <1>4, <2>1 DEF Statuses
  <2>3. \A i \in Parts : \/ status'[i] = status[i] /\ i # next
                         \/ status'[i] \in {"REJECTED", "CANCELLED"} /\ i >= next
    BY <1>3, <2>2
  <2>4. report' \in Reports BY <2>1 DEF Reports
  <2>5. Charted' /\ Recorded' BY <1>2, <1>7, <2>1, <2>2, <2>3, <2>4
  <2>6. Reported'
    <3> SUFFICES ASSUME NEW i \in Parts
                 PROVE  /\ recovered[i] = 0 /\ status'[i] # "UNWOUND"
                        /\ i >= next + 1 => status'[i] = "PENDING" /\ i \notin sent'
      BY <1>2, <2>1 DEF Reported
    <3>1. i >= next + 1 => i # next /\ i >= next /\ i > next BY <1>3
    <3> QED BY <1>2, <1>6, <2>2, <3>1
  <2>7. Probed' /\ ProbeGuards' BY <1>2, <1>8 DEF Probed, ProbeGuards
  <2> QED BY <2>5, <2>6, <2>7 DEF Legged
<1>9. CASE basket.probe /\ next = 1
  <2>1. status' = [status EXCEPT ![1] = "REJECTED"] /\ report' = "PROBE_ABORTED" /\ next' = next
    BY <1>1, <1>9 DEF AfterReject
  <2>2. /\ status' \in [Parts -> Statuses] /\ status'[next] = "REJECTED"
        /\ \A i \in Parts : i # next => status'[i] = status[i]
    BY <1>2, <1>4, <1>9, <2>1 DEF Statuses
  <2>3. \A i \in Parts : \/ status'[i] = status[i] /\ i # next
                         \/ status'[i] \in {"REJECTED", "CANCELLED"} /\ i >= next
    BY <1>3, <2>2
  <2>4. report' \in Reports /\ next' \in 1..(basket.count + 1)
    BY <2>1 DEF Reports, Legged, Charted
  <2>5. Charted' /\ Recorded' BY <1>7, <2>2, <2>3, <2>4
  <2>6. \A i \in Parts : i >= 1 /\ (i # 1 => i > next) BY <1>3, <1>9
  <2>7. \A i \in Parts : status'[i] # "FILLED" /\ status'[i] # "UNWOUND" /\ (i > 1 => i \notin sent')
    <3> SUFFICES ASSUME NEW i \in Parts
                 PROVE  status'[i] \notin {"FILLED", "UNWOUND"} /\ (i > 1 => i \notin sent')
      OBVIOUS
    <3>1. CASE i = 1 BY <1>9, <2>2, <3>1
    <3>2. CASE i # 1 BY <1>2, <1>6, <1>9, <2>2, <2>6, <3>2
    <3> QED BY <3>1, <3>2
  <2>8. Reported' BY <1>2, <1>6, <2>1, <2>7 DEF Reported
  <2>9. Probed' BY <2>1 DEF Probed, Submits, Running
  <2>10. ProbeGuards'
    <3> SUFFICES ASSUME NEW i \in Parts, NEW j \in Parts, j \in sent' PROVE j <= i
      BY <1>2 DEF ProbeGuards
    <3>1. ~(j > 1) /\ i >= 1 BY <2>6, <2>7
    <3> QED BY <1>3, <3>1
  <2> QED BY <2>5, <2>8, <2>9, <2>10 DEF Legged
<1>10. CASE basket.probe /\ next # 1
  <2> DEFINE s == [i \in Parts |-> IF i < next THEN status[i]
                                   ELSE IF i = next THEN "REJECTED" ELSE "CANCELLED"]
  <2>1. status' = s /\ next' = basket.count + 1 /\ report' = "none"
    BY <1>1, <1>2, <1>10 DEF AfterReject
  <2>2. status' \in [Parts -> Statuses] BY <1>4, <2>1 DEF Statuses
  <2>3. \A i \in Parts : IF i < next THEN status'[i] = status[i]
                         ELSE IF i = next THEN status'[i] = "REJECTED"
                         ELSE status'[i] = "CANCELLED"
    BY <2>1
  <2>4. \A i \in Parts : \/ status'[i] = status[i] /\ i # next
                         \/ status'[i] \in {"REJECTED", "CANCELLED"} /\ i >= next
    BY <1>3, <2>3
  <2>5. status'[next] = "REJECTED" BY <1>2, <1>3, <2>3
  <2>6. next' \in 1..(basket.count + 1) /\ report' \in Reports BY <1>3, <2>1 DEF Reports
  <2> HIDE DEF s
  <2>7. Charted' /\ Recorded' BY <1>7, <2>2, <2>4, <2>5, <2>6
  <2>8. Reported'
    <3> SUFFICES ASSUME NEW i \in Parts
                 PROVE  recovered[i] = 0 /\ status'[i] # "UNWOUND" /\ ~(i >= basket.count + 1)
      BY <1>2, <2>1 DEF Reported
    <3> QED BY <1>3, <1>6, <2>4
  <2>9. Probed' BY <1>2, <1>3, <2>1 DEF Probed, Submits
  <2>10. ProbeGuards'
    <3> SUFFICES ASSUME NEW i \in Parts, NEW j \in Parts, status'[i] = "REJECTED", j \in sent'
                 PROVE  j <= i
      BY <1>2 DEF ProbeGuards
    <3>1. i >= next BY <1>2, <1>3, <1>10, <2>3
    <3>2. ~(j > next) BY <1>2, <1>3
    <3> QED BY <1>3, <3>1, <3>2
  <2> QED BY <2>7, <2>8, <2>9, <2>10 DEF Legged
<1> QED BY <1>8, <1>9, <1>10

LEMMA RaiseKeeps == ASSUME Legged, NEW n \in 0..Size, RaiseLeg(n) PROVE Legged'
<1>1. Sends(n) /\ n \in Nat /\ n <= Size BY BasketAssumption DEF RaiseLeg
<1>2. /\ next \in Parts /\ report = "none" /\ basket' = basket /\ Parts' = Parts
      /\ recovered' = recovered /\ sold' = sold /\ sent' = sent \cup {next}
      /\ traded' \in [Parts -> Nat] /\ traded'[next] = n
      /\ \A i \in Parts : i # next => traded'[i] = traded[i]
      /\ status[next] = "PENDING" /\ size[next] = 0 /\ recovered[next] = 0 /\ sold[next] = 0
      /\ basket.probe => \A i \in Parts : status[i] # "REJECTED"
  BY <1>1, SendsFacts
<1>3. report' = "raised" /\ next' = next /\ status' = status /\ size' = size BY DEF RaiseLeg
<1>4. Charted'
  <2>1. \A i \in Parts : traded'[i] <= Size BY <1>1, <1>2 DEF Legged, Charted
  <2> QED BY <1>2, <1>3, <2>1 DEF Legged, Charted, Reports
<1>5. Recorded'
  <2> SUFFICES ASSUME NEW i \in Parts
               PROVE  /\ sold[i] <= recovered[i] /\ recovered[i] <= size[i] /\ size[i] <= traded'[i]
                      /\ i \notin sent' => traded'[i] = 0
                      /\ status[i] = "FILLED" => size[i] = traded'[i] /\ size[i] > 0
                      /\ status[i] \notin {"FILLED", "UNWOUND"} => size[i] = 0
    BY <1>2, <1>3 DEF Recorded
  <2>1. CASE i = next BY <1>1, <1>2, <2>1
  <2>2. CASE i # next BY <1>2, <2>2 DEF Legged, Recorded
  <2> QED BY <2>1, <2>2
<1>6. Reported' BY <1>2, <1>3 DEF Legged, Reported
<1>7. Probed' /\ ProbeGuards' BY <1>2, <1>3 DEF Probed, ProbeGuards, Submits, Running
<1> QED BY <1>4, <1>5, <1>6, <1>7 DEF Legged

LEMMA AllFilledKeeps == ASSUME Legged, AllFilled PROVE Legged'
<1>1. /\ report = "none" /\ report' = "ALL_FILLED" /\ \A i \in Parts : status[i] = "FILLED"
      /\ UNCHANGED <<basket, next, status, size, recovered, sent, traded, sold>>
  BY DEF AllFilled, Running, FilledLegs
<1>2. Parts' = Parts BY <1>1 DEF Parts
<1>3. Charted' BY <1>1, <1>2 DEF Legged, Charted, Reports
<1>4. Recorded' BY <1>1, <1>2 DEF Legged, Recorded
<1>5. Reported' BY <1>1, <1>2 DEF Legged, Reported
<1>6. Probed' /\ ProbeGuards' BY <1>1, <1>2 DEF Legged, Probed, ProbeGuards, Submits, Running
<1> QED BY <1>3, <1>4, <1>5, <1>6 DEF Legged

LEMMA UnwindKeeps == ASSUME Legged, Unwind PROVE Legged'
<1>1. /\ report = "none" /\ report' = "UNWOUND"
      /\ status' = [i \in Parts |-> IF i \in Sellable THEN "UNWOUND" ELSE status[i]]
      /\ recovered' = [i \in Parts |-> IF i \in Sellable THEN size[i] ELSE 0]
      /\ sold' \in [Parts -> 0..Size] /\ \A i \in Parts : sold'[i] <= recovered'[i]
      /\ UNCHANGED <<basket, next, size, sent, traded>>
  BY DEF Unwind, Running
<1>2. Parts' = Parts BY <1>1 DEF Parts
<1>3. \A i \in Parts : i \in Sellable <=> status[i] = "FILLED" BY DEF Sellable, FilledLegs
<1>4. /\ size \in [Parts -> Nat] /\ status \in [Parts -> Statuses]
      /\ \A i \in Parts : status[i] # "UNWOUND"
  BY <1>1 DEF Legged, Charted, Reported
<1>5. /\ status' \in [Parts -> Statuses] /\ recovered' \in [Parts -> Nat]
      /\ \A i \in Parts : /\ status[i] = "FILLED" => status'[i] = "UNWOUND" /\ recovered'[i] = size[i]
                          /\ status[i] # "FILLED" => status'[i] = status[i] /\ recovered'[i] = 0
  BY <1>1, <1>3, <1>4 DEF Statuses
<1>6. sold' \in [Parts -> Nat] BY <1>1, BasketAssumption
<1>7. Charted' BY <1>1, <1>2, <1>5, <1>6 DEF Legged, Charted, Reports
<1>8. \A i \in Parts : /\ size[i] \in Nat /\ size[i] <= traded[i]
                       /\ i \notin sent => traded[i] = 0
                       /\ status[i] # "FILLED" => size[i] = 0
  BY <1>4 DEF Legged, Recorded
<1>9. Recorded' /\ Reported' BY <1>1, <1>2, <1>4, <1>5, <1>8 DEF Recorded, Reported
<1>10. Probed' BY <1>1 DEF Probed, Submits, Running
<1>11. ProbeGuards'
  <2>1. \A i \in Parts : status'[i] = "REJECTED" => status[i] = "REJECTED" BY <1>5
  <2> QED BY <1>1, <1>2, <2>1 DEF Legged, ProbeGuards
<1> QED BY <1>7, <1>9, <1>10, <1>11 DEF Legged

LEMMA ExecStep == Legged /\ [ExecNext]_execVars => Legged'
<1> SUFFICES ASSUME Legged, [ExecNext]_execVars PROVE Legged' OBVIOUS
<1>1. ASSUME NEW n \in 0..Size, FillLeg(n) PROVE Legged' BY <1>1, FillKeeps
<1>2. ASSUME NEW n \in 0..Size, RefuseLeg(n) PROVE Legged' BY <1>2, RefuseKeeps
<1>3. ASSUME NEW n \in 0..Size, RaiseLeg(n) PROVE Legged' BY <1>3, RaiseKeeps
<1>4. CASE AllFilled BY <1>4, AllFilledKeeps
<1>5. CASE Unwind BY <1>5, UnwindKeeps
<1>6. CASE UNCHANGED execVars
  BY <1>6 DEF execVars, Legged, Charted, Recorded, Reported, Probed, ProbeGuards, Parts,
              Submits, Running
<1> QED BY <1>1, <1>2, <1>3, <1>4, <1>5, <1>6 DEF ExecNext

(* A basket of any number of legs and any size is as safe as the code makes it: a long one  *)
(* ends as its records say, a short one sells at most twice what was asked, leg by leg, and *)
(* behind a probe no order follows a refused one.                                           *)
THEOREM BasketsSafe == ExecSpec => []BasketSafe
<1>1. Legged => BasketSafe
  <2> SUFFICES ASSUME Legged PROVE BasketSafe OBVIOUS
  <2>1. ProbeGuards BY DEF Legged
  <2>2. basket.side \in Sides /\ basket.count \in Nat BY BasketAssumption DEF Legged, Charted, Orders
  <2>3. \A i \in Parts : /\ size[i] \in Nat /\ recovered[i] \in Nat /\ traded[i] \in Nat
                         /\ sold[i] \in Nat /\ traded[i] <= Size
                         /\ sold[i] <= recovered[i] /\ recovered[i] <= size[i] /\ size[i] <= traded[i]
    BY DEF Legged, Charted, Recorded
  <2>4. ExposureBounded
    <3> SUFFICES ASSUME NEW i \in Parts
                 PROVE  Held(i) \in IF basket.side = "BUY" THEN 0..Size ELSE (-2 * Size)..0
      BY DEF ExposureBounded
    <3>1. /\ traded[i] \in Nat /\ sold[i] \in Nat /\ traded[i] <= Size /\ sold[i] <= traded[i]
          /\ Size \in Nat
      BY <2>3, BasketAssumption
    <3>2. CASE basket.side = "BUY" BY <3>1, <3>2 DEF Held
    <3>3. CASE basket.side # "BUY"
      <4>1. Held(i) = -traded[i] - sold[i] BY <3>3 DEF Held
      <4>2. -traded[i] - sold[i] \in (-2 * Size)..0 BY <3>1
      <4> QED BY <3>3, <4>1, <4>2
    <3> QED BY <3>2, <3>3
  <2>5. LongEnds
    <3> SUFFICES ASSUME basket.side = "BUY", NEW i \in Parts
                 PROVE  /\ report = "ALL_FILLED"    => Held(i) = size[i] /\ Held(i) > 0
                        /\ report = "UNWOUND"       => Held(i) = Untold(i) + Unsold(i)
                        /\ report = "PROBE_ABORTED" => Held(i) = Untold(i) /\ (i > 1 => Held(i) = 0)
      BY DEF LongEnds
    <3>1. Held(i) = traded[i] - sold[i] BY DEF Held
    <3>2. CASE report = "ALL_FILLED"
      <4>1. recovered[i] = 0 /\ status[i] = "FILLED" BY <3>2 DEF Legged, Reported
      <4>2. size[i] = traded[i] /\ size[i] > 0 BY <4>1 DEF Legged, Recorded
      <4> QED BY <2>3, <3>1, <3>2, <4>1, <4>2
    <3>3. CASE report = "UNWOUND"
      <4>1. recovered[i] = size[i] BY <3>3 DEF Legged, Reported
      <4> QED BY <2>3, <3>1, <3>3, <4>1 DEF Untold, Unsold
    <3>4. CASE report = "PROBE_ABORTED"
      <4>1. /\ recovered[i] = 0 /\ status[i] \notin {"FILLED", "UNWOUND"}
            /\ i > 1 => i \notin sent
        BY <3>4 DEF Legged, Reported
      <4>2. size[i] = 0 /\ (i > 1 => traded[i] = 0) BY <4>1 DEF Legged, Recorded
      <4> QED BY <2>3, <3>1, <3>4, <4>1, <4>2 DEF Untold
    <3> QED BY <3>2, <3>3, <3>4
  <2> QED BY <2>1, <2>4, <2>5 DEF BasketSafe
<1> QED BY <1>1, LeggedInit, ExecStep, PTL DEF ExecSpec
=============================================================================
