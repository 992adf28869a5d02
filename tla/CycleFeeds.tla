------------------------------ MODULE CycleFeeds ------------------------------
(***************************************************************************)
(* The feeds of the poll cycle (src/_r_cycle.py, run_cycle up to the       *)
(* strategy loop): the rules of the day from Gamma (src/market_adapter.py),*)
(* the ladder books by REST (src/clob_market_data.py), the observations of *)
(* two METAR sources (src/research/common.py), each pulled when its stamp  *)
(* (src/_r_globals.py) is old enough, and pulled more often for what a     *)
(* session that is armed stands on.                                        *)
(*                                                                         *)
(* One city is one airport, one market a day and one ladder.  What a feed  *)
(* delivers is abstracted to whether it answered; a cycle is five steps,   *)
(* and time may pass inside each fetch.                                    *)
(*                                                                         *)
(* The sleep of src/runner_impl.py runs its full length: it ends early     *)
(* only for a token in watch_tokens(), and set_watch_tokens has no caller. *)
(***************************************************************************)
EXTENDS Integers, FiniteSets

CONSTANTS
    Cities,
    FastPoll, Scan,         \* the two sleeps
    RulesTTL,
    IdleBook, ArmBook,      \* book_ttl, arm_book_ttl
    IdleMetar, ArmMetar,
    Recent, Cooldown,       \* of the pull a WebSocket tick triggers
    Midnight,               \* when the local date changes
    MaxClock,               \* bound: the length of a behaviour
    MaxSlow,                \* bound: units of time spent inside fetches
    MaxSilent,              \* bound: airports left out by the answers of a behaviour
    MaxFaults               \* bound: rules, books and bridge failures, cycle errors, restarts

ASSUME ConstantsAssumption ==
    /\ IsFiniteSet(Cities)
    /\ {FastPoll, Scan, RulesTTL, IdleBook, ArmBook, IdleMetar, ArmMetar} \subseteq Nat \ {0}
    /\ {Recent, Cooldown, Midnight, MaxClock, MaxSlow, MaxSilent, MaxFaults} \subseteq Nat
    /\ FastPoll <= Scan /\ ArmBook <= IdleBook /\ ArmMetar <= IdleMetar

Days     == {0, 1}
Keys     == Cities \X Days
Cadences == {"rules", "book", "book_fast", "metar", "metar_fast"}
Never    == -1000                    \* stamp 0.0: longer ago than any interval

VARIABLES
    clock,
    at,         \* where the main thread is
    start,      \* now: when the cycle began, and the only date it works with
    wakeAt,     \* the end of the sleep
    stamps,     \* _STAMPS
    index,      \* _RULE_MEMO["idx"]
    known,      \* the airports in _LAST_GOOD_METAR
    armed,      \* the armed tree in memory
    saved,      \* and in the state file
    bridge,     \* wsb.running
    ticked,     \* when the local book of a city last received a frame
    cooled,     \* _WS_METAR_COOLDOWN
    touched,    \* _ws_touched_icaos
    fed,        \* the rules the strategy was given in this cycle
    since,      \* history: since when a session is armed and its rule fed
    asked,      \* history: when the last pull that asked for a city's feed ended
    slow, silent, faults

process == <<stamps, index, known, bridge, ticked, cooled>>
main    == <<at, start, wakeAt, touched, fed>>
ghosts  == <<since, asked, slow, silent, faults>>
vars    == <<clock, armed, saved, process, main, ghosts>>

-----------------------------------------------------------------------------
NoStamps == [n \in Cadences |-> Never]

(* The local date at a time, and the sessions of that date. *)
DateAt(t) == IF t < Midnight THEN 0 ELSE 1
Today     == Cities \X {DateAt(start)}

CitiesOf(keys) == {k[1] : k \in keys}

Due(name, ttl) == clock - stamps[name] >= ttl

Init ==
    /\ clock = 0 /\ at = "rules" /\ start = 0 /\ wakeAt = 0
    /\ stamps = NoStamps /\ index = {} /\ known = {} /\ armed = {} /\ saved = {}
    /\ bridge = FALSE
    /\ ticked = [c \in Cities |-> Never] /\ cooled = [c \in Cities |-> Never]
    /\ touched = {} /\ fed = {}
    /\ since = [k \in Keys |-> Never]
    /\ asked = [c \in Cities |-> [f \in {"rules", "book", "metar"} |-> Never]]
    /\ slow = 0 /\ silent = 0 /\ faults = 0

-----------------------------------------------------------------------------
(* A fetch takes 0 or 1 unit of time. *)
Takes(d) == /\ slow + d <= MaxSlow /\ clock + d <= MaxClock
            /\ slow' = slow + d /\ clock' = clock + d

Asked(cs, feed) == [c \in Cities |-> IF c \in cs THEN [asked[c] EXCEPT ![feed] = clock']
                                                 ELSE asked[c]]

(* The refresh keeps the old index when every lookup failed, and replaces it otherwise: a   *)
(* rule whose own lookup failed is gone until the next refresh.  The stamp moves either way.*)
Listed(found) == IF found = {} THEN index ELSE found

(* refresh_rules, when its TTL has passed; then prune, that drops the sessions of another   *)
(* date.                                                                                    *)
RulesStamped_OnSuccess(found) == [stamps EXCEPT !["rules"] = IF found = {} THEN @ ELSE clock']
RulesStamped(found) == [stamps EXCEPT !["rules"] = clock']

RulesStep ==
    /\ at = "rules"
    /\ IF Due("rules", RulesTTL)
       THEN \E d \in {0, 1}, found \in SUBSET Today :
              /\ Takes(d)
              /\ faults' = (IF found = Today THEN faults ELSE faults + 1) /\ faults' <= MaxFaults
              /\ index' = Listed(found) /\ stamps' = RulesStamped(found)
              /\ asked' = Asked(Cities, "rules")
       ELSE UNCHANGED <<clock, slow, faults, index, stamps, asked>>
    /\ armed' = armed \intersect Today
    /\ at' = "books"
    /\ UNCHANGED <<saved, start, wakeAt, known, bridge, ticked, cooled, touched, fed, since, silent>>

(* The sessions whose fire-critical tokens are kept warm. *)
Warm == armed \intersect index

(* The full pull of the books, or between two of them the pull of what the armed sessions   *)
(* would buy: the stamp moves whether the venue answered or not.                            *)
WarmDue_IdleTTL == armed # {} /\ ~Due("book", IdleBook) /\ Due("book_fast", IdleBook)
WarmDue == armed # {} /\ ~Due("book", IdleBook) /\ Due("book_fast", ArmBook)

BooksStep ==
    /\ at = "books" /\ at' = "bridge"
    /\ LET full == Due("book", IdleBook) /\ index # {}
           warm == WarmDue /\ Warm # {}
       IN  IF full \/ warm
           THEN \E d \in {0, 1} :
                  /\ Takes(d)
                  /\ stamps' = [stamps EXCEPT ![IF full THEN "book" ELSE "book_fast"] = clock']
                  /\ asked' = Asked(CitiesOf(IF full THEN index ELSE Warm), "book")
           ELSE UNCHANGED <<clock, slow, stamps, asked>>
    /\ UNCHANGED <<start, wakeAt, index, known, armed, saved, bridge, ticked, cooled, touched, fed,
                   since, silent, faults>>

(* The bridge is started once there are tokens, if it can be; the airports of the armed     *)
(* sessions whose books have just moved are touched, and cool down from then on.            *)
Moving == {c \in CitiesOf(Warm) : clock - ticked[c] <= Recent /\ clock - cooled[c] >= Cooldown}

BridgeStep ==
    /\ at = "bridge" /\ at' = "metar"
    /\ \E ok \in BOOLEAN :
        /\ bridge' = (bridge \/ (index # {} /\ ok))
        /\ faults' = IF bridge \/ index = {} \/ ok THEN faults ELSE faults + 1
        /\ faults' <= MaxFaults
    /\ touched' = IF bridge' THEN Moving ELSE {}
    /\ cooled' = [c \in Cities |-> IF c \in touched' THEN clock ELSE cooled[c]]
    /\ UNCHANGED <<clock, start, wakeAt, stamps, index, known, armed, saved, ticked, fed, since,
                   asked, slow, silent>>

-----------------------------------------------------------------------------
(* Observations.  A pull asks CheckWX for its airports and AWC for those CheckWX left out;  *)
(* what neither answers for is silent.                                                      *)
Answer(cs) == {got \in SUBSET cs : silent + Cardinality(cs \ got) <= MaxSilent}

(* One pull, its stamp moved only when somebody answered. *)
Pulled_OneStamp(cs, name, got) ==
    /\ silent' = silent + Cardinality(cs \ got)
    /\ stamps' = IF got = {} THEN stamps ELSE [stamps EXCEPT !["metar"] = clock']
    /\ asked' = Asked(cs, "metar")

Pulled(cs, name, got) ==
    /\ silent' = silent + Cardinality(cs \ got)
    /\ stamps' = IF got = {} THEN stamps ELSE [stamps EXCEPT ![name] = clock']
    /\ asked' = Asked(cs, "metar")

(* The full pull: any answer at all replaces every last good observation.  The pull of the  *)
(* armed airports, on its own cadence, in a cycle without the full pull.                    *)
FastMetarDue == armed # {} /\ Due("metar_fast", ArmMetar)

MetarStep ==
    /\ at = "metar"
    /\ LET full == Due("metar", IdleMetar) IN
        IF full \/ FastMetarDue
        THEN LET cs == IF full THEN Cities ELSE CitiesOf(armed) IN
             \E d \in {0, 1}, got \in Answer(cs) :
                /\ Takes(d)
                /\ Pulled(cs, IF full THEN "metar" ELSE "metar_fast", got)
                /\ known' = IF full /\ got # {} THEN got ELSE known \union got
                /\ at' = IF full THEN "feed" ELSE "early"
        ELSE /\ at' = "early"
             /\ UNCHANGED <<clock, slow, silent, stamps, asked, known>>
    /\ UNCHANGED <<start, wakeAt, index, armed, saved, bridge, ticked, cooled, touched, fed,
                   since, faults>>

(* The pull for the touched airports leaves out those with a last good observation, however *)
(* old; it moves no stamp.                                                                  *)
EarlyStep ==
    /\ at = "early" /\ at' = "feed"
    /\ LET cs == touched \ known IN
        IF cs = {}
        THEN UNCHANGED <<clock, slow, silent, asked, known>>
        ELSE \E d \in {0, 1}, got \in Answer(cs) :
                /\ Takes(d)
                /\ silent' = silent + Cardinality(cs \ got)
                /\ known' = known \union got
                /\ asked' = Asked(cs, "metar")
    /\ UNCHANGED <<start, wakeAt, stamps, index, armed, saved, bridge, ticked, cooled, touched,
                   fed, since, faults>>

(* The strategy is given the rules of today's date; which sessions it arms, fires or drops  *)
(* is its own affair (ReversalSession), but it arms only where it has an observation.  The  *)
(* cycle ends in a save and a sleep, or in a cycle error and the long sleep.                *)
RulesNow_All == index
RulesNow == index \intersect Today

SleepFor == IF armed' # {} THEN FastPoll ELSE Scan

FeedStep ==
    /\ at = "feed" /\ at' = "sleep"
    /\ fed' = RulesNow
    /\ \E new \in SUBSET {k \in RulesNow : k[1] \in known}, gone \in SUBSET (armed \intersect RulesNow) :
        armed' = (armed \ gone) \union new
    /\ since' = [k \in Keys |-> IF k \notin armed' \intersect fed' THEN Never
                                ELSE IF since[k] = Never THEN clock ELSE since[k]]
    /\ \/ saved' = armed' /\ wakeAt' = clock + SleepFor /\ UNCHANGED faults
       \/ /\ faults < MaxFaults /\ faults' = faults + 1
          /\ wakeAt' = clock + Scan
          /\ UNCHANGED saved
    /\ UNCHANGED <<clock, start, stamps, index, known, bridge, ticked, cooled, touched, asked,
                   slow, silent>>

-----------------------------------------------------------------------------
Sleep ==
    /\ at = "sleep" /\ clock < MaxClock
    /\ \/ /\ clock < wakeAt /\ clock' = clock + 1
          /\ UNCHANGED <<at, start, touched, fed>>
       \/ /\ clock >= wakeAt /\ at' = "rules" /\ start' = clock
          /\ touched' = {} /\ fed' = {}
          /\ UNCHANGED clock
    /\ UNCHANGED <<wakeAt, armed, saved, process, ghosts>>

(* A frame on the market of an armed session (the others move nothing here). *)
Tick(c) ==
    /\ bridge /\ c \in CitiesOf(armed) /\ ticked[c] # clock
    /\ ticked' = [ticked EXCEPT ![c] = clock]
    /\ UNCHANGED <<clock, armed, saved, stamps, index, known, bridge, cooled, main, ghosts>>

(* The process dies and is started again: every cache and stamp is gone. *)
Restart ==
    /\ faults < MaxFaults /\ faults' = faults + 1 /\ clock < MaxClock
    /\ stamps' = NoStamps /\ index' = {} /\ known' = {} /\ bridge' = FALSE
    /\ ticked' = [c \in Cities |-> Never] /\ cooled' = [c \in Cities |-> Never]
    /\ armed' = saved
    /\ at' = "rules" /\ start' = clock /\ wakeAt' = clock /\ touched' = {} /\ fed' = {}
    /\ since' = [k \in Keys |-> Never]
    /\ asked' = [c \in Cities |-> [f \in {"rules", "book", "metar"} |-> Never]]
    /\ UNCHANGED <<clock, saved, slow, silent>>

Next ==
    \/ RulesStep \/ BooksStep \/ BridgeStep \/ MetarStep \/ EarlyStep \/ FeedStep
    \/ Sleep \/ Restart
    \/ \E c \in Cities : Tick(c)

Spec == Init /\ [][Next]_vars

-----------------------------------------------------------------------------
(* The variables have their types, and no stamp lies in the future. *)
TypeOK ==
    /\ at \in {"rules", "books", "bridge", "metar", "early", "feed", "sleep"}
    /\ index \subseteq Keys /\ known \subseteq Cities /\ armed \subseteq Keys /\ saved \subseteq Keys
    /\ touched \subseteq Cities /\ fed \subseteq Keys /\ bridge \in BOOLEAN
    /\ \A n \in Cadences : stamps[n] \in {Never} \union 0..clock
    /\ start <= clock /\ clock <= MaxClock /\ DOMAIN ticked = Cities /\ DOMAIN cooled = Cities

(* Across local midnight the cached rules are yesterday's until the next refresh, while     *)
(* prune has already dropped the sessions they belong to: no rule of another date reaches   *)
(* the strategy, and no session of another date lives through a cycle.                      *)
FedToday == at = "sleep" => fed \subseteq Today /\ armed \subseteq Today

(* A session that has been armed, with its rule listed, for the armed interval stands on a  *)
(* ladder and an observation asked for within that interval of the cycle's start, whatever  *)
(* other sessions were armed meanwhile, whichever pulls failed and whoever shares the stamp.*)
ArmedFeedsHot ==
    at = "feed" => \A k \in armed \intersect index :
        since[k] # Never =>
            /\ start - since[k] >= ArmBook => start - asked[k[1]].book < ArmBook
            /\ start - since[k] >= ArmMetar => start - asked[k[1]].metar < ArmMetar

(* No city's rules or observation are left unasked for longer than the idle interval: no    *)
(* failure, partial answer, fast or early pull can postpone the full one.                   *)
EveryFeedPolled ==
    at = "feed" => \A c \in Cities : /\ start - asked[c].rules < RulesTTL
                                     /\ start - asked[c].metar < IdleMetar

(* A round of lookups in which every one failed blinds nobody: the index is never emptied   *)
(* while the process lives.                                                                 *)
RulesSurvive == [][index # {} /\ index' = {} => stamps' = NoStamps]_vars

(* Gamma is asked once an interval and never in every cycle, not even when it is down from  *)
(* the start.                                                                               *)
GammaNotStormed ==
    [][\A c \in Cities : asked'[c].rules > asked[c].rules /\ asked[c].rules # Never
            => clock - asked[c].rules >= RulesTTL]_vars

(* The refresh of the rules keeps its balance: it loses no rules to an outage and spares    *)
(* Gamma during one.                                                                        *)
RulesSteady == RulesSurvive /\ GammaNotStormed
=============================================================================
