------------------------------ MODULE SmokeOrder ------------------------------
(***************************************************************************)
(* run_smoke (src/live/smoke.py): one order that must not fill is placed,  *)
(* found, cancelled and looked for, each step a call to a venue that may   *)
(* lose the question or the answer, each but the writes audited to a log   *)
(* that may refuse.  The order goes through execute_leg of                 *)
(* src/live/v2_transport.py (its maker path) by submit.submit_order.       *)
(*                                                                         *)
(* Around it: the market moves and fills what rests, the account has other *)
(* orders, and the list of open orders may still show an order that is     *)
(* gone.                                                                   *)
(***************************************************************************)
EXTENDS SmokePlan

CONSTANTS
    Tokens,
    Sessions,       \* a sequence of sets of tokens: the sessions select_tradeable_bucket tries
    Books, Accounts,
    Commands,       \* the invocations: gates, preview, --token-id, --budget-usdc, --price
    OtherPrices,    \* what the account's other order may be priced at
    Attempts,       \* POLL_ATTEMPTS
    ListAttempts,   \* OPEN_ORDERS_ATTEMPTS
    MaxMoves,       \* bound: moves of the market and of other owners
    MaxFaults,      \* bound: lost calls
    MaxTurns        \* bound: times the log's disk fills up or is freed

GateRecords == [flag : BOOLEAN, env : BOOLEAN, phrase : {"today", "another day", "none"}]

ASSUME SmokeAssumption ==
    /\ Sessions \in Seq(SUBSET Tokens)
    /\ Books \subseteq [bid : 0..One, ask : 0..One, depth : Nat]
    /\ Accounts \subseteq [balance : Nat, values : Seq(Nat)]
    /\ Commands \subseteq [gates : GateRecords, readonly : BOOLEAN, pin : {"none"} \cup Tokens,
                           budget : Nat, override : Nat]
    /\ OtherPrices \subseteq 1..One
    /\ {Attempts, ListAttempts} \subseteq Nat \ {0} /\ {MaxMoves, MaxFaults, MaxTurns} \subseteq Nat

VARIABLES
    pc,
    args,           \* the command line and the gates
    books,          \* the venue's books
    mine, other,    \* the smoke order and another order of the account, at the venue
    log,            \* the audit log accepts a line
    token, seen,    \* market and book as selected
    snap, plan,
    limit,          \* the limit price after the clamp
    id,             \* order_id is known
    report,
    tries,
    wrote, touched, \* history: a write was sent; the other order was cancelled by it
    moves, faults, turns

venue == <<books, mine, other>>
run   == <<token, seen, snap, plan, limit, id, tries>>
ghost == <<wrote, touched, turns>>
vars  == <<pc, args, venue, log, run, report, ghost, moves, faults>>

-----------------------------------------------------------------------------
NoBook == [bid |-> None, ask |-> None, depth |-> 0]
NoSnap == [balance |-> 0, committed |-> 0, positions |-> 0]
Absent == [state |-> "none", price |-> None, matched |-> 0]

(* matched: 0 nothing, 1 some, 2 all of the order. *)
OrderStates == {"none", "sent", "live", "filled", "cancelled"}

NewReport == [ok |-> FALSE, residual |-> FALSE, filled |-> FALSE, confirmed |-> FALSE,
              after |-> "unread", rescued |-> "no", exit |-> 2]

Init ==
    /\ pc = "gates"
    /\ args \in Commands
    /\ books \in [Tokens -> Books]
    /\ mine = Absent
    /\ \E t \in Tokens, p \in OtherPrices :
          other = [state |-> "live", price |-> p, matched |-> 0, token |-> t]
    /\ log = "open"
    /\ token = "none" /\ seen = NoBook /\ snap = NoSnap /\ plan = NoPlan /\ limit = None
    /\ id = FALSE /\ report = NewReport /\ tries = 0
    /\ wrote = FALSE /\ touched = FALSE /\ moves = 0 /\ faults = 0 /\ turns = 0

-----------------------------------------------------------------------------
Fault == faults < MaxFaults /\ faults' = faults + 1
Fine  == UNCHANGED faults

(* step(): the line goes to the log before the run goes on; a log that refuses it raises. *)
Logged(then) == pc' = IF log = "open" THEN then ELSE "raised"

(* What is reported of a step only once its line is written. *)
Reports(r) == report' = IF log = "open" THEN r ELSE report

Stay(vs) == UNCHANGED <<args, venue, log, moves>> /\ UNCHANGED vs

(* The three gates, or the preview that needs none. *)
Gates ==
    /\ pc = "gates"
    /\ IF args.readonly \/ GatesPass(args.gates)
       THEN pc' = "prepare" /\ UNCHANGED report
       ELSE pc' = "end" /\ report' = [report EXCEPT !.exit = 3]
    /\ log = "open" /\ Fine /\ Stay(<<run, ghost>>)

(* Credentials, the client, and the sentinels that leave post_order and cancel_orders: all  *)
(* of it may raise, before there is anything to clean.                                      *)
Prepare ==
    /\ pc = "prepare"
    /\ \/ Logged("select") /\ Fine
       \/ pc' = "raised" /\ Fault
    /\ Stay(<<run, report, ghost>>)

(* The first session with a tradable bucket; a bucket whose book cannot be read is passed   *)
(* over, unless the operator named it.                                                      *)
FirstSession(readable) ==
    LET usable == {i \in DOMAIN Sessions : Best(Sessions[i] \cap readable, books) # {}}
    IN  IF usable = {} THEN {}
        ELSE Best(Sessions[CHOOSE i \in usable : \A j \in usable : i <= j] \cap readable, books)

Choices(readable) ==
    IF args.pin = "none" THEN FirstSession(readable)
    ELSE {t \in {args.pin} : Tradable(books[t])}

Select ==
    /\ pc = "select"
    /\ \/ \E readable \in SUBSET Tokens :
             /\ IF readable = Tokens THEN Fine ELSE Fault /\ args.pin = "none"
             /\ IF Choices(readable) = {}
                THEN Logged("end") /\ UNCHANGED <<token, seen>>
                ELSE \E t \in Choices(readable) :
                        token' = t /\ seen' = books[t] /\ Logged("preflight")
       \/ args.pin # "none" /\ Fault /\ pc' = "raised" /\ UNCHANGED <<token, seen>>
    /\ Stay(<<snap, plan, limit, id, tries, report, ghost>>)

(* Risk gate on a fresh snapshot, plan, limits, passivity against the book of the selection;*)
(* a read-only run stops here.                                                              *)
Cost(p) == p.size * p.price

Preflight ==
    LET built == PlanOrder(PriceChoice(seen, args.override), args.budget) IN
    /\ pc = "preflight"
    /\ \/ /\ Fault /\ Logged("end") /\ UNCHANGED <<snap, plan, report>>
       \/ /\ Fine
          /\ \E s \in {Collected(a) : a \in Accounts} :
                /\ snap' = s
                /\ plan' = IF RiskAllows(s) THEN built ELSE NoPlan
                /\ IF /\ RiskAllows(s) /\ built # NoPlan
                      /\ WithinLimits(Cost(built), s) /\ NonMarketable(built.price, seen)
                   THEN IF args.readonly
                        THEN /\ report' = [report EXCEPT !.ok = TRUE, !.exit = 0]
                             /\ Logged("end")
                        ELSE Logged("clamp") /\ UNCHANGED report
                   ELSE Logged("end") /\ UNCHANGED report
    /\ Stay(<<token, seen, limit, id, tries, ghost>>)

-----------------------------------------------------------------------------
(* execute_leg: a fresh book, or the price as planned under no book at all; the intent must *)
(* be on the log before the order is sent.                                                  *)
Clamp ==
    /\ pc = "clamp"
    /\ \/ Fine  /\ limit' = Clamped(plan.price, books[token])
       \/ Fault /\ limit' = None            \* no fresh book, and the caller passes none
    /\ pc' = IF limit' = None THEN "unsent" ELSE IF log = "open" THEN "post" ELSE "submit raised"
    /\ Stay(<<token, seen, snap, plan, id, tries, report, ghost>>)

(* A refusal of execute_leg comes back as a result without an order id: a residual risk. *)
Unsent ==
    /\ pc = "unsent"
    /\ pc' = "end" /\ report' = [report EXCEPT !.residual = TRUE]
    /\ Fine /\ Stay(<<run, ghost>>)

(* The one post.  post_only: an order that would cross is refused.  The answer may be lost, *)
(* and the order may land although, even later, unless the venue never saw it.              *)
Crosses == books[token].ask # None /\ limit >= books[token].ask

Post ==
    /\ pc = "post"
    /\ wrote' = TRUE
    /\ \/ /\ ~Crosses /\ Fine
          /\ mine' = [state |-> "live", price |-> limit, matched |-> 0]
          /\ pc' = IF log = "open" THEN "poll" ELSE "submit raised"
          /\ id' = (log = "open")
       \/ /\ Crosses /\ Fine
          /\ UNCHANGED <<mine, id>>
          /\ pc' = IF log = "open" THEN "unsent" ELSE "submit raised"
       \/ /\ ~Crosses /\ Fault
          /\ \E s \in {"none", "sent", "live"} :
                mine' = [state |-> s, price |-> limit, matched |-> 0]
          /\ UNCHANGED id
          /\ pc' = IF log = "open" THEN "unsent" ELSE "submit raised"
    /\ UNCHANGED <<args, books, other, log, token, seen, snap, plan, limit, report, tries,
                   touched, turns, moves>>

(* poll_fill: the fill so far, then the confirmation. *)
Poll ==
    /\ pc = "poll"
    /\ \/ Fine  /\ report' = [report EXCEPT !.filled = mine.matched > 0]
       \/ Fault /\ UNCHANGED report
    /\ pc' = "verify" /\ tries' = 0
    /\ Stay(<<token, seen, snap, plan, limit, id, ghost>>)

(* An exception of the submission: audited, flagged, and cleaned up by token and price. *)
SubmitRaised ==
    /\ pc = "submit raised"
    /\ IF log = "open"
       THEN pc' = "scan" /\ report' = [report EXCEPT !.residual = TRUE, !.rescued = "submit"]
       ELSE pc' = "raised" /\ UNCHANGED report
    /\ Fine /\ Stay(<<run, ghost>>)

-----------------------------------------------------------------------------
(* verify_order before the cancel.  A fill ends it at once; what still rests of the order   *)
(* is cancelled.  A partial fill is told by its status or by its size.                      *)
Verify ==
    /\ pc = "verify"
    /\ \/ /\ Fault                                                \* get_order_failed
          /\ Reports([report EXCEPT !.residual = TRUE]) /\ Logged("list") /\ tries' = 0
       \/ /\ Fine /\ mine.matched > 0
          /\ report' = [report EXCEPT !.filled = TRUE] /\ tries' = 0
          /\ \/ mine.state = "live" /\ Logged("cancel")           \* status live
             \/ Logged("list")                                    \* filled, or partially_filled
       \/ /\ Fine /\ mine.state = "live" /\ mine.matched = 0
          /\ report' = [report EXCEPT !.confirmed = TRUE] /\ Logged("cancel") /\ tries' = 0
       \/ /\ Fine /\ mine.state = "cancelled" /\ mine.matched = 0
          /\ IF tries + 1 < Attempts
             THEN tries' = tries + 1 /\ UNCHANGED <<pc, report>>
             ELSE /\ tries' = 0 /\ Logged("list")
                  /\ Reports([report EXCEPT !.residual = TRUE])
    /\ Stay(<<token, seen, snap, plan, limit, id, ghost>>)

(* cancel_with_retry: three calls.  They confirm the cancel of an order that rests, if an   *)
(* answer gets through; unconfirmed, the order may rest or not.                             *)
CancelOutcomes_Any(o) == {[ok |-> TRUE, then |-> o, fault |-> TRUE]}
CancelOutcomes(o) ==
    IF o.state = "live"
    THEN {[ok |-> TRUE,  then |-> [o EXCEPT !.state = "cancelled"], fault |-> FALSE],
          [ok |-> FALSE, then |-> [o EXCEPT !.state = "cancelled"], fault |-> TRUE],
          [ok |-> FALSE, then |-> o,                                fault |-> TRUE]}
    ELSE {[ok |-> FALSE, then |-> o, fault |-> FALSE]}

Cancel ==
    /\ pc = "cancel"
    /\ \E c \in CancelOutcomes(mine) :
          /\ IF c.fault THEN Fault ELSE Fine
          /\ mine' = c.then
          /\ report' = [report EXCEPT !.residual = @ \/ ~c.ok]
    /\ wrote' = TRUE /\ pc' = "gone" /\ tries' = 0
    /\ UNCHANGED <<args, books, other, log, token, seen, snap, plan, limit, id, touched, turns, moves>>

(* verify_order after it: cancelled without a fill, or a residual risk. *)
IsGone_AnyFill(o) == o.state = "cancelled"
IsGone(o) == o.state = "cancelled" /\ o.matched = 0

Gone ==
    /\ pc = "gone"
    /\ \/ /\ Fault                                                \* get_order_failed
          /\ Reports([report EXCEPT !.residual = TRUE])
          /\ tries' = 0 /\ Logged("list")
       \/ /\ Fine /\ IsGone(mine)
          /\ Reports(IF report.residual THEN [report EXCEPT !.after = "cancelled"]
                     ELSE [report EXCEPT !.after = "cancelled", !.ok = TRUE, !.exit = 0])
          /\ tries' = 0 /\ Logged("list")
       \/ /\ Fine /\ mine.matched > 0 /\ ~IsGone(mine)
          /\ Reports([report EXCEPT !.residual = TRUE, !.after = mine.state])
          /\ tries' = 0 /\ Logged("list")
       \/ /\ Fine /\ mine.matched = 0 /\ mine.state = "live"
          /\ IF tries + 1 < Attempts
             THEN tries' = tries + 1 /\ UNCHANGED <<pc, report>>
             ELSE /\ Reports([report EXCEPT !.residual = TRUE, !.after = "live"])
                  /\ tries' = 0 /\ Logged("list")
    /\ Stay(<<token, seen, snap, plan, limit, id, ghost>>)

-----------------------------------------------------------------------------
(* The list of open orders: what rests, and perhaps what no longer does. *)
Listings ==
    LET named(states) == {n \in {"mine", "other"} :
                             (IF n = "mine" THEN mine.state ELSE other.state) \in states}
    IN  {named({"live"}) \cup past : past \in SUBSET named({"filled", "cancelled"})}

CancelConfirmed == report.confirmed /\ report.after = "cancelled"

(* await_no_open_orders, then its record.  The last of its refusals has no "note", and the  *)
(* record reads it: a KeyError, with whatever was reported so far.                          *)
List ==
    /\ pc = "list"
    /\ \/ /\ Fault /\ tries' = 0 /\ Logged("not clear")
       \/ /\ Fine
          /\ \E ids \in Listings :
                \/ ids = {} /\ tries' = 0 /\ Logged("settle")
                \/ /\ ids # {} /\ "mine" \notin ids
                   /\ tries' = 0 /\ Logged("not clear")
                \/ /\ "mine" \in ids /\ tries + 1 < ListAttempts
                   /\ tries' = tries + 1 /\ UNCHANGED pc
                \/ /\ "mine" \in ids /\ tries + 1 = ListAttempts
                   /\ tries' = 0
                   /\ IF CancelConfirmed /\ ids = {"mine"}
                      THEN Logged("not clear") ELSE pc' = "raised"
    /\ Stay(<<token, seen, snap, plan, limit, id, report, ghost>>)

(* The reconciliation, audited; the orders it counts itself are only noted. *)
NotClear ==
    /\ pc = "not clear"
    /\ Logged("end")
    /\ Reports([report EXCEPT !.ok = FALSE, !.residual = TRUE, !.exit = 2])
    /\ Fine /\ Stay(<<run, ghost>>)

Settle == /\ pc = "settle" /\ Logged("end")
          /\ Fine /\ Stay(<<run, report, ghost>>)

-----------------------------------------------------------------------------
(* The outer except: its own line first; if that fails too, nothing is left to catch it.    *)
Scoped == id \/ plan # NoPlan

MayRescue == ~args.readonly /\ Scoped

RescueStep_ById == "by id"
RescueStep == IF id THEN "by id" ELSE "scan"

Raised ==
    /\ pc = "raised"
    /\ pc' = IF log # "open" THEN "escaped"
             ELSE IF ~MayRescue THEN "end" ELSE RescueStep
    /\ report' = IF log # "open" THEN report
                 ELSE IF ~MayRescue THEN [report EXCEPT !.residual = FALSE, !.exit = 2]
                 ELSE [report EXCEPT !.rescued = "run", !.exit = 2]
    /\ Fine /\ Stay(<<run, ghost>>)

(* rescue_cancel: by the id, *)
ById ==
    /\ pc = "by id"
    /\ \E c \in CancelOutcomes(mine) :
          /\ IF c.fault THEN Fault ELSE Fine
          /\ mine' = c.then
          /\ IF c.ok THEN report' = [report EXCEPT !.residual = FALSE] /\ pc' = "rescued"
             ELSE pc' = "scan" /\ UNCHANGED report
    /\ wrote' = TRUE
    /\ UNCHANGED <<args, books, other, log, run, touched, turns, moves>>

(* or every open order of the token at the price of the plan.  The list names an order that *)
(* is gone as well: its cancel is not confirmed.  A submission that raised stays flagged.   *)
Matches_AnyPrice(ids, o, name, tok) == name \in ids /\ tok = token
Matches(ids, o, name, tok) == name \in ids /\ tok = token /\ o.price = plan.price

Scan ==
    /\ pc = "scan"
    /\ \/ /\ Fault                                                \* list_failed
          /\ report' = [report EXCEPT !.residual = TRUE]
          /\ UNCHANGED <<mine, other, wrote, touched>>
       \/ \E ids \in Listings :
            LET m == Matches(ids, mine, "mine", token)
                o == Matches(ids, other, "other", other.token)
            IN  \E cm \in IF m THEN CancelOutcomes(mine) ELSE {[ok |-> TRUE, then |-> mine, fault |-> FALSE]},
                   co \in IF o THEN CancelOutcomes(other) ELSE {[ok |-> TRUE, then |-> other, fault |-> FALSE]} :
                   /\ IF cm.fault \/ co.fault THEN Fault ELSE Fine
                   /\ mine' = cm.then /\ other' = co.then
                   /\ wrote' = (wrote \/ m \/ o)
                   /\ touched' = (touched \/ o)
                   /\ report' = [report EXCEPT !.residual =
                                    IF report.rescued = "submit" THEN TRUE
                                    ELSE ~(cm.ok /\ co.ok)]
    /\ pc' = "rescued"
    /\ UNCHANGED <<args, books, log, run, turns, moves>>

(* The line about the rescue; after a submission that raised, a log that refuses it leads   *)
(* to the outer except.                                                                     *)
Rescued ==
    /\ pc = "rescued"
    /\ IF log = "open" THEN pc' = "end" /\ UNCHANGED report
       ELSE IF report.rescued = "submit" THEN pc' = "raised" /\ UNCHANGED report
       ELSE pc' = "rescue failed" /\ report' = [report EXCEPT !.residual = TRUE]
    /\ Fine /\ Stay(<<run, ghost>>)

RescueFailed ==
    /\ pc = "rescue failed"
    /\ pc' = IF log = "open" THEN "end" ELSE "escaped"
    /\ Fine /\ Stay(<<run, report, ghost>>)

-----------------------------------------------------------------------------
(* The market and the other owners. *)
Move == /\ moves < MaxMoves /\ moves' = moves + 1
        /\ pc \notin {"end", "escaped"}
        /\ UNCHANGED <<pc, args, run, report, ghost, faults>>

BookMoves ==
    /\ Move
    /\ \E t \in Tokens, b \in Books : books' = [books EXCEPT ![t] = b]
    /\ UNCHANGED <<mine, other, log>>

(* What rests fills, a part or the rest of it. *)
Fills ==
    /\ Move /\ mine.state = "live"
    /\ \E m \in {1, 2} :
          /\ m > mine.matched
          /\ mine' = [mine EXCEPT !.matched = m, !.state = IF m = 2 THEN "filled" ELSE "live"]
    /\ UNCHANGED <<books, other, log>>

(* An order whose answer was lost lands late. *)
Lands ==
    /\ Move /\ mine.state = "sent"
    /\ mine' = [mine EXCEPT !.state = IF Crosses THEN "none" ELSE "live"]
    /\ UNCHANGED <<books, other, log>>

(* The owner cancels the other order, or the smoke order, by hand. *)
OwnerCancels ==
    /\ Move
    /\ \/ other.state = "live" /\ other' = [other EXCEPT !.state = "cancelled"] /\ UNCHANGED mine
       \/ mine.state = "live" /\ mine' = [mine EXCEPT !.state = "cancelled"] /\ UNCHANGED other
    /\ UNCHANGED <<books, log>>

(* The disk of the log fills up, or is freed. *)
LogTurns ==
    /\ turns < MaxTurns /\ turns' = turns + 1
    /\ pc \notin {"gates", "end", "escaped"}
    /\ log' = IF log = "open" THEN "full" ELSE "open"
    /\ UNCHANGED <<pc, args, venue, run, report, wrote, touched, moves, faults>>

-----------------------------------------------------------------------------
Smoke == \/ Gates \/ Prepare \/ Select \/ Preflight \/ Clamp \/ Unsent \/ Post \/ Poll
         \/ SubmitRaised \/ Verify \/ Cancel \/ Gone \/ List \/ NotClear \/ Settle
         \/ Raised \/ ById \/ Scan \/ Rescued \/ RescueFailed

Next == Smoke \/ BookMoves \/ Fills \/ Lands \/ OwnerCancels \/ LogTurns

Spec == Init /\ [][Next]_vars

-----------------------------------------------------------------------------
Steps == {"gates", "prepare", "select", "preflight", "clamp", "unsent", "post", "poll",
          "submit raised", "verify", "cancel", "gone", "list", "not clear", "settle",
          "raised", "by id", "scan", "rescued", "rescue failed", "end", "escaped"}

(* The variables have their types; an id is known only of an order the venue has, and a     *)
(* call that names the order is made only with its id.                                      *)
TypeOK ==
    /\ pc \in Steps /\ log \in {"open", "full"}
    /\ mine.state \in OrderStates /\ mine.matched \in 0..2
    /\ other.state \in {"live", "cancelled"}
    /\ limit \in 0..One /\ plan.price \in 0..One /\ tries \in 0..(Attempts + ListAttempts)
    /\ report.exit \in {0, 2, 3}
    /\ id => mine.state \notin {"none", "sent"}
    /\ pc \in {"poll", "verify", "cancel", "gone", "list", "by id"} => id

(* A report that says ok after a real order was sent is true: the order is cancelled at the *)
(* venue and not a share of it was filled.  smoke.py's purpose: the place, query, cancel    *)
(* loop worked.                                                                             *)
OkMeansGone ==
    pc = "end" /\ report.ok /\ ~args.readonly => IsGone(mine) /\ mine.matched = 0

(* A write reaches the venue only in an invocation that passed the three gates, as the code *)
(* has them (a phrase of another day passes), and did not ask for the preview, whatever     *)
(* failed on the way (the rescue cancels too).                                              *)
WritesNeedGates == wrote => GatesPass(args.gates) /\ ~args.readonly

(* rescue_cancel "must never become a cancel everything button": the account's other order  *)
(* is cancelled only when it cannot be told from the smoke order.                           *)
OthersUntouched == touched => other.token = token /\ other.price = plan.price

(* Every write of a run, the rescue's included, is permitted and hits what it was meant for *)
(* (the gates of run_smoke, the scope of rescue_cancel).                                    *)
WritesScoped == WritesNeedGates /\ OthersUntouched

(* What rests costs no more than the caller's budget, the fire budget, the free balance and *)
(* the room under the capital cap of the snapshot, and no more than the cap on the price:   *)
(* risk gate, plan, limits and clamp together.                                              *)
SpendWithinLimits ==
    mine.state # "none" =>
        /\ plan.size * mine.price <= args.budget /\ plan.size * mine.price <= FireBudget
        /\ plan.size * mine.price <= snap.balance
        /\ snap.committed + plan.size * mine.price <= MaxCapital
        /\ mine.price <= Cap /\ plan.size >= MinSize

(* A run that comes back without a residual risk leaves nothing resting, except where the   *)
(* rescue went by the list and found no order: the clamp had moved it off the price of the  *)
(* plan, or it landed after the list was read and its id was never learnt.                  *)
SilentOnlyByList ==
    pc = "end" /\ mine.state = "live" /\ ~report.residual =>
        report.rescued = "run" /\ (mine.price # plan.price \/ ~id)

(* The phrase "makes stale replay (yesterday's command line, an old script, a copied        *)
(* shell-history entry) fail" (submit.py:24-27): whatever is written was confirmed today.   *)
PhraseOfToday == wrote => args.gates.phrase = "today"

(* What the tool promises: "Any failure: cancel what we can, then report the residual risk  *)
(* explicitly - never a silent 'probably fine'" (smoke.py).                                 *)
ResidualReported == pc = "end" /\ mine.state = "live" => report.residual
=============================================================================
