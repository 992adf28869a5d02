--------------------------- MODULE SmokeOrderProofs ---------------------------
(* Proofs about SmokeOrder, for any tokens, books, accounts, commands and bounds: what      *)
(* reaches the venue, whom it touches, what it may cost, and what a report that says ok, or *)
(* says nothing, is worth.  IInv knows the place of the run: which steps a preview never    *)
(* reaches, and that nothing is reported, cancelled or sent before the order is.  Complete  *)
(* adds the types, the id (Identified), the worth of the plan (Budgeted) and what each step *)
(* of a rescue has ruled out (Rescues).                                                     *)
EXTENDS SmokeOrder, FiniteSums, TLAPS

Before == {"gates", "prepare", "select", "preflight"}
Placing == {"clamp", "post"}
After  == {"unsent", "poll", "submit raised", "verify", "cancel", "gone", "list", "not clear",
           "settle", "by id", "scan", "rescued", "rescue failed"}
Over   == {"raised", "end", "escaped"}

Fields == {"ok", "residual", "filled", "confirmed", "after", "rescued", "exit"}

(* The shape of the records the steps update. *)
Shape ==
    /\ pc \in Before \union Placing \union After \union Over
    /\ DOMAIN report = Fields
    /\ DOMAIN mine = {"state", "price", "matched"}
    /\ DOMAIN other = {"state", "price", "matched", "token"}

(* Behind the gates; past the preview as well; and no write without both. *)
Permission ==
    /\ pc \in (Before \ {"gates"}) \union {"raised"} => args.readonly \/ GatesPass(args.gates)
    /\ pc \in Placing \union After => ~args.readonly /\ GatesPass(args.gates)
    /\ wrote => ~args.readonly /\ GatesPass(args.gates)

(* Until the order is posted the account has not been touched and nothing says ok. *)
Untouched ==
    /\ pc \in Before \union Placing => ~touched /\ ~report.ok
    /\ OthersUntouched

(* Once the report says ok the order is gone, and what is gone does not come back. *)
Truthful == report.ok /\ ~args.readonly => IsGone(mine)

IInv == Shape /\ Permission /\ Untouched /\ Truthful
-----------------------------------------------------------------------------
LEMMA InitInv == Init => IInv
<1> SUFFICES ASSUME Init PROVE IInv
  OBVIOUS
<1>1. /\ pc = "gates" /\ report = NewReport /\ mine = Absent
      /\ DOMAIN other = {"state", "price", "matched", "token"}
      /\ wrote = FALSE /\ touched = FALSE
  BY DEF Init
<1>2. DOMAIN report = Fields /\ ~report.ok
  BY <1>1 DEF NewReport, Fields
<1>3. Shape
  BY <1>1, <1>2 DEF Shape, Before, Absent
<1>4. Permission /\ Untouched
  BY <1>1, <1>2 DEF Permission, Untouched, OthersUntouched, Before, Placing, After
<1>5. Truthful
  BY <1>2 DEF Truthful
<1> QED
  BY <1>3, <1>4, <1>5 DEF IInv

(* A step that sends nothing and cancels nothing keeps the invariant if it leads where its  *)
(* place allows and does not make the report say ok.                                        *)
LEMMA Quiet ==
    ASSUME IInv, UNCHANGED <<args, mine, other, wrote, touched>>,
           DOMAIN report' = Fields, report'.ok => report.ok,
           pc' \in Before \union Placing \union After \union Over,
           pc' \in (Before \ {"gates"}) \union {"raised"} =>
               pc \in (Before \ {"gates"}) \union {"raised"} \union Placing \union After
                 \/ args.readonly \/ GatesPass(args.gates),
           pc' \in Placing \union After =>
               pc \in Placing \union After \/ (~args.readonly /\ GatesPass(args.gates)),
           pc' \in Before \union Placing => pc \in Before \union Placing,
           pc \notin Before => token' = token /\ plan' = plan
    PROVE  IInv'
<1>1. Shape'
  BY DEF IInv, Shape
<1>2. Permission'
  BY DEF IInv, Permission
<1>3. Untouched'
  BY DEF IInv, Untouched, OthersUntouched
<1>4. Truthful'
  BY DEF IInv, Truthful
<1> QED
  BY <1>1, <1>2, <1>3, <1>4 DEF IInv

(* The same for a step taken after the order was sent. *)
LEMMA QuietAfter ==
    ASSUME IInv, pc \in After, pc' \in After \union Over,
           UNCHANGED <<args, mine, other, wrote, touched, token, plan>>,
           DOMAIN report' = Fields, report'.ok => report.ok
    PROVE  IInv'
<1>1. pc' \notin Before \union Placing
  BY DEF Before, Placing, After, Over
<1>2. token' = token /\ plan' = plan
  OBVIOUS
<1> QED
  BY <1>1, <1>2, Quiet

-----------------------------------------------------------------------------
LEMMA GatesKeep == IInv /\ Gates => IInv'
<1> SUFFICES ASSUME IInv, Gates PROVE IInv'
  OBVIOUS
<1>1. /\ pc = "gates" /\ UNCHANGED <<args, mine, other, wrote, touched, token, plan>>
      /\ pc' = "end" \/ (pc' = "prepare" /\ (args.readonly \/ GatesPass(args.gates)))
  BY DEF Gates, Stay, venue, run, ghost
<1>2. DOMAIN report' = Fields /\ (report'.ok => report.ok)
  BY DEF Gates, IInv, Shape, Fields
<1> QED
  BY <1>1, <1>2, Quiet DEF Before, Placing, After, Over

LEMMA PrepareKeep == IInv /\ Prepare => IInv'
<1> SUFFICES ASSUME IInv, Prepare PROVE IInv'
  OBVIOUS
<1>1. /\ pc = "prepare" /\ UNCHANGED <<args, mine, other, wrote, touched, token, plan, report>>
      /\ pc' \in {"select", "raised"}
  BY DEF Prepare, Stay, venue, run, ghost, Logged
<1>2. DOMAIN report' = Fields /\ (report'.ok => report.ok)
  BY <1>1 DEF IInv, Shape
<1> QED
  BY <1>1, <1>2, Quiet DEF Before, Placing, After, Over

LEMMA SelectKeep == IInv /\ Select => IInv'
<1> SUFFICES ASSUME IInv, Select PROVE IInv'
  OBVIOUS
<1>1. /\ pc = "select" /\ UNCHANGED <<args, mine, other, wrote, touched, plan, report>>
      /\ pc' \in {"preflight", "end", "raised"}
  BY DEF Select, Stay, venue, ghost, Logged
<1>2. DOMAIN report' = Fields /\ (report'.ok => report.ok)
  BY <1>1 DEF IInv, Shape
<1> QED
  BY <1>1, <1>2, Quiet DEF Before, Placing, After, Over

(* Of a preview that says ok nothing is claimed; another run goes on to the clamp. *)
LEMMA PreflightKeep == IInv /\ Preflight => IInv'
<1> SUFFICES ASSUME IInv, Preflight PROVE IInv'
  OBVIOUS
<1>1. pc = "preflight" /\ UNCHANGED <<args, mine, other, wrote, touched, token>>
  BY DEF Preflight, Stay, venue, ghost
<1>2. \/ pc' \in {"end", "raised"} /\ report' = report
      \/ pc' \in {"end", "raised"} /\ args.readonly /\ DOMAIN report' = Fields
      \/ pc' \in {"clamp", "raised"} /\ ~args.readonly /\ report' = report
  BY DEF Preflight, Logged, IInv, Shape, Fields
<1>3. args.readonly \/ GatesPass(args.gates)
  BY <1>1 DEF IInv, Permission, Before
<1>4. DOMAIN report' = Fields
  BY <1>2 DEF IInv, Shape
<1>5. Shape' /\ Permission'
  BY <1>1, <1>2, <1>3, <1>4 DEF IInv, Shape, Permission, Before, Placing, After, Over
<1>6. ~touched /\ ~report.ok
  BY <1>1 DEF IInv, Untouched, Before
<1>7. Untouched' /\ Truthful'
  BY <1>1, <1>2, <1>6 DEF Untouched, OthersUntouched, Truthful, Before, Placing
<1> QED
  BY <1>5, <1>7 DEF IInv

LEMMA ClampKeep == IInv /\ Clamp => IInv'
<1> SUFFICES ASSUME IInv, Clamp PROVE IInv'
  OBVIOUS
<1>1. /\ pc = "clamp" /\ UNCHANGED <<args, mine, other, wrote, touched, token, plan, report>>
      /\ pc' \in {"unsent", "post", "submit raised"}
  BY DEF Clamp, Stay, venue, ghost
<1>2. DOMAIN report' = Fields /\ (report'.ok => report.ok)
  BY <1>1 DEF IInv, Shape
<1>3. pc \in Placing /\ pc' \in Placing \union After /\ pc' \notin Before \union {"raised"}
  BY <1>1 DEF Before, Placing, After
<1>4. token' = token /\ plan' = plan
  BY <1>1
<1> QED
  BY <1>1, <1>2, <1>3, <1>4, Quiet

LEMMA PostKeep == IInv /\ Post => IInv'
<1> SUFFICES ASSUME IInv, Post PROVE IInv'
  OBVIOUS
<1>1. /\ pc = "post" /\ pc' \in {"poll", "submit raised", "unsent"}
      /\ UNCHANGED <<args, other, token, plan, report, touched>>
  BY DEF Post
<1>2. DOMAIN mine' = {"state", "price", "matched"}
  BY DEF Post, IInv, Shape
<1>3. ~args.readonly /\ GatesPass(args.gates) /\ ~report.ok /\ ~touched
  BY <1>1 DEF IInv, Permission, Untouched, Placing
<1>4. Shape' /\ Permission'
  BY <1>1, <1>2, <1>3 DEF IInv, Shape, Permission, Before, Placing, After, Over
<1>5. Untouched' /\ Truthful'
  BY <1>1, <1>3 DEF Untouched, OthersUntouched, Truthful, Before, Placing
<1> QED
  BY <1>4, <1>5 DEF IInv

LEMMA UnsentKeep == IInv /\ Unsent => IInv'
<1> SUFFICES ASSUME IInv, Unsent PROVE IInv'
  OBVIOUS
<1>1. /\ pc = "unsent" /\ pc' = "end" /\ report' = [report EXCEPT !.residual = TRUE]
      /\ UNCHANGED <<args, mine, other, wrote, touched, token, plan>>
  BY DEF Unsent, Stay, venue, run, ghost
<1>2. DOMAIN report' = Fields /\ (report'.ok => report.ok)
  BY <1>1 DEF IInv, Shape, Fields
<1> QED
  BY <1>1, <1>2, QuietAfter DEF After, Over

LEMMA PollKeep == IInv /\ Poll => IInv'
<1> SUFFICES ASSUME IInv, Poll PROVE IInv'
  OBVIOUS
<1>1. /\ pc = "poll" /\ pc' = "verify"
      /\ UNCHANGED <<args, mine, other, wrote, touched, token, plan>>
  BY DEF Poll, Stay, venue, ghost
<1>2. DOMAIN report' = Fields /\ (report'.ok => report.ok)
  BY DEF Poll, IInv, Shape, Fields
<1> QED
  BY <1>1, <1>2, QuietAfter DEF After, Over

LEMMA SubmitRaisedKeep == IInv /\ SubmitRaised => IInv'
<1> SUFFICES ASSUME IInv, SubmitRaised PROVE IInv'
  OBVIOUS
<1>1. /\ pc = "submit raised" /\ pc' \in {"scan", "raised"}
      /\ UNCHANGED <<args, mine, other, wrote, touched, token, plan>>
  BY DEF SubmitRaised, Stay, venue, run, ghost
<1>2. DOMAIN report' = Fields /\ (report'.ok => report.ok)
  BY DEF SubmitRaised, IInv, Shape, Fields
<1> QED
  BY <1>1, <1>2, QuietAfter DEF After, Over

LEMMA VerifyKeep == IInv /\ Verify => IInv'
<1> SUFFICES ASSUME IInv, Verify PROVE IInv'
  OBVIOUS
<1>1. /\ pc = "verify" /\ pc' \in {"verify", "list", "cancel", "raised"}
      /\ UNCHANGED <<args, mine, other, wrote, touched, token, plan>>
  BY DEF Verify, Logged, Stay, venue, ghost
<1>2. DOMAIN report' = Fields /\ (report'.ok => report.ok)
  BY DEF Verify, Reports, IInv, Shape, Fields
<1> QED
  BY <1>1, <1>2, QuietAfter DEF After, Over

(* A cancel disturbs no order that is gone. *)
LEMMA CancelGone ==
    ASSUME NEW o, NEW c \in CancelOutcomes(o)
    PROVE  /\ IsGone(o) => c.then = o
           /\ DOMAIN c.then = DOMAIN o
           /\ \A f : f # "state" /\ f \in DOMAIN o => c.then[f] = o[f]
  BY DEF CancelOutcomes, IsGone

(* The two steps that cancel the smoke order and nothing else. *)
LEMMA CancelMineKeep ==
    ASSUME IInv, pc \in After, pc' \in After \union Over,
           \E c \in CancelOutcomes(mine) : mine' = c.then,
           UNCHANGED <<args, other, touched, token, plan>>,
           DOMAIN report' = Fields, report'.ok => report.ok
    PROVE  IInv'
<1>1. DOMAIN mine' = DOMAIN mine /\ (IsGone(mine) => mine' = mine)
  BY CancelGone
<1>2. ~args.readonly /\ GatesPass(args.gates)
  BY DEF IInv, Permission
<1>3. pc' \notin Before \union Placing
  BY DEF Before, Placing, After, Over
<1>4. Shape' /\ Permission'
  BY <1>1, <1>2 DEF IInv, Shape, Permission
<1>5. Untouched'
  BY <1>3 DEF IInv, Untouched, OthersUntouched
<1>6. Truthful'
  BY <1>1 DEF IInv, Truthful
<1> QED
  BY <1>4, <1>5, <1>6 DEF IInv

LEMMA CancelKeep == IInv /\ Cancel => IInv'
<1> SUFFICES ASSUME IInv, Cancel PROVE IInv'
  OBVIOUS
<1>1. /\ pc = "cancel" /\ pc' = "gone"
      /\ UNCHANGED <<args, other, touched, token, plan>>
      /\ \E c \in CancelOutcomes(mine) : mine' = c.then
  BY DEF Cancel
<1>2. DOMAIN report' = Fields /\ (report'.ok => report.ok)
  BY DEF Cancel, IInv, Shape, Fields
<1> QED
  BY <1>1, <1>2, CancelMineKeep DEF After, Over

LEMMA ByIdKeep == IInv /\ ById => IInv'
<1> SUFFICES ASSUME IInv, ById PROVE IInv'
  OBVIOUS
<1>1. /\ pc = "by id" /\ pc' \in {"rescued", "scan"}
      /\ UNCHANGED <<args, other, touched, token, plan>>
      /\ \E c \in CancelOutcomes(mine) : mine' = c.then
  BY DEF ById, run
<1>2. DOMAIN report' = Fields /\ (report'.ok => report.ok)
  BY DEF ById, IInv, Shape, Fields
<1> QED
  BY <1>1, <1>2, CancelMineKeep DEF After, Over

(* The only step that makes the report say ok, and it has seen the order gone. *)
LEMMA GoneKeep == IInv /\ Gone => IInv'
<1> SUFFICES ASSUME IInv, Gone PROVE IInv'
  OBVIOUS
<1>1. /\ pc = "gone" /\ pc' \in {"gone", "list", "raised"}
      /\ UNCHANGED <<args, mine, other, wrote, touched, token, plan>>
  BY DEF Gone, Logged, Stay, venue, ghost
<1>2. DOMAIN report' = Fields
  BY DEF Gone, Reports, IInv, Shape, Fields
<1>3. report'.ok => report.ok \/ IsGone(mine)
  BY DEF Gone, Reports, IInv, Shape, Fields
<1>4. ~args.readonly /\ GatesPass(args.gates)
  BY <1>1 DEF IInv, Permission, After
<1>5. Shape' /\ Permission'
  BY <1>1, <1>2, <1>4 DEF IInv, Shape, Permission, After, Over
<1>6. Untouched'
  BY <1>1 DEF IInv, Untouched, OthersUntouched, Before, Placing
<1>7. Truthful'
  BY <1>1, <1>3 DEF IInv, Truthful
<1> QED
  BY <1>5, <1>6, <1>7 DEF IInv

LEMMA ListKeep == IInv /\ List => IInv'
<1> SUFFICES ASSUME IInv, List PROVE IInv'
  OBVIOUS
<1>1. /\ pc = "list" /\ pc' \in {"list", "settle", "not clear", "raised"} /\ report' = report
      /\ UNCHANGED <<args, mine, other, wrote, touched, token, plan>>
  BY DEF List, Logged, Stay, venue, ghost
<1>2. DOMAIN report' = Fields /\ (report'.ok => report.ok)
  BY <1>1 DEF IInv, Shape
<1> QED
  BY <1>1, <1>2, QuietAfter DEF After, Over

LEMMA NotClearKeep == IInv /\ NotClear => IInv'
<1> SUFFICES ASSUME IInv, NotClear PROVE IInv'
  OBVIOUS
<1>1. /\ pc = "not clear" /\ pc' \in {"end", "raised"}
      /\ UNCHANGED <<args, mine, other, wrote, touched, token, plan>>
  BY DEF NotClear, Logged, Stay, venue, run, ghost
<1>2. DOMAIN report' = Fields /\ (report'.ok => report.ok)
  BY DEF NotClear, Reports, IInv, Shape, Fields
<1> QED
  BY <1>1, <1>2, QuietAfter DEF After, Over

LEMMA SettleKeep == IInv /\ Settle => IInv'
<1> SUFFICES ASSUME IInv, Settle PROVE IInv'
  OBVIOUS
<1>1. /\ pc = "settle" /\ pc' \in {"end", "raised"} /\ report' = report
      /\ UNCHANGED <<args, mine, other, wrote, touched, token, plan>>
  BY DEF Settle, Logged, Stay, venue, run, ghost
<1>2. DOMAIN report' = Fields /\ (report'.ok => report.ok)
  BY <1>1 DEF IInv, Shape
<1> QED
  BY <1>1, <1>2, QuietAfter DEF After, Over

(* The outer except leads to a rescue only where an order may have been sent for. *)
LEMMA RaisedKeep == IInv /\ Raised => IInv'
<1> SUFFICES ASSUME IInv, Raised PROVE IInv'
  OBVIOUS
<1>1. /\ pc = "raised" /\ UNCHANGED <<args, mine, other, wrote, touched, token, plan>>
      /\ pc' \in {"escaped", "end"} \/ (pc' \in {"by id", "scan"} /\ ~args.readonly)
  BY DEF Raised, RescueStep, MayRescue, Stay, venue, run, ghost
<1>2. DOMAIN report' = Fields /\ (report'.ok => report.ok)
  BY DEF Raised, IInv, Shape, Fields
<1>3. args.readonly \/ GatesPass(args.gates)
  BY <1>1 DEF IInv, Permission
<1>4. pc' \in After \union Over /\ pc' \notin Before \union Placing \union {"raised"}
  BY <1>1 DEF Before, Placing, After, Over
<1>5. pc' \in After => ~args.readonly
  BY <1>1 DEF After
<1>6. token' = token /\ plan' = plan
  BY <1>1
<1> QED
  BY <1>1, <1>2, <1>3, <1>4, <1>5, <1>6, Quiet

LEMMA RescuedKeep == IInv /\ Rescued => IInv'
<1> SUFFICES ASSUME IInv, Rescued PROVE IInv'
  OBVIOUS
<1>1. /\ pc = "rescued" /\ pc' \in {"end", "raised", "rescue failed"}
      /\ UNCHANGED <<args, mine, other, wrote, touched, token, plan>>
  BY DEF Rescued, Stay, venue, run, ghost
<1>2. DOMAIN report' = Fields /\ (report'.ok => report.ok)
  BY DEF Rescued, IInv, Shape, Fields
<1> QED
  BY <1>1, <1>2, QuietAfter DEF After, Over

LEMMA RescueFailedKeep == IInv /\ RescueFailed => IInv'
<1> SUFFICES ASSUME IInv, RescueFailed PROVE IInv'
  OBVIOUS
<1>1. /\ pc = "rescue failed" /\ pc' \in {"end", "escaped"} /\ report' = report
      /\ UNCHANGED <<args, mine, other, wrote, touched, token, plan>>
  BY DEF RescueFailed, Stay, venue, run, ghost
<1>2. DOMAIN report' = Fields /\ (report'.ok => report.ok)
  BY <1>1 DEF IInv, Shape
<1> QED
  BY <1>1, <1>2, QuietAfter DEF After, Over

(* The rescue by the list cancels the other order only where it matches the smoke order. *)
LEMMA ScanKeep == IInv /\ Scan => IInv'
<1> SUFFICES ASSUME IInv, Scan PROVE IInv'
  OBVIOUS
<1>1. pc = "scan" /\ pc' = "rescued" /\ UNCHANGED <<args, token, plan>>
  BY DEF Scan, run
<1>2. ~args.readonly /\ GatesPass(args.gates)
  BY <1>1 DEF IInv, Permission, After
<1>3. DOMAIN report' = Fields /\ (report'.ok => report.ok)
  BY DEF Scan, IInv, Shape, Fields
<1> DEFINE Kept(o) == [ok |-> TRUE, then |-> o, fault |-> FALSE]
           m(ids) == Matches(ids, mine, "mine", token)
           n(ids) == Matches(ids, other, "other", other.token)
<1>4. \/ UNCHANGED <<mine, other, wrote, touched>>
      \/ \E ids \in Listings :
            \E cm \in IF m(ids) THEN CancelOutcomes(mine) ELSE {Kept(mine)},
               co \in IF n(ids) THEN CancelOutcomes(other) ELSE {Kept(other)} :
                 mine' = cm.then /\ other' = co.then /\ touched' = (touched \/ n(ids))
  BY DEF Scan
<1>5. /\ mine' = mine \/ \E c \in CancelOutcomes(mine) : mine' = c.then
      /\ \/ other' = other /\ (touched' => touched)
         \/ /\ other.token = token /\ other.price = plan.price
            /\ \E c \in CancelOutcomes(other) : other' = c.then
  <2>1. CASE UNCHANGED <<mine, other, wrote, touched>>
    BY <2>1
  <2>2. CASE ~ UNCHANGED <<mine, other, wrote, touched>>
    <3> PICK ids \in Listings :
            \E cm \in IF m(ids) THEN CancelOutcomes(mine) ELSE {Kept(mine)},
               co \in IF n(ids) THEN CancelOutcomes(other) ELSE {Kept(other)} :
                 mine' = cm.then /\ other' = co.then /\ touched' = (touched \/ n(ids))
      BY <1>4, <2>2
    <3>1. mine' = mine \/ \E c \in CancelOutcomes(mine) : mine' = c.then
      OBVIOUS
    <3>2. CASE n(ids)
      <4>1. other.token = token /\ other.price = plan.price
        BY <3>2 DEF Matches
      <4> HIDE DEF n
      <4>2. \E c \in CancelOutcomes(other) : other' = c.then
        BY <3>2
      <4> QED
        BY <3>1, <4>1, <4>2
    <3>3. CASE ~ n(ids)
      <4> HIDE DEF n
      <4>1. other' = other
        BY <3>3
      <4>2. touched' = (touched \/ n(ids))
        OBVIOUS
      <4>3. touched' => touched
        BY <3>3, <4>2
      <4> QED
        BY <3>1, <4>1, <4>3
    <3> QED
      BY <3>2, <3>3
  <2> QED
    BY <2>1, <2>2
<1>6. DOMAIN mine' = DOMAIN mine /\ (IsGone(mine) => mine' = mine)
  BY <1>5, CancelGone
<1>7. /\ DOMAIN other' = {"state", "price", "matched", "token"}
      /\ other'.token = other.token /\ other'.price = other.price
  BY <1>5, CancelGone DEF IInv, Shape
<1>8. Shape' /\ Permission'
  BY <1>1, <1>2, <1>3, <1>6, <1>7 DEF IInv, Shape, Permission, Before, Placing, After, Over
<1>9. Untouched'
  BY <1>1, <1>5, <1>7 DEF IInv, Untouched, OthersUntouched, Before, Placing
<1>10. Truthful'
  BY <1>1, <1>3, <1>6 DEF IInv, Truthful
<1> QED
  BY <1>8, <1>9, <1>10 DEF IInv

-----------------------------------------------------------------------------
(* What happens around the run keeps it too: an order that is gone cannot fill, land or be  *)
(* cancelled, and the other order keeps its token and its price.                            *)
LEMMA AroundKeep == IInv /\ (BookMoves \/ Fills \/ Lands \/ OwnerCancels \/ LogTurns) => IInv'
<1> SUFFICES ASSUME IInv, BookMoves \/ Fills \/ Lands \/ OwnerCancels \/ LogTurns PROVE IInv'
  OBVIOUS
<1>1. UNCHANGED <<pc, args, report, token, plan, wrote, touched>>
  BY DEF BookMoves, Fills, Lands, OwnerCancels, LogTurns, Move, run, ghost
<1>2. /\ DOMAIN mine' = {"state", "price", "matched"}
      /\ IsGone(mine) => mine' = mine
  BY DEF BookMoves, Fills, Lands, OwnerCancels, LogTurns, venue, IsGone, IInv, Shape
<1>3. /\ DOMAIN other' = {"state", "price", "matched", "token"}
      /\ other'.token = other.token /\ other'.price = other.price
  BY DEF BookMoves, Fills, Lands, OwnerCancels, LogTurns, venue, IInv, Shape
<1>4. Shape' /\ Permission'
  BY <1>1, <1>2, <1>3 DEF IInv, Shape, Permission
<1>5. Untouched' /\ Truthful'
  BY <1>1, <1>2, <1>3 DEF IInv, Untouched, OthersUntouched, Truthful
<1> QED
  BY <1>4, <1>5 DEF IInv

LEMMA IdleKeep == IInv /\ UNCHANGED vars => IInv'
<1> SUFFICES ASSUME IInv, UNCHANGED vars PROVE IInv'
  OBVIOUS
<1>1. UNCHANGED <<pc, args, report, token, plan, wrote, touched, mine, other>>
  BY DEF vars, venue, run, ghost
<1> QED
  BY <1>1 DEF IInv, Shape, Permission, Untouched, OthersUntouched, Truthful, IsGone

LEMMA Inductive == IInv /\ [Next]_vars => IInv'
<1>1. IInv /\ Smoke => IInv'
  BY GatesKeep, PrepareKeep, SelectKeep, PreflightKeep, ClampKeep, UnsentKeep, PostKeep, PollKeep,
     SubmitRaisedKeep, VerifyKeep, CancelKeep, GoneKeep, ListKeep, NotClearKeep, SettleKeep,
     RaisedKeep, ByIdKeep, ScanKeep, RescuedKeep, RescueFailedKeep DEF Smoke
<1> QED
  BY <1>1, AroundKeep, IdleKeep DEF Next

LEMMA Invariance == Spec => []IInv
  BY InitInv, Inductive, PTL DEF Spec

(* No write reaches the venue without the three gates and outside the preview, by whichever *)
(* path: the post, the cancel, or the rescues.                                              *)
THEOREM EveryWriteGated == Spec => []WritesNeedGates
<1>1. IInv => WritesNeedGates
  BY DEF IInv, Permission, WritesNeedGates
<1> QED
  BY <1>1, Invariance, PTL

(* A run that ends well has left nothing at the venue and bought nothing. *)
THEOREM OkIsTrue == Spec => []OkMeansGone
<1>1. IInv => OkMeansGone
  BY DEF IInv, Truthful, OkMeansGone, IsGone
<1> QED
  BY <1>1, Invariance, PTL

(* The rescue is no cancel-everything button. *)
THEOREM RescueIsScoped == Spec => []OthersUntouched
<1>1. IInv => OthersUntouched
  BY DEF IInv, Untouched
<1> QED
  BY <1>1, Invariance, PTL

(* Together: whatever is written was permitted, and hits no other order than the smoke's. *)
THEOREM EveryWriteScoped == Spec => []WritesScoped
<1>1. WritesNeedGates /\ OthersUntouched => WritesScoped
  BY DEF WritesScoped
<1> QED
  BY <1>1, EveryWriteGated, RescueIsScoped, PTL

-----------------------------------------------------------------------------
(* Types. *)
Sides     == [bid : 0..One, ask : 0..One, depth : Nat]
Plans     == [price : 0..One, size : Nat]
Snapshots == [balance : Nat, committed : Nat, positions : Nat]
MineRec   == [state : OrderStates, price : 0..One, matched : 0..2]
OtherRec  == [state : {"live", "cancelled"}, price : OtherPrices, matched : {0}, token : Tokens]
ReportRec == [ok : BOOLEAN, residual : BOOLEAN, filled : BOOLEAN, confirmed : BOOLEAN,
              after : {"unread"} \cup OrderStates, rescued : {"no", "submit", "run"},
              exit : {0, 2, 3}]

RunTyped   == /\ pc \in Steps /\ args \in Commands /\ log \in {"open", "full"}
              /\ report \in ReportRec /\ tries \in 0..(Attempts + ListAttempts)
VenueTyped == books \in [Tokens -> Books] /\ mine \in MineRec /\ other \in OtherRec
PlanTyped  == /\ pc \in {"preflight", "clamp", "post"} => token \in Tokens
              /\ seen \in Sides /\ plan \in Plans /\ snap \in Snapshots /\ limit \in 0..One

Typed == RunTyped /\ VenueTyped /\ PlanTyped

(* An id is only known of an order the venue has, and a call that names it has it. *)
Identified ==
    /\ id \in BOOLEAN
    /\ pc \in Before \union Placing => ~id /\ mine.state = "none"
    /\ id => mine.state \notin {"none", "sent"}
    /\ pc \in {"poll", "verify", "cancel", "gone", "list", "by id"} => id

(* What the plan of a run that places an order is worth. *)
Affordable ==
    /\ plan.size * plan.price <= args.budget /\ plan.size * plan.price <= FireBudget
    /\ plan.size * plan.price <= snap.balance
    /\ snap.committed + plan.size * plan.price <= MaxCapital
    /\ plan.price <= Cap /\ plan.size >= MinSize

(* Whatever may rest was planned so, and costs no more than the plan. *)
Budgeted ==
    /\ pc \in Placing => Affordable
    /\ pc = "post" => limit <= plan.price
    /\ mine.state # "none" => Affordable /\ mine.price <= plan.price /\ ~args.readonly

(* Why a report without a residual risk may be silent about an order that rests: where the  *)
(* rescue stands, and what it has ruled out.                                                *)
Hidden == mine.price # plan.price \/ ~id

Rescues ==
    /\ pc = "settle" => mine.state \in {"filled", "cancelled"}
    /\ pc = "rescue failed" => report.residual
    /\ pc = "by id" => report.rescued = "run"
    /\ pc \in {"scan", "rescued"} => report.rescued \in {"submit", "run"}
    /\ pc = "rescued" /\ report.rescued = "submit" => report.residual
    /\ pc = "rescued" /\ mine.state = "live" /\ ~report.residual => Hidden
    /\ SilentOnlyByList

Complete == IInv /\ Typed /\ Identified /\ Budgeted /\ Rescues

-----------------------------------------------------------------------------
LEMMA ConstantsAre ==
    /\ One \in Nat \ {0} /\ Tick \in Nat \ {0} /\ MinSize \in Nat \ {0} /\ Cap \in Nat \ {0}
    /\ Cap <= One /\ FireBudget \in Nat /\ MaxCapital \in Nat /\ Dust \in Nat /\ MaxOpen \in Nat
    /\ Books \subseteq Sides /\ OtherPrices \subseteq 1..One
    /\ Attempts \in Nat \ {0} /\ ListAttempts \in Nat \ {0}
    /\ \A c \in Commands : /\ c.budget \in Nat /\ c.override \in Nat /\ c.readonly \in BOOLEAN
                           /\ c.pin \in {"none"} \cup Tokens
  BY PlanAssumption, SmokeAssumption DEF Sides

LEMMA AlignedDown ==
    ASSUME NEW v \in Int
    PROVE  AlignDown(v) \in Int /\ AlignDown(v) <= v /\ (v >= 0 => AlignDown(v) >= 0)
<1>1. Tick \in Int /\ Tick > 0 BY ConstantsAre
<1> QED BY <1>1 DEF AlignDown

LEMMA ChoiceTyped ==
    ASSUME NEW b \in Sides, NEW override \in Nat
    PROVE  PriceChoice(b, override) \in Nat
<1>1. Tick \in Nat /\ Tick > 0 BY ConstantsAre
<1>2. b.bid \in Int /\ b.ask \in Int BY ConstantsAre DEF Sides
<1> DEFINE raw == Lesser(b.bid, b.ask - TickGap * Tick)
<1>3. raw \in Int BY <1>1, <1>2 DEF Lesser, TickGap
<1>4. AlignDown(raw) \in Int /\ AlignDown(override) \in Int BY <1>3, AlignedDown
<1>5. SmokePrice(b) = None \/ (SmokePrice(b) = AlignDown(raw) /\ ~(AlignDown(raw) < Tick))
  BY DEF SmokePrice
<1> HIDE DEF raw
<1>6. SmokePrice(b) \in Nat BY <1>1, <1>4, <1>5 DEF None
<1>7. PriceChoice(b, override) \in {SmokePrice(b), None, AlignDown(override)}
      /\ (PriceChoice(b, override) = AlignDown(override) /\ override # None
            => PriceChoice(b, override) = None \/ ~(AlignDown(override) < Tick))
  BY DEF PriceChoice
<1>8. AlignDown(override) \in Nat BY <1>4, AlignedDown
<1> QED BY <1>6, <1>7, <1>8 DEF None

LEMMA DivTimes ==
    ASSUME NEW b \in Nat, NEW p \in Nat \ {0}
    PROVE  b \div p \in Nat /\ (b \div p) * p <= b
<1>1. b = p * (b \div p) + (b % p) /\ b % p \in 0..(p - 1) /\ b \div p \in Int
  OBVIOUS
<1>2. b \div p >= 0
  OBVIOUS
<1> DEFINE q == b \div p  r == b % p
<1>3. q \in Int /\ r \in Int /\ r >= 0 /\ b = p * q + r BY <1>1
<1> HIDE DEF q, r
<1>4. q * p = p * q BY <1>3
<1>5. p * q \in Int BY <1>3
<1>6. p * q <= b BY <1>3, <1>5
<1>7. q * p <= b BY <1>4, <1>6
<1> QED BY <1>2, <1>3, <1>7 DEF q

(* The plan fits the budget it is given, and the cap. *)
LEMMA PlanFits ==
    ASSUME NEW best \in Nat, NEW budget \in Nat
    PROVE  /\ PlanOrder(best, budget) \in Plans
           /\ PlanOrder(best, budget) # NoPlan =>
                 /\ PlanOrder(best, budget).size * PlanOrder(best, budget).price <= budget
                 /\ PlanOrder(best, budget).price <= Cap
                 /\ PlanOrder(best, budget).size >= MinSize
<1> DEFINE price == AlignDown(Lesser(best, Cap))
           size  == budget \div price
<1>1. Cap \in Nat /\ Cap <= One /\ One \in Nat BY ConstantsAre
<1>2. Lesser(best, Cap) \in Nat /\ Lesser(best, Cap) <= Cap BY <1>1 DEF Lesser
<1>3. price \in Nat /\ price <= Cap BY <1>1, <1>2, AlignedDown
<1>4. NoPlan \in Plans BY <1>1 DEF NoPlan, Plans, None
<1>5. PlanOrder(best, budget) = NoPlan
      \/ (/\ PlanOrder(best, budget) = [price |-> price, size |-> size]
          /\ price # 0 /\ ~(size < MinSize))
  BY DEF PlanOrder
<1>6. price # 0 => size \in Nat /\ size * price <= budget
  <2> HIDE DEF price
  <2> QED BY <1>3, DivTimes
<1>7. MinSize \in Nat BY ConstantsAre
<1> HIDE DEF price, size
<1>8. CASE PlanOrder(best, budget) = NoPlan BY <1>4, <1>8
<1>9. CASE PlanOrder(best, budget) = [price |-> price, size |-> size]
           /\ price # 0 /\ ~(size < MinSize)
  <2>1. price \in 0..One /\ size \in Nat BY <1>1, <1>3, <1>6, <1>9
  <2>2. size >= MinSize BY <1>7, <1>9, <2>1
  <2> QED BY <1>3, <1>6, <1>9, <2>1, <2>2 DEF Plans
<1> QED BY <1>5, <1>8, <1>9

(* The clamp only lowers a price. *)
LEMMA ClampLowers ==
    ASSUME NEW price \in 0..One, NEW b \in Sides
    PROVE  Clamped(price, b) \in 0..One /\ Clamped(price, b) <= price
<1> DEFINE p == AlignDown(Lesser(price, b.ask - Tick))
<1>1. One \in Nat /\ Tick \in Nat BY ConstantsAre
<1>2. b.ask \in Int BY <1>1 DEF Sides
<1>3. Lesser(price, b.ask - Tick) \in Int /\ Lesser(price, b.ask - Tick) <= price
  BY <1>1, <1>2 DEF Lesser
<1>4. p \in Int /\ p <= price BY <1>1, <1>3, AlignedDown
<1>5. Clamped(price, b) = None \/ (Clamped(price, b) = p /\ ~(p <= 0)) BY DEF Clamped
<1> HIDE DEF p
<1> QED BY <1>1, <1>4, <1>5 DEF None

(* A snapshot has numbers. *)
LEMMA CollectedTyped == ASSUME NEW a \in Accounts PROVE Collected(a) \in Snapshots
<1>1. a.balance \in Nat /\ a.values \in Seq(Nat) BY SmokeAssumption
<1> DEFINE kept == {i \in DOMAIN a.values : a.values[i] > Dust}
<1>2. kept \subseteq 1..Len(a.values) /\ Len(a.values) \in Nat BY <1>1
<1>3. IsFiniteSet(kept)
  <2>1. IsFiniteSet(1..Len(a.values)) BY <1>2, FS_Interval
  <2> HIDE DEF kept
  <2> QED BY <1>2, <2>1, FS_Subset
<1>4. \A i \in kept : a.values[i] \in Nat BY <1>1
<1>5. Collected(a) = [balance |-> a.balance, positions |-> Cardinality(kept),
                      committed |-> SumFunctionOnSet(a.values, kept)]
  BY DEF Collected
<1> HIDE DEF kept
<1>6. Cardinality(kept) \in Nat BY <1>3, FS_CardinalityType
<1>7. SumFunctionOnSet(a.values, kept) \in Nat BY <1>3, <1>4, SumNat
<1> QED BY <1>1, <1>5, <1>6, <1>7 DEF Snapshots

-----------------------------------------------------------------------------
LEMMA InitComplete == Init => Complete
<1> SUFFICES ASSUME Init PROVE Complete
  OBVIOUS
<1>1. IInv BY InitInv
<1>2. One \in Nat /\ OtherPrices \subseteq 1..One /\ Attempts \in Nat /\ ListAttempts \in Nat
  BY ConstantsAre
<1>3. report \in ReportRec /\ report = NewReport BY DEF Init, NewReport, ReportRec, OrderStates
<1>4. RunTyped
  <2>1. tries = 0 /\ pc = "gates" /\ args \in Commands /\ log = "open" BY DEF Init
  <2> QED BY <1>2, <1>3, <2>1 DEF RunTyped, Steps
<1>5. VenueTyped
  <2>1. mine \in MineRec BY <1>2 DEF Init, Absent, MineRec, OrderStates, None
  <2>2. other \in OtherRec BY <1>2 DEF Init, OtherRec
  <2> QED BY <2>1, <2>2 DEF VenueTyped, Init
<1>6. PlanTyped
  <2>1. seen \in Sides /\ plan \in Plans /\ snap \in Snapshots /\ limit \in 0..One
    BY <1>2 DEF Init, NoBook, NoSnap, NoPlan, Sides, Plans, Snapshots, None
  <2> QED BY <2>1 DEF PlanTyped, Init
<1>7. pc = "gates" /\ ~id /\ id \in BOOLEAN /\ mine.state = "none" BY DEF Init, Absent
<1>8. Identified BY <1>7 DEF Identified
<1>9. Budgeted BY <1>7 DEF Budgeted, Placing
<1>10. Rescues BY <1>7 DEF Rescues, SilentOnlyByList
<1> QED BY <1>1, <1>4, <1>5, <1>6, <1>8, <1>9, <1>10 DEF Complete, Typed

(* A step of the tool that only reads the venue, writes its report and goes on. *)
LEMMA QuietComplete ==
    ASSUME Complete,
           UNCHANGED <<args, books, mine, other, token, seen, snap, plan, limit, id>>,
           log' \in {"open", "full"},
           pc' \in Steps, report' \in ReportRec, tries' \in 0..(Attempts + ListAttempts),
           pc' \notin {"preflight", "clamp", "post"},
           pc' \in Before \union Placing => pc \in Before \union Placing,
           pc' \in {"poll", "verify", "cancel", "gone", "list", "by id"} => id
    PROVE  Typed' /\ Identified' /\ Budgeted'
<1>1. Typed'
  BY DEF Complete, Typed, RunTyped, VenueTyped, PlanTyped
<1>2. Identified'
  BY DEF Complete, Identified
<1>3. pc' \notin Placing
  BY DEF Placing
<1>4. Budgeted'
  BY <1>3 DEF Complete, Budgeted, Affordable, Placing
<1> QED BY <1>1, <1>2, <1>4

(* The report stays a report, whatever a step writes into it. *)
LEMMA ReportUpdates ==
    ASSUME NEW r \in ReportRec
    PROVE  /\ \A b \in BOOLEAN : /\ [r EXCEPT !.residual = b] \in ReportRec
                                 /\ [r EXCEPT !.filled = b] \in ReportRec
                                 /\ [r EXCEPT !.confirmed = b] \in ReportRec
           /\ \A e \in {0, 2, 3} : [r EXCEPT !.exit = e] \in ReportRec
  BY DEF ReportRec

LEMMA GatesComplete == ASSUME Complete, Gates PROVE Typed' /\ Identified' /\ Budgeted' /\ Rescues'
<1>1. /\ pc = "gates" /\ pc' \in {"prepare", "end"}
      /\ UNCHANGED <<args, books, mine, other, log, token, seen, snap, plan, limit, id, tries>>
  BY DEF Gates, Stay, venue, run
<1>2. report' \in ReportRec
  <2>1. report \in ReportRec BY DEF Complete, Typed, RunTyped
  <2> QED BY <2>1, ReportUpdates DEF Gates
<1>3. log \in {"open", "full"} /\ tries \in 0..(Attempts + ListAttempts)
  BY DEF Complete, Typed, RunTyped
<1>4. Typed' /\ Identified' /\ Budgeted'
  BY <1>1, <1>2, <1>3, QuietComplete DEF Before, Placing, Steps
<1>5. mine.state = "none" BY <1>1 DEF Complete, Identified, Before
<1>6. Rescues' BY <1>1, <1>5 DEF Rescues, SilentOnlyByList
<1> QED BY <1>4, <1>6

LEMMA PrepareComplete == ASSUME Complete, Prepare PROVE Typed' /\ Identified' /\ Budgeted' /\ Rescues'
<1>1. /\ pc = "prepare" /\ pc' \in {"select", "raised"} /\ report' = report
      /\ UNCHANGED <<args, books, mine, other, log, token, seen, snap, plan, limit, id, tries>>
  BY DEF Prepare, Logged, Stay, venue, run
<1>2. report \in ReportRec /\ log \in {"open", "full"} /\ tries \in 0..(Attempts + ListAttempts)
  BY DEF Complete, Typed, RunTyped
<1>3. Typed' /\ Identified' /\ Budgeted'
  BY <1>1, <1>2, QuietComplete DEF Before, Placing, Steps
<1>4. Rescues' BY <1>1 DEF Rescues, SilentOnlyByList
<1> QED BY <1>3, <1>4

(* Only a token that the invocation or a session names is selected. *)
LEMMA ChoicesAre == ASSUME NEW readable \in SUBSET Tokens, args \in Commands PROVE Choices(readable) \subseteq Tokens
<1>1. args.pin \in {"none"} \cup Tokens BY ConstantsAre
<1>2. FirstSession(readable) \subseteq readable BY DEF FirstSession, Best
<1> QED BY <1>1, <1>2 DEF Choices

LEMMA SelectComplete == ASSUME Complete, Select PROVE Typed' /\ Identified' /\ Budgeted' /\ Rescues'
<1>1. /\ pc = "select" /\ pc' \in {"preflight", "end", "raised"} /\ report' = report
      /\ UNCHANGED <<args, books, mine, other, log, snap, plan, limit, id, tries>>
  BY DEF Select, Logged, Stay, venue
<1>2. RunTyped /\ VenueTyped /\ PlanTyped BY DEF Complete, Typed
<1>3. \/ UNCHANGED <<token, seen>> /\ pc' # "preflight"
      \/ token' \in Tokens /\ seen' = books[token']
  <2>1. args \in Commands BY <1>2 DEF RunTyped
  <2>2. CASE \E readable \in SUBSET Tokens : \E t \in Choices(readable) : token' = t /\ seen' = books[t]
    BY <2>1, <2>2, ChoicesAre
  <2>3. CASE UNCHANGED <<token, seen>> /\ pc' # "preflight" BY <2>3
  <2> QED BY <2>2, <2>3 DEF Select, Logged
<1>4. seen' \in Sides
  <2>1. books \in [Tokens -> Books] /\ seen \in Sides BY <1>2 DEF VenueTyped, PlanTyped
  <2> QED BY <1>3, <2>1, ConstantsAre
<1>5. RunTyped' /\ VenueTyped' BY <1>1, <1>2 DEF RunTyped, VenueTyped, Steps
<1>6. PlanTyped' BY <1>1, <1>2, <1>3, <1>4 DEF PlanTyped
<1>7. mine.state = "none" /\ Identified'
  BY <1>1 DEF Complete, Identified, Before, Placing
<1>8. Budgeted' BY <1>1, <1>7 DEF Budgeted, Placing
<1>9. Rescues' BY <1>1, <1>7 DEF Rescues, SilentOnlyByList
<1> QED BY <1>5, <1>6, <1>7, <1>8, <1>9 DEF Typed

(* What the risk gate, the plan and the limits let through is affordable. *)
LEMMA PreflightComplete == ASSUME Complete, Preflight PROVE Typed' /\ Identified' /\ Budgeted' /\ Rescues'
<1> DEFINE built == PlanOrder(PriceChoice(seen, args.override), args.budget)
<1>1. /\ pc = "preflight"
      /\ UNCHANGED <<args, books, mine, other, log, token, seen, limit, id, tries>>
  BY DEF Preflight, Stay, venue
<1>2. RunTyped /\ VenueTyped /\ PlanTyped BY DEF Complete, Typed
<1>3. args.budget \in Nat /\ args.override \in Nat /\ seen \in Sides
  BY <1>2, ConstantsAre DEF RunTyped, PlanTyped
<1>4. /\ built \in Plans
      /\ built # NoPlan => /\ built.size * built.price <= args.budget
                           /\ built.price <= Cap /\ built.size >= MinSize
  <2>1. PriceChoice(seen, args.override) \in Nat BY <1>3, ChoiceTyped
  <2> QED BY <1>3, <2>1, PlanFits
<1>5. report' \in ReportRec
  <2>1. report \in ReportRec BY <1>2 DEF RunTyped
  <2>2. [report EXCEPT !.ok = TRUE, !.exit = 0] \in ReportRec BY <2>1 DEF ReportRec
  <2> QED BY <2>1, <2>2 DEF Preflight
<1>6. \/ pc' \in {"end", "raised"} /\ UNCHANGED <<snap, plan>>
      \/ \E s \in {Collected(a) : a \in Accounts} :
            /\ snap' = s /\ plan' \in {built, NoPlan} /\ pc' \in {"end", "raised"}
      \/ \E s \in {Collected(a) : a \in Accounts} :
            /\ snap' = s /\ plan' = built /\ pc' \in {"clamp", "raised"}
            /\ RiskAllows(s) /\ built # NoPlan /\ WithinLimits(Cost(built), s)
  BY DEF Preflight, Logged
<1> HIDE DEF built
<1>7. plan' \in Plans /\ snap' \in Snapshots
  <2>1. NoPlan \in Plans BY ConstantsAre DEF NoPlan, Plans, None
  <2> QED BY <1>2, <1>4, <1>6, <2>1, CollectedTyped DEF PlanTyped
<1>8. pc' = "clamp" => Affordable'
  <2> SUFFICES ASSUME pc' = "clamp" PROVE Affordable' OBVIOUS
  <2>1. plan' = built /\ RiskAllows(snap') /\ built # NoPlan /\ WithinLimits(Cost(built), snap')
    BY <1>6
  <2>2. /\ snap'.balance \in Nat /\ snap'.committed \in Nat /\ FireBudget \in Nat
        /\ MaxCapital \in Nat
    BY <1>7, ConstantsAre DEF Snapshots
  <2>3. Cost(built) <= FireBudget /\ snap'.committed + Cost(built) <= MaxCapital
    BY <2>1 DEF WithinLimits
  <2>4. FireBudget <= snap'.balance BY <2>1 DEF RiskAllows
  <2>5. built.size \in Nat /\ built.price \in Nat BY <1>4, ConstantsAre DEF Plans
  <2>6. Cost(built) \in Nat /\ Cost(built) = built.size * built.price BY <2>5 DEF Cost
  <2>7. Cost(built) <= snap'.balance BY <2>2, <2>3, <2>4, <2>6
  <2> QED BY <1>1, <1>4, <2>1, <2>3, <2>6, <2>7 DEF Affordable
<1>9. pc' \in {"clamp", "end", "raised"} BY <1>6
<1>10. RunTyped' /\ VenueTyped' BY <1>1, <1>2, <1>5, <1>9 DEF RunTyped, VenueTyped, Steps
<1>11. PlanTyped' BY <1>1, <1>2, <1>7, <1>9 DEF PlanTyped
<1>12. mine.state = "none" /\ ~id /\ id \in BOOLEAN BY <1>1 DEF Complete, Identified, Before
<1>13. Identified' BY <1>1, <1>9, <1>12 DEF Identified
<1>14. Budgeted' BY <1>1, <1>8, <1>9, <1>12 DEF Budgeted, Placing
<1>15. Rescues' BY <1>1, <1>9, <1>12 DEF Rescues, SilentOnlyByList
<1> QED BY <1>10, <1>11, <1>13, <1>14, <1>15 DEF Typed

(* The clamp lowers the price of the plan. *)
LEMMA ClampComplete == ASSUME Complete, Clamp PROVE Typed' /\ Identified' /\ Budgeted' /\ Rescues'
<1>1. /\ pc = "clamp" /\ pc' \in {"unsent", "post", "submit raised"}
      /\ limit' \in {Clamped(plan.price, books[token]), None}
      /\ limit' = None => pc' = "unsent"
      /\ UNCHANGED <<args, books, mine, other, log, token, seen, snap, plan, id, tries, report>>
  BY DEF Clamp, Stay, venue
<1>2. RunTyped /\ VenueTyped /\ PlanTyped BY DEF Complete, Typed
<1>3. plan.price \in 0..One /\ books[token] \in Sides
  <2>1. token \in Tokens /\ books \in [Tokens -> Books] BY <1>1, <1>2 DEF PlanTyped, VenueTyped
  <2> QED BY <1>2, <2>1, ConstantsAre DEF PlanTyped, Plans
<1>4. Clamped(plan.price, books[token]) \in 0..One
      /\ Clamped(plan.price, books[token]) <= plan.price
  BY <1>3, ClampLowers
<1>5. limit' \in 0..One /\ limit' <= plan.price
  <2>1. One \in Nat BY ConstantsAre
  <2>2. CASE limit' = Clamped(plan.price, books[token]) BY <1>4, <2>2
  <2>3. CASE limit' = 0 BY <1>3, <2>1, <2>3
  <2> QED BY <1>1, <2>2, <2>3 DEF None
<1>6. RunTyped' /\ VenueTyped' BY <1>1, <1>2 DEF RunTyped, VenueTyped, Steps
<1>7. PlanTyped' BY <1>1, <1>2, <1>5 DEF PlanTyped
<1>8. mine.state = "none" /\ ~id /\ id \in BOOLEAN BY <1>1 DEF Complete, Identified, Placing
<1>9. Identified' BY <1>1, <1>8 DEF Identified
<1>10. Affordable' BY <1>1 DEF Complete, Budgeted, Placing, Affordable
<1>11. Budgeted' BY <1>1, <1>5, <1>8, <1>10 DEF Budgeted
<1>12. Rescues' BY <1>1 DEF Rescues, SilentOnlyByList
<1> QED BY <1>6, <1>7, <1>9, <1>11, <1>12 DEF Typed

LEMMA UnsentComplete == ASSUME Complete, Unsent PROVE Typed' /\ Identified' /\ Budgeted' /\ Rescues'
<1>1. /\ pc = "unsent" /\ pc' = "end" /\ report' = [report EXCEPT !.residual = TRUE]
      /\ UNCHANGED <<args, books, mine, other, log, token, seen, snap, plan, limit, id, tries>>
  BY DEF Unsent, Stay, venue, run
<1>2. report \in ReportRec /\ log \in {"open", "full"} /\ tries \in 0..(Attempts + ListAttempts)
  BY DEF Complete, Typed, RunTyped
<1>3. report' \in ReportRec BY <1>1, <1>2, ReportUpdates
<1>4. Typed' /\ Identified' /\ Budgeted'
  BY <1>1, <1>2, <1>3, QuietComplete DEF Before, Placing, Steps
<1>5. report'.residual BY <1>1, <1>2 DEF ReportRec
<1>6. Rescues' BY <1>1, <1>5 DEF Rescues, SilentOnlyByList
<1> QED BY <1>4, <1>6

(* The one post: whatever becomes of it, what may rest is priced at the limit. *)
LEMMA PostComplete == ASSUME Complete, Post PROVE Typed' /\ Identified' /\ Budgeted' /\ Rescues'
<1>1. /\ pc = "post" /\ pc' \in {"poll", "submit raised", "unsent"}
      /\ UNCHANGED <<args, books, other, log, token, seen, snap, plan, limit, tries, report>>
  BY DEF Post
<1>2. \/ /\ mine' = [state |-> "live", price |-> limit, matched |-> 0]
         /\ pc' = IF log = "open" THEN "poll" ELSE "submit raised"
         /\ id' = (log = "open")
      \/ UNCHANGED <<mine, id>> /\ pc' # "poll"
      \/ /\ UNCHANGED id /\ pc' # "poll"
         /\ \E s \in {"none", "sent", "live"} :
               mine' = [state |-> s, price |-> limit, matched |-> 0]
  BY DEF Post
<1>3. RunTyped /\ VenueTyped /\ PlanTyped BY DEF Complete, Typed
<1>4. mine.state = "none" /\ ~id /\ id \in BOOLEAN BY <1>1 DEF Complete, Identified, Placing
<1>5. mine' \in MineRec /\ (mine'.state # "none" => mine'.price = limit)
  <2>1. limit \in 0..One /\ mine \in MineRec BY <1>3 DEF PlanTyped, VenueTyped
  <2>2. \A s \in {"none", "sent", "live"} :
           /\ [state |-> s, price |-> limit, matched |-> 0] \in MineRec
           /\ [state |-> s, price |-> limit, matched |-> 0].price = limit
    BY <2>1 DEF MineRec, OrderStates
  <2> QED BY <1>2, <1>4, <2>1, <2>2
<1>6. /\ id' \in BOOLEAN
      /\ id' => mine'.state = "live"
      /\ pc' = "poll" => id'
  <2>1. CASE UNCHANGED id BY <1>2, <1>4, <2>1
  <2>2. CASE /\ mine' = [state |-> "live", price |-> limit, matched |-> 0]
             /\ pc' = IF log = "open" THEN "poll" ELSE "submit raised"
             /\ id' = (log = "open")
    BY <2>2
  <2> QED BY <1>2, <2>1, <2>2
<1>7. RunTyped' /\ VenueTyped' BY <1>1, <1>3, <1>5 DEF RunTyped, VenueTyped, Steps
<1>8. PlanTyped' BY <1>1, <1>3 DEF PlanTyped
<1>9. Identified' BY <1>1, <1>6 DEF Identified, Before, Placing
<1>10. Affordable' /\ limit <= plan.price /\ ~args.readonly
  BY <1>1 DEF Complete, Budgeted, Placing, Affordable, IInv, Permission
<1>11. Budgeted' BY <1>1, <1>5, <1>10 DEF Budgeted, Placing
<1>12. Rescues' BY <1>1 DEF Rescues, SilentOnlyByList
<1> QED BY <1>7, <1>8, <1>9, <1>11, <1>12 DEF Typed

LEMMA PollComplete == ASSUME Complete, Poll PROVE Typed' /\ Identified' /\ Budgeted' /\ Rescues'
<1>1. /\ pc = "poll" /\ pc' = "verify" /\ tries' = 0
      /\ UNCHANGED <<args, books, mine, other, log, token, seen, snap, plan, limit, id>>
      /\ report' \in {[report EXCEPT !.filled = mine.matched > 0], report}
  BY DEF Poll, Stay, venue
<1>2. report \in ReportRec /\ log \in {"open", "full"} /\ id
  BY <1>1 DEF Complete, Typed, RunTyped, Identified
<1>3. report' \in ReportRec
  <2>1. (mine.matched > 0) \in BOOLEAN OBVIOUS
  <2> QED BY <1>1, <1>2, <2>1, ReportUpdates
<1>4. 0 \in 0..(Attempts + ListAttempts) BY ConstantsAre
<1>5. Typed' /\ Identified' /\ Budgeted'
  BY <1>1, <1>2, <1>3, <1>4, QuietComplete DEF Before, Placing, Steps
<1>6. Rescues' BY <1>1 DEF Rescues, SilentOnlyByList
<1> QED BY <1>5, <1>6

LEMMA SubmitRaisedComplete ==
    ASSUME Complete, SubmitRaised PROVE Typed' /\ Identified' /\ Budgeted' /\ Rescues'
<1>1. /\ pc = "submit raised"
      /\ \/ pc' = "scan" /\ report' = [report EXCEPT !.residual = TRUE, !.rescued = "submit"]
         \/ pc' = "raised" /\ report' = report
      /\ UNCHANGED <<args, books, mine, other, log, token, seen, snap, plan, limit, id, tries>>
  BY DEF SubmitRaised, Stay, venue, run
<1>2. report \in ReportRec /\ log \in {"open", "full"} /\ tries \in 0..(Attempts + ListAttempts)
  BY DEF Complete, Typed, RunTyped
<1>3. report' \in ReportRec /\ (pc' = "scan" => report'.rescued = "submit")
  BY <1>1, <1>2 DEF ReportRec
<1>4. Typed' /\ Identified' /\ Budgeted'
  BY <1>1, <1>2, <1>3, QuietComplete DEF Before, Placing, Steps
<1>5. Rescues' BY <1>1, <1>3 DEF Rescues, SilentOnlyByList
<1> QED BY <1>4, <1>5

LEMMA VerifyComplete == ASSUME Complete, Verify PROVE Typed' /\ Identified' /\ Budgeted' /\ Rescues'
<1>1. /\ pc = "verify" /\ pc' \in {"verify", "list", "cancel", "raised"}
      /\ UNCHANGED <<args, books, mine, other, log, token, seen, snap, plan, limit, id>>
      /\ tries' = 0 \/ (tries + 1 < Attempts /\ tries' = tries + 1)
      /\ report' \in {report, [report EXCEPT !.residual = TRUE], [report EXCEPT !.filled = TRUE],
                      [report EXCEPT !.confirmed = TRUE]}
  BY DEF Verify, Logged, Reports, Stay, venue
<1>2. report \in ReportRec /\ log \in {"open", "full"} /\ tries \in 0..(Attempts + ListAttempts) /\ id
  BY <1>1 DEF Complete, Typed, RunTyped, Identified
<1>3. report' \in ReportRec BY <1>1, <1>2, ReportUpdates
<1>4. tries' \in 0..(Attempts + ListAttempts) BY <1>1, <1>2, ConstantsAre
<1>5. Typed' /\ Identified' /\ Budgeted'
  BY <1>1, <1>2, <1>3, <1>4, QuietComplete DEF Before, Placing, Steps
<1>6. Rescues' BY <1>1 DEF Rescues, SilentOnlyByList
<1> QED BY <1>5, <1>6

-----------------------------------------------------------------------------
(* A cancel leaves the order as it was or cancelled, and is confirmed only of the latter. *)
LEMMA CancelOutcome ==
    ASSUME NEW o \in MineRec \cup OtherRec, NEW c \in CancelOutcomes(o)
    PROVE  /\ c.then \in MineRec \cup OtherRec
           /\ o \in MineRec => c.then \in MineRec
           /\ o \in OtherRec => c.then \in OtherRec
           /\ c.then.price = o.price
           /\ c.then = o \/ (o.state = "live" /\ c.then.state = "cancelled")
           /\ c.ok \in BOOLEAN
           /\ c.ok => c.then.state = "cancelled"
<1> DEFINE gone == [o EXCEPT !.state = "cancelled"]
<1>1. /\ o \in MineRec => gone \in MineRec
      /\ o \in OtherRec => gone \in OtherRec
      /\ gone.price = o.price /\ gone.state = "cancelled"
  BY DEF MineRec, OtherRec, OrderStates
<1>2. \/ c.then = gone /\ o.state = "live" /\ c.ok \in BOOLEAN
      \/ c.then = o /\ c.ok = FALSE
  <2>1. CASE o.state = "live"
    <3>1. \/ c = [ok |-> TRUE,  then |-> gone, fault |-> FALSE]
          \/ c = [ok |-> FALSE, then |-> gone, fault |-> TRUE]
          \/ c = [ok |-> FALSE, then |-> o,    fault |-> TRUE]
      BY <2>1 DEF CancelOutcomes
    <3> HIDE DEF gone
    <3>2. /\ c.then = gone \/ (c.then = o /\ c.ok = FALSE)
          /\ c.ok \in BOOLEAN
      <4>1. CASE c = [ok |-> TRUE,  then |-> gone, fault |-> FALSE] BY <4>1
      <4>2. CASE c = [ok |-> FALSE, then |-> gone, fault |-> TRUE] BY <4>2
      <4>3. CASE c = [ok |-> FALSE, then |-> o,    fault |-> TRUE] BY <4>3
      <4> QED BY <3>1, <4>1, <4>2, <4>3
    <3> QED BY <2>1, <3>2
  <2>2. CASE o.state # "live"
    <3>1. c = [ok |-> FALSE, then |-> o, fault |-> FALSE] BY <2>2 DEF CancelOutcomes
    <3> QED BY <3>1
  <2> QED BY <2>1, <2>2
<1> HIDE DEF gone
<1>3. CASE c.then = gone /\ o.state = "live" /\ c.ok \in BOOLEAN BY <1>1, <1>3
<1>4. CASE c.then = o /\ c.ok = FALSE BY <1>4
<1> QED BY <1>2, <1>3, <1>4

(* A step of the tool that may cancel. *)
LEMMA CancelsComplete ==
    ASSUME Complete, UNCHANGED <<args, books, log, token, seen, snap, plan, limit, id>>,
           mine' = mine \/ \E c \in CancelOutcomes(mine) : mine' = c.then,
           other' = other \/ \E c \in CancelOutcomes(other) : other' = c.then,
           pc' \in Steps, report' \in ReportRec, tries' \in 0..(Attempts + ListAttempts),
           pc' \notin Before \union Placing,
           pc' \in {"poll", "verify", "cancel", "gone", "list", "by id"} => id
    PROVE  Typed' /\ Identified' /\ Budgeted'
<1>1. RunTyped /\ VenueTyped /\ PlanTyped BY DEF Complete, Typed
<1>2. mine \in MineRec /\ other \in OtherRec BY <1>1 DEF VenueTyped
<1>3. /\ mine' \in MineRec /\ mine'.price = mine.price
      /\ mine' = mine \/ (mine.state = "live" /\ mine'.state = "cancelled")
  <2>1. \A c \in CancelOutcomes(mine) :
           /\ c.then \in MineRec /\ c.then.price = mine.price
           /\ c.then = mine \/ (mine.state = "live" /\ c.then.state = "cancelled")
    BY <1>2, CancelOutcome
  <2> QED BY <1>2, <2>1
<1>4. other' \in OtherRec
  <2>1. \A c \in CancelOutcomes(other) : c.then \in OtherRec BY <1>2, CancelOutcome
  <2> QED BY <1>2, <2>1
<1>5. RunTyped' BY <1>1 DEF RunTyped
<1>6. VenueTyped' BY <1>1, <1>3, <1>4 DEF VenueTyped
<1>7. PlanTyped' BY <1>1 DEF PlanTyped, Before, Placing
<1>8. Identified' BY <1>3 DEF Complete, Identified
<1>9. Budgeted' BY <1>3 DEF Complete, Budgeted, Affordable, Placing
<1> QED BY <1>5, <1>6, <1>7, <1>8, <1>9 DEF Typed

LEMMA CancelComplete == ASSUME Complete, Cancel PROVE Typed' /\ Identified' /\ Budgeted' /\ Rescues'
<1>1. /\ pc = "cancel" /\ pc' = "gone" /\ tries' = 0
      /\ UNCHANGED <<args, books, other, log, token, seen, snap, plan, limit, id>>
  BY DEF Cancel
<1>2. PICK c \in CancelOutcomes(mine) :
          mine' = c.then /\ report' = [report EXCEPT !.residual = @ \/ ~c.ok]
  BY DEF Cancel
<1>3. report \in ReportRec /\ id BY <1>1 DEF Complete, Typed, RunTyped, Identified
<1>4. report' \in ReportRec
  <2>1. (report.residual \/ ~c.ok) \in BOOLEAN OBVIOUS
  <2> QED BY <1>2, <1>3, <2>1, ReportUpdates
<1>5. 0 \in 0..(Attempts + ListAttempts) BY ConstantsAre
<1>6. Typed' /\ Identified' /\ Budgeted'
  BY <1>1, <1>2, <1>3, <1>4, <1>5, CancelsComplete DEF Before, Placing, Steps
<1>7. Rescues' BY <1>1 DEF Rescues, SilentOnlyByList
<1> QED BY <1>6, <1>7

LEMMA GoneComplete == ASSUME Complete, Gone PROVE Typed' /\ Identified' /\ Budgeted' /\ Rescues'
<1>1. /\ pc = "gone" /\ pc' \in {"gone", "list", "raised"}
      /\ UNCHANGED <<args, books, mine, other, log, token, seen, snap, plan, limit, id>>
      /\ tries' = 0 \/ (tries + 1 < Attempts /\ tries' = tries + 1)
  BY DEF Gone, Logged, Stay, venue
<1>2. /\ report \in ReportRec /\ log \in {"open", "full"} /\ id
      /\ tries \in 0..(Attempts + ListAttempts) /\ mine.state \in OrderStates
  BY <1>1 DEF Complete, Typed, RunTyped, VenueTyped, Identified, MineRec
<1>3. report' \in ReportRec
  <2>1. /\ [report EXCEPT !.residual = TRUE] \in ReportRec
        /\ [report EXCEPT !.after = "cancelled"] \in ReportRec
        /\ [report EXCEPT !.after = "cancelled", !.ok = TRUE, !.exit = 0] \in ReportRec
        /\ [report EXCEPT !.residual = TRUE, !.after = mine.state] \in ReportRec
        /\ [report EXCEPT !.residual = TRUE, !.after = "live"] \in ReportRec
    BY <1>2 DEF ReportRec, OrderStates
  <2> QED BY <1>2, <2>1 DEF Gone, Reports
<1>4. tries' \in 0..(Attempts + ListAttempts) BY <1>1, <1>2, ConstantsAre
<1>5. Typed' /\ Identified' /\ Budgeted'
  BY <1>1, <1>2, <1>3, <1>4, QuietComplete DEF Before, Placing, Steps
<1>6. Rescues' BY <1>1 DEF Rescues, SilentOnlyByList
<1> QED BY <1>5, <1>6

(* What the list shows is everything that rests. *)
LEMMA ListingsAre ==
    ASSUME NEW ids \in Listings
    PROVE  /\ mine.state = "live" => "mine" \in ids
           /\ "mine" \in ids => mine.state \in {"live", "filled", "cancelled"}
  BY DEF Listings

(* An empty list settles the run: an order with an id that is not in it no longer rests. *)
LEMMA ListComplete == ASSUME Complete, List PROVE Typed' /\ Identified' /\ Budgeted' /\ Rescues'
<1>1. /\ pc = "list" /\ pc' \in {"list", "settle", "not clear", "raised"} /\ report' = report
      /\ UNCHANGED <<args, books, mine, other, log, token, seen, snap, plan, limit, id>>
      /\ tries' = 0 \/ (tries + 1 < ListAttempts /\ tries' = tries + 1)
      /\ pc' = "settle" => \E ids \in Listings : ids = {}
  BY DEF List, Logged, Stay, venue
<1>2. /\ report \in ReportRec /\ log \in {"open", "full"} /\ id
      /\ tries \in 0..(Attempts + ListAttempts)
      /\ mine.state \in OrderStates /\ mine.state \notin {"none", "sent"}
  BY <1>1 DEF Complete, Typed, RunTyped, VenueTyped, Identified, MineRec
<1>3. tries' \in 0..(Attempts + ListAttempts)
  <2>1. Attempts \in Nat /\ ListAttempts \in Nat BY ConstantsAre
  <2>2. tries' = 0 \/ (tries + 1 < ListAttempts /\ tries' = tries + 1) BY <1>1
  <2>3. tries \in Nat BY <1>2, <2>1
  <2> QED BY <2>1, <2>2, <2>3
<1>4. Typed' /\ Identified' /\ Budgeted'
  BY <1>1, <1>2, <1>3, QuietComplete DEF Before, Placing, Steps
<1>5. pc' = "settle" => mine.state # "live" BY <1>1, ListingsAre
<1>6. Rescues' BY <1>1, <1>2, <1>5 DEF Rescues, SilentOnlyByList, OrderStates
<1> QED BY <1>4, <1>6

LEMMA NotClearComplete == ASSUME Complete, NotClear PROVE Typed' /\ Identified' /\ Budgeted' /\ Rescues'
<1>1. /\ pc = "not clear" /\ pc' \in {"end", "raised"}
      /\ UNCHANGED <<args, books, mine, other, log, token, seen, snap, plan, limit, id, tries>>
      /\ report' = [report EXCEPT !.ok = FALSE, !.residual = TRUE, !.exit = 2]
         \/ (report' = report /\ pc' = "raised")
  BY DEF NotClear, Logged, Reports, Stay, venue, run
<1>2. report \in ReportRec /\ log \in {"open", "full"} /\ tries \in 0..(Attempts + ListAttempts)
  BY DEF Complete, Typed, RunTyped
<1>3. report' \in ReportRec /\ (pc' = "end" => report'.residual) BY <1>1, <1>2 DEF ReportRec
<1>4. Typed' /\ Identified' /\ Budgeted'
  BY <1>1, <1>2, <1>3, QuietComplete DEF Before, Placing, Steps
<1>5. Rescues' BY <1>1, <1>3 DEF Rescues, SilentOnlyByList
<1> QED BY <1>4, <1>5

LEMMA SettleComplete == ASSUME Complete, Settle PROVE Typed' /\ Identified' /\ Budgeted' /\ Rescues'
<1>1. /\ pc = "settle" /\ pc' \in {"end", "raised"} /\ report' = report
      /\ UNCHANGED <<args, books, mine, other, log, token, seen, snap, plan, limit, id, tries>>
  BY DEF Settle, Logged, Stay, venue, run
<1>2. report \in ReportRec /\ log \in {"open", "full"} /\ tries \in 0..(Attempts + ListAttempts)
  BY DEF Complete, Typed, RunTyped
<1>3. Typed' /\ Identified' /\ Budgeted'
  BY <1>1, <1>2, QuietComplete DEF Before, Placing, Steps
<1>4. mine.state # "live" BY <1>1 DEF Complete, Rescues
<1>5. Rescues' BY <1>1, <1>4 DEF Rescues, SilentOnlyByList
<1> QED BY <1>3, <1>5

(* The outer except says nothing of an order only where none was placed. *)
LEMMA RaisedComplete == ASSUME Complete, Raised PROVE Typed' /\ Identified' /\ Budgeted' /\ Rescues'
<1>1. /\ pc = "raised"
      /\ UNCHANGED <<args, books, mine, other, log, token, seen, snap, plan, limit, id, tries>>
      /\ \/ pc' = "escaped" /\ report' = report
         \/ pc' = "end" /\ ~MayRescue /\ report' = [report EXCEPT !.residual = FALSE, !.exit = 2]
         \/ pc' = RescueStep /\ report' = [report EXCEPT !.rescued = "run", !.exit = 2]
  BY DEF Raised, Stay, venue, run
<1>2. report \in ReportRec /\ log \in {"open", "full"} /\ tries \in 0..(Attempts + ListAttempts)
  BY DEF Complete, Typed, RunTyped
<1>3. /\ report' \in ReportRec
      /\ pc' = RescueStep => report'.rescued = "run"
  <2>1. [report EXCEPT !.residual = FALSE, !.exit = 2] \in ReportRec BY <1>2 DEF ReportRec
  <2>2. /\ [report EXCEPT !.rescued = "run", !.exit = 2] \in ReportRec
        /\ [report EXCEPT !.rescued = "run", !.exit = 2].rescued = "run"
    BY <1>2 DEF ReportRec
  <2>3. RescueStep \notin {"end", "escaped"} BY DEF RescueStep
  <2> QED BY <1>1, <1>2, <2>1, <2>2, <2>3
<1>4. pc' \in {"escaped", "end", "by id", "scan"} /\ (pc' = "by id" => id)
  BY <1>1 DEF RescueStep
<1>5. Typed' /\ Identified' /\ Budgeted'
  BY <1>1, <1>2, <1>3, <1>4, QuietComplete DEF Before, Placing, Steps
<1>6. pc' = "end" => mine.state # "live"
  <2> SUFFICES ASSUME pc' = "end" PROVE mine.state # "live" OBVIOUS
  <2>1. ~MayRescue BY <1>1 DEF RescueStep
  <2>2. plan = NoPlan => mine.state = "none"
    <3>1. MinSize > 0 /\ MinSize \in Nat BY ConstantsAre
    <3>2. plan = NoPlan => ~(plan.size >= MinSize) BY <3>1 DEF NoPlan
    <3> QED BY <3>2 DEF Complete, Budgeted, Affordable
  <2>3. args.readonly => mine.state = "none" BY DEF Complete, Budgeted
  <2> QED BY <2>1, <2>2, <2>3 DEF MayRescue, Scoped
<1>7. pc' \in {"by id", "scan"} => report'.rescued = "run" BY <1>1, <1>3
<1>8. Rescues' BY <1>1, <1>4, <1>6, <1>7 DEF Rescues, SilentOnlyByList
<1> QED BY <1>5, <1>8

LEMMA ByIdComplete == ASSUME Complete, ById PROVE Typed' /\ Identified' /\ Budgeted' /\ Rescues'
<1>1. /\ pc = "by id" /\ UNCHANGED <<args, books, other, log, token, seen, snap, plan, limit, id, tries>>
  BY DEF ById, run
<1>2. PICK c \in CancelOutcomes(mine) :
          /\ mine' = c.then
          /\ \/ c.ok /\ report' = [report EXCEPT !.residual = FALSE] /\ pc' = "rescued"
             \/ pc' = "scan" /\ report' = report
  BY DEF ById
<1>3. /\ report \in ReportRec /\ log \in {"open", "full"} /\ tries \in 0..(Attempts + ListAttempts)
      /\ mine \in MineRec /\ report.rescued = "run"
  BY <1>1 DEF Complete, Typed, RunTyped, VenueTyped, Rescues
<1>4. report' \in ReportRec /\ report'.rescued = "run" BY <1>2, <1>3 DEF ReportRec
<1>5. Typed' /\ Identified' /\ Budgeted'
  BY <1>1, <1>2, <1>3, <1>4, CancelsComplete DEF Before, Placing, Steps
<1>6. pc' = "rescued" => mine'.state = "cancelled" BY <1>2, <1>3, CancelOutcome
<1>7. pc' \in {"scan", "rescued"} BY <1>2
<1>8. Rescues' BY <1>4, <1>6, <1>7 DEF Rescues, SilentOnlyByList
<1> QED BY <1>5, <1>8

(* The rescue by the list is silent about an order only if its price, or an id that was     *)
(* never learnt, hid it.                                                                    *)
LEMMA ScanComplete == ASSUME Complete, Scan PROVE Typed' /\ Identified' /\ Budgeted' /\ Rescues'
<1>1. /\ pc = "scan" /\ pc' = "rescued"
      /\ UNCHANGED <<args, books, log, token, seen, snap, plan, limit, id, tries>>
  BY DEF Scan, run
<1>2. /\ report \in ReportRec /\ log \in {"open", "full"} /\ tries \in 0..(Attempts + ListAttempts)
      /\ mine \in MineRec /\ other \in OtherRec /\ report.rescued \in {"submit", "run"}
  BY <1>1 DEF Complete, Typed, RunTyped, VenueTyped, Rescues
<1> DEFINE Kept(o) == [ok |-> TRUE, then |-> o, fault |-> FALSE]
           m(ids) == Matches(ids, mine, "mine", token)
           n(ids) == Matches(ids, other, "other", other.token)
           r(cm, co) == IF report.rescued = "submit" THEN TRUE ELSE ~(cm.ok /\ co.ok)
           Ends == /\ mine' = mine \/ \E c \in CancelOutcomes(mine) : mine' = c.then
                   /\ other' = other \/ \E c \in CancelOutcomes(other) : other' = c.then
                   /\ report' \in ReportRec /\ report'.rescued = report.rescued
                   /\ report.rescued = "submit" => report'.residual
                   /\ mine'.state = "live" /\ ~report'.residual => mine'.price # plan.price
<1>3. Ends
  <2>1. CASE report' = [report EXCEPT !.residual = TRUE] /\ UNCHANGED <<mine, other>>
    <3>1. report' \in ReportRec /\ report'.rescued = report.rescued /\ report'.residual
      BY <1>2, <2>1 DEF ReportRec
    <3> QED BY <2>1, <3>1
  <2>2. CASE \E ids \in Listings :
               \E cm \in IF m(ids) THEN CancelOutcomes(mine) ELSE {Kept(mine)},
                  co \in IF n(ids) THEN CancelOutcomes(other) ELSE {Kept(other)} :
                    /\ mine' = cm.then /\ other' = co.then
                    /\ report' = [report EXCEPT !.residual = r(cm, co)]
    <3>1. PICK ids \in Listings :
               \E cm \in IF m(ids) THEN CancelOutcomes(mine) ELSE {Kept(mine)},
                  co \in IF n(ids) THEN CancelOutcomes(other) ELSE {Kept(other)} :
                    /\ mine' = cm.then /\ other' = co.then
                    /\ report' = [report EXCEPT !.residual = r(cm, co)]
      BY <2>2
    <3>2. PICK cm \in IF m(ids) THEN CancelOutcomes(mine) ELSE {Kept(mine)} :
               \E co \in IF n(ids) THEN CancelOutcomes(other) ELSE {Kept(other)} :
                    /\ mine' = cm.then /\ other' = co.then
                    /\ report' = [report EXCEPT !.residual = r(cm, co)]
      BY <3>1
    <3>3. PICK co \in IF n(ids) THEN CancelOutcomes(other) ELSE {Kept(other)} :
                    /\ mine' = cm.then /\ other' = co.then
                    /\ report' = [report EXCEPT !.residual = r(cm, co)]
      BY <3>2
    <3>4. r(cm, co) \in BOOLEAN OBVIOUS
    <3>5. /\ report' \in ReportRec /\ report'.rescued = report.rescued
          /\ report'.residual = r(cm, co)
      <4> HIDE DEF r
      <4> QED BY <1>2, <3>3, <3>4 DEF ReportRec
    <3>6. report.rescued = "submit" => report'.residual BY <3>5
    <3>7. report.rescued # "submit" => report'.residual = ~(cm.ok /\ co.ok) BY <3>5
    <3>8. other' = other \/ \E c \in CancelOutcomes(other) : other' = c.then
      <4> HIDE DEF n, r
      <4> QED BY <3>3
    <3>9. CASE m(ids)
      <4>1. cm \in CancelOutcomes(mine) BY <3>2, <3>9
      <4>2. cm.ok => cm.then.state = "cancelled" BY <1>2, <4>1, CancelOutcome
      <4>3. ~report'.residual => cm.ok BY <3>6, <3>7
      <4>4. mine'.state = "live" /\ ~report'.residual => mine'.price # plan.price
        BY <3>3, <4>2, <4>3
      <4>5. \E c \in CancelOutcomes(mine) : mine' = c.then BY <3>3, <4>1
      <4> HIDE DEF m, n, r
      <4> QED BY <3>5, <3>6, <3>8, <4>4, <4>5
    <3>10. CASE ~ m(ids)
      <4>1. cm = Kept(mine) BY <3>2, <3>10
      <4>2. mine' = mine BY <3>3, <4>1
      <4>3. mine.state = "live" => mine.price # plan.price
        BY <3>10, ListingsAre DEF Matches
      <4> HIDE DEF m, n, r
      <4> QED BY <3>5, <3>6, <3>8, <4>2, <4>3
    <3> HIDE DEF m, n, r, Ends
    <3> QED BY <3>9, <3>10
  <2>3. \/ report' = [report EXCEPT !.residual = TRUE] /\ UNCHANGED <<mine, other>>
        \/ \E ids \in Listings :
               \E cm \in IF m(ids) THEN CancelOutcomes(mine) ELSE {Kept(mine)},
                  co \in IF n(ids) THEN CancelOutcomes(other) ELSE {Kept(other)} :
                    /\ mine' = cm.then /\ other' = co.then
                    /\ report' = [report EXCEPT !.residual = r(cm, co)]
    BY DEF Scan
  <2> HIDE DEF Ends
  <2> QED BY <2>1, <2>2, <2>3
<1> HIDE DEF Kept, m, n, r
<1>4. Typed' /\ Identified' /\ Budgeted'
  BY <1>1, <1>2, <1>3, CancelsComplete DEF Before, Placing, Steps
<1>5. Rescues' BY <1>1, <1>2, <1>3 DEF Rescues, SilentOnlyByList, Hidden
<1> QED BY <1>4, <1>5

LEMMA RescuedComplete == ASSUME Complete, Rescued PROVE Typed' /\ Identified' /\ Budgeted' /\ Rescues'
<1>1. /\ pc = "rescued"
      /\ UNCHANGED <<args, books, mine, other, log, token, seen, snap, plan, limit, id, tries>>
      /\ \/ pc' = "end" /\ report' = report
         \/ pc' = "raised" /\ report' = report
         \/ pc' = "rescue failed" /\ report' = [report EXCEPT !.residual = TRUE]
  BY DEF Rescued, Stay, venue, run
<1>2. report \in ReportRec /\ log \in {"open", "full"} /\ tries \in 0..(Attempts + ListAttempts)
  BY DEF Complete, Typed, RunTyped
<1>3. report' \in ReportRec /\ (pc' = "rescue failed" => report'.residual)
  BY <1>1, <1>2 DEF ReportRec
<1>4. Typed' /\ Identified' /\ Budgeted'
  BY <1>1, <1>2, <1>3, QuietComplete DEF Before, Placing, Steps
<1>5. Rescues' BY <1>1, <1>3 DEF Complete, Rescues, SilentOnlyByList, Hidden
<1> QED BY <1>4, <1>5

LEMMA RescueFailedComplete ==
    ASSUME Complete, RescueFailed PROVE Typed' /\ Identified' /\ Budgeted' /\ Rescues'
<1>1. /\ pc = "rescue failed" /\ pc' \in {"end", "escaped"} /\ report' = report
      /\ UNCHANGED <<args, books, mine, other, log, token, seen, snap, plan, limit, id, tries>>
  BY DEF RescueFailed, Stay, venue, run
<1>2. report \in ReportRec /\ log \in {"open", "full"} /\ tries \in 0..(Attempts + ListAttempts)
  BY DEF Complete, Typed, RunTyped
<1>3. Typed' /\ Identified' /\ Budgeted'
  BY <1>1, <1>2, QuietComplete DEF Before, Placing, Steps
<1>4. Rescues' BY <1>1 DEF Complete, Rescues, SilentOnlyByList
<1> QED BY <1>3, <1>4

-----------------------------------------------------------------------------
(* The market and the other owners: what rests keeps its price, and only an order whose id  *)
(* was never learnt can still land.                                                         *)
LEMMA AroundComplete ==
    ASSUME Complete, BookMoves \/ Fills \/ Lands \/ OwnerCancels
    PROVE  Typed' /\ Identified' /\ Budgeted' /\ Rescues'
<1>1. /\ pc \notin {"end", "escaped"}
      /\ UNCHANGED <<pc, args, token, seen, snap, plan, limit, id, tries, report>>
  BY DEF BookMoves, Fills, Lands, OwnerCancels, Move, run
<1>2. RunTyped /\ VenueTyped /\ PlanTyped BY DEF Complete, Typed
<1>3. books \in [Tokens -> Books] /\ mine \in MineRec /\ other \in OtherRec /\ log' = log
  BY <1>2 DEF VenueTyped, BookMoves, Fills, Lands, OwnerCancels
<1>4. books' \in [Tokens -> Books] BY <1>3 DEF BookMoves, Fills, Lands, OwnerCancels
<1>5. other' \in OtherRec BY <1>3 DEF BookMoves, Fills, Lands, OwnerCancels, OtherRec
<1>6. mine' \in MineRec /\ mine'.price = mine.price
  <2>1. CASE UNCHANGED mine BY <1>3, <2>1
  <2>2. CASE Fills
    <3>1. \E q \in 0..2, s \in OrderStates : mine' = [mine EXCEPT !.matched = q, !.state = s]
      <4>1. PICK q \in {1, 2} :
               mine' = [mine EXCEPT !.matched = q, !.state = IF q = 2 THEN "filled" ELSE "live"]
        BY <2>2 DEF Fills
      <4>2. q \in 0..2 /\ {"filled", "live"} \subseteq OrderStates BY DEF OrderStates
      <4>3. CASE q = 2
        <5>1. mine' = [mine EXCEPT !.matched = q, !.state = "filled"] BY <4>1, <4>3
        <5> QED BY <4>2, <5>1
      <4>4. CASE q # 2
        <5>1. mine' = [mine EXCEPT !.matched = q, !.state = "live"] BY <4>1, <4>4
        <5> QED BY <4>2, <5>1
      <4> QED BY <4>3, <4>4
    <3>2. PICK q \in 0..2 : \E s \in OrderStates :
             mine' = [mine EXCEPT !.matched = q, !.state = s]
      BY <3>1
    <3>3. PICK s \in OrderStates : mine' = [mine EXCEPT !.matched = q, !.state = s] BY <3>2
    <3> QED BY <1>3, <3>3 DEF MineRec
  <2>3. CASE Lands BY <1>3, <2>3 DEF Lands, MineRec, OrderStates
  <2>4. CASE mine' = [mine EXCEPT !.state = "cancelled"] BY <1>3, <2>4 DEF MineRec, OrderStates
  <2>5. BookMoves \/ OwnerCancels => mine' = mine \/ mine' = [mine EXCEPT !.state = "cancelled"]
    BY DEF BookMoves, OwnerCancels
  <2> QED BY <2>1, <2>2, <2>3, <2>4, <2>5
<1>7. \/ mine' = mine
      \/ mine.state = "live" /\ mine'.state \in {"live", "filled", "cancelled"}
      \/ mine.state = "sent" /\ mine'.state \in {"none", "live"}
  BY <1>3 DEF BookMoves, Fills, Lands, OwnerCancels, MineRec
<1>8. RunTyped' BY <1>1, <1>2, <1>3 DEF RunTyped
<1>9. VenueTyped' BY <1>4, <1>5, <1>6 DEF VenueTyped
<1>10. PlanTyped' BY <1>1, <1>2 DEF PlanTyped
<1>11. Identified' BY <1>1, <1>7 DEF Complete, Identified
<1>12. Budgeted' BY <1>1, <1>6, <1>7 DEF Complete, Budgeted, Affordable
<1>13. mine.state = "sent" => ~id BY DEF Complete, Identified
<1>14. Rescues' BY <1>1, <1>6, <1>7, <1>13 DEF Complete, Rescues, SilentOnlyByList, Hidden
<1> QED BY <1>8, <1>9, <1>10, <1>11, <1>12, <1>14 DEF Typed

LEMMA StillComplete ==
    ASSUME Complete, LogTurns \/ UNCHANGED vars
    PROVE  Typed' /\ Identified' /\ Budgeted' /\ Rescues'
<1>1. /\ UNCHANGED <<pc, args, books, mine, other, token, seen, snap, plan, limit, id, tries, report>>
      /\ log' \in {"open", "full", log}
  BY DEF LogTurns, vars, venue, run
<1>2. Typed' BY <1>1 DEF Complete, Typed, RunTyped, VenueTyped, PlanTyped
<1>3. Identified' /\ Budgeted' /\ Rescues'
  BY <1>1 DEF Complete, Identified, Budgeted, Affordable, Rescues, SilentOnlyByList, Hidden
<1> QED BY <1>2, <1>3

LEMMA CompleteKept == Complete /\ [Next]_vars => Complete'
<1> SUFFICES ASSUME Complete, [Next]_vars PROVE Complete'
  OBVIOUS
<1>1. IInv' BY Inductive DEF Complete
<1>2. ASSUME Smoke PROVE Typed' /\ Identified' /\ Budgeted' /\ Rescues'
  BY <1>2, GatesComplete, PrepareComplete, SelectComplete, PreflightComplete, ClampComplete,
     UnsentComplete, PostComplete, PollComplete, SubmitRaisedComplete, VerifyComplete,
     CancelComplete, GoneComplete, ListComplete, NotClearComplete, SettleComplete,
     RaisedComplete, ByIdComplete, ScanComplete, RescuedComplete, RescueFailedComplete DEF Smoke
<1>3. Typed' /\ Identified' /\ Budgeted' /\ Rescues'
  BY <1>2, AroundComplete, StillComplete DEF Next
<1> QED BY <1>1, <1>3 DEF Complete

LEMMA AlwaysComplete == Spec => []Complete
  BY InitComplete, CompleteKept, PTL DEF Spec

-----------------------------------------------------------------------------
(* Every variable keeps its type; an id is known only of an order the venue has, and a call *)
(* that names the order is made only with its id.                                           *)
THEOREM TypeCorrect == Spec => []TypeOK
<1>1. Complete => TypeOK
  <2> SUFFICES ASSUME Complete PROVE TypeOK OBVIOUS
  <2>1. RunTyped /\ VenueTyped /\ PlanTyped /\ Identified BY DEF Complete, Typed
  <2>2. mine.state \in OrderStates /\ mine.matched \in 0..2 /\ other.state \in {"live", "cancelled"}
    BY <2>1 DEF VenueTyped, MineRec, OtherRec
  <2>3. plan.price \in 0..One /\ report.exit \in {0, 2, 3}
    BY <2>1 DEF PlanTyped, Plans, RunTyped, ReportRec
  <2> QED BY <2>1, <2>2, <2>3 DEF TypeOK, RunTyped, PlanTyped, Identified
<1> QED BY <1>1, AlwaysComplete, PTL

(* What may rest at the venue was planned within the caller's budget, the fire budget, the  *)
(* free balance and the room under the capital cap, and the clamp never raised its price.   *)
THEOREM SpendAlwaysWithin == Spec => []SpendWithinLimits
<1>1. Complete => SpendWithinLimits
  <2> SUFFICES ASSUME Complete, mine.state # "none"
               PROVE  /\ plan.size * mine.price <= args.budget
                      /\ plan.size * mine.price <= FireBudget
                      /\ plan.size * mine.price <= snap.balance
                      /\ snap.committed + plan.size * mine.price <= MaxCapital
                      /\ mine.price <= Cap /\ plan.size >= MinSize
    BY DEF SpendWithinLimits
  <2>1. RunTyped /\ VenueTyped /\ PlanTyped /\ Affordable /\ mine.price <= plan.price
    BY DEF Complete, Typed, Budgeted
  <2>2. One \in Nat /\ Cap \in Nat /\ FireBudget \in Nat /\ MaxCapital \in Nat /\ args.budget \in Nat
    BY <2>1, ConstantsAre DEF RunTyped
  <2>3. /\ plan.size \in Nat /\ plan.price \in Nat /\ mine.price \in Nat
        /\ snap.balance \in Nat /\ snap.committed \in Nat
    BY <2>1, <2>2 DEF VenueTyped, PlanTyped, MineRec, Plans, Snapshots
  <2>4. \A a, b, c \in Nat : b <= c => a * b \in Nat /\ a * c \in Nat /\ a * b <= a * c OBVIOUS
  <2>5. /\ plan.size * mine.price \in Nat /\ plan.size * plan.price \in Nat
        /\ plan.size * mine.price <= plan.size * plan.price
    BY <2>1, <2>3, <2>4
  <2> DEFINE s == plan.size * mine.price  t == plan.size * plan.price
  <2>6. s \in Nat /\ t \in Nat /\ s <= t BY <2>5
  <2>7. /\ t <= args.budget /\ t <= FireBudget /\ t <= snap.balance
        /\ snap.committed + t <= MaxCapital /\ plan.price <= Cap /\ plan.size >= MinSize
    BY <2>1 DEF Affordable
  <2> HIDE DEF s, t
  <2>8. /\ s <= args.budget /\ s <= FireBudget /\ s <= snap.balance
        /\ snap.committed + s <= MaxCapital /\ mine.price <= Cap /\ plan.size >= MinSize
    BY <2>1, <2>2, <2>3, <2>6, <2>7
  <2> QED BY <2>8 DEF s
<1> QED BY <1>1, AlwaysComplete, PTL

(* A run that comes back without a residual risk leaves nothing resting, but where the      *)
(* rescue went by the list and the order was off the price of the plan, or had no id.       *)
THEOREM SilenceAlwaysExplained == Spec => []SilentOnlyByList
<1>1. Complete => SilentOnlyByList
  BY DEF Complete, Rescues
<1> QED BY <1>1, AlwaysComplete, PTL
=============================================================================
