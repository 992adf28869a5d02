--------------------------- MODULE BasketExecution ---------------------------
(***************************************************************************)
(* src/neg_risk/execution.py: one basket of legs sent to the venue leg by  *)
(* leg, the thinnest first as a probe or all of them in a row, and sold    *)
(* again when not every leg filled: always with a SELL, although the legs  *)
(* of a short basket are SELLs themselves.                                 *)
(*                                                                         *)
(* The engine believes an answer's "filled" and its size, whatever was     *)
(* asked; a refused order may have filled in part, and one that raises may *)
(* have filled.  Outside an unwind an exception leaves the engine at once. *)
(* Nothing in src/ but the tests calls this engine: it stands alone.       *)
(***************************************************************************)
EXTENDS Integers

CONSTANTS
    Counts,     \* how many legs a basket can have
    Size        \* shares asked of every leg

ASSUME BasketAssumption == Counts \subseteq Nat \ {0} /\ Size \in Nat \ {0}

VARIABLES
    basket,     \* its side, how many legs it has, and whether the first one is a probe
    next,       \* the leg to be sent
    status,     \* of every leg's record
    size,       \* executed_size of every leg's record
    recovered,  \* shares total_recovered counts, by leg
    report,     \* the status of the report, once there is one
    sent,       \* history: legs whose order was sent
    traded,     \* the venue: shares every leg's order filled
    sold        \* the venue: shares every leg's unwind order filled

execVars == <<basket, next, status, size, recovered, report, sent, traded, sold>>

Sides    == {"BUY", "SELL"}
Statuses == {"PENDING", "FILLED", "REJECTED", "CANCELLED", "UNWOUND"}
Reports  == {"none", "ALL_FILLED", "UNWOUND", "PROBE_ABORTED", "raised"}

Parts == 1..basket.count

(* execute_opportunity: a basket of one leg has no probe. *)
Orders == {b \in [side : Sides, count : Counts, probe : BOOLEAN] : b.probe => b.count > 1}

ExecInit ==
    /\ basket \in Orders
    /\ next = 1
    /\ status = [i \in Parts |-> "PENDING"]
    /\ size = [i \in Parts |-> 0] /\ recovered = size
    /\ report = "none"
    /\ sent = {}
    /\ traded = size /\ sold = size

-----------------------------------------------------------------------------
Running == report = "none"
Submits == Running /\ next <= basket.count

(* The order of the next leg goes out; n of its shares fill at the venue. *)
Sends(n) ==
    /\ Submits
    /\ sent' = sent \cup {next}
    /\ traded' = [traded EXCEPT ![next] = n]
    /\ UNCHANGED <<basket, recovered, sold>>

(* An answer "filled": its size is the leg's, be it less than was asked.  It is taken to be   *)
(* true; one that names no size stands for the whole order.                                *)
FillLeg(n) ==
    /\ n > 0 /\ Sends(n)
    /\ status' = [status EXCEPT ![next] = "FILLED"]
    /\ size' = [size EXCEPT ![next] = n]
    /\ next' = next + 1
    /\ UNCHANGED report

(* A refused leg: a batch goes on to the next one, a probe ends the basket, and a later leg *)
(* of a probed basket cancels those that were not sent.                                     *)
AfterReject ==
    IF ~basket.probe
    THEN /\ status' = [status EXCEPT ![next] = "REJECTED"]
         /\ next' = next + 1 /\ UNCHANGED report
    ELSE IF next = 1
    THEN /\ status' = [status EXCEPT ![1] = "REJECTED"]
         /\ report' = "PROBE_ABORTED" /\ UNCHANGED next
    ELSE /\ status' = [i \in Parts |-> IF i < next THEN status[i]
                                       ELSE IF i = next THEN "REJECTED" ELSE "CANCELLED"]
         /\ next' = basket.count + 1 /\ UNCHANGED report

(* Not filled, as far as the answer goes: what it filled in part is not asked for. *)
RefuseLeg(n) == Sends(n) /\ AfterReject /\ UNCHANGED size

(* The answer never comes back. *)
RaiseLeg(n) ==
    /\ Sends(n)
    /\ report' = "raised"
    /\ UNCHANGED <<next, status, size>>

-----------------------------------------------------------------------------
FilledLegs == {i \in Parts : status[i] = "FILLED"}
AllFilled ==
    /\ Running /\ ~Submits /\ FilledLegs = Parts
    /\ report' = "ALL_FILLED"
    /\ UNCHANGED <<basket, next, status, size, recovered, sent, traded, sold>>

(* _trigger_auto_unwind: each filled leg is counted as sold and marked, and a SELL of its   *)
(* size is sent whatever its side; the answer is not read and an exception is swallowed.    *)
Sellable_AllButProbe == FilledLegs \ {1}
Sellable == FilledLegs
Unwind ==
    /\ Running /\ ~Submits /\ FilledLegs # Parts
    /\ status' = [i \in Parts |-> IF i \in Sellable THEN "UNWOUND" ELSE status[i]]
    /\ recovered' = [i \in Parts |-> IF i \in Sellable THEN size[i] ELSE 0]
    /\ sold' \in {s \in [Parts -> 0..Size] : \A i \in Parts : s[i] <= recovered'[i]}
    /\ report' = "UNWOUND"
    /\ UNCHANGED <<basket, next, size, sent, traded>>

ExecNext ==
    \/ \E n \in 0..Size : FillLeg(n) \/ RefuseLeg(n) \/ RaiseLeg(n)
    \/ AllFilled \/ Unwind

ExecSpec == ExecInit /\ [][ExecNext]_execVars

-----------------------------------------------------------------------------
(* What the venue says we hold of a leg: negative is short. *)
Held(i) == (IF basket.side = "BUY" THEN traded[i] ELSE -traded[i]) - sold[i]

(* What no answer told of, and what was counted as recovered and was not sold. *)
Untold(i) == traded[i] - size[i]
Unsold(i) == recovered[i] - sold[i]

(* A long basket that ends with a report is held exactly as its records say: leg by leg     *)
(* what was told of when all filled (be it less than was asked), and after an unwind only   *)
(* shares no answer told of and shares the unwind orders did not sell.  Of a short basket   *)
(* the unwind makes no such thing: "to eliminate naked delta" (_trigger_auto_unwind) holds   *)
(* of BUY legs only, and the proceeds it counts of orders that really sold.                 *)
LongEnds ==
    basket.side = "BUY" =>
        \A i \in Parts :
            /\ report = "ALL_FILLED"    => Held(i) = size[i] /\ Held(i) > 0
            /\ report = "UNWOUND"       => Held(i) = Untold(i) + Unsold(i)
            /\ report = "PROBE_ABORTED" => Held(i) = Untold(i) /\ (i > 1 => Held(i) = 0)

(* A long basket never goes short of a leg nor over what was asked of it; a short one, its  *)
(* unwind included, at most sells every leg twice.                                          *)
ExposureBounded ==
    \A i \in Parts : Held(i) \in IF basket.side = "BUY" THEN 0..Size ELSE (-2 * Size)..0

(* "Zero Legging Risk" (execution.py:6-8): in a probed basket no order follows a refused    *)
(* one.                                                                                     *)
ProbeGuards ==
    basket.probe => \A i, j \in Parts : status[i] = "REJECTED" /\ j \in sent => j <= i

(* A basket in execution is as safe as the code makes it: a long one ends as its records    *)
(* say, exposure is bounded leg by leg, and nothing is sent behind a refused probe.         *)
BasketSafe == LongEnds /\ ExposureBounded /\ ProbeGuards
=============================================================================
