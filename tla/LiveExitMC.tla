---------------------------- MODULE LiveExitMC ----------------------------
(* Small instances of LiveExit for TLC: a consensus-lock session of one YES leg,  *)
(* and the reversal lane (the old YES leg and the one a refire buys) beside a  *)
(* pre-breach sleeve.                                                             *)
EXTENDS LiveExit

LockSessions == {"lock"}
LockLegs     == {"yes"}
LockOwner    == [l \in LockLegs |-> "lock"]
LockLane     == [s \in LockSessions |-> "consensus_lock"]

RevSessions  == {"rev", "rev#sleeve"}
RevLegs      == {"yes_old", "yes_new", "yes_sleeve"}
RevOwner     == [l \in RevLegs |-> IF l = "yes_sleeve" THEN "rev#sleeve" ELSE "rev"]
RevLane      == [s \in RevSessions |-> IF s = "rev" THEN "reversal" ELSE "sleeve"]
RevRestable  == {"yes_old"}
RevRefire    == {"yes_new"}
=============================================================================
