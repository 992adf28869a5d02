---------------------------- MODULE FireWindowMC ----------------------------
(* FireWindow for TLC: one session "s" with every fire it can raise.  The consensus lane    *)
(* has the target bucket (token "t") and the next bucket ("n"), the sleeve buys the next    *)
(* bucket too, and the reversal lane fires a pair (the broken bucket's NO and the new       *)
(* bucket's YES), then refires on the bucket after.                                         *)
EXTENDS FireWindow

MCSessions == {"s"}
MCKind   == [lock |-> "target", next |-> "next", sleeve |-> "sleeve", fire |-> "first",
             refire |-> "refire"]
MCFires  == DOMAIN MCKind
MCKey    == [f \in MCFires |-> "s"]
MCFireOf == [yes_lock |-> "lock", yes_next |-> "next", yes_sleeve |-> "sleeve",
             no_broken |-> "fire", yes_new |-> "fire", yes_refire |-> "refire"]
MCLegs   == DOMAIN MCFireOf
MCToken  == [yes_lock |-> "t", yes_next |-> "n", yes_sleeve |-> "n",
             no_broken |-> "t", yes_new |-> "n", yes_refire |-> "t"]
MCTokens == {"t", "n"}
MCYesLegs == MCLegs \ {"no_broken"}
MCCap    == [yes_lock |-> 3, yes_next |-> 2, yes_sleeve |-> 2, no_broken |-> 2, yes_new |-> 2,
             yes_refire |-> 2]
MCFloor  == [yes_lock |-> 1, yes_next |-> 1, yes_sleeve |-> 0, no_broken |-> 0, yes_new |-> 1,
             yes_refire |-> 1]
MCChannel == [l \in MCLegs |-> CASE l = "yes_lock" -> TargetBucket
                                [] l = "yes_next" -> NextBucket
                                [] OTHER          -> NoChannel]
MCBands  == [flat           |-> [lo |-> Absent, hi |-> Absent],
             strategy       |-> [lo |-> 1, hi |-> 2],
             consensus_lock |-> [lo |-> Absent, hi |-> 3]]
MCMinSizes == {Absent, 2}
MCTarget == [yes_lock |-> 1, yes_next |-> 2, yes_sleeve |-> 1, no_broken |-> 1, yes_new |-> 1,
             yes_refire |-> 1]
MCLadders == {<<0, 0, 0>>, <<0, 2, 1>>}

(* The paper sleeve A/B arm runs beside both lanes; live, the sleeve runs beside the        *)
(* consensus lane only, to keep the number of states within reach.                          *)
MCSetups == Configs \ {[mode |-> "live", strategy_mode |-> "reversal", sleeve_enabled |-> TRUE]}
=============================================================================
