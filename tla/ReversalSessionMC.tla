-------------------------- MODULE ReversalSessionMC --------------------------
(* ReversalSession for TLC: one session, HIGH or LOW, of a Celsius market. *)
EXTENDS ReversalSession

MCSessions == {"s"}
MCCurves   == [high |-> {<<1, 2, 3>>}, low |-> {<<3, 2>>}]
=============================================================================
