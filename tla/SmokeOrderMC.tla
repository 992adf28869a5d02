---------------------------- MODULE SmokeOrderMC ----------------------------
(* SmokeOrder for TLC: two tokens in two sessions, a tick of two pips, books that quote on  *)
(* and between the ticks, one of them dead, and an account that is rich or nearly full.     *)
EXTENDS SmokeOrder

MCTokens   == {"t1", "t2"}
MCSessions == <<{"t1", "t2"}>>
MCBooks == {[bid |-> 6, ask |-> 11, depth |-> 9],
            [bid |-> 5, ask |-> 8, depth |-> 9],
            [bid |-> 0, ask |-> 8, depth |-> 9]}
Passed   == [flag |-> TRUE, env |-> TRUE, phrase |-> "today"]
Replayed == [flag |-> TRUE, env |-> TRUE, phrase |-> "another day"]
Forgot   == [flag |-> FALSE, env |-> TRUE, phrase |-> "today"]
Command(g, ro, pin, budget, override) ==
    [gates |-> g, readonly |-> ro, pin |-> pin, budget |-> budget, override |-> override]
MCCommands == {Command(Passed, FALSE, "none", 50, 0), Command(Replayed, FALSE, "t2", 50, 9),
               Command(Passed, FALSE, "t1", 70, 0), Command(Forgot, TRUE, "none", 50, 0),
               Command(Forgot, FALSE, "none", 50, 0)}
MCAccounts == {[balance |-> 200, values |-> <<20, 1>>], [balance |-> 200, values |-> <<150>>]}
=============================================================================
