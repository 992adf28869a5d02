------------------------- MODULE ConsensusSessionMC -------------------------
(* ConsensusSession for TLC: three buckets, a HIGH and a LOW market. *)
EXTENDS ConsensusSession

MCBuckets == 1..3
Q(bid, ask) == [bid |-> bid, ask |-> ask]
Books(a, b, c) == <<a, b, c>>

Calm    == Books(Q(1, 2), Q(60, 62), Q(5, 8))       \* the target can be bought
Cheap   == Books(Q(1, 2), Q(60, 66), Q(25, 30))     \* and the next bucket
Surge   == Books(Q(1, 2), Q(50, 55), Q(46, 72))     \* the next bucket jumps: it is sure
Low(books) == <<books[3], books[2], books[1]>>
MCLooks == [high |-> {Calm, Cheap, Surge}, low |-> {Low(Calm), Low(Surge)}]

MCDays == [high |-> {[ref |-> 2, temps |-> <<2, 2, 3>>,  storms |-> <<FALSE, FALSE, FALSE>>],
                     [ref |-> 0, temps |-> <<2, 2, -1>>, storms |-> <<FALSE, FALSE, TRUE>>]},
           low  |-> {[ref |-> 0, temps |-> <<2, 2, 1>>, storms |-> <<FALSE, FALSE, FALSE>>]}]
MCDwell == [high |-> 2, low |-> 1]
=============================================================================
