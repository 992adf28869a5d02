---------------------------- MODULE MarketFeedMC ----------------------------
(* MarketFeed for TLC: a token t1 whose ask moves from one price level to the other, and a  *)
(* token t2 that a later rules refresh adds.                                                *)
EXTENDS MarketFeed

CONSTANTS t1, t2

MCDeltas == {[token |-> t1, side |-> "asks", level |-> 2, on |-> FALSE],
             [token |-> t1, side |-> "asks", level |-> 1, on |-> TRUE]}
MCRules == {{t1}, {t1, t2}}
MCFirstBook == [bids |-> {1}, asks |-> {2}]
=============================================================================
