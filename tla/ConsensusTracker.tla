------------------------- MODULE ConsensusTracker -------------------------
(***************************************************************************)
(* The price memory of src/consensus_tracker.py for one session: a series  *)
(* of mids for each bucket, pruned to a window, and the ranking of the     *)
(* buckets by their time-weighted average.                                 *)
(*                                                                         *)
(* Prices are cents, times are ticks.  A look at the books is a function   *)
(* from buckets to [bid, ask], a price of 0 standing for no quote.  Looks  *)
(* of one tick are not told apart in time: the last one counts.  Averages  *)
(* are compared as fractions; which of two equal ones is first depends on  *)
(* the depth of the books, which is left open.                             *)
(***************************************************************************)
EXTENDS Integers, Sequences, SequencesExt, FiniteSetsExt

NoQuote == [bid |-> 0, ask |-> 0]
Quoted(look, b)  == look[b].ask > 0
Missing(look)    == \A b \in DOMAIN look : look[b] = NoQuote

(* record: twice the mid of a book with both sides, else its ask; no ask, no sample. *)
TwiceMid(q) == IF q.bid > 0 THEN q.ask + q.bid ELSE 2 * q.ask

(* record_books: one sample of every quoted bucket.  Without any book nothing is kept. *)
Earlier(samples, now) == IF samples # <<>> /\ Last(samples).at = now THEN Front(samples) ELSE samples
Recorded(samples, look, now) ==
    IF Missing(look) THEN samples
    ELSE Append(Earlier(samples, now), [at |-> now, look |-> look])

(* prune drops samples from the front as long as they are older than the window. *)
Young(samples, now, window) == {i \in 1..Len(samples) : samples[i].at >= now - window}
Pruned(samples, now, window) ==
    IF Young(samples, now, window) = {} THEN <<>>
    ELSE SubSeq(samples, Min(Young(samples, now, window)), Len(samples))

Series(samples, b) == SelectSeq(samples, LAMBDA s : Quoted(s.look, b))

(* twap_mid: each sample weighs the time to the next, the last one the time to now.     *)
(* A series without weight yields its last mid.  The result is a fraction, twice a mid. *)
Until(series, i, now) == (IF i < Len(series) THEN series[i + 1].at ELSE now) - series[i].at
Twap(series, b, now) ==
    LET Weight(i)   == Until(series, i, now)
        Weighted(i) == Weight(i) * TwiceMid(series[i].look[b])
        total       == MapThenSumSet(Weight, DOMAIN series)
    IN  IF Len(series) < 2 \/ total = 0
        THEN [over |-> TwiceMid(Last(series).look[b]), total |-> 1]
        ELSE [over |-> MapThenSumSet(Weighted, DOMAIN series), total |-> total]

AtLeast(f, g) == f.over * g.total >= g.over * f.total

(* rank_buckets: the buckets that can come out first. *)
Leaders(samples, buckets, now) ==
    LET ranked == {b \in buckets : Series(samples, b) # <<>>}
        twap   == [b \in ranked |-> Twap(Series(samples, b), b, now)]
    IN  {b \in ranked : \A c \in ranked : AtLeast(twap[b], twap[c])}
=============================================================================
