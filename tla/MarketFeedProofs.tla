-------------------------- MODULE MarketFeedProofs --------------------------
(***************************************************************************)
(* Of MarketFeed, for all tokens, rules, price levels and bounds: no token *)
(* the stream knows is left out of the subscription; no ladder of the      *)
(* cache carries a stamp more than MaxAge younger than its data; the local *)
(* book of a served token and the frames under way make up the venue's     *)
(* book; and every side the cache offers has been the venue's.             *)
(*                                                                         *)
(* The invariants come in layers: Subscribed and Stamped, each for itself; *)
(* Typed; Tracked, that the frames under way lead each served book to the  *)
(* venue's; Sourced, that all the books on that way have been the venue's. *)
(***************************************************************************)
EXTENDS MarketFeed, FiniteSums, TLAPS

(* The daemon is a record of four fields. *)
DaemonShape ==
    /\ daemon = [at |-> daemon.at, sub |-> daemon.sub, hand |-> daemon.hand, half |-> daemon.half]
    /\ daemon.at \in {"none", "backoff", "dialed", "subscribing", "reading"}

(* Where the daemon is tells whether there is a socket, and the tokens of the message it is  *)
(* about to send are, with those served, all the stream knows, unless the main thread is     *)
(* about to send a message of its own.                                                       *)
Covered ==
    /\ daemon.at \in {"none", "backoff"} <=> link = "closed"
    /\ link = "open" /\ main # "send" =>
        /\ daemon.at = "subscribing" => known \subseteq daemon.sub \union served
        /\ daemon.at = "reading" => known \subseteq served

Subscribed == DaemonShape /\ Covered

LEMMA SubscribedInit == Init => Subscribed
  BY DEF Init, Subscribed, DaemonShape, Covered

LEMMA SubscribedStep == Subscribed /\ [Next]_vars => Subscribed'
<1> SUFFICES ASSUME Subscribed, [Next]_vars PROVE Subscribed'
  OBVIOUS
<1> USE DEF Subscribed, DaemonShape, Covered
<1>1. ASSUME NEW batch \in Batches, Change(batch) PROVE Subscribed'
  BY <1>1 DEF Change
<1>2. CASE Break
  BY <1>2 DEF Break
<1>3. CASE Daemon
  <2>1. CASE Dial
    BY <2>1 DEF Dial
  <2>2. CASE ReadTokens
    BY <2>2 DEF ReadTokens
  <2>3. CASE Subscribe
    BY <2>3 DEF Subscribe, Serve
  <2>4. CASE NoticeBreak
    BY <2>4 DEF NoticeBreak, Hangup
  <2>5. CASE Read
    BY <2>5 DEF Read
  <2>6. ASSUME NEW t \in Tokens, ApplyBids(t) PROVE Subscribed'
    BY <2>6 DEF ApplyBids
  <2>7. ASSUME NEW t \in Tokens, ApplyAsks(t) PROVE Subscribed'
    BY <2>7 DEF ApplyAsks
  <2>8. CASE ApplyChange
    BY <2>8 DEF ApplyChange
  <2> QED
    BY <1>3, <2>1, <2>2, <2>3, <2>4, <2>5, <2>6, <2>7, <2>8 DEF Daemon
<1>4. CASE Deadline
  BY <1>4 DEF Deadline, Hangup
<1>5. CASE MainThread
  <2>1. CASE BeginCycle
    BY <2>1 DEF BeginCycle
  <2>2. CASE Send
    BY <2>2 DEF Send, Serve
  <2>3. CASE Pump
    BY <2>3 DEF Pump
  <2> QED
    BY <1>5, <2>1, <2>2, <2>3 DEF MainThread
<1>6. CASE Tick
  BY <1>6 DEF Tick
<1>7. CASE UNCHANGED vars
  BY <1>7 DEF vars
<1> QED
  BY <1>1, <1>2, <1>3, <1>4, <1>5, <1>6, <1>7 DEF Next

(* No token the stream knows is missed by the subscriptions of a connection that is being    *)
(* read, however ensure_tokens and a dial interleave (src/ws_bridge.py:66,                   *)
(* src/market_ws_transport.py:436). *)
THEOREM Subscription == Spec => []NoTokenMissed
<1>1. Subscribed => NoTokenMissed
  BY DEF Subscribed, Covered, NoTokenMissed
<1> QED
  BY SubscribedInit, SubscribedStep, <1>1, PTL DEF Spec

-----------------------------------------------------------------------------
(* Local books are records with a time of receipt, and the stamps of the cache are times. *)
Times ==
    /\ MaxAge \in Nat /\ clock \in Nat
    /\ local = [t \in Tokens |-> local[t]]
    /\ \A t \in Tokens :
        /\ local[t] = [ready |-> local[t].ready, book |-> local[t].book,
                       received |-> local[t].received]
        /\ local[t].received \in Nat
    /\ \A t \in Tokens : cache[t].fetched \in Nat /\ cache[t].seen \in Nat

Stamped == Times /\ StampHonest

LEMMA StampedInit == Init => Stamped
<1> SUFFICES ASSUME Init PROVE Stamped
  OBVIOUS
<1> USE DEF Init
<1>1. MaxAge \in Nat
  BY ConstantsAssumption
<1>2. \A t \in Tokens : local[t] = [ready |-> FALSE, book |-> NoBook, received |-> 0]
  OBVIOUS
<1>3. \A t \in Tokens : cache[t].fetched = 0 /\ cache[t].seen = 0
  OBVIOUS
<1>4. local = [t \in Tokens |-> local[t]]
  OBVIOUS
<1> QED
  <2>1. clock = 1 /\ clock \in Nat
    OBVIOUS
  <2>2. \A t \in Tokens : local[t].ready = FALSE /\ local[t].book = NoBook
                          /\ local[t].received = 0
    BY <1>2
  <2>3. Times
    <3> HIDE DEF Init
    <3> QED
      BY <1>1, <1>2, <1>3, <1>4, <2>1, <2>2 DEF Times
  <2>4. StampHonest
    <3> HIDE DEF Init
    <3> QED
      BY <1>1, <1>3 DEF StampHonest
  <2> QED
    BY <2>3, <2>4 DEF Stamped

LEMMA StampedStep == Stamped /\ [Next]_vars => Stamped'
<1> SUFFICES ASSUME Stamped, [Next]_vars PROVE Stamped'
  OBVIOUS
<1> USE DEF Stamped, Times, StampHonest
<1>1. ASSUME UNCHANGED <<local, cache, clock>> PROVE Stamped'
  BY <1>1
(* Only a new asks side and a delta give a book a time, and it is the present one. *)
<1>2. ASSUME NEW t \in Tokens, NEW book, NEW ready, NEW received \in Nat,
             local' = [local EXCEPT ![t] = [ready |-> ready, book |-> book, received |-> received]],
             UNCHANGED <<cache, clock>>
      PROVE  Stamped'
  <2>1. \A u \in Tokens : local'[u] = IF u = t
                                      THEN [ready |-> ready, book |-> book, received |-> received]
                                      ELSE local[u]
    BY <1>2
  <2> QED
    BY <1>2, <2>1
<1>3. CASE Daemon
  <2>1. CASE Dial \/ ReadTokens \/ Subscribe \/ NoticeBreak \/ Read
    BY <2>1, <1>1 DEF Dial, ReadTokens, Subscribe, NoticeBreak, Hangup, Read
  <2>2. ASSUME NEW t \in Tokens, ApplyBids(t) PROVE Stamped'
    <3> DEFINE bids == [local[t].book EXCEPT !.bids = daemon.hand.books[t].bids]
    <3>1. CASE UNCHANGED local
      BY <2>2, <3>1, <1>1 DEF ApplyBids
    <3>2. CASE local' = [local EXCEPT ![t].book.bids = daemon.hand.books[t].bids]
      <4>1. local' = [local EXCEPT ![t] = [ready |-> local[t].ready, book |-> bids,
                                           received |-> local[t].received]]
        <5>1. local' = [local EXCEPT ![t] = [local[t] EXCEPT !.book = bids]]
          BY <3>2
        <5>2. [local[t] EXCEPT !.book = bids]
                  = [ready |-> local[t].ready, book |-> bids, received |-> local[t].received]
          <6> HIDE DEF bids
          <6> QED
            BY local[t] = [ready |-> local[t].ready, book |-> local[t].book,
                           received |-> local[t].received]
        <5> QED
          BY <5>1, <5>2
      <4> HIDE DEF bids
      <4> QED
        BY <2>2, <4>1, <1>2 DEF ApplyBids
    <3> QED
      BY <2>2, <3>1, <3>2 DEF ApplyBids
  <2>3. ASSUME NEW t \in Tokens, ApplyAsks(t) PROVE Stamped'
    <3> DEFINE asks == [local[t].book EXCEPT !.asks = daemon.hand.books[t].asks]
    <3>1. CASE UNCHANGED local
      BY <2>3, <3>1, <1>1 DEF ApplyAsks
    <3>2. CASE local' = [local EXCEPT ![t] = [ready |-> TRUE, received |-> clock,
                                              book |-> asks]]
      BY <2>3, <3>2, <1>2 DEF ApplyAsks
    <3> QED
      BY <2>3, <3>1, <3>2 DEF ApplyAsks
  <2>4. CASE ApplyChange
    <3> DEFINE c == Head(daemon.hand.changes)
    <3>1. CASE UNCHANGED local
      BY <2>4, <3>1, <1>1 DEF ApplyChange
    <3>2. CASE local' = [local EXCEPT ![c.token] =
                    [ready |-> TRUE, book |-> Applied(@.book, c), received |-> clock]]
      <4> DEFINE new == Applied(local[c.token].book, c)
      <4>0. local' = [local EXCEPT ![c.token] =
                            [ready |-> TRUE, book |-> new, received |-> clock]]
        BY <3>2
      <4> HIDE DEF c, new
      <4>1. CASE c.token \in Tokens
        BY <2>4, <4>0, <4>1, <1>2 DEF ApplyChange
      <4>2. CASE c.token \notin Tokens
        <5>1. local' = local
          BY <4>0, <4>2
        <5> QED
          BY <2>4, <5>1, <1>1 DEF ApplyChange
      <4> QED
        BY <4>1, <4>2
    <3> QED
      BY <2>4, <3>1, <3>2 DEF ApplyChange
  <2> QED
    BY <1>3, <2>1, <2>2, <2>3, <2>4 DEF Daemon
<1>4. CASE BeginCycle
  BY <1>4, MaxAge >= 0 DEF BeginCycle
<1>5. CASE Pump
  BY <1>5 DEF Pump, Overlay, Fresh
<1>6. CASE Tick
  BY <1>6 DEF Tick
<1>7. CASE Break \/ Deadline \/ Send \/ UNCHANGED vars
  BY <1>7, <1>1 DEF Break, Deadline, Hangup, Send, vars
<1>8. ASSUME NEW batch \in Batches, Change(batch) PROVE Stamped'
  BY <1>8, <1>1 DEF Change
<1> QED
  BY <1>3, <1>4, <1>5, <1>6, <1>7, <1>8 DEF Next, MainThread

(* A ladder of the cache is at most MaxAge older than its stamp says: the overlay stamps it   *)
(* anew, but only a book received within MaxAge is overlaid (src/_r_cycle.py:641).            *)
THEOREM HonestStamps == Spec => []StampHonest
<1>1. Stamped => StampHonest
  BY DEF Stamped
<1> QED
  BY StampedInit, StampedStep, <1>1, PTL DEF Spec

-----------------------------------------------------------------------------
(* Types. *)
Lists    == {<<>>} \cup {<<c>> : c \in Changes} \cup {<<p[1], p[2]>> : p \in Changes \X Changes}
BookSets == UNION {[ts -> Books] : ts \in SUBSET Tokens}
DumpRec  == [kind : {"dump"}, books : BookSets, bad : SUBSET (Tokens \X Sides)]
DeltaRec == [kind : {"delta"}, changes : Lists, good : 0..2]
FrameRec == DumpRec \cup DeltaRec
Places   == {"none", "backoff", "dialed", "subscribing", "reading"}
DaemonRec == [at : Places, sub : SUBSET Tokens, hand : FrameRec, half : SUBSET Tokens]
LocalRec == [ready : BOOLEAN, book : Books, received : Nat]
CacheRec == [book : Books, fetched : Nat, seen : Nat]

(* What a frame tells is about tokens the stream knows, and is not empty. *)
Fits(f, ts) == IF f.kind = "dump" THEN DOMAIN f.books \subseteq ts /\ DOMAIN f.books # {}
                                  ELSE f.good \in 0..Len(f.changes)

VenueTyped  == /\ venue \in [Tokens -> Books] /\ served \subseteq known /\ known \subseteq Tokens
               /\ link \in {"closed", "open", "broken"}
               /\ wire \in Seq(FrameRec) /\ \A i \in 1..Len(wire) : Fits(wire[i], known)
               /\ shown \in [Tokens -> [Sides -> SUBSET SUBSET Levels]] /\ bad \in Nat
DaemonTyped == /\ daemon \in DaemonRec /\ Fits(daemon.hand, known)
               /\ daemon.sub \subseteq known /\ daemon.half \subseteq known
               /\ daemon.at # "none" \/ main # "idle" => known # {}
               /\ daemon.at = "subscribing" => daemon.sub # {}
BooksTyped  == /\ local \in [Tokens -> LocalRec] /\ cache \in [Tokens -> CacheRec]
               /\ clock \in Nat /\ \A t \in Tokens : /\ local[t].received <= clock
                                                     /\ cache[t].fetched <= clock
                                                     /\ cache[t].seen <= clock
               /\ main \in {"idle", "send", "pump"} /\ damaged \subseteq Tokens

(* Between its two halves a book has the new bids of the frame in hand. *)
Halfway == \/ daemon.half = {}
           \/ \E t \in Tokens : /\ daemon.half = {t} /\ daemon.hand.kind = "dump"
                               /\ t \in DOMAIN daemon.hand.books
                               /\ local[t].book["bids"] = daemon.hand.books[t]["bids"]

Typed == VenueTyped /\ DaemonTyped /\ BooksTyped /\ Halfway

-----------------------------------------------------------------------------
(* What a change makes of a book, and what the application of it does. *)
LEMMA BooksAre ==
    ASSUME NEW b \in Books, NEW c \in Changes
    PROVE  Moved(b, c) \in Books /\ Applied(b, c) = Moved(b, c)
<1>1. c.side \in Sides /\ c.level \in Levels BY DEF Changes
<1> DEFINE more == b[c.side] \union {c.level}  less == b[c.side] \ {c.level}
<1>2. more \in SUBSET Levels /\ less \in SUBSET Levels BY <1>1 DEF Books
<1>3. Moved(b, c) = [b EXCEPT ![c.side] = IF c.on THEN more ELSE less] BY DEF Moved
<1>4. Applied(b, c) = IF c.on THEN [b EXCEPT ![c.side] = more] ELSE [b EXCEPT ![c.side] = less]
  BY DEF Applied
<1> HIDE DEF more, less
<1>5. CASE c.on BY <1>1, <1>2, <1>3, <1>4, <1>5 DEF Books
<1>6. CASE ~c.on BY <1>1, <1>2, <1>3, <1>4, <1>6 DEF Books
<1> QED BY <1>5, <1>6

LEMMA NoneTold == \A b, t : Told(b, <<>>, t) = b
  BY DEF Told

LEMMA OneTold ==
    ASSUME NEW b, NEW c, NEW t
    PROVE  Told(b, <<c>>, t) = IF c.token = t THEN Moved(b, c) ELSE b
<1>1. <<c>> # <<>> /\ Len(<<c>>) = 1 /\ <<c>>[1] = c OBVIOUS
<1> QED BY <1>1 DEF Told

LEMMA TwoTold ==
    ASSUME NEW b, NEW c, NEW d, NEW t
    PROVE  Told(b, <<c, d>>, t) = Told(Told(b, <<c>>, t), <<d>>, t)
<1>1. <<c, d>> # <<>> /\ Len(<<c, d>>) = 2 /\ <<c, d>>[1] = c /\ <<c, d>>[2] = d OBVIOUS
<1>2. \A x : Told(x, <<d>>, t) = IF d.token = t THEN Moved(x, d) ELSE x BY OneTold
<1>3. Told(b, <<c>>, t) = IF c.token = t THEN Moved(b, c) ELSE b BY OneTold
<1>4. Told(b, <<c, d>>, t) =
         LET x == IF c.token = t THEN Moved(b, c) ELSE b
         IN  IF d.token = t THEN Moved(x, d) ELSE x
  BY <1>1 DEF Told
<1> QED BY <1>2, <1>3, <1>4

LEMMA OneToldTyped ==
    ASSUME NEW b \in Books, NEW c \in Changes, NEW t
    PROVE  Told(b, <<c>>, t) \in Books
<1>1. CASE c.token = t BY <1>1, OneTold, BooksAre
<1>2. CASE c.token # t BY <1>2, OneTold
<1> QED BY <1>1, <1>2

LEMMA ListsAre ==
    ASSUME NEW l \in Lists
    PROVE  l = <<>> \/ (\E c \in Changes : l = <<c>>) \/ (\E c, d \in Changes : l = <<c, d>>)
  BY DEF Lists

LEMMA ToldTyped ==
    ASSUME NEW b \in Books, NEW l \in Lists, NEW t
    PROVE  Told(b, l, t) \in Books
<1>1. CASE l = <<>> BY <1>1, NoneTold
<1>2. ASSUME NEW c \in Changes, l = <<c>> PROVE Told(b, l, t) \in Books BY <1>2, OneToldTyped
<1>3. ASSUME NEW c \in Changes, NEW d \in Changes, l = <<c, d>> PROVE Told(b, l, t) \in Books
  <2>1. Told(b, <<c>>, t) \in Books BY OneToldTyped
  <2>2. Told(Told(b, <<c>>, t), <<d>>, t) \in Books BY <2>1, OneToldTyped
  <2> QED BY <1>3, <2>2, TwoTold
<1> QED BY <1>1, <1>2, <1>3, ListsAre

LEMMA UpdatedTyped ==
    ASSUME NEW b \in Books, NEW f \in FrameRec, NEW t
    PROVE  Updated(b, f, t) \in Books
<1>1. CASE f \in DumpRec
  <2>1. f.kind = "dump" /\ f.books \in BookSets BY <1>1 DEF DumpRec
  <2>2. t \in DOMAIN f.books => f.books[t] \in Books BY <2>1 DEF BookSets
  <2> QED BY <2>1, <2>2 DEF Updated
<1>2. CASE f \in DeltaRec
  <2>1. f.kind = "delta" /\ f.changes \in Lists BY <1>2 DEF DeltaRec
  <2> QED BY <2>1, ToldTyped DEF Updated
<1> QED BY <1>1, <1>2 DEF FrameRec

LEMMA ConstantsAre ==
    /\ \A w \in Rules : w \subseteq Tokens /\ w # {}
    /\ FirstBook \in Books /\ Deltas \subseteq Changes /\ MaxAge \in Nat
  BY ConstantsAssumption

LEMMA NoFrameTyped ==
    /\ NoFrame \in DeltaRec /\ NoFrame \in FrameRec /\ Fits(NoFrame, known)
    /\ NoFrame.kind = "delta" /\ NoFrame.changes = <<>>
<1>1. NoFrame = [kind |-> "delta", changes |-> <<>>, good |-> 0] BY DEF NoFrame, Delta
<1>2. NoFrame \in DeltaRec BY <1>1 DEF DeltaRec, Lists
<1>3. Len(NoFrame.changes) = 0 BY <1>1
<1>4. Fits(NoFrame, known) BY <1>1, <1>3 DEF Fits
<1> QED BY <1>1, <1>2, <1>4 DEF FrameRec

LEMMA NoBookTyped == NoBook \in Books
  BY DEF NoBook, Books

LEMMA InitTyped == Init => Typed
<1> SUFFICES ASSUME Init PROVE Typed OBVIOUS
<1>1. VenueTyped
  <2>1. venue \in [Tokens -> Books] BY ConstantsAre DEF Init
  <2>2. shown \in [Tokens -> [Sides -> SUBSET SUBSET Levels]]
    <3>1. \A s \in Sides : FirstBook[s] \in SUBSET Levels BY ConstantsAre DEF Books
    <3> QED BY <3>1 DEF Init
  <2>3. wire \in Seq(FrameRec) /\ Len(wire) = 0 BY DEF Init
  <2> QED BY <2>1, <2>2, <2>3 DEF VenueTyped, Init
<1>2. DaemonTyped
  <2>1. daemon = [at |-> "none", sub |-> {}, hand |-> NoFrame, half |-> {}] BY DEF Init
  <2>2. daemon \in DaemonRec BY <2>1, NoFrameTyped DEF DaemonRec, Places
  <2> QED BY <2>1, <2>2, NoFrameTyped DEF DaemonTyped, Init
<1>3. BooksTyped
  <2>1. \A t \in Tokens : local[t] = [ready |-> FALSE, book |-> NoBook, received |-> 0]
                          /\ cache[t] = [book |-> NoBook, fetched |-> 0, seen |-> 0]
    BY DEF Init
  <2>2. \A t \in Tokens : local[t] \in LocalRec /\ cache[t] \in CacheRec
                          /\ local[t].received = 0 /\ cache[t].fetched = 0 /\ cache[t].seen = 0
    <3>1. /\ [ready |-> FALSE, book |-> NoBook, received |-> 0] \in LocalRec
          /\ [book |-> NoBook, fetched |-> 0, seen |-> 0] \in CacheRec
      BY NoBookTyped DEF LocalRec, CacheRec
    <3>2. SUFFICES ASSUME NEW t \in Tokens
                   PROVE  /\ local[t] \in LocalRec /\ cache[t] \in CacheRec
                          /\ local[t].received = 0 /\ cache[t].fetched = 0 /\ cache[t].seen = 0
      OBVIOUS
    <3>3. local[t] = [ready |-> FALSE, book |-> NoBook, received |-> 0] BY <2>1
    <3>4. cache[t] = [book |-> NoBook, fetched |-> 0, seen |-> 0] BY <2>1
    <3> QED BY <3>1, <3>3, <3>4
  <2>3. local = [t \in Tokens |-> local[t]] /\ cache = [t \in Tokens |-> cache[t]] BY DEF Init
  <2>4. clock = 1 /\ main = "idle" /\ damaged = {} BY DEF Init
  <2>5. local \in [Tokens -> LocalRec] /\ cache \in [Tokens -> CacheRec] BY <2>2, <2>3
  <2> QED BY <2>2, <2>4, <2>5 DEF BooksTyped
<1>4. Halfway
  <2>1. daemon.half = {} BY DEF Init
  <2> QED BY <2>1 DEF Halfway
<1> QED BY <1>1, <1>2, <1>3, <1>4 DEF Typed

-----------------------------------------------------------------------------
(* A batch is a list of one or two changes; what is heard of it is a list as well, and holds *)
(* whatever concerns a token served.                                                         *)
LEMMA BatchesAre ==
    ASSUME NEW batch \in Batches
    PROVE  /\ batch \in Lists
           /\ (\E c \in Changes : batch = <<c>>) \/ (\E c, d \in Changes : batch = <<c, d>>)
<1>1. Flips \subseteq Changes BY ConstantsAre DEF Flips
<1>2. CASE \E c \in Flips : batch = <<c>> BY <1>1, <1>2 DEF Lists
<1>3. CASE batch \in Flips \X Flips
  <2>1. batch = <<batch[1], batch[2]>> /\ batch[1] \in Changes /\ batch[2] \in Changes
    BY <1>1, <1>3
  <2>2. batch \in {<<p[1], p[2]>> : p \in Changes \X Changes}
    <3>1. <<batch[1], batch[2]>> \in Changes \X Changes BY <2>1
    <3> QED BY <2>1, <3>1
  <2> QED BY <2>1, <2>2 DEF Lists
<1> QED BY <1>2, <1>3 DEF Batches

LEMMA HeardOne ==
    ASSUME NEW c
    PROVE  Heard(<<c>>) = IF c.token \in served THEN <<c>> ELSE <<>>
<1> DEFINE ears == {i \in DOMAIN <<c>> : <<c>>[i].token \in served}
<1>1. DOMAIN <<c>> = {1} /\ <<c>>[1] = c OBVIOUS
<1>2. CASE c.token \in served
  <2>1. ears = {1} BY <1>1, <1>2
  <2>2. ears = DOMAIN <<c>> /\ ears # {} BY <1>1, <2>1
  <2> QED BY <1>2, <2>2 DEF Heard
<1>3. CASE c.token \notin served
  <2>1. ears = {} BY <1>1, <1>3
  <2> QED BY <1>3, <2>1 DEF Heard
<1> QED BY <1>2, <1>3

LEMMA HeardTwo ==
    ASSUME NEW c, NEW d
    PROVE  /\ c.token \in served /\ d.token \in served => Heard(<<c, d>>) = <<c, d>>
           /\ c.token \in served /\ d.token \notin served => Heard(<<c, d>>) = <<c>>
           /\ c.token \notin served /\ d.token \in served => Heard(<<c, d>>) = <<d>>
           /\ c.token \notin served /\ d.token \notin served => Heard(<<c, d>>) = <<>>
<1> DEFINE l == <<c, d>>  ears == {i \in DOMAIN l : l[i].token \in served}
<1>1. DOMAIN l = {1, 2} /\ l[1] = c /\ l[2] = d OBVIOUS
<1>2. Heard(l) = IF ears = {} THEN <<>> ELSE IF ears = DOMAIN l THEN l
                 ELSE <<l[CHOOSE i \in ears : TRUE]>>
  BY DEF Heard
<1> HIDE DEF l
<1>3. CASE c.token \in served /\ d.token \in served
  <2>1. ears = {1, 2} BY <1>1, <1>3
  <2>2. Heard(l) = l BY <1>1, <1>2, <2>1
  <2> QED BY <1>3, <2>2 DEF l
<1>4. CASE c.token \in served /\ d.token \notin served
  <2>1. ears = {1} BY <1>1, <1>4
  <2>2. (CHOOSE i \in ears : TRUE) = 1 BY <2>1
  <2>3. ears # {} /\ ears # DOMAIN l BY <1>1, <2>1
  <2> HIDE DEF ears
  <2>4. Heard(l) = <<c>> BY <1>1, <1>2, <2>2, <2>3
  <2> QED BY <1>4, <2>4 DEF l
<1>5. CASE c.token \notin served /\ d.token \in served
  <2>1. ears = {2} BY <1>1, <1>5
  <2>2. (CHOOSE i \in ears : TRUE) = 2 BY <2>1
  <2>3. ears # {} /\ ears # DOMAIN l BY <1>1, <2>1
  <2> HIDE DEF ears
  <2>4. Heard(l) = <<d>> BY <1>1, <1>2, <2>2, <2>3
  <2> QED BY <1>5, <2>4 DEF l
<1>6. CASE c.token \notin served /\ d.token \notin served
  <2>1. ears = {} BY <1>1, <1>6
  <2>2. Heard(l) = <<>> BY <1>2, <2>1
  <2> QED BY <1>6, <2>2 DEF l
<1> QED BY <1>3, <1>4, <1>5, <1>6

LEMMA HeardTyped == ASSUME NEW batch \in Batches PROVE Heard(batch) \in Lists
<1>1. ASSUME NEW c \in Changes, batch = <<c>> PROVE Heard(batch) \in Lists
  BY <1>1, HeardOne DEF Lists
<1>2. ASSUME NEW c \in Changes, NEW d \in Changes, batch = <<c, d>> PROVE Heard(batch) \in Lists
  <2>1. {<<>>, <<c>>, <<d>>} \subseteq Lists /\ batch \in Lists BY BatchesAre DEF Lists
  <2> QED BY <1>2, <2>1, HeardTwo
<1> QED BY <1>1, <1>2, BatchesAre

(* A batch moves a served token's book as what is heard of it does. *)
LEMMA HeardSays ==
    ASSUME NEW batch \in Batches, NEW t \in served, NEW b
    PROVE  Told(b, Heard(batch), t) = Told(b, batch, t)
<1>1. ASSUME NEW c \in Changes, batch = <<c>> PROVE Told(b, Heard(batch), t) = Told(b, batch, t)
  <2>1. CASE c.token \in served BY <1>1, <2>1, HeardOne
  <2>2. CASE c.token \notin served
    <3>1. Heard(batch) = <<>> BY <1>1, <2>2, HeardOne
    <3>2. Told(b, batch, t) = b BY <1>1, <2>2, OneTold
    <3> QED BY <3>1, <3>2, NoneTold
  <2> QED BY <2>1, <2>2
<1>2. ASSUME NEW c \in Changes, NEW d \in Changes, batch = <<c, d>>
      PROVE  Told(b, Heard(batch), t) = Told(b, batch, t)
  <2>0. Told(b, batch, t) = Told(Told(b, <<c>>, t), <<d>>, t) BY <1>2, TwoTold
  <2>1. CASE c.token \in served /\ d.token \in served BY <1>2, <2>1, HeardTwo
  <2>2. CASE c.token \in served /\ d.token \notin served
    <3>1. Heard(batch) = <<c>> BY <1>2, <2>2, HeardTwo
    <3>2. Told(Told(b, <<c>>, t), <<d>>, t) = Told(b, <<c>>, t) BY <2>2, OneTold
    <3> QED BY <2>0, <3>1, <3>2
  <2>3. CASE c.token \notin served /\ d.token \in served
    <3>1. Heard(batch) = <<d>> BY <1>2, <2>3, HeardTwo
    <3>2. Told(b, <<c>>, t) = b BY <2>3, OneTold
    <3> QED BY <2>0, <3>1, <3>2
  <2>4. CASE c.token \notin served /\ d.token \notin served
    <3>1. Heard(batch) = <<>> BY <1>2, <2>4, HeardTwo
    <3>2. Told(b, <<c>>, t) = b /\ Told(b, <<d>>, t) = b BY <2>4, OneTold
    <3> QED BY <2>0, <3>1, <3>2, NoneTold
  <2> QED BY <2>1, <2>2, <2>3, <2>4
<1> QED BY <1>1, <1>2, BatchesAre

-----------------------------------------------------------------------------
(* What each step of the venue and of the daemon does to the frames. *)
LEMMA DumpTyped ==
    ASSUME Typed, NEW ts, ts \subseteq Tokens, NEW b \in {{}} \union {{x} : x \in ts \X Sides}
    PROVE  /\ Dump(ts, b) \in DumpRec /\ Dump(ts, b) \in FrameRec
           /\ DOMAIN Dump(ts, b).books = ts /\ Dump(ts, b).kind = "dump" /\ Dump(ts, b).bad = b
           /\ \A t \in ts : Dump(ts, b).books[t] = venue[t]
<1>1. venue \in [Tokens -> Books] BY DEF Typed, VenueTyped
<1>2. [t \in ts |-> venue[t]] \in BookSets
  <2>1. [t \in ts |-> venue[t]] \in [ts -> Books] BY <1>1
  <2> QED BY <2>1 DEF BookSets
<1>3. b \in SUBSET (Tokens \X Sides) OBVIOUS
<1> QED BY <1>2, <1>3 DEF Dump, DumpRec, FrameRec

LEMMA ServeTyped ==
    ASSUME Typed, NEW ts, ts \subseteq known, ts # {}, Serve(ts), known' = known
    PROVE  /\ served' \subseteq known /\ bad' \in Nat /\ bad' >= bad
           /\ wire' \in Seq(FrameRec) /\ \A i \in 1..Len(wire') : Fits(wire'[i], known')
<1>1. PICK b \in {{}} \union {{x} : x \in ts \X Sides} :
          /\ bad' = bad + Cardinality(b)
          /\ served' = served \union ts /\ wire' = Append(wire, Dump(ts, b))
  BY DEF Serve
<1>2. VenueTyped BY DEF Typed
<1>3. Cardinality(b) \in Nat
  <2>1. IsFiniteSet(b)
    <3>1. CASE b = {} BY <3>1, FS_EmptySet
    <3>2. ASSUME NEW x, b = {x} PROVE IsFiniteSet(b) BY <3>2, FS_Singleton
    <3> QED BY <3>1, <3>2
  <2> QED BY <2>1, FS_CardinalityType
<1>4. /\ Dump(ts, b) \in FrameRec /\ DOMAIN Dump(ts, b).books = ts /\ Dump(ts, b).kind = "dump"
  BY <1>2, DumpTyped DEF VenueTyped
<1>5. wire \in Seq(FrameRec) /\ bad \in Nat /\ served \subseteq known BY <1>2 DEF VenueTyped
<1>6. /\ wire' \in Seq(FrameRec) /\ Len(wire') = Len(wire) + 1
      /\ \A i \in 1..Len(wire) : wire'[i] = wire[i]
      /\ wire'[Len(wire) + 1] = Dump(ts, b)
  BY <1>1, <1>4, <1>5
<1>7. ASSUME NEW i \in 1..Len(wire') PROVE Fits(wire'[i], known')
  <2>1. CASE i \in 1..Len(wire)
    <3>1. Fits(wire[i], known) BY <1>2, <2>1 DEF VenueTyped
    <3> QED BY <1>6, <2>1, <3>1 DEF Fits
  <2>2. CASE i = Len(wire) + 1 BY <1>4, <1>6, <2>2 DEF Fits
  <2>3. Len(wire) \in Nat BY <1>5
  <2> QED BY <1>6, <2>1, <2>2, <2>3
<1> QED BY <1>1, <1>3, <1>5, <1>6, <1>7

(* The frame in hand after one of its tokens is done with. *)
LEMMA RestTyped ==
    ASSUME Typed, NEW t, daemon.hand.kind = "dump", t \in DOMAIN daemon.hand.books
    PROVE  /\ Rest(t) \in FrameRec /\ Fits(Rest(t), known)
           /\ Rest(t) = NoFrame \/ (/\ Rest(t).kind = "dump" /\ Rest(t).bad = daemon.hand.bad
                                    /\ DOMAIN Rest(t).books = DOMAIN daemon.hand.books \ {t}
                                    /\ \A u \in DOMAIN daemon.hand.books \ {t} :
                                          Rest(t).books[u] = daemon.hand.books[u])
           /\ Rest(t) = NoFrame => DOMAIN daemon.hand.books = {t}
<1> DEFINE h == daemon.hand  ts == DOMAIN h.books \ {t}  bs == [u \in ts |-> h.books[u]]
<1>1. h \in DumpRec /\ DOMAIN h.books \subseteq known
  <2>1. h \in FrameRec /\ Fits(h, known) BY DEF Typed, DaemonTyped, DaemonRec
  <2> QED BY <2>1 DEF FrameRec, DeltaRec, Fits
<1>2. Rest(t) = IF ts = {} THEN NoFrame ELSE [h EXCEPT !.books = bs] BY DEF Rest
<1>3. bs \in BookSets
  <2>1. h.books \in BookSets BY <1>1 DEF DumpRec
  <2>2. PICK us \in SUBSET Tokens : h.books \in [us -> Books] BY <2>1 DEF BookSets
  <2>3. ts \in SUBSET Tokens /\ bs \in [ts -> Books] BY <2>2
  <2> HIDE DEF bs, ts
  <2> QED BY <2>3 DEF BookSets
<1>4. DOMAIN bs = ts /\ \A u \in ts : bs[u] = h.books[u] OBVIOUS
<1>5. t \in DOMAIN h.books OBVIOUS
<1>6. ts = {} => DOMAIN h.books = {t} BY <1>5
<1>7. CASE ts = {}
  <2>1. Rest(t) = NoFrame BY <1>2, <1>7
  <2> QED BY <1>6, <1>7, <2>1, NoFrameTyped
<1>8. CASE ts # {}
  <2> HIDE DEF ts, bs, h
  <2>1. /\ [h EXCEPT !.books = bs] \in DumpRec
        /\ [h EXCEPT !.books = bs].kind = "dump" /\ [h EXCEPT !.books = bs].bad = h.bad
        /\ [h EXCEPT !.books = bs].books = bs
    BY <1>1, <1>3 DEF DumpRec
  <2>2. Rest(t) = [h EXCEPT !.books = bs] BY <1>2, <1>8
  <2>3. Rest(t) \in FrameRec BY <2>1, <2>2 DEF FrameRec
  <2>4. Rest(t).kind = "dump" /\ Rest(t).bad = h.bad /\ Rest(t).books = bs BY <2>1, <2>2
  <2>5. ts \subseteq known BY <1>1 DEF ts
  <2>6. Fits(Rest(t), known) BY <1>4, <1>8, <2>4, <2>5 DEF Fits
  <2>7. Rest(t) # NoFrame BY <2>4, NoFrameTyped
  <2> QED BY <1>4, <2>3, <2>4, <2>6, <2>7 DEF ts, h
<1> QED BY <1>7, <1>8

(* The element of a price_change that is next, and those behind it. *)
LEMMA HeadOfHand ==
    ASSUME Typed, daemon.hand.kind = "delta", daemon.hand # NoFrame
    PROVE  LET l == daemon.hand.changes  c == Head(l)  rest == Tail(l) IN
           /\ daemon.hand = Delta(l, daemon.hand.good) /\ l \in Lists /\ l # <<>>
           /\ c \in Changes /\ rest \in Lists /\ Len(rest) = Len(l) - 1
           /\ (l = <<c>> /\ rest = <<>>) \/ (\E d \in Changes : l = <<c, d>> /\ rest = <<d>>)
           /\ daemon.hand.good \in 0..Len(l) /\ Len(l) \in {1, 2}
<1> DEFINE h == daemon.hand  l == h.changes  c == Head(l)  rest == Tail(l)
<1>1. h \in DeltaRec /\ h.good \in 0..Len(l)
  <2>1. h \in FrameRec /\ Fits(h, known) BY DEF Typed, DaemonTyped, DaemonRec
  <2> QED BY <2>1 DEF FrameRec, DumpRec, Fits
<1>2. l \in Lists /\ h = Delta(l, h.good) BY <1>1 DEF DeltaRec, Delta
<1>3. l # <<>>
  <2>1. l = <<>> => h.good = 0
    <3>1. Len(<<>>) = 0 OBVIOUS
    <3> QED BY <1>1, <3>1
  <2> HIDE DEF h, l
  <2>2. h # NoFrame BY DEF h
  <2> QED BY <1>2, <2>1, <2>2 DEF NoFrame
<1> HIDE DEF h, l
<1>4. ASSUME NEW x \in Changes, l = <<x>>
      PROVE  c = x /\ rest = <<>> /\ Len(rest) = 0 /\ Len(l) = 1
  BY <1>4
<1>5. ASSUME NEW x \in Changes, NEW y \in Changes, l = <<x, y>>
      PROVE  c = x /\ rest = <<y>> /\ Len(rest) = 1 /\ Len(l) = 2
  BY <1>5
<1>6. /\ c \in Changes /\ rest \in Lists /\ Len(rest) = Len(l) - 1 /\ Len(l) \in {1, 2}
      /\ (l = <<c>> /\ rest = <<>>) \/ (\E d \in Changes : l = <<c, d>> /\ rest = <<d>>)
  <2>1. (\E x \in Changes : l = <<x>>) \/ (\E x, y \in Changes : l = <<x, y>>)
    BY <1>2, <1>3, ListsAre
  <2>2. CASE \E x \in Changes : l = <<x>>
    <3> PICK x \in Changes : l = <<x>> BY <2>2
    <3>1. c = x /\ rest = <<>> /\ Len(rest) = 0 /\ Len(l) = 1 BY <1>4
    <3>2. rest \in Lists BY <3>1 DEF Lists
    <3> HIDE DEF c, rest
    <3> QED BY <3>1, <3>2
  <2>3. CASE \E x, y \in Changes : l = <<x, y>>
    <3> PICK x \in Changes, y \in Changes : l = <<x, y>> BY <2>3
    <3>1. c = x /\ rest = <<y>> /\ Len(rest) = 1 /\ Len(l) = 2 BY <1>5
    <3>2. rest \in Lists BY <3>1 DEF Lists
    <3> HIDE DEF c, rest
    <3> QED BY <3>1, <3>2
  <2> QED BY <2>1, <2>2, <2>3
<1> QED BY <1>1, <1>2, <1>3, <1>6 DEF h, l

(* What ApplyBids, ApplyAsks and ApplyChange write. *)
LEMMA BidsChanges ==
    ASSUME Typed, NEW t \in Tokens, ApplyBids(t)
    PROVE  /\ UNCHANGED <<venue, served, link, wire, known, main, cache, clock, shown, changes, breaks, bad>>
           /\ daemon.hand.kind = "dump" /\ t \in DOMAIN daemon.hand.books /\ daemon.half = {}
           /\ daemon'.at = daemon.at /\ daemon'.sub = daemon.sub
           /\ \/ /\ Bad(t, "bids") /\ local' = local /\ damaged' = damaged \union {t}
                 /\ daemon'.hand = Rest(t) /\ daemon'.half = {}
              \/ /\ damaged' = damaged
                 /\ daemon'.hand = daemon.hand /\ daemon'.half = {t}
                 /\ local' = [local EXCEPT ![t] =
                        [ready |-> local[t].ready, received |-> local[t].received,
                         book |-> [local[t].book EXCEPT !["bids"] = daemon.hand.books[t]["bids"]]]]
           /\ daemon' = [at |-> daemon'.at, sub |-> daemon'.sub, hand |-> daemon'.hand,
                         half |-> daemon'.half]
<1>1. daemon \in DaemonRec /\ local[t] \in LocalRec BY DEF Typed, DaemonTyped, BooksTyped
<1> DEFINE bids == [local[t].book EXCEPT !["bids"] = daemon.hand.books[t]["bids"]]
<1>2. daemon.half = {} BY DEF ApplyBids
<1>3. CASE Bad(t, "bids")
  <2>1. daemon' = [daemon EXCEPT !.hand = Rest(t)] BY <1>3 DEF ApplyBids
  <2> QED BY <1>1, <1>2, <1>3, <2>1 DEF ApplyBids, DaemonRec
<1>4. CASE ~Bad(t, "bids")
  <2>1. daemon' = [daemon EXCEPT !.half = {t}] BY <1>4 DEF ApplyBids
  <2>2. local' = [local EXCEPT ![t] = [local[t] EXCEPT !.book = bids]] BY <1>4 DEF ApplyBids
  <2>3. [local[t] EXCEPT !.book = bids]
           = [ready |-> local[t].ready, received |-> local[t].received, book |-> bids]
    <3> HIDE DEF bids
    <3> QED BY <1>1 DEF LocalRec
  <2>4. local' = [local EXCEPT ![t] = [ready |-> local[t].ready, received |-> local[t].received,
                                       book |-> bids]]
    BY <2>2, <2>3
  <2> HIDE DEF bids
  <2>5. /\ daemon'.hand = daemon.hand /\ daemon'.half = {t} /\ damaged' = damaged
        /\ daemon'.at = daemon.at /\ daemon'.sub = daemon.sub
        /\ daemon' = [at |-> daemon'.at, sub |-> daemon'.sub, hand |-> daemon'.hand,
                      half |-> daemon'.half]
    BY <1>1, <1>4, <2>1 DEF ApplyBids, DaemonRec
  <2>6. /\ UNCHANGED <<venue, served, link, wire, known, main, cache, clock, shown, changes, breaks, bad>>
        /\ daemon.hand.kind = "dump" /\ t \in DOMAIN daemon.hand.books
    BY DEF ApplyBids
  <2> QED BY <1>2, <2>4, <2>5, <2>6 DEF bids
<1> QED BY <1>3, <1>4

LEMMA AsksChanges ==
    ASSUME Typed, NEW t \in Tokens, ApplyAsks(t)
    PROVE  /\ UNCHANGED <<venue, served, link, wire, known, main, cache, clock, shown, changes, breaks, bad>>
           /\ daemon.half = {t}
           /\ daemon'.at = daemon.at /\ daemon'.sub = daemon.sub
           /\ daemon'.hand = Rest(t) /\ daemon'.half = {}
           /\ \/ Bad(t, "asks") /\ local' = local /\ damaged' = damaged \union {t}
              \/ /\ damaged' = damaged \ {t}
                 /\ local' = [local EXCEPT ![t] =
                        [ready |-> TRUE, received |-> clock,
                         book |-> [local[t].book EXCEPT !["asks"] = daemon.hand.books[t]["asks"]]]]
           /\ daemon' = [at |-> daemon'.at, sub |-> daemon'.sub, hand |-> daemon'.hand,
                         half |-> daemon'.half]
<1>1. daemon \in DaemonRec BY DEF Typed, DaemonTyped
<1>2. daemon' = [daemon EXCEPT !.hand = Rest(t), !.half = {}] BY DEF ApplyAsks
<1>3. /\ daemon'.at = daemon.at /\ daemon'.sub = daemon.sub
      /\ daemon'.hand = Rest(t) /\ daemon'.half = {}
      /\ daemon' = [at |-> daemon'.at, sub |-> daemon'.sub, hand |-> daemon'.hand,
                    half |-> daemon'.half]
  BY <1>1, <1>2 DEF DaemonRec
<1> DEFINE asks == [local[t].book EXCEPT !["asks"] = daemon.hand.books[t]["asks"]]
<1>4. \/ Bad(t, "asks") /\ local' = local /\ damaged' = damaged \union {t}
      \/ /\ damaged' = damaged \ {t}
         /\ local' = [local EXCEPT ![t] = [ready |-> TRUE, received |-> clock, book |-> asks]]
  BY DEF ApplyAsks
<1> HIDE DEF asks
<1> QED BY <1>3, <1>4 DEF ApplyAsks, asks

LEMMA DeltaChanges ==
    ASSUME Typed, ApplyChange
    PROVE  LET l == daemon.hand.changes  c == Head(l)  rest == Tail(l) IN
           /\ UNCHANGED <<venue, served, link, wire, known, main, cache, clock, shown, changes, breaks, bad>>
           /\ daemon.hand.kind = "delta" /\ daemon.hand # NoFrame
           /\ daemon'.at = daemon.at /\ daemon'.sub = daemon.sub /\ daemon'.half = daemon.half
           /\ \/ /\ Acceptable(c) /\ damaged' = damaged
                 /\ local' = [local EXCEPT ![c.token] =
                        [ready |-> TRUE, book |-> Applied(local[c.token].book, c), received |-> clock]]
                 /\ \/ rest = <<>> /\ daemon'.hand = NoFrame
                    \/ rest # <<>> /\ daemon'.hand = Delta(rest, daemon.hand.good - 1)
              \/ /\ ~Acceptable(c) /\ local' = local /\ daemon'.hand = NoFrame
                 /\ damaged' = damaged \union {x.token : x \in ToSet(l)}
           /\ daemon' = [at |-> daemon'.at, sub |-> daemon'.sub, hand |-> daemon'.hand,
                         half |-> daemon'.half]
<1> DEFINE l == daemon.hand.changes  c == Head(l)  rest == Tail(l)
<1>1. daemon \in DaemonRec BY DEF Typed, DaemonTyped
<1>2. \A h : LET d == [daemon EXCEPT !.hand = h] IN
             /\ d.at = daemon.at /\ d.sub = daemon.sub /\ d.half = daemon.half /\ d.hand = h
             /\ d = [at |-> d.at, sub |-> d.sub, hand |-> d.hand, half |-> d.half]
  BY <1>1 DEF DaemonRec
<1>3. /\ UNCHANGED <<venue, served, link, wire, known, main, cache, clock, shown, changes, breaks, bad>>
      /\ daemon.hand.kind = "delta" /\ daemon.hand # NoFrame
  BY DEF ApplyChange
<1>4. CASE Acceptable(c)
  <2> DEFINE h == IF rest = <<>> THEN NoFrame ELSE Delta(rest, daemon.hand.good - 1)
  <2>1. /\ damaged' = damaged
        /\ local' = [local EXCEPT ![c.token] =
               [ready |-> TRUE, book |-> Applied(local[c.token].book, c), received |-> clock]]
        /\ daemon' = [daemon EXCEPT !.hand = h]
    BY <1>4 DEF ApplyChange
  <2>2. \/ rest = <<>> /\ h = NoFrame
        \/ rest # <<>> /\ h = Delta(rest, daemon.hand.good - 1)
    OBVIOUS
  <2> HIDE DEF l, c, rest, h
  <2>3. /\ daemon'.at = daemon.at /\ daemon'.sub = daemon.sub /\ daemon'.half = daemon.half
        /\ daemon'.hand = h
        /\ daemon' = [at |-> daemon'.at, sub |-> daemon'.sub, hand |-> daemon'.hand,
                      half |-> daemon'.half]
    BY <1>2, <2>1
  <2> QED BY <1>3, <1>4, <2>1, <2>2, <2>3 DEF l, c, rest
<1>5. CASE ~Acceptable(c)
  <2>1. /\ local' = local /\ damaged' = damaged \union {x.token : x \in ToSet(l)}
        /\ daemon' = [daemon EXCEPT !.hand = NoFrame]
    BY <1>5 DEF ApplyChange
  <2> HIDE DEF l, c, rest
  <2>2. /\ daemon'.at = daemon.at /\ daemon'.sub = daemon.sub /\ daemon'.half = daemon.half
        /\ daemon'.hand = NoFrame
        /\ daemon' = [at |-> daemon'.at, sub |-> daemon'.sub, hand |-> daemon'.hand,
                      half |-> daemon'.half]
    BY <1>2, <2>1
  <2> QED BY <1>3, <1>5, <2>1, <2>2 DEF l, c, rest
<1> QED BY <1>4, <1>5

-----------------------------------------------------------------------------
(* The types are kept. *)
LEMMA ChangeTyped == ASSUME Typed, NEW batch \in Batches, Change(batch) PROVE Typed'
<1>1. UNCHANGED <<served, link, daemon, known, local, main, cache, clock, damaged>> BY DEF Change
<1>2. VenueTyped /\ DaemonTyped /\ BooksTyped /\ Halfway BY DEF Typed
<1>3. DaemonTyped' /\ BooksTyped' /\ Halfway'
  BY <1>1, <1>2 DEF DaemonTyped, BooksTyped, Halfway
<1>4. batch \in Lists /\ \A b \in Books, t \in Tokens : Told(b, batch, t) \in Books
  BY BatchesAre, ToldTyped
<1>5. venue \in [Tokens -> Books] BY <1>2 DEF VenueTyped
<1>6. venue' = [t \in Tokens |-> Told(venue[t], batch, t)] BY DEF Change
<1>7. venue' \in [Tokens -> Books] BY <1>4, <1>5, <1>6
<1>8. <<batch[1]>> \in Lists
  <2>1. ASSUME NEW c \in Changes, batch = <<c>> PROVE batch[1] \in Changes BY <2>1
  <2>2. ASSUME NEW c \in Changes, NEW d \in Changes, batch = <<c, d>> PROVE batch[1] \in Changes
    BY <2>2
  <2>3. batch[1] \in Changes BY <2>1, <2>2, BatchesAre
  <2> QED BY <2>3 DEF Lists
<1>9. \A t \in Tokens : Told(venue[t], <<batch[1]>>, t) \in Books BY <1>5, <1>8, ToldTyped
<1>10. shown' \in [Tokens -> [Sides -> SUBSET SUBSET Levels]]
  <2>1. shown' = [t \in Tokens |-> [s \in Sides |->
                   shown[t][s] \union {Told(venue[t], <<batch[1]>>, t)[s], venue'[t][s]}]]
    BY DEF Change
  <2>2. shown \in [Tokens -> [Sides -> SUBSET SUBSET Levels]] BY <1>2 DEF VenueTyped
  <2>3. \A t \in Tokens, s \in Sides : /\ Told(venue[t], <<batch[1]>>, t)[s] \in SUBSET Levels
                                       /\ venue'[t][s] \in SUBSET Levels
    BY <1>7, <1>9 DEF Books
  <2>4. \A t \in Tokens, s \in Sides :
           shown[t][s] \union {Told(venue[t], <<batch[1]>>, t)[s], venue'[t][s]} \in SUBSET SUBSET Levels
    BY <2>2, <2>3
  <2> QED BY <2>1, <2>4
<1>11. PICK n \in 0..Len(Heard(batch)) :
          /\ bad' = IF n < Len(Heard(batch)) THEN bad + 1 ELSE bad
          /\ wire' = IF Heard(batch) = <<>> THEN wire ELSE Append(wire, Delta(Heard(batch), n))
  BY DEF Change
<1>12. bad' \in Nat /\ wire \in Seq(FrameRec) BY <1>2, <1>11 DEF VenueTyped
<1>13. Heard(batch) \in Lists /\ Len(Heard(batch)) \in 0..2
  <2>1. Heard(batch) \in Lists BY HeardTyped
  <2>2. \A l \in Lists : Len(l) \in 0..2
    <3> SUFFICES ASSUME NEW l \in Lists PROVE Len(l) \in 0..2 OBVIOUS
    <3>1. CASE l = <<>> BY <3>1
    <3>2. CASE \E c \in Changes : l = <<c>> BY <3>2
    <3>3. CASE \E c, d \in Changes : l = <<c, d>> BY <3>3
    <3> QED BY <3>1, <3>2, <3>3, ListsAre
  <2> QED BY <2>1, <2>2
<1> DEFINE f == Delta(Heard(batch), n)
<1>14. f \in FrameRec /\ f.kind = "delta" /\ f.good = n /\ f.changes = Heard(batch)
  <2>1. n \in 0..2 BY <1>13
  <2> DEFINE h == Heard(batch)
  <2>2. h \in Lists BY <1>13
  <2> HIDE DEF h
  <2>3. Delta(h, n) \in DeltaRec BY <2>1, <2>2 DEF Delta, DeltaRec
  <2>4. Delta(h, n).kind = "delta" /\ Delta(h, n).good = n /\ Delta(h, n).changes = h
    BY DEF Delta
  <2> QED BY <2>3, <2>4 DEF FrameRec, h
<1>15. Fits(f, known) BY <1>14 DEF Fits
<1> HIDE DEF f
<1>16. wire' \in Seq(FrameRec) /\ \A i \in 1..Len(wire') : Fits(wire'[i], known')
  <2>1. \A i \in 1..Len(wire) : Fits(wire[i], known) BY <1>2 DEF VenueTyped
  <2>2. CASE wire' = wire BY <1>1, <1>12, <2>1, <2>2
  <2>3. CASE wire' = Append(wire, f)
    <3>1. /\ wire' \in Seq(FrameRec) /\ Len(wire') = Len(wire) + 1 /\ Len(wire) \in Nat
          /\ \A i \in 1..Len(wire) : wire'[i] = wire[i]
          /\ wire'[Len(wire) + 1] = f
      BY <1>12, <1>14, <2>3
    <3> QED BY <1>1, <1>15, <2>1, <3>1
  <2> QED BY <1>11, <2>2, <2>3 DEF f
<1>17. VenueTyped' BY <1>1, <1>2, <1>7, <1>10, <1>12, <1>16 DEF VenueTyped
<1> QED BY <1>3, <1>17 DEF Typed

(* The daemon moves on: another place, another message to send, nothing in hand changed. *)
LEMMA MovesTyped ==
    ASSUME Typed, NEW p \in Places, NEW ts, ts \subseteq known,
           daemon' = [daemon EXCEPT !.at = p, !.sub = ts],
           UNCHANGED <<known, main, local>>, p # "none" => known # {},
           p = "subscribing" => ts # {}
    PROVE  DaemonTyped' /\ Halfway' /\ daemon'.hand = daemon.hand
<1>1. DaemonTyped /\ Halfway /\ known \subseteq Tokens BY DEF Typed, VenueTyped
<1>2. daemon \in DaemonRec BY <1>1 DEF DaemonTyped
<1>3. /\ daemon'.at = p /\ daemon'.sub = ts /\ daemon'.hand = daemon.hand
      /\ daemon'.half = daemon.half /\ daemon' \in DaemonRec
  BY <1>1, <1>2 DEF DaemonRec
<1>4. DaemonTyped' BY <1>1, <1>3 DEF DaemonTyped
<1>5. Halfway' BY <1>1, <1>3 DEF Halfway
<1> QED BY <1>3, <1>4, <1>5

LEMMA WireTyped ==
    ASSUME Typed, UNCHANGED <<venue, known, shown, bad>>, link' \in {"closed", "open", "broken"},
           served' \subseteq known,
           wire' \in Seq(FrameRec), \A i \in 1..Len(wire') : Fits(wire'[i], known)
    PROVE  VenueTyped'
  BY DEF Typed, VenueTyped

LEMMA EmptyWire == /\ <<>> \in Seq(FrameRec) /\ \A i \in 1..Len(<<>>) : Fits(<<>>[i], known)
<1>1. Len(<<>>) = 0 OBVIOUS
<1> QED BY <1>1

LEMMA BreakTyped == ASSUME Typed, Break PROVE Typed'
<1>1. /\ link' = "broken" /\ wire' = <<>> /\ served' = {}
      /\ UNCHANGED <<venue, daemon, known, local, main, cache, clock, damaged, shown, bad>>
  BY DEF Break
<1>2. VenueTyped'
  <2>1. wire' \in Seq(FrameRec) /\ \A i \in 1..Len(wire') : Fits(wire'[i], known)
    BY <1>1, EmptyWire
  <2> QED BY <1>1, <2>1, WireTyped
<1>3. DaemonTyped' /\ BooksTyped' /\ Halfway'
  BY <1>1 DEF Typed, DaemonTyped, BooksTyped, Halfway
<1> QED BY <1>2, <1>3 DEF Typed

LEMMA HangupTyped == ASSUME Typed, Hangup, daemon.at # "none" PROVE Typed'
<1>1. /\ link' = "closed" /\ wire' = <<>> /\ served' = {}
      /\ daemon' = [daemon EXCEPT !.at = "backoff", !.sub = {}]
      /\ UNCHANGED <<venue, known, local, main, cache, clock, ghosts>>
  BY DEF Hangup
<1>2. VenueTyped'
  <2>1. wire' \in Seq(FrameRec) /\ \A i \in 1..Len(wire') : Fits(wire'[i], known)
    BY <1>1, EmptyWire
  <2> QED BY <1>1, <2>1, WireTyped DEF ghosts
<1>3. DaemonTyped' /\ Halfway'
  <2>1. known # {} BY DEF Typed, DaemonTyped
  <2>2. known' = known /\ main' = main /\ local' = local BY <1>1
  <2>3. {} \subseteq known /\ "backoff" \in Places BY DEF Places
  <2>4. daemon' = [daemon EXCEPT !.at = "backoff", !.sub = {}] BY <1>1
  <2> QED BY <2>1, <2>2, <2>3, <2>4, MovesTyped
<1>4. BooksTyped' BY <1>1 DEF Typed, BooksTyped, ghosts
<1> QED BY <1>2, <1>3, <1>4 DEF Typed

LEMMA DialTyped == ASSUME Typed, Dial \/ ReadTokens PROVE Typed'
<1>1. /\ link' \in {link, "open"} /\ daemon.at # "none"
      /\ UNCHANGED <<venue, served, wire, known, local, main, cache, clock, ghosts>>
  BY DEF Dial, ReadTokens
<1>2. VenueTyped' BY <1>1 DEF Typed, VenueTyped, ghosts
<1>3. known # {} BY <1>1 DEF Typed, DaemonTyped
<1>4. DaemonTyped' /\ Halfway'
  <2>1. CASE Dial
    <3>1. daemon \in DaemonRec /\ daemon.sub \subseteq known BY DEF Typed, DaemonTyped
    <3>2. daemon' = [daemon EXCEPT !.at = "dialed", !.sub = daemon.sub]
      BY <2>1, <3>1 DEF Dial, DaemonRec
    <3> QED BY <1>1, <1>3, <3>1, <3>2, MovesTyped DEF Places
  <2>2. CASE ReadTokens
    <3>1. daemon' = [daemon EXCEPT !.at = "subscribing", !.sub = known] BY <2>2 DEF ReadTokens
    <3> QED BY <1>1, <1>3, <3>1, MovesTyped DEF Places
  <2> QED BY <2>1, <2>2
<1>5. BooksTyped' BY <1>1 DEF Typed, BooksTyped, ghosts
<1> QED BY <1>2, <1>4, <1>5 DEF Typed

LEMMA SubscribeTyped == ASSUME Typed, Subscribe PROVE Typed'
<1>1. /\ daemon.at = "subscribing" /\ Serve(daemon.sub)
      /\ daemon' = [daemon EXCEPT !.at = "reading", !.sub = {}]
      /\ UNCHANGED <<venue, link, known, local, main, cache, clock, damaged, shown>>
  BY DEF Subscribe
<1>2. daemon.sub \subseteq known /\ daemon.sub # {} /\ known # {} BY <1>1 DEF Typed, DaemonTyped
<1>3. /\ served' \subseteq known /\ bad' \in Nat
      /\ wire' \in Seq(FrameRec) /\ \A i \in 1..Len(wire') : Fits(wire'[i], known')
  BY <1>1, <1>2, ServeTyped
<1>4. VenueTyped' BY <1>1, <1>3 DEF Typed, VenueTyped
<1>5. DaemonTyped' /\ Halfway'
  <2>1. known' = known /\ main' = main /\ local' = local BY <1>1
  <2>2. {} \subseteq known /\ "reading" \in Places BY DEF Places
  <2>3. daemon' = [daemon EXCEPT !.at = "reading", !.sub = {}] BY <1>1
  <2> QED BY <1>2, <2>1, <2>2, <2>3, MovesTyped
<1>6. BooksTyped' BY <1>1 DEF Typed, BooksTyped
<1> QED BY <1>4, <1>5, <1>6 DEF Typed

LEMMA ReadTyped == ASSUME Typed, Read PROVE Typed'
<1>1. /\ wire # <<>> /\ wire' = Tail(wire) /\ daemon.hand = NoFrame
      /\ daemon' = [daemon EXCEPT !.hand = Head(wire)]
      /\ UNCHANGED <<venue, served, link, known, local, main, cache, clock, ghosts>>
  BY DEF Read
<1>2. wire \in Seq(FrameRec) /\ \A i \in 1..Len(wire) : Fits(wire[i], known)
  BY DEF Typed, VenueTyped
<1>3. /\ Head(wire) \in FrameRec /\ Head(wire) = wire[1] /\ 1 \in 1..Len(wire)
      /\ wire' \in Seq(FrameRec) /\ Len(wire') = Len(wire) - 1 /\ Len(wire) \in Nat
      /\ \A i \in 1..Len(wire') : wire'[i] = wire[i + 1]
  BY <1>1, <1>2
<1>4. Fits(Head(wire), known) BY <1>2, <1>3
<1>5. \A i \in 1..Len(wire') : Fits(wire'[i], known)
  <2> SUFFICES ASSUME NEW i \in 1..Len(wire') PROVE Fits(wire'[i], known) OBVIOUS
  <2>1. i + 1 \in 1..Len(wire) BY <1>3
  <2> QED BY <1>2, <1>3, <2>1
<1>6. VenueTyped' BY <1>1, <1>3, <1>5 DEF Typed, VenueTyped, ghosts
<1>7. daemon \in DaemonRec BY DEF Typed, DaemonTyped
<1>8. /\ daemon' \in DaemonRec /\ daemon'.at = daemon.at /\ daemon'.sub = daemon.sub
      /\ daemon'.half = daemon.half /\ daemon'.hand = Head(wire)
  BY <1>1, <1>3, <1>7 DEF DaemonRec
<1>9. DaemonTyped' BY <1>1, <1>4, <1>8 DEF Typed, DaemonTyped
<1>10. Halfway'
  <2>1. daemon.half = {} BY <1>1, NoFrameTyped DEF Typed, Halfway
  <2> QED BY <1>8, <2>1 DEF Halfway
<1>11. BooksTyped' BY <1>1 DEF Typed, BooksTyped, ghosts
<1> QED BY <1>6, <1>9, <1>10, <1>11 DEF Typed

(* The new half of a book in hand is one. *)
LEMMA HandBooks ==
    ASSUME Typed, daemon.hand.kind = "dump", NEW t \in DOMAIN daemon.hand.books
    PROVE  t \in Tokens /\ t \in known /\ daemon.hand.books[t] \in Books
<1>1. daemon.hand \in FrameRec /\ Fits(daemon.hand, known) /\ known \subseteq Tokens
  BY DEF Typed, VenueTyped, DaemonTyped, DaemonRec
<1>2. daemon.hand \in DumpRec BY <1>1 DEF FrameRec, DeltaRec
<1>3. daemon.hand.books \in BookSets BY <1>2 DEF DumpRec
<1>4. daemon.hand.books[t] \in Books BY <1>3 DEF BookSets
<1> QED BY <1>1, <1>4 DEF Fits

LEMMA BidsTyped == ASSUME Typed, NEW t \in Tokens, ApplyBids(t) PROVE Typed'
<1>1. /\ UNCHANGED <<venue, served, link, wire, known, main, cache, clock, shown, bad>>
      /\ daemon.hand.kind = "dump" /\ t \in DOMAIN daemon.hand.books /\ daemon.half = {}
      /\ daemon'.at = daemon.at /\ daemon'.sub = daemon.sub
      /\ daemon' = [at |-> daemon'.at, sub |-> daemon'.sub, hand |-> daemon'.hand,
                    half |-> daemon'.half]
  BY BidsChanges
<1> DEFINE b == [local[t].book EXCEPT !["bids"] = daemon.hand.books[t]["bids"]]
<1>2. \/ /\ local' = local /\ damaged' = damaged \union {t}
         /\ daemon'.hand = Rest(t) /\ daemon'.half = {}
      \/ /\ damaged' = damaged /\ daemon'.hand = daemon.hand /\ daemon'.half = {t}
         /\ local' = [local EXCEPT ![t] = [ready |-> local[t].ready,
                                           received |-> local[t].received, book |-> b]]
  BY BidsChanges
<1>3. daemon.hand.books[t] \in Books /\ t \in known BY <1>1, HandBooks
<1>4. local \in [Tokens -> LocalRec] /\ daemon \in DaemonRec BY DEF Typed, BooksTyped, DaemonTyped
<1>5. local[t] \in LocalRec BY <1>4
<1>6. b \in Books /\ b["bids"] = daemon.hand.books[t]["bids"]
  BY <1>3, <1>5 DEF LocalRec, Books, Sides
<1> HIDE DEF b
<1>7. VenueTyped' BY <1>1 DEF Typed, VenueTyped
<1>8. Rest(t) \in FrameRec /\ Fits(Rest(t), known) BY <1>1, RestTyped
<1>9. DaemonTyped /\ VenueTyped BY DEF Typed
<1>10. /\ daemon'.hand \in FrameRec /\ Fits(daemon'.hand, known)
       /\ daemon'.half \in SUBSET Tokens /\ daemon'.half \subseteq known
  BY <1>2, <1>3, <1>4, <1>8, <1>9 DEF DaemonTyped, DaemonRec
<1>11. daemon' \in DaemonRec BY <1>1, <1>4, <1>10 DEF DaemonRec
<1>12. DaemonTyped' BY <1>1, <1>9, <1>10, <1>11 DEF DaemonTyped
<1>13. /\ local' \in [Tokens -> LocalRec]
       /\ \A u \in Tokens : local'[u].received = local[u].received
       /\ \A u \in Tokens \ {t} : local'[u] = local[u]
       /\ daemon'.half = {t} => local'[t].book = b
  <2>1. CASE local' = local /\ daemon'.half = {} BY <1>4, <2>1
  <2>2. CASE local' = [local EXCEPT ![t] = [ready |-> local[t].ready,
                                            received |-> local[t].received, book |-> b]]
    <3>1. [ready |-> local[t].ready, received |-> local[t].received, book |-> b] \in LocalRec
      BY <1>5, <1>6 DEF LocalRec
    <3> QED BY <1>4, <2>2, <3>1
  <2> QED BY <1>2, <2>1, <2>2
<1>14. BooksTyped' BY <1>1, <1>2, <1>13 DEF Typed, BooksTyped
<1>15. Halfway' BY <1>1, <1>2, <1>6, <1>13 DEF Halfway
<1> QED BY <1>7, <1>12, <1>14, <1>15 DEF Typed

(* The frame in hand holds the book that is half replaced. *)
LEMMA HalfIs ==
    ASSUME Typed, NEW t, daemon.half = {t}
    PROVE  /\ t \in Tokens /\ daemon.hand.kind = "dump" /\ t \in DOMAIN daemon.hand.books
           /\ local[t].book["bids"] = daemon.hand.books[t]["bids"]
  BY DEF Typed, Halfway

LEMMA AsksTyped == ASSUME Typed, NEW t \in Tokens, ApplyAsks(t) PROVE Typed'
<1>1. /\ UNCHANGED <<venue, served, link, wire, known, main, cache, clock, shown, bad>>
      /\ daemon.half = {t}
      /\ daemon'.at = daemon.at /\ daemon'.sub = daemon.sub
      /\ daemon'.hand = Rest(t) /\ daemon'.half = {}
      /\ daemon' = [at |-> daemon'.at, sub |-> daemon'.sub, hand |-> daemon'.hand,
                    half |-> daemon'.half]
  BY AsksChanges
<1>2. daemon.hand.kind = "dump" /\ t \in DOMAIN daemon.hand.books BY <1>1, HalfIs
<1> DEFINE b == [local[t].book EXCEPT !["asks"] = daemon.hand.books[t]["asks"]]
<1>3. \/ local' = local /\ damaged' = damaged \union {t}
      \/ /\ damaged' = damaged \ {t}
         /\ local' = [local EXCEPT ![t] = [ready |-> TRUE, received |-> clock, book |-> b]]
  BY AsksChanges
<1>4. daemon.hand.books[t] \in Books BY <1>2, HandBooks
<1>5. local \in [Tokens -> LocalRec] /\ daemon \in DaemonRec /\ clock \in Nat
  BY DEF Typed, BooksTyped, DaemonTyped
<1>6. local[t] \in LocalRec BY <1>5
<1>7. b \in Books BY <1>4, <1>6 DEF LocalRec, Books, Sides
<1> HIDE DEF b
<1>8. VenueTyped' BY <1>1 DEF Typed, VenueTyped
<1>9. Rest(t) \in FrameRec /\ Fits(Rest(t), known) BY <1>2, RestTyped
<1>10. daemon' \in DaemonRec BY <1>1, <1>5, <1>9 DEF DaemonRec
<1>11. DaemonTyped' BY <1>1, <1>9, <1>10 DEF Typed, DaemonTyped
<1>12. BooksTyped'
  <2>1. CASE local' = local BY <1>1, <1>3, <2>1 DEF Typed, BooksTyped
  <2>2. CASE local' = [local EXCEPT ![t] = [ready |-> TRUE, received |-> clock, book |-> b]]
    <3>1. [ready |-> TRUE, received |-> clock, book |-> b] \in LocalRec
      BY <1>5, <1>7 DEF LocalRec
    <3>2. /\ local' \in [Tokens -> LocalRec]
          /\ \A u \in Tokens : local'[u].received \in {local[u].received, clock}
      BY <1>5, <2>2, <3>1
    <3> QED BY <1>1, <1>3, <1>5, <3>2 DEF Typed, BooksTyped
  <2> QED BY <1>3, <2>1, <2>2
<1>13. Halfway' BY <1>1 DEF Halfway
<1> QED BY <1>8, <1>11, <1>12, <1>13 DEF Typed

LEMMA DeltaTyped == ASSUME Typed, ApplyChange PROVE Typed'
<1> DEFINE l == daemon.hand.changes  c == Head(l)  rest == Tail(l)
           b == Applied(local[c.token].book, c)
<1>1. /\ UNCHANGED <<venue, served, link, wire, known, main, cache, clock, shown, bad>>
      /\ daemon.hand.kind = "delta" /\ daemon.hand # NoFrame
      /\ daemon'.at = daemon.at /\ daemon'.sub = daemon.sub /\ daemon'.half = daemon.half
      /\ daemon' = [at |-> daemon'.at, sub |-> daemon'.sub, hand |-> daemon'.hand,
                    half |-> daemon'.half]
  BY DeltaChanges
<1>2. \/ /\ Acceptable(c) /\ damaged' = damaged
         /\ local' = [local EXCEPT ![c.token] = [ready |-> TRUE, book |-> b, received |-> clock]]
         /\ \/ rest = <<>> /\ daemon'.hand = NoFrame
            \/ rest # <<>> /\ daemon'.hand = Delta(rest, daemon.hand.good - 1)
      \/ /\ local' = local /\ daemon'.hand = NoFrame
         /\ damaged' = damaged \union {x.token : x \in ToSet(l)}
  BY DeltaChanges
<1>3. /\ l \in Lists /\ c \in Changes /\ rest \in Lists /\ Len(rest) = Len(l) - 1
      /\ daemon.hand.good \in 0..Len(l) /\ Len(l) \in {1, 2}
  BY <1>1, HeadOfHand
<1>4. local \in [Tokens -> LocalRec] /\ daemon \in DaemonRec /\ clock \in Nat
  BY DEF Typed, BooksTyped, DaemonTyped
<1>5. c.token \in Tokens BY <1>3 DEF Changes
<1>6. b \in Books
  <2>1. local[c.token].book \in Books BY <1>4, <1>5 DEF LocalRec
  <2> QED BY <1>3, <2>1, BooksAre
<1>7. {x.token : x \in ToSet(l)} \subseteq Tokens
  <2>1. \A x \in ToSet(l) : x \in Changes
    <3> SUFFICES ASSUME NEW x \in ToSet(l) PROVE x \in Changes OBVIOUS
    <3>1. PICK i \in DOMAIN l : x = l[i] BY DEF ToSet
    <3>2. CASE l = <<>> BY <3>1, <3>2
    <3>3. CASE \E y \in Changes : l = <<y>> BY <3>1, <3>3
    <3>4. CASE \E y, z \in Changes : l = <<y, z>> BY <3>1, <3>4
    <3> QED BY <1>3, <3>2, <3>3, <3>4, ListsAre
  <2> QED BY <2>1 DEF Changes
<1>8. ASSUME Acceptable(c)
      PROVE  LET f == Delta(rest, daemon.hand.good - 1) IN
             /\ f \in FrameRec /\ Fits(f, known) /\ f.kind = "delta"
  <2>1. daemon.hand.good > 0 BY <1>8 DEF Acceptable
  <2> HIDE DEF l, rest, c
  <2>2. daemon.hand.good - 1 \in 0..Len(rest) /\ daemon.hand.good - 1 \in 0..2 BY <1>3, <2>1
  <2> QED BY <1>3, <2>2 DEF Delta, DeltaRec, FrameRec, Fits
<1> HIDE DEF l, c, rest, b
<1>9. daemon'.hand \in FrameRec /\ Fits(daemon'.hand, known)
  BY <1>2, <1>8, NoFrameTyped
<1>10. daemon' \in DaemonRec BY <1>1, <1>4, <1>9 DEF DaemonRec
<1>11. DaemonTyped' BY <1>1, <1>9, <1>10 DEF Typed, DaemonTyped
<1>12. VenueTyped' BY <1>1 DEF Typed, VenueTyped
<1>13. BooksTyped'
  <2>1. CASE local' = local BY <1>1, <1>2, <1>7, <2>1 DEF Typed, BooksTyped
  <2>2. CASE local' = [local EXCEPT ![c.token] = [ready |-> TRUE, book |-> b, received |-> clock]]
    <3>1. [ready |-> TRUE, book |-> b, received |-> clock] \in LocalRec
      BY <1>4, <1>6 DEF LocalRec
    <3>2. /\ local' \in [Tokens -> LocalRec]
          /\ \A u \in Tokens : local'[u].received \in {local[u].received, clock}
      BY <1>4, <1>5, <2>2, <3>1
    <3> QED BY <1>1, <1>2, <1>4, <1>7, <3>2 DEF Typed, BooksTyped
  <2> QED BY <1>2, <2>1, <2>2
<1>14. Halfway'
  <2>1. daemon.half = {} BY <1>1 DEF Typed, Halfway
  <2> QED BY <1>1, <2>1 DEF Halfway
<1> QED BY <1>11, <1>12, <1>13, <1>14 DEF Typed

LEMMA CycleTyped == ASSUME Typed, BeginCycle PROVE Typed'
<1>1. /\ main = "idle" /\ main' \in {"pump", "send"}
      /\ daemon' \in {daemon, [daemon EXCEPT !.at = "backoff"]}
      /\ UNCHANGED <<venue, served, link, wire, local, clock, ghosts>>
  BY DEF BeginCycle
<1>2. PICK wanted \in Rules : \E answered \in SUBSET wanted :
          /\ cache' = [t \in Tokens |->
                         IF t \in answered /\ venue[t] # NoBook
                         THEN [book |-> venue[t], fetched |-> clock, seen |-> clock]
                         ELSE cache[t]]
          /\ known' = known \union wanted
  BY DEF BeginCycle
<1>3. wanted \subseteq Tokens /\ wanted # {} /\ known' = known \union wanted
  BY <1>2, ConstantsAre
<1>4. VenueTyped /\ DaemonTyped /\ BooksTyped /\ Halfway BY DEF Typed
<1>5. \A f : Fits(f, known) => Fits(f, known') BY <1>3 DEF Fits
<1>6. VenueTyped' BY <1>1, <1>3, <1>4, <1>5 DEF VenueTyped, ghosts
<1>7. daemon \in DaemonRec BY <1>4 DEF DaemonTyped
<1>8. /\ daemon' \in DaemonRec /\ daemon'.hand = daemon.hand /\ daemon'.half = daemon.half
      /\ daemon'.sub = daemon.sub
      /\ daemon'.at = "subscribing" => daemon.at = "subscribing"
  <2>1. CASE daemon' = daemon BY <1>7, <2>1
  <2>2. CASE daemon' = [daemon EXCEPT !.at = "backoff"] BY <1>7, <2>2 DEF DaemonRec, Places
  <2> QED BY <1>1, <2>1, <2>2
<1>9. DaemonTyped' BY <1>3, <1>4, <1>5, <1>8 DEF DaemonTyped
<1>10. Halfway' BY <1>1, <1>4, <1>8 DEF Halfway
<1>11. BooksTyped'
  <2>1. venue \in [Tokens -> Books] /\ cache \in [Tokens -> CacheRec] /\ clock \in Nat
    BY <1>4 DEF VenueTyped, BooksTyped
  <2>2. \A t \in Tokens : /\ [book |-> venue[t], fetched |-> clock, seen |-> clock] \in CacheRec
                          /\ [book |-> venue[t], fetched |-> clock, seen |-> clock].fetched = clock
                          /\ [book |-> venue[t], fetched |-> clock, seen |-> clock].seen = clock
    BY <2>1 DEF CacheRec
  <2>3. \A t \in Tokens : cache'[t] \in {cache[t], [book |-> venue[t], fetched |-> clock, seen |-> clock]}
    BY <1>2
  <2>4. DOMAIN cache' = Tokens /\ cache' = [t \in Tokens |-> cache'[t]] BY <1>2
  <2>5. cache' \in [Tokens -> CacheRec] BY <2>1, <2>2, <2>3, <2>4
  <2>6. \A t \in Tokens : cache'[t].fetched <= clock /\ cache'[t].seen <= clock
    BY <1>4, <2>1, <2>2, <2>3 DEF BooksTyped
  <2> QED BY <1>1, <1>4, <2>5, <2>6 DEF BooksTyped, ghosts
<1> QED BY <1>6, <1>9, <1>10, <1>11 DEF Typed

LEMMA SendTyped == ASSUME Typed, Send PROVE Typed'
<1>1. /\ main = "send" /\ main' = "pump"
      /\ Serve(known) \/ UNCHANGED <<served, wire, bad>>
      /\ UNCHANGED <<venue, link, daemon, known, local, cache, clock, damaged, shown>>
  BY DEF Send
<1>2. known # {} BY <1>1 DEF Typed, DaemonTyped
<1>3. VenueTyped'
  <2>1. CASE Serve(known)
    <3>1. /\ served' \subseteq known /\ bad' \in Nat
          /\ wire' \in Seq(FrameRec) /\ \A i \in 1..Len(wire') : Fits(wire'[i], known')
      BY <1>1, <1>2, <2>1, ServeTyped
    <3> QED BY <1>1, <3>1 DEF Typed, VenueTyped
  <2>2. CASE UNCHANGED <<served, wire, bad>> BY <1>1, <2>2 DEF Typed, VenueTyped
  <2> QED BY <1>1, <2>1, <2>2
<1>4. DaemonTyped' /\ BooksTyped' /\ Halfway'
  BY <1>1, <1>2 DEF Typed, DaemonTyped, BooksTyped, Halfway
<1> QED BY <1>3, <1>4 DEF Typed

LEMMA PumpTyped == ASSUME Typed, Pump PROVE Typed'
<1>1. /\ main = "pump" /\ main' = "idle"
      /\ UNCHANGED <<venue, served, link, wire, daemon, known, local, clock, ghosts>>
      /\ cache' = [t \in Tokens |-> cache'[t]]
      /\ \A t \in Tokens : cache'[t] \in {cache[t], Overlay(t)}
  BY DEF Pump
<1>2. VenueTyped /\ DaemonTyped /\ BooksTyped /\ Halfway BY DEF Typed
<1>3. VenueTyped' /\ DaemonTyped' /\ Halfway'
  BY <1>1, <1>2 DEF VenueTyped, DaemonTyped, Halfway, ghosts
<1>4. /\ cache \in [Tokens -> CacheRec] /\ local \in [Tokens -> LocalRec] /\ clock \in Nat
      /\ \A t \in Tokens : local[t].received <= clock /\ cache[t].fetched <= clock
                           /\ cache[t].seen <= clock
  BY <1>2 DEF BooksTyped
<1>5. ASSUME NEW t \in Tokens
      PROVE  Overlay(t) \in CacheRec /\ Overlay(t).fetched = clock
             /\ Overlay(t).seen = local[t].received
  <2>1. local[t] \in LocalRec BY <1>4
  <2> QED BY <1>4, <2>1 DEF Overlay, CacheRec, LocalRec
<1>6. \A t \in Tokens : cache'[t] \in CacheRec /\ cache'[t].fetched <= clock
                        /\ cache'[t].seen <= clock
  <2> SUFFICES ASSUME NEW t \in Tokens
               PROVE cache'[t] \in CacheRec /\ cache'[t].fetched <= clock /\ cache'[t].seen <= clock
    OBVIOUS
  <2>1. CASE cache'[t] = cache[t] BY <1>4, <2>1
  <2>2. CASE cache'[t] = Overlay(t) BY <1>4, <1>5, <2>2
  <2> QED BY <1>1, <2>1, <2>2
<1>7. cache' \in [Tokens -> CacheRec] BY <1>1, <1>6
<1>8. BooksTyped' BY <1>1, <1>2, <1>6, <1>7 DEF BooksTyped, ghosts
<1> QED BY <1>3, <1>8 DEF Typed

LEMMA TickTyped == ASSUME Typed, Tick \/ UNCHANGED vars PROVE Typed'
<1>1. /\ UNCHANGED <<venue, served, link, wire, daemon, known, local, main, cache, damaged, shown, bad>>
      /\ clock' \in {clock, clock + 1}
  BY DEF Tick, vars, ghosts
<1>2. VenueTyped' /\ DaemonTyped' /\ Halfway'
  BY <1>1 DEF Typed, VenueTyped, DaemonTyped, Halfway
<1>3. /\ local \in [Tokens -> LocalRec] /\ cache \in [Tokens -> CacheRec] /\ clock \in Nat
      /\ \A t \in Tokens : /\ local[t].received \in Nat /\ cache[t].fetched \in Nat
                           /\ cache[t].seen \in Nat
  BY DEF Typed, BooksTyped, LocalRec, CacheRec
<1>4. \A t \in Tokens : /\ local[t].received <= clock' /\ cache[t].fetched <= clock'
                        /\ cache[t].seen <= clock'
  BY <1>1, <1>3 DEF Typed, BooksTyped
<1>5. clock' \in Nat BY <1>1, <1>3
<1>6. BooksTyped' BY <1>1, <1>4, <1>5 DEF Typed, BooksTyped
<1> QED BY <1>2, <1>6 DEF Typed

LEMMA TypedKept == ASSUME Typed, [Next]_vars PROVE Typed'
<1>1. ASSUME Daemon PROVE Typed'
  <2>1. NoticeBreak => Hangup /\ daemon.at # "none" BY DEF NoticeBreak
  <2> QED BY <1>1, <2>1, DialTyped, SubscribeTyped, HangupTyped, ReadTyped, BidsTyped, AsksTyped,
             DeltaTyped DEF Daemon
<1>2. Deadline => Typed' BY HangupTyped DEF Deadline
<1> QED BY <1>1, <1>2, ChangeTyped, BreakTyped, CycleTyped, SendTyped, PumpTyped, TickTyped
           DEF Next, MainThread

LEMMA AlwaysTyped == Spec => []Typed
<1>1. Typed /\ [Next]_vars => Typed' BY TypedKept
<1> QED BY <1>1, InitTyped, PTL DEF Spec

-----------------------------------------------------------------------------
(* The course of a book through a list of frames: there is one, and only one. *)
Course(P, b, s, t) ==
    /\ P = [n \in 0..Len(s) |-> P[n]] /\ P[0] = b
    /\ \A n \in 1..Len(s) : P[n] = Updated(P[n - 1], s[n], t)

(* Up to any length it can be gone on with. *)
LEMMA CourseExists ==
    ASSUME NEW s, Len(s) \in Nat, NEW b, NEW t
    PROVE  \E P : Course(P, b, s, t)
<1> DEFINE Upto(k) == \E P : /\ P = [n \in 0..k |-> P[n]] /\ P[0] = b
                             /\ \A n \in 1..k : P[n] = Updated(P[n - 1], s[n], t)
           T == {k \in 0..Len(s) : ~Upto(k)}
<1>1. Upto(0)
  <2> DEFINE P == [n \in 0..0 |-> b]
  <2>1. P = [n \in 0..0 |-> P[n]] /\ P[0] = b /\ \A n \in 1..0 : FALSE OBVIOUS
  <2> HIDE DEF P
  <2> QED BY <2>1
<1>2. ASSUME NEW k \in 1..Len(s), Upto(k - 1) PROVE Upto(k)
  <2>1. PICK P : /\ P = [n \in 0..(k - 1) |-> P[n]] /\ P[0] = b
                 /\ \A n \in 1..(k - 1) : P[n] = Updated(P[n - 1], s[n], t)
    BY <1>2
  <2> DEFINE last == Updated(P[k - 1], s[k], t)
             Q == [n \in 0..k |-> IF n = k THEN last ELSE P[n]]
  <2>2. Q = [n \in 0..k |-> Q[n]] /\ Q[0] = b /\ Q[k] = last
        /\ \A n \in 0..(k - 1) : Q[n] = P[n]
    BY <2>1
  <2> HIDE DEF Q
  <2>3. ASSUME NEW n \in 1..k PROVE Q[n] = Updated(Q[n - 1], s[n], t)
    <3>1. n - 1 \in 0..(k - 1) OBVIOUS
    <3>2. CASE n = k
      <4>1. Q[k - 1] = P[k - 1] BY <2>2, <3>1, <3>2
      <4> QED BY <2>2, <3>2, <4>1
    <3>3. CASE n # k
      <4>1. n \in 1..(k - 1) /\ n \in 0..(k - 1) BY <3>3
      <4>2. P[n] = Updated(P[n - 1], s[n], t) BY <2>1, <4>1
      <4>3. Q[n] = P[n] /\ Q[n - 1] = P[n - 1] BY <2>2, <3>1, <4>1
      <4> QED BY <4>2, <4>3
    <3> QED BY <3>2, <3>3
  <2> QED BY <2>2, <2>3
<1> HIDE DEF Upto
<1>3. T = {}
  <2> SUFFICES ASSUME T # {} PROVE FALSE OBVIOUS
  <2>1. T \subseteq Nat OBVIOUS
  <2> HIDE DEF T
  <2>2. PICK k \in T : \A q \in T : k <= q BY <2>1, Lowest
  <2>3. k \in 0..Len(s) /\ ~Upto(k) BY <2>2 DEF T
  <2>4. k # 0 BY <1>1, <2>3
  <2>5. k - 1 \in 0..Len(s) /\ k - 1 \in Nat /\ ~(k <= k - 1) BY <2>3, <2>4
  <2>6. k - 1 \notin T BY <2>2, <2>5
  <2>7. Upto(k - 1) BY <2>5, <2>6 DEF T
  <2> QED BY <1>2, <2>3, <2>4, <2>7
<1>4. Upto(Len(s)) BY <1>3
<1> QED BY <1>4 DEF Upto, Course

LEMMA OneCourse ==
    ASSUME NEW s, Len(s) \in Nat, NEW b, NEW t, NEW P, NEW Q,
           Course(P, b, s, t), Course(Q, b, s, t), NEW k \in 0..Len(s)
    PROVE  P[k] = Q[k]
<1> DEFINE T == {n \in 0..Len(s) : P[n] # Q[n]}
<1>1. T = {}
  <2> SUFFICES ASSUME T # {} PROVE FALSE OBVIOUS
  <2>1. T \subseteq Nat OBVIOUS
  <2> HIDE DEF T
  <2>2. PICK n \in T : \A q \in T : n <= q BY <2>1, Lowest
  <2>3. n \in 0..Len(s) /\ P[n] # Q[n] BY <2>2 DEF T
  <2>4. n # 0 BY <2>3 DEF Course
  <2>5. n - 1 \in 0..Len(s) /\ n - 1 \in Nat /\ ~(n <= n - 1) /\ n \in 1..Len(s) BY <2>3, <2>4
  <2>6. n - 1 \notin T BY <2>2, <2>5
  <2>7. P[n - 1] = Q[n - 1] BY <2>5, <2>6 DEF T
  <2>8. P[n] = Updated(P[n - 1], s[n], t) /\ Q[n] = Updated(Q[n - 1], s[n], t)
    BY <2>5 DEF Course
  <2> QED BY <2>3, <2>7, <2>8
<1> QED BY <1>1

(* After is where it ends. *)
LEMMA AfterIs ==
    ASSUME NEW s, Len(s) \in Nat, NEW b, NEW t
    PROVE  \E P : Course(P, b, s, t) /\ After(b, s, t) = P[Len(s)]
<1> DEFINE R(P) == P = [n \in 0..Len(s) |-> IF n = 0 THEN b ELSE Updated(P[n - 1], s[n], t)]
           after == CHOOSE P : R(P)
<1>1. PICK P : Course(P, b, s, t) BY CourseExists
<1>2. R(P)
  <2> DEFINE e(n) == IF n = 0 THEN b ELSE Updated(P[n - 1], s[n], t)
  <2>1. ASSUME NEW n \in 0..Len(s) PROVE P[n] = e(n)
    <3>1. CASE n = 0 BY <1>1, <3>1 DEF Course
    <3>2. CASE n # 0
      <4>1. n \in 1..Len(s) BY <3>2
      <4> QED BY <1>1, <3>2, <4>1 DEF Course
    <3> QED BY <3>1, <3>2
  <2>2. P = [n \in 0..Len(s) |-> P[n]] BY <1>1 DEF Course
  <2> HIDE DEF e
  <2>3. P = [n \in 0..Len(s) |-> e(n)] BY <2>1, <2>2
  <2> QED BY <2>3 DEF e
<1>3. R(after) BY <1>2
<1>4. Course(after, b, s, t)
  <2> HIDE DEF after
  <2>1. DOMAIN after = 0..Len(s) /\ after = [n \in 0..Len(s) |-> after[n]] BY <1>3
  <2>2. after[0] = b BY <1>3
  <2>3. \A n \in 1..Len(s) : after[n] = Updated(after[n - 1], s[n], t)
    <3> SUFFICES ASSUME NEW n \in 1..Len(s) PROVE after[n] = Updated(after[n - 1], s[n], t)
      OBVIOUS
    <3>1. n \in 0..Len(s) /\ n # 0 OBVIOUS
    <3> QED BY <1>3, <3>1
  <2> QED BY <2>1, <2>2, <2>3 DEF Course
<1>5. After(b, s, t) = after[Len(s)] BY Zenon DEF After
<1> HIDE DEF after
<1> QED BY <1>4, <1>5

LEMMA AfterCourse ==
    ASSUME NEW s, Len(s) \in Nat, NEW b, NEW t, NEW P, Course(P, b, s, t)
    PROVE  After(b, s, t) = P[Len(s)]
  BY AfterIs, OneCourse

LEMMA AfterNone == ASSUME NEW b, NEW t PROVE After(b, <<>>, t) = b
<1>1. Len(<<>>) = 0 /\ 0 \in 0..0 OBVIOUS
<1> DEFINE P == [n \in 0..0 |-> b]
<1>2. P = [n \in 0..0 |-> P[n]] /\ P[0] = b /\ \A n \in 1..0 : FALSE OBVIOUS
<1> HIDE DEF P
<1>3. Course(P, b, <<>>, t) BY <1>1, <1>2 DEF Course
<1>4. Len(<<>>) \in Nat BY <1>1
<1>5. After(b, <<>>, t) = P[Len(<<>>)] BY <1>3, <1>4, AfterCourse
<1> QED BY <1>1, <1>2, <1>5

(* A frame more at the end is told last. *)
LEMMA CourseMore ==
    ASSUME NEW S, NEW s \in Seq(S), NEW f \in S, NEW b, NEW t, NEW P, Course(P, b, s, t)
    PROVE  \E Q : /\ Course(Q, b, Append(s, f), t) /\ \A n \in 0..Len(s) : Q[n] = P[n]
                  /\ Q[Len(s) + 1] = Updated(P[Len(s)], f, t)
<1> DEFINE z == Append(s, f)  N == Len(s)  last == Updated(P[N], f, t)
           Q == [n \in 0..(N + 1) |-> IF n = N + 1 THEN last ELSE P[n]]
<1>1. N \in Nat /\ Len(z) = N + 1 /\ z[N + 1] = f /\ \A n \in 1..N : z[n] = s[n] OBVIOUS
<1>2. /\ Q = [n \in 0..(N + 1) |-> Q[n]] /\ Q[N + 1] = last
      /\ \A n \in 0..N : Q[n] = P[n]
  BY <1>1
<1> HIDE DEF z, N, Q
<1>3. ASSUME NEW n \in 1..(N + 1) PROVE Q[n] = Updated(Q[n - 1], z[n], t)
  <2>1. n - 1 \in 0..N BY <1>1
  <2>2. CASE n = N + 1
    <3>1. n - 1 = N BY <1>1, <2>2
    <3>2. Q[N] = P[N] BY <1>2, <2>1, <3>1
    <3> QED BY <1>1, <1>2, <2>2, <3>1, <3>2
  <2>3. CASE n # N + 1
    <3>1. n \in 1..N /\ n \in 0..N BY <1>1, <2>3
    <3>2. P[n] = Updated(P[n - 1], s[n], t) BY <3>1 DEF Course, N
    <3>3. Q[n] = P[n] /\ Q[n - 1] = P[n - 1] BY <1>2, <2>1, <3>1
    <3> QED BY <1>1, <3>1, <3>2, <3>3
  <2> QED BY <2>2, <2>3
<1>4. Q[0] = b
  <2>1. 0 \in 0..N BY <1>1
  <2> QED BY <1>2, <2>1 DEF Course
<1>5. Course(Q, b, z, t) BY <1>1, <1>2, <1>3, <1>4 DEF Course
<1> QED BY <1>2, <1>5 DEF z, N

LEMMA AfterMore ==
    ASSUME NEW S, NEW s \in Seq(S), NEW f \in S, NEW b, NEW t
    PROVE  After(b, Append(s, f), t) = Updated(After(b, s, t), f, t)
<1>1. Len(s) \in Nat /\ Len(Append(s, f)) = Len(s) + 1 OBVIOUS
<1>2. PICK P : Course(P, b, s, t) /\ After(b, s, t) = P[Len(s)] BY <1>1, AfterIs
<1>3. PICK Q : Course(Q, b, Append(s, f), t) /\ Q[Len(s) + 1] = Updated(P[Len(s)], f, t)
  BY <1>2, CourseMore
<1>4. Len(Append(s, f)) \in Nat BY <1>1
<1>5. After(b, Append(s, f), t) = Q[Len(s) + 1] BY <1>1, <1>3, <1>4, AfterCourse
<1> QED BY <1>2, <1>3, <1>5

(* The first frame is told first. *)
LEMMA CourseRest ==
    ASSUME NEW S, NEW s \in Seq(S), s # <<>>, NEW b, NEW t, NEW P, Course(P, b, s, t)
    PROVE  \E Q : /\ Course(Q, Updated(b, s[1], t), Tail(s), t)
                  /\ \A n \in 0..(Len(s) - 1) : Q[n] = P[n + 1]
<1> DEFINE z == Tail(s)  N == Len(z)  Q == [n \in 0..N |-> P[n + 1]]
<1>1. N \in Nat /\ Len(s) = N + 1 /\ \A n \in 1..N : z[n] = s[n + 1] OBVIOUS
<1> HIDE DEF z, N
<1>3. Q = [n \in 0..N |-> Q[n]] /\ \A n \in 0..N : Q[n] = P[n + 1] OBVIOUS
<1> HIDE DEF Q
<1>4. \A n \in 1..N : Q[n] = Updated(Q[n - 1], z[n], t)
  <2> SUFFICES ASSUME NEW n \in 1..N PROVE Q[n] = Updated(Q[n - 1], z[n], t) OBVIOUS
  <2>1. n \in 0..N /\ n - 1 \in 0..N /\ n + 1 \in 1..(N + 1) /\ (n + 1) - 1 = (n - 1) + 1
    BY <1>1
  <2>2. P[n + 1] = Updated(P[(n + 1) - 1], s[n + 1], t) BY <1>1, <2>1 DEF Course
  <2>3. Q[n - 1] = P[(n - 1) + 1] /\ Q[n] = P[n + 1] BY <1>3, <2>1
  <2> QED BY <1>1, <2>1, <2>2, <2>3
<1>5. Q[0] = Updated(b, s[1], t)
  <2>1. 1 \in 1..(N + 1) /\ 0 \in 0..N BY <1>1
  <2>2. P[1] = Updated(P[1 - 1], s[1], t) BY <1>1, <2>1 DEF Course
  <2>3. Q[0] = P[0 + 1] BY <1>3, <2>1
  <2> QED BY <2>2, <2>3 DEF Course
<1>6. Course(Q, Updated(b, s[1], t), z, t) BY <1>3, <1>4, <1>5 DEF Course, N
<1>7. Len(s) - 1 = N BY <1>1
<1> QED BY <1>3, <1>6, <1>7 DEF z

LEMMA AfterFirst ==
    ASSUME NEW S, NEW s \in Seq(S), s # <<>>, NEW b, NEW t
    PROVE  After(b, s, t) = After(Updated(b, s[1], t), Tail(s), t)
<1>1. Len(s) \in Nat /\ Len(Tail(s)) = Len(s) - 1 /\ Len(s) - 1 \in 0..(Len(s) - 1) OBVIOUS
<1>2. PICK P : Course(P, b, s, t) /\ After(b, s, t) = P[Len(s)] BY <1>1, AfterIs
<1>3. PICK Q : /\ Course(Q, Updated(b, s[1], t), Tail(s), t)
               /\ \A n \in 0..(Len(s) - 1) : Q[n] = P[n + 1]
  BY <1>2, CourseRest
<1>4. Len(Tail(s)) \in Nat BY <1>1
<1>5. After(Updated(b, s[1], t), Tail(s), t) = Q[Len(s) - 1] BY <1>1, <1>3, <1>4, AfterCourse
<1>6. Q[Len(s) - 1] = P[(Len(s) - 1) + 1] /\ (Len(s) - 1) + 1 = Len(s) BY <1>1, <1>3
<1> QED BY <1>2, <1>5, <1>6

(* A book list that names the token makes the past of its book irrelevant. *)
Named(f, t) == f.kind = "dump" /\ t \in DOMAIN f.books

LEMMA AfterDump ==
    ASSUME NEW s, Len(s) \in Nat, NEW b, NEW c, NEW t, NEW k \in 1..Len(s), Named(s[k], t)
    PROVE  After(b, s, t) = After(c, s, t)
<1>1. PICK P : Course(P, b, s, t) /\ After(b, s, t) = P[Len(s)] BY AfterIs
<1>2. PICK Q : Course(Q, c, s, t) /\ After(c, s, t) = Q[Len(s)] BY AfterIs
<1> DEFINE T == {n \in k..Len(s) : P[n] # Q[n]}
<1>3. P[k] = Q[k]
  <2>1. \A x, y : Updated(x, s[k], t) = Updated(y, s[k], t) BY DEF Updated, Named
  <2>2. P[k] = Updated(P[k - 1], s[k], t) /\ Q[k] = Updated(Q[k - 1], s[k], t)
    BY <1>1, <1>2 DEF Course
  <2> QED BY <2>1, <2>2
<1>4. T = {}
  <2> SUFFICES ASSUME T # {} PROVE FALSE OBVIOUS
  <2>1. T \subseteq Nat OBVIOUS
  <2> HIDE DEF T
  <2>2. PICK n \in T : \A q \in T : n <= q BY <2>1, Lowest
  <2>3. n \in k..Len(s) /\ P[n] # Q[n] BY <2>2 DEF T
  <2>4. n # k BY <1>3, <2>3
  <2>5. n - 1 \in k..Len(s) /\ n - 1 \in Nat /\ ~(n <= n - 1) /\ n \in 1..Len(s) BY <2>3, <2>4
  <2>6. n - 1 \notin T BY <2>2, <2>5
  <2>7. P[n - 1] = Q[n - 1] BY <2>5, <2>6 DEF T
  <2>8. P[n] = Updated(P[n - 1], s[n], t) /\ Q[n] = Updated(Q[n - 1], s[n], t)
    BY <1>1, <1>2, <2>5 DEF Course
  <2> QED BY <2>3, <2>7, <2>8
<1>5. Len(s) \in k..Len(s) OBVIOUS
<1> QED BY <1>1, <1>2, <1>4, <1>5

-----------------------------------------------------------------------------
(* A book and all that is still to be read of it: the rest of the frame in hand, the wire. *)
Pending(t) == After(Updated(local[t].book, daemon.hand, t), wire, t)

LEMMA ReplayedIs == ASSUME Typed, NEW t PROVE Replayed(t) = Pending(t)
<1>1. wire \in Seq(FrameRec) /\ daemon.hand \in FrameRec
  BY DEF Typed, VenueTyped, DaemonTyped, DaemonRec
<1> DEFINE h == daemon.hand  s == <<h>> \o wire
<1>2. s \in Seq(FrameRec) /\ s # <<>> /\ s[1] = h /\ Tail(s) = wire
  <2> HIDE DEF h
  <2> QED BY <1>1 DEF h
<1>3. Replayed(t) = After(local[t].book, s, t) BY DEF Replayed, Frames
<1> HIDE DEF s, h
<1>4. After(local[t].book, s, t) = After(Updated(local[t].book, s[1], t), Tail(s), t)
  BY <1>2, AfterFirst
<1> QED BY <1>2, <1>3, <1>4 DEF Pending, h

(* A served token's book is told in full, unless a bad frame has hit it and no new list of   *)
(* its book is under way.                                                                    *)
Listed(t)  == Named(daemon.hand, t) \/ \E i \in 1..Len(wire) : Named(wire[i], t)
Tracked == \A t \in served : t \notin damaged \/ Listed(t) => Pending(t) = venue[t]

LEMMA TrackedSame ==
    ASSUME Tracked, served' \subseteq served,
           UNCHANGED <<venue, wire, local, damaged>>, daemon'.hand = daemon.hand
    PROVE  Tracked'
  BY DEF Tracked, Listed, Pending

LEMMA TrackedInit == Init => Tracked
  BY DEF Init, Tracked

LEMMA TrackedCut == served' = {} => Tracked'
  BY DEF Tracked

(* What a frame more at the end of the wire does. *)
LEMMA PendingMore ==
    ASSUME Typed, NEW f \in FrameRec, wire' = Append(wire, f), UNCHANGED local,
           daemon'.hand = daemon.hand, NEW t
    PROVE  /\ Pending(t)' = Updated(Pending(t), f, t)
           /\ Listed(t)' <=> Listed(t) \/ Named(f, t)
<1>1. wire \in Seq(FrameRec) BY DEF Typed, VenueTyped
<1>2. Pending(t)' = Updated(Pending(t), f, t)
  <2> DEFINE b == Updated(local[t].book, daemon.hand, t)
  <2>1. After(b, Append(wire, f), t) = Updated(After(b, wire, t), f, t) BY <1>1, AfterMore
  <2>2. Pending(t)' = After(b, Append(wire, f), t) BY DEF Pending
  <2> QED BY <2>1, <2>2 DEF Pending
<1>3. /\ Len(wire) \in Nat /\ Len(wire') = Len(wire) + 1 /\ wire'[Len(wire) + 1] = f
      /\ \A i \in 1..Len(wire) : wire'[i] = wire[i]
  BY <1>1
<1>4. (\E i \in 1..Len(wire') : Named(wire'[i], t))
         <=> (\E i \in 1..Len(wire) : Named(wire[i], t)) \/ Named(f, t)
  BY <1>3
<1> QED BY <1>2, <1>4 DEF Listed

LEMMA ServeTracked ==
    ASSUME Typed, Tracked, NEW ts, ts \subseteq Tokens, Serve(ts),
           UNCHANGED <<venue, local, damaged>>, daemon'.hand = daemon.hand
    PROVE  Tracked'
<1>1. PICK b \in {{}} \union {{x} : x \in ts \X Sides} :
          served' = served \union ts /\ wire' = Append(wire, Dump(ts, b))
  BY DEF Serve
<1> DEFINE f == Dump(ts, b)
<1>2. f \in FrameRec /\ DOMAIN f.books = ts /\ f.kind = "dump" /\ \A t \in ts : f.books[t] = venue[t]
  <2>1. b \in {{}} \union {{x} : x \in ts \X Sides} BY <1>1
  <2>2. /\ Dump(ts, b) \in FrameRec /\ DOMAIN Dump(ts, b).books = ts /\ Dump(ts, b).kind = "dump"
        /\ \A t \in ts : Dump(ts, b).books[t] = venue[t]
    BY <2>1, DumpTyped
  <2> QED BY <2>2
<1>3. wire' = Append(wire, f) BY <1>1
<1> HIDE DEF f
<1>4. SUFFICES ASSUME NEW t \in served', t \notin damaged \/ Listed(t)'
               PROVE  Pending(t)' = venue[t]
  BY DEF Tracked
<1>5. /\ Pending(t)' = Updated(Pending(t), f, t)
      /\ Listed(t)' <=> Listed(t) \/ Named(f, t)
  BY <1>2, <1>3, PendingMore
<1>6. CASE t \in ts BY <1>2, <1>5, <1>6 DEF Updated
<1>7. CASE t \notin ts
  <2>1. t \in served BY <1>1, <1>7
  <2>2. Updated(Pending(t), f, t) = Pending(t) BY <1>2, <1>7 DEF Updated
  <2>3. Listed(t)' <=> Listed(t) BY <1>2, <1>5, <1>7 DEF Named
  <2> QED BY <1>4, <1>5, <2>1, <2>2, <2>3 DEF Tracked
<1> QED BY <1>6, <1>7

LEMMA ChangeTracked ==
    ASSUME Typed, Tracked, NEW batch \in Batches, Change(batch)
    PROVE  Tracked'
<1>1. /\ UNCHANGED <<served, daemon, local, damaged>>
      /\ venue' = [t \in Tokens |-> Told(venue[t], batch, t)]
  BY DEF Change
<1>2. PICK n \in 0..Len(Heard(batch)) :
          wire' = IF Heard(batch) = <<>> THEN wire ELSE Append(wire, Delta(Heard(batch), n))
  BY DEF Change
<1>3. ASSUME NEW t \in served
      PROVE  venue'[t] = Told(venue[t], Heard(batch), t)
  <2>1. t \in Tokens BY DEF Typed, VenueTyped
  <2> QED BY <1>1, <2>1, HeardSays
<1>4. CASE Heard(batch) = <<>>
  <2>1. wire' = wire BY <1>2, <1>4
  <2>2. \A t \in served : venue'[t] = venue[t] BY <1>3, <1>4, NoneTold
  <2> QED BY <1>1, <2>1, <2>2 DEF Tracked, Listed, Pending
<1>5. CASE Heard(batch) # <<>>
  <2> DEFINE f == Delta(Heard(batch), n)
  <2>1. wire' = Append(wire, f) BY <1>2, <1>5
  <2>2. f.kind = "delta" /\ f.changes = Heard(batch) BY DEF Delta
  <2>3. f \in FrameRec
    <3>1. Typed' BY ChangeTyped
    <3>2. wire \in Seq(FrameRec) /\ wire' \in Seq(FrameRec)
      BY <3>1 DEF Typed, VenueTyped
    <3>3. wire' = Append(wire, f) => wire'[Len(wire) + 1] = f /\ Len(wire) + 1 \in 1..Len(wire')
      <4> HIDE DEF f
      <4> QED BY <3>2
    <3> HIDE DEF f
    <3> QED BY <2>1, <3>2, <3>3
  <2> HIDE DEF f
  <2>4. SUFFICES ASSUME NEW t \in served, t \notin damaged \/ Listed(t)'
                 PROVE  Pending(t)' = venue'[t]
    BY <1>1 DEF Tracked
  <2>5. /\ Pending(t)' = Updated(Pending(t), f, t)
        /\ Listed(t)' <=> Listed(t) \/ Named(f, t)
    BY <1>1, <2>1, <2>3, PendingMore
  <2>6. Pending(t) = venue[t] BY <2>2, <2>4, <2>5 DEF Tracked, Named
  <2>7. Updated(venue[t], f, t) = Told(venue[t], Heard(batch), t) BY <2>2 DEF Updated
  <2> QED BY <1>3, <2>5, <2>6, <2>7
<1> QED BY <1>4, <1>5

LEMMA ReadTracked == ASSUME Typed, Tracked, Read PROVE Tracked'
<1>1. /\ wire # <<>> /\ wire' = Tail(wire) /\ daemon.hand = NoFrame
      /\ daemon' = [daemon EXCEPT !.hand = Head(wire)]
      /\ UNCHANGED <<venue, served, local, damaged>>
  BY DEF Read, ghosts
<1>2. wire \in Seq(FrameRec) /\ daemon \in DaemonRec BY DEF Typed, VenueTyped, DaemonTyped
<1>3. daemon'.hand = wire[1] BY <1>1, <1>2 DEF DaemonRec
<1>4. SUFFICES ASSUME NEW t \in served, t \notin damaged \/ Listed(t)'
               PROVE  Pending(t)' = venue[t]
  BY <1>1 DEF Tracked
<1> DEFINE b == local[t].book
<1>5. Updated(b, NoFrame, t) = b BY NoFrameTyped, NoneTold DEF Updated
<1>6. Pending(t) = After(b, wire, t) BY <1>1, <1>5 DEF Pending
<1>7. After(b, wire, t) = After(Updated(b, wire[1], t), Tail(wire), t)
  BY <1>1, <1>2, AfterFirst
<1>8. Pending(t)' = After(Updated(b, wire[1], t), Tail(wire), t) BY <1>1, <1>3 DEF Pending
<1>9. Listed(t)' => Listed(t)
  <2>1. /\ Len(wire) \in Nat /\ Len(wire) >= 1 /\ Len(wire') = Len(wire) - 1
        /\ \A i \in 1..Len(wire') : wire'[i] = wire[i + 1] /\ i + 1 \in 1..Len(wire)
    BY <1>1, <1>2
  <2>2. Named(wire[1], t) => Listed(t) BY <2>1 DEF Listed
  <2>3. (\E i \in 1..Len(wire') : Named(wire'[i], t)) => Listed(t) BY <2>1 DEF Listed
  <2> QED BY <1>3, <2>2, <2>3 DEF Listed
<1> QED BY <1>4, <1>6, <1>7, <1>8, <1>9 DEF Tracked

(* The rest of a list tells of the other tokens what the list does. *)
LEMMA RestTells ==
    ASSUME Typed, NEW t, daemon.hand.kind = "dump", t \in DOMAIN daemon.hand.books,
           NEW u, u # t, NEW b
    PROVE  /\ Updated(b, Rest(t), u) = Updated(b, daemon.hand, u)
           /\ Named(Rest(t), u) <=> Named(daemon.hand, u)
<1> DEFINE h == daemon.hand  r == Rest(t)
<1>1. \/ r = NoFrame /\ DOMAIN h.books = {t}
      \/ /\ r.kind = "dump" /\ DOMAIN r.books = DOMAIN h.books \ {t}
         /\ \A v \in DOMAIN h.books \ {t} : r.books[v] = h.books[v]
  BY RestTyped
<1>2. CASE r = NoFrame /\ DOMAIN h.books = {t}
  <2> HIDE DEF r
  <2>1. Updated(b, NoFrame, u) = b /\ ~Named(NoFrame, u) BY NoFrameTyped, NoneTold DEF Updated, Named
  <2>2. Updated(b, h, u) = b /\ ~Named(h, u) BY <1>2 DEF Updated, Named
  <2> QED BY <1>2, <2>1, <2>2 DEF r
<1>3. CASE /\ r.kind = "dump" /\ DOMAIN r.books = DOMAIN h.books \ {t}
           /\ \A v \in DOMAIN h.books \ {t} : r.books[v] = h.books[v]
  <2> HIDE DEF r
  <2>1. Updated(b, r, u) = Updated(b, h, u) BY <1>3 DEF Updated
  <2>2. Named(r, u) <=> Named(h, u) BY <1>3 DEF Named
  <2> QED BY <2>1, <2>2 DEF r
<1> QED BY <1>1, <1>2, <1>3

(* A book is dropped from the list in hand. *)
LEMMA DropTracked ==
    ASSUME Typed, Tracked, NEW t, daemon.hand.kind = "dump", t \in DOMAIN daemon.hand.books,
           daemon'.hand = Rest(t), UNCHANGED <<venue, served, wire>>,
           DOMAIN local' = DOMAIN local, \A u \in Tokens \ {t} : local'[u] = local[u],
           \/ damaged' = damaged \union {t}
           \/ damaged' = damaged \ {t} /\ local'[t].book = daemon.hand.books[t]
    PROVE  Tracked'
<1>1. wire \in Seq(FrameRec) /\ served \subseteq Tokens /\ Len(wire) \in Nat
  BY DEF Typed, VenueTyped
<1>2. SUFFICES ASSUME NEW u \in served, u \notin damaged' \/ Listed(u)'
               PROVE  Pending(u)' = venue[u]
  BY DEF Tracked
<1>3. Pending(u)' = After(Updated(local'[u].book, Rest(t), u), wire, u) BY DEF Pending
<1>4. Listed(u)' <=> Named(Rest(t), u) \/ \E i \in 1..Len(wire) : Named(wire[i], u) BY DEF Listed
<1>5. CASE u # t
  <2>1. local'[u].book = local[u].book BY <1>1, <1>5
  <2>2. /\ Updated(local[u].book, Rest(t), u) = Updated(local[u].book, daemon.hand, u)
        /\ Named(Rest(t), u) <=> Named(daemon.hand, u)
    BY <1>5, RestTells
  <2>3. Pending(u)' = Pending(u) BY <1>3, <2>1, <2>2 DEF Pending
  <2>4. u \notin damaged \/ Listed(u) BY <1>2, <1>4, <1>5, <2>2 DEF Listed
  <2> QED BY <2>3, <2>4 DEF Tracked
<1>6. CASE u = t
  <2>1. Pending(t) = venue[t] BY <1>6 DEF Tracked, Listed, Named
  <2>2. ~Named(Rest(t), t)
    <3>1. Rest(t) = NoFrame \/ DOMAIN Rest(t).books = DOMAIN daemon.hand.books \ {t} BY RestTyped
    <3> QED BY <3>1, NoFrameTyped DEF Named
  <2>3. \A b : Updated(b, Rest(t), t) = b
    <3>1. CASE Rest(t) = NoFrame BY <3>1, NoFrameTyped, NoneTold DEF Updated
    <3>2. CASE Rest(t) # NoFrame
      <4>1. Rest(t).kind = "dump" /\ t \notin DOMAIN Rest(t).books BY <3>2, RestTyped
      <4> QED BY <4>1 DEF Updated
    <3> QED BY <3>1, <3>2
  <2>4. CASE \E i \in 1..Len(wire) : Named(wire[i], t)
    <3>1. After(Updated(local'[t].book, Rest(t), t), wire, t)
            = After(Updated(local[t].book, daemon.hand, t), wire, t)
      BY <1>1, <2>4, AfterDump
    <3> QED BY <1>3, <1>6, <2>1, <3>1 DEF Pending
  <2>5. CASE ~\E i \in 1..Len(wire) : Named(wire[i], t)
    <3>1. t \notin damaged' BY <1>2, <1>4, <1>6, <2>2, <2>5
    <3>2. local'[t].book = daemon.hand.books[t] BY <3>1
    <3>3. Updated(local[t].book, daemon.hand, t) = daemon.hand.books[t] BY DEF Updated
    <3> QED BY <1>3, <1>6, <2>1, <2>3, <3>2, <3>3 DEF Pending
  <2> QED BY <2>4, <2>5
<1> QED BY <1>5, <1>6

LEMMA BidsTracked == ASSUME Typed, Tracked, NEW t \in Tokens, ApplyBids(t) PROVE Tracked'
<1>1. /\ UNCHANGED <<venue, served, wire>>
      /\ daemon.hand.kind = "dump" /\ t \in DOMAIN daemon.hand.books
  BY BidsChanges
<1> DEFINE b == [local[t].book EXCEPT !["bids"] = daemon.hand.books[t]["bids"]]
<1>2. \/ local' = local /\ damaged' = damaged \union {t} /\ daemon'.hand = Rest(t)
      \/ /\ damaged' = damaged /\ daemon'.hand = daemon.hand
         /\ local' = [local EXCEPT ![t] = [ready |-> local[t].ready,
                                           received |-> local[t].received, book |-> b]]
  BY BidsChanges
<1> HIDE DEF b
<1>3. CASE local' = local /\ damaged' = damaged \union {t} /\ daemon'.hand = Rest(t)
  BY <1>1, <1>3, DropTracked
<1>4. CASE /\ damaged' = damaged /\ daemon'.hand = daemon.hand
           /\ local' = [local EXCEPT ![t] = [ready |-> local[t].ready,
                                             received |-> local[t].received, book |-> b]]
  <2>1. served \subseteq Tokens BY DEF Typed, VenueTyped
  <2>2. ASSUME NEW u \in served PROVE Pending(u)' = Pending(u) /\ (Listed(u)' <=> Listed(u))
    <3>1. Updated(local'[u].book, daemon.hand, u) = Updated(local[u].book, daemon.hand, u)
      <4>1. CASE u # t
        <5>1. local'[u] = local[u] BY <1>4, <2>1, <4>1
        <5> QED BY <5>1
      <4>2. CASE u = t BY <1>1, <4>2 DEF Updated
      <4> QED BY <4>1, <4>2
    <3> QED BY <1>1, <1>4, <3>1 DEF Pending, Listed
  <2> QED BY <1>1, <1>4, <2>2 DEF Tracked
<1> QED BY <1>2, <1>3, <1>4

LEMMA AsksTracked == ASSUME Typed, Tracked, NEW t \in Tokens, ApplyAsks(t) PROVE Tracked'
<1>1. /\ UNCHANGED <<venue, served, wire>> /\ daemon.half = {t} /\ daemon'.hand = Rest(t)
  BY AsksChanges
<1>2. /\ daemon.hand.kind = "dump" /\ t \in DOMAIN daemon.hand.books
      /\ local[t].book["bids"] = daemon.hand.books[t]["bids"]
  BY <1>1, HalfIs
<1> DEFINE b == [local[t].book EXCEPT !["asks"] = daemon.hand.books[t]["asks"]]
<1>3. \/ local' = local /\ damaged' = damaged \union {t}
      \/ /\ damaged' = damaged \ {t}
         /\ local' = [local EXCEPT ![t] = [ready |-> TRUE, received |-> clock, book |-> b]]
  BY AsksChanges
<1>4. daemon.hand.books[t] \in Books /\ local[t] \in LocalRec /\ local \in [Tokens -> LocalRec]
  BY <1>2, HandBooks DEF Typed, BooksTyped
<1>5. b = daemon.hand.books[t]
  <2>1. /\ local[t].book \in Books /\ b \in Books /\ b["asks"] = daemon.hand.books[t]["asks"]
        /\ b["bids"] = local[t].book["bids"]
    BY <1>4 DEF LocalRec, Books, Sides
  <2> HIDE DEF b
  <2>2. \A s \in Sides : b[s] = daemon.hand.books[t][s] BY <1>2, <2>1 DEF Sides
  <2> QED BY <1>4, <2>1, <2>2 DEF Books
<1> HIDE DEF b
<1>6. CASE local' = local /\ damaged' = damaged \union {t}
  BY <1>1, <1>2, <1>6, DropTracked
<1>7. CASE /\ damaged' = damaged \ {t}
           /\ local' = [local EXCEPT ![t] = [ready |-> TRUE, received |-> clock, book |-> b]]
  <2>1. /\ DOMAIN local' = DOMAIN local /\ \A u \in Tokens \ {t} : local'[u] = local[u]
        /\ local'[t].book = daemon.hand.books[t]
    BY <1>4, <1>5, <1>7
  <2> QED BY <1>1, <1>2, <1>7, <2>1, DropTracked
<1> QED BY <1>3, <1>6, <1>7

(* An element of a price_change is taken from the frame and told to its book, or the frame   *)
(* is dropped and every token of it marked.                                                  *)
LEMMA Applies ==
    ASSUME Typed, ApplyChange, NEW l, l = daemon.hand.changes, NEW c, c = Head(l)
    PROVE  /\ c \in Changes /\ daemon'.hand.kind = "delta" /\ daemon.hand.kind = "delta"
           /\ \/ /\ Acceptable(c) /\ damaged' = damaged
                 /\ local' = [local EXCEPT ![c.token] = [ready |-> TRUE, received |-> clock,
                                        book |-> Told(local[c.token].book, <<c>>, c.token)]]
                 /\ \A b, u : Updated(Told(b, <<c>>, u), daemon'.hand, u) = Updated(b, daemon.hand, u)
              \/ /\ ~Acceptable(c) /\ local' = local /\ daemon'.hand = NoFrame
                 /\ damaged' = damaged \union {x.token : x \in ToSet(l)}
                 /\ \A b, u : u \notin damaged' => Updated(b, daemon.hand, u) = b
<1> DEFINE rest == Tail(l)  b == Applied(local[c.token].book, c)
<1>1. daemon.hand.kind = "delta" /\ daemon.hand # NoFrame BY DeltaChanges
<1>2. \/ /\ Acceptable(c) /\ damaged' = damaged
         /\ local' = [local EXCEPT ![c.token] = [ready |-> TRUE, book |-> b, received |-> clock]]
         /\ \/ rest = <<>> /\ daemon'.hand = NoFrame
            \/ rest # <<>> /\ daemon'.hand = Delta(rest, daemon.hand.good - 1)
      \/ /\ ~Acceptable(c) /\ local' = local /\ daemon'.hand = NoFrame
         /\ damaged' = damaged \union {x.token : x \in ToSet(l)}
  BY DeltaChanges
<1>3. /\ c \in Changes
      /\ (l = <<c>> /\ rest = <<>>) \/ (\E d \in Changes : l = <<c, d>> /\ rest = <<d>>)
  BY <1>1, HeadOfHand
<1>4. local[c.token].book \in Books
  BY <1>3 DEF Typed, BooksTyped, LocalRec, Changes
<1>5. b = Told(local[c.token].book, <<c>>, c.token) BY <1>3, <1>4, BooksAre, OneTold
<1> HIDE DEF b, rest
<1>6. \A x, u : Updated(x, daemon.hand, u) = Told(x, l, u) BY <1>1 DEF Updated
<1>7. CASE Acceptable(c)
  <2>1. /\ damaged' = damaged
        /\ local' = [local EXCEPT ![c.token] = [ready |-> TRUE, book |-> b, received |-> clock]]
        /\ \/ rest = <<>> /\ daemon'.hand = NoFrame
           \/ rest # <<>> /\ daemon'.hand = Delta(rest, daemon.hand.good - 1)
    BY <1>2, <1>7
  <2>2. daemon'.hand.kind = "delta" /\ daemon'.hand.changes = rest
    <3>1. Delta(rest, daemon.hand.good - 1).kind = "delta"
          /\ Delta(rest, daemon.hand.good - 1).changes = rest
      BY DEF Delta
    <3> QED BY <2>1, <3>1, NoFrameTyped
  <2>3. ASSUME NEW x, NEW u PROVE Told(Told(x, <<c>>, u), rest, u) = Told(x, l, u)
    <3>1. CASE l = <<c>> /\ rest = <<>> BY <3>1, NoneTold
    <3>2. CASE \E d \in Changes : l = <<c, d>> /\ rest = <<d>> BY <3>2, TwoTold
    <3> QED BY <1>3, <3>1, <3>2
  <2>4. \A x, u : Updated(x, daemon'.hand, u) = Told(x, rest, u) BY <2>2 DEF Updated
  <2>5. local' = [local EXCEPT ![c.token] = [ready |-> TRUE, received |-> clock,
                                        book |-> Told(local[c.token].book, <<c>>, c.token)]]
    BY <1>5, <2>1
  <2>6. \A x, u : Updated(Told(x, <<c>>, u), daemon'.hand, u) = Updated(x, daemon.hand, u)
    BY <1>6, <2>3, <2>4
  <2> QED BY <1>1, <1>3, <1>7, <2>1, <2>2, <2>5, <2>6
<1>8. CASE ~Acceptable(c)
  <2>1. /\ daemon'.hand = NoFrame /\ damaged' = damaged \union {x.token : x \in ToSet(l)}
        /\ local' = local
    BY <1>2, <1>8
  <2>2. ASSUME NEW x, NEW u, u \notin damaged' PROVE Told(x, l, u) = x
    <3>1. CASE l = <<c>>
      <4>0. l[1] = c /\ DOMAIN l = {1} BY <3>1
      <4>1. c \in ToSet(l) BY <4>0 DEF ToSet
      <4>2. c.token # u BY <2>1, <2>2, <4>1
      <4>3. Told(x, <<c>>, u) = x BY <4>2, OneTold
      <4> QED BY <3>1, <4>3
    <3>2. ASSUME NEW d \in Changes, l = <<c, d>> PROVE Told(x, l, u) = x
      <4>0. l[1] = c /\ l[2] = d /\ DOMAIN l = {1, 2} BY <3>2
      <4>1. c \in ToSet(l) /\ d \in ToSet(l) BY <4>0 DEF ToSet
      <4>2. c.token # u /\ d.token # u BY <2>1, <2>2, <4>1
      <4>3. Told(x, <<c>>, u) = x /\ Told(x, <<d>>, u) = x BY <4>2, OneTold
      <4> QED BY <3>2, <4>3, TwoTold
    <3> QED BY <1>3, <3>1, <3>2
  <2>3. daemon'.hand.kind = "delta" BY <2>1, NoFrameTyped
  <2> QED BY <1>1, <1>3, <1>6, <1>8, <2>1, <2>2, <2>3
<1> QED BY <1>7, <1>8

LEMMA DeltaTracked == ASSUME Typed, Tracked, ApplyChange PROVE Tracked'
<1> DEFINE l == daemon.hand.changes  c == Head(l)
<1>1. UNCHANGED <<venue, served, wire>> BY DeltaChanges
<1>2. /\ c \in Changes /\ daemon'.hand.kind = "delta" /\ daemon.hand.kind = "delta"
      /\ \/ /\ Acceptable(c) /\ damaged' = damaged
            /\ local' = [local EXCEPT ![c.token] = [ready |-> TRUE, received |-> clock,
                                   book |-> Told(local[c.token].book, <<c>>, c.token)]]
            /\ \A b, u : Updated(Told(b, <<c>>, u), daemon'.hand, u) = Updated(b, daemon.hand, u)
         \/ /\ ~Acceptable(c) /\ local' = local /\ daemon'.hand = NoFrame
            /\ damaged' = damaged \union {x.token : x \in ToSet(l)}
            /\ \A b, u : u \notin damaged' => Updated(b, daemon.hand, u) = b
  BY Applies
<1>3. /\ served \subseteq Tokens /\ local \in [Tokens -> LocalRec] /\ wire \in Seq(FrameRec)
      /\ c.token \in Tokens
  BY <1>2 DEF Typed, VenueTyped, BooksTyped, Changes
<1> HIDE DEF l, c
<1>4. SUFFICES ASSUME NEW u \in served, u \notin damaged' \/ Listed(u)'
               PROVE  Pending(u)' = venue[u]
  BY <1>1 DEF Tracked
<1>5. /\ Listed(u)' <=> \E i \in 1..Len(wire) : Named(wire[i], u)
      /\ Listed(u) <=> \E i \in 1..Len(wire) : Named(wire[i], u)
  BY <1>1, <1>2 DEF Listed, Named
<1>6. u \notin damaged' => u \notin damaged BY <1>2
<1>7. Pending(u) = venue[u] BY <1>4, <1>5, <1>6 DEF Tracked
<1>8. CASE \E i \in 1..Len(wire) : Named(wire[i], u)
  <2>1. After(Updated(local'[u].book, daemon'.hand, u), wire, u)
           = After(Updated(local[u].book, daemon.hand, u), wire, u)
    BY <1>3, <1>8, AfterDump
  <2> QED BY <1>1, <1>7, <2>1 DEF Pending
<1>9. CASE /\ local' = [local EXCEPT ![c.token] = [ready |-> TRUE, received |-> clock,
                                   book |-> Told(local[c.token].book, <<c>>, c.token)]]
           /\ \A b, x : Updated(Told(b, <<c>>, x), daemon'.hand, x) = Updated(b, daemon.hand, x)
  <2>1. local'[u].book = Told(local[u].book, <<c>>, u)
    <3>1. CASE u = c.token BY <1>3, <1>9, <3>1
    <3>2. CASE u # c.token BY <1>3, <1>9, <3>2, OneTold
    <3> QED BY <3>1, <3>2
  <2>2. Updated(local'[u].book, daemon'.hand, u) = Updated(local[u].book, daemon.hand, u)
    BY <1>9, <2>1
  <2> QED BY <1>1, <1>7, <2>2 DEF Pending
<1>10. CASE /\ local' = local /\ daemon'.hand = NoFrame /\ u \notin damaged'
            /\ \A b, x : x \notin damaged' => Updated(b, daemon.hand, x) = b
  <2>1. Updated(local[u].book, NoFrame, u) = local[u].book BY NoFrameTyped, NoneTold DEF Updated
  <2> QED BY <1>1, <1>7, <1>10, <2>1 DEF Pending
<1> QED BY <1>2, <1>4, <1>5, <1>8, <1>9, <1>10

LEMMA TrackedKept == ASSUME Typed, Tracked, [Next]_vars PROVE Tracked'
<1>1. Dial \/ ReadTokens => Tracked'
  <2>1. daemon \in DaemonRec BY DEF Typed, DaemonTyped
  <2>2. Dial \/ ReadTokens => daemon'.hand = daemon.hand
                               /\ UNCHANGED <<venue, served, wire, local, damaged>>
    BY <2>1 DEF Dial, ReadTokens, DaemonRec, ghosts
  <2> QED BY <2>2, TrackedSame
<1>2. Subscribe => Tracked'
  <2> SUFFICES ASSUME Subscribe PROVE Tracked' OBVIOUS
  <2>1. daemon \in DaemonRec /\ daemon.sub \subseteq Tokens
    BY DEF Typed, VenueTyped, DaemonTyped
  <2>2. Serve(daemon.sub) /\ daemon'.hand = daemon.hand /\ UNCHANGED <<venue, local, damaged>>
    BY <2>1 DEF Subscribe, DaemonRec
  <2> QED BY <2>1, <2>2, ServeTracked
<1>3. NoticeBreak \/ Deadline \/ Break => Tracked'
  BY TrackedCut DEF NoticeBreak, Deadline, Hangup, Break
<1>4. Daemon => Tracked'
  BY <1>1, <1>2, <1>3, ReadTracked, BidsTracked, AsksTracked, DeltaTracked DEF Daemon
<1>5. Send => Tracked'
  <2> SUFFICES ASSUME Send PROVE Tracked' OBVIOUS
  <2>1. known \subseteq Tokens BY DEF Typed, VenueTyped
  <2>2. daemon' = daemon /\ UNCHANGED <<venue, local, damaged>> BY DEF Send
  <2>3. CASE Serve(known) BY <2>1, <2>2, <2>3, ServeTracked
  <2>4. CASE UNCHANGED <<served, wire, bad>> BY <2>2, <2>4, TrackedSame
  <2> QED BY <2>3, <2>4 DEF Send
<1>6. BeginCycle => Tracked'
  <2> SUFFICES ASSUME BeginCycle PROVE Tracked' OBVIOUS
  <2>1. daemon \in DaemonRec BY DEF Typed, DaemonTyped
  <2>2. daemon' \in {daemon, [daemon EXCEPT !.at = "backoff"]}
        /\ UNCHANGED <<venue, served, wire, local, damaged>>
    BY DEF BeginCycle, ghosts
  <2>3. daemon'.hand = daemon.hand BY <2>1, <2>2 DEF DaemonRec
  <2> QED BY <2>2, <2>3, TrackedSame
<1>7. Pump \/ Tick \/ UNCHANGED vars => Tracked'
  <2>1. Pump \/ Tick \/ UNCHANGED vars => UNCHANGED <<venue, served, wire, local, damaged, daemon>>
    BY DEF Pump, Tick, vars, ghosts
  <2> QED BY <2>1, TrackedSame
<1> QED BY <1>3, <1>4, <1>5, <1>6, <1>7, ChangeTracked DEF Next, MainThread

LEMMA FeedFromTracked == ASSUME Typed, Tracked PROVE FeedConsistent
<1>1. served \subseteq Tokens BY DEF Typed, VenueTyped
<1> SUFFICES ASSUME NEW t \in served, Intact(t) PROVE Replayed(t) = venue[t]
  BY DEF FeedConsistent
<1>2. t \notin damaged BY DEF Intact
<1> QED BY <1>2, ReplayedIs DEF Tracked

(* The local book of a served token and the frames under way make up the venue's book, for   *)
(* every interleaving of the venue, the transport thread and the main thread, across         *)
(* reconnects, new subscriptions and lists half applied (src/market_ws_transport.py,         *)
(* src/websocket_market_data.py, src/local_order_book.py).                                   *)
THEOREM BooksFollowVenue == Spec => []FeedConsistent
<1>1. Tracked /\ Typed /\ [Next]_vars => Tracked' BY TrackedKept
<1>2. Typed /\ Tracked => FeedConsistent BY FeedFromTracked
<1> QED BY <1>1, <1>2, TrackedInit, AlwaysTyped, PTL DEF Spec

-----------------------------------------------------------------------------
(* While no frame is lost or malformed, every side a local book takes has been the venue's.  *)
Seen(b, t, sh) == \A s \in Sides : b[s] \in sh[t][s]

(* The frame is as the venue sent it. *)
Pure(f, sh) == IF f.kind = "dump"
               THEN f.bad = {} /\ \A t \in DOMAIN f.books : Seen(f.books[t], t, sh)
               ELSE f.good = Len(f.changes)

(* The books the changes of a frame take b through, one after the other. *)
Passes(b, f, t, sh) ==
    f.kind = "delta" =>
        /\ Len(f.changes) >= 1 => (f.changes[1].token = t => Seen(Told(b, <<f.changes[1]>>, t), t, sh))
        /\ Len(f.changes) = 2 => (f.changes[2].token = t => Seen(Told(b, f.changes, t), t, sh))

(* A book is ready, or will be once the hand h and the first n frames of the wire w are read; *)
(* the tokens of a price_change are such, as the list of their books was sent before.         *)
Seeded(n, t, l, h, w) ==
    t \in Tokens /\ (l[t].ready \/ Named(h, t) \/ \E i \in 1..n : Named(w[i], t))
Awaited(f, n, l, h, w) ==
    f.kind = "delta" => \A k \in DOMAIN f.changes : Seeded(n, f.changes[k].token, l, h, w)

Shown(l, h, w, sh, t) ==
    \E P : /\ Course(P, Updated(l[t].book, h, t), w, t)
           /\ \A n \in 1..Len(w) : Passes(P[n - 1], w[n], t, sh)

Undamaged == damaged = {} /\ Pure(daemon.hand, shown)
             /\ \A n \in 1..Len(wire) : Pure(wire[n], shown)
Prepared  == /\ Awaited(daemon.hand, 0, local, daemon.hand, wire)
             /\ \A n \in 1..Len(wire) : Awaited(wire[n], n - 1, local, daemon.hand, wire)
             /\ \A t \in served : Seeded(Len(wire), t, local, daemon.hand, wire)
Passing   == \A t \in Tokens : /\ local[t].ready => Seen(local[t].book, t, shown)
                               /\ Passes(local[t].book, daemon.hand, t, shown)
                               /\ Shown(local, daemon.hand, wire, shown, t)
Offered   == \A t \in Tokens : cache[t].fetched > 0 => Seen(cache[t].book, t, shown)
Clean     == Undamaged /\ Prepared /\ Passing
Sourced   == /\ \A t \in Tokens : Seen(venue[t], t, shown)
             /\ bad = 0 => Clean /\ Offered

(* What has been seen stays so. *)
LEMMA SeenStays ==
    ASSUME NEW sh, NEW sg, NEW t, \A s \in Sides : sh[t][s] \subseteq sg[t][s]
    PROVE  /\ \A b : Seen(b, t, sh) => Seen(b, t, sg)
           /\ \A b, f : Passes(b, f, t, sh) => Passes(b, f, t, sg)
           /\ \A l, h, w : Shown(l, h, w, sh, t) => Shown(l, h, w, sg, t)
<1>1. \A b : Seen(b, t, sh) => Seen(b, t, sg) BY DEF Seen
<1>2. \A b, f : Passes(b, f, t, sh) => Passes(b, f, t, sg) BY <1>1 DEF Passes
<1>3. \A l, h, w : Shown(l, h, w, sh, t) => Shown(l, h, w, sg, t) BY <1>2 DEF Shown
<1> QED BY <1>1, <1>2, <1>3

LEMMA PureStays ==
    ASSUME Typed, NEW sh, NEW sg, \A t \in Tokens, s \in Sides : sh[t][s] \subseteq sg[t][s],
           NEW g \in FrameRec, Fits(g, known), Pure(g, sh)
    PROVE  Pure(g, sg)
<1>1. CASE g.kind = "dump"
  <2>1. DOMAIN g.books \subseteq Tokens BY <1>1 DEF Fits, Typed, VenueTyped
  <2>2. \A t, b : t \in Tokens /\ Seen(b, t, sh) => Seen(b, t, sg) BY DEF Seen
  <2> QED BY <1>1, <2>1, <2>2 DEF Pure
<1>2. CASE g.kind # "dump" BY <1>2 DEF Pure
<1> QED BY <1>1, <1>2

LEMMA NoFramePasses ==
    /\ \A b, t, sh : Passes(b, NoFrame, t, sh) /\ Updated(b, NoFrame, t) = b
    /\ \A sh : Pure(NoFrame, sh)
    /\ \A n, l, h, w : Awaited(NoFrame, n, l, h, w)
    /\ \A t : ~Named(NoFrame, t)
<1>1. NoFrame = [kind |-> "delta", changes |-> <<>>, good |-> 0] BY DEF NoFrame, Delta
<1>2. NoFrame.kind = "delta" /\ NoFrame.changes = <<>> /\ NoFrame.good = 0 BY <1>1
<1>3. Len(<<>>) = 0 /\ DOMAIN <<>> = {} OBVIOUS
<1>4. \A b, t : Updated(b, NoFrame, t) = b BY <1>2, NoneTold DEF Updated
<1>5. \A b, t, sh : Passes(b, NoFrame, t, sh) BY <1>2, <1>3 DEF Passes
<1>6. \A sh : Pure(NoFrame, sh) BY <1>2, <1>3 DEF Pure
<1>7. \A n, l, h, w : Awaited(NoFrame, n, l, h, w) BY <1>2, <1>3 DEF Awaited
<1>8. \A t : ~Named(NoFrame, t) BY <1>2 DEF Named
<1> QED BY <1>4, <1>5, <1>6, <1>7, <1>8

LEMMA SourcedInit == Init => Sourced
<1> SUFFICES ASSUME Init PROVE Sourced OBVIOUS
<1>1. \A t \in Tokens : Seen(venue[t], t, shown)
  <2>1. \A t \in Tokens : venue[t] = FirstBook /\ shown[t] = [s \in Sides |-> {FirstBook[s]}]
    BY DEF Init
  <2> QED BY <2>1 DEF Seen
<1>2. \A t \in Tokens : cache[t].fetched = 0 /\ local[t].ready = FALSE
  <2>1. \A t \in Tokens : local[t] = [ready |-> FALSE, book |-> NoBook, received |-> 0]
                          /\ cache[t] = [book |-> NoBook, fetched |-> 0, seen |-> 0]
    BY DEF Init
  <2> QED BY <2>1
<1>3. Offered BY <1>2 DEF Offered
<1>4. daemon.hand = NoFrame /\ wire = <<>> /\ Len(wire) = 0 /\ damaged = {} /\ served = {}
  BY DEF Init
<1>5. Undamaged BY <1>4, NoFramePasses DEF Undamaged
<1>6. Prepared BY <1>4, NoFramePasses DEF Prepared
<1>7. ASSUME NEW t \in Tokens PROVE Shown(local, daemon.hand, wire, shown, t)
  <2>1. Len(wire) \in Nat BY <1>4
  <2>2. PICK P : Course(P, Updated(local[t].book, daemon.hand, t), wire, t)
    BY <2>1, CourseExists
  <2> QED BY <1>4, <2>2 DEF Shown
<1>8. Passing BY <1>2, <1>4, <1>7, NoFramePasses DEF Passing
<1> QED BY <1>1, <1>3, <1>5, <1>6, <1>8 DEF Sourced, Clean

(* The pump and the refresh write what has been seen. *)
LEMMA SourcedSame ==
    ASSUME Sourced, served' \subseteq served, Offered' \/ bad # 0,
           UNCHANGED <<venue, wire, local, damaged, shown, bad>>, daemon'.hand = daemon.hand
    PROVE  Sourced'
  BY DEF Sourced, Clean, Undamaged, Prepared, Passing

LEMMA OfferedSame == ASSUME Sourced, UNCHANGED <<cache, shown>> PROVE Offered' \/ bad # 0
  BY DEF Sourced, Offered

LEMMA CutSourced ==
    ASSUME Sourced, served' = {}, wire' = <<>>, daemon'.hand = daemon.hand,
           UNCHANGED <<venue, local, cache, damaged, shown, bad>>
    PROVE  Sourced'
<1>1. Offered' \/ bad # 0 BY OfferedSame
<1>2. SUFFICES ASSUME bad = 0 PROVE Clean' BY <1>1 DEF Sourced
<1>3. Undamaged /\ Prepared /\ Passing BY <1>2 DEF Sourced, Clean
<1>4. Len(wire') = 0 /\ Len(wire') \in Nat OBVIOUS
<1>5. Undamaged' BY <1>3, <1>4 DEF Undamaged
<1>6. Prepared'
  <2>1. Awaited(daemon.hand, 0, local, daemon.hand, wire') BY <1>3 DEF Prepared, Awaited, Seeded
  <2> QED BY <1>4, <2>1 DEF Prepared
<1>7. ASSUME NEW t \in Tokens PROVE Shown(local, daemon.hand, wire', shown, t)
  <2>1. PICK P : Course(P, Updated(local[t].book, daemon.hand, t), wire', t)
    BY <1>4, CourseExists
  <2> QED BY <1>4, <2>1 DEF Shown
<1>8. Passing' BY <1>3, <1>7 DEF Passing
<1> QED BY <1>5, <1>6, <1>8 DEF Clean

(* A frame more on the wire. *)
LEMMA SeededMore ==
    ASSUME NEW S, NEW w \in Seq(S), NEW f \in S, NEW l, NEW h, NEW t, NEW n \in 0..Len(w)
    PROVE  Seeded(n, t, l, h, Append(w, f)) <=> Seeded(n, t, l, h, w)
<1>1. \A i \in 1..n : i \in 1..Len(w) /\ Append(w, f)[i] = w[i] OBVIOUS
<1> QED BY <1>1 DEF Seeded

LEMMA MoreClean ==
    ASSUME Typed, Clean, NEW f \in FrameRec, wire' = Append(wire, f), daemon'.hand = daemon.hand,
           UNCHANGED <<local, damaged>>,
           \A t \in Tokens, s \in Sides : shown[t][s] \subseteq shown'[t][s],
           Pure(f, shown'),
           Awaited(f, Len(wire), local, daemon.hand, wire),
           served' \subseteq Tokens,
           \A t \in served' : Seeded(Len(wire), t, local, daemon.hand, wire) \/ Named(f, t),
           \A t \in Tokens : Passes(Pending(t), f, t, shown')
    PROVE  Clean'
<1> DEFINE h == daemon.hand  N == Len(wire)
<1>0. wire \in Seq(FrameRec) /\ N \in Nat BY DEF Typed, VenueTyped
<1>1. /\ Len(wire') = N + 1 /\ wire'[N + 1] = f /\ \A n \in 1..N : wire'[n] = wire[n]
      /\ \A n \in 1..(N + 1) : n \in 1..N \/ n = N + 1
  BY <1>0
<1>2. Undamaged /\ Prepared /\ Passing BY DEF Clean
<1>3. \A t \in Tokens : /\ \A b : Seen(b, t, shown) => Seen(b, t, shown')
                        /\ \A b, g : Passes(b, g, t, shown) => Passes(b, g, t, shown')
  BY SeenStays
<1>4. \A n, t : n \in 0..N => (Seeded(n, t, local, h, wire') <=> Seeded(n, t, local, h, wire))
  BY <1>0, SeededMore
<1>5. Undamaged'
  <2>1. \A g \in FrameRec : Fits(g, known) /\ Pure(g, shown) => Pure(g, shown') BY PureStays
  <2>2. h \in FrameRec /\ Fits(h, known) /\ \A n \in 1..N : wire[n] \in FrameRec /\ Fits(wire[n], known)
    BY <1>0 DEF Typed, VenueTyped, DaemonTyped, DaemonRec
  <2>3. Pure(h, shown') BY <1>2, <2>1, <2>2 DEF Undamaged
  <2>4. \A n \in 1..N : Pure(wire[n], shown') BY <1>2, <2>1, <2>2 DEF Undamaged
  <2>5. damaged' = {} BY <1>2 DEF Undamaged
  <2>6. \A n \in 1..Len(wire') : Pure(wire'[n], shown') BY <1>1, <2>4
  <2> QED BY <2>3, <2>5, <2>6 DEF Undamaged
<1>6. Prepared'
  <2>1. Awaited(h, 0, local, h, wire')
    <3>1. 0 \in 0..N BY <1>0
    <3> HIDE DEF h, N
    <3> QED BY <1>2, <1>4, <3>1 DEF Prepared, Awaited, h
  <2>2. ASSUME NEW n \in 1..N PROVE Awaited(wire[n], n - 1, local, h, wire')
    <3>1. n - 1 \in 0..N BY <1>0
    <3>2. Awaited(wire[n], n - 1, local, h, wire) BY <1>2 DEF Prepared
    <3> HIDE DEF h, N
    <3> QED BY <1>4, <3>1, <3>2 DEF Awaited
  <2>3. Awaited(f, (N + 1) - 1, local, h, wire')
    <3>1. N \in 0..N /\ (N + 1) - 1 = N BY <1>0
    <3>2. Awaited(f, N, local, h, wire) OBVIOUS
    <3> HIDE DEF h, N
    <3> QED BY <1>4, <3>1, <3>2 DEF Awaited
  <2>4. ASSUME NEW t \in served' PROVE Seeded(N + 1, t, local, h, wire')
    <3>1. CASE Named(f, t)
      <4>1. N + 1 \in 1..(N + 1) BY <1>0
      <4> QED BY <1>1, <3>1, <4>1 DEF Seeded
    <3>2. CASE Seeded(N, t, local, h, wire)
      <4>1. \A i \in 1..N : i \in 1..(N + 1) /\ wire'[i] = wire[i] BY <1>0, <1>1
      <4> QED BY <3>2, <4>1 DEF Seeded
    <3> QED BY <3>1, <3>2
  <2> HIDE DEF N, h
  <2>5. \A n \in 1..(N + 1) : Awaited(wire'[n], n - 1, local, h, wire') BY <1>1, <2>2, <2>3
  <2> QED BY <1>1, <2>1, <2>4, <2>5 DEF Prepared, h
<1>7. ASSUME NEW t \in Tokens PROVE Shown(local, h, wire', shown', t)
  <2> DEFINE b == Updated(local[t].book, h, t)
  <2>1. PICK P : Course(P, b, wire, t) /\ \A n \in 1..N : Passes(P[n - 1], wire[n], t, shown)
    BY <1>2 DEF Passing, Shown
  <2>2. PICK Q : /\ Course(Q, b, wire', t) /\ \A n \in 0..N : Q[n] = P[n]
                 /\ Q[N + 1] = Updated(P[N], f, t)
    BY <1>0, <2>1, CourseMore
  <2>3. Pending(t) = P[N] BY <1>0, <2>1, AfterCourse DEF Pending
  <2>4. Passes(P[N], f, t, shown') BY <2>3
  <2>5. ASSUME NEW n \in 1..(N + 1) PROVE Passes(Q[n - 1], wire'[n], t, shown')
    <3>1. n - 1 \in 0..N BY <1>0
    <3>2. Q[n - 1] = P[n - 1] BY <2>2, <3>1
    <3>3. CASE n = N + 1
      <4>1. n - 1 = N BY <1>0, <3>3
      <4> QED BY <1>1, <2>4, <3>2, <3>3, <4>1
    <3>4. CASE n \in 1..N
      <4>1. Passes(P[n - 1], wire[n], t, shown) BY <2>1, <3>4
      <4> QED BY <1>1, <1>3, <3>2, <3>4, <4>1
    <3> QED BY <1>1, <3>3, <3>4
  <2> HIDE DEF b, N, h
  <2> QED BY <1>1, <2>2, <2>5 DEF Shown, b
<1>8. Passing' BY <1>2, <1>3, <1>7 DEF Passing
<1> QED BY <1>5, <1>6, <1>8 DEF Clean

LEMMA ServeSourced ==
    ASSUME Typed, Sourced, NEW ts, ts \subseteq Tokens, Serve(ts),
           UNCHANGED <<venue, local, cache, damaged, shown>>, daemon'.hand = daemon.hand
    PROVE  Sourced'
<1>1. PICK b \in {{}} \union {{x} : x \in ts \X Sides} :
          /\ bad' = bad + Cardinality(b)
          /\ served' = served \union ts /\ wire' = Append(wire, Dump(ts, b))
  BY DEF Serve
<1>2. Cardinality(b) \in Nat /\ (Cardinality(b) = 0 => b = {})
  <2>1. CASE b = {} BY <2>1, FS_EmptySet
  <2>2. ASSUME NEW x, b = {x} PROVE Cardinality(b) = 1 BY <2>2, FS_Singleton
  <2> QED BY <2>1, <2>2
<1>3. bad \in Nat BY DEF Typed, VenueTyped
<1>4. bad' = 0 => bad = 0 /\ b = {} BY <1>1, <1>2, <1>3
<1>6. SUFFICES ASSUME bad' = 0 PROVE Clean' /\ Offered' BY DEF Sourced
<1>7. Clean /\ Offered' BY <1>4, <1>6, OfferedSame DEF Sourced
<1>8. /\ Dump(ts, b) \in FrameRec /\ Dump(ts, b).bad = b
      /\ DOMAIN Dump(ts, b).books = ts /\ Dump(ts, b).kind = "dump"
      /\ \A t \in ts : Dump(ts, b).books[t] = venue[t]
  <2>1. b \in {{}} \union {{x} : x \in ts \X Sides} BY <1>1
  <2> QED BY <2>1, DumpTyped
<1> DEFINE f == Dump(ts, b)
<1>9. /\ f \in FrameRec /\ f.kind = "dump" /\ wire' = Append(wire, f)
      /\ \A t : Named(f, t) <=> t \in ts
  BY <1>1, <1>8 DEF Named
<1>10. Pure(f, shown')
  <2>1. \A t \in ts : Seen(venue[t], t, shown) BY DEF Sourced
  <2> QED BY <1>4, <1>6, <1>8, <2>1 DEF Pure
<1> HIDE DEF f
<1>11. Awaited(f, Len(wire), local, daemon.hand, wire) BY <1>9 DEF Awaited
<1>12. \A t \in served' : Seeded(Len(wire), t, local, daemon.hand, wire) \/ Named(f, t)
  BY <1>1, <1>7, <1>9 DEF Clean, Prepared
<1>13. \A t \in Tokens : Passes(Pending(t), f, t, shown') BY <1>9 DEF Passes
<1>14. \A t \in Tokens, s \in Sides : shown[t][s] \subseteq shown'[t][s] OBVIOUS
<1>15. served' \subseteq Tokens BY <1>1 DEF Typed, VenueTyped
<1>16. Clean' BY <1>7, <1>9, <1>10, <1>11, <1>12, <1>13, <1>14, <1>15, MoreClean
<1> QED BY <1>7, <1>16

(* What is heard of a batch concerns served tokens, and takes their books only through what   *)
(* the batch takes the venue's through.                                                      *)
LEMMA HeardPasses ==
    ASSUME NEW batch \in Batches, NEW h, h = Heard(batch), NEW b
    PROVE  /\ \A k \in DOMAIN h : h[k].token \in served
           /\ Len(h) >= 1 => Told(b, <<h[1]>>, h[1].token)
                                \in {Told(b, <<batch[1]>>, h[1].token), Told(b, batch, h[1].token)}
<1>1. ASSUME NEW c \in Changes, batch = <<c>>
      PROVE  /\ \A k \in DOMAIN h : h[k].token \in served
             /\ Len(h) >= 1 => <<h[1]>> = <<batch[1]>>
  <2>0. batch[1] = c BY <1>1
  <2>1. h = IF c.token \in served THEN <<c>> ELSE <<>> BY <1>1, HeardOne
  <2>2. CASE c.token \in served
    <3>1. h = <<c>> BY <2>1, <2>2
    <3>2. DOMAIN h = {1} /\ h[1] = c BY <3>1
    <3> QED BY <2>0, <2>2, <3>2
  <2>3. CASE c.token \notin served
    <3>1. h = <<>> BY <2>1, <2>3
    <3>2. DOMAIN h = {} /\ Len(h) = 0 BY <3>1
    <3> QED BY <3>2
  <2> QED BY <2>2, <2>3
<1>2. ASSUME NEW c \in Changes, NEW d \in Changes, batch = <<c, d>>
      PROVE  /\ \A k \in DOMAIN h : h[k].token \in served
             /\ Len(h) >= 1 => Told(b, <<h[1]>>, h[1].token)
                                  \in {Told(b, <<batch[1]>>, h[1].token), Told(b, batch, h[1].token)}
  <2>0. batch[1] = c BY <1>2
  <2>1. CASE c.token \in served
    <3>1. (h = <<c, d>> /\ d.token \in served) \/ h = <<c>> BY <1>2, <2>1, HeardTwo
    <3>2. /\ h[1] = c
          /\ DOMAIN h = {1} \/ (DOMAIN h = {1, 2} /\ h[2] = d /\ d.token \in served)
      BY <3>1
    <3> QED BY <2>0, <2>1, <3>2
  <2>2. CASE c.token \notin served /\ d.token \in served
    <3>1. h = <<d>> BY <1>2, <2>2, HeardTwo
    <3>2. h[1] = d /\ DOMAIN h = {1} BY <3>1
    <3>3. Told(b, <<c>>, d.token) = b BY <2>2, OneTold
    <3>4. Told(b, batch, d.token) = Told(b, <<d>>, d.token) BY <1>2, <3>3, TwoTold
    <3> QED BY <2>2, <3>2, <3>4
  <2>3. CASE c.token \notin served /\ d.token \notin served
    <3>1. h = <<>> BY <1>2, <2>3, HeardTwo
    <3>2. DOMAIN h = {} /\ Len(h) = 0 BY <3>1
    <3> QED BY <3>2
  <2> QED BY <2>1, <2>2, <2>3
<1> QED BY <1>1, <1>2, BatchesAre

LEMMA ChangeSourced ==
    ASSUME Typed, Tracked, Sourced, NEW batch \in Batches, Change(batch)
    PROVE  Sourced'
<1> DEFINE h == Heard(batch)
<1>1. UNCHANGED <<served, daemon, local, cache, damaged>> BY DEF Change
<1>2. /\ venue' = [t \in Tokens |-> Told(venue[t], batch, t)]
      /\ shown' = [t \in Tokens |-> [s \in Sides |->
                     shown[t][s] \union {Told(venue[t], <<batch[1]>>, t)[s], venue'[t][s]}]]
  BY DEF Change
<1>3. PICK n \in 0..Len(h) :
          /\ bad' = IF n < Len(h) THEN bad + 1 ELSE bad
          /\ wire' = IF h = <<>> THEN wire ELSE Append(wire, Delta(h, n))
  BY DEF Change
<1>4. h \in Lists /\ bad \in Nat BY HeardTyped DEF Typed, VenueTyped
<1>5. ASSUME NEW t \in Tokens
      PROVE  /\ \A s \in Sides : shown[t][s] \subseteq shown'[t][s]
             /\ Seen(Told(venue[t], <<batch[1]>>, t), t, shown')
             /\ Seen(Told(venue[t], batch, t), t, shown') /\ venue'[t] = Told(venue[t], batch, t)
  BY <1>2 DEF Seen
<1>6. \A t \in Tokens : Seen(venue'[t], t, shown') BY <1>5
<1>7. SUFFICES ASSUME bad' = 0 PROVE Clean' /\ Offered' BY <1>6 DEF Sourced
<1>8. bad = 0 /\ (h # <<>> => n = Len(h))
  <2>1. ~(n < Len(h)) /\ bad = 0 BY <1>3, <1>4, <1>7
  <2>2. Len(h) \in Nat BY <1>4, ListsAre
  <2> HIDE DEF h
  <2> QED BY <2>1, <2>2
<1>9. Clean /\ Undamaged /\ Prepared /\ Passing BY <1>8 DEF Sourced, Clean
<1>10. Offered' BY <1>1, <1>5, <1>8, SeenStays DEF Sourced, Offered
<1>11. \A t \in Tokens, s \in Sides : shown[t][s] \subseteq shown'[t][s] BY <1>5
<1>12. CASE h = <<>>
  <2>1. wire' = wire BY <1>3, <1>12
  <2>2. /\ wire \in Seq(FrameRec) /\ daemon.hand \in FrameRec /\ Fits(daemon.hand, known)
        /\ \A k \in 1..Len(wire) : wire[k] \in FrameRec /\ Fits(wire[k], known)
    BY DEF Typed, VenueTyped, DaemonTyped, DaemonRec
  <2>3. \A g \in FrameRec : Fits(g, known) /\ Pure(g, shown) => Pure(g, shown')
    BY <1>11, PureStays
  <2>4. Undamaged' BY <1>1, <1>9, <2>1, <2>2, <2>3 DEF Undamaged
  <2>5. Prepared' BY <1>1, <1>9, <2>1 DEF Prepared
  <2>6. Passing' BY <1>1, <1>5, <1>9, <2>1, SeenStays DEF Passing
  <2> QED BY <1>10, <2>4, <2>5, <2>6 DEF Clean
<1>13. CASE h # <<>>
  <2> DEFINE f == Delta(h, n)
  <2>1. wire' = Append(wire, f) BY <1>3, <1>13
  <2>2. f.kind = "delta" /\ f.changes = h /\ f.good = Len(h) BY <1>8, <1>13 DEF Delta
  <2>3. f \in FrameRec
    <3>1. Typed' BY ChangeTyped
    <3>2. wire \in Seq(FrameRec) /\ wire' \in Seq(FrameRec) BY <3>1 DEF Typed, VenueTyped
    <3>3. wire' = Append(wire, f) => wire'[Len(wire) + 1] = f /\ Len(wire) + 1 \in 1..Len(wire')
      <4> HIDE DEF f
      <4> QED BY <3>2
    <3> HIDE DEF f
    <3> QED BY <2>1, <3>2, <3>3
  <2> HIDE DEF f
  <2>4. \A k \in DOMAIN h : h[k].token \in served BY HeardPasses
  <2>5. Pure(f, shown') BY <2>2 DEF Pure
  <2>6. Awaited(f, Len(wire), local, daemon.hand, wire) BY <1>9, <2>2, <2>4 DEF Prepared, Awaited
  <2>7. \A t \in served' : Seeded(Len(wire), t, local, daemon.hand, wire)
    BY <1>1, <1>9 DEF Prepared
  <2>8. ASSUME NEW t \in Tokens PROVE Passes(Pending(t), f, t, shown')
    <3>1. t \in served => Pending(t) = venue[t] BY <1>9 DEF Tracked, Undamaged
    <3>2. DOMAIN h = 1..Len(h) /\ Len(h) \in Nat BY <1>4, ListsAre
    <3>3. ASSUME Len(h) >= 1, h[1].token = t
          PROVE  Seen(Told(Pending(t), <<h[1]>>, t), t, shown')
      <4>1. t \in served BY <2>4, <3>2, <3>3
      <4>2. Told(venue[t], <<h[1]>>, t)
               \in {Told(venue[t], <<batch[1]>>, t), Told(venue[t], batch, t)}
        BY <3>3, HeardPasses
      <4> QED BY <1>5, <3>1, <4>1, <4>2
    <3>4. ASSUME Len(h) = 2, h[2].token = t PROVE Seen(Told(Pending(t), h, t), t, shown')
      <4>1. t \in served BY <2>4, <3>2, <3>4
      <4>2. Told(venue[t], h, t) = Told(venue[t], batch, t) BY <4>1, HeardSays
      <4> QED BY <1>5, <3>1, <4>1, <4>2
    <3> HIDE DEF h
    <3> QED BY <2>2, <3>3, <3>4 DEF Passes
  <2>9. served' \subseteq Tokens BY <1>1 DEF Typed, VenueTyped
  <2>10. Clean' BY <1>1, <1>9, <1>11, <2>1, <2>3, <2>5, <2>6, <2>7, <2>8, <2>9, MoreClean
  <2> QED BY <1>10, <2>10
<1> QED BY <1>12, <1>13

(* A part of the frame in hand is applied. *)
LEMMA HandClean ==
    ASSUME Clean, UNCHANGED <<served, wire, shown>>, damaged' = {}, Pure(daemon'.hand, shown),
           \A n, t : Seeded(n, t, local, daemon.hand, wire)
                        => Seeded(n, t, local', daemon'.hand, wire),
           Awaited(daemon'.hand, 0, local', daemon'.hand, wire),
           \A t \in Tokens :
              /\ Updated(local'[t].book, daemon'.hand, t) = Updated(local[t].book, daemon.hand, t)
              /\ local'[t].ready => Seen(local'[t].book, t, shown)
              /\ Passes(local'[t].book, daemon'.hand, t, shown)
    PROVE  Clean'
<1>1. Undamaged /\ Prepared /\ Passing BY DEF Clean
<1>2. Undamaged' BY <1>1 DEF Undamaged
<1>3. \A f, n : Awaited(f, n, local, daemon.hand, wire) => Awaited(f, n, local', daemon'.hand, wire)
  BY DEF Awaited
<1>4. Prepared' BY <1>1, <1>3 DEF Prepared
<1>5. \A t \in Tokens : Shown(local', daemon'.hand, wire, shown, t) BY <1>1 DEF Passing, Shown
<1>6. Passing' BY <1>5 DEF Passing
<1> QED BY <1>2, <1>4, <1>6 DEF Clean

(* The books of a list in hand are the venue's. *)
LEMMA HandSeen ==
    ASSUME Typed, Clean, daemon.hand.kind = "dump", NEW t \in DOMAIN daemon.hand.books
    PROVE  /\ ~Bad(t, "bids") /\ ~Bad(t, "asks") /\ damaged = {}
           /\ Seen(daemon.hand.books[t], t, shown)
  BY DEF Clean, Undamaged, Pure, Bad

LEMMA BidsSourced == ASSUME Typed, Sourced, NEW t \in Tokens, ApplyBids(t) PROVE Sourced'
<1>1. /\ UNCHANGED <<venue, served, wire, cache, shown, bad>>
      /\ daemon.hand.kind = "dump" /\ t \in DOMAIN daemon.hand.books
  BY BidsChanges
<1> DEFINE b == [local[t].book EXCEPT !["bids"] = daemon.hand.books[t]["bids"]]
<1>2. \/ Bad(t, "bids")
      \/ /\ damaged' = damaged /\ daemon'.hand = daemon.hand
         /\ local' = [local EXCEPT ![t] = [ready |-> local[t].ready,
                                           received |-> local[t].received, book |-> b]]
  BY BidsChanges
<1>3. Offered' \/ bad # 0 BY <1>1, OfferedSame
<1>4. SUFFICES ASSUME bad = 0 PROVE Clean' BY <1>1, <1>3 DEF Sourced
<1>5. Clean BY <1>4 DEF Sourced
<1>6. ~Bad(t, "bids") /\ damaged = {} /\ Seen(daemon.hand.books[t], t, shown)
  BY <1>1, <1>5, HandSeen
<1>7. local \in [Tokens -> LocalRec] BY DEF Typed, BooksTyped
<1>8. b["bids"] = daemon.hand.books[t]["bids"] /\ b["asks"] = local[t].book["asks"]
  BY <1>7 DEF LocalRec, Books, Sides
<1> HIDE DEF b
<1>9. /\ local'[t].book = b /\ local'[t].ready = local[t].ready
      /\ \A u \in Tokens : u # t => local'[u] = local[u]
      /\ daemon'.hand = daemon.hand /\ damaged' = {}
  BY <1>2, <1>6, <1>7
<1>10. \A u \in Tokens : local'[u].ready = local[u].ready BY <1>9
<1>11. Undamaged /\ Prepared /\ Passing BY <1>5 DEF Clean
<1>12. \A n, u : Seeded(n, u, local, daemon.hand, wire) => Seeded(n, u, local', daemon'.hand, wire)
  BY <1>9 DEF Seeded
<1>13. Pure(daemon'.hand, shown) BY <1>9, <1>11 DEF Undamaged
<1>14. Awaited(daemon'.hand, 0, local', daemon'.hand, wire) BY <1>1, <1>9 DEF Awaited
<1>15. ASSUME NEW u \in Tokens
       PROVE  /\ Updated(local'[u].book, daemon'.hand, u) = Updated(local[u].book, daemon.hand, u)
              /\ local'[u].ready => Seen(local'[u].book, u, shown)
              /\ Passes(local'[u].book, daemon'.hand, u, shown)
  <2>1. Passes(local'[u].book, daemon'.hand, u, shown) BY <1>1, <1>9 DEF Passes
  <2>2. CASE u = t
    <3>1. Updated(local'[u].book, daemon.hand, u) = Updated(local[u].book, daemon.hand, u)
      BY <1>1, <2>2 DEF Updated
    <3>2. local[t].ready => Seen(b, t, shown)
      <4>1. local[t].ready => Seen(local[t].book, t, shown) BY <1>11 DEF Passing
      <4> QED BY <1>6, <1>8, <4>1 DEF Seen, Sides
    <3> QED BY <1>9, <2>1, <2>2, <3>1, <3>2
  <2>3. CASE u # t
    <3>1. local'[u] = local[u] BY <1>9, <2>3
    <3>2. local[u].ready => Seen(local[u].book, u, shown) BY <1>11 DEF Passing
    <3> QED BY <1>9, <2>1, <3>1, <3>2
  <2> QED BY <2>2, <2>3
<1> QED BY <1>1, <1>5, <1>9, <1>12, <1>13, <1>14, <1>15, HandClean

LEMMA AsksSourced == ASSUME Typed, Sourced, NEW t \in Tokens, ApplyAsks(t) PROVE Sourced'
<1>1. /\ UNCHANGED <<venue, served, wire, cache, shown, bad>>
      /\ daemon.half = {t} /\ daemon'.hand = Rest(t)
  BY AsksChanges
<1>2. /\ daemon.hand.kind = "dump" /\ t \in DOMAIN daemon.hand.books
      /\ local[t].book["bids"] = daemon.hand.books[t]["bids"]
  BY <1>1, HalfIs
<1> DEFINE b == [local[t].book EXCEPT !["asks"] = daemon.hand.books[t]["asks"]]
<1>3. \/ Bad(t, "asks")
      \/ /\ damaged' = damaged \ {t}
         /\ local' = [local EXCEPT ![t] = [ready |-> TRUE, received |-> clock, book |-> b]]
  BY AsksChanges
<1>4. Offered' \/ bad # 0 BY <1>1, OfferedSame
<1>5. SUFFICES ASSUME bad = 0 PROVE Clean' BY <1>1, <1>4 DEF Sourced
<1>6. Clean BY <1>5 DEF Sourced
<1>7. ~Bad(t, "asks") /\ damaged = {} /\ Seen(daemon.hand.books[t], t, shown)
  BY <1>2, <1>6, HandSeen
<1>8. daemon.hand.books[t] \in Books /\ local[t] \in LocalRec /\ local \in [Tokens -> LocalRec]
  BY <1>2, HandBooks DEF Typed, BooksTyped
<1>9. b = daemon.hand.books[t]
  <2>1. /\ local[t].book \in Books /\ b \in Books /\ b["asks"] = daemon.hand.books[t]["asks"]
        /\ b["bids"] = local[t].book["bids"]
    BY <1>8 DEF LocalRec, Books, Sides
  <2> HIDE DEF b
  <2>2. \A s \in Sides : b[s] = daemon.hand.books[t][s] BY <1>2, <2>1 DEF Sides
  <2> QED BY <1>8, <2>1, <2>2 DEF Books
<1> HIDE DEF b
<1>10. /\ local'[t].book = daemon.hand.books[t] /\ local'[t].ready
       /\ \A u \in Tokens : u # t => local'[u] = local[u]
       /\ damaged' = {}
  BY <1>3, <1>7, <1>8, <1>9
<1>11. Undamaged /\ Prepared /\ Passing BY <1>6 DEF Clean
<1>12. \/ Rest(t) = NoFrame
       \/ /\ Rest(t).kind = "dump" /\ Rest(t).bad = daemon.hand.bad
          /\ DOMAIN Rest(t).books = DOMAIN daemon.hand.books \ {t}
          /\ \A u \in DOMAIN daemon.hand.books \ {t} : Rest(t).books[u] = daemon.hand.books[u]
  BY <1>2, RestTyped
<1>13. Pure(daemon'.hand, shown)
  <2>1. Pure(daemon.hand, shown) BY <1>11 DEF Undamaged
  <2>2. CASE Rest(t) = NoFrame BY <1>1, <2>2, NoFramePasses
  <2>3. CASE Rest(t) # NoFrame BY <1>1, <1>2, <1>12, <2>1, <2>3 DEF Pure
  <2> QED BY <2>2, <2>3
<1>14. \A n, u : Seeded(n, u, local, daemon.hand, wire) => Seeded(n, u, local', daemon'.hand, wire)
  <2> SUFFICES ASSUME NEW n, NEW u, Seeded(n, u, local, daemon.hand, wire)
               PROVE  Seeded(n, u, local', daemon'.hand, wire)
    OBVIOUS
  <2>1. CASE u = t BY <1>10, <2>1 DEF Seeded
  <2>2. CASE u # t
    <3>1. Named(Rest(t), u) <=> Named(daemon.hand, u) BY <1>2, <2>2, RestTells
    <3> QED BY <1>1, <1>10, <2>2, <3>1 DEF Seeded
  <2> QED BY <2>1, <2>2
<1>15. /\ \A n, l, h, w : Awaited(daemon'.hand, n, l, h, w)
       /\ \A x, u, sh : Passes(x, daemon'.hand, u, sh)
  <2>1. CASE Rest(t) = NoFrame BY <1>1, <2>1, NoFramePasses
  <2>2. CASE Rest(t) # NoFrame
    <3>1. daemon'.hand.kind = "dump" BY <1>1, <1>12, <2>2
    <3> QED BY <3>1 DEF Awaited, Passes
  <2> QED BY <2>1, <2>2
<1>16. ASSUME NEW u \in Tokens
       PROVE  /\ Updated(local'[u].book, daemon'.hand, u) = Updated(local[u].book, daemon.hand, u)
              /\ local'[u].ready => Seen(local'[u].book, u, shown)
  <2>1. CASE u = t
    <3>1. Updated(local[t].book, daemon.hand, t) = daemon.hand.books[t] BY <1>2 DEF Updated
    <3>2. \A x : Updated(x, Rest(t), t) = x
      <4>1. CASE Rest(t) = NoFrame BY <4>1, NoFramePasses
      <4>2. CASE Rest(t) # NoFrame
        <5>1. Rest(t).kind = "dump" /\ t \notin DOMAIN Rest(t).books BY <1>12, <4>2
        <5> QED BY <5>1 DEF Updated
      <4> QED BY <4>1, <4>2
    <3> QED BY <1>1, <1>7, <1>10, <2>1, <3>1, <3>2
  <2>2. CASE u # t
    <3>1. local'[u] = local[u] BY <1>10, <2>2
    <3>2. Updated(local[u].book, Rest(t), u) = Updated(local[u].book, daemon.hand, u)
      BY <1>2, <2>2, RestTells
    <3>3. local[u].ready => Seen(local[u].book, u, shown) BY <1>11 DEF Passing
    <3> QED BY <1>1, <3>1, <3>2, <3>3
  <2> QED BY <2>1, <2>2
<1> QED BY <1>1, <1>6, <1>10, <1>13, <1>14, <1>15, <1>16, HandClean

LEMMA DeltaSourced == ASSUME Typed, Sourced, ApplyChange PROVE Sourced'
<1> DEFINE l == daemon.hand.changes  c == Head(l)  rest == Tail(l)
<1>1. /\ UNCHANGED <<venue, served, wire, cache, shown, bad>>
      /\ daemon.hand.kind = "delta" /\ daemon.hand # NoFrame
  BY DeltaChanges
<1>2. Offered' \/ bad # 0 BY <1>1, OfferedSame
<1>3. SUFFICES ASSUME bad = 0 PROVE Clean' BY <1>1, <1>2 DEF Sourced
<1>4. Clean /\ Undamaged /\ Prepared /\ Passing BY <1>3 DEF Sourced, Clean
<1>5. /\ c \in Changes /\ c.token \in Tokens /\ Len(rest) = Len(l) - 1 /\ Len(l) \in {1, 2}
      /\ (l = <<c>> /\ rest = <<>>) \/ (\E d \in Changes : l = <<c, d>> /\ rest = <<d>>)
  BY <1>1, HeadOfHand DEF Changes
<1>6. \/ /\ Acceptable(c)
         /\ \/ rest = <<>> /\ daemon'.hand = NoFrame
            \/ rest # <<>> /\ daemon'.hand = Delta(rest, daemon.hand.good - 1)
      \/ ~Acceptable(c)
  BY DeltaChanges
<1>7. \/ /\ damaged' = damaged
         /\ local' = [local EXCEPT ![c.token] = [ready |-> TRUE, received |-> clock,
                                book |-> Told(local[c.token].book, <<c>>, c.token)]]
         /\ \A b, u : Updated(Told(b, <<c>>, u), daemon'.hand, u) = Updated(b, daemon.hand, u)
      \/ ~Acceptable(c)
  BY Applies
<1>8. local \in [Tokens -> LocalRec] BY DEF Typed, BooksTyped
<1>9. \A k \in DOMAIN l : l[k].token \in Tokens /\ local[l[k].token].ready
  <2>1. Awaited(daemon.hand, 0, local, daemon.hand, wire) BY <1>4 DEF Prepared
  <2>2. \A t : ~Named(daemon.hand, t) BY <1>1 DEF Named
  <2>3. \A i \in 1..0 : FALSE OBVIOUS
  <2>4. \A t : Seeded(0, t, local, daemon.hand, wire) => t \in Tokens /\ local[t].ready
    BY <2>2, <2>3 DEF Seeded
  <2> QED BY <1>1, <2>1, <2>4 DEF Awaited
<1>10. daemon.hand.good = Len(l) BY <1>1, <1>4 DEF Undamaged, Pure
<1>11. \A u : /\ l[1].token = u => Seen(Told(local[u].book, <<l[1]>>, u), u, shown)
              /\ Len(l) = 2 => (l[2].token = u => Seen(Told(local[u].book, l, u), u, shown))
  <2> SUFFICES ASSUME NEW u
               PROVE  /\ l[1].token = u => Seen(Told(local[u].book, <<l[1]>>, u), u, shown)
                      /\ Len(l) = 2 => (l[2].token = u => Seen(Told(local[u].book, l, u), u, shown))
    OBVIOUS
  <2>1. Len(l) >= 1 /\ 1 \in DOMAIN l /\ (Len(l) = 2 => 2 \in DOMAIN l)
    <3> HIDE DEF l, c, rest
    <3> QED BY <1>5
  <2>2. CASE u \in Tokens
    <3>1. Passes(local[u].book, daemon.hand, u, shown) BY <1>4, <2>2 DEF Passing
    <3> QED BY <1>1, <2>1, <3>1 DEF Passes
  <2>3. CASE u \notin Tokens BY <1>9, <2>1, <2>3
  <2> QED BY <2>2, <2>3
<1> HIDE DEF l, c, rest
<1>12. /\ l[1] = c /\ 1 \in DOMAIN l
       /\ (rest = <<>>) \/ (\E d \in Changes : /\ l = <<c, d>> /\ rest = <<d>> /\ l[2] = d
                                              /\ Len(l) = 2 /\ 2 \in DOMAIN l)
  <2>1. CASE l = <<c>> /\ rest = <<>> BY <2>1
  <2>2. ASSUME NEW d \in Changes, l = <<c, d>>, rest = <<d>>
        PROVE  l[1] = c /\ 1 \in DOMAIN l /\ l[2] = d /\ Len(l) = 2 /\ 2 \in DOMAIN l
    BY <2>2
  <2> QED BY <1>5, <2>1, <2>2
<1>13. Acceptable(c) BY <1>5, <1>9, <1>10, <1>12 DEF Acceptable
<1>14. /\ damaged' = {}
       /\ local' = [local EXCEPT ![c.token] = [ready |-> TRUE, received |-> clock,
                                book |-> Told(local[c.token].book, <<c>>, c.token)]]
  BY <1>4, <1>7, <1>13 DEF Undamaged
<1>15. ASSUME NEW u \in Tokens
       PROVE  /\ local'[u].book = Told(local[u].book, <<c>>, u)
              /\ local[u].ready => local'[u].ready
              /\ local'[u].ready => local[u].ready \/ u = c.token
  <2>1. CASE u = c.token BY <1>8, <1>14, <2>1
  <2>2. CASE u # c.token
    <3>1. local'[u] = local[u] BY <1>8, <1>14, <2>2
    <3>2. Told(local[u].book, <<c>>, u)
            = IF c.token = u THEN Moved(local[u].book, c) ELSE local[u].book
      BY OneTold
    <3>3. Told(local[u].book, <<c>>, u) = local[u].book BY <2>2, <3>2
    <3> QED BY <3>1, <3>3
  <2> QED BY <2>1, <2>2
<1>16. \A n, u : Seeded(n, u, local, daemon.hand, wire) => Seeded(n, u, local', daemon'.hand, wire)
  <2>1. \A t : ~Named(daemon.hand, t) BY <1>1 DEF Named
  <2> QED BY <1>15, <2>1 DEF Seeded
<1>17. \/ daemon'.hand = NoFrame
       \/ \E d \in Changes : /\ l = <<c, d>> /\ l[2] = d /\ Len(l) = 2 /\ 2 \in DOMAIN l
                             /\ daemon'.hand.kind = "delta" /\ daemon'.hand.changes = <<d>>
                             /\ daemon'.hand.good = 1
  <2>1. CASE rest = <<>> BY <1>6, <1>13, <2>1
  <2>2. CASE rest # <<>>
    <3>1. daemon'.hand = Delta(rest, daemon.hand.good - 1) BY <1>6, <1>13, <2>2
    <3>2. daemon'.hand.kind = "delta" /\ daemon'.hand.changes = rest
          /\ daemon'.hand.good = daemon.hand.good - 1
      BY <3>1 DEF Delta
    <3> QED BY <1>10, <1>12, <2>2, <3>2
  <2> QED BY <2>1, <2>2
<1>18. /\ Pure(daemon'.hand, shown) /\ Awaited(daemon'.hand, 0, local', daemon'.hand, wire)
       /\ \A u \in Tokens : Passes(local'[u].book, daemon'.hand, u, shown)
  <2>1. CASE daemon'.hand = NoFrame BY <2>1, NoFramePasses
  <2>2. ASSUME NEW d \in Changes, l = <<c, d>>, l[2] = d, Len(l) = 2, 2 \in DOMAIN l,
               daemon'.hand.kind = "delta", daemon'.hand.changes = <<d>>, daemon'.hand.good = 1
        PROVE  /\ Pure(daemon'.hand, shown) /\ Awaited(daemon'.hand, 0, local', daemon'.hand, wire)
               /\ \A u \in Tokens : Passes(local'[u].book, daemon'.hand, u, shown)
    <3>1. Len(<<d>>) = 1 /\ <<d>>[1] = d /\ DOMAIN <<d>> = {1} OBVIOUS
    <3>2. Pure(daemon'.hand, shown) BY <2>2, <3>1 DEF Pure
    <3>3. d.token \in Tokens /\ local'[d.token].ready BY <1>9, <1>15, <2>2
    <3>4. Awaited(daemon'.hand, 0, local', daemon'.hand, wire)
      BY <2>2, <3>1, <3>3 DEF Awaited, Seeded
    <3>5. ASSUME NEW u \in Tokens PROVE Passes(local'[u].book, daemon'.hand, u, shown)
      <4>1. Told(local'[u].book, <<d>>, u) = Told(local[u].book, l, u)
        BY <1>15, <2>2, TwoTold
      <4>2. d.token = u => Seen(Told(local[u].book, l, u), u, shown) BY <1>11, <2>2
      <4> QED BY <2>2, <3>1, <4>1, <4>2 DEF Passes
    <3> QED BY <3>2, <3>4, <3>5
  <2> QED BY <1>17, <2>1, <2>2
<1>19. ASSUME NEW u \in Tokens
       PROVE  /\ Updated(local'[u].book, daemon'.hand, u) = Updated(local[u].book, daemon.hand, u)
              /\ local'[u].ready => Seen(local'[u].book, u, shown)
  <2>1. Updated(local'[u].book, daemon'.hand, u) = Updated(local[u].book, daemon.hand, u)
    BY <1>7, <1>13, <1>15
  <2>2. CASE u = c.token BY <1>11, <1>12, <1>15, <2>1, <2>2
  <2>3. CASE u # c.token
    <3>0. Told(local[u].book, <<c>>, u) = local[u].book BY <2>3, OneTold
    <3>1. local'[u].book = local[u].book BY <1>15, <3>0
    <3>2. local[u].ready => Seen(local[u].book, u, shown) BY <1>4 DEF Passing
    <3> QED BY <1>15, <2>1, <2>3, <3>1, <3>2
  <2> QED BY <2>2, <2>3
<1> QED BY <1>1, <1>4, <1>14, <1>16, <1>18, <1>19, HandClean

LEMMA ReadSourced == ASSUME Typed, Sourced, Read PROVE Sourced'
<1>1. /\ wire # <<>> /\ wire' = Tail(wire) /\ daemon.hand = NoFrame
      /\ daemon' = [daemon EXCEPT !.hand = Head(wire)]
      /\ UNCHANGED <<venue, served, local, cache, damaged, shown, bad>>
  BY DEF Read, ghosts
<1>2. wire \in Seq(FrameRec) /\ daemon \in DaemonRec BY DEF Typed, VenueTyped, DaemonTyped
<1>3. daemon'.hand = wire[1] BY <1>1, <1>2 DEF DaemonRec
<1>4. Offered' \/ bad # 0 BY <1>1, OfferedSame
<1>5. SUFFICES ASSUME bad = 0 PROVE Clean' BY <1>1, <1>4 DEF Sourced
<1>6. Clean /\ Undamaged /\ Prepared /\ Passing BY <1>5 DEF Sourced, Clean
<1> DEFINE N == Len(wire')
<1>7. /\ N \in Nat /\ Len(wire) = N + 1 /\ 1 \in 1..Len(wire)
      /\ \A n \in 1..N : wire'[n] = wire[n + 1] /\ n + 1 \in 1..Len(wire)
  BY <1>1, <1>2
<1>8. Undamaged' BY <1>1, <1>3, <1>6, <1>7 DEF Undamaged
<1>9. ASSUME NEW n \in 0..N, NEW t, Seeded(n + 1, t, local, NoFrame, wire)
      PROVE  Seeded(n, t, local, wire[1], wire')
  <2>1. CASE local[t].ready BY <1>9, <2>1 DEF Seeded
  <2>2. ASSUME NEW i \in 1..(n + 1), Named(wire[i], t) PROVE Seeded(n, t, local, wire[1], wire')
    <3>1. CASE i = 1 BY <1>9, <2>2, <3>1 DEF Seeded
    <3>2. CASE i # 1
      <4>1. i - 1 \in 1..n /\ i - 1 \in 1..N /\ (i - 1) + 1 = i BY <1>7, <3>2
      <4>2. wire'[i - 1] = wire[i] BY <1>7, <4>1
      <4> QED BY <1>9, <2>2, <4>1, <4>2 DEF Seeded
    <3> QED BY <3>1, <3>2
  <2> QED BY <1>9, <2>1, <2>2, NoFramePasses DEF Seeded
<1>10. Prepared'
  <2>1. Awaited(wire[1], 0, local, wire[1], wire')
    <3>1. Awaited(wire[1], 1 - 1, local, NoFrame, wire) BY <1>1, <1>6, <1>7 DEF Prepared
    <3>2. \A t : Seeded(1 - 1, t, local, NoFrame, wire) => t \in Tokens /\ local[t].ready
      BY NoFramePasses DEF Seeded
    <3>3. \A t : t \in Tokens /\ local[t].ready => Seeded(0, t, local, wire[1], wire') BY DEF Seeded
    <3> QED BY <3>1, <3>2, <3>3 DEF Awaited
  <2>2. ASSUME NEW n \in 1..N PROVE Awaited(wire'[n], n - 1, local, wire[1], wire')
    <3>1. Awaited(wire[n + 1], (n + 1) - 1, local, NoFrame, wire) BY <1>1, <1>6, <1>7 DEF Prepared
    <3>2. n - 1 \in 0..N /\ (n - 1) + 1 = n /\ (n + 1) - 1 = n BY <1>7
    <3>3. \A t : Seeded(n, t, local, NoFrame, wire) => Seeded(n - 1, t, local, wire[1], wire')
      BY <1>9, <3>2
    <3>4. Awaited(wire[n + 1], n, local, NoFrame, wire) BY <3>1, <3>2
    <3> QED BY <1>7, <3>3, <3>4 DEF Awaited
  <2>3. ASSUME NEW t \in served PROVE Seeded(N, t, local, wire[1], wire')
    <3>1. Seeded(N + 1, t, local, NoFrame, wire) BY <1>1, <1>6, <1>7 DEF Prepared
    <3>2. N \in 0..N BY <1>7
    <3> QED BY <1>9, <3>1, <3>2
  <2> QED BY <1>1, <1>3, <2>1, <2>2, <2>3 DEF Prepared
<1>11. ASSUME NEW t \in Tokens
       PROVE  /\ Passes(local[t].book, wire[1], t, shown)
              /\ Shown(local, wire[1], wire', shown, t)
  <2> DEFINE b == local[t].book
  <2>1. Updated(b, NoFrame, t) = b BY NoFramePasses
  <2>2. PICK P : /\ Course(P, b, wire, t)
                 /\ \A n \in 1..Len(wire) : Passes(P[n - 1], wire[n], t, shown)
    BY <1>1, <1>6, <2>1 DEF Passing, Shown
  <2>3. Passes(b, wire[1], t, shown)
    <3>1. Passes(P[1 - 1], wire[1], t, shown) BY <1>7, <2>2
    <3> QED BY <2>2, <3>1 DEF Course
  <2>4. PICK Q : /\ Course(Q, Updated(b, wire[1], t), Tail(wire), t)
                 /\ \A n \in 0..(Len(wire) - 1) : Q[n] = P[n + 1]
    BY <1>1, <1>2, <2>2, CourseRest
  <2>5. ASSUME NEW n \in 1..N PROVE Passes(Q[n - 1], wire'[n], t, shown)
    <3>1. n - 1 \in 0..(Len(wire) - 1) /\ (n - 1) + 1 = n /\ (n + 1) - 1 = n BY <1>7
    <3>2. Q[n - 1] = P[n] BY <2>4, <3>1
    <3>3. Passes(P[(n + 1) - 1], wire[n + 1], t, shown) BY <1>7, <2>2
    <3> QED BY <1>7, <3>1, <3>2, <3>3
  <2> HIDE DEF b
  <2>6. Course(Q, Updated(b, wire[1], t), wire', t) BY <1>1, <2>4
  <2>7. Shown(local, wire[1], wire', shown, t) BY <2>5, <2>6 DEF Shown, b
  <2> QED BY <2>3, <2>7 DEF b
<1>12. Passing' BY <1>1, <1>3, <1>6, <1>11 DEF Passing
<1> QED BY <1>8, <1>10, <1>12 DEF Clean

LEMMA CycleSourced == ASSUME Typed, Sourced, BeginCycle PROVE Sourced'
<1>1. /\ UNCHANGED <<venue, served, wire, local, damaged, shown, bad>>
      /\ daemon' \in {daemon, [daemon EXCEPT !.at = "backoff"]}
  BY DEF BeginCycle, ghosts
<1>2. daemon'.hand = daemon.hand BY <1>1 DEF Typed, DaemonTyped, DaemonRec
<1>3. \A t \in Tokens : cache'[t] = cache[t] \/ cache'[t].book = venue[t] BY DEF BeginCycle
<1>4. Offered' \/ bad # 0
  <2> SUFFICES ASSUME bad = 0 PROVE Offered' OBVIOUS
  <2>1. Offered /\ \A t \in Tokens : Seen(venue[t], t, shown) BY DEF Sourced
  <2> QED BY <1>1, <1>3, <2>1 DEF Offered
<1> QED BY <1>1, <1>2, <1>4, SourcedSame

LEMMA PumpSourced == ASSUME Typed, Sourced, Pump PROVE Sourced'
<1>1. UNCHANGED <<venue, served, wire, daemon, local, damaged, shown, bad>> BY DEF Pump, ghosts
<1>2. \A t \in Tokens : cache'[t] = cache[t] \/ (local[t].ready /\ cache'[t].book = local[t].book)
  <2>1. \A t \in Tokens : cache'[t] = cache[t] \/ (Fresh(t) /\ cache'[t] = Overlay(t)) BY DEF Pump
  <2>2. \A t : Overlay(t).book = local[t].book BY DEF Overlay
  <2> QED BY <2>1, <2>2 DEF Fresh
<1>3. Offered' \/ bad # 0
  <2> SUFFICES ASSUME bad = 0 PROVE Offered' OBVIOUS
  <2>1. Offered /\ \A t \in Tokens : local[t].ready => Seen(local[t].book, t, shown)
    BY DEF Sourced, Clean, Passing
  <2> QED BY <1>1, <1>2, <2>1 DEF Offered
<1> QED BY <1>1, <1>3, SourcedSame

LEMMA SourcedKept == ASSUME Typed, Tracked, Sourced, [Next]_vars PROVE Sourced'
<1>1. Dial \/ ReadTokens => Sourced'
  <2>1. daemon \in DaemonRec BY DEF Typed, DaemonTyped
  <2>2. Dial \/ ReadTokens => /\ daemon'.hand = daemon.hand
                              /\ UNCHANGED <<venue, served, wire, local, cache, damaged, shown, bad>>
    BY <2>1 DEF Dial, ReadTokens, DaemonRec, ghosts
  <2> QED BY <2>2, OfferedSame, SourcedSame
<1>2. Subscribe => Sourced'
  <2> SUFFICES ASSUME Subscribe PROVE Sourced' OBVIOUS
  <2>1. daemon \in DaemonRec /\ daemon.sub \subseteq Tokens
    BY DEF Typed, VenueTyped, DaemonTyped
  <2>2. /\ Serve(daemon.sub) /\ daemon'.hand = daemon.hand
        /\ UNCHANGED <<venue, local, cache, damaged, shown>>
    BY <2>1 DEF Subscribe, DaemonRec
  <2> QED BY <2>1, <2>2, ServeSourced
<1>3. NoticeBreak \/ Deadline \/ Break => Sourced'
  <2>1. daemon \in DaemonRec BY DEF Typed, DaemonTyped
  <2>2. NoticeBreak \/ Deadline \/ Break =>
          /\ served' = {} /\ wire' = <<>> /\ daemon'.hand = daemon.hand
          /\ UNCHANGED <<venue, local, cache, damaged, shown, bad>>
    BY <2>1 DEF NoticeBreak, Deadline, Hangup, Break, DaemonRec, ghosts
  <2> QED BY <2>2, CutSourced
<1>4. Daemon => Sourced'
  BY <1>1, <1>2, <1>3, ReadSourced, BidsSourced, AsksSourced, DeltaSourced DEF Daemon
<1>5. Send => Sourced'
  <2> SUFFICES ASSUME Send PROVE Sourced' OBVIOUS
  <2>1. known \subseteq Tokens BY DEF Typed, VenueTyped
  <2>2. daemon' = daemon /\ UNCHANGED <<venue, local, cache, damaged, shown>> BY DEF Send
  <2>3. CASE Serve(known) BY <2>1, <2>2, <2>3, ServeSourced
  <2>4. CASE UNCHANGED <<served, wire, bad>> BY <2>2, <2>4, OfferedSame, SourcedSame
  <2> QED BY <2>3, <2>4 DEF Send
<1>6. Tick \/ UNCHANGED vars => Sourced'
  <2>1. Tick \/ UNCHANGED vars =>
           UNCHANGED <<venue, served, wire, local, cache, damaged, shown, bad, daemon>>
    BY DEF Tick, vars, ghosts
  <2> QED BY <2>1, OfferedSame, SourcedSame
<1> QED BY <1>3, <1>4, <1>5, <1>6, ChangeSourced, CycleSourced, PumpSourced DEF Next, MainThread

LEMMA TypesAre == Typed => TypeOK
<1> SUFFICES ASSUME Typed PROVE TypeOK OBVIOUS
<1>1. VenueTyped /\ DaemonTyped /\ BooksTyped BY DEF Typed
<1>2. \A f \in ToSet(Frames) : IF f.kind = "dump"
                               THEN DOMAIN f.books \subseteq known /\ DOMAIN f.books # {}
                               ELSE f.good \in 0..Len(f.changes)
  <2> DEFINE h == daemon.hand  s == <<h>> \o wire
  <2>1. wire \in Seq(FrameRec) /\ h \in FrameRec BY <1>1 DEF VenueTyped, DaemonTyped, DaemonRec
  <2>2. /\ s \in Seq(FrameRec) /\ Len(s) = Len(wire) + 1 /\ Len(wire) \in Nat /\ s[1] = h
        /\ \A i \in 1..Len(wire) : s[i + 1] = wire[i]
    <3> HIDE DEF h
    <3> QED BY <2>1 DEF h
  <2>3. \A i \in 1..Len(s) : Fits(s[i], known)
    <3> SUFFICES ASSUME NEW i \in 1..Len(s) PROVE Fits(s[i], known) OBVIOUS
    <3> HIDE DEF s, h
    <3>1. CASE i = 1 BY <1>1, <2>2, <3>1 DEF DaemonTyped, h
    <3>2. CASE i # 1
      <4>1. i - 1 \in 1..Len(wire) /\ (i - 1) + 1 = i BY <2>2, <3>2
      <4>2. s[i] = wire[i - 1] BY <2>2, <4>1
      <4> QED BY <1>1, <4>1, <4>2 DEF VenueTyped
    <3> QED BY <3>1, <3>2
  <2> HIDE DEF s
  <2>4. ASSUME NEW f \in ToSet(s) PROVE Fits(f, known)
    <3>1. PICK i \in DOMAIN s : f = s[i] BY DEF ToSet
    <3>2. DOMAIN s = 1..Len(s) BY <2>2
    <3> QED BY <2>3, <3>1, <3>2
  <2>5. s = Frames BY DEF s, Frames
  <2> QED BY <2>4, <2>5 DEF Fits
<1>3. local \in [Tokens -> [ready : BOOLEAN, book : Books, received : 0..clock]]
  <2>1. local \in [Tokens -> LocalRec] /\ clock \in Nat
        /\ \A t \in Tokens : local[t].received <= clock
    BY <1>1 DEF BooksTyped
  <2>2. \A t \in Tokens : local[t] \in [ready : BOOLEAN, book : Books, received : 0..clock]
    BY <2>1 DEF LocalRec
  <2> QED BY <2>1, <2>2
<1>4. cache \in [Tokens -> [book : Books, fetched : 0..clock, seen : 0..clock]]
  <2>1. cache \in [Tokens -> CacheRec] /\ clock \in Nat
        /\ \A t \in Tokens : cache[t].fetched <= clock /\ cache[t].seen <= clock
    BY <1>1 DEF BooksTyped
  <2>2. \A t \in Tokens : cache[t] \in [book : Books, fetched : 0..clock, seen : 0..clock]
    BY <2>1 DEF CacheRec
  <2> QED BY <2>1, <2>2
<1>5. daemon.at \in {"none", "backoff", "dialed", "subscribing", "reading"}
  BY <1>1 DEF DaemonTyped, DaemonRec, Places
<1> QED BY <1>1, <1>2, <1>3, <1>4, <1>5 DEF TypeOK, VenueTyped, DaemonTyped, BooksTyped

LEMMA OffersSeen == Typed /\ Sourced => CachedFromVenue
  BY DEF Sourced, Offered, Seen, CachedFromVenue

(* What the two threads leave behind is of its kind, and as long as no frame is lost or does  *)
(* not parse, every side the cache offers has been a side of the venue's book: not of a      *)
(* mixture of two of its states, though the pump may read a book that is half replaced       *)
(* (src/local_order_book.py, src/_r_cycle.py:641).                                           *)
THEOREM BooksAlwaysSound == Spec => []BooksSound
<1>1. Tracked /\ Typed /\ [Next]_vars => Tracked' BY TrackedKept
<1>2. Sourced /\ Tracked /\ Typed /\ [Next]_vars => Sourced' BY SourcedKept
<1>3. Typed /\ Sourced => BooksSound BY TypesAre, OffersSeen DEF BooksSound
<1> QED BY <1>1, <1>2, <1>3, TrackedInit, SourcedInit, AlwaysTyped, PTL DEF Spec
=============================================================================
