----------------------------- MODULE MarketFeed -----------------------------
(***************************************************************************)
(* The market feed: the WebSocket daemon (src/market_ws_transport.py) that *)
(* applies the venue's frames to local order books                         *)
(* (src/websocket_market_data.py, src/local_order_book.py), and the main   *)
(* thread that grows the subscription (src/ws_bridge.py) and overlays the  *)
(* fresh books on the ladder cache it also fills by REST (src/_r_cycle.py).*)
(*                                                                         *)
(* The two threads share the stream's books, its token list and the socket *)
(* with no lock between them; a step here is what runs between two points  *)
(* where the other thread can observe a difference.                        *)
(*                                                                         *)
(* A side of a book is the set of price levels that show size.             *)
(***************************************************************************)
EXTENDS Integers, SequencesExt

CONSTANTS
    Tokens,
    Rules,      \* the sets of tokens the rules of a cycle can name
    Levels,     \* price levels
    FirstBook,  \* what the venue shows of every token at the start
    Deltas,     \* the changes a price_change can tell
    MaxAge,     \* max_age_s of _ws_pump
    MaxClock,   \* bound: ticks of the clock
    MaxChanges, \* bound: batches of changes at the venue
    MaxFaults   \* bound: connections broken by the network, frames lost or malformed

Sides == {"bids", "asks"}
Books == [Sides -> SUBSET Levels]
Changes == [token : Tokens, side : Sides, level : Levels, on : BOOLEAN]

ASSUME ConstantsAssumption ==
    /\ Rules \subseteq (SUBSET Tokens) \ {{}}
    /\ FirstBook \in Books /\ Deltas \subseteq Changes
    /\ {MaxAge, MaxClock, MaxChanges, MaxFaults} \subseteq Nat

VARIABLES
    venue,      \* the books at the venue
    served,     \* tokens the venue streams on the present connection
    link,       \* the connection: closed, open, or broken and not yet noticed
    wire,       \* frames sent by the venue, not yet read
    daemon,     \* the transport thread: where it is, and the message it is about to send
    known,      \* stream.books' keys and stream.token_ids
    local,      \* stream.books
    main,       \* where the main thread is
    cache,      \* book_cache()
    clock,
    damaged,    \* history: tokens a bad frame has hit since their last baseline
    shown,      \* history: every side the venue has shown
    changes, breaks, bad

ghosts == <<damaged, shown, changes, breaks, bad>>
vars   == <<venue, served, link, wire, daemon, known, local, main, cache, clock, ghosts>>

-----------------------------------------------------------------------------
NoBook == [s \in Sides |-> {}]

(* The venue's own book after one change. *)
Moved(book, c) ==
    [book EXCEPT ![c.side] = IF c.on THEN @ \union {c.level} ELSE @ \ {c.level}]

(* A frame is the list of books that answers a subscription, or one price_change.  bad says *)
(* which sides of a list do not parse; good, how many elements of a price_change do.  A     *)
(* price_change with no good element is also one that never arrives.                        *)
Dump(ts, b)  == [kind |-> "dump",  books |-> [t \in ts |-> venue[t]], bad |-> b]
Delta(cs, n) == [kind |-> "delta", changes |-> cs, good |-> n]
NoFrame      == Delta(<<>>, 0)

Frames == <<daemon.hand>> \o wire   \* received by this side or on their way

Init ==
    /\ venue = [t \in Tokens |-> FirstBook]
    /\ served = {} /\ link = "closed" /\ wire = <<>>
    /\ daemon = [at |-> "none", sub |-> {}, hand |-> NoFrame, half |-> {}]
    /\ known = {}
    /\ local = [t \in Tokens |-> [ready |-> FALSE, book |-> NoBook, received |-> 0]]
    /\ main = "idle"
    /\ cache = [t \in Tokens |-> [book |-> NoBook, fetched |-> 0, seen |-> 0]]
    /\ clock = 1
    /\ damaged = {}
    /\ shown = [t \in Tokens |-> [s \in Sides |-> {FirstBook[s]}]]
    /\ changes = 0 /\ breaks = 0 /\ bad = 0

-----------------------------------------------------------------------------
(* The venue and the network.                                              *)

Flips == {c \in Deltas : c.on # (c.level \in venue[c.token][c.side])}

Batches == {<<c>> : c \in Flips} \union {cd \in Flips \X Flips : cd[1] # cd[2]}

(* What the one or two changes of a batch make of the book of a token. *)
Told(book, batch, t) ==
    LET next(b, c) == IF c.token = t THEN Moved(b, c) ELSE b
    IN  IF batch = <<>> THEN book
        ELSE IF Len(batch) = 1 THEN next(book, batch[1])
        ELSE next(next(book, batch[1]), batch[2])

(* The changes of a batch that concern a token the venue serves. *)
Heard(batch) ==
    LET ears == {i \in DOMAIN batch : batch[i].token \in served}
    IN  IF ears = {} THEN <<>>
        ELSE IF ears = DOMAIN batch THEN batch
        ELSE <<batch[CHOOSE i \in ears : TRUE]>>

(* One or two changes, and the price_change frame that tells those it serves. *)
Change(batch) ==
    LET heard == Heard(batch) IN
    /\ changes < MaxChanges /\ changes' = changes + 1
    /\ venue' = [t \in Tokens |-> Told(venue[t], batch, t)]
    /\ shown' = [t \in Tokens |-> [s \in Sides |->
                    shown[t][s] \union {Told(venue[t], <<batch[1]>>, t)[s], venue'[t][s]}]]
    /\ \E n \in 0..Len(heard) :
        /\ bad' = IF n < Len(heard) THEN bad + 1 ELSE bad
        /\ breaks + bad' <= MaxFaults
        /\ wire' = IF heard = <<>> THEN wire ELSE Append(wire, Delta(heard, n))
    /\ UNCHANGED <<served, link, daemon, known, local, main, cache, clock, damaged, breaks>>

Break ==
    /\ link = "open" /\ breaks + bad < MaxFaults /\ breaks' = breaks + 1
    /\ link' = "broken" /\ wire' = <<>> /\ served' = {}
    /\ UNCHANGED <<venue, daemon, known, local, main, cache, clock, damaged, shown, changes, bad>>

(* A subscription message reaches the venue: it answers with the books of all its tokens. *)
Serve(ts) ==
    \E b \in {{}} \union {{x} : x \in ts \X Sides} :
        /\ bad' = bad + Cardinality(b) /\ breaks + bad' <= MaxFaults
        /\ served' = served \union ts
        /\ wire' = Append(wire, Dump(ts, b))

-----------------------------------------------------------------------------
(* The transport thread.                                                   *)

(* Proxy, TLS and upgrade succeed; an attempt that fails changes nothing. *)
Dial ==
    /\ daemon.at = "backoff"
    /\ link' = "open"
    /\ daemon' = [daemon EXCEPT !.at = "dialed"]
    /\ UNCHANGED <<venue, served, wire, known, local, main, cache, clock, ghosts>>

ReadTokens ==
    /\ daemon.at = "dialed"
    /\ daemon' = [daemon EXCEPT !.at = "subscribing", !.sub = known]
    /\ UNCHANGED <<venue, served, link, wire, known, local, main, cache, clock, ghosts>>

Subscribe ==
    /\ daemon.at = "subscribing" /\ link = "open"
    /\ Serve(daemon.sub)
    /\ daemon' = [daemon EXCEPT !.at = "reading", !.sub = {}]
    /\ UNCHANGED <<venue, link, known, local, main, cache, clock, damaged, shown, changes, breaks>>

(* run_once ends: close_socket, then the back-off.  The books are left as they are. *)
Hangup ==
    /\ link' = "closed" /\ wire' = <<>> /\ served' = {}
    /\ daemon' = [daemon EXCEPT !.at = "backoff", !.sub = {}]
    /\ UNCHANGED <<venue, known, local, main, cache, clock, ghosts>>

(* Mutant: a broken connection ends the thread. *)
NoticeBreak_Dies ==
    /\ daemon.at \in {"subscribing", "reading"} /\ daemon.hand = NoFrame /\ link = "broken"
    /\ link' = "closed" /\ daemon' = [daemon EXCEPT !.at = "stopped"]
    /\ UNCHANGED <<venue, served, wire, known, local, main, cache, clock, ghosts>>

NoticeBreak == daemon.at \in {"subscribing", "reading"} /\ daemon.hand = NoFrame
               /\ link = "broken" /\ Hangup

(* The hour of run_once(3600) is over, or nothing came for read_timeout (a socket.timeout,    *)
(* which is an OSError); what came in before has been read.                                   *)
Deadline == daemon.at = "reading" /\ daemon.hand = NoFrame /\ link = "open" /\ wire = <<>>
            /\ Hangup

Read ==
    /\ daemon.at = "reading" /\ daemon.hand = NoFrame /\ wire # <<>>
    /\ daemon' = [daemon EXCEPT !.hand = Head(wire)]
    /\ wire' = Tail(wire)
    /\ UNCHANGED <<venue, served, link, known, local, main, cache, clock, ghosts>>

(* The rest of the frame in hand; NoFrame once all of it is applied or dropped. *)
Rest(t) == LET ts == DOMAIN daemon.hand.books \ {t} IN
           IF ts = {} THEN NoFrame
                      ELSE [daemon.hand EXCEPT !.books = [u \in ts |-> daemon.hand.books[u]]]
Bad(t, s) == <<t, s>> \in daemon.hand.bad

(* apply_book: the bids are replaced before the asks are parsed. *)
ApplyBids(t) ==
    /\ daemon.hand.kind = "dump" /\ t \in DOMAIN daemon.hand.books /\ daemon.half = {}
    /\ IF Bad(t, "bids")
       THEN /\ daemon' = [daemon EXCEPT !.hand = Rest(t)]
            /\ damaged' = damaged \union {t}
            /\ UNCHANGED local
       ELSE /\ daemon' = [daemon EXCEPT !.half = {t}]
            /\ local' = [local EXCEPT ![t].book.bids = daemon.hand.books[t].bids]
            /\ UNCHANGED damaged
    /\ UNCHANGED <<venue, served, link, wire, known, main, cache, clock, shown, changes, breaks, bad>>

(* Mutant: the new asks are added to the old ones. *)
ApplyAsks_Merged(t) ==
    /\ daemon.half = {t}
    /\ daemon' = [daemon EXCEPT !.hand = Rest(t), !.half = {}]
    /\ local' = [local EXCEPT ![t] = [ready |-> TRUE, received |-> clock,
                        book |-> [@.book EXCEPT !.asks = @ \union daemon.hand.books[t].asks]]]
    /\ damaged' = damaged \ {t}
    /\ UNCHANGED <<venue, served, link, wire, known, main, cache, clock, shown, changes, breaks, bad>>

ApplyAsks(t) ==
    /\ daemon.half = {t}
    /\ daemon' = [daemon EXCEPT !.hand = Rest(t), !.half = {}]
    /\ IF Bad(t, "asks")
       THEN damaged' = damaged \union {t} /\ UNCHANGED local
       ELSE /\ local' = [local EXCEPT ![t] = [ready |-> TRUE, received |-> clock,
                                    book |-> [@.book EXCEPT !.asks = daemon.hand.books[t].asks]]]
            /\ damaged' = damaged \ {t}
    /\ UNCHANGED <<venue, served, link, wire, known, main, cache, clock, shown, changes, breaks, bad>>

(* Mutant: a level of size zero stays in the book. *)
Applied_KeepsEmpty(book, c) ==
    IF c.on THEN [book EXCEPT ![c.side] = @ \union {c.level}] ELSE book

(* apply_price_change: a size of zero removes the level. *)
Applied(book, c) ==
    IF c.on THEN [book EXCEPT ![c.side] = @ \union {c.level}]
            ELSE [book EXCEPT ![c.side] = @ \ {c.level}]

(* Mutant: an element that does not parse is applied all the same. *)
(* One element of a price_change; an error drops it and all those behind it. *)
Acceptable(c) == daemon.hand.good > 0 /\ local[c.token].ready

ApplyChange ==
    /\ daemon.hand.kind = "delta" /\ daemon.hand # NoFrame
    /\ LET c == Head(daemon.hand.changes)
           rest == Tail(daemon.hand.changes) IN
       IF Acceptable(c)
       THEN /\ local' = [local EXCEPT ![c.token] =
                            [ready |-> TRUE, book |-> Applied(@.book, c), received |-> clock]]
            /\ daemon' = [daemon EXCEPT !.hand =
                            IF rest = <<>> THEN NoFrame ELSE Delta(rest, @.good - 1)]
            /\ UNCHANGED damaged
       ELSE /\ damaged' = damaged \union {x.token : x \in ToSet(daemon.hand.changes)}
            /\ daemon' = [daemon EXCEPT !.hand = NoFrame]
            /\ UNCHANGED local
    /\ UNCHANGED <<venue, served, link, wire, known, main, cache, clock, shown, changes, breaks, bad>>

Daemon == \/ Dial \/ ReadTokens \/ Subscribe \/ NoticeBreak \/ Read
          \/ \E t \in Tokens : ApplyBids(t) \/ ApplyAsks(t)
          \/ ApplyChange

-----------------------------------------------------------------------------
(* The main thread: one pass per cycle.                                    *)

(* refresh_books, for the tokens due that answer with a book that is not empty; then the    *)
(* bridge's start in the first cycle, or ensure_tokens: the stream's token list grows before *)
(* a message is built, and a message is built only if it grew.                               *)
BeginCycle ==
    /\ main = "idle"
    /\ \E wanted \in Rules : \E answered \in SUBSET wanted :
        /\ cache' = [t \in Tokens |->
                        IF t \in answered /\ venue[t] # NoBook
                        THEN [book |-> venue[t], fetched |-> clock, seen |-> clock]
                        ELSE cache[t]]
        /\ known' = known \union wanted
        /\ IF daemon.at = "none"
           THEN daemon' = [daemon EXCEPT !.at = "backoff"] /\ main' = "pump"
           ELSE UNCHANGED daemon /\ main' = IF known' = known THEN "pump" ELSE "send"
    /\ UNCHANGED <<venue, served, link, wire, local, clock, ghosts>>

(* Mutant: new tokens are sent only while the daemon reads. *)
Send_WhenReading ==
    /\ main = "send" /\ main' = "pump"
    /\ IF link = "open" /\ daemon.at = "reading" THEN Serve(known) ELSE UNCHANGED <<served, wire, bad>>
    /\ UNCHANGED <<venue, link, daemon, known, local, cache, clock, damaged, shown, changes, breaks>>

(* send_text on the socket, if there is one; an error is swallowed. *)
Send ==
    /\ main = "send" /\ main' = "pump"
    /\ IF link = "open" THEN Serve(known) ELSE UNCHANGED <<served, wire, bad>>
    /\ UNCHANGED <<venue, link, daemon, known, local, cache, clock, damaged, shown, changes, breaks>>

(* Mutant: the age is not looked at. *)
Fresh_Ready(t) == local[t].ready

Fresh(t) == local[t].ready /\ clock - local[t].received <= MaxAge

(* The ladder of a WebSocket snapshot has no fetched_at_epoch: it gets the overlay's time. *)
Overlay(t) == [book |-> local[t].book, fetched |-> clock, seen |-> local[t].received]

(* _ws_pump.  It reads the books one after the other; as nothing relates the ladders of two *)
(* tokens, one step reads them all, a book the daemon has half replaced included.           *)
Pump ==
    /\ main = "pump" /\ main' = "idle"
    /\ cache' = [t \in Tokens |->
                    IF /\ t \in known /\ Fresh(t) /\ local[t].book # NoBook
                       /\ Overlay(t).fetched >= cache[t].fetched
                    THEN Overlay(t) ELSE cache[t]]
    /\ UNCHANGED <<venue, served, link, wire, daemon, known, local, clock, ghosts>>

MainThread == BeginCycle \/ Send \/ Pump

Tick ==
    /\ clock < MaxClock /\ clock' = clock + 1
    /\ UNCHANGED <<venue, served, link, wire, daemon, known, local, main, cache, ghosts>>

-----------------------------------------------------------------------------
Next == \/ \E batch \in Batches : Change(batch)
        \/ Break \/ Daemon \/ Deadline \/ MainThread \/ Tick

Spec == Init /\ [][Next]_vars

(* Both threads run in endless loops, and an hour passes on every connection that lasts. *)
FairSpec == Spec /\ WF_vars(Daemon) /\ WF_vars(Deadline) /\ WF_vars(MainThread)

-----------------------------------------------------------------------------
(* The types of the two threads' state, and that a frame in hand has elements left. *)
TypeOK ==
    /\ venue \in [Tokens -> Books] /\ served \subseteq known /\ known \subseteq Tokens
    /\ link \in {"closed", "open", "broken"}
    /\ daemon.at \in {"none", "backoff", "dialed", "subscribing", "reading"}
    /\ daemon.sub \subseteq known /\ daemon.half \subseteq known
    /\ \A f \in ToSet(Frames) : IF f.kind = "dump"
                                THEN DOMAIN f.books \subseteq known /\ DOMAIN f.books # {}
                                ELSE f.good \in 0..Len(f.changes)
    /\ local \in [Tokens -> [ready : BOOLEAN, book : Books, received : 0..clock]]
    /\ main \in {"idle", "send", "pump"}
    /\ cache \in [Tokens -> [book : Books, fetched : 0..clock, seen : 0..clock]]
    /\ damaged \subseteq Tokens

(* What a frame makes of the local book of a token, ...  *)
Updated(book, f, t) ==
    IF f.kind = "dump" THEN IF t \in DOMAIN f.books THEN f.books[t] ELSE book
                       ELSE Told(book, f.changes, t)

(* ... once one frame after the other is. *)
After(book, frames, t) ==
    LET after[n \in 0..Len(frames)] ==
            IF n = 0 THEN book ELSE Updated(after[n - 1], frames[n], t)
    IN  after[Len(frames)]

Replayed(t) == After(local[t].book, Frames, t)

Hits(f, t) == IF f.kind = "dump" THEN t \in {x[1] : x \in f.bad}
              ELSE f.good < Len(f.changes) /\ t \in {c.token : c \in ToSet(f.changes)}
Intact(t)  == t \notin damaged /\ \A f \in ToSet(Frames) : ~Hits(f, t)

(* Local books track the venue: for every token the connection serves and no bad frame has   *)
(* hit, the book plus what is still to be read is the venue's book, across reconnects and    *)
(* in the middle of a frame (apply_book, apply_price_change, the dump after a subscription). *)
FeedConsistent == \A t \in served : Intact(t) => Replayed(t) = venue[t]

(* A side the cache offers has been a side of the venue's book: the pump never mixes levels  *)
(* of two states within a side, though the two sides may be of different moments.            *)
CachedFromVenue ==
    bad = 0 => \A t \in Tokens, s \in Sides :
                    cache[t].fetched > 0 => cache[t].book[s] \in shown[t][s]

(* What the daemon and the pump leave behind is of its kind and was the venue's.             *)
BooksSound == TypeOK /\ CachedFromVenue

(* The overlay stamps a ladder with its own time; the stamp is at most MaxAge too young.     *)
StampHonest == \A t \in Tokens : cache[t].fetched - cache[t].seen <= MaxAge

(* ensure_tokens against a dial in progress: once the daemon reads, every token the stream   *)
(* knows is in one of the subscriptions sent on this connection.                             *)
NoTokenMissed ==
    daemon.at = "reading" /\ link = "open" /\ main # "send" => known \subseteq served

(* "self-reconnects ... and re-seeds so local books re-baseline instead of decaying": once   *)
(* the venue rests and the faults are over, every known book is ready and the venue's.       *)
BooksConverge == <>[](\A t \in known : local[t].ready /\ local[t].book = venue[t])
=============================================================================
