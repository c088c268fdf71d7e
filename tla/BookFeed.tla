-------------------------------- MODULE BookFeed --------------------------------
(***************************************************************************)
(* The bids of one asset on their way from the exchange to the trade       *)
(* server: the WebSocket delivers price changes and whole books, the       *)
(* parser puts them in two broadcast channels, RedisOrderbookPublisher     *)
(* drains both and publishes to Redis (buffering the price changes it      *)
(* cannot publish), and the trade server's OrderbookTracker rebuilds the   *)
(* book from what arrives.  Nothing in the chain compares timestamps.      *)
(*                                                                         *)
(* Price changes carry a number, the order the exchange made them in.  The *)
(* asks are handled by the same code, with the order of prices reversed.   *)
(***************************************************************************)
EXTENDS Integers, Sequences, SequencesExt, FiniteSetsExt, Functions, Option

CONSTANTS
    Prices,         \* prices of a bid; 0 stands for "no bid"
    Sizes,          \* sizes of a level that is not empty
    MaxChanges,     \* bound: price changes the exchange makes
    MaxStream,      \* bound: events in Redis at once
    ChannelSize,    \* capacity of a broadcast channel, 1000 in the code
    BufferMaxSize,  \* BUFFER_MAX_SIZE
    FlushRateLimit  \* FLUSH_RATE_LIMIT

ASSUME BookFeedAssumption ==
    /\ Prices \subseteq Nat \ {0} /\ IsFiniteSet(Prices)
    /\ Sizes \subseteq Nat \ {0}
    /\ {ChannelSize, BufferMaxSize, FlushRateLimit} \subseteq Nat \ {0}
    /\ MaxChanges \in Nat /\ MaxStream \in Nat

\* What the tracker can hold: the price 0 and a size of 0 come from aligning.
Levels == UNION {[ps -> Sizes \cup {0}] : ps \in SUBSET (Prices \cup {0})}

ASSUME NoBookAssumption == None \notin Nat /\ None \notin Levels

VARIABLES
    history,       \* the exchange's bids, from the first to the present ones
    subscribed,    \* is a WebSocket connected?
    priceChanges,  \* broadcast channel of price changes
    books,         \* broadcast channel of books
    buffer,        \* the publisher's buffer
    stream,        \* events in Redis that the trade server has not read
    tracked,       \* the tracker's levels, or None before a snapshot
    following,     \* history variable: if the tracker got a book and then all
                   \* the changes after it up to this one, some of them again
                   \* before the next, that number, or None
    over           \* history variable: the changes the trade server has read or
                   \* that were given up on the way

bookVars == <<history, subscribed, priceChanges, books, buffer, stream, tracked,
              following, over>>

Changes == Len(history) - 1
Bids == Last(history)

Best(levels) == Max(DOMAIN levels \cup {0})

BookInit ==
    /\ history = <<[p \in {} |-> 0]>>
    /\ subscribed = FALSE
    /\ priceChanges = <<>> /\ books = <<>> /\ buffer = <<>> /\ stream = <<>>
    /\ tracked = None
    /\ following = None
    /\ over = {}

-------------------------------------------------------------------------------
(* The exchange and the WebSocket *)

WithoutLevel(levels, price) == Restrict(levels, DOMAIN levels \ {price})

\* A size of 0 removes the level.
WithLevel(levels, price, size) ==
    IF size = 0 THEN WithoutLevel(levels, price)
    ELSE [p \in DOMAIN levels \cup {price} |-> IF p = price THEN size ELSE levels[p]]

Numbers(events) == {e.number : e \in Range(events)}

\* Sending to a full broadcast channel overwrites the oldest event, and the
\* receiver's next recv returns Lagged.
Broadcast(channel, event) ==
    IF Len(channel) = ChannelSize THEN Append(Tail(channel), event)
                                  ELSE Append(channel, event)

\* A change made while no WebSocket is connected is never sent.
Announce(levels, price, size) ==
    LET number == Changes + 1
        change == [kind |-> "update", number |-> number, price |-> price,
                   size |-> size, best |-> Best(levels)]
    IN  /\ Changes < MaxChanges
        /\ history' = Append(history, levels)
        /\ priceChanges' = IF subscribed THEN Broadcast(priceChanges, change)
                                         ELSE priceChanges
        /\ over' = over \cup (({number} \cup Numbers(priceChanges))
                                    \ Numbers(priceChanges'))
        /\ UNCHANGED <<subscribed, books, buffer, stream, tracked, following>>

ChangeBid(price, size) ==
    /\ size # (IF price \in DOMAIN Bids THEN Bids[price] ELSE 0)
    /\ Announce(WithLevel(Bids, price, size), price, size)

\* A change of an ask tells the best bid too.
ChangeAsk == Announce(Bids, None, 0)

SendBook ==
    books' = Broadcast(books, [kind |-> "book", number |-> Changes, levels |-> Bids])

\* The exchange sends the whole book when a client subscribes and now and then.
SendsBook ==
    /\ subscribed
    /\ SendBook
    /\ UNCHANGED <<history, subscribed, priceChanges, buffer, stream, tracked,
                   following, over>>

\* The app aborts the WebSocket when the markets change.  The parser and the
\* publisher go on with what they have.
AbortWebSocket ==
    /\ subscribed
    /\ subscribed' = FALSE
    /\ UNCHANGED <<history, priceChanges, books, buffer, stream, tracked, following,
                   over>>

\* The connection ends, a ping or the health check fails: exit(1) ends the process,
\* and with it the channels and the buffer.  A shutdown ends it too; its publisher
\* may flush once or twice (FlushTick) before app.rs aborts it.
EndProcess ==
    /\ subscribed' = FALSE
    /\ priceChanges' = <<>> /\ books' = <<>> /\ buffer' = <<>>
    /\ over' = over \cup Numbers(priceChanges) \cup Numbers(buffer)
    /\ UNCHANGED <<history, stream, tracked, following>>

\* The app opens the next WebSocket, or the process is started again.
Connect ==
    /\ ~subscribed
    /\ subscribed' = TRUE
    /\ SendBook
    /\ UNCHANGED <<history, priceChanges, buffer, stream, tracked, following,
                   over>>

-------------------------------------------------------------------------------
(* RedisOrderbookPublisher *)

\* publish_market_event: our Redis target takes the event ("published"), only
\* another one does ("elsewhere", which counts as a success), none does, or ours
\* did and the reply was lost ("doubted", which counts as a failure).
Outcomes == {"published", "elsewhere", "failed", "doubted"}

Taken(outcome) == outcome \in {"published", "doubted"}
Fails(outcome) == outcome \in {"failed", "doubted"}

\* flush_buffer publishes up to FLUSH_RATE_LIMIT buffered events and stops at the
\* first failure: n of them leave the buffer, and ours missed the numbers in lost.
Flushable == 0 .. Min({Len(buffer), FlushRateLimit})

\* How many were sent: the one the flush stopped at may have been taken too.
Sent(n) == {n, n + 1} \cap Flushable

Kept(events, lost) ==
    LET upto[i \in 0 .. Len(events)] ==
            IF i = 0 THEN <<>>
            ELSE IF events[i].number \in lost THEN upto[i - 1]
            ELSE Append(upto[i - 1], events[i])
    IN  upto[Len(events)]

Flushed(sent, lost) == Kept(SubSeq(buffer, 1, sent), lost)

\* A flush that forgets the event it could not publish.
Remaining_Popped(n) == SubSeq(buffer, n + 2, Len(buffer))

\* It is put back in front of the others.
Remaining(n) == SubSeq(buffer, n + 1, Len(buffer))

\* A buffer without a limit.
Buffered_Unlimited(events, event) == Append(events, event)

\* The oldest event makes room for a new one.
Buffered(events, event) ==
    Append(IF Len(events) >= BufferMaxSize THEN Tail(events) ELSE events, event)

\* The publisher takes a price change: it flushes the buffer first, then tries to
\* publish the change whether or not the flush got through.
PublishPriceChange(n, sent, lost, outcome) ==
    LET change == Head(priceChanges)
        left   == Remaining(n)
    IN  /\ priceChanges # <<>>
        /\ Len(stream) + sent < MaxStream
        /\ stream' = stream \o Flushed(sent, lost)
                            \o (IF Taken(outcome) THEN <<change>> ELSE <<>>)
        /\ buffer' = IF Fails(outcome) THEN Buffered(left, change) ELSE left
        /\ priceChanges' = Tail(priceChanges)
        /\ over' = over \cup lost
                \cup (IF outcome = "elsewhere" THEN {change.number} ELSE {})
                \cup (IF Fails(outcome) /\ Len(left) >= BufferMaxSize
                      THEN {Head(left).number} ELSE {})
        /\ UNCHANGED <<history, subscribed, books, tracked, following>>

\* The publisher takes a book.  One it cannot publish is not buffered.
PublishBook(outcome) ==
    /\ books # <<>>
    /\ Len(stream) < MaxStream
    /\ stream' = IF Taken(outcome) THEN Append(stream, Head(books)) ELSE stream
    /\ books' = Tail(books)
    /\ UNCHANGED <<history, subscribed, priceChanges, buffer, tracked, following,
                   over>>

\* The flush ticker, and each flush of a shutdown.
FlushTick(n, sent, lost) ==
    /\ sent > 0
    /\ Len(stream) + sent <= MaxStream
    /\ stream' = stream \o Flushed(sent, lost)
    /\ buffer' = Remaining(n)
    /\ over' = over \cup lost
    /\ UNCHANGED <<history, subscribed, priceChanges, books, tracked,
                   following>>

-------------------------------------------------------------------------------
(* The trade server *)

\* An alignment that drops the best level too.
Aligned_DropsBest(levels, best) ==
    LET kept == Restrict(levels, {p \in DOMAIN levels : p < best})
    IN  IF kept = << >> THEN (best :> 0)
        ELSE WithoutLevel(kept, Best(kept)) @@ (best :> kept[Best(kept)])

\* align_best_level drops the levels above the best bid the update names and, when
\* none is left at that price, moves the top level there.
Aligned(levels, best) ==
    LET kept == Restrict(levels, {p \in DOMAIN levels : p <= best})
        top  == Best(kept)
    IN  IF best \in DOMAIN kept THEN kept
        ELSE IF DOMAIN kept = {} THEN [p \in {best} |-> 0]
        ELSE [p \in (DOMAIN kept \ {top}) \cup {best} |->
                IF p = best THEN kept[top] ELSE kept[p]]

\* apply_update: the level is set, inserted or removed, then the best is aligned.
Updated(levels, update) ==
    Aligned(IF update.price = None THEN levels
            ELSE WithLevel(levels, update.price, update.size), update.best)

\* A snapshot that leaves the levels it does not name.
Replaced_Merged(levels, book) ==
    IF levels = None THEN book.levels ELSE book.levels @@ levels

\* apply_snapshot replaces what was tracked.
Replaced(levels, book) == book.levels

\* The trade server takes the next event: process_event drops it when it is
\* older than max_latency_ms, else process_orderbook_events applies it.  An
\* update of an asset without a snapshot is ignored.
Receive(stale) ==
    LET event == Head(stream)
    IN  /\ stream # <<>>
        /\ stream' = Tail(stream)
        /\ tracked' = IF stale THEN tracked
                      ELSE IF event.kind = "book" THEN Replaced(tracked, event)
                      ELSE IF tracked = None THEN None
                      ELSE Updated(tracked, event)
        /\ following' =
              IF stale THEN following
              ELSE IF event.kind = "book" THEN event.number
              ELSE IF following # None /\ event.number \in {following, following + 1}
                   THEN event.number
              ELSE None
        /\ over' = IF event.kind = "update" THEN over \cup {event.number} ELSE over
        /\ UNCHANGED <<history, subscribed, priceChanges, books, buffer>>

\* evict_inactive, on a timer event: nothing arrived for the asset for an hour.
EvictInactive ==
    /\ tracked # None
    /\ stream = <<>> /\ books = <<>> /\ priceChanges = <<>>
    /\ tracked' = None
    /\ following' = None
    /\ UNCHANGED <<history, subscribed, priceChanges, books, buffer, stream, over>>

-------------------------------------------------------------------------------

Losses(n) == SUBSET Numbers(SubSeq(buffer, 1, n))

BookNext ==
    \/ \E price \in Prices, size \in Sizes \cup {0} : ChangeBid(price, size)
    \/ ChangeAsk
    \/ SendsBook \/ AbortWebSocket \/ EndProcess \/ Connect
    \/ \E n \in Flushable : \E sent \in Sent(n), lost \in Losses(n) :
          \/ FlushTick(n, sent, lost)
          \/ \E outcome \in Outcomes : PublishPriceChange(n, sent, lost, outcome)
    \/ \E outcome \in Outcomes : PublishBook(outcome)
    \/ \E stale \in BOOLEAN : Receive(stale)
    \/ EvictInactive

\* The publisher and the trade server keep running, Redis takes a book, and a
\* buffered event, again and again, and the trade server keeps up again and
\* again.  The app reconnects, or is started again, and the exchange keeps sending
\* books.
BookFairness ==
    /\ WF_bookVars(\E outcome \in Outcomes :
                  PublishPriceChange(Max(Flushable), Max(Flushable), {}, outcome))
    /\ SF_bookVars(PublishBook("published"))
    /\ SF_bookVars(FlushTick(Max(Flushable), Max(Flushable), {}))
    /\ WF_bookVars(\E stale \in BOOLEAN : Receive(stale))
    /\ SF_bookVars(Receive(FALSE) /\ Head(stream).kind = "book")
    /\ WF_bookVars(Connect)
    /\ SF_bookVars(SendsBook /\ books' # books)

BookSpec == BookInit /\ [][BookNext]_bookVars /\ BookFairness

-------------------------------------------------------------------------------

UpdateEvents == [kind : {"update"}, number : 1 .. MaxChanges,
                 price : Prices \cup {None}, size : Sizes \cup {0},
                 best : Prices \cup {0}]
BookEvents == [kind : {"book"}, number : 0 .. MaxChanges, levels : Levels]

\* The variables have their types, and no queue outgrows its capacity.
BookTypeOK ==
    /\ history \in Seq(Levels) /\ Len(history) \in 1 .. MaxChanges + 1
    /\ subscribed \in BOOLEAN
    /\ priceChanges \in Seq(UpdateEvents) /\ Len(priceChanges) <= ChannelSize
    /\ books \in Seq(BookEvents) /\ Len(books) <= ChannelSize
    /\ buffer \in Seq(UpdateEvents) /\ Len(buffer) <= BufferMaxSize
    /\ stream \in Seq(UpdateEvents \cup BookEvents) /\ Len(stream) <= MaxStream
    /\ tracked = None \/ tracked \in Levels
    /\ following \in {None} \cup 0 .. MaxChanges
    /\ over \subseteq 1 .. MaxChanges

\* The levels with a size; aligning can leave one without (of price 0, when the
\* exchange names no best bid).
Shown(levels) == Restrict(levels, {p \in DOMAIN levels : levels[p] > 0})

\* A tracker that got a book and every change after it in order, some of them again
\* before the next, shows exactly the exchange's bids after the last of those
\* changes, whatever it showed before.
ExactWhenInOrder ==
    following # None => Shown(tracked) = history[following + 1]

\* A failed publish loses no price change: each one the exchange made was applied
\* or is on its way, unless a named loss took it: no connection, a full channel or
\* buffer, a Redis target that failed while another did not, its age, or the end of
\* the process while it was in a channel or the buffer.
NothingLostSilently ==
    1 .. Changes \subseteq
        over \cup Numbers(priceChanges) \cup Numbers(buffer)
                \cup {e.number : e \in {u \in Range(stream) : u.kind = "update"}}

\* However changes were lost, doubled back or overtaken by an older book, once the
\* exchange's bids rest the tracker comes to show them, or nothing, for good.
Heals == <>[](tracked # None => Shown(tracked) = Bids)

\* A change the publisher had to buffer goes before the changes that came after it.
\* (TLC refutes it: README, section 6.)
BufferedGoFirst ==
    \A i, j \in DOMAIN stream :
        i < j /\ stream[i].kind = "update" /\ stream[j].kind = "update"
            => stream[i].number < stream[j].number

================================================================================
