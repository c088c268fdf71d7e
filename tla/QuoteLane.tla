------------------------------- MODULE QuoteLane -------------------------------
(***************************************************************************)
(* One quote lane of the backtest executor with latency simulation         *)
(* (execution/backtest/executor): a lane quotes one side of one asset and  *)
(* owns at most one order on the book; a new quote is coalesced into the   *)
(* one being placed, or waits until the live order is cancelled.  Lanes    *)
(* share only the clock and the order counter, so one lane is the model.   *)
(*                                                                         *)
(* A deadline is the time left to it, 0 once it is due.  The events of     *)
(* check_fills_from_trade are kept per order, in story: limit-order events *)
(* are deferred in this mode, so these are all the events there are.       *)
(***************************************************************************)
EXTENDS LifecycleOrder, Sequences, FiniteSetsExt

CONSTANTS
    OrderIds,         \* 1 .. the bound on the orders of a behaviour
    Sizes,            \* sizes of quotes, in lots
    TradeSizes,       \* sizes of the trades of the replay
    PlaceLatencies,   \* what sample_place_latency_ms returns
    CancelLatencies,  \* what sample_cancel_latency_ms returns
    None              \* Option::None

ASSUME LaneAssumption ==
    /\ OrderIds \subseteq Nat
    /\ Sizes \cup TradeSizes \subseteq Nat \ {0}
    /\ PlaceLatencies \cup CancelLatencies \subseteq Nat

VARIABLES
    lane,    \* QuoteLaneState
    book,    \* pending_orders: [id -> what is on the book, or None]
    life,    \* lifecycle_engine: [id -> its record, or None]
    mapped,  \* the keys of order_id_to_lane
    story    \* [id -> the events emitted about the order]

vars == <<lane, book, life, mapped, story>>

Idle == [at |-> "Idle"]
Placing(quote, due, cancel) ==
    [at |-> "Placing", quote |-> quote, due |-> due, cancel |-> cancel]
Live(id) == [at |-> "Live", id |-> id]
Canceling(id, due, next) ==
    [at |-> "Canceling", id |-> id, due |-> due, next |-> next]

Quote == [id : OrderIds, size : Sizes]
Deadline == Nat \cup {None}
Resting == [remaining : Nat, until : Deadline]
Orders == [state : States, cancel_requested : BOOLEAN, remaining : Nat]

\* None is told apart from what stands in its place.
ASSUME NoneAssumption == None \notin Nat \cup Quote \cup Resting \cup Orders

OnBook(size, until) == [remaining |-> size, until |-> until]
Submitted(size) ==
    [state |-> "SubmitPending", cancel_requested |-> FALSE, remaining |-> size]

PlacedEvent(size) == [type |-> "placed", size |-> size]
FillEvent(size, left) ==
    [type |-> "fill", size |-> size, complete |-> left = 0]
CancelledEvent == [type |-> "cancelled"]

Init ==
    /\ lane = Idle
    /\ book = [i \in OrderIds |-> None]
    /\ life = [i \in OrderIds |-> None]
    /\ mapped = {}
    /\ story = [i \in OrderIds |-> <<>>]

-------------------------------------------------------------------------------
\* The handlers work on the whole executor: s is a record of its variables.

Now == [lane |-> lane, book |-> book, life |-> life, mapped |-> mapped,
        story |-> story]

Become(s) ==
    /\ lane' = s.lane
    /\ book' = s.book
    /\ life' = s.life
    /\ mapped' = s.mapped
    /\ story' = s.story

\* ... that forgets the event.
ConfirmCancel_Silent(s, id) ==
    IF IsTerminal(s.life[id])
    THEN s
    ELSE [s EXCEPT !.life[id] = AfterTerminal(@, "Cancelled")]

\* lifecycle_record_cancel_confirmed, and the event when it ended the order.
ConfirmCancel(s, id) ==
    IF IsTerminal(s.life[id])
    THEN s
    ELSE [s EXCEPT !.life[id] = AfterTerminal(@, "Cancelled"),
                   !.story[id] = Append(@, CancelledEvent)]

\* The place latency of a quote is over: it goes on the book, unless its
\* cancellation was requested and takes effect (after c) at once.
Acknowledge(s, quote, c) ==
    LET id == quote.id
        o  == AfterPlaceSuccess(s.life[id])
        t  == [s EXCEPT !.life[id] = o]
    IN  CASE o.state = "Open" ->
               [t EXCEPT !.book[id] = OnBook(quote.size, None),
                         !.mapped = @ \cup {id},
                         !.story[id] = Append(@, PlacedEvent(quote.size)),
                         !.lane = Live(id)]
          [] o.state = "CancelPending" /\ c > 0 ->
               [t EXCEPT !.book[id] = OnBook(quote.size, c),
                         !.mapped = @ \cup {id},
                         !.lane = Canceling(id, c, None)]
          [] o.state = "CancelPending" /\ c = 0 ->
               [ConfirmCancel(t, id) EXCEPT !.lane = Idle]
          [] OTHER -> [t EXCEPT !.lane = Idle]

\* A promotion that drops the replacement.
Replace_Drops(s, next, p, c) == [s EXCEPT !.lane = Idle]

\* The order of a cancelling lane is off the book: its replacement is next.
Replace(s, next, p, c) ==
    IF next = None
    THEN [s EXCEPT !.lane = Idle]
    ELSE IF p = 0
    THEN Acknowledge(s, next, c)
    ELSE [s EXCEPT !.lane = Placing(next, p, None)]

\* advance_time that leaves a cancelled order on the book.
AdvanceTime_KeepsBook(s, p, c) ==
    CASE s.lane.at = "Placing" /\ s.lane.due = 0 ->
           Acknowledge(s, s.lane.quote, c)
      [] s.lane.at = "Canceling" /\ s.lane.due = 0 ->
           Replace(ConfirmCancel(s, s.lane.id), s.lane.next, p, c)
      [] OTHER -> s

\* advance_time: what is due in the lane happens, one step of it per call.  A
\* placing quote that has a cancel deadline has its cancellation requested too
\* (ArmedCancelIsRequested), so it never becomes a plain live order here.
AdvanceTime(s, p, c) ==
    CASE s.lane.at = "Placing" /\ s.lane.due = 0 ->
           LET quote == s.lane.quote
               t == Acknowledge(s, quote,
                                IF s.lane.cancel = None THEN c ELSE s.lane.cancel)
           IN  IF t.lane = Idle
               THEN [t EXCEPT !.mapped = @ \ {quote.id}]
               ELSE t
      [] s.lane.at = "Canceling" /\ s.lane.due = 0 ->
           LET id == s.lane.id
           IN  Replace([ConfirmCancel(s, id) EXCEPT !.book[id] = None,
                                                    !.mapped = @ \ {id}],
                       s.lane.next, p, c)
      [] OTHER -> s

\* Orders a trade at this moment may hit; at most one, by BookIsLane, so the
\* loop over the orders of the book is one FillOne.
Fillable(s) == {i \in OrderIds : s.book[i] # None /\ s.book[i].until # 0}

\* What a fill of size counts for, given the remaining size on the book and in
\* the engine: what the trade gave.
Applied_Traded(before, after, size) == size

\* What a fill counts for is what the engine's remaining size falls short of
\* the book's.
Applied(before, after, size) == Max({0, before - after})

\* A trade gives order i at most n lots; the engine has the last word on what
\* was applied.
FillOne(s, i, n, p, c) ==
    LET size    == Min({s.book[i].remaining, n})
        o       == AfterFill(s.life[i], size)
        applied == Applied(s.book[i].remaining, o.remaining, size)
        t       == [s EXCEPT !.life[i] = o]
        u       == [t EXCEPT !.story[i] =
                       Append(@, FillEvent(applied, o.remaining))]
    IN  CASE size = 0 -> s
          [] size > 0 /\ applied = 0 -> t
          [] size > 0 /\ applied > 0 /\ o.state = "Filled" ->
               LET v == [u EXCEPT !.book[i] = None, !.mapped = @ \ {i}]
               IN  CASE i \in s.mapped /\ s.lane.at = "Live" ->
                          [v EXCEPT !.lane = Idle]
                     [] i \in s.mapped /\ s.lane.at = "Canceling" ->
                          Replace(v, s.lane.next, p, c)
                     [] OTHER -> v
          [] OTHER ->
               [IF IsTerminal(o) THEN t ELSE u EXCEPT
                  !.book[i].remaining = o.remaining]

-------------------------------------------------------------------------------

\* Time passes between two events of the replay.
Tick ==
    LET Left(d) == IF d \in {None, 0} THEN d ELSE d - 1
    IN  /\ lane' = CASE lane.at = "Placing" ->
                          [lane EXCEPT !.due = Left(@), !.cancel = Left(@)]
                     [] lane.at = "Canceling" -> [lane EXCEPT !.due = Left(@)]
                     [] OTHER -> lane
        /\ book' = [i \in OrderIds |->
                      IF book[i] = None THEN None
                      ELSE [book[i] EXCEPT !.until = Left(@)]]
        /\ UNCHANGED <<life, mapped, story>>

\* handle_polymarket_trade_with_fill_engine: n is what the trade, the inventory
\* and the quote balance allow, 0 if the trade does not cross or is of another
\* asset.
HandleTrade(n, p, c) ==
    LET s == AdvanceTime(Now, p, c)
    IN  Become(IF n = 0 \/ Fillable(s) = {} THEN s
               ELSE FillOne(s, CHOOSE i \in Fillable(s) : TRUE, n, p, c))

Unused == {i \in OrderIds : life[i] = None}

\* A quote gets an order id and a lifecycle record of its own.
Record(s, size) ==
    LET id == Min(Unused)
    IN  [s EXCEPT !.life[id] = Submitted(size), !.mapped = @ \cup {id}]

\* A placement announced at once, though the executor defers its events.
PlaceIdle_Announces(size, p) ==
    /\ lane.at = "Idle"
    /\ Unused # {}
    /\ Become([Record(Now, size) EXCEPT
                 !.lane = Placing([id |-> Min(Unused), size |-> size], p, None),
                 !.story[Min(Unused)] = Append(@, PlacedEvent(size))])

\* execute_limit_order_with_lifecycle: the strategy wants the lane to quote size.
PlaceIdle(size, p) ==
    /\ lane.at = "Idle"
    /\ Unused # {}
    /\ Become([Record(Now, size) EXCEPT
                 !.lane = Placing([id |-> Min(Unused), size |-> size], p, None)])

CoalescePlacing(size) ==
    /\ lane.at = "Placing"
    /\ lane' = [lane EXCEPT !.quote.size = size]
    /\ UNCHANGED <<book, life, mapped, story>>

\* The same quote again keeps the live order; any other replaces it.
ReplaceLive(size, samePrice, c) ==
    /\ lane.at = "Live"
    /\ Unused # {}
    /\ LET id   == lane.id
           noop == book[id] # None /\ samePrice /\ size = book[id].remaining
           s    == [Record(Now, size) EXCEPT
                      !.lane = Canceling(id, c, [id |-> Min(Unused), size |-> size])]
       IN  /\ ~noop
           /\ Become(IF book[id] = None THEN s
                     ELSE [s EXCEPT !.book[id].until = c])

CoalesceCanceling(size) ==
    /\ lane.at = "Canceling"
    /\ IF lane.next # None
       THEN /\ lane' = [lane EXCEPT !.next.size = size]
            /\ UNCHANGED <<book, life, mapped, story>>
       ELSE /\ Unused # {}
            /\ Become([Record(Now, size) EXCEPT
                         !.lane.next = [id |-> Min(Unused), size |-> size]])

\* cancel_order_with_lifecycle for an order that has a lane: the cancellation
\* takes effect after c.
CancelOrder(id, c) ==
    /\ life[id] # None
    /\ id \in mapped
    /\ lane' = CASE lane.at = "Placing" /\ lane.quote.id = id ->
                      [lane EXCEPT !.cancel =
                         IF @ = None THEN c ELSE Min({@, c})]
                 [] lane.at = "Live" /\ lane.id = id -> Canceling(id, c, None)
                 [] OTHER -> lane
    /\ book' = IF lane.at = "Live" /\ lane.id = id /\ book[id] # None
               THEN [book EXCEPT ![id].until = c]
               ELSE book
    /\ life' = [life EXCEPT ![id] = AfterCancelRequest(@)]
    /\ UNCHANGED <<mapped, story>>

\* ... and for one that has none any more: the confirmation is immediate.
CancelUnmapped(id) ==
    /\ life[id] # None
    /\ id \notin mapped
    /\ life' = [life EXCEPT ![id] =
                  IF book[id] = None THEN AfterCancelRequest(@)
                  ELSE AfterTerminal(AfterCancelRequest(@), "Cancelled")]
    /\ book' = [book EXCEPT ![id] = None]
    /\ UNCHANGED <<lane, mapped, story>>

Trades ==
    \E n \in TradeSizes \cup {0}, p \in PlaceLatencies, c \in CancelLatencies :
        HandleTrade(n, p, c)

Next ==
    \/ Tick
    \/ Trades
    \/ \E size \in Sizes, p \in PlaceLatencies : PlaceIdle(size, p)
    \/ \E size \in Sizes : CoalescePlacing(size)
    \/ \E size \in Sizes, samePrice \in BOOLEAN, c \in CancelLatencies :
          ReplaceLive(size, samePrice, c)
    \/ \E size \in Sizes : CoalesceCanceling(size)
    \/ \E id \in OrderIds, c \in CancelLatencies : CancelOrder(id, c)
    \/ \E id \in OrderIds : CancelUnmapped(id)

\* Something is due in the lane, and a trade makes it happen.
Overdue == lane.at \in {"Placing", "Canceling"} /\ lane.due = 0

\* The replay goes on: time passes, and a trade finds what is due.
Fairness == WF_vars(Tick) /\ WF_vars(Overdue /\ Trades)

Spec == Init /\ [][Next]_vars /\ Fairness

-------------------------------------------------------------------------------

\* The variables have their shapes.
TypeOK ==
    /\ \/ lane = Idle
       \/ /\ lane.at = "Placing" /\ lane.quote \in Quote
          /\ lane.due \in Nat /\ lane.cancel \in Deadline
       \/ lane.at = "Live" /\ lane.id \in OrderIds
       \/ /\ lane.at = "Canceling" /\ lane.id \in OrderIds
          /\ lane.due \in Nat /\ lane.next \in Quote \cup {None}
    /\ book \in [OrderIds -> Resting \cup {None}]
    /\ life \in [OrderIds -> Orders \cup {None}]
    /\ mapped \subseteq OrderIds

\* The book holds the order of the lane and no other: replacing, cancelling,
\* filling and coalescing never leave two quotes of a lane on the book, or one
\* that the lane has forgotten.
BookIsLane ==
    \A i \in OrderIds : book[i] # None <=>
        lane.at \in {"Live", "Canceling"} /\ lane.id = i

\* The book and the lifecycle engine agree on which orders work: an order is on
\* the book exactly while the engine has it acknowledged and not over.
BookMatchesEngine ==
    \A i \in OrderIds :
        book[i] # None <=>
            life[i] # None /\ life[i].state \in {"Open", "CancelPending"}

\* A cancel deadline in the lane was requested in the engine, so the quote is
\* acknowledged as cancelling; the branch of advance_time that would put it on
\* the book as a live order that has a deadline is unreachable.
ArmedCancelIsRequested ==
    lane.at = "Placing" /\ lane.cancel # None
        => life[lane.quote.id].cancel_requested

\* Whatever replaces, cancels, fills and coalesces in whatever order, the maps over
\* which the code spreads an order stay in step: lane and book, book and engine, the
\* deadlines of the lane and the requests of the engine.
InStep == BookIsLane /\ BookMatchesEngine /\ ArmedCancelIsRequested

\* Lots of the fills in the events of an order.
Filled(events) ==
    LET upto[k \in 0 .. Len(events)] ==
            IF k = 0 THEN 0
            ELSE upto[k - 1] + IF events[k].type = "fill" THEN events[k].size ELSE 0
    IN  upto[Len(events)]

\* What is told about an order makes sense: it is placed first if it is, ends
\* with one cancellation or one complete fill, and nothing follows its end.
StoryWellFormed ==
    \A i \in OrderIds : \A k \in DOMAIN story[i] :
        LET e == story[i][k]
        IN  /\ e.type = "placed" => k = 1
            /\ e.type = "cancelled" \/ (e.type = "fill" /\ e.complete)
                  => k = Len(story[i])

\* No order ends in silence: the engine has it over exactly when its last event
\* said so, with the same outcome.
EndsAreTold ==
    \A i \in OrderIds : life[i] # None =>
        LET last == IF story[i] = <<>> THEN [type |-> "none"]
                    ELSE story[i][Len(story[i])]
        IN  /\ life[i].state = "Cancelled" <=> last.type = "cancelled"
            /\ life[i].state = "Filled" <=> last.type = "fill" /\ last.complete

\* An order never fills for more than it was placed for.
FillsWithinQuote ==
    \A i \in OrderIds :
        story[i] # <<>> /\ story[i][1].type = "placed"
            => Filled(story[i]) <= story[i][1].size

\* A cancellation that was requested ends the order, and a quote that was taken
\* is placed or over in the end.
CancelsFinish ==
    \A i \in OrderIds :
        (life[i] # None /\ life[i].cancel_requested)
            ~> (life[i] # None /\ IsTerminal(life[i]))

PlacementsFinish ==
    \A i \in OrderIds :
        (life[i] # None /\ life[i].state = "SubmitPending")
            ~> (life[i] # None /\ life[i].state # "SubmitPending")

\* What was asked of the lane happens while the replay goes on: no cancellation and
\* no waiting replacement is dropped by what it races with.
RequestsFinish == CancelsFinish /\ PlacementsFinish

\* What readers of an order rely on holds of each order of the lane: it is accepted
\* once, trades only while it works and never back, and ends once, although one call
\* may acknowledge an order and fill it, or end one and acknowledge and fill the next.
PhaseOf(i) == IF life[i] = None THEN "unused"
              ELSE IF IsTerminal(life[i]) THEN life[i].state ELSE "working"

LeftOf(i) == IF life[i] = None THEN 0 ELSE life[i].remaining

Contract(i) == INSTANCE OrderContract
                 WITH Ids <- {i}, Outcomes <- TerminalReasons,
                      phase <- [j \in {i} |-> PhaseOf(j)],
                      left <- [j \in {i} |-> LeftOf(j)]

ImplementsContract ==
    /\ \A i \in OrderIds : Contract(i)!Init
    /\ [][\A i \in OrderIds :
             Contract(i)!Next \/ UNCHANGED <<PhaseOf(i), LeftOf(i)>>]_vars

\* What fill_engine.rs says of its fill size: it is capped by the order, the
\* trade and the available inventory.  (TLC refutes it: README, section 6.)
FillsWithinTrade ==
    \A i \in OrderIds : \A k \in DOMAIN story[i] :
        story[i][k].type = "fill" =>
            \E n \in TradeSizes : story[i][k].size <= n

================================================================================
