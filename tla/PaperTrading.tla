------------------------------- MODULE PaperTrading -------------------------------
(***************************************************************************)
(* Paper trading on one Up/Down market: the event loop checks the paper    *)
(* executor's orders against each trade of the live feed, queues the       *)
(* simulated fills, books them, and redeems pairs when an intent brings a  *)
(* redemption policy; tasks of their own place and cancel orders.  The     *)
(* orders' states are those of the lifecycle engine (LifecycleOrder).      *)
(*                                                                         *)
(* Every order is of Size lots at a price of 1, and a pair pays 2.  Time   *)
(* is left out: whether a latency is over is a free choice.                *)
(***************************************************************************)
EXTENDS LifecycleOrder, Sequences, SequencesExt, FiniteSetsExt, Functions

CONSTANTS
    Orders,      \* order ids, in the order the counter gives them
    Size,        \* lots of an order
    TradeSizes,  \* lots of a trade of the feed
    Quote,       \* quote balance to start with
    Sold,        \* the tokens the strategy also sells
    Policies,    \* values of max_unredeemed_pair_value an intent can bring
    MaxQueued,   \* bound: redemptions in the queue at once
    None         \* Option::None

ASSUME PaperAssumption ==
    /\ Orders = 1 .. Cardinality(Orders)
    /\ Size \in Nat \ {0} /\ TradeSizes \subseteq Nat \ {0}
    /\ Quote \in Nat /\ Policies \subseteq Nat /\ MaxQueued \in Nat
    /\ Sold \subseteq {"up", "down"}

Tokens == {"up", "down"}
Sides  == {"buy", "sell"}

Entries == [token : Tokens, side : Sides]
Records == [state : States, cancel_requested : BOOLEAN, remaining : 0 .. Size]

\* What can be queued.
Events == [kind : {"fill"}, id : Orders, lots : 1 .. Size]
            \cup [kind : {"cancelled"}, id : Orders]
            \cup [kind : {"redeemed"}, pairs : Nat \ {0}]

Trades == [token : Tokens, side : Sides, size : TradeSizes, todo : SUBSET Orders,
           bought : Int, events : Seq(Events), gone : SUBSET Orders]

ASSUME NoneAssumption ==
    None \notin Entries \cup Records \cup Trades \cup {"book", "trade", "queued"}

VARIABLES
    deferred,    \* is a latency configured, so that events are deferred?
    order,       \* [id -> token and side, or None before it is placed]
    life,        \* lifecycle_engine: [id -> record, or None]
    resting,     \* the keys of pending_orders
    cancelling,  \* orders whose cancel task waits for pending_orders
    trade,       \* check_fills_from_trade, which holds pending_orders, or None
    event,       \* the event whose signals are being processed, or None
    queue,       \* the coordinator's queue
    positions,   \* the manager's positions, 0 where there is none
    quote,       \* available_quote
    told,        \* history variable: orders whose OrderCancelled went out
    hasty        \* history variable: were pairs redeemed while the queue held
                 \* another redemption, or a sale?

executor == <<order, life, resting>>
books    == <<positions, quote>>
vars == <<deferred, executor, cancelling, trade, event, queue, books, told, hasty>>

Init ==
    /\ deferred \in BOOLEAN
    /\ order = [id \in Orders |-> None] /\ life = [id \in Orders |-> None]
    /\ resting = {} /\ cancelling = {}
    /\ trade = None /\ event = None /\ queue = <<>>
    /\ positions = [t \in Tokens |-> 0] /\ quote = Quote
    /\ told = {}
    /\ hasty = FALSE

Fill(id, lots) == [kind |-> "fill", id |-> id, lots |-> lots]
Cancelled(id)  == [kind |-> "cancelled", id |-> id]
Redeemed(n)    == [kind |-> "redeemed", pairs |-> n]

-------------------------------------------------------------------------------
(* Tasks: each takes the lock of pending_orders, so none runs during a trade *)

\* execute_limit_order.  With a latency configured the order waits for a trade.
Place(id, token, side) ==
    LET submitted == [state |-> "SubmitPending", cancel_requested |-> FALSE,
                      remaining |-> Size]
    IN  /\ trade = None
        /\ order[id] = None /\ \A i \in Orders : i < id => order[i] # None
        /\ side = "sell" => token \in Sold
        /\ order' = [order EXCEPT ![id] = [token |-> token, side |-> side]]
        /\ life' = [life EXCEPT ![id] = IF deferred THEN submitted
                                        ELSE AfterPlaceSuccess(submitted)]
        /\ resting' = resting \cup {id}
        /\ UNCHANGED <<deferred, cancelling, trade, event, queue, books, told, hasty>>

\* A cancel that tells of the end at once, latency or not.
TellsAtOnce_Always == TRUE

\* The answer of cancel_order is queued, unless check_fills_from_trade will tell.
TellsAtOnce == ~deferred

Tell(id) ==
    /\ queue' = IF TellsAtOnce THEN Append(queue, Cancelled(id)) ELSE queue
    /\ told' = IF TellsAtOnce THEN told \cup {id} ELSE told

\* cancel_order, up to the lock: the request is recorded; an order that is over is
\* answered with OrderCancelled, too.
CancelOrder(id) ==
    /\ order[id] # None /\ id \notin told \cup cancelling
    /\ life' = [life EXCEPT ![id] = AfterCancelRequest(@)]
    /\ IF IsTerminal(life[id])
       THEN Tell(id) /\ UNCHANGED cancelling
       ELSE cancelling' = cancelling \cup {id} /\ UNCHANGED <<queue, told>>
    /\ UNCHANGED <<deferred, order, resting, trade, event, books, hasty>>

\* ... and under it.  With a latency the order stays until a trade confirms its end.
CancelUnderLock(id) ==
    /\ id \in cancelling /\ trade = None
    /\ cancelling' = cancelling \ {id}
    /\ IF id \in resting /\ ~deferred
       THEN /\ resting' = resting \ {id}
            /\ life' = [life EXCEPT ![id] = AfterTerminal(@, "Cancelled")]
       ELSE UNCHANGED <<resting, life>>
    /\ Tell(id)
    /\ UNCHANGED <<deferred, order, trade, event, books, hasty>>

-------------------------------------------------------------------------------
(* check_fills_from_trade *)

Idle == trade = None /\ event = None

\* The coordinator takes from the feed when its queue is empty.
StartTrade(token, side, size) ==
    /\ Idle /\ queue = <<>>
    /\ trade' = [token |-> token, side |-> side, size |-> size, todo |-> resting,
                 bought |-> 0, events |-> <<>>, gone |-> {}]
    /\ UNCHANGED <<deferred, executor, cancelling, event, queue, books, told, hasty>>

\* Limits that forget what the trade's other fills took.
Affordable_Stale(side) == IF side = "buy" THEN quote ELSE positions[trade.token]

\* What the quote balance or the inventory leaves after the trade's other fills.
Affordable(side) ==
    IF side = "buy" THEN quote - trade.bought
                    ELSE positions[trade.token] + trade.bought

\* Each order may take the whole trade.
FillSize(id) ==
    Min({life[id].remaining, trade.size, Affordable(order[id].side)})

Checked(id, o, events, gone, lots) ==
    /\ id \in trade.todo
    /\ life' = [life EXCEPT ![id] = o]
    /\ trade' = [trade EXCEPT !.todo = @ \ {id},
                              !.events = @ \o events,
                              !.gone = IF gone THEN @ \cup {id} ELSE @,
                              !.bought = @ + lots]
    /\ UNCHANGED <<deferred, order, resting, cancelling, event, queue, books, hasty>>

\* When the place latency is over an order that waits is acknowledged.
Acknowledged(id, placed) == IF placed THEN AfterPlaceSuccess(life[id]) ELSE life[id]

\* No fill: a latency is not over, or the trade does not concern the order.
PassOver(id, placed) ==
    /\ trade # None
    /\ Checked(id, Acknowledged(id, placed), <<>>, FALSE, 0)
    /\ UNCHANGED told

\* The cancel latency is over: whatever the trade's token, the order ends.
ConfirmCancel(id, placed) ==
    LET o == Acknowledged(id, placed)
    IN  /\ trade # None /\ id \in trade.todo
        /\ o.state = "CancelPending"
        /\ Checked(id, AfterTerminal(o, "Cancelled"), <<Cancelled(id)>>, TRUE, 0)
        /\ told' = told \cup {id}

\* A trade against the order's side fills it as far as the books allow.
FillOrder(id, placed) ==
    LET lots == FillSize(id)
        o    == Acknowledged(id, placed)
        left == AfterFill(o, lots)
    IN  /\ trade # None /\ id \in trade.todo
        /\ o.state \in {"Open", "CancelPending"}
        /\ order[id].token = trade.token /\ order[id].side # trade.side
        /\ lots > 0
        /\ Checked(id, left, <<Fill(id, lots)>>, IsTerminal(left),
                   IF order[id].side = "buy" THEN lots ELSE -lots)
        /\ UNCHANGED told

\* The fills are queued; the strategy then sees the trade itself.
EndTrade ==
    /\ trade # None /\ trade.todo = {}
    /\ queue' = queue \o trade.events
    /\ resting' = resting \ trade.gone
    /\ trade' = None /\ event' = "trade"
    /\ UNCHANGED <<deferred, order, life, cancelling, books, told, hasty>>

-------------------------------------------------------------------------------
(* The event loop *)

\* An order book update changes nothing that is modelled.
BookUpdate ==
    /\ Idle /\ queue = <<>>
    /\ event' = "book"
    /\ UNCHANGED <<deferred, executor, cancelling, trade, queue, books, told, hasty>>

\* A queued event: a fill is booked (handle_execution, without a look at the policy),
\* and so is a redemption, for the positions that are there.
ProcessQueued ==
    LET e == Head(queue)
    IN  /\ Idle /\ queue # <<>>
        /\ queue' = Tail(queue)
        /\ event' = "queued"
        /\ CASE e.kind = "fill" ->
                  LET lots == IF order[e.id].side = "buy" THEN e.lots ELSE -e.lots
                  IN  /\ positions' = [positions EXCEPT ![order[e.id].token] = @ + lots]
                      /\ quote' = quote - lots
             [] e.kind = "redeemed" ->
                  /\ positions' = [t \in Tokens |-> IF positions[t] = 0 THEN 0
                                                    ELSE positions[t] - e.pairs]
                  /\ quote' = quote + 2 * e.pairs
             [] e.kind = "cancelled" -> UNCHANGED books
        /\ UNCHANGED <<deferred, executor, cancelling, trade, told, hasty>>

\* What execute_redemption answers: the excess is redeemed at once.
Redemption(excess) == IF excess > 0 THEN <<Redeemed(excess)>> ELSE <<>>

Excess(max) == Min(Range(positions)) - max

\* Queued events that will take away from the positions.
Redemptions == {i \in DOMAIN queue : queue[i].kind = "redeemed"}

Sales ==
    {i \in DOMAIN queue : queue[i].kind = "fill" /\ order[queue[i].id].side = "sell"}

\* handle_intent_signal, for one of the signals that the generators answer the event
\* with.  Its policy is looked at on the positions, which learn of a redemption only
\* from the queue.
Intent(max) ==
    /\ event # None
    /\ Cardinality(Redemptions) < MaxQueued
    /\ queue' = queue \o Redemption(Excess(max))
    /\ hasty' = (hasty \/ (Excess(max) > 0 /\ Redemptions \cup Sales # {}))
    /\ UNCHANGED <<deferred, executor, cancelling, trade, event, books, told>>

\* All signals are processed.
EndSignals ==
    /\ event # None
    /\ event' = None
    /\ UNCHANGED <<deferred, executor, cancelling, trade, queue, books, told, hasty>>

-------------------------------------------------------------------------------

Next ==
    \/ \E id \in Orders :
          \/ \E token \in Tokens, side \in Sides : Place(id, token, side)
          \/ CancelOrder(id) \/ CancelUnderLock(id)
          \/ \E placed \in BOOLEAN :
                PassOver(id, placed) \/ ConfirmCancel(id, placed) \/ FillOrder(id, placed)
    \/ \E token \in Tokens, side \in Sides, size \in TradeSizes :
          StartTrade(token, side, size)
    \/ EndTrade
    \/ BookUpdate \/ ProcessQueued \/ EndSignals
    \/ \E max \in Policies : Intent(max)

Spec == Init /\ [][Next]_vars

-------------------------------------------------------------------------------

\* The variables have their types; no fill is larger than its order.
TypeOK ==
    /\ deferred \in BOOLEAN
    /\ order \in [Orders -> Entries \cup {None}]
    /\ life \in [Orders -> Records \cup {None}]
    /\ resting \subseteq Orders /\ cancelling \subseteq Orders /\ told \subseteq Orders
    /\ trade # None => trade \in Trades /\ trade.todo \cup trade.gone \subseteq resting
    /\ event \in {None, "book", "trade", "queued"}
    /\ queue \in Seq(Events)
    /\ positions \in [Tokens -> Int] /\ quote \in Int
    /\ hasty \in BOOLEAN

\* With the quote balance checked before a fill and booked after it, paper trading
\* spends no quote it has not got, whatever intents redeem on whatever event.  And
\* unless pairs were redeemed while the queue held another redemption or a sale, it
\* sells no token it has not got, and each pair is paid for once: what was not spent
\* and what is held are worth the balance at the start.
BooksBalance ==
    /\ quote >= 0
    /\ ~hasty => /\ \A t \in Tokens : positions[t] >= 0
                 /\ quote + positions["up"] + positions["down"] = Quote

\* What paper/executor.rs says of a redemption: each pair redeems for exactly $1, so
\* the worth stays the same.  (TLC refutes it: README, section 6.)
PairsPaidOnce == quote + positions["up"] + positions["down"] = Quote

\* Once an order's cancellation went out, no trade fills the order, although the
\* cancel task and the trade take turns at the order.
CancelsAreFinal ==
    [][\A id \in told : life'[id].remaining = life[id].remaining]_vars

\* What readers of an order rely on: paper orders are accepted once, trade only while
\* they work and never back, and end once, whichever of a trade, a cancel task and a
\* latency comes first.
phase == [id \in Orders |->
            IF life[id] = None THEN "unused"
            ELSE IF IsTerminal(life[id]) THEN life[id].state ELSE "working"]

left == [id \in Orders |-> IF life[id] = None THEN 0 ELSE life[id].remaining]

Contract == INSTANCE OrderContract
              WITH Ids <- Orders, Sizes <- {Size}, Outcomes <- TerminalReasons

\* Contract!Spec; steps that change no record are named, as TLC takes them faster.
ImplementsContract ==
    Contract!Init /\ [][UNCHANGED life \/ Contract!Next]_<<phase, left>>

================================================================================
