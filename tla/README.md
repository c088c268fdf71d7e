# open-crypto-quant in TLA+

This directory holds formal models of open-crypto-quant: of the trade server
(`src/crates/trade-server`), which decides, places, watches and books orders, of
the Polymarket subscriber (`src/crates/tx-sub/crates/polymarket-sub`), which feeds
it with order books, and of the ingester (`src/crates/ingester`), which moves what
is published to a database.  The models follow the source file by file;
`PROJECT.json` maps every definition to the lines it stands for, and lists the
runs of the model checker, the theorems and the hazards of the code.

Paths below are relative to `src/crates/trade-server/src`, those of section
"subscriber" to `src/crates/tx-sub/crates/polymarket-sub/src`.

## 1. The system

A strategy emits *intents* (the levels it wants to quote on an order book) and
*signals* (enter, exit, modify, cancel).  One event loop
(`trade_server/trade_server.rs`) takes system events one at a time from an event
coordinator, updates the position manager and the order book tracker, asks the
strategy for intents and signals, and acts on them.  It never waits for a
placement: `order_executor.rs` spawns a task per order, and the result comes back
as an event.  The same loop runs against four executors: backtest, paper,
Polymarket and Solana.

| component | state it keeps | operations | talks to | what is hard |
|---|---|---|---|---|
| lifecycle engine (`execution/lifecycle`) | table of logical orders, index by client id, index by venue id | `record_place_request`, `_success`, `_rejected`, `record_cancel_request`, `_confirmed`, `record_fill_evidence`, `record_terminal_evidence` | embedded in every executor and in the poller, behind a lock | evidence out of order, repeated or contradicting; ids bound late or reused |
| backtest quote lanes (`execution/backtest/executor`) | a lane per side and asset, the book, lifecycle records, order to lane map | quote, cancel, trade of the replay, passing of time | processor of the replay | an order's record is spread over four maps; replace, cancel and fill race inside the latencies |
| event loop, intents and placement tasks (`trade_server/position_handler`) | in-flight orders, pending orders | reconcile an intent, await cancels, spawn placements, handle order events | executor, coordinator, position manager | tasks interleave with the loop; confirmations come as events |
| order status poller (`execution/polymarket/poller`) | monitored orders, its own lifecycle engine | monitor, poll cycle, poll one order, prune, sync positions | venue API, coordinator, position manager | stale copies across an await, errors, 404, giving up, starvation |
| position manager (`position`) | positions, pending sells, quote balance, bought mints | book a fill, reconcile with the exchange, mark and clear pending sells, timers | event loop, poller | two sources of truth: fill events and balances |
| paper executor (`execution/paper`) | pending orders, lifecycle engine | place, cancel, fill from trades, redeem | event loop | cancel tasks against a trade that holds the lock; fills limited by books that learn of them later |
| exit flow (`position_handler`, `position/handlers/timer_exit.rs`, `fills.rs`) | pending sell mark, failure count | exits on price, fill, timer and signal; market and limit orders | executor, manager | mark and count are updated in separate steps by tasks; decisions on copies; answers lost and retried |
| merge and redemption (`merge_executor.rs`, `client/polymarket/safe_client.rs`, `position/handlers/redemption.rs`) | pending merges, redemption policy, a transaction | request, read balances, submit, confirm, book | chain, syncs | timeouts of transactions that are mined later, dropped requests |
| order book tracker (`orderbook_tracker`) | levels per asset | apply a snapshot or an update, align the best level, evict | event loop, Redis stream | updates lost, late, doubled or out of order |
| subscriber: order books (`parser`, `redis_orderbook_publisher.rs`) | two broadcast channels, a buffer | parse, publish, buffer, flush | exchange, Redis | channels overwrite, publishes fail, the buffer is bounded |
| subscriber: discovery and subscriptions (`market_discovery.rs`, `subscription_manager.rs`, `app.rs`, `ws_client.rs`, `health_monitor.rs`) | markets found, subscribed assets, a connection | list, compare, limit, reconnect, check, exit | exchange, orchestrator | lists read page by page, channels of capacity 1, tasks that end the process |
| intent debounce (`position/orderbook/intent.rs`) | per side: last change | hold back a changed side | reconciliation | wall-clock thresholds |
| event coordinators (`event_coordinator`) | queues, subscriptions | enqueue, collect, merge, persist | everyone | ordering and loss between sources |
| backtest data (`backtest`) | readers, timeline | load, merge, replay | executor, loop | merge order, completeness |
| leader monitor, position closer, API, persistence, notifier | small or none | I/O | | |
| Solana execution, other subscribers of `crates/tx-sub` | none between calls | build, sign, submit; decode logs | chain | |
| ingester (`crates/ingester`) | events popped and not inserted yet: consumers, a channel, a batch, flush tasks | pop, send, collect, flush with retries, shut down | Redis, database, orchestrator | popping is the only receipt; shutdown drains what consumers still send; inserts that fail after they were taken |
| `crates/polyfill-rs`, `crates/poly-strat-starter`, `crates/proto` | client library, example, generated types | I/O | | |

What makes each of the modelled ones correct:

- *lifecycle engine*: the indexes name exactly the orders of the table; an order
  ends once, with one outcome, whatever arrives later; a wanted cancel stays
  wanted.
- *quote lanes*: a lane has at most one order on the book and the lane, the book
  and the engine agree which; every order's events form one story that ends when
  the engine says the order ended; cancels and placements come to an end.
- *event loop and tasks*: no level is quoted twice, however intents, placements
  and cancels overlap; in-flight and pending entries live as long as their order.
- *poller*: a traded lot is reported once; nothing is reported about an order
  after its end; what the venue did is reported in the end; every monitored order
  is polled again within a bound.
- *position manager*: positions and balances agree once everything has been
  booked.
- *exit flow*: one exit is out at a time; a failed exit is tried again within the
  limit; books and balance differ only by what is on its way.
- *merge and redemption*: a merged pair is credited once; the pairs come to what the
  policy allows.
- *paper executor*: nothing is sold or spent that is not there; a pair is paid once;
  a cancelled order fills no more.
- *order books*: the tracker is exact while nothing is lost, loses changes only for
  named reasons, and heals.
- *subscriptions*: manager and connection agree; the open markets come to be the
  subscribed ones.
- *ingester*: an event is in one place, or lost for a named reason; nothing stops it
  from reading on, or from ending when it is told to.

## 2. The modules

    LifecycleOrder          one order's record and what evidence does to it
      |-- LifecycleEngine   the table and its indexes      --> OrderContract
      |     |-- LifecycleEngineProofs                          (refinement)
      |     `-- MCLifecycleEngine
      |-- QuoteLane         one lane of the backtest     --> OrderContract
      |     `-- QuoteLaneProofs
      `-- LiveOrders        event loop, tasks, poller, venue
            |-- LiveOrdersProofs
            `-- MCLiveOrders
    PollSchedule            which orders a poll cycle takes, and when
      `-- MCPollSchedule                (proofs in LifecycleEngineProofs)
    PositionSync            fill events against balance syncs
    ExitFlow                pending sells, exit tasks and exit orders
      `-- ExitFlowProofs
    PairRedemption          policy, merge transactions, booking of pairs
      `-- PositionProofs                (PairRedemption and PositionSync)
    PaperTrading            simulated fills and cancels  --> OrderContract
      `-- PaperTradingProofs            (EXTENDS LifecycleOrder, too)
    BookFeed                publisher, stream and order book tracker
    MarketFeed              discovery, subscriptions, connection, restarts
      `-- FeedProofs                    (BookFeed and MarketFeed)
    Option                  Option::None, of the two feed modules
    Ingester                Redis lists to a table, with shutdown and crash
      `-- IngesterProofs

Sizes are natural numbers of lots throughout; prices, wording, metrics and
logging are left out.

**LifecycleOrder / LifecycleEngine.**  `LifecycleOrder` has the states of
`LifecycleState` (a terminal state is named by its reason) and one operator per
kind of evidence; it is shared by the four state machines that keep such
records.  `LifecycleEngine` has one action per `record_*` method; an order can be
named by any of its three ids, as with `LifecycleOrderRef`.  A call that returns an
error changes nothing and is no step.  Adapters hold a lock for one call, so
calls are atomic.

**OrderContract** says what users of the engine rely on, knowing nothing of
indexes or cancel flags: an order is accepted once, its remaining size only falls,
it ends once with one outcome.  `ImplementsContract` is the refinement: by the engine,
where a call is a step; by the orders of `PaperTrading`, where a step may acknowledge an
order and fill or end it; and by each order of `QuoteLane` on its own, where one trade
may end an order and acknowledge and fill the next.

**QuoteLane.**  One lane with latency simulation.  `lane` is `QuoteLaneState`,
`book` is `pending_orders`, `life` the engine's records, `mapped` the keys of
`order_id_to_lane`, `story` the events emitted per order.  A deadline is the time
left to it.  `PlaceIdle`, `CoalescePlacing`, `ReplaceLive` and `CoalesceCanceling`
are the branches of `execute_limit_order_with_lifecycle`; `CancelOrder` and
`CancelUnmapped` those of `cancel_order_with_lifecycle`; `HandleTrade` is
`handle_polymarket_trade_with_fill_engine`, with `advance_time` first and then at
most one fill.  The handlers touch several maps in sequence, so they are written
as functions of a record of all variables.  Not modelled: the mode without
latency, and what lanes share (inventory, quote balance, one trade filling orders
of several lanes).

**LiveOrders.**  One side of one asset, live.  The event loop (`Intent`, awaited
cancels, `SpawnPlacement`, `ProcessEvent`), a task per placement (`posting`, then
`posted` or `matched`, then `monitored`, then `done`), the poller (`Poll` reads and
asks; `ReportFill`, `PolledCanceled`, `PolledNotFound`, `PolledWorking` and
`PolledError` handle the answer), the queue of events, and the venue, which is
modelled from how the executor and the poller use its answers: it trades, cancels
and forgets orders, and may take an order although the post returns an error
(`LostResponses`).  An await is a step boundary.  Cancels of one intent run
concurrently and are all awaited before placements are spawned, as in
`handle_intent_signal`.  Not modelled: the debounce and the quote balance (a level
they hold back is one the intent does not ask for), market orders, sides and
assets that do not share state.

**PollSchedule.**  The same poller with time: `monitored` is ordered by
`added_at`, a cycle takes the due orders in that order up to `batch_size`, every
poll takes some ticks, a cycle ends with pruning.  Then comes `sync_positions` if its
interval is over (`SyncPositions`; what it does is `PositionSync`'s subject), and the
sleep.  The sync is of the same task: nobody is polled while it waits for a token of the
rate limiter and an answer for the quote balance and for each token that is held or was
ever bought, so the longest of `SyncTicks` grows with the tokens bought.  `LiveOrders`
abstracts from all this: there any monitored order may be polled next.  Not modelled: the
poller's shutdown.

**PositionSync.**  The position of one token, written by fill events and by
`sync_positions`, which reads what it expects, asks the exchange, compares, and
overwrites the position.  Its three parts are separated by awaits, and the fills it
may already have counted are still with the poller, a task, or the queue.

**ExitFlow.**  One token whose exit condition is met whenever it is asked.
`position` and `pending` are the manager's, `tasks` the spawned executions and the
limit orders they left at the exchange, `queue` the events.  The four triggers are
`ExitOnUpdate` (on the copy of the position in the event), `ExitOnTimer` and
`ExitOnSignal`; each marks the token (`Spawn`) or does nothing.  A failed task first
clears the mark (`ClearPendingSell`) and then counts (`CountFailure`).  `Accepted` are
the order types the executor takes: Polymarket's refuses `Sell`, which price exits
use.  History variables name the excuses: lots that left with a lost answer
(`untold`), an exit that ended and left its mark (`leftover`), a position that closed
under an exit (`interfered`).  Not modelled: prices, exit strategies, buys by market
order, position syncs.

**PairRedemption.**  One Up/Down market.  An intent brings a policy; a policy that is
violated puts the market in `pending_merges`; the merge executor drains the requests,
reads the two balances one after the other, submits a transaction through the Safe and
waits for its receipt.  A transaction whose submission failed or whose receipt did not
come in time may still be mined (`abandoned`) and then makes a waiting one fail, since
both have the nonce of the Safe.  Fills, syncs and the booking of the merge run beside
it.  Not modelled: redemption after a market resolved, which nothing in the event loop
calls, and the encoding of transactions.

**PaperTrading.**  The paper executor's three orders and the event loop that books.
A trade of the feed holds the lock of `pending_orders` and goes through the orders in
any order (the map has none); cancel tasks take the lock in between.  Whether a latency
is over is a free choice at every trade.  The signals that the generators answer an event
with are handled one after the other, so any number of intents with a redemption policy
may come on any event (`Intent`, until `EndSignals`), each on positions that do not show
the redemptions of those before.  (`poly-strat-starter` sends one intent per snapshot of
an order book, and no policy.)  `hasty` is a history variable: whether pairs were
redeemed while the queue held another redemption or a sale.

**BookFeed.**  The bids of one asset from the exchange to the tracker.  The parser's
channels overwrite their oldest event, a publish can fail, succeed, succeed for another
target only, or fail although Redis took the event, price changes that failed are
buffered and flushed, the trade server drops what is too old.  `AbortWebSocket` is what
the app does when the markets change: parser and publisher go on.  `EndProcess` is every
`exit(1)` of the client, its ping task and the health monitor, and a shutdown: the channels
and the buffer are gone.  The publisher flushes up to twice when it is told to shut down
(`FlushTick`), but `app.rs` aborts it at the same time, so nothing obliges it to; what is
in Redis stays.  `Aligned` is `align_best_level`, `Updated` and
`Replaced` the two updates of the tracker.  `following` and `over` are history
variables: whether the tracker has seen every change since a book (a change that comes
again before the next does no harm), and which changes are through or given up.

**MarketFeed.**  Discovery (page by page, while markets open and close), subscription
manager, app, WebSocket client, its ping task, health monitor, the end of the process
and its restart.  Left out: the mode with fixed assets, the publishers, and the safety
limit that ends a listing after an offset of 10000.

**Ingester.**  `consumers` are the tasks of `consume_redis_queue` (a list each),
`channel` is `event_rx`, `main` says where `run` is, `batch` is `pending_batch` and
during the shutdown `drain_batch`, `flushes` are the spawned
`flush_batch_with_retry_owned`.  An LPOP can fail before or after Redis carried it out,
an insert before or after the table took it.  `Shutdown` is SIGTERM or the end of all
consumers, `Exit` the end of `run`, with which the runtime drops the consumers wherever
they are.  `lost` and `repeated` are history variables: the events no place holds any
more, and those of an insert that was taken and still failed.  Pauses between attempts
are left out, as nothing is ordered by them.

## 3. The runs

| run | instance | shows |
|---|---|---|
| `lifecycle_engine` | 2 lifecycle, client and venue ids, sizes 1-2, ids symmetric | both indexes, record invariants, terminal and cancel action properties, refinement of the contract |
| `quote_lane` | 3 orders, sizes and trades 1-2, latencies 0-1 | `InStep` (lane, book and engine agree), `StoryWellFormed`, `EndsAreTold`, `FillsWithinQuote`, refinement of the contract, `RequestsFinish` |
| `live_orders` | 2 placements, 2 venue ids, 1 level, 2 lots, 2 attempts, lost responses, symmetric | `NoOverbooking`, `OneQuotePerLevel`, `NothingAfterCancel` |
| `live_orders_live` | 2 placements, 1 lot, 1 attempt, no symmetry | `FillsReachPosition`, `CancelsReachPending` |
| `poll_schedule` | 3 orders, batch 3, 3 failures, polls of 1-2 ticks, a sync of 1 or 3 every 4 | `KeepsUp` |
| `position_sync` | 5 trades | `Converges` |
| `exit_flow` | 2 lots, 2 tasks, 2 failures, 2 attempts, both exit modes | `BooksFollowExchange`, `OneExitAtATime`, `ExitsGetThrough` |
| `pair_redemption` | 4 trades, limits of 0 and 1 pair | `CreditedOnce`, `PolicyIsMet` |
| `paper_trading` | 2 orders of 3 lots, trades of 1 and 2, quote of 4, policies of 0 and 1, 2 redemptions queued, with and without latency | `BooksBalance`, `CancelsAreFinal`, refinement of the contract |
| `book_feed` | 2 prices, 2 sizes, 2 changes, channels and buffer of 1, stream of 2 | `ExactWhenInOrder`, `NothingLostSilently`, `Heals` |
| `market_feed` | 3 markets, room for 2, pages of 2, 2 listings, 1 fault | `ConnectionFollowsManager`, `Settles` |
| `ingester` | 2 lists, 3 events, pops and batches of 2, channel of 1, 1 retry | `OnePlace`, `ShutdownEnds`, `KeepsConsuming` |

Each module has a type invariant that bounds its queues, counters and amounts by what
the code allows.  All of them are proved (section 5); those of `PollSchedule`, `BookFeed`,
`PairRedemption`, `LiveOrders` and `ExitFlow` are checked by the module's run, too.

Why the bounds are enough.  Two lifecycle orders with two ids each allow every
collision of ids, and two sizes separate partial from complete and excess fills.
Three orders let a lane hold an order that is cancelling and a replacement, and
then replace the replacement; latencies of 0 and 1 give every order of two
deadlines, including the branches for what is due at once.  Two placements are
what it takes to quote a level twice; two lots allow a partial fill before a cancel
and a fill between two polls.  Three orders with as many failures as attempts let
backed-off and healthy orders mix in a batch that is exactly full.  Five trades
over two ways of reporting let a sync overlap buys and sells that are unreported,
queued and booked at once.  Two lots and two tasks let an exit be overtaken by a
buy, a merge and another exit; two failures and two attempts reach both limits.  Four
trades make two pairs, so that one can be merged by a transaction nobody waits for
while the next asks for the other.  Two orders of three lots let a sale and a
purchase, or two purchases, compete for one trade and one balance, and fill on after a
pair was redeemed; two redemptions in the queue can be of the same pair.  Two changes are
a lost and a following one, or a buffered and an overtaking one, or two that compete for
the buffer, and two sizes at two prices let the second change what the first did, or
another level; every channel and buffer of capacity 1 is full with one event.  A sync
of three ticks is longer than any poll and due in every other cycle.  Three markets in
pages of two, with room for two, make a listing miss a market that moves to the page
before, and go over the limit.  Three events fill a batch and leave a rest, in one list
or over two, so that both flushes of a shutdown have rows, while a third event waits for
room in the channel; no more than two flush tasks can have rows at once.

`CHECK_DEADLOCK` is off where ids or trades run out (the engine, live orders, exit
flow): a system with no order left to place has nothing to do.

## 4. Fairness

- *QuoteLane*: time passes and trades of the replay come.  `advance_time` runs only
  when the replay calls it, so what is due happens if trades go on.  Nothing
  obliges the strategy to quote or cancel.
- *LiveOrders*: weak fairness for each task, each awaited cancel, the spawning of
  placements and the handling of an answer (the runtime runs what can run, and
  HTTP calls return or time out).  Strong fairness for processing events: the loop
  alternates between the queue and an intent it is in the middle of.  Strong
  fairness for polling *each* monitored order: the code gives it only while the
  monitored orders fit in a batch, which is what `PollSchedule` shows (`KeepsUp`,
  and the run that starves an order); with two orders and a batch of 20 they do.
  An intent, a venue event or a lost response is never obliged to happen.
- *PollSchedule*: the poller task keeps running.  `KeepsUp` is a bound in ticks and
  needs no fairness.
- *PositionSync*: fills are reported and processed, syncs recur, and a balance query
  that is asked again and again is answered in the end.  Trades are not fair, so
  `Converges` is about the time after the last one.
- *ExitFlow*: the poller, the event loop and the tasks keep running; the timer finds
  the token unmarked again and again (strong fairness: its tick is periodic and races
  with the strategy's signals, which are not obliged to come).
- *PairRedemption*: the loops run; intents keep coming, as the strategy sends one per
  update; syncs, balance reads, submissions and transactions succeed again and again
  (strong fairness), so any number of them may fail.
- *BookFeed*: the publisher and the trade server run; Redis takes a publish, and the
  trade server is in time, again and again; the exchange sends a whole book on every
  subscription and goes on sending some; the orchestrator restarts the process, which may
  end any number of times.
- *MarketFeed*: every task runs; the API and the connection succeed again and again;
  the orchestrator restarts the process.  Faults of a live connection are bounded
  (`MaxFaults`), failures to connect, to read a page and late updates are not.
- *Ingester*: every task runs, and a consumer that waits for room in the channel gets
  some again and again (tokio's channel is fair).  Redis answers an LPOP again and again;
  the table may refuse every insert.  SIGTERM, crashes and connections that fail are not
  obliged; the orchestrator restarts what ended.  That a list is empty again and again
  (`KeepsConsuming`) takes producers that pause, too: the code does not slow them down, and
  in the run it is `MaxEvents` that stops them.  For the same reason `ShutdownEnds` says
  little of consumers that go on sending while the shutdown drains the channel: in the run
  they have at most `MaxEvents` to send; it does show that failing inserts do not hold the
  shutdown up.
- *PaperTrading* has no liveness property and no fairness: orders wait for trades,
  which nobody owes.

## 5. What is proved

`LifecycleEngineProofs` proves for any sets of ids and sizes, from the assumptions
of `LifecycleEngine` (sizes are positive, `None` is no id and no order):

- `TypeCorrectness`, `ClientIndexSafety`, `VenueIndexSafety`, `RecordSafety`:
  the four invariants of the run;
- `TerminalSafety`, `CancelSafety`: the two action properties;
- `Refinement`: the engine implements `OrderContract`.

The type invariant alone is not inductive for the indexes: that `RecordPlaceRequest`
keeps the client index exact depends on fresh ids, and that `BindVenue` keeps the
venue index exact depends on an order having at most one venue id, which is a fact
about both maps and the records together.  The inductive invariant is the
conjunction of the four (`IInv`).  Placing has a preservation lemma of its own; every
other action replaces the record of one known order by one that follows from it, and
shares a lemma about such steps (`ReplacesKeeps`).  The action properties and the
refinement follow from `IInv` step by step.

It also proves, of `PollSchedule` and for any orders, batch, intervals, backoff and length
of polls, `ScheduleTypeCorrectness` and `NobodyWaitsLong`: when a batch has room for all
orders, none waits longer than its bound: its interval or backoff, one sleep, one sync and
two cycles of the other orders, until its poll starts.  The bound itself is not inductive, as it does
not say how much of it is used up.  The invariant (`WaitsLittle`) says it by where the
poller is: in a cycle, an order the selection left out was not due when the cycle began,
and one it took may have waited for the cycle, the sync and the sleep before; in a sleep,
an order has waited for a cycle, a sync and what has passed of the sleep.

`FeedProofs` proves, of `MarketFeed`, `TypeCorrect` and `ManagerIsFollowed` for any number
of markets, room and page size.  The inductive invariant adds to the two what the phases
of the app say about its connection (`PhaseOK`: nothing is connected before the first
update, a reconnecting app holds an update, a running one a client).

Of `BookFeed` it proves, for any finite set of prices, any sizes, number of changes and
capacities of the channels, the buffer and the stream:

- `BookTypeCorrectness`: the type invariant;
- `TrackerIsExact`: what the tracker shows is what the exchange had, as long as it was told
  every change once and in order;
- `LossesAreNamed`: a change that is nowhere is counted with the losses, the end of the
  process among them.

The first of the two needs to know that what is queued is true: every price change on its
way tells the bids the exchange had after it, and every snapshot is one the exchange had
(`QueuesTell`).  Then applying the next change to an exact book gives the next exact book,
and the tracker's alignment of its best level has nothing to move.

`QuoteLaneProofs` proves for any orders, sizes and latencies:

- `TypeCorrectness`, `StepSafety`, `StorySafety`, `EndsSafety`, `FillSafety`: the type
  invariant and the four invariants of the run;
- `Refinement`: each order of the lane implements `OrderContract`.

The handlers are functions of a record of the variables, and call one another, so the
invariant (`Good`) is a predicate of such a record, and each handler has a lemma that it
returns a good one.  Between the end of one order and the promotion of the next the record
is not good: there `Vacant` holds (nothing on the book, nothing that works) and the quote
that waits is `Ready`.  `FillsWithinQuote` is not inductive, as it does not say what may
still be filled: `FitsQuote` counts what is left on the book.  For the refinement a call is
a chain of what its handlers do to an order: evidence that trades nothing (`Quiet`), then
one fill at most (`Fills`).

`LiveOrdersProofs` proves for any tasks, orders, levels, sizes, attempts and failures:

- `TypeCorrectness`, `OverbookingSafety`, `QuoteSafety`: the three invariants of the run;
- `SilenceAfterTheEnd`: its action property.

`NoOverbooking` needs to know who may still report an order: what is booked, queued, in the
answer the poller handles and in a placement that matched at once, all together, is no more
than the venue traded, and what the poller remembers of an order is what was reported of it
(`OrdersOK`, `PollOK`, `TasksOK`).  `OneQuotePerLevel` needs that an order is counted
without a gap while its placement goes from task to queue to `pending_limit_orders`
(`QueueOK`), and that levels the loop is about to place are quoted by nobody
(`LevelsOK`).  That the loop cancels only what the venue knows is `LoopOK`.

`ExitFlowProofs` proves for any number of trades, tasks, retries and failures:

- `OneExit`: the invariant says that the tasks that still have to clear the mark are at
  most one, and that there is one only if the mark is set, unless a position closed under
  an exit (`MarkIsOfOne`); that an exit in the model's sense is out is not enough, since a
  failed task is no longer out and still takes the mark away;
- `TypeCorrectness`, `BooksSafety`: the books.  They need no fact about marks, but that a
  limit order is for a lot at least and is the only kind that rests or is modified
  (`LimitsOK`), that no more lots are on their way to the books than were traded
  (`OnTheWay`), and that what is booked and still to be booked as bought is what is held
  and still to be booked as sold (`Balanced`).

`PaperTradingProofs` proves:

- `CancelledIsNotFilled`, for any orders, sizes and latencies: an order that was told as
  cancelled is over and no trade fills one that is over.  With a latency the cancel task
  tells nothing, so the invariant relates what was told to the records and to what the
  trade under way has found gone (`ToldIsOver`, `GoneIsOver`);
- `TypeCorrectness` and `Refinement`, likewise: the orders implement `OrderContract`;
- `BooksSafety`, likewise, for any policies and any number of intents on any event.
  `BooksBalance` is not inductive: what is queued will be booked without another look, so
  the invariant says that the quote covers what is queued and what the trade under way has
  found, and, unless a redemption was hasty, that the positions cover it, too.

`PositionProofs` proves `SyncTypeCorrectness` of `PositionSync`, for any number of trades.
That the queue is no longer than there were trades needs to know where each trade waits
(`Accounted`).  Of `PairRedemption` it proves, for any number of trades and limits:

- `TypeCorrectness`: the type invariant;
- `CreditSafety`: a merged pair is credited once, `CreditedOnce`.

The bounds of the amounts are what is hard: a merge takes as many pairs as a balance it read
some time before, its transaction may be mined after the executor gave it up, and its pairs
leave the positions by an event later still.  The invariant says that tokens and fills on
their way come from trades (`FromTrades`), that no merge, whether it waits, was given up or
is booked, takes more pairs than trades can have made (`MergesOK`), and that a position
with all that is still to be booked is within what trades and merges can make
(`PositionsOK`).

`IngesterProofs` proves for any lists, limits, events and crashes:

- `WithinLimits`: the type invariant lacks only that a consumer that sends has something
  to send;
- `PlaceSafety`: that every event is in one place.  The invariant names the place, as a
  kind of place and an owner for every event that was pushed (`Located`), and adds that no
  sequence holds an event twice (`Distinct`) and that a process that is down holds none
  (`Emptied`).  A step that moves events from one place to another keeps it
  (`MovesLocates`), and so does one that drops them (`LeavesLocates`).

Sums over a queue (`Filled`, `QueuedFill`, `Queued`, `Total`) and filters of one (`Among`,
`Kept`) are recursive functions.  The
proofs show that there is such a function, that it is the only one, and what appending and
taking the head do to it, by the least number at which it would fail: the library's
induction theorem takes an operator, which the provers cannot instantiate, but that every
set of naturals has a least member takes none.  What a `RECURSIVE` operator computes could
not be shown that way.

Every invariant, action property and refinement of the runs is stated by a theorem.  Only
model-checked is liveness, which needs fairness and `ENABLED`, out of the prover's reach.

## 6. Where code and documentation disagree

No run expects a violation.  The modules state twelve sentences of the repository that TLC
refutes when they are given to a run as an invariant or a property:

| definition | sentence | what the code does |
|---|---|---|
| `QuoteLane!FillsWithinTrade` | `fill_engine.rs:141`: a fill is capped by the trade's size | a quote coalesced into one that is being placed changes the book's size but not the record's, so the fill counts the difference, too |
| `LiveOrders!PendingEnds` | `pending_order.rs:20`: a completed order is removed from tracking | the poller learns of an order before `OrderPlaced` is queued; an order that ends in between becomes pending after its end, and nobody polls it any more |
| `LiveOrders!InFlightIsInFlight` | `order_executor.rs:169`: an in-flight order is removed when `OrderPlaced` is handled | an order that matches at once is answered without `OrderPlaced`; its level counts as quoted for good |
| `PollSchedule!NobodyStarves` | `poller/config.rs:13`: the batch size prevents starvation | orders are taken oldest first and polling does not change that, so newer ones starve behind a full batch |
| `PositionSync!SettledMatchesExchange` | `poller.rs:741`: a sync makes the position match the exchange | a sync that overlaps a fill on its way counts it twice until the next sync |
| `BookFeed!BufferedGoFirst` | `redis_orderbook_publisher.rs:135`: buffered events are flushed before a new one | the new one is published even if the flush stopped at a failure, so it can go first |
| `MarketFeed!PingExitMeansLoss` | `ws_client.rs:112`: a failed ping means the connection is lost | the ping task of a client that was replaced lives on and ends the process while the new connection is well |
| `ExitFlow!MarkMeansSelling` | `event_handlers.rs:318`: a marked token has a sell in progress | a mark outlives an exit order that expired and an exit that left a remainder |
| `ExitFlow!ForcedExit` | `docs/core-traits.md:117`: force exit after N failed attempts | after N failures the exits stop |
| `PairRedemption!RedeemsOnlyExcess` | `signal/redemption.rs:40`: the system redeems the excess | on Polymarket a merge takes all the pairs there are; in paper trading only the excess |
| `PaperTrading!PairsPaidOnce` | `paper/executor.rs:970`: each pair redeems for exactly $1 | an intent looks at positions that do not show the redemption before yet, which is still queued: the same pairs are redeemed and paid again |
| `Ingester!ShutdownLosesNothing` | `app.rs:281`, `:300`: a graceful shutdown drains the remaining events | nobody waits for the consumers, so what they popped and have not sent when the drain finds the channel empty is lost |

Four more were met and have neither.  The lifecycle engine forgets a deferred cancel
when a fill overtakes the acknowledgement (no adapter of this commit reports one that
early).  Orders given up by the poller after errors, age or a 404 stay pending or lose
their last fills (the liveness properties excuse exactly these).  A limit fill books the
position but does not look at the redemption policy (`trade_server.rs:405`), which waits
for the next intent; `PolicyIsMet` takes intents that keep coming.  And the publisher's
flush before it shuts down (`redis_orderbook_publisher.rs:306`, "Flushing buffered events
before shutdown") races with its own abort (`app.rs:482`), and an `exit(1)` skips it, so
the buffer may be lost; `NothingLostSilently` names that loss.

## 7. Not modelled, and what is left

Not modelled, and why:

- *intent debounce*: wall-clock thresholds over prices; `LiveOrders` takes a held level
  for one the intent does not ask for, which allows whatever the debounce does;
- *rate limiter*: a token bucket with one caller, part of a poll's duration;
- *backtest data* (runner, loader, timeline, processor): sequential preparation of data;
- *Solana execution, position closer, leader monitor*: nothing kept between calls;
- *Solana log parsers* of `crates/tx-sub`, most of the repository's lines: stateless
  decoding of byte layouts, where a model would repeat the code;
- *client library, API, persistence, notifier, protocol types, settings*: I/O.

Left for later, in this order: a second lane and the inventory of the fill engine in
`QuoteLane`; the composition of `ExitFlow` with `PositionSync` (a sync that overwrites a
position during an exit); merging coordinators.
