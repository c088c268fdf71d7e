------------------------------ MODULE LiveOrders ------------------------------
(***************************************************************************)
(* The life of a limit order in live Polymarket trading, across the tasks  *)
(* that share it: the trade server's event loop, which reconciles the      *)
(* strategy's intents against the position manager's pending and in-flight *)
(* orders; one spawned task per placement, which posts the order, hands it *)
(* to the poller and queues its event; the order status poller, which      *)
(* turns the venue's answers into fill and cancel events; and the venue,   *)
(* which trades, cancels and forgets orders on its own.                    *)
(*                                                                         *)
(* One side of one asset is modelled.  A level is a (price, size) pair the *)
(* strategy may quote; every order is for Size lots.                       *)
(***************************************************************************)
EXTENDS LifecycleOrder, Sequences, FiniteSets

CONSTANTS
    Tasks,          \* placements of a behaviour, by in-flight id
    OrderIds,       \* venue order ids
    Levels,         \* levels the strategy may quote
    Size,           \* lots of an order
    MaxAttempts,    \* max_retries of execute_limit_order (3)
    MaxFailures,    \* max_consecutive_failures of the poller
    LostResponses,  \* may a post reach the venue and still return an error?
    None            \* Option::None

ASSUME LiveAssumption ==
    /\ {Size, MaxAttempts, MaxFailures} \subseteq Nat \ {0}
    /\ LostResponses \in BOOLEAN

\* The venue's record of an order, and what stands for orders elsewhere.
VenueOrders == [level : Levels, status : {"live", "matched", "canceled", "gone"},
                matched : 0 .. Size]
Pendings == [level : Levels, remaining : 1 .. Size]
Monitors == [filled : 0 .. Size, failures : 0 .. MaxFailures - 1]
Answers == [order : OrderIds, known : 0 .. Size, matched : 0 .. Size,
            status : {"live", "matched", "canceled", "gone", "error"}]
Orders == [state : States, cancel_requested : BOOLEAN, remaining : Nat]

\* None is told apart from what stands in its place.
ASSUME NoneAssumption ==
    None \notin OrderIds \cup Levels \cup VenueOrders \cup Pendings \cup Monitors
                 \cup Answers \cup Orders

VARIABLES
    venue,      \* [order id -> the venue's record of it, or None]
    task,       \* [task -> its program counter, level, order and attempt]
    in_flight,  \* keys of in_flight_orders
    pending,    \* pending_limit_orders: [order id -> level and remaining size]
    booked,     \* [order id -> lots the position manager has booked for it]
    queue,      \* enqueued_events of the event coordinator
    loop,       \* what the event loop is in the middle of
    monitored,  \* monitored_orders: [order id -> last_known_filled, failures]
    life,       \* the poller's lifecycle_engine: [order id -> record, or None]
    poll,       \* the answer the poller is handling, or None
    abandoned   \* orders whose monitoring ended without an answer (history)

server == <<in_flight, pending, booked, loop>>
poller == <<monitored, life, poll, abandoned>>
vars == <<venue, task, queue, server, poller>>

IdleLoop == [cancels |-> {}, acks |-> {}, places |-> {}]
IdleTask == [pc |-> "idle", level |-> None, order |-> None, attempt |-> 1]

Placed(v, level) == [type |-> "placed", order |-> v, level |-> level]
Fill(v, size, left) ==
    [type |-> "fill", order |-> v, size |-> size, left |-> left]
Cancelled(v) == [type |-> "cancelled", order |-> v]

Init ==
    /\ venue = [v \in OrderIds |-> None]
    /\ task = [t \in Tasks |-> IdleTask]
    /\ in_flight = {}
    /\ pending = [v \in OrderIds |-> None]
    /\ booked = [v \in OrderIds |-> 0]
    /\ queue = <<>>
    /\ loop = IdleLoop
    /\ monitored = [v \in OrderIds |-> None]
    /\ life = [v \in OrderIds |-> None]
    /\ poll = None
    /\ abandoned = {}

-------------------------------------------------------------------------------
\* The event loop.

\* Levels that a pending order quotes in full (matches_level).
PendingLevels ==
    {level \in Levels : \E v \in OrderIds :
        pending[v] = [level |-> level, remaining |-> Size]}

\* Reconciliation that looks at the confirmed orders only.
QuotedLevels_PendingOnly == PendingLevels

\* The levels reconcile_intent takes for quoted: pending or in flight.
QuotedLevels == PendingLevels \cup {task[t].level : t \in in_flight}

FreeTasks == {t \in Tasks : task[t].pc = "idle"}

\* handle_intent_signal up to its first await: reconcile_intent compares the
\* wanted levels with the quoted ones.  An order that quotes none of them in
\* full is cancelled, unless it is in flight; a level that the debounce or the
\* quote balance holds back is one the intent does not ask for.
Intent(wanted) ==
    LET cancels == {v \in OrderIds : /\ pending[v] # None
                                     /\ \/ pending[v].level \notin wanted
                                        \/ pending[v].remaining # Size}
        places  == wanted \ QuotedLevels
    IN  /\ loop = IdleLoop
        /\ cancels \cup places # {}
        /\ Cardinality(places) <= Cardinality(FreeTasks)
        /\ loop' = [IdleLoop EXCEPT !.cancels = cancels, !.places = places]
        /\ UNCHANGED <<venue, task, in_flight, pending, booked, queue, poller>>

\* Phase 1: the cancels run concurrently and are awaited.  The venue executes
\* one if the order still works.
CancelReachesVenue(v) ==
    /\ v \in loop.cancels
    /\ venue' = IF venue[v].status = "live"
                THEN [venue EXCEPT ![v].status = "canceled"]
                ELSE venue
    /\ \E answered \in BOOLEAN :   \* else the call returns an error
          loop' = [loop EXCEPT !.cancels = @ \ {v},
                               !.acks = IF answered THEN @ \cup {v} ELSE @]
    /\ UNCHANGED <<task, in_flight, pending, booked, queue, poller>>

CancelRefused(v) ==
    /\ v \in loop.cancels
    /\ loop' = [loop EXCEPT !.cancels = @ \ {v}]
    /\ UNCHANGED <<venue, task, in_flight, pending, booked, queue, poller>>

\* cancel_order's second half: the poller's record_cancel_request.  The event it
\* returns is deferred, the order stays pending.
CancelAcknowledged(v) ==
    /\ v \in loop.acks
    /\ loop' = [loop EXCEPT !.acks = @ \ {v}]
    /\ life' = IF life[v] = None THEN life
               ELSE [life EXCEPT ![v] = AfterCancelRequest(@)]
    /\ UNCHANGED <<venue, task, in_flight, pending, booked, queue,
                   monitored, poll, abandoned>>

\* Phase 2: spawn_intent_limit_order_execution registers the in-flight order
\* and spawns the task.
SpawnPlacement(level, t) ==
    /\ loop.cancels = {} /\ loop.acks = {}
    /\ level \in loop.places
    /\ t \in FreeTasks
    /\ loop' = [loop EXCEPT !.places = @ \ {level}]
    /\ in_flight' = in_flight \cup {t}
    /\ task' = [task EXCEPT ![t].pc = "posting", ![t].level = level]
    /\ UNCHANGED <<venue, pending, booked, queue, poller>>

\* handle_limit_order_event, and the booking of a fill, for the next event.
ProcessPlaced(e) ==
    /\ e.type = "placed"
    /\ LET same == {t \in in_flight : task[t].level = e.level}
       IN  \/ same = {} /\ UNCHANGED in_flight
           \/ \E t \in same : in_flight' = in_flight \ {t}
    /\ pending' = [pending EXCEPT
                     ![e.order] = [level |-> e.level, remaining |-> Size]]
    /\ UNCHANGED booked

ProcessFill(e) ==
    /\ e.type = "fill"
    /\ booked' = [booked EXCEPT ![e.order] = @ + e.size]
    /\ pending' = IF pending[e.order] = None THEN pending
                  ELSE [pending EXCEPT ![e.order] =
                          IF e.left = 0 THEN None
                          ELSE [@ EXCEPT !.remaining = e.left]]
    /\ UNCHANGED in_flight

ProcessCancelled(e) ==
    /\ e.type = "cancelled"
    /\ pending' = [pending EXCEPT ![e.order] = None]
    /\ UNCHANGED <<in_flight, booked>>

ProcessEvent ==
    /\ loop = IdleLoop
    /\ queue # <<>>
    /\ \/ ProcessPlaced(Head(queue))
       \/ ProcessFill(Head(queue))
       \/ ProcessCancelled(Head(queue))
    /\ queue' = Tail(queue)
    /\ UNCHANGED <<venue, task, loop, poller>>

-------------------------------------------------------------------------------
\* A placement task.

Fresh(v) == venue[v] = None
OnVenue(level, status, matched) ==
    [level |-> level, status |-> status, matched |-> matched]

\* The venue takes the order and answers with its id.
PostAccepted(t, v) ==
    /\ task[t].pc = "posting"
    /\ Fresh(v)
    /\ venue' = [venue EXCEPT ![v] = OnVenue(task[t].level, "live", 0)]
    /\ task' = [task EXCEPT ![t].pc = "posted", ![t].order = v]
    /\ UNCHANGED <<queue, server, poller>>

\* ... or matches it at once: no poller, the fill itself is the answer.
PostMatched(t, v) ==
    /\ task[t].pc = "posting"
    /\ Fresh(v)
    /\ venue' = [venue EXCEPT ![v] = OnVenue(task[t].level, "matched", Size)]
    /\ task' = [task EXCEPT ![t].pc = "matched", ![t].order = v]
    /\ UNCHANGED <<queue, server, poller>>

\* An attempt fails: the next one, or the in-flight order is given back.
AttemptFails(t) ==
    IF task[t].attempt < MaxAttempts
    THEN /\ task' = [task EXCEPT ![t].attempt = @ + 1]
         /\ UNCHANGED in_flight
    ELSE /\ task' = [task EXCEPT ![t].pc = "done"]
         /\ in_flight' = in_flight \ {t}

PostFails(t) ==
    /\ task[t].pc = "posting"
    /\ AttemptFails(t)
    /\ UNCHANGED <<venue, pending, booked, queue, loop, poller>>

\* The order is taken, and the response is lost or has no order id.
PostResponseLost(t, v) ==
    /\ LostResponses
    /\ task[t].pc = "posting"
    /\ Fresh(v)
    /\ venue' = [venue EXCEPT ![v] = OnVenue(task[t].level, "live", 0)]
    /\ AttemptFails(t)
    /\ UNCHANGED <<pending, booked, queue, loop, poller>>

\* poller.monitor_order: the engine learns of the order as placed.
Monitor(t) ==
    LET v == task[t].order
    IN  /\ task[t].pc = "posted"
        /\ task' = [task EXCEPT ![t].pc = "monitored"]
        /\ monitored' = [monitored EXCEPT ![v] = [filled |-> 0, failures |-> 0]]
        /\ life' = IF life[v] # None THEN life
                   ELSE [life EXCEPT ![v] = AfterPlaceSuccess(
                           [state |-> "SubmitPending", cancel_requested |-> FALSE,
                            remaining |-> Size])]
        /\ UNCHANGED <<venue, queue, server, poll, abandoned>>

\* The event of the placement is queued after the poller was told.
Announce(t) ==
    /\ task[t].pc \in {"monitored", "matched"}
    /\ task' = [task EXCEPT ![t].pc = "done"]
    /\ queue' = Append(queue, IF task[t].pc = "monitored"
                              THEN Placed(task[t].order, task[t].level)
                              ELSE Fill(task[t].order, Size, 0))
    /\ UNCHANGED <<venue, server, poller>>

-------------------------------------------------------------------------------
\* The order status poller.

\* poll_single_order up to the venue's answer, or an error of the call.
Poll(v) ==
    /\ poll = None
    /\ monitored[v] # None
    /\ \E answer \in {venue[v], OnVenue(None, "error", 0)} :
          poll' = [order |-> v, known |-> monitored[v].filled,
                   status |-> answer.status, matched |-> answer.matched]
    /\ UNCHANGED <<venue, task, queue, server, monitored, life, abandoned>>

\* Only an order that works has fills to report.
Unreported_LiveOnly(p) == p.status = "live" /\ p.matched > p.known

\* had_fill: the answer shows more than was known.
Unreported(p) == p.status # "error" /\ p.status # "gone" /\ p.matched > p.known

\* create_fill_event with all that was matched, known or not.
NewFill_Total(p) == Fill(p.order, p.matched, Size - p.matched)

\* create_fill_event: what was matched since the last poll.
NewFill(p) == Fill(p.order, p.matched - p.known, Size - p.matched)

\* Fills come first, whatever else the answer says.
ReportFill ==
    /\ poll # None /\ Unreported(poll)
    /\ queue' = Append(queue, NewFill(poll))
    /\ poll' = [poll EXCEPT !.known = poll.matched]
    /\ UNCHANGED <<venue, task, server, monitored, life, abandoned>>

\* A cancel event only for cancellations that nobody asked for.
EndsAsCancelled_Unasked(v) ==
    IF IsTerminal(life[v]) \/ life[v].cancel_requested
    THEN UNCHANGED <<queue, life>>
    ELSE /\ queue' = Append(queue, Cancelled(v))
         /\ life' = [life EXCEPT ![v] = AfterTerminal(@, "Cancelled")]

\* should_emit_terminal_cancellation: at most one cancel event per order.
EndsAsCancelled(v) ==
    IF IsTerminal(life[v])
    THEN UNCHANGED <<queue, life>>
    ELSE /\ queue' = Append(queue, Cancelled(v))
         /\ life' = [life EXCEPT ![v] = AfterTerminal(@, "Cancelled")]

\* ... that goes on polling the order.
PolledCanceled_KeepsPolling ==
    /\ poll # None /\ ~Unreported(poll) /\ poll.status = "canceled"
    /\ EndsAsCancelled(poll.order)
    /\ poll' = None
    /\ UNCHANGED <<venue, task, server, monitored, abandoned>>

\* CANCELED and INVALID.
PolledCanceled ==
    /\ poll # None /\ ~Unreported(poll) /\ poll.status = "canceled"
    /\ EndsAsCancelled(poll.order)
    /\ monitored' = [monitored EXCEPT ![poll.order] = None]
    /\ poll' = None
    /\ UNCHANGED <<venue, task, server, abandoned>>

\* 404: the order is taken for cancelled, whatever it matched meanwhile.
PolledNotFound ==
    /\ poll # None /\ poll.status = "gone"
    /\ EndsAsCancelled(poll.order)
    /\ monitored' = [monitored EXCEPT ![poll.order] = None]
    /\ abandoned' = abandoned \cup {poll.order}
    /\ poll' = None
    /\ UNCHANGED <<venue, task, server>>

\* An order that works or was matched; update of the monitored order.
PolledWorking ==
    /\ poll # None /\ ~Unreported(poll) /\ poll.status \in {"live", "matched"}
    /\ monitored' = [monitored EXCEPT ![poll.order] =
          IF @ = None \/ poll.matched >= Size \/ poll.status = "matched" THEN None
          ELSE [filled |-> poll.matched, failures |-> 0]]
    /\ poll' = None
    /\ UNCHANGED <<venue, task, queue, server, life, abandoned>>

\* ... one failure too late.
PolledError_OffByOne ==
    /\ poll # None /\ poll.status = "error"
    /\ LET v == poll.order
           failures == monitored[v].failures + 1
       IN  IF failures > MaxFailures
           THEN /\ monitored' = [monitored EXCEPT ![v] = None]
                /\ abandoned' = abandoned \cup {v}
           ELSE /\ monitored' = [monitored EXCEPT ![v].failures = failures]
                /\ UNCHANGED abandoned
    /\ poll' = None
    /\ UNCHANGED <<venue, task, queue, server, life>>

\* Any other error; after max_consecutive_failures the order is dropped.
PolledError ==
    /\ poll # None /\ poll.status = "error"
    /\ LET v == poll.order
           failures == monitored[v].failures + 1
       IN  IF failures >= MaxFailures
           THEN /\ monitored' = [monitored EXCEPT ![v] = None]
                /\ abandoned' = abandoned \cup {v}
           ELSE /\ monitored' = [monitored EXCEPT ![v].failures = failures]
                /\ UNCHANGED abandoned
    /\ poll' = None
    /\ UNCHANGED <<venue, task, queue, server, life>>

HandleAnswer ==
    \/ ReportFill
    \/ PolledCanceled
    \/ PolledNotFound
    \/ PolledWorking
    \/ PolledError

\* prune_stale_orders, at the end of a poll cycle.
PruneStale(v) ==
    /\ poll = None
    /\ monitored[v] # None
    /\ monitored' = [monitored EXCEPT ![v] = None]
    /\ abandoned' = abandoned \cup {v}
    /\ UNCHANGED <<venue, task, queue, server, life, poll>>

-------------------------------------------------------------------------------
\* The venue on its own.

VenueTrades(v) ==
    /\ venue[v] # None /\ venue[v].status = "live"
    /\ venue' = [venue EXCEPT
          ![v].matched = @ + 1,
          ![v].status = IF venue[v].matched + 1 = Size THEN "matched" ELSE @]
    /\ UNCHANGED <<task, queue, server, poller>>

\* The market closes, or someone cancels the order outside this program.
VenueCancels(v) ==
    /\ venue[v] # None /\ venue[v].status = "live"
    /\ venue' = [venue EXCEPT ![v].status = "canceled"]
    /\ UNCHANGED <<task, queue, server, poller>>

\* An order that is over is forgotten.
VenueForgets(v) ==
    /\ venue[v] # None /\ venue[v].status \in {"canceled", "matched"}
    /\ venue' = [venue EXCEPT ![v].status = "gone"]
    /\ UNCHANGED <<task, queue, server, poller>>

-------------------------------------------------------------------------------

TaskStep(t) ==
    \/ \E v \in OrderIds : \/ PostAccepted(t, v)
                           \/ PostMatched(t, v)
                           \/ PostResponseLost(t, v)
    \/ PostFails(t)
    \/ Monitor(t)
    \/ Announce(t)

CancelStep(v) == CancelReachesVenue(v) \/ CancelRefused(v) \/ CancelAcknowledged(v)
SpawnStep == \E level \in Levels, t \in Tasks : SpawnPlacement(level, t)
PollStep == HandleAnswer \/ \E v \in OrderIds : Poll(v)
VenueStep(v) == VenueTrades(v) \/ VenueCancels(v) \/ VenueForgets(v)

Next ==
    \/ \E wanted \in SUBSET Levels : Intent(wanted)
    \/ \E v \in OrderIds : CancelStep(v)
    \/ SpawnStep
    \/ ProcessEvent
    \/ \E t \in Tasks : TaskStep(t)
    \/ PollStep
    \/ \E v \in OrderIds : PruneStale(v) \/ VenueStep(v)

\* The runtime runs every task that can run, awaited calls return, the poller
\* comes round to every order it monitors, and the loop takes queued events
\* before anything else that could keep it busy.
Fairness ==
    /\ \A t \in Tasks : WF_vars(TaskStep(t))
    /\ \A v \in OrderIds : WF_vars(CancelStep(v)) /\ SF_vars(Poll(v))
    /\ WF_vars(SpawnStep)
    /\ WF_vars(HandleAnswer)
    /\ SF_vars(ProcessEvent)

Spec == Init /\ [][Next]_vars /\ Fairness

-------------------------------------------------------------------------------

Event == {Placed(v, level) : v \in OrderIds, level \in Levels}
           \cup {Fill(v, n, left) : v \in OrderIds, n \in 1 .. Size, left \in 0 .. Size}
           \cup {Cancelled(v) : v \in OrderIds}

\* The variables have their shapes.
TypeOK ==
    /\ venue \in [OrderIds -> VenueOrders \cup {None}]
    /\ task \in [Tasks -> [pc : {"idle", "posting", "posted", "matched", "monitored", "done"},
                           level : Levels \cup {None}, order : OrderIds \cup {None},
                           attempt : 1 .. MaxAttempts]]
    /\ in_flight \subseteq Tasks
    /\ \A t \in in_flight : task[t].level \in Levels
    /\ pending \in [OrderIds -> Pendings \cup {None}]
    /\ booked \in [OrderIds -> Nat]
    /\ queue \in Seq(Event)
    /\ loop \in [cancels : SUBSET OrderIds, acks : SUBSET OrderIds, places : SUBSET Levels]
    /\ monitored \in [OrderIds -> Monitors \cup {None}]
    /\ life \in [OrderIds -> Orders \cup {None}]
    /\ poll \in Answers \cup {None}
    /\ abandoned \subseteq OrderIds

\* Lots of order v in the fill events of a queue.
QueuedFill(q, v) ==
    LET upto[i \in 0 .. Len(q)] ==
            IF i = 0 THEN 0
            ELSE upto[i - 1] + IF q[i].type = "fill" /\ q[i].order = v
                               THEN q[i].size ELSE 0
    IN  upto[Len(q)]

\* The position never shows more of an order than the venue traded: no fill is
\* reported twice by repeated polls, by a poll and a placement that matched at
\* once, or by the last poll of an order that was cancelled.
NoOverbooking ==
    \A v \in OrderIds : venue[v] # None =>
        booked[v] + QueuedFill(queue, v) <= venue[v].matched

\* The program knows the order and it is untouched at the venue.
Quoting(v) ==
    /\ \E t \in Tasks : task[t].order = v
    /\ venue[v].status = "live" /\ venue[v].matched = 0

\* Reconciling again while placements and cancels are under way never has two
\* untouched orders quote the same level: what keeps a level from being quoted
\* twice is that an in-flight order counts as quoted until its OrderPlaced event
\* makes it pending.  An order whose post got no answer is not known, so it does
\* not count.
OneQuotePerLevel ==
    \A v, w \in OrderIds :
        Quoting(v) /\ Quoting(w) /\ venue[v].level = venue[w].level => v = w

\* Once an order is over for the poller's lifecycle engine, nothing more is
\* reported as traded or cancelled on it.
NothingAfterCancel ==
    [][\A v \in OrderIds : life[v] # None /\ IsTerminal(life[v]) =>
         \A i \in DOMAIN queue' \ DOMAIN queue :
             queue'[i].order = v => queue'[i].type = "placed"]_vars

\* What the venue traded on an order that is monitored is booked in the end,
\* unless the poller gives the order up: too many errors, too old, or 404.
FillsReachPosition ==
    \A v \in OrderIds : \A n \in 1 .. Size :
        (monitored[v] # None /\ venue[v].matched >= n)
            ~> (booked[v] >= n \/ v \in abandoned)

\* A cancelled order leaves the pending orders in the end, with the same excuse.
CancelsReachPending ==
    \A v \in OrderIds :
        (pending[v] # None /\ monitored[v] # None /\ venue[v].status = "canceled")
            ~> (pending[v] = None \/ v \in abandoned)

Queued(v, type) ==
    \E i \in DOMAIN queue : queue[i].order = v /\ queue[i].type = type

\* What order_executor.rs says of in-flight orders: on success OrderPlaced removes
\* them, on failure the task does.  So one whose task is done is in flight only
\* while an event of the placement is on its way.  (TLC refutes it: README, section 6.)
InFlightIsInFlight ==
    \A t \in in_flight :
        task[t].pc = "done" =>
            Queued(task[t].order, "placed") \/ Queued(task[t].order, "fill")

\* What pending_order.rs says of pending orders: they were placed and are not yet
\* filled, and a filled or cancelled one is removed.  So the end of a pending
\* order is still to be reported, unless the poller gave the order up.  (TLC refutes it:
\* README, section 6.)
PendingEnds ==
    \A v \in OrderIds : pending[v] # None /\ v \notin abandoned =>
        \/ monitored[v] # None
        \/ Queued(v, "fill") \/ Queued(v, "cancelled")

================================================================================
