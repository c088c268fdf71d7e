-------------------------------- MODULE ExitFlow --------------------------------
(***************************************************************************)
(* How the live trade server sells a position.  The event loop (price and  *)
(* fill events, the timer, the strategy's signals) decides, marks the      *)
(* token in pending_sells and spawns a task; the task sells and reports    *)
(* the fill, or clears the mark and counts the failure, each under the     *)
(* manager's lock but not both under one.                                  *)
(*                                                                         *)
(* One token whose exit condition is met whenever it is asked is modelled, *)
(* traded in lots.                                                         *)
(***************************************************************************)
EXTENDS Integers, Sequences, SequencesExt, FiniteSets, FiniteSetsExt, Functions

CONSTANTS
    MaxSellFailures,  \* max_sell_failures
    MaxRetries,       \* max_retries of execute_market_order, 3 in the code
    Accepted,         \* order types that execute_market_order sells
    MaxTrades,        \* bound: lots bought in a behaviour
    MaxTasks,         \* bound: tasks and exit orders at once
    MaxQueue,         \* bound: queued events when a price or a signal comes
    None              \* Option::None

ASSUME ExitFlowAssumption ==
    /\ {MaxSellFailures, MaxRetries, MaxTrades, MaxTasks, MaxQueue}
            \subseteq Nat \ {0}
    /\ Accepted \subseteq {"Sell", "MarketSell"}

Slots == 1 .. MaxTasks

\* The phases in which an exit can still sell, and those in which it still has to
\* clear the mark.
Out    == {"trying", "resting", "modifying"}
Marked == Out \cup {"failed", "unplaced"}

\* A position has no fewer lots than were sold and no more than were bought.
Amounts   == -MaxTrades .. MaxTrades
Positions == [amount : Amounts \ {0}, failures : 0 .. MaxSellFailures]
Tasks     == [type : {"Sell", "MarketSell", "LimitSell"}, amount : Amounts,
              phase : Marked \cup {"cleared"}, attempt : 1 .. MaxRetries]

Bookings == {"fill", "merged"}
Events   == [kind : {"fill"}, change : Amounts, exit : BOOLEAN]
              \cup [kind : {"merged"}, change : {-1}, exit : {FALSE}]
              \cup [kind : {"updated"}, copy : Positions]

ASSUME NoneAssumption == None \notin Positions \cup Tasks

VARIABLES
    balance,     \* lots the exchange holds for us
    trades,      \* lots bought so far
    unreported,  \* lots bought that the poller has not put in an event yet
    managed,     \* is the exit mode StrategyManaged?
    position,    \* the manager's position: amount and sell_failure_count, or None
    pending,     \* is the token in pending_sells?
    queue,       \* the event queue
    tasks,       \* the tasks that sell, and the orders they left at the exchange
    untold,      \* history variable: lots that left without the manager's knowledge
    leftover,    \* history variable: did an exit end and leave its mark?
    interfered   \* history variable: did a position close during an exit?

exchange == <<balance, trades, unreported>>
manager  == <<position, pending>>
ghosts   == <<leftover, interfered>>
vars == <<exchange, managed, manager, queue, tasks, untold, ghosts>>

Amount == IF position = None THEN 0 ELSE position.amount
InPhase(phases) == {s \in Slots : tasks[s] # None /\ tasks[s].phase \in phases}

Init ==
    /\ balance = 0 /\ trades = 0 /\ unreported = 0
    /\ managed \in BOOLEAN
    /\ position = None /\ pending = FALSE
    /\ queue = <<>>
    /\ tasks = [s \in Slots |-> None]
    /\ untold = 0
    /\ leftover = FALSE /\ interfered = FALSE

Change(kind, change, exit) == [kind |-> kind, change |-> change, exit |-> exit]
Update(copy) == [kind |-> "updated", copy |-> copy]

-------------------------------------------------------------------------------
(* Trades that are no exits *)

Buy ==
    /\ trades < MaxTrades
    /\ balance' = balance + 1 /\ trades' = trades + 1
    /\ unreported' = unreported + 1
    /\ UNCHANGED <<managed, manager, queue, tasks, untold, ghosts>>

ReportBuy ==
    /\ unreported > 0
    /\ unreported' = unreported - 1
    /\ queue' = Append(queue, Change("fill", 1, FALSE))
    /\ UNCHANGED <<balance, trades, managed, manager, tasks, untold, ghosts>>

\* A quote of the strategy sells a lot, or a pair is merged.
SellOrMerge(kind) ==
    /\ balance > 0
    /\ balance' = balance - 1
    /\ queue' = Append(queue, Change(kind, -1, FALSE))
    /\ UNCHANGED <<trades, unreported, managed, manager, tasks, untold, ghosts>>

-------------------------------------------------------------------------------
(* The event loop *)

\* update_price queues a copy of the position.
UpdatePrice ==
    /\ position # None
    /\ Len(queue) < MaxQueue
    /\ queue' = Append(queue, Update(position))
    /\ UNCHANGED <<exchange, managed, manager, tasks, untold, ghosts>>

\* A fill that honours the clear_position of the order that asked for it.
Booked_Cleared(event) == IF event.exit THEN 0 ELSE Amount + event.change

\* A sale booked without its sign.
Booked_Unsigned(event) == Amount + 1

\* The executor reports every fill with clear_position unset.
Booked(event) == Amount + event.change

\* An exit's fill that always takes the mark away.
Closes_OnFill(amount) == TRUE

\* The mark goes with the position.
Closes(amount) == amount = 0

\* handle_order_filled and handle_redemption.  A merge of a token without a
\* position is skipped; an update is queued for a position that was there and stays.
Book ==
    LET event   == Head(queue)
        skipped == event.kind = "merged" /\ position = None
        amount  == Booked(event)
        booked  == [amount   |-> amount,
                    failures |-> IF position = None THEN 0 ELSE position.failures]
    IN  /\ queue # <<>> /\ event.kind \in Bookings
        /\ position' = IF skipped \/ amount = 0 THEN None ELSE booked
        /\ pending' = (pending /\ (skipped \/ ~Closes(amount)))
        /\ queue' = IF position # None /\ position' # None
                    THEN Append(Tail(queue), Update(position'))
                    ELSE Tail(queue)
        /\ untold' = IF skipped THEN untold - event.change ELSE untold
        /\ leftover' = (pending' /\ (leftover \/ event.exit))
        /\ interfered' =
              (interfered \/ (~skipped /\ amount = 0 /\ InPhase(Marked) # {}))
        /\ UNCHANGED <<exchange, managed, tasks>>

\* try_mark_pending_sell succeeds and a task is spawned.
Spawn(type, amount) ==
    /\ ~pending
    /\ pending' = TRUE
    /\ leftover' = FALSE
    /\ \E s \in Slots :
          /\ tasks[s] = None
          /\ \A r \in Slots : r < s => tasks[r] # None
          /\ tasks' = [tasks EXCEPT ![s] = [type |-> type, amount |-> amount,
                                            phase |-> "trying", attempt |-> 1]]
    /\ UNCHANGED <<exchange, managed, position, untold, interfered>>

\* handle_position_updated looks at the copy in the event, at no exit mode, and not
\* at whether the position is still there.
WantsExit(copy) == copy.amount > 0 /\ copy.failures < MaxSellFailures

ExitOnUpdate ==
    /\ queue # <<>> /\ Head(queue).kind = "updated"
    /\ WantsExit(Head(queue).copy)
    /\ Spawn("Sell", Head(queue).copy.amount)
    /\ queue' = Tail(queue)

NoExitOnUpdate ==
    /\ queue # <<>> /\ Head(queue).kind = "updated"
    /\ WantsExit(Head(queue).copy) => pending
    /\ queue' = Tail(queue)
    /\ UNCHANGED <<exchange, managed, manager, tasks, untold, ghosts>>

\* collect_positions_to_sell: automatic mode, not marked, of whatever amount.
CollectedByTimer == ~managed /\ ~pending /\ position # None

\* handle_timer_event
ExitOnTimer ==
    /\ CollectedByTimer
    /\ position.failures < MaxSellFailures
    /\ Spawn("MarketSell", position.amount)
    /\ UNCHANGED queue

\* handle_exit_signal does not look at the failures.
ExitOnSignal(type) ==
    /\ position # None /\ position.amount > 0
    /\ Spawn(type, position.amount)
    /\ UNCHANGED queue

-------------------------------------------------------------------------------
(* Market orders *)

\* A fill-or-kill order sells all it was asked to.
SellMatched(s) ==
    LET task == tasks[s]
    IN  /\ s \in InPhase({"trying"}) /\ task.type \in Accepted
        /\ task.amount \in 1 .. balance
        /\ balance' = balance - task.amount
        /\ queue' = Append(queue, Change("fill", -task.amount, TRUE))
        /\ tasks' = [tasks EXCEPT ![s] = None]
        /\ UNCHANGED <<trades, unreported, managed, manager, untold, ghosts>>

\* The type is not accepted, the order is killed, or the last attempt fails.
SellFails(s) ==
    /\ s \in InPhase({"trying"}) /\ tasks[s].type # "LimitSell"
    /\ tasks' = [tasks EXCEPT ![s].phase = "failed"]
    /\ UNCHANGED <<exchange, managed, manager, queue, untold, ghosts>>

\* The order could not be created, or the answer to it was lost: the order may have
\* sold and is posted again.
SellRetried(s, sold) ==
    /\ s \in InPhase({"trying"}) /\ tasks[s].type \in Accepted
    /\ tasks[s].attempt < MaxRetries
    /\ sold \in 0 .. balance
    /\ balance' = balance - sold
    /\ untold' = untold + sold
    /\ tasks' = [tasks EXCEPT ![s].attempt = @ + 1]
    /\ UNCHANGED <<trades, unreported, managed, manager, queue, ghosts>>

\* A failure that leaves the mark where it is.
MarkAfterFailure_Kept == pending

\* clear_pending_sell takes the mark away, whoever set it.
MarkAfterFailure == FALSE

\* After a failed market order, a failed placement or a cancellation.
ClearPendingSell(s) ==
    /\ s \in InPhase({"failed", "unplaced"})
    /\ pending' = MarkAfterFailure
    /\ leftover' = (leftover /\ pending')
    /\ tasks' = IF tasks[s].phase = "failed"
                THEN [tasks EXCEPT ![s].phase = "cleared"]
                ELSE [tasks EXCEPT ![s] = None]
    /\ UNCHANGED <<exchange, managed, position, queue, untold, interfered>>

\* increment_sell_failure_count, unless the position is gone.  The count is only
\* compared with max_sell_failures, so it is not followed any further.
CountFailure(s) ==
    /\ s \in InPhase({"cleared"})
    /\ position' = IF position = None THEN None
                   ELSE [position EXCEPT !.failures = Min({@ + 1, MaxSellFailures})]
    /\ tasks' = [tasks EXCEPT ![s] = None]
    /\ UNCHANGED <<exchange, managed, pending, queue, untold, ghosts>>

-------------------------------------------------------------------------------
(* Limit orders *)

\* spawn_limit_order_execution, or the second half of spawn_modify_order.
PlaceLimit(s) ==
    /\ \/ s \in InPhase({"trying"}) /\ tasks[s].type = "LimitSell"
       \/ s \in InPhase({"modifying"})
    /\ tasks' = [tasks EXCEPT ![s].phase = "resting"]
    /\ UNCHANGED <<exchange, managed, manager, queue, untold, ghosts>>

\* The placement fails, or the strategy's cancel signal takes the order away.
EndLimit(s) ==
    /\ \/ s \in InPhase({"trying"}) /\ tasks[s].type = "LimitSell"
       \/ s \in InPhase({"modifying", "resting"})
    /\ tasks' = [tasks EXCEPT ![s].phase = "unplaced"]
    /\ UNCHANGED <<exchange, managed, manager, queue, untold, ghosts>>

\* handle_modify_order_signal: the old order is cancelled, the new one has the
\* amount the position has now.
ModifyLimit(s) ==
    /\ s \in InPhase({"resting"})
    /\ position # None /\ position.amount > 0
    /\ tasks' = [tasks EXCEPT ![s].phase = "modifying", ![s].amount = position.amount]
    /\ UNCHANGED <<exchange, managed, manager, queue, untold, ghosts>>

FillLimit(s) ==
    LET last == tasks[s].amount = 1
    IN  /\ s \in InPhase({"resting"})
        /\ balance > 0
        /\ balance' = balance - 1
        /\ queue' = Append(queue, Change("fill", -1, last))
        /\ tasks' = IF last THEN [tasks EXCEPT ![s] = None]
                            ELSE [tasks EXCEPT ![s].amount = @ - 1]
        /\ UNCHANGED <<trades, unreported, managed, manager, untold, ghosts>>

\* The exchange ends the order: nothing clears the mark.
ExpireLimit(s) ==
    /\ s \in InPhase({"resting"})
    /\ tasks' = [tasks EXCEPT ![s] = None]
    /\ leftover' = pending
    /\ UNCHANGED <<exchange, managed, manager, queue, untold, interfered>>

-------------------------------------------------------------------------------

Next ==
    \/ Buy \/ ReportBuy
    \/ \E kind \in Bookings : SellOrMerge(kind)
    \/ UpdatePrice \/ Book \/ ExitOnUpdate \/ NoExitOnUpdate
    \/ ExitOnTimer
    \/ \E type \in {"Sell", "LimitSell"} : ExitOnSignal(type)
    \/ \E s \in Slots :
          \/ SellMatched(s) \/ SellFails(s) \/ ClearPendingSell(s) \/ CountFailure(s)
          \/ tasks[s] # None /\ \E sold \in {0, tasks[s].amount} : SellRetried(s, sold)
          \/ PlaceLimit(s) \/ EndLimit(s) \/ ModifyLimit(s) \/ FillLimit(s)
          \/ ExpireLimit(s)

\* The poller, the event loop and every task keep running, and the timer finds the
\* token unmarked again and again.  The strategy promises nothing.
Fairness ==
    /\ WF_vars(ReportBuy) /\ WF_vars(Book) /\ WF_vars(ExitOnUpdate \/ NoExitOnUpdate)
    /\ SF_vars(ExitOnTimer)
    /\ \A s \in Slots :
          /\ WF_vars(SellMatched(s) \/ SellFails(s))
          /\ WF_vars(ClearPendingSell(s)) /\ WF_vars(CountFailure(s))
          /\ WF_vars(s \notin InPhase({"resting"}) /\ (PlaceLimit(s) \/ EndLimit(s)))

Spec == Init /\ [][Next]_vars /\ Fairness

-------------------------------------------------------------------------------

\* The variables have their types.
TypeOK ==
    /\ balance \in 0 .. MaxTrades /\ trades \in 0 .. MaxTrades
    /\ unreported \in 0 .. MaxTrades
    /\ managed \in BOOLEAN
    /\ position = None \/ position \in Positions
    /\ pending \in BOOLEAN
    /\ queue \in Seq(Events)
    /\ tasks \in [Slots -> Tasks \cup {None}]
    /\ untold \in 0 .. MaxTrades
    /\ leftover \in BOOLEAN /\ interfered \in BOOLEAN

\* What the queued bookings change, in all.
Queued ==
    LET upto[i \in 0 .. Len(queue)] ==
            IF i = 0 THEN 0
            ELSE upto[i - 1] + IF queue[i].kind \in Bookings THEN queue[i].change ELSE 0
    IN  upto[Len(queue)]

\* However buys, exits, merges and retries overlap, the manager's amount differs from
\* the exchange's balance by the fills on their way and by the named losses only:
\* fill-or-kill orders whose answer was lost, and merges booked before the fill that
\* made the position.
BooksFollowExchange == Amount + unreported + Queued = balance + untold

\* pending_sells lets one exit out at a time, whichever of the four triggers asks,
\* unless a position closed under an exit and took its mark away.
OneExitAtATime == ~interfered => Cardinality(InPhase(Out)) <= 1

\* In automatic mode an exit that fails, whatever raced with it, is tried again until
\* the position is gone or has used up its failures; the mark is kept for good only
\* by an exit order that rests or is being modified, or by an exit that ended without
\* closing the position.
ExitsGetThrough ==
    ~managed =>
        <>[](\/ position = None \/ position.failures >= MaxSellFailures
             \/ pending /\ (leftover \/ InPhase({"resting", "modifying"}) # {}))

\* What the event loop says of a token it finds marked: a sell operation is in
\* progress.  (TLC refutes it: README, section 6.)
MarkMeansSelling ==
    pending => \/ InPhase(Marked) # {}
               \/ \E i \in DOMAIN queue : queue[i].kind = "fill" /\ queue[i].exit

\* What the guides say of max_sell_failures: a position that failed to sell so often
\* is forced out.  (TLC refutes it: README, section 6.)
ForcedExit ==
    [](position # None /\ position.failures >= MaxSellFailures => <>(position = None))

================================================================================
