------------------------------ MODULE PositionSync ------------------------------
(***************************************************************************)
(* Two sources of truth about the tokens held in live trading: fill events *)
(* that travel from the poller or a placement task through the event queue *)
(* to the position manager, and sync_positions, which every so often reads *)
(* the exchange's balance and writes it over a position that differs.      *)
(*                                                                         *)
(* One token is modelled.  The quote balance is synced by the same steps.  *)
(***************************************************************************)
EXTENDS Integers, Sequences

CONSTANTS
    MaxTrades,  \* trades of a behaviour, each of one lot
    None        \* Option::None

ASSUME SyncAssumption == MaxTrades \in Nat \ {0}

VARIABLES
    balance,     \* the exchange's balance of the token
    trades,      \* how many trades there were
    unreported,  \* [source -> [lot -> trades it has not put in an event yet]]
    queue,       \* fill events: lots bought (1) or sold (-1)
    position,    \* the manager's position: amount, and whether it has a price
    bought,      \* is the token in bought_mints?
    sync         \* what a running sync_positions has read, or None

vars == <<balance, trades, unreported, queue, position, bought, sync>>

Sources == {"poller", "task"}
Lots == {1, -1}

Amount == IF position = None THEN 0 ELSE position.amount

Init ==
    /\ balance = 0
    /\ trades = 0
    /\ unreported = [s \in Sources |-> [n \in Lots |-> 0]]
    /\ queue = <<>>
    /\ position = None
    /\ bought = FALSE
    /\ sync = None

-------------------------------------------------------------------------------

\* The exchange trades on an order that rests (the poller will see it) or as it
\* is placed (the placement's task reports it).
Trade(source, n) ==
    /\ trades < MaxTrades
    /\ balance + n >= 0
    /\ balance' = balance + n
    /\ trades' = trades + 1
    /\ unreported' = [unreported EXCEPT ![source][n] = @ + 1]
    /\ UNCHANGED <<queue, position, bought, sync>>

\* A fill event is queued.  The poller syncs and polls in one task.
Report(source, n) ==
    /\ unreported[source][n] > 0
    /\ source = "poller" => sync = None
    /\ unreported' = [unreported EXCEPT ![source][n] = @ - 1]
    /\ queue' = Append(queue, n)
    /\ UNCHANGED <<balance, trades, position, bought, sync>>

\* handle_order_filled for the next event.  update_position_for_buy gives up on
\* a position without an entry price; an empty position is dropped.
ProcessFill ==
    LET n       == Head(queue)
        before  == IF position = None THEN [amount |-> 0, priced |-> TRUE]
                                      ELSE position
        after   == IF n > 0 /\ ~before.priced THEN before
                   ELSE [before EXCEPT !.amount = @ + n]
    IN  /\ queue # <<>>
        /\ queue' = Tail(queue)
        /\ position' = IF after.amount = 0 THEN None ELSE after
        /\ bought' = (bought \/ n > 0)
        /\ UNCHANGED <<balance, trades, unreported, sync>>

\* A sync that looks at open positions only.
SyncStart_OpenOnly ==
    /\ sync = None
    /\ position # None
    /\ sync' = [expected |-> Amount, actual |-> None]
    /\ UNCHANGED <<balance, trades, unreported, queue, position, bought>>

\* sync_positions reads what is expected: an open position, or none of a token
\* that was bought before.
SyncStart ==
    /\ sync = None
    /\ position # None \/ bought
    /\ sync' = [expected |-> Amount, actual |-> None]
    /\ UNCHANGED <<balance, trades, unreported, queue, position, bought>>

\* get_token_balance answers, or fails and the token is skipped.
SyncRead ==
    /\ sync # None /\ sync.actual = None
    /\ sync' = [sync EXCEPT !.actual = balance]
    /\ UNCHANGED <<balance, trades, unreported, queue, position, bought>>

SyncFails ==
    /\ sync # None /\ sync.actual = None
    /\ sync' = None
    /\ UNCHANGED <<balance, trades, unreported, queue, position, bought>>

\* reconcile_position: the balance replaces the amount; a new position has no
\* entry price, since the balance API gives none.
Reconciled(actual) ==
    IF position = None THEN [amount |-> actual, priced |-> FALSE]
    ELSE [position EXCEPT !.amount = actual]

\* The balance is compared with what was expected when the sync started.
SyncApply ==
    /\ sync # None /\ sync.actual # None
    /\ position' = IF sync.actual = sync.expected THEN position
                   ELSE Reconciled(sync.actual)
    /\ sync' = None
    /\ UNCHANGED <<balance, trades, unreported, queue, bought>>

Next ==
    \/ \E source \in Sources, n \in Lots : Trade(source, n) \/ Report(source, n)
    \/ ProcessFill
    \/ SyncStart \/ SyncRead \/ SyncFails \/ SyncApply

\* Fills are reported and processed, syncs come again and again, and the API
\* answers again and again.  Nothing makes the exchange trade.
Fairness ==
    /\ \A source \in Sources, n \in Lots : SF_vars(Report(source, n))
    /\ WF_vars(ProcessFill)
    /\ WF_vars(SyncStart)
    /\ SF_vars(SyncRead)
    /\ WF_vars(SyncApply)

Spec == Init /\ [][Next]_vars /\ Fairness

-------------------------------------------------------------------------------

\* The variables have their types; what waits to be booked is bounded by the trades.
\* (Proved: PositionProofs.)
TypeOK ==
    /\ balance \in 0 .. MaxTrades
    /\ trades \in 0 .. MaxTrades
    /\ unreported \in [Sources -> [Lots -> 0 .. MaxTrades]]
    /\ queue \in Seq(Lots) /\ Len(queue) <= MaxTrades
    /\ position = None \/ position \in [amount : Int, priced : BOOLEAN]
    /\ bought \in BOOLEAN
    /\ \/ sync = None
       \/ sync \in [expected : Int, actual : {None} \cup 0 .. MaxTrades]

\* Whatever a sync that raced with fills did to the position, once the exchange
\* stops trading the position comes to the balance and stays there.
Converges == <>[](Amount = balance)

Settled ==
    /\ queue = <<>>
    /\ \A source \in Sources, n \in Lots : unreported[source][n] = 0

\* What poller.rs says of a sync: it reconciles the position to match the exchange
\* state.  So with every fill booked and no sync under way, the two agree.  (TLC
\* refutes it: README, section 6.)
SettledMatchesExchange ==
    Settled /\ sync = None => Amount = balance

================================================================================
