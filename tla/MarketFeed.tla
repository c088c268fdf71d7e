------------------------------- MODULE MarketFeed -------------------------------
(***************************************************************************)
(* Which markets the Polymarket subscriber listens to.  The discovery      *)
(* service lists the open markets page by page, the subscription manager   *)
(* compares them with what is subscribed, and the app replaces the         *)
(* WebSocket when they differ.  The two hand-overs are broadcast channels  *)
(* of capacity 1.  Any trouble with a connection ends the process, and the *)
(* orchestrator starts it again.                                           *)
(*                                                                         *)
(* Every market has the same number of assets and no asset is shared, so   *)
(* sets of assets are told by sets of markets.  Markets are numbered in    *)
(* the order they resolve in, which is also the order the API lists them.  *)
(***************************************************************************)
EXTENDS Integers, FiniteSets, Option

CONSTANTS
    NumMarkets,     \* markets there can be
    MaxMarkets,     \* markets that max_subscriptions has room for
    BatchSize,      \* events per page of the API, 100 in the code
    MaxListings,    \* bound: markets listed or delisted in a behaviour
    MaxFaults       \* bound: live connections the exchange closes or silences

Markets == 1 .. NumMarkets

ASSUME MarketFeedAssumption ==
    /\ {NumMarkets, MaxMarkets, BatchSize} \subseteq Nat \ {0}
    /\ {MaxListings, MaxFaults} \subseteq Nat

ASSUME NoneAssumption ==
    \A markets \in SUBSET Markets :
        /\ markets # None
        /\ \A open, silent \in BOOLEAN :
              [markets |-> markets, open |-> open, silent |-> silent] # None

VARIABLES
    listed,        \* markets the exchange has open
    listings,      \* how often that changed
    faults,        \* how many faults of a live connection there were
    fetch,         \* the discovery under way, or None
    discovered,    \* discovery channel: markets, or None when it is empty
    current,       \* SubscriptionState.current_assets
    update,        \* subscription channel: markets, or None when it is empty
    lagged,        \* was an update overwritten before the app received it?
    app,           \* where run_with_discovery is
    subscription,  \* the update it acts on, or None
    ws,            \* the WebSocket client's connection, or None
    orphaned       \* does the ping task of an old connection still run?

external == <<listed, listings, faults>>
volatile == <<fetch, discovered, current, update, lagged, app, subscription, ws,
              orphaned>>
vars == <<external, volatile>>

Fresh(phase) ==
    /\ fetch' = None /\ discovered' = None
    /\ current' = {}
    /\ update' = None /\ lagged' = FALSE
    /\ app' = phase /\ subscription' = None
    /\ ws' = None /\ orphaned' = FALSE

Init ==
    /\ listed \in SUBSET Markets
    /\ listings = 0 /\ faults = 0
    /\ fetch = None /\ discovered = None
    /\ current = {}
    /\ update = None /\ lagged = FALSE
    /\ app = "waiting" /\ subscription = None
    /\ ws = None /\ orphaned = FALSE

Up == app # "down"

\* How many of the markets come before m.
Rank(m, markets) == Cardinality({n \in markets : n < m})

-------------------------------------------------------------------------------
(* The exchange *)

ListMarkets(markets) ==
    /\ listings < MaxListings
    /\ listed' = markets
    /\ listings' = listings + 1
    /\ UNCHANGED <<faults, volatile>>

ListOrDelist(m) ==
    ListMarkets(IF m \in listed THEN listed \ {m} ELSE listed \cup {m})

-------------------------------------------------------------------------------
(* The discovery service *)

StartFetch ==
    /\ Up /\ fetch = None
    /\ fetch' = [offset |-> 0, found |-> {}, complete |-> FALSE]
    /\ UNCHANGED <<external, discovered, current, update, lagged, app, subscription,
                   ws, orphaned>>

\* fetch_all_events reads the pages one after the other while markets come and go;
\* a page that is not full is the last one.
FetchPage ==
    LET page == {m \in listed :
                    Rank(m, listed) \in fetch.offset .. fetch.offset + BatchSize - 1}
    IN  /\ Up /\ fetch # None /\ ~fetch.complete
        /\ fetch' = [offset   |-> fetch.offset + BatchSize,
                     found    |-> fetch.found \cup page,
                     complete |-> Cardinality(page) < BatchSize]
        /\ UNCHANGED <<external, discovered, current, update, lagged, app,
                       subscription, ws, orphaned>>

\* A page that cannot be read fails the whole discovery until the next tick.
FetchFails ==
    /\ Up /\ fetch # None /\ ~fetch.complete
    /\ fetch' = None
    /\ UNCHANGED <<external, discovered, current, update, lagged, app, subscription,
                   ws, orphaned>>

\* After populate_metadata_cache the markets are sent; a list the manager has not
\* received is overwritten.
BroadcastMarkets ==
    /\ Up /\ fetch # None /\ fetch.complete
    /\ discovered' = fetch.found
    /\ fetch' = None
    /\ UNCHANGED <<external, current, update, lagged, app, subscription, ws, orphaned>>

-------------------------------------------------------------------------------
(* The subscription manager *)

\* apply_subscription_limit takes the markets that resolve soonest.
Limited(markets) ==
    {m \in markets : Rank(m, markets) < MaxMarkets}

\* A manager that tells the app what it found and remembers what is allowed.
Announced_Unlimited(markets) == markets

\* What is sent to the app.
Announced(markets) == Limited(markets)

\* A comparison that only looks for new markets.
Changed_Additions(markets) == markets \ current # {}

\* An empty list is not believed.
Changed(markets) == markets # {} /\ markets # current

\* process_market_update: a list that differs from what is subscribed is cut to the
\* limit, remembered and sent.  The comparison is made before the cut.
ProcessMarketUpdate ==
    /\ Up /\ discovered # None
    /\ discovered' = None
    /\ IF Changed(discovered)
       THEN /\ current' = Limited(discovered)
            /\ update' = Announced(discovered)
            /\ lagged' = (lagged \/ update # None)
       ELSE UNCHANGED <<current, update, lagged>>
    /\ UNCHANGED <<external, fetch, app, subscription, ws, orphaned>>

-------------------------------------------------------------------------------
(* The app *)

\* The process ends: the app returned, or a task called process::exit.
Exit == Fresh("down") /\ UNCHANGED external

\* The orchestrator starts it again.
Restart == app = "down" /\ Fresh("waiting") /\ UNCHANGED external

\* recv on the subscription channel; Lagged is an error, taken for a closed channel.
ReceivesUpdate ==
    /\ update # None /\ ~lagged
    /\ subscription' = update
    /\ update' = None

ReceiveInitial ==
    /\ app = "waiting"
    /\ ReceivesUpdate
    /\ app' = "starting"
    /\ UNCHANGED <<external, fetch, discovered, current, lagged, ws, orphaned>>

\* ws_handle.abort() stops the client's task; an open connection stays open with
\* the ping task the client had spawned.
Resubscribe ==
    /\ app = "running"
    /\ ReceivesUpdate
    /\ orphaned' = (orphaned \/ ws.open)
    /\ ws' = None
    /\ app' = "reconnecting"
    /\ UNCHANGED <<external, fetch, discovered, current, lagged>>

UpdateLagged == app \in {"waiting", "running"} /\ lagged /\ Exit

\* After the publishers are connected, or after a pause of half a second.
SpawnWebsocketClient ==
    /\ app \in {"starting", "reconnecting"}
    /\ ws' = [markets |-> subscription, open |-> FALSE, silent |-> FALSE]
    /\ subscription' = None
    /\ app' = "running"
    /\ UNCHANGED <<external, fetch, discovered, current, update, lagged, orphaned>>

-------------------------------------------------------------------------------
(* The connection *)

Connects ==
    /\ app = "running" /\ ~ws.open
    /\ ws' = [ws EXCEPT !.open = TRUE]
    /\ UNCHANGED <<external, fetch, discovered, current, update, lagged, app,
                   subscription, orphaned>>

ConnectFails == app = "running" /\ ~ws.open /\ Exit

\* Close, an error, the end of the stream or a failed ping of the live connection.
ConnectionLost ==
    /\ app = "running" /\ ws.open
    /\ faults < MaxFaults
    /\ faults' = faults + 1
    /\ Fresh("down")
    /\ UNCHANGED <<listed, listings>>

\* The exchange stops sending without closing.
GoesSilent ==
    /\ app = "running" /\ ws.open /\ ~ws.silent
    /\ faults < MaxFaults
    /\ faults' = faults + 1
    /\ ws' = [ws EXCEPT !.silent = TRUE]
    /\ UNCHANGED <<listed, listings, fetch, discovered, current, update, lagged,
                   app, subscription, orphaned>>

\* The exchange closes a connection nobody reads; its ping task ends the process.
OrphanPingFails == orphaned /\ Exit

\* health_check_task: something is subscribed and too few events came.
HealthCheckFails ==
    /\ app \in {"starting", "running", "reconnecting"}
    /\ current # {}
    /\ ws # None => ~ws.open \/ ws.silent
    /\ Exit

-------------------------------------------------------------------------------

Next ==
    \/ \E m \in Markets : ListOrDelist(m)
    \/ StartFetch \/ FetchPage \/ FetchFails \/ BroadcastMarkets
    \/ ProcessMarketUpdate
    \/ ReceiveInitial \/ Resubscribe \/ UpdateLagged \/ SpawnWebsocketClient
    \/ Connects \/ ConnectFails \/ ConnectionLost \/ GoesSilent
    \/ OrphanPingFails \/ HealthCheckFails
    \/ Restart

\* Every task keeps running, the orchestrator restarts the process, and the API,
\* as well as the connection, succeeds again and again.
Fairness ==
    /\ WF_vars(StartFetch) /\ SF_vars(FetchPage) /\ SF_vars(FetchPage /\ fetch'.complete)
    /\ SF_vars(BroadcastMarkets)
    /\ SF_vars(ProcessMarketUpdate)
    /\ SF_vars(ReceiveInitial) /\ SF_vars(Resubscribe)
    /\ WF_vars(UpdateLagged)
    /\ SF_vars(SpawnWebsocketClient)
    /\ SF_vars(Connects)
    /\ WF_vars(HealthCheckFails)
    /\ WF_vars(Restart)

Spec == Init /\ [][Next]_vars /\ Fairness

-------------------------------------------------------------------------------

\* What may be subscribed.
Subscriptions == {s \in SUBSET Markets : Cardinality(s) <= MaxMarkets}

\* The variables have their types, and no subscription goes over the limit.
TypeOK ==
    /\ listed \in SUBSET Markets
    /\ listings \in 0 .. MaxListings /\ faults \in 0 .. MaxFaults
    /\ \/ fetch = None
       \/ fetch \in [offset : Nat, found : SUBSET Markets, complete : BOOLEAN]
    /\ discovered = None \/ discovered \in SUBSET Markets
    /\ current \in Subscriptions
    /\ update = None \/ update \in Subscriptions
    /\ lagged \in BOOLEAN
    /\ app \in {"waiting", "starting", "running", "reconnecting", "down"}
    /\ subscription = None \/ subscription \in Subscriptions
    /\ \/ ws = None
       \/ ws \in [markets : Subscriptions, open : BOOLEAN, silent : BOOLEAN]
    /\ orphaned \in BOOLEAN

\* The manager counts its subscriptions, and the health monitor trusts the count,
\* without asking the app: what the manager remembers is what the connection
\* listens to, or will as soon as the app has caught up with its channel.
ConnectionFollowsManager ==
    Up => current = IF update # None THEN update
                    ELSE IF subscription # None THEN subscription
                    ELSE IF ws # None THEN ws.markets
                    ELSE {}

\* Once the open markets stay the same (MaxListings sees to it) and fit, the app
\* comes to listen to all of them and to nothing else for good, whatever was missed
\* between two pages, ended the process or fell silent before.
Settles ==
    <>[](Cardinality(listed) \in 1 .. MaxMarkets)
        => <>[](app = "running" /\ ws.open /\ ~ws.silent /\ ws.markets = listed)

\* An exit for a failed ping means that the connection was lost.  (TLC refutes it:
\* README, section 6.)
PingExitMeansLoss ==
    [][OrphanPingFails => ws = None \/ ~ws.open]_vars

================================================================================
