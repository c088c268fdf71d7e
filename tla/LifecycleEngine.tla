---------------------------- MODULE LifecycleEngine ----------------------------
(***************************************************************************)
(* The lifecycle engine shared by the backtest, paper and live adapters    *)
(* (execution/lifecycle/engine.rs): the table of logical orders, the index *)
(* by client order id and the index by venue order id.  One action per     *)
(* record_* method; a call that returns an error changes nothing and is    *)
(* not a step.  Each adapter holds the engine behind a lock for one call,  *)
(* so a call is one atomic step.                                           *)
(***************************************************************************)
EXTENDS LifecycleOrder

CONSTANTS
    LifecycleIds,   \* the ids adapters or Uuid::new_v4 produce
    ClientIds,      \* client order ids
    VenueIds,       \* order ids given by the venue
    Sizes,          \* sizes of orders and of fills, in lots
    None            \* Option::None, and an absent entry of a map

ASSUME SizesAssumption == Sizes \subseteq Nat \ {0}
ASSUME NoneAssumption == None \notin LifecycleIds \cup ClientIds \cup VenueIds

VARIABLES
    orders,              \* [lifecycle id -> its record, or None]
    client_to_lifecycle, \* [client id -> lifecycle id, or None]
    venue_to_lifecycle   \* [venue id -> lifecycle id, or None]

vars == <<orders, client_to_lifecycle, venue_to_lifecycle>>

Order == [ client           : ClientIds,
           venue            : VenueIds \cup {None},
           original         : Sizes,
           remaining        : Nat,
           state            : States,
           cancel_requested : BOOLEAN ]

ASSUME NoneIsNoOrder == None \notin Order

\* LifecycleOrderRef: an order is named by any of its three ids.
Refs == [by : {"lifecycle"}, id : LifecycleIds]
          \cup [by : {"client"}, id : ClientIds]
          \cup [by : {"venue"}, id : VenueIds]

Init ==
    /\ orders = [l \in LifecycleIds |-> None]
    /\ client_to_lifecycle = [c \in ClientIds |-> None]
    /\ venue_to_lifecycle = [v \in VenueIds |-> None]

Known(l) == orders[l] # None

\* resolve_lifecycle_id: ref names the order l.
Resolves(ref, l) ==
    \/ ref.by = "lifecycle" /\ ref.id = l /\ Known(l)
    \/ ref.by = "client" /\ client_to_lifecycle[ref.id] = l
    \/ ref.by = "venue" /\ venue_to_lifecycle[ref.id] = l

\* BindVenue without the check for a second venue id of the same order.
BindVenue_Rebinds(l, v) ==
    /\ venue_to_lifecycle[v] \in {None, l}
    /\ venue_to_lifecycle' = [venue_to_lifecycle EXCEPT ![v] = l]

\* The checks on an incoming venue id, and ensure_venue_mapping.
BindVenue(l, v) ==
    /\ orders[l].venue \in {None, v}
    /\ venue_to_lifecycle[v] \in {None, l}
    /\ venue_to_lifecycle' = [venue_to_lifecycle EXCEPT ![v] = l]

\* The record of an order that is being submitted.
Placed(c, size) ==
    [client           |-> c,
     venue            |-> None,
     original         |-> size,
     remaining        |-> size,
     state            |-> "SubmitPending",
     cancel_requested |-> FALSE]

\* record_place_request without the duplicate check on the client id.
RecordPlaceRequest_Reuses(l, c, size) ==
    /\ ~Known(l)
    /\ orders' = [orders EXCEPT ![l] = Placed(c, size)]
    /\ client_to_lifecycle' = [client_to_lifecycle EXCEPT ![c] = l]
    /\ UNCHANGED venue_to_lifecycle

\* ... without the duplicate check on the lifecycle id: a new order takes the
\* record of an old one.
RecordPlaceRequest_Overwrites(l, c, size) ==
    /\ client_to_lifecycle[c] = None
    /\ orders' = [orders EXCEPT ![l] = Placed(c, size)]
    /\ client_to_lifecycle' = [client_to_lifecycle EXCEPT ![c] = l]
    /\ UNCHANGED venue_to_lifecycle

RecordPlaceRequest(l, c, size) ==
    /\ client_to_lifecycle[c] = None
    /\ ~Known(l)
    /\ orders' = [orders EXCEPT ![l] = Placed(c, size)]
    /\ client_to_lifecycle' = [client_to_lifecycle EXCEPT ![c] = l]
    /\ UNCHANGED venue_to_lifecycle

RecordPlaceSuccess(l, v) ==
    /\ ~IsTerminal(orders[l])
    /\ BindVenue(l, v)
    /\ orders' = [orders EXCEPT ![l] =
                    [AfterPlaceSuccess(@) EXCEPT !.venue = v]]
    /\ UNCHANGED client_to_lifecycle

RecordPlaceRejected(l) ==
    /\ orders[l].state = "SubmitPending"
    /\ orders' = [orders EXCEPT ![l].state = "Rejected"]
    /\ UNCHANGED <<client_to_lifecycle, venue_to_lifecycle>>

\* An unknown order is ignored or refused, by unknown_order_cancel_policy:
\* neither changes the engine.
RecordCancelRequest(l) ==
    /\ orders' = [orders EXCEPT ![l] = AfterCancelRequest(@)]
    /\ UNCHANGED <<client_to_lifecycle, venue_to_lifecycle>>

RecordFillEvidence(l, size) ==
    /\ orders' = [orders EXCEPT ![l] = AfterFill(@, size)]
    /\ UNCHANGED <<client_to_lifecycle, venue_to_lifecycle>>

\* v is None when the evidence carries no venue id.
RecordTerminalEvidence(l, reason, v) ==
    /\ ~IsTerminal(orders[l])
    /\ TerminalAllowed(orders[l], reason)
    /\ \/ /\ v = None
          /\ orders' = [orders EXCEPT ![l] = AfterTerminal(@, reason)]
          /\ UNCHANGED venue_to_lifecycle
       \/ /\ v # None
          /\ BindVenue(l, v)
          /\ orders' = [orders EXCEPT ![l] =
                          [AfterTerminal(@, reason) EXCEPT !.venue = v]]
    /\ UNCHANGED client_to_lifecycle

RecordCancelConfirmed(l, v) == RecordTerminalEvidence(l, "Cancelled", v)

\* A call about an order the reference given by the adapter resolves to.
Evidence(l) ==
    \/ \E v \in VenueIds : RecordPlaceSuccess(l, v)
    \/ RecordPlaceRejected(l)
    \/ RecordCancelRequest(l)
    \/ \E size \in Sizes : RecordFillEvidence(l, size)
    \/ \E v \in VenueIds \cup {None} : RecordCancelConfirmed(l, v)
    \/ \E reason \in TerminalReasons, v \in VenueIds \cup {None} :
          RecordTerminalEvidence(l, reason, v)

Next ==
    \/ \E l \in LifecycleIds, c \in ClientIds, size \in Sizes :
          RecordPlaceRequest(l, c, size)
    \/ \E ref \in Refs, l \in LifecycleIds : Resolves(ref, l) /\ Evidence(l)

Spec == Init /\ [][Next]_vars

-------------------------------------------------------------------------------

\* The state of the engine has its shape.
TypeOK ==
    /\ orders \in [LifecycleIds -> Order \cup {None}]
    /\ client_to_lifecycle \in [ClientIds -> LifecycleIds \cup {None}]
    /\ venue_to_lifecycle \in [VenueIds -> LifecycleIds \cup {None}]

\* The index by client id names exactly the orders of the table: no two orders
\* share a client id, and evidence by client id reaches the order it is about
\* (record_place_request inserts in both maps, nothing removes).
ClientIndexExact ==
    \A c \in ClientIds, l \in LifecycleIds :
        client_to_lifecycle[c] = l <=> (Known(l) /\ orders[l].client = c)

\* The index by venue id names exactly the orders that hold that venue id: an
\* id the venue gave is never bound to two orders, and no conflict check or
\* early return of record_place_success and record_terminal_evidence leaves a
\* mapping without its order or an order without its mapping.
VenueIndexExact ==
    \A v \in VenueIds, l \in LifecycleIds :
        venue_to_lifecycle[v] = l <=> (Known(l) /\ orders[l].venue = v)

\* An order that is not over still has something to trade, within its size; one
\* that was never acknowledged holds no venue id; a cancellation was asked for.
RecordsSound ==
    \A l \in LifecycleIds : Known(l) =>
        LET o == orders[l]
        IN  /\ o.remaining <= o.original
            /\ ~IsTerminal(o) => o.remaining > 0
            /\ o.state = "SubmitPending" =>
                  o.venue = None /\ o.remaining = o.original
            /\ o.state \in {"CancelPending", "Cancelled"} => o.cancel_requested

\* An order ends once: whatever evidence arrives late, twice or out of order
\* (a fill after a cancellation, a rejection after a fill), its final record
\* stays as it is.
TerminalIsFinal ==
    [][\A l \in LifecycleIds :
          Known(l) /\ IsTerminal(orders[l]) => orders'[l] = orders[l]]_vars

\* A wanted cancellation is never forgotten by the record, and an order waiting
\* for its cancellation never becomes an ordinary open order again, whatever
\* the order in which acknowledgement, fills and requests arrive.
CancelPendingOnlyEnds ==
    [][\A l \in LifecycleIds : Known(l) =>
          /\ orders[l].cancel_requested => orders'[l].cancel_requested
          /\ orders[l].state = "CancelPending" =>
                \/ orders'[l].state = "CancelPending"
                \/ IsTerminal(orders'[l])]_vars

\* What readers of an order rely on: it is accepted once, its remaining size only
\* falls, and it ends once, with one outcome.
phase == [l \in LifecycleIds |->
            IF ~Known(l) THEN "unused"
            ELSE IF IsTerminal(orders[l]) THEN orders[l].state ELSE "working"]

left == [l \in LifecycleIds |-> IF Known(l) THEN orders[l].remaining ELSE 0]

Contract == INSTANCE OrderContract
              WITH Ids <- LifecycleIds, Outcomes <- TerminalReasons

\* Every call of the engine is a step of that contract or changes nothing it
\* can see.
ImplementsContract == Contract!Spec

================================================================================
