------------------------- MODULE LifecycleEngineProofs -------------------------
(***************************************************************************)
(* For any sets of ids and sizes: the engine keeps its types, its indexes  *)
(* and its records consistent, never changes a terminal record, and        *)
(* implements OrderContract.  Then, for any number of orders, batch size,  *)
(* interval and backoff, PollSchedule: its types, and that nobody waits    *)
(* long when a batch has room for all orders.                              *)
(***************************************************************************)
EXTENDS LifecycleEngine, PollSchedule, SequenceTheorems, FiniteSetTheorems,
        WellFoundedInduction, TLAPS

\* A record is sound: the body of RecordsSound for one order.
Sound(o) ==
    /\ o.remaining <= o.original
    /\ ~IsTerminal(o) => o.remaining > 0
    /\ o.state = "SubmitPending" => o.venue = None /\ o.remaining = o.original
    /\ o.state \in {"CancelPending", "Cancelled"} => o.cancel_requested

\* The inductive invariant.  TypeOK alone is not inductive: that evidence by
\* client or venue id reaches a record at all needs the indexes to be exact.
IInv == TypeOK /\ ClientIndexExact /\ VenueIndexExact /\ RecordsSound

\* Two records of the same order, the second not older than the first.
Follows(o, p) ==
    /\ p \in Order
    /\ Sound(p)
    /\ p.client = o.client
    /\ p.original = o.original
    /\ o.cancel_requested => p.cancel_requested
    /\ o.state = "CancelPending" => p.state = "CancelPending" \/ IsTerminal(p)
    /\ IsTerminal(o) => p = o
    /\ \/ p.remaining = o.remaining
       \/ p.remaining = 0 /\ p.state = "Filled"
       \/ p.remaining \in 1 .. o.remaining - 1 /\ ~IsTerminal(p)

-------------------------------------------------------------------------------

\* What each kind of evidence makes of a sound record.

\* An acknowledgement that gives the venue id v.
LEMMA PlaceSuccessFollows ==
    ASSUME NEW o \in Order, Sound(o), ~IsTerminal(o), NEW v \in VenueIds
    PROVE  LET p == [AfterPlaceSuccess(o) EXCEPT !.venue = v]
           IN  Follows(o, p) /\ p.venue = v
<1> DEFINE p == [AfterPlaceSuccess(o) EXCEPT !.venue = v]
<1>1. p \in Order /\ p.venue = v
  BY DEF AfterPlaceSuccess, Order, States
<1>2. Sound(p)
  BY DEF AfterPlaceSuccess, Order, States, Sound, IsTerminal, TerminalReasons
<1>3. QED
  BY <1>1, <1>2 DEF Follows, AfterPlaceSuccess, Order, States, IsTerminal,
                    TerminalReasons

\* A cancellation request, which gives no venue id.
LEMMA CancelRequestFollows ==
    ASSUME NEW o \in Order, Sound(o)
    PROVE  LET p == AfterCancelRequest(o)
           IN  Follows(o, p) /\ p.venue = o.venue
<1> DEFINE p == AfterCancelRequest(o)
<1>1. p \in Order /\ p.venue = o.venue
  BY DEF AfterCancelRequest, Order, States
<1>2. Sound(p)
  BY DEF AfterCancelRequest, Order, States, Sound, IsTerminal, TerminalReasons
<1>3. QED
  BY <1>1, <1>2 DEF Follows, AfterCancelRequest, Order, States, IsTerminal,
                    TerminalReasons

\* A fill of n lots.
LEMMA FillFollows ==
    ASSUME NEW o \in Order, Sound(o), NEW n \in Sizes
    PROVE  LET p == AfterFill(o, n)
           IN  Follows(o, p) /\ p.venue = o.venue
<1> DEFINE rest == IF n >= o.remaining THEN 0 ELSE o.remaining - n
           p == AfterFill(o, n)
<1>1. rest \in Nat /\ (rest = 0 \/ rest \in 1 .. o.remaining - 1)
  BY SizesAssumption DEF Order
<1>2. CASE IsTerminal(o)
  BY <1>2 DEF AfterFill, Follows, Order, IsTerminal, TerminalReasons
<1>3. CASE ~IsTerminal(o)
  <2> DEFINE s == IF rest = 0 THEN "Filled"
                  ELSE IF o.state = "SubmitPending" THEN "Open" ELSE o.state
  <2>1. p = [o EXCEPT !.remaining = rest, !.state = s]
    BY <1>3 DEF AfterFill
  <2>2. s \in States /\ (rest = 0 <=> s \in TerminalReasons)
    BY <1>3 DEF Order, States, TerminalReasons, IsTerminal
  <2> HIDE DEF p, s, rest
  <2>3. p \in Order /\ p.venue = o.venue /\ p.client = o.client
    BY <1>1, <2>1, <2>2 DEF Order
  <2>4. p.remaining = rest /\ p.state = s /\ p.original = o.original
        /\ p.cancel_requested = o.cancel_requested
    BY <2>1 DEF Order
  <2>5. rest <= o.original
    <3>1. o.original \in Nat /\ o.remaining \in Nat
      BY SizesAssumption DEF Order
    <3>2. o.remaining <= o.original
      BY DEF Sound
    <3>3. QED
      BY <1>1, <3>1, <3>2
  <2>6. s \in {"CancelPending", "Cancelled"} => o.cancel_requested
    BY <1>3 DEF s, Sound
  <2>7. Sound(p)
    BY <1>1, <2>2, <2>4, <2>5, <2>6 DEF Sound, IsTerminal, s
  <2>8. rest = 0 => s = "Filled"
    BY DEF s
  <2>9. o.state = "CancelPending" => s = "CancelPending" \/ s = "Filled"
    BY DEF s
  <2>10. Follows(o, p)
    BY <1>1, <1>3, <2>2, <2>3, <2>4, <2>7, <2>8, <2>9
       DEF Follows, IsTerminal, TerminalReasons
  <2>11. QED
    BY <2>3, <2>10 DEF p, rest
<1>4. QED
  BY <1>2, <1>3

\* Terminal evidence, without and with a venue id.
LEMMA TerminalFollows ==
    ASSUME NEW o \in Order, Sound(o), ~IsTerminal(o),
           NEW reason \in TerminalReasons
    PROVE  LET p == AfterTerminal(o, reason)
           IN  /\ Follows(o, p) /\ p.venue = o.venue
               /\ \A v \in VenueIds :
                     LET q == [p EXCEPT !.venue = v]
                     IN  Follows(o, q) /\ q.venue = v
<1> DEFINE p == AfterTerminal(o, reason)
<1>1. p \in Order /\ p.venue = o.venue /\ IsTerminal(p)
  BY DEF AfterTerminal, Order, States, IsTerminal
<1>2. Sound(p)
  BY DEF AfterTerminal, Order, States, Sound, IsTerminal, TerminalReasons
<1>3. Follows(o, p)
  BY <1>1, <1>2 DEF Follows, AfterTerminal, Order, IsTerminal
<1>4. ASSUME NEW v \in VenueIds
      PROVE  LET q == [p EXCEPT !.venue = v] IN Follows(o, q) /\ q.venue = v
  <2> DEFINE q == [p EXCEPT !.venue = v]
  <2>1. q \in Order /\ q.venue = v /\ IsTerminal(q)
    BY <1>1 DEF Order, IsTerminal
  <2>2. Sound(q)
    BY <1>1, <1>2 DEF Order, Sound, IsTerminal, TerminalReasons
  <2>3. QED
    BY <1>1, <1>3, <2>1, <2>2 DEF Follows, Order, IsTerminal
<1>5. QED
  BY <1>1, <1>3, <1>4

-------------------------------------------------------------------------------

\* A reference resolves only to an order of the table.
LEMMA ResolvesKnown ==
    ASSUME IInv, NEW ref \in Refs, NEW l \in LifecycleIds, Resolves(ref, l)
    PROVE  Known(l) /\ orders[l] \in Order /\ Sound(orders[l])
<1>1. Known(l)
  BY DEF IInv, Resolves, Refs, ClientIndexExact, VenueIndexExact
<1>2. orders[l] \in Order
  BY <1>1 DEF IInv, TypeOK, Known
<1>3. QED
  BY <1>1, <1>2 DEF IInv, RecordsSound, Sound

\* A step that replaces the record of l by a later one, and binds its venue id
\* when it has a new one.
Replaces(l, p) ==
    /\ Follows(orders[l], p)
    /\ orders' = [orders EXCEPT ![l] = p]
    /\ UNCHANGED client_to_lifecycle
    /\ \/ p.venue = orders[l].venue /\ UNCHANGED venue_to_lifecycle
       \/ p.venue \in VenueIds /\ BindVenue(l, p.venue)

\* Every call about a known order is such a step.
LEMMA EvidenceReplaces ==
    ASSUME IInv, NEW ref \in Refs, NEW l \in LifecycleIds, Resolves(ref, l),
           Evidence(l)
    PROVE  Replaces(l, orders'[l])
<1> DEFINE o == orders[l]
<1>1. Known(l) /\ o \in Order /\ Sound(o)
  BY ResolvesKnown
<1>2. orders \in [LifecycleIds -> Order \cup {None}]
  BY DEF IInv, TypeOK
<1>3. ASSUME NEW v \in VenueIds, RecordPlaceSuccess(l, v)
      PROVE  Replaces(l, orders'[l])
  <2> DEFINE p == [AfterPlaceSuccess(o) EXCEPT !.venue = v]
  <2>1. ~IsTerminal(o) /\ BindVenue(l, v) /\ UNCHANGED client_to_lifecycle
        /\ orders' = [orders EXCEPT ![l] = p]
    BY <1>3 DEF RecordPlaceSuccess
  <2>2. Follows(o, p) /\ p.venue = v
    BY <1>1, <2>1, PlaceSuccessFollows
  <2> HIDE DEF p
  <2>3. orders'[l] = p
    BY <1>2, <2>1
  <2>4. QED
    BY <2>1, <2>2, <2>3 DEF Replaces
<1>4. ASSUME RecordPlaceRejected(l)
      PROVE  Replaces(l, orders'[l])
  <2> DEFINE p == [o EXCEPT !.state = "Rejected"]
  <2>1. o.state = "SubmitPending" /\ orders' = [orders EXCEPT ![l] = p]
        /\ UNCHANGED <<client_to_lifecycle, venue_to_lifecycle>>
    BY <1>4 DEF RecordPlaceRejected
  <2>2. p \in Order /\ p.venue = o.venue /\ IsTerminal(p)
    BY <1>1 DEF Order, States, IsTerminal, TerminalReasons
  <2>3. Follows(o, p)
    BY <1>1, <2>1, <2>2 DEF Follows, Sound, Order, IsTerminal, TerminalReasons
  <2> HIDE DEF p
  <2>4. orders'[l] = p
    BY <1>2, <2>1
  <2>5. QED
    BY <2>1, <2>2, <2>3, <2>4 DEF Replaces
<1>5. ASSUME RecordCancelRequest(l)
      PROVE  Replaces(l, orders'[l])
  <2> DEFINE p == AfterCancelRequest(o)
  <2>1. orders' = [orders EXCEPT ![l] = p]
        /\ UNCHANGED <<client_to_lifecycle, venue_to_lifecycle>>
    BY <1>5 DEF RecordCancelRequest
  <2>2. Follows(o, p) /\ p.venue = o.venue
    BY <1>1, CancelRequestFollows
  <2> HIDE DEF p
  <2>3. orders'[l] = p
    BY <1>2, <2>1
  <2>4. QED
    BY <2>1, <2>2, <2>3 DEF Replaces
<1>6. ASSUME NEW size \in Sizes, RecordFillEvidence(l, size)
      PROVE  Replaces(l, orders'[l])
  <2> DEFINE p == AfterFill(o, size)
  <2>1. orders' = [orders EXCEPT ![l] = p]
        /\ UNCHANGED <<client_to_lifecycle, venue_to_lifecycle>>
    BY <1>6 DEF RecordFillEvidence
  <2>2. Follows(o, p) /\ p.venue = o.venue
    BY <1>1, FillFollows
  <2> HIDE DEF p
  <2>3. orders'[l] = p
    BY <1>2, <2>1
  <2>4. QED
    BY <2>1, <2>2, <2>3 DEF Replaces
<1>7. ASSUME NEW reason \in TerminalReasons, NEW v \in VenueIds \cup {None},
             RecordTerminalEvidence(l, reason, v)
      PROVE  Replaces(l, orders'[l])
  <2> DEFINE p == AfterTerminal(o, reason)
             q == [p EXCEPT !.venue = v]
  <2>1. ~IsTerminal(o) /\ UNCHANGED client_to_lifecycle
    BY <1>7 DEF RecordTerminalEvidence
  <2>2. /\ Follows(o, p) /\ p.venue = o.venue
        /\ v \in VenueIds => Follows(o, q) /\ q.venue = v
    BY <1>1, <2>1, TerminalFollows
  <2>3. \/ orders' = [orders EXCEPT ![l] = p] /\ UNCHANGED venue_to_lifecycle
        \/ v # None /\ BindVenue(l, v) /\ orders' = [orders EXCEPT ![l] = q]
    BY <1>7 DEF RecordTerminalEvidence
  <2> HIDE DEF p, q
  <2>4. CASE orders' = [orders EXCEPT ![l] = p] /\ UNCHANGED venue_to_lifecycle
    BY <1>2, <2>1, <2>2, <2>4 DEF Replaces
  <2>5. CASE v # None /\ BindVenue(l, v) /\ orders' = [orders EXCEPT ![l] = q]
    BY <1>2, <2>1, <2>2, <2>5 DEF Replaces
  <2>6. QED
    BY <2>3, <2>4, <2>5
<1>8. ASSUME NEW v \in VenueIds \cup {None}, RecordCancelConfirmed(l, v)
      PROVE  Replaces(l, orders'[l])
  BY <1>7, <1>8 DEF RecordCancelConfirmed, TerminalReasons
<1>9. QED
  BY <1>3, <1>4, <1>5, <1>6, <1>7, <1>8 DEF Evidence

-------------------------------------------------------------------------------

\* A new order keeps the invariant.
LEMMA PlaceRequestKeeps ==
    ASSUME IInv, NEW l \in LifecycleIds, NEW c \in ClientIds,
           NEW size \in Sizes, RecordPlaceRequest(l, c, size)
    PROVE  IInv'
<1> DEFINE o == Placed(c, size)
<1>1. /\ ~Known(l) /\ client_to_lifecycle[c] = None
      /\ orders' = [orders EXCEPT ![l] = o]
      /\ client_to_lifecycle' = [client_to_lifecycle EXCEPT ![c] = l]
      /\ venue_to_lifecycle' = venue_to_lifecycle
  BY DEF RecordPlaceRequest
<1>2. o \in Order /\ Sound(o) /\ o.client = c /\ o.venue = None
  BY SizesAssumption
     DEF Placed, Order, Sound, States, IsTerminal, TerminalReasons
<1>3. TypeOK /\ ClientIndexExact /\ VenueIndexExact /\ RecordsSound
  BY DEF IInv
<1>4. o # None
  BY <1>2, NoneIsNoOrder
<1> HIDE DEF o
<1>5. TypeOK'
  BY <1>1, <1>2, <1>3 DEF TypeOK
<1>6. \A m \in LifecycleIds : m # None /\ orders'[m] = IF m = l THEN o ELSE orders[m]
  BY <1>1, <1>3, NoneAssumption DEF TypeOK
<1>7. \A d \in ClientIds :
        client_to_lifecycle'[d] = IF d = c THEN l ELSE client_to_lifecycle[d]
  BY <1>1, <1>3 DEF TypeOK
<1>8. ClientIndexExact'
  BY <1>1, <1>2, <1>3, <1>4, <1>6, <1>7 DEF ClientIndexExact, Known
<1>9. VenueIndexExact'
  BY <1>1, <1>2, <1>3, <1>4, <1>6, NoneAssumption DEF VenueIndexExact, Known
<1>10. RecordsSound'
  BY <1>2, <1>3, <1>6 DEF RecordsSound, Known, Sound
<1>11. QED
  BY <1>5, <1>8, <1>9, <1>10 DEF IInv

\* So does evidence about a known one.
LEMMA ReplacesKeeps ==
    ASSUME IInv, NEW l \in LifecycleIds, Known(l), NEW p, Replaces(l, p)
    PROVE  IInv'
<1>1. TypeOK /\ ClientIndexExact /\ VenueIndexExact /\ RecordsSound
  BY DEF IInv
<1>2. /\ p \in Order /\ Sound(p) /\ p # None
      /\ p.client = orders[l].client
      /\ orders' = [orders EXCEPT ![l] = p]
      /\ client_to_lifecycle' = client_to_lifecycle
  BY NoneIsNoOrder DEF Replaces, Follows
<1>3. \A m \in LifecycleIds : orders'[m] = IF m = l THEN p ELSE orders[m]
  BY <1>1, <1>2 DEF TypeOK
<1>4. TypeOK'
  BY <1>1, <1>2 DEF TypeOK, Replaces, BindVenue
<1>5. ClientIndexExact'
  BY <1>1, <1>2, <1>3 DEF ClientIndexExact, Known
<1>6. RecordsSound'
  BY <1>1, <1>2, <1>3 DEF RecordsSound, Known, Sound
<1>7. VenueIndexExact'
  <2>1. CASE p.venue = orders[l].venue /\ UNCHANGED venue_to_lifecycle
    BY <1>1, <1>2, <1>3, <2>1 DEF VenueIndexExact, Known
  <2>2. CASE p.venue \in VenueIds /\ BindVenue(l, p.venue)
    <3>1. /\ orders[l].venue \in {None, p.venue}
          /\ venue_to_lifecycle[p.venue] \in {None, l}
          /\ \A v \in VenueIds : venue_to_lifecycle'[v] =
                IF v = p.venue THEN l ELSE venue_to_lifecycle[v]
      BY <1>1, <2>2 DEF BindVenue, TypeOK
    <3>2. \A m \in LifecycleIds : m # None
      BY NoneAssumption
    <3>3. SUFFICES ASSUME NEW v \in VenueIds, NEW m \in LifecycleIds
                   PROVE  venue_to_lifecycle'[v] = m
                            <=> orders'[m] # None /\ orders'[m].venue = v
      BY DEF VenueIndexExact, Known
    <3>4. venue_to_lifecycle[v] = m <=> Known(m) /\ orders[m].venue = v
      BY <1>1 DEF VenueIndexExact
    <3>5. CASE v = p.venue /\ m = l
      BY <1>2, <1>3, <3>1, <3>5
    <3>6. CASE v = p.venue /\ m # l
      BY <1>3, <3>1, <3>2, <3>4, <3>6 DEF Known
    <3>7. CASE v # p.venue /\ m = l
      BY <1>2, <1>3, <3>1, <3>4, <3>7, NoneAssumption DEF Known
    <3>8. CASE v # p.venue /\ m # l
      BY <1>3, <3>1, <3>4, <3>8 DEF Known
    <3>9. QED
      BY <3>5, <3>6, <3>7, <3>8
  <2>3. QED
    BY <1>2, <2>1, <2>2 DEF Replaces
<1>8. QED
  BY <1>4, <1>5, <1>6, <1>7 DEF IInv

\* IInv holds of every reachable state: the types, both indexes and the records.
THEOREM Invariance == Spec => []IInv
<1>1. Init => IInv
  BY NoneAssumption
     DEF Init, IInv, TypeOK, ClientIndexExact, VenueIndexExact, RecordsSound, Known
<1>2. IInv /\ [Next]_vars => IInv'
  <2> SUFFICES ASSUME IInv, [Next]_vars
               PROVE  IInv'
    OBVIOUS
  <2>1. CASE \E l \in LifecycleIds, c \in ClientIds, size \in Sizes :
                RecordPlaceRequest(l, c, size)
    BY <2>1, PlaceRequestKeeps
  <2>2. CASE \E ref \in Refs, l \in LifecycleIds : Resolves(ref, l) /\ Evidence(l)
    BY <2>2, ResolvesKnown, EvidenceReplaces, ReplacesKeeps
  <2>3. CASE UNCHANGED vars
    BY <2>3 DEF vars, IInv, TypeOK, ClientIndexExact, VenueIndexExact,
                RecordsSound, Known
  <2>4. QED
    BY <2>1, <2>2, <2>3 DEF Next
<1>3. QED
  BY <1>1, <1>2, PTL DEF Spec

\* The invariants the runs check, for any constants.

\* The engine keeps its types.
THEOREM TypeCorrectness == Spec => []TypeOK
BY Invariance, PTL DEF IInv

\* Evidence by client id reaches the order that was placed with that id.
THEOREM ClientIndexSafety == Spec => []ClientIndexExact
BY Invariance, PTL DEF IInv

\* No venue id belongs to two orders, and each acknowledged order is found by
\* its venue id.
THEOREM VenueIndexSafety == Spec => []VenueIndexExact
BY Invariance, PTL DEF IInv

\* A record that is not over has something left to trade, within its size.
THEOREM RecordSafety == Spec => []RecordsSound
BY Invariance, PTL DEF IInv

-------------------------------------------------------------------------------

\* What any step does to the record of any order.
LEMMA StepFollows ==
    ASSUME IInv, [Next]_vars, NEW l \in LifecycleIds
    PROVE  \/ orders'[l] = orders[l]
           \/ /\ ~Known(l)
              /\ \E c \in ClientIds, size \in Sizes : orders'[l] = Placed(c, size)
           \/ Known(l) /\ Follows(orders[l], orders'[l])
<1>1. orders \in [LifecycleIds -> Order \cup {None}]
  BY DEF IInv, TypeOK
<1>2. ASSUME NEW m \in LifecycleIds, NEW c \in ClientIds, NEW size \in Sizes,
             RecordPlaceRequest(m, c, size)
      PROVE  \/ orders'[l] = orders[l]
             \/ ~Known(l) /\ orders'[l] = Placed(c, size)
  BY <1>1, <1>2 DEF RecordPlaceRequest, Known
<1>3. ASSUME NEW ref \in Refs, NEW m \in LifecycleIds, Resolves(ref, m), Evidence(m)
      PROVE  \/ orders'[l] = orders[l]
             \/ Known(l) /\ Follows(orders[l], orders'[l])
  <2>1. Known(m) /\ Replaces(m, orders'[m])
    BY <1>3, ResolvesKnown, EvidenceReplaces
  <2>2. QED
    BY <1>1, <2>1 DEF Replaces
<1>4. CASE UNCHANGED vars
  BY <1>4 DEF vars
<1>5. QED
  BY <1>2, <1>3, <1>4 DEF Next

\* An order ends once, whatever evidence comes after.
THEOREM TerminalSafety == Spec => TerminalIsFinal
<1>1. IInv /\ [Next]_vars =>
        [\A l \in LifecycleIds :
            Known(l) /\ IsTerminal(orders[l]) => orders'[l] = orders[l]]_vars
  BY StepFollows DEF Follows
<1>2. QED
  BY <1>1, Invariance, PTL DEF Spec, TerminalIsFinal

\* A wanted cancellation stays wanted, and a cancelling order only ends.
THEOREM CancelSafety == Spec => CancelPendingOnlyEnds
<1>1. IInv /\ [Next]_vars =>
        [\A l \in LifecycleIds : Known(l) =>
            /\ orders[l].cancel_requested => orders'[l].cancel_requested
            /\ orders[l].state = "CancelPending" =>
                  \/ orders'[l].state = "CancelPending"
                  \/ IsTerminal(orders'[l])]_vars
  BY StepFollows DEF Follows
<1>2. QED
  BY <1>1, Invariance, PTL DEF Spec, CancelPendingOnlyEnds

-------------------------------------------------------------------------------

\* Refinement.  A step changes the record of one order at most.
LEMMA OneRecordChanges ==
    ASSUME IInv, [Next]_vars
    PROVE  \/ UNCHANGED orders
           \/ \E l \in LifecycleIds : orders' = [orders EXCEPT ![l] = orders'[l]]
<1>1. ASSUME NEW m \in LifecycleIds, NEW c \in ClientIds, NEW size \in Sizes,
             RecordPlaceRequest(m, c, size)
      PROVE  orders' = [orders EXCEPT ![m] = orders'[m]]
  BY <1>1 DEF RecordPlaceRequest, IInv, TypeOK
<1>2. ASSUME NEW ref \in Refs, NEW m \in LifecycleIds, Resolves(ref, m), Evidence(m)
      PROVE  orders' = [orders EXCEPT ![m] = orders'[m]]
  BY <1>2, EvidenceReplaces DEF Replaces
<1>3. QED
  BY <1>1, <1>2 DEF Next, vars

\* How the abstract variables read a changed record.
LEMMA AbstractReplace ==
    ASSUME IInv, IInv', NEW l \in LifecycleIds,
           orders' = [orders EXCEPT ![l] = orders'[l]]
    PROVE  /\ phase' = [phase EXCEPT ![l] = phase'[l]]
           /\ left' = [left EXCEPT ![l] = left'[l]]
<1>1. \A m \in LifecycleIds : m # l => orders'[m] = orders[m]
  BY DEF IInv, TypeOK
<1>2. \A m \in LifecycleIds : m # l => phase'[m] = phase[m] /\ left'[m] = left[m]
  BY <1>1 DEF phase, left, Known, IsTerminal
<1>3. /\ phase = [m \in LifecycleIds |-> phase[m]]
      /\ phase' = [m \in LifecycleIds |-> phase'[m]]
      /\ left = [m \in LifecycleIds |-> left[m]]
      /\ left' = [m \in LifecycleIds |-> left'[m]]
  BY DEF phase, left
<1>4. QED
  BY <1>2, <1>3

\* Every step is a step of the contract or leaves what it shows unchanged.
LEMMA StepRefines ==
    ASSUME IInv, IInv', [Next]_vars
    PROVE  [Contract!Next]_<<phase, left>>
<1>1. CASE UNCHANGED orders
  <2>1. UNCHANGED <<phase, left>>
    BY <1>1 DEF phase, left, Known, IsTerminal
  <2>2. QED
    BY <2>1
<1>2. ASSUME NEW l \in LifecycleIds,
             orders' = [orders EXCEPT ![l] = orders'[l]]
      PROVE  [Contract!Next]_<<phase, left>>
  <2>1. /\ phase' = [phase EXCEPT ![l] = phase'[l]]
        /\ left' = [left EXCEPT ![l] = left'[l]]
    BY <1>2, AbstractReplace
  <2>2. /\ phase[l] = IF ~Known(l) THEN "unused" ELSE
                      IF IsTerminal(orders[l]) THEN orders[l].state ELSE "working"
        /\ left[l] = IF Known(l) THEN orders[l].remaining ELSE 0
        /\ phase'[l] = IF orders'[l] = None THEN "unused" ELSE
                       IF IsTerminal(orders'[l]) THEN orders'[l].state ELSE "working"
        /\ left'[l] = IF orders'[l] # None THEN orders'[l].remaining ELSE 0
    BY DEF phase, left, Known, IsTerminal
  <2>3. CASE orders'[l] = orders[l]
    <3>1. UNCHANGED orders
      BY <1>2, <2>3 DEF IInv, TypeOK
    <3>2. QED
      BY <1>1, <3>1
  <2>4. ASSUME ~Known(l), NEW c \in ClientIds, NEW size \in Sizes,
               orders'[l] = Placed(c, size)
        PROVE  Contract!Next
    <3>1. /\ orders'[l] # None /\ ~IsTerminal(orders'[l])
          /\ orders'[l].remaining = size
      <4>1. Placed(c, size) \in Order
        BY SizesAssumption DEF Placed, Order, States
      <4>2. orders'[l] # None
        BY <2>4, <4>1, NoneIsNoOrder
      <4>3. Placed(c, size).state = "SubmitPending" /\ Placed(c, size).remaining = size
        BY DEF Placed
      <4>4. QED
        BY <2>4, <4>2, <4>3 DEF IsTerminal, TerminalReasons
    <3>2. Contract!Accept(l, size)
      BY <2>1, <2>2, <2>4, <3>1 DEF Contract!Accept
    <3>3. QED
      BY <3>2 DEF Contract!Next
  <2>5. ASSUME Known(l), Follows(orders[l], orders'[l]), orders'[l] # orders[l]
        PROVE  [Contract!Next]_<<phase, left>>
    <3> DEFINE o == orders[l]
               p == orders'[l]
    <3>1. /\ o \in Order /\ p \in Order /\ p # None
          /\ ~IsTerminal(o) /\ o.remaining \in Nat /\ p.remaining \in Nat
          /\ phase[l] = "working" /\ left[l] = o.remaining
          /\ left'[l] = p.remaining
          /\ phase'[l] = IF IsTerminal(p) THEN p.state ELSE "working"
      BY <2>2, <2>5, NoneIsNoOrder DEF Follows, IInv, TypeOK, Known, Order
    <3>2. \/ p.remaining = o.remaining
          \/ p.remaining = 0 /\ p.state = "Filled"
          \/ p.remaining \in 1 .. o.remaining - 1 /\ ~IsTerminal(p)
      BY <2>5 DEF Follows
    <3>3. CASE p.remaining = o.remaining /\ IsTerminal(p)
      <4>1. left' = left
        BY <2>1, <3>1, <3>3 DEF left
      <4>2. Contract!Close(l, p.state)
        BY <2>1, <3>1, <3>3, <4>1 DEF Contract!Close
      <4>3. QED
        BY <3>3, <4>2 DEF Contract!Next, IsTerminal
    <3>4. CASE p.remaining = o.remaining /\ ~IsTerminal(p)
      <4>1. left'[l] = left[l] /\ phase'[l] = phase[l]
        BY <3>1, <3>4
      <4>2. left' = left
        BY <2>1, <4>1 DEF left
      <4>3. phase' = phase
        BY <2>1, <4>1 DEF phase
      <4>4. QED
        BY <4>2, <4>3
    <3>5. CASE p.remaining = 0 /\ p.state = "Filled"
      <4>1. Contract!Complete(l)
        BY <2>1, <3>1, <3>5 DEF Contract!Complete, IsTerminal, TerminalReasons
      <4>2. QED
        BY <4>1 DEF Contract!Next
    <3>6. CASE p.remaining \in 1 .. o.remaining - 1 /\ ~IsTerminal(p)
      <4>1. phase' = phase
        BY <2>1, <3>1, <3>6 DEF phase
      <4>2. Contract!Trade(l, p.remaining)
        BY <2>1, <3>1, <3>6, <4>1 DEF Contract!Trade
      <4>3. QED
        BY <3>1, <3>6, <4>2 DEF Contract!Next
    <3>7. QED
      BY <3>2, <3>3, <3>4, <3>5, <3>6
  <2>6. QED
    BY <2>3, <2>4, <2>5, StepFollows
<1>3. QED
  BY <1>1, <1>2, OneRecordChanges

\* The engine implements the contract readers of an order rely on.
THEOREM Refinement == Spec => ImplementsContract
<1>1. Init => Contract!Init
  BY DEF Init, Contract!Init, phase, left, Known
<1>2. IInv /\ IInv' /\ [Next]_vars => [Contract!Next]_<<phase, left>>
  BY StepRefines
<1>3. QED
  BY <1>1, <1>2, Invariance, PTL DEF Spec, ImplementsContract, Contract!Spec

-------------------------------------------------------------------------------
(* PollSchedule: numbers, sequences without duplicates, and Among *)

\* A set of numbers that is not empty has a least one.
LEMMA LeastNumber ==
    ASSUME NEW T \in SUBSET Nat, T # {}
    PROVE  \E x \in T : \A y \in T : x <= y
<1> DEFINE R == OpToRel(<, Nat)
<1>1. IsWellFoundedOn(R, Nat)
  BY NatLessThanWellFounded
<1>2. \A x, y \in Nat : <<y, x>> \in R <=> y < x
  BY DEF OpToRel
<1> HIDE DEF R
<1>3. PICK x \in T : \A y \in T : ~(<<y, x>> \in R)
  BY <1>1, WFMin, Zenon
<1>4. ASSUME NEW y \in T PROVE x <= y
  <2>1. x \in Nat /\ y \in Nat /\ ~(y < x)
    BY <1>2, <1>3
  <2> QED
    BY <2>1
<1> QED
  BY <1>4

\* Induction: what holds of 0, and of n + 1 whenever of n, holds of every number.
LEMMA Induction ==
    ASSUME NEW S, 0 \in S, \A n \in Nat : n \in S => n + 1 \in S
    PROVE  Nat \subseteq S
<1> DEFINE T == Nat \ S
<1> SUFFICES ASSUME T # {} PROVE FALSE
  OBVIOUS
<1>1. PICK n \in T : \A y \in T : n <= y
  BY LeastNumber
<1>2. n # 0 /\ n - 1 \in Nat /\ n - 1 \in S /\ (n - 1) + 1 = n
  BY <1>1
<1> QED
  BY <1>1, <1>2


\* Of finitely many numbers one is the greatest.
LEMMA GreatestValue ==
    ASSUME NEW n \in Nat, n # 0, NEW f \in [1 .. n -> Nat]
    PROVE  \E i \in 1 .. n : \A j \in 1 .. n : f[j] <= f[i]
<1> DEFINE S == {m \in Nat : 0 < m /\ m <= n =>
                    \E i \in 1 .. m : \A j \in 1 .. m : f[j] <= f[i]}
<1>1. 0 \in S
  OBVIOUS
<1>2. ASSUME NEW m \in Nat, m \in S PROVE m + 1 \in S
  <2> SUFFICES ASSUME m + 1 <= n
               PROVE  \E i \in 1 .. m + 1 : \A j \in 1 .. m + 1 : f[j] <= f[i]
    OBVIOUS
  <2>1. CASE m = 0
    <3>1. \A j \in 1 .. m + 1 : j = 1 /\ f[j] <= f[1]
      BY <2>1
    <3> QED
      BY <2>1, <3>1
  <2>2. CASE m # 0
    <3>1. PICK i \in 1 .. m : \A j \in 1 .. m : f[j] <= f[i]
      BY <1>2, <2>2
    <3>2. f[i] \in Nat /\ f[m + 1] \in Nat /\ \A j \in 1 .. m : f[j] \in Nat
      OBVIOUS
    <3>3. \A j \in 1 .. m + 1 : j \in 1 .. m \/ j = m + 1
      OBVIOUS
    <3>4. CASE f[m + 1] <= f[i]
      <4>1. \A j \in 1 .. m + 1 : f[j] <= f[i]
        BY <3>1, <3>3, <3>4, Zenon
      <4>2. i \in 1 .. m + 1
        OBVIOUS
      <4> QED
        BY <4>1, <4>2, Zenon
    <3>5. CASE f[i] < f[m + 1]
      <4>1. \A j \in 1 .. m + 1 : f[j] <= f[m + 1]
        BY <3>1, <3>2, <3>3, <3>5
      <4> QED
        BY <4>1
    <3> QED
      BY <3>2, <3>4, <3>5
  <2> QED
    BY <2>1, <2>2
<1> HIDE DEF S
<1>3. Nat \subseteq S
  BY <1>1, <1>2, Induction
<1>4. n \in S /\ 0 < n /\ n <= n
  BY <1>3
<1> QED
  BY <1>4 DEF S

\* A finite set of numbers has a greatest one, and Max is it.
LEMMA FiniteMax ==
    ASSUME NEW T \in SUBSET Nat, IsFiniteSet(T), T # {}
    PROVE  Max(T) \in T /\ \A x \in T : x <= Max(T)
<1>1. PICK n \in Nat : ExistsSurjection(1 .. n, T)
  BY FS_NatSurjection
<1>2. PICK f \in [1 .. n -> T] : \A x \in T : \E i \in 1 .. n : f[i] = x
  BY <1>1 DEF ExistsSurjection, Surjection
<1>3. n # 0
  <2>1. PICK x \in T : TRUE
    OBVIOUS
  <2>2. PICK i \in 1 .. n : f[i] = x
    BY <1>2, <2>1
  <2> QED
    BY <2>2
<1>4. f \in [1 .. n -> Nat]
  OBVIOUS
<1>5. PICK i \in 1 .. n : \A j \in 1 .. n : f[j] <= f[i]
  BY <1>3, <1>4, GreatestValue
<1>6. f[i] \in T /\ \A x \in T : f[i] >= x
  BY <1>2, <1>5
<1>7. \E m \in T : \A x \in T : m >= x
  BY <1>6
<1>8. Max(T) \in T /\ \A x \in T : Max(T) >= x
  BY <1>7 DEF Max
<1> QED
  BY <1>8

\* Min of two numbers is one of them and above neither.
LEMMA MinOfTwo ==
    ASSUME NEW a \in Int, NEW b \in Int
    PROVE  /\ Min({a, b}) \in {a, b}
           /\ Min({a, b}) <= a /\ Min({a, b}) <= b
<1>1. \E x \in {a, b} : \A y \in {a, b} : x <= y
  <2>1. CASE a <= b
    BY <2>1
  <2>2. CASE b <= a
    BY <2>2
  <2> QED
    BY <2>1, <2>2
<1> QED
  BY <1>1 DEF Min

-------------------------------------------------------------------------------
(* Sequences without duplicates *)

\* An element more; without duplicates if it was not in the sequence.
LEMMA AppendMembers ==
    ASSUME NEW S, NEW q \in Seq(S), NEW e \in S
    PROVE  /\ Append(q, e) \in Seq(S)
           /\ ToSet(Append(q, e)) = ToSet(q) \cup {e}
           /\ IsInjective(q) /\ e \notin ToSet(q) => IsInjective(Append(q, e))
<1> DEFINE more == Append(q, e)
           n == Len(q)
<1>1. /\ n \in Nat /\ DOMAIN q = 1 .. n /\ more \in Seq(S) /\ Len(more) = n + 1
      /\ more[n + 1] = e /\ \A i \in 1 .. n : more[i] = q[i]
  BY AppendProperties, LenProperties
<1>2. DOMAIN more = 1 .. n + 1
  BY <1>1, LenProperties
<1> HIDE DEF more, n
<1>3. \A i \in 1 .. n + 1 : i \in 1 .. n \/ i = n + 1
  BY <1>1
<1>4. ToSet(more) = ToSet(q) \cup {e}
  <2>1. ToSet(more) \subseteq ToSet(q) \cup {e}
    BY <1>1, <1>2, <1>3 DEF ToSet
  <2>2. ToSet(q) \subseteq ToSet(more)
    <3>1. \A i \in 1 .. n : i \in 1 .. n + 1
      BY <1>1
    <3> QED
      BY <1>1, <1>2, <3>1 DEF ToSet
  <2>3. e \in ToSet(more)
    <3>1. n + 1 \in 1 .. n + 1
      BY <1>1
    <3> QED
      BY <1>1, <1>2, <3>1 DEF ToSet
  <2> QED
    BY <2>1, <2>2, <2>3
<1>5. ASSUME IsInjective(q), e \notin ToSet(q), NEW i \in 1 .. n + 1, NEW j \in 1 .. n + 1,
             more[i] = more[j]
      PROVE  i = j
  <2>1. \A k \in 1 .. n : q[k] # e
    BY <1>1, <1>5 DEF ToSet
  <2> QED
    BY <1>1, <1>3, <1>5, <2>1 DEF IsInjective
<1>6. IsInjective(q) /\ e \notin ToSet(q) => IsInjective(more)
  BY <1>2, <1>5 DEF IsInjective
<1> QED
  BY <1>1, <1>4, <1>6 DEF more

\* A sequence without its head; of one without duplicates, the head is gone.
LEMMA TailMembers ==
    ASSUME NEW S, NEW q \in Seq(S), q # <<>>, IsInjective(q)
    PROVE  /\ Tail(q) \in Seq(S) /\ Len(Tail(q)) = Len(q) - 1 /\ Len(q) \in Nat \ {0}
           /\ Head(q) \in ToSet(q) /\ Head(q) \in S
           /\ ToSet(Tail(q)) = ToSet(q) \ {Head(q)}
           /\ IsInjective(Tail(q))
<1> DEFINE rest == Tail(q)
           n == Len(rest)
<1>1. /\ n \in Nat /\ rest \in Seq(S) /\ Len(q) = n + 1 /\ Head(q) = q[1] /\ Head(q) \in S
      /\ \A i \in 1 .. n : rest[i] = q[i + 1]
  BY HeadTailProperties, LenProperties
<1>2. DOMAIN rest = 1 .. n /\ DOMAIN q = 1 .. n + 1
  BY <1>1, LenProperties
<1> HIDE DEF rest, n
<1>3. \A i \in 1 .. n : i + 1 \in 1 .. n + 1 /\ i + 1 # 1
  BY <1>1
<1>4. 1 \in 1 .. n + 1
  BY <1>1
<1>5. \A i \in 1 .. n + 1 : i # 1 => i - 1 \in 1 .. n /\ (i - 1) + 1 = i
  BY <1>1
<1>6. ToSet(rest) \subseteq ToSet(q) \ {Head(q)}
  BY <1>1, <1>2, <1>3, <1>4 DEF ToSet, IsInjective
<1>7. ASSUME NEW x \in ToSet(q), x # Head(q) PROVE x \in ToSet(rest)
  <2>1. PICK i \in 1 .. n + 1 : q[i] = x
    BY <1>2 DEF ToSet
  <2>2. i - 1 \in 1 .. n /\ rest[i - 1] = x
    BY <1>1, <1>5, <1>7, <2>1
  <2> QED
    BY <1>2, <2>2 DEF ToSet
<1>8. IsInjective(rest)
  <2> SUFFICES ASSUME NEW i \in 1 .. n, NEW j \in 1 .. n, rest[i] = rest[j] PROVE i = j
    BY <1>2 DEF IsInjective
  <2>1. q[i + 1] = q[j + 1] /\ i + 1 \in 1 .. n + 1 /\ j + 1 \in 1 .. n + 1
    BY <1>1, <1>3
  <2>2. i + 1 = j + 1
    BY <1>2, <2>1, Zenon DEF IsInjective
  <2> QED
    BY <1>1, <2>2
<1>9. Head(q) \in ToSet(q)
  BY <1>1, <1>2, <1>4 DEF ToSet
<1> QED
  BY <1>1, <1>6, <1>7, <1>8, <1>9 DEF rest, n

\* The first elements of a sequence without duplicates.
LEMMA PrefixMembers ==
    ASSUME NEW S, NEW q \in Seq(S), IsInjective(q), NEW m \in Nat, m <= Len(q)
    PROVE  /\ SubSeq(q, 1, m) \in Seq(S) /\ Len(SubSeq(q, 1, m)) = m
           /\ ToSet(SubSeq(q, 1, m)) \subseteq ToSet(q)
           /\ IsInjective(SubSeq(q, 1, m))
           /\ m = Len(q) => SubSeq(q, 1, m) = q
<1> DEFINE p == SubSeq(q, 1, m)
<1>1. Len(q) \in Nat /\ DOMAIN q = 1 .. Len(q) /\ \A i \in 1 .. m : i \in 1 .. Len(q)
  BY LenProperties
<1>2. \A i \in 1 .. m : q[i] \in S
  BY <1>1, ElementOfSeq
<1>3. /\ p \in Seq(S) /\ Len(p) = IF 1 <= m THEN m - 1 + 1 ELSE 0
      /\ \A i \in 1 .. m - 1 + 1 : p[i] = q[1 + i - 1]
  BY <1>2, SubSeqProperties
<1>4. Len(p) = m /\ \A i \in 1 .. m : p[i] = q[i]
  <2>1. m - 1 + 1 = m /\ (1 <= m \/ m = 0) /\ \A i \in 1 .. m : 1 + i - 1 = i
    OBVIOUS
  <2> HIDE DEF p
  <2> QED
    BY <1>3, <2>1
<1>5. DOMAIN p = 1 .. m
  BY <1>3, <1>4, LenProperties
<1> HIDE DEF p
<1>6. ToSet(p) \subseteq ToSet(q) /\ IsInjective(p)
  BY <1>1, <1>4, <1>5 DEF ToSet, IsInjective
<1>7. m = Len(q) => p = q
  <2>1. p \in [1 .. m -> S] /\ q \in [1 .. Len(q) -> S]
    BY <1>3, <1>4, LenProperties
  <2> QED
    BY <1>4, <2>1
<1> QED
  BY <1>3, <1>4, <1>6, <1>7 DEF p

\* Without duplicates there are no more of them than there is of the set.
LEMMA InjectiveLength ==
    ASSUME NEW S, IsFiniteSet(S), NEW q \in Seq(S), IsInjective(q)
    PROVE  Len(q) <= Cardinality(S) /\ Cardinality(S) \in Nat /\ Len(q) \in Nat
<1>1. Len(q) \in Nat /\ q \in [1 .. Len(q) -> S] /\ DOMAIN q = 1 .. Len(q)
  BY LenProperties
<1>2. q \in Injection(1 .. Len(q), S)
  BY <1>1 DEF Injection, IsInjective
<1>3. Cardinality(1 .. Len(q)) <= Cardinality(S)
  BY <1>2, FS_Injection
<1>4. Cardinality(1 .. Len(q)) = Len(q)
  <2>1. \A a, b \in Int : Cardinality(a .. b) = IF a > b THEN 0 ELSE b - a + 1
    BY FS_Interval
  <2>2. PICK n \in Nat : n = Len(q)
    BY <1>1
  <2>3. Cardinality(1 .. n) = IF 1 > n THEN 0 ELSE n - 1 + 1
    BY <2>1
  <2> QED
    BY <2>2, <2>3
<1> QED
  BY <1>1, <1>3, <1>4, FS_CardinalityType

-------------------------------------------------------------------------------
(* What Among keeps *)

\* upto is the function by which Among picks, up to the n-th of q.
Picks(upto, q, chosen, n) ==
    upto = [i \in 0 .. n |->
              IF i = 0 THEN <<>>
              ELSE IF q[i] \in chosen THEN Append(upto[i - 1], q[i]) ELSE upto[i - 1]]

\* Recursion: the recursive function of Among exists.
LEMMA PicksExist ==
    ASSUME NEW q, NEW chosen, NEW n \in Nat
    PROVE  \E upto : Picks(upto, q, chosen, n)
<1> DEFINE S == {m \in Nat : \E upto : Picks(upto, q, chosen, m)}
<1>1. 0 \in S
  <2>1. Picks([i \in 0 .. 0 |-> <<>>], q, chosen, 0)
    BY DEF Picks
  <2> QED
    BY <2>1
<1>2. ASSUME NEW m \in Nat, m \in S PROVE m + 1 \in S
  <2>1. PICK f : Picks(f, q, chosen, m)
    BY <1>2
  <2> DEFINE new == IF q[m + 1] \in chosen THEN Append(f[m], q[m + 1]) ELSE f[m]
             g == [i \in 0 .. m + 1 |-> IF i = m + 1 THEN new ELSE f[i]]
  <2>2. \A i \in 0 .. m : f[i] = IF i = 0 THEN <<>>
                                 ELSE IF q[i] \in chosen THEN Append(f[i - 1], q[i])
                                 ELSE f[i - 1]
    BY <2>1 DEF Picks
  <2>3. \A i \in 0 .. m : g[i] = f[i]
    OBVIOUS
  <2>4. g[m + 1] = IF q[m + 1] \in chosen THEN Append(f[m], q[m + 1]) ELSE f[m]
    OBVIOUS
  <2>5. g = [i \in 0 .. m + 1 |-> g[i]]
    OBVIOUS
  <2> HIDE DEF g
  <2>6. ASSUME NEW i \in 0 .. m + 1
        PROVE  g[i] = IF i = 0 THEN <<>>
                      ELSE IF q[i] \in chosen THEN Append(g[i - 1], q[i]) ELSE g[i - 1]
    <3>1. CASE i = m + 1
      <4>1. i - 1 = m /\ m \in 0 .. m /\ i # 0
        BY <3>1
      <4> QED
        BY <2>3, <2>4, <3>1, <4>1
    <3>2. CASE i = 0
      <4>1. 0 \in 0 .. m
        OBVIOUS
      <4> QED
        BY <2>2, <2>3, <3>2, <4>1
    <3>3. CASE i \in 1 .. m
      <4>1. i - 1 \in 0 .. m /\ i \in 0 .. m /\ i # 0
        BY <3>3
      <4> QED
        BY <2>2, <2>3, <4>1
    <3> QED
      BY <3>1, <3>2, <3>3
  <2>7. Picks(g, q, chosen, m + 1)
    BY <2>5, <2>6 DEF Picks
  <2> QED
    BY <2>7
<1> HIDE DEF S
<1>3. Nat \subseteq S
  BY <1>1, <1>2, Induction
<1> QED
  BY <1>3 DEF S

\* Some of q without duplicates: those that are in the set, none of them twice.
LEMMA AmongIs ==
    ASSUME NEW S, NEW q \in Seq(S), IsInjective(q), NEW chosen
    PROVE  /\ Among(q, chosen) \in Seq(S)
           /\ ToSet(Among(q, chosen)) = ToSet(q) \cap chosen
           /\ IsInjective(Among(q, chosen))
<1> DEFINE f == CHOOSE f : f = [i \in 0 .. Len(q) |->
                  IF i = 0 THEN <<>>
                  ELSE IF q[i] \in chosen THEN Append(f[i - 1], q[i]) ELSE f[i - 1]]
           n == Len(q)
           Seen(i) == {q[j] : j \in 1 .. i}
           Good(i) == /\ f[i] \in Seq(S) /\ ToSet(f[i]) = Seen(i) \cap chosen
                      /\ IsInjective(f[i])
           T == {i \in Nat : i <= n => Good(i)}
<1>1. n \in Nat /\ DOMAIN q = 1 .. n
  BY LenProperties
<1>2. Among(q, chosen) = f[n]
  BY DEF Among
<1>3. Picks(f, q, chosen, n)
  <2>1. \E upto : Picks(upto, q, chosen, Len(q))
    BY <1>1, PicksExist
  <2> QED
    BY <2>1 DEF Picks
<1>4. \A i \in 0 .. n : f[i] = IF i = 0 THEN <<>>
                               ELSE IF q[i] \in chosen THEN Append(f[i - 1], q[i])
                               ELSE f[i - 1]
  BY <1>3 DEF Picks
<1> HIDE DEF f, n
<1>5. 0 \in T
  <2>1. f[0] = <<>>
    <3>1. 0 \in 0 .. n
      BY <1>1
    <3> QED
      BY <1>4, <3>1, Zenon
  <2>2. <<>> \in Seq(S) /\ DOMAIN <<>> = {} /\ Seen(0) = {}
    BY EmptySeq
  <2>3. ToSet(<<>>) = {} /\ IsInjective(<<>>)
    BY <2>2 DEF ToSet, IsInjective
  <2> QED
    BY <2>1, <2>2, <2>3
<1>6. ASSUME NEW i \in Nat, i \in T PROVE i + 1 \in T
  <2> SUFFICES ASSUME i + 1 <= n PROVE Good(i + 1)
    OBVIOUS
  <2>1. Good(i)
    BY <1>1, <1>6
  <2>2. i + 1 \in 0 .. n /\ i + 1 \in 1 .. n /\ i + 1 # 0 /\ (i + 1) - 1 = i
    BY <1>1
  <2>3. f[i + 1] = IF q[i + 1] \in chosen THEN Append(f[i], q[i + 1]) ELSE f[i]
    BY <1>4, <2>2
  <2>4. Seen(i + 1) = Seen(i) \cup {q[i + 1]}
    <3>1. \A j \in 1 .. i + 1 : j \in 1 .. i \/ j = i + 1
      OBVIOUS
    <3>2. \A j \in 1 .. i : j \in 1 .. i + 1
      OBVIOUS
    <3> QED
      BY <3>1, <3>2
  <2>5. q[i + 1] \in S
    BY <2>2, ElementOfSeq DEF n
  <2>6. q[i + 1] \notin Seen(i)
    <3> SUFFICES ASSUME NEW j \in 1 .. i, q[j] = q[i + 1] PROVE FALSE
      OBVIOUS
    <3>1. j \in 1 .. n /\ j # i + 1
      BY <1>1
    <3> QED
      BY <1>1, <2>2, <3>1 DEF IsInjective
  <2> HIDE DEF Seen
  <2>7. CASE q[i + 1] \in chosen
    <3>1. f[i + 1] = Append(f[i], q[i + 1])
      BY <2>3, <2>7
    <3>2. q[i + 1] \notin ToSet(f[i])
      BY <2>1, <2>6
    <3>3. /\ f[i + 1] \in Seq(S) /\ ToSet(f[i + 1]) = ToSet(f[i]) \cup {q[i + 1]}
          /\ IsInjective(f[i + 1])
      BY <2>1, <2>5, <3>1, <3>2, AppendMembers
    <3> QED
      BY <2>1, <2>4, <2>7, <3>3
  <2>8. CASE q[i + 1] \notin chosen
    BY <2>1, <2>3, <2>4, <2>8
  <2> QED
    BY <2>7, <2>8
<1> HIDE DEF T
<1>7. Nat \subseteq T
  BY <1>5, <1>6, Induction
<1>8. Good(n)
  <2>1. n \in T /\ n <= n
    BY <1>1, <1>7
  <2> QED
    BY <2>1 DEF T
<1>9. Seen(n) = ToSet(q)
  BY <1>1 DEF ToSet
<1> QED
  BY <1>2, <1>8, <1>9

-------------------------------------------------------------------------------
(* The schedule *)

\* The constants and bounds are numbers; no poll takes longer than the longest.
LEMMA ScheduleNumbers ==
    /\ Batch \in Nat \ {0} /\ Interval \in Nat \ {0} /\ MaxFailures \in Nat \ {0}
    /\ Cardinality(Orders) \in Nat
    /\ LongestPoll \in Nat /\ \A d \in PollTicks : d \in Nat /\ d <= LongestPoll
    /\ LongestSync \in Nat
    /\ EnablePositionSync => \A d \in SyncTicks : d \in Nat /\ d <= LongestSync
    /\ SyncInterval \in Nat /\ IdleCap \in Nat
<1>1. /\ Batch \in Nat \ {0} /\ Interval \in Nat \ {0} /\ MaxFailures \in Nat \ {0}
      /\ PollTicks \in SUBSET Nat /\ PollTicks # {} /\ IsFiniteSet(PollTicks)
      /\ SyncInterval \in Nat
      /\ Backoff \in [1 .. MaxFailures - 1 -> Nat]
      /\ Cardinality(Orders) \in Nat
  BY ScheduleAssumption, FS_CardinalityType
<1>2. LongestPoll \in PollTicks /\ \A d \in PollTicks : d <= LongestPoll
  BY <1>1, FiniteMax DEF LongestPoll
<1>3. LongestPoll \in Nat
  BY <1>1, <1>2
<1>4. Max({Interval} \cup {Backoff[f] : f \in DOMAIN Backoff}) \in Nat
  <2> DEFINE backed == {Backoff[f] : f \in DOMAIN Backoff}
             waits == {Interval} \cup backed
  <2>1. IsFiniteSet(1 .. MaxFailures - 1)
    BY <1>1, FS_Interval
  <2>2. Backoff \in Surjection(1 .. MaxFailures - 1, backed)
    BY <1>1 DEF Surjection
  <2>3. IsFiniteSet(backed)
    BY <2>1, <2>2, FS_Surjection
  <2>4. IsFiniteSet(waits)
    BY <2>3, FS_AddElement
  <2>5. waits \in SUBSET Nat /\ waits # {}
    BY <1>1
  <2> HIDE DEF waits
  <2>6. Max(waits) \in Nat
    BY <2>4, <2>5, FiniteMax
  <2> QED
    BY <2>6 DEF waits
<1>5. /\ LongestSync \in Nat
      /\ EnablePositionSync => \A d \in SyncTicks : d \in Nat /\ d <= LongestSync
  <2>1. SyncTicks \in SUBSET Nat /\ SyncTicks # {} /\ IsFiniteSet(SyncTicks)
    BY ScheduleAssumption
  <2>2. Max(SyncTicks) \in SyncTicks /\ \A d \in SyncTicks : d <= Max(SyncTicks)
    BY <2>1, FiniteMax
  <2> QED
    BY <2>1, <2>2, ScheduleAssumption DEF LongestSync
<1>6. IdleCap \in Nat
  <2>1. PICK w \in Nat, c \in Nat, v \in Nat, b \in Nat, l \in Nat, y \in Nat :
           /\ w = Max({Interval} \cup {Backoff[f] : f \in DOMAIN Backoff})
           /\ c = Cardinality(Orders) /\ v = Interval /\ b = Batch /\ l = LongestPoll
           /\ y = LongestSync
    BY <1>1, <1>3, <1>4, <1>5
  <2>2. b * l \in Nat
    BY <2>1
  <2>3. (c + 1) * (v + b * l + y) \in Nat
    BY <2>2
  <2>4. w + (c + 1) * (v + b * l + y) + 1 \in Nat
    BY <2>3
  <2>5. IdleCap = w + (c + 1) * (v + b * l + y) + 1
    BY <2>1 DEF IdleCap
  <2> QED
    BY <2>4, <2>5
<1> QED
  BY <1>1, <1>2, <1>3, <1>5, <1>6

\* Orders monitored and of the batch, as sets.
Watched == ToSet(monitored)
Turns   == ToSet(batch)

ScheduleTyped ==
    /\ monitored \in Seq(Orders) /\ IsInjective(monitored)
    /\ polled \in [Orders -> BOOLEAN]
    /\ idle \in [Orders -> 0 .. IdleCap]
    /\ failures \in [Orders -> 0 .. MaxFailures - 1]
    /\ batch \in Seq(Orders) /\ IsInjective(batch) /\ Turns \subseteq Watched
    /\ stage \in {"cycle", "sync", "sleep"}
    /\ sinceSync \in 0 .. SyncInterval /\ sleep \in 0 .. Interval
    /\ batch # <<>> => stage = "cycle"
    /\ stage = "sleep" => sleep # 0

\* What the polls of the cycle that are over can have taken.
Past == (Batch - Len(batch)) * LongestPoll

\* How long an order can have waited by where the poller is: an order the selection left
\* out was not due then, and left room for one more poll; one it took has waited for the
\* cycle before, a sync and a sleep, at most.
WaitsLittle(o) ==
    /\ batch # <<>> /\ o \notin Turns => idle[o] + LongestPoll <= Patience(o) + Past
    /\ batch # <<>> /\ o \in Turns =>
          idle[o] <= Patience(o) + Interval + LongestSync + OthersOfBatch + Past
    /\ batch = <<>> =>
          /\ stage = "sync" => idle[o] <= Patience(o) + OthersOfBatch
          /\ stage = "sleep" =>
                idle[o] <= Patience(o) + OthersOfBatch + LongestSync + (Interval - sleep)
          /\ stage = "cycle" =>
                idle[o] <= Patience(o) + OthersOfBatch + LongestSync + Interval

RoomForAll == Cardinality(Orders) <= Batch

ScheduleInv ==
    /\ ScheduleTyped
    /\ RoomForAll => \A o \in Watched : WaitsLittle(o)

\* How long an order waits between polls is a number.
LEMMA PatienceNat ==
    ASSUME ScheduleTyped, NEW o \in Orders PROVE Patience(o) \in Nat
<1>1. failures[o] \in 0 .. MaxFailures - 1
  BY DEF ScheduleTyped
<1>2. failures[o] # 0 => failures[o] \in 1 .. MaxFailures - 1
  BY <1>1, ScheduleNumbers
<1> QED
  BY <1>1, <1>2, ScheduleAssumption DEF Patience

\* Products, for the provers.
LEMMA ProductNat == ASSUME NEW n \in Nat, NEW l \in Nat PROVE n * l \in Nat
  OBVIOUS

LEMMA SumTimes ==
    ASSUME NEW n \in Nat, NEW k \in Nat, NEW l \in Nat
    PROVE  (n + k) * l = n * l + k * l
  OBVIOUS

\* The numbers of a state with room for all orders.  One that is not of the batch leaves
\* it at least one poll short.
LEMMA PastNat ==
    ASSUME ScheduleTyped, RoomForAll
    PROVE  /\ Len(batch) \in Nat /\ Len(batch) <= Batch /\ Past \in Nat
           /\ OthersOfBatch \in Nat
           /\ batch # <<>> => Past <= OthersOfBatch
           /\ \A o \in Orders \ Turns : LongestPoll <= Past
<1>1. Len(batch) \in Nat /\ Len(batch) <= Batch
  BY InjectiveLength, ScheduleAssumption, ScheduleNumbers DEF ScheduleTyped, RoomForAll
<1>2. PICK b \in Nat, k \in Nat, l \in Nat :
         b = Batch /\ k = Len(batch) /\ l = LongestPoll /\ b # 0
  BY <1>1, ScheduleNumbers
<1>3. b - k \in Nat /\ b - 1 \in Nat
  BY <1>1, <1>2
<1>4. (b - 1) * l \in Nat /\ (b - k) * l \in Nat
  BY <1>3, ProductNat
<1>5. batch # <<>> => Past <= OthersOfBatch
  <2> SUFFICES ASSUME batch # <<>> PROVE (b - k) * l <= (b - 1) * l
    BY <1>2 DEF Past, OthersOfBatch
  <2>1. k # 0
    BY <1>2, EmptySeq DEF ScheduleTyped
  <2>2. k - 1 \in Nat /\ b - 1 = (b - k) + (k - 1)
    BY <1>2, <2>1
  <2>3. (b - 1) * l = (b - k) * l + (k - 1) * l
    BY <1>3, <2>2, SumTimes
  <2>4. (k - 1) * l \in Nat
    BY <2>2, ProductNat
  <2> QED
    BY <1>4, <2>3, <2>4
<1>6. ASSUME NEW o \in Orders \ Turns PROVE LongestPoll <= Past
  <2>1. IsFiniteSet(Orders \ {o}) /\ Cardinality(Orders \ {o}) = Cardinality(Orders) - 1
    BY ScheduleAssumption, FS_RemoveElement
  <2>2. batch \in Seq(Orders \ {o}) /\ IsInjective(batch)
    <3>1. /\ batch \in Seq(Orders) /\ Len(batch) \in Nat
          /\ batch \in [1 .. Len(batch) -> Orders]
      BY <1>1, LenProperties DEF ScheduleTyped
    <3>2. \A i \in 1 .. Len(batch) : batch[i] \in Turns
      BY <3>1 DEF Turns, ToSet
    <3>3. batch \in [1 .. Len(batch) -> Orders \ {o}]
      BY <3>1, <3>2
    <3>4. batch \in Seq(Orders \ {o})
      <4>1. PICK n \in Nat, T \in {Orders \ {o}} : n = Len(batch) /\ T = Orders \ {o}
        BY <3>1
      <4>2. batch \in [1 .. n -> T]
        BY <3>3, <4>1
      <4>3. batch \in Seq(T)
        BY <4>2, SeqDef
      <4> QED
        BY <4>1, <4>3
    <3> QED
      BY <3>4 DEF ScheduleTyped
  <2>3. k <= b - 1
    <3>1. Len(batch) <= Cardinality(Orders \ {o})
      BY <2>1, <2>2, InjectiveLength
    <3> QED
      BY <1>2, <2>1, <3>1, ScheduleNumbers DEF RoomForAll
  <2>4. (b - 1) - k \in Nat /\ b - k = ((b - 1) - k) + 1
    BY <1>2, <2>3
  <2>5. (b - k) * l = ((b - 1) - k) * l + 1 * l
    BY <2>4, SumTimes
  <2>6. ((b - 1) - k) * l \in Nat
    BY <2>4, ProductNat
  <2> QED
    BY <1>2, <2>5, <2>6 DEF Past
<1> QED
  BY <1>1, <1>2, <1>4, <1>5, <1>6 DEF Past, OthersOfBatch

\* Both of the next state.
LEMMA PatienceNext == ScheduleTyped' => (\A o \in Orders : Patience(o) \in Nat)'
<1>1. ScheduleTyped => \A o \in Orders : Patience(o) \in Nat
  BY PatienceNat
<1> QED
  BY <1>1, PTL

LEMMA PastNext ==
    (ScheduleTyped /\ RoomForAll)' =>
        (Past \in Nat /\ \A o \in Orders \ Turns : LongestPoll <= Past)'
<1>1. ScheduleTyped /\ RoomForAll =>
        Past \in Nat /\ \A o \in Orders \ Turns : LongestPoll <= Past
  BY PastNat
<1> QED
  BY <1>1, PTL

\* The time since the last sync passes, up to its interval.
LEMMA SyncAgeIs ==
    ASSUME ScheduleTyped, NEW d \in Nat PROVE SyncAge(d) \in 0 .. SyncInterval
<1>1. PICK n \in Nat, c \in Nat : n = sinceSync /\ c = SyncInterval
  BY ScheduleNumbers DEF ScheduleTyped
<1>2. n + d \in Int /\ c \in Int /\ n + d >= 0
  OBVIOUS
<1>3. Min({n + d, c}) \in {n + d, c} /\ Min({n + d, c}) <= c
  BY <1>2, MinOfTwo
<1>4. Min({n + d, c}) \in 0 .. c
  BY <1>2, <1>3
<1> QED
  BY <1>1, <1>4 DEF SyncAge

\* Time passes for the orders monitored.
LEMMA AfterIs ==
    ASSUME ScheduleTyped, NEW d \in Nat
    PROVE  /\ After(d) \in [Orders -> 0 .. IdleCap]
           /\ \A o \in Orders : After(d)[o] <= idle[o] + d
<1> SUFFICES ASSUME NEW o \in Orders
             PROVE  /\ (IF o \in ToSet(monitored) THEN Min({idle[o] + d, IdleCap})
                        ELSE idle[o]) \in 0 .. IdleCap
                    /\ (IF o \in ToSet(monitored) THEN Min({idle[o] + d, IdleCap})
                        ELSE idle[o]) <= idle[o] + d
  BY DEF After
<1>1. PICK i \in Nat, c \in Nat : i = idle[o] /\ c = IdleCap /\ i <= c
  BY ScheduleNumbers DEF ScheduleTyped
<1>2. i + d \in Int /\ c \in Int
  OBVIOUS
<1>3. Min({i + d, c}) \in {i + d, c} /\ Min({i + d, c}) <= i + d /\ Min({i + d, c}) <= c
  BY <1>2, MinOfTwo
<1>4. Min({i + d, c}) \in 0 .. c /\ Min({i + d, c}) <= i + d
  BY <1>3
<1> QED
  BY <1>1, <1>4

\* Initially nothing is monitored.
LEMMA InitSchedule == ScheduleInit => ScheduleInv
<1> SUFFICES ASSUME ScheduleInit PROVE ScheduleInv
  OBVIOUS
<1> USE DEF ScheduleInit
<1>1. Watched = {} /\ Turns = {} /\ IsInjective(<<>>)
  BY EmptySeq DEF Watched, Turns, ToSet, IsInjective
<1>2. monitored \in Seq(Orders) /\ batch \in Seq(Orders)
  BY EmptySeq
<1>3. ScheduleTyped
  BY <1>1, <1>2, ScheduleNumbers DEF ScheduleTyped
<1> QED
  BY <1>1, <1>3 DEF ScheduleInv

\* An order added is due at once, and has waited for nothing.
LEMMA MonitorKeeps ==
    ASSUME ScheduleInv, NEW o \in Orders, Monitor(o) PROVE ScheduleInv'
<1> USE DEF Monitor
<1>1. /\ monitored' \in Seq(Orders) /\ IsInjective(monitored')
      /\ Watched' = Watched \cup {o}
  BY AppendMembers DEF ScheduleInv, ScheduleTyped, Watched
<1>2. /\ batch' = batch /\ stage' = stage /\ sinceSync' = sinceSync /\ sleep' = sleep
      /\ Turns' = Turns /\ Past' = Past
  BY DEF Turns, Past
<1>3. ScheduleTyped'
  BY <1>1, <1>2, ScheduleNumbers DEF ScheduleInv, ScheduleTyped
<1>4. ASSUME RoomForAll', NEW p \in Watched' PROVE WaitsLittle(p)'
  <2>0. RoomForAll
    BY <1>4 DEF RoomForAll
  <2>1. p \in Orders
    BY <1>1 DEF ScheduleInv, ScheduleTyped, Watched, ToSet
  <2>2. CASE p # o
    <3>1. idle'[p] = idle[p] /\ failures'[p] = failures[p]
      BY <2>1, <2>2 DEF ScheduleInv, ScheduleTyped
    <3>2. Patience(p)' = Patience(p)
      BY <3>1 DEF Patience
    <3>3. WaitsLittle(p)
      BY <1>1, <1>4, <2>0, <2>2 DEF ScheduleInv
    <3> QED
      BY <1>2, <3>1, <3>2, <3>3 DEF WaitsLittle
  <2>3. CASE p = o
    <3>1. idle'[o] = 0
      BY DEF ScheduleInv, ScheduleTyped
    <3>2. Patience(o)' \in Nat
      BY <1>3, PatienceNext
    <3>3. /\ Past \in Nat /\ OthersOfBatch \in Nat /\ LongestPoll <= Past
          /\ sleep \in Nat /\ sleep <= Interval
      BY <2>0, PastNat, ScheduleNumbers DEF ScheduleInv, ScheduleTyped, Turns
    <3>4. PICK a \in Nat, b \in Nat, l \in Nat, c \in Nat, v \in Nat, y \in Nat, s \in Nat :
             /\ a = Patience(o)' /\ b = Past /\ l = LongestPoll /\ c = OthersOfBatch
             /\ v = Interval /\ y = LongestSync /\ s = sleep /\ s <= v /\ l <= b
      BY <3>2, <3>3, ScheduleNumbers, Zenon
    <3>5. /\ 0 + l <= a + b /\ 0 <= a + v + y + c + b /\ 0 <= a + c
          /\ 0 <= a + c + y + (v - s) /\ 0 <= a + c + y + v
      BY <3>4
    <3> QED
      BY <1>2, <2>3, <3>1, <3>4, <3>5 DEF WaitsLittle
  <2> QED
    BY <2>2, <2>3
<1> QED
  BY <1>3, <1>4 DEF ScheduleInv

\* The numbers of a wait between cycles.
LEMMA BetweenCycles ==
    ASSUME ScheduleInv, RoomForAll, NEW o \in Orders
    PROVE  \E i \in Nat, a \in Nat, c \in Nat, v \in Nat, y \in Nat, s \in Nat :
              /\ i = idle[o] /\ a = Patience(o) /\ c = OthersOfBatch /\ v = Interval
              /\ y = LongestSync /\ s = sleep /\ s <= v
<1>1. idle[o] \in Nat
  BY ScheduleNumbers DEF ScheduleInv, ScheduleTyped
<1>2. Patience(o) \in Nat /\ OthersOfBatch \in Nat
  BY PatienceNat, PastNat DEF ScheduleInv
<1>3. sleep \in Nat /\ sleep <= Interval
  BY ScheduleNumbers DEF ScheduleInv, ScheduleTyped
<1> QED
  BY <1>1, <1>2, <1>3, ScheduleNumbers, Zenon

\* The poller sleeps.
LEMMA SleepKeeps == ASSUME ScheduleInv, Sleep PROVE ScheduleInv'
<1> USE DEF Sleep
<1>1. /\ monitored' = monitored /\ batch' = batch /\ failures' = failures
      /\ polled' = polled /\ Watched' = Watched /\ Turns' = Turns
  BY DEF Watched, Turns
<1>2. /\ batch = <<>> /\ sleep \in 1 .. Interval /\ sleep' = sleep - 1
      /\ stage = "sleep" /\ stage' = IF sleep = 1 THEN "cycle" ELSE "sleep"
  BY ScheduleNumbers DEF ScheduleInv, ScheduleTyped
<1>3. /\ idle' \in [Orders -> 0 .. IdleCap] /\ \A o \in Orders : idle'[o] <= idle[o] + 1
      /\ sinceSync' \in 0 .. SyncInterval
  BY AfterIs, SyncAgeIs DEF ScheduleInv
<1>4. ScheduleTyped'
  <2>1. sleep' \in 0 .. Interval /\ (stage' = "sleep" => sleep' # 0)
    BY <1>2, ScheduleNumbers
  <2> QED
    BY <1>1, <1>2, <1>3, <2>1 DEF ScheduleInv, ScheduleTyped
<1>5. ASSUME RoomForAll', NEW o \in Watched' PROVE WaitsLittle(o)'
  <2>1. o \in Orders
    BY <1>4 DEF ScheduleTyped, Watched, ToSet
  <2>2. RoomForAll
    BY <1>5 DEF RoomForAll
  <2>3. Patience(o)' = Patience(o)
    BY <1>1 DEF Patience
  <2>4. PICK i \in Nat, a \in Nat, c \in Nat, v \in Nat, y \in Nat, s \in Nat :
           /\ i = idle[o] /\ a = Patience(o) /\ c = OthersOfBatch /\ v = Interval
           /\ y = LongestSync /\ s = sleep /\ s <= v
    BY <2>1, <2>2, BetweenCycles
  <2>5. PICK j \in Nat : j = idle'[o]
    BY <1>3, <2>1, ScheduleNumbers
  <2>6. i <= a + c + y + (v - s)
    BY <1>1, <1>2, <1>5, <2>2, <2>4 DEF ScheduleInv, WaitsLittle
  <2>7. j <= i + 1
    BY <1>3, <2>1, <2>4, <2>5
  <2>8. j <= a + c + y + (v - (s - 1)) /\ (s = 1 => j <= a + c + y + v)
    BY <2>6, <2>7
  <2> QED
    BY <1>1, <1>2, <2>3, <2>4, <2>5, <2>8 DEF WaitsLittle
<1> QED
  BY <1>4, <1>5 DEF ScheduleInv

\* The poller goes to sleep, after a sync or without one.
LEMMA FallAsleepKeeps ==
    ASSUME ScheduleInv, FallAsleep, sinceSync' \in 0 .. SyncInterval,
           idle' \in [Orders -> 0 .. IdleCap],
           \A o \in Orders : idle'[o] <= idle[o] + LongestSync
    PROVE  ScheduleInv'
<1> USE DEF FallAsleep
<1>1. /\ monitored' = monitored /\ batch' = batch /\ failures' = failures
      /\ polled' = polled /\ Watched' = Watched /\ Turns' = Turns
  BY DEF Watched, Turns
<1>2. /\ batch = <<>> /\ stage = "sync" /\ stage' = "sleep" /\ sleep' = Interval
  BY DEF ScheduleInv, ScheduleTyped
<1>3. ScheduleTyped'
  BY <1>1, <1>2, ScheduleNumbers DEF ScheduleInv, ScheduleTyped
<1>4. ASSUME RoomForAll', NEW o \in Watched' PROVE WaitsLittle(o)'
  <2>1. o \in Orders
    BY <1>3 DEF ScheduleTyped, Watched, ToSet
  <2>2. RoomForAll
    BY <1>4 DEF RoomForAll
  <2>3. Patience(o)' = Patience(o)
    BY <1>1 DEF Patience
  <2>4. PICK i \in Nat, a \in Nat, c \in Nat, v \in Nat, y \in Nat :
           /\ i = idle[o] /\ a = Patience(o) /\ c = OthersOfBatch /\ v = Interval
           /\ y = LongestSync
    BY <2>1, <2>2, BetweenCycles
  <2>5. PICK j \in Nat : j = idle'[o] /\ j <= i + y
    BY <2>1, <2>4, ScheduleNumbers
  <2>6. i <= a + c
    BY <1>1, <1>2, <1>4, <2>2, <2>4 DEF ScheduleInv, WaitsLittle
  <2>7. j <= a + c + y + (v - v)
    BY <2>5, <2>6
  <2> QED
    BY <1>1, <1>2, <2>3, <2>4, <2>5, <2>7 DEF WaitsLittle
<1> QED
  BY <1>3, <1>4 DEF ScheduleInv

LEMMA SyncKeeps ==
    ASSUME ScheduleInv,
           \/ SkipSync
           \/ \E d \in SyncTicks, synced \in BOOLEAN : SyncPositions(d, synced)
    PROVE  ScheduleInv'
<1>1. CASE SkipSync
  <2>1. FallAsleep /\ sinceSync' = sinceSync /\ idle' = idle
    BY <1>1 DEF SkipSync
  <2>2. \A o \in Orders : idle[o] <= idle[o] + LongestSync
    <3>1. \A o \in Orders : idle[o] \in Nat
      BY ScheduleNumbers DEF ScheduleInv, ScheduleTyped
    <3> QED
      BY <3>1, ScheduleNumbers
  <2> QED
    BY <2>1, <2>2, FallAsleepKeeps DEF ScheduleInv, ScheduleTyped
<1>2. CASE \E d \in SyncTicks, synced \in BOOLEAN : SyncPositions(d, synced)
  <2>1. PICK d \in SyncTicks, synced \in BOOLEAN : SyncPositions(d, synced)
    BY <1>2
  <2>2. d \in Nat /\ d <= LongestSync
    BY <2>1, ScheduleNumbers DEF SyncPositions, SyncDue
  <2>3. /\ FallAsleep /\ idle' = After(d)
        /\ sinceSync' = IF synced THEN 0 ELSE SyncAge(d)
    BY <2>1 DEF SyncPositions
  <2>4. /\ idle' \in [Orders -> 0 .. IdleCap]
        /\ \A o \in Orders : idle'[o] <= idle[o] + d
    BY <2>2, <2>3, AfterIs DEF ScheduleInv
  <2>5. \A o \in Orders : idle'[o] <= idle[o] + LongestSync
    <3>1. \A o \in Orders : idle[o] \in Nat /\ idle'[o] \in Nat
      BY <2>4, ScheduleNumbers DEF ScheduleInv, ScheduleTyped
    <3> QED
      BY <2>2, <2>4, <3>1, ScheduleNumbers
  <2>6. sinceSync' \in 0 .. SyncInterval
    BY <2>2, <2>3, SyncAgeIs, ScheduleNumbers DEF ScheduleInv
  <2> QED
    BY <2>3, <2>4, <2>5, <2>6, FallAsleepKeeps
<1> QED
  BY <1>1, <1>2

\* A cycle starts with all due orders, when there is room for all.
LEMMA SelectKeeps == ASSUME ScheduleInv, SelectOrders PROVE ScheduleInv'
<1> USE DEF SelectOrders
<1> DEFINE due == Candidates
<1>1. /\ monitored' = monitored /\ failures' = failures /\ idle' = idle
      /\ polled' = polled /\ Watched' = Watched /\ batch = <<>> /\ stage = "cycle"
      /\ sinceSync' = sinceSync /\ sleep' = sleep
  BY DEF Watched
<1>2. due \in Seq(Orders) /\ IsInjective(due) /\ ToSet(due) = Watched \cap {o \in Orders : Due(o)}
  BY AmongIs DEF ScheduleInv, ScheduleTyped, Candidates, Watched
<1>3. /\ batch' = SubSeq(due, 1, Min({Len(due), Batch}))
      /\ stage' = IF due = <<>> THEN "sync" ELSE "cycle"
  OBVIOUS
<1> HIDE DEF due
<1>4. Len(due) \in Nat /\ Batch \in Nat \ {0} /\ (due = <<>> <=> Len(due) = 0)
  BY <1>2, LenProperties, EmptySeq, ScheduleNumbers
<1>5. PICK m \in Nat : /\ m = Min({Len(due), Batch}) /\ m <= Len(due)
                       /\ m \in {Len(due), Batch}
                       /\ Len(due) <= Batch => m = Len(due)
  <2>1. /\ Min({Len(due), Batch}) \in {Len(due), Batch}
        /\ Min({Len(due), Batch}) <= Len(due) /\ Min({Len(due), Batch}) <= Batch
    <3>1. Len(due) \in Int /\ Batch \in Int
      BY <1>4
    <3> QED
      BY <3>1, MinOfTwo
  <2>2. Min({Len(due), Batch}) \in Nat
    BY <1>4, <2>1
  <2>3. PICK m \in Nat : m = Min({Len(due), Batch})
    BY <2>2
  <2>4. Len(due) <= Batch => m = Len(due)
    BY <1>4, <2>1, <2>3
  <2> QED
    BY <2>1, <2>3, <2>4
<1>6. /\ batch' \in Seq(Orders) /\ Len(batch') = m /\ Turns' \subseteq ToSet(due)
      /\ IsInjective(batch') /\ (m = Len(due) => batch' = due)
  <2>1. batch' = SubSeq(due, 1, m)
    BY <1>3, <1>5
  <2>2. /\ SubSeq(due, 1, m) \in Seq(Orders) /\ Len(SubSeq(due, 1, m)) = m
        /\ ToSet(SubSeq(due, 1, m)) \subseteq ToSet(due) /\ IsInjective(SubSeq(due, 1, m))
        /\ m = Len(due) => SubSeq(due, 1, m) = due
    BY <1>2, <1>5, PrefixMembers
  <2> QED
    BY <2>1, <2>2 DEF Turns
<1>7. batch' # <<>> => stage' = "cycle"
  <2>1. Len(<<>>) = 0 /\ (due = <<>> => m = 0)
    BY <1>4, <1>5, EmptySeq
  <2>2. due = <<>> => batch' = <<>>
    BY <1>4, <1>6, <2>1, EmptySeq
  <2> QED
    BY <1>3, <2>2
<1>8. ScheduleTyped'
  <2>1. Turns' \subseteq Watched'
    BY <1>1, <1>2, <1>6
  <2>2. stage' \in {"cycle", "sync"}
    BY <1>3
  <2> QED
    BY <1>1, <1>6, <1>7, <2>1, <2>2 DEF ScheduleInv, ScheduleTyped
<1>9. ASSUME RoomForAll', NEW o \in Watched' PROVE WaitsLittle(o)'
  <2>1. o \in Orders /\ o \in Watched
    BY <1>1, <1>8 DEF ScheduleTyped, Watched, ToSet
  <2>2. RoomForAll
    BY <1>9 DEF RoomForAll
  <2>3. Patience(o)' = Patience(o)
    BY <1>1 DEF Patience
  <2>4. Len(due) <= Batch
    BY <1>2, <1>4, <2>2, InjectiveLength, ScheduleAssumption, ScheduleNumbers DEF RoomForAll
  <2>5. batch' = due /\ Turns' = Watched \cap {p \in Orders : Due(p)}
    BY <1>2, <1>5, <1>6, <2>4 DEF Turns
  <2>6. PICK i \in Nat, a \in Nat, c \in Nat, v \in Nat, y \in Nat, b \in Nat :
           /\ i = idle[o] /\ a = Patience(o) /\ c = OthersOfBatch
           /\ v = Interval /\ y = LongestSync /\ b = Past'
    <3>1. Past' \in Nat
      BY <1>8, <1>9, PastNext
    <3> QED
      BY <2>1, <2>2, <3>1, BetweenCycles
  <2>7. i <= a + c + y + v
    BY <1>1, <2>1, <2>2, <2>6 DEF ScheduleInv, WaitsLittle
  <2>8. CASE o \in Turns'
    <3>1. batch' # <<>>
      <4>1. Turns' = {batch'[j] : j \in DOMAIN batch'}
        BY DEF Turns, ToSet
      <4>2. DOMAIN <<>> = {}
        BY EmptySeq
      <4> QED
        BY <2>8, <4>1, <4>2
    <3>2. i <= a + v + y + c + b
      BY <2>7
    <3> QED
      BY <1>1, <2>3, <2>6, <2>8, <3>1, <3>2 DEF WaitsLittle
  <2>9. CASE o \notin Turns'
    <3>1. ~Due(o)
      BY <2>1, <2>5, <2>9
    <3>2. i < a
      BY <2>6, <3>1 DEF Due
    <3>3. PICK l \in Nat : l = LongestPoll /\ l <= b
      BY <1>8, <1>9, <2>1, <2>6, <2>9, PastNext, ScheduleNumbers
    <3>4. i + l <= a + b /\ i <= a + c
      BY <3>2, <3>3
    <3>5. batch' = <<>> => stage' = "sync"
      BY <1>3, <2>5
    <3> QED
      BY <1>1, <2>3, <2>6, <2>9, <3>3, <3>4, <3>5 DEF WaitsLittle
  <2> QED
    BY <2>8, <2>9
<1> QED
  BY <1>8, <1>9 DEF ScheduleInv

\* A poll is over: an order waited for no longer than the poll took, and the one polled
\* for nothing.
LEMMA PolledKeeps ==
    ASSUME ScheduleInv, batch # <<>>, NEW d \in PollTicks, NEW stale, NEW over,
           over \subseteq {Head(batch)}, NextOfBatch, Pruned(over, stale),
           Polled(Head(batch), d),
           failures' \in [Orders -> 0 .. MaxFailures - 1],
           \A o \in Orders \ {Head(batch)} : failures'[o] = failures[o]
    PROVE  ScheduleInv'
<1> DEFINE h == Head(batch)
           k == Len(batch)
<1>1. batch' = Tail(batch) /\ stage' = (IF k = 1 THEN "sync" ELSE "cycle") /\ sleep' = sleep
  BY DEF NextOfBatch
<1>2. /\ Tail(batch) \in Seq(Orders) /\ IsInjective(Tail(batch))
      /\ h \in Turns /\ h \notin Turns' /\ Turns' = Turns \ {h}
      /\ k \in Nat /\ k # 0 /\ Len(batch') = k - 1
  <2>1. /\ batch \in Seq(Orders) /\ IsInjective(batch)
    BY DEF ScheduleInv, ScheduleTyped
  <2>2. /\ Tail(batch) \in Seq(Orders) /\ IsInjective(Tail(batch))
        /\ h \in ToSet(batch) /\ ToSet(Tail(batch)) = ToSet(batch) \ {h}
    BY <2>1, TailMembers
  <2>3. k \in Nat /\ k # 0 /\ Len(Tail(batch)) = k - 1
    BY <2>1, HeadTailProperties, LenProperties, EmptySeq
  <2> QED
    BY <1>1, <2>2, <2>3 DEF Turns
<1>3. /\ monitored' \in Seq(Orders) /\ IsInjective(monitored')
      /\ Watched' = Watched \cap (Orders \ (over \cup stale))
  BY AmongIs DEF ScheduleInv, ScheduleTyped, Watched, Pruned
<1>4. Watched \subseteq Orders
  BY DEF ScheduleInv, ScheduleTyped, Watched, ToSet
<1>5. h \in Orders
  BY <1>2, <1>4 DEF ScheduleInv, ScheduleTyped
<1>6. d \in Nat /\ d <= LongestPoll /\ LongestPoll \in Nat /\ Interval \in Nat \ {0}
  BY ScheduleNumbers
<1>7. /\ After(d) \in [Orders -> 0 .. IdleCap]
      /\ \A o \in Orders : After(d)[o] <= idle[o] + d
  BY <1>6, AfterIs DEF ScheduleInv
<1>8. idle' = [After(d) EXCEPT ![h] = 0] /\ polled' = [polled EXCEPT ![h] = TRUE]
  BY DEF Polled
<1>9. /\ idle' \in [Orders -> 0 .. IdleCap] /\ idle'[h] = 0
      /\ \A o \in Orders \ {h} : idle'[o] <= idle[o] + d
  BY <1>5, <1>7, <1>8, ScheduleNumbers
<1>10. polled' \in [Orders -> BOOLEAN] /\ sinceSync' \in 0 .. SyncInterval
  BY <1>6, <1>8, SyncAgeIs DEF Polled, ScheduleInv, ScheduleTyped
<1>11. k = 1 <=> batch' = <<>>
  <2>1. batch' = <<>> <=> Len(batch') = 0
    BY <1>1, <1>2, EmptySeq
  <2> QED
    BY <1>2, <2>1
<1> HIDE DEF h, k
<1>12. ScheduleTyped'
  <2>1. Turns' \subseteq Watched'
    <3>1. CASE k = 1
      <4>1. Turns' = {}
        BY <1>11, <3>1, EmptySeq DEF Turns, ToSet
      <4> QED
        BY <4>1
    <3>2. CASE k # 1
      <4>1. stale = {}
        BY <1>2, <3>2 DEF Pruned, k
      <4>2. Watched \ {h} \subseteq Watched'
        BY <1>3, <1>4, <4>1 DEF h
      <4> QED
        BY <1>2, <4>2 DEF ScheduleInv, ScheduleTyped
    <3> QED
      BY <3>1, <3>2
  <2>2. stage' \in {"cycle", "sync"} /\ (batch' # <<>> => stage' = "cycle")
    BY <1>1, <1>11
  <2>3. sleep' \in 0 .. Interval
    BY <1>1 DEF ScheduleInv, ScheduleTyped
  <2> QED
    BY <1>1, <1>2, <1>3, <1>9, <1>10, <2>1, <2>2, <2>3 DEF ScheduleTyped
<1>13. ASSUME RoomForAll', NEW o \in Watched' PROVE WaitsLittle(o)'
  <2>1. o \in Orders /\ o \in Watched /\ RoomForAll
    BY <1>3, <1>4, <1>13 DEF RoomForAll
  <2>2. Past' = Past + LongestPoll /\ (k = 1 => Past = OthersOfBatch)
    <3>1. PICK b \in Nat, n \in Nat, l \in Nat :
             b = Batch /\ n = k /\ l = LongestPoll /\ n <= b /\ n # 0
      BY <1>2, <1>6, <2>1, PastNat, ScheduleNumbers DEF ScheduleInv, k
    <3>2. b - n \in Nat /\ b - (n - 1) = (b - n) + 1
      BY <3>1
    <3>3. (b - (n - 1)) * l = (b - n) * l + 1 * l
      BY <3>2, SumTimes
    <3>4. n = 1 => b - n = b - 1
      OBVIOUS
    <3> QED
      BY <1>2, <3>1, <3>3, <3>4 DEF Past, OthersOfBatch, k
  <2>3. PICK a \in Nat, c \in Nat, v \in Nat, y \in Nat, p \in Nat, l \in Nat :
           /\ a = Patience(o)' /\ c = OthersOfBatch /\ v = Interval /\ y = LongestSync
           /\ p = Past /\ l = LongestPoll
    <3>1. Patience(o)' \in Nat
      BY <1>12, <2>1, PatienceNext
    <3>2. OthersOfBatch \in Nat /\ Past \in Nat
      BY <2>1, PastNat DEF ScheduleInv
    <3> QED
      BY <1>6, <3>1, <3>2, ScheduleNumbers
  <2>4. CASE o = h
    <3>1. 0 + l <= a + (p + l) /\ 0 <= a + c
      OBVIOUS
    <3> QED
      BY <1>1, <1>2, <1>9, <1>11, <2>2, <2>3, <2>4, <3>1 DEF WaitsLittle
  <2>5. CASE o # h
    <3>1. Patience(o)' = Patience(o)
      BY <2>1, <2>5 DEF Patience, h
    <3>2. PICK i \in Nat, j \in Nat : i = idle[o] /\ j = idle'[o]
      BY <1>9, <2>1, ScheduleNumbers DEF ScheduleInv, ScheduleTyped
    <3>3. j <= i + l
      BY <1>6, <1>9, <2>1, <2>3, <2>5, <3>2
    <3>4. WaitsLittle(o)
      BY <2>1 DEF ScheduleInv
    <3>5. o \in Turns <=> o \in Turns'
      BY <1>2, <2>5
    <3>6. CASE o \in Turns
      <4>1. i <= a + v + y + c + p
        BY <2>3, <3>1, <3>2, <3>4, <3>6 DEF WaitsLittle
      <4>2. j <= a + v + y + c + (p + l)
        BY <3>3, <4>1
      <4>3. batch' # <<>>
        BY <3>5, <3>6, EmptySeq DEF Turns, ToSet
      <4> QED
        BY <2>2, <2>3, <3>2, <3>5, <3>6, <4>2, <4>3 DEF WaitsLittle
    <3>7. CASE o \notin Turns
      <4>1. i + l <= a + p
        BY <2>3, <3>1, <3>2, <3>4, <3>7 DEF WaitsLittle
      <4>2. j + l <= a + (p + l) /\ (p = c => j <= a + c)
        BY <3>3, <4>1
      <4> QED
        BY <1>1, <1>11, <2>2, <2>3, <3>2, <3>5, <3>7, <4>2 DEF WaitsLittle
    <3> QED
      BY <3>6, <3>7
  <2> QED
    BY <2>4, <2>5
<1> QED
  BY <1>12, <1>13 DEF ScheduleInv

\* Who is polled is an order.
LEMMA HeadWatched == ASSUME ScheduleInv, batch # <<>> PROVE Head(batch) \in Orders
<1>1. batch \in Seq(Orders)
  BY DEF ScheduleInv, ScheduleTyped
<1> QED
  BY <1>1, HeadTailProperties

\* The three outcomes of a poll.
LEMMA PollCompletesKeeps ==
    ASSUME ScheduleInv, NEW d \in PollTicks, NEW stale, PollCompletes(d, stale)
    PROVE  ScheduleInv'
<1>1. /\ batch # <<>> /\ NextOfBatch /\ Pruned({Head(batch)}, stale)
      /\ Polled(Head(batch), d) /\ failures' = failures
  BY DEF PollCompletes
<1>2. failures' \in [Orders -> 0 .. MaxFailures - 1]
  BY <1>1 DEF ScheduleInv, ScheduleTyped
<1> QED
  BY <1>1, <1>2, PolledKeeps

LEMMA PollSucceedsKeeps ==
    ASSUME ScheduleInv, NEW d \in PollTicks, NEW stale, PollSucceeds(d, stale)
    PROVE  ScheduleInv'
<1>1. /\ batch # <<>> /\ NextOfBatch /\ Pruned({}, stale)
      /\ Polled(Head(batch), d) /\ failures' = [failures EXCEPT ![Head(batch)] = 0]
  BY DEF PollSucceeds
<1>2. failures \in [Orders -> 0 .. MaxFailures - 1] /\ 0 \in 0 .. MaxFailures - 1
  BY ScheduleNumbers DEF ScheduleInv, ScheduleTyped
<1>3. /\ failures' \in [Orders -> 0 .. MaxFailures - 1]
      /\ \A o \in Orders \ {Head(batch)} : failures'[o] = failures[o]
  BY <1>1, <1>2
<1>4. {} \subseteq {Head(batch)}
  OBVIOUS
<1> QED
  BY <1>1, <1>3, <1>4, PolledKeeps

LEMMA PollFailsKeeps ==
    ASSUME ScheduleInv, NEW d \in PollTicks, NEW stale, PollFails(d, stale)
    PROVE  ScheduleInv'
<1> DEFINE h == Head(batch)
<1>1. batch # <<>> /\ NextOfBatch /\ Polled(h, d)
  BY DEF PollFails
<1>2. failures \in [Orders -> 0 .. MaxFailures - 1] /\ MaxFailures \in Nat
  BY ScheduleNumbers DEF ScheduleInv, ScheduleTyped
<1>3. h \in Orders /\ failures[h] \in 0 .. MaxFailures - 1
  BY <1>1, <1>2, HeadWatched
<1>4. CASE failures[h] + 1 >= MaxFailures
  <2>1. Pruned({h}, stale) /\ failures' = failures
    BY <1>4 DEF PollFails
  <2> QED
    BY <1>1, <1>2, <2>1, PolledKeeps
<1>5. CASE ~(failures[h] + 1 >= MaxFailures)
  <2>1. Pruned({}, stale) /\ failures' = [failures EXCEPT ![h] = failures[h] + 1]
    BY <1>5 DEF PollFails
  <2>2. failures[h] + 1 \in 0 .. MaxFailures - 1
    BY <1>2, <1>3, <1>5
  <2>3. /\ failures' \in [Orders -> 0 .. MaxFailures - 1]
        /\ \A o \in Orders \ {h} : failures'[o] = failures[o]
    BY <1>2, <2>1, <2>2
  <2>4. {} \subseteq {h}
    OBVIOUS
  <2> QED
    BY <1>1, <2>1, <2>3, <2>4, PolledKeeps
<1> QED
  BY <1>4, <1>5

\* Every step keeps the invariant.
LEMMA NextSchedule == ScheduleInv /\ [ScheduleNext]_scheduleVars => ScheduleInv'
<1> SUFFICES ASSUME ScheduleInv, [ScheduleNext]_scheduleVars PROVE ScheduleInv'
  OBVIOUS
<1>1. CASE UNCHANGED scheduleVars
  BY <1>1 DEF scheduleVars, ScheduleInv, ScheduleTyped, Watched, Turns, WaitsLittle,
             Patience, Past, RoomForAll
<1>2. CASE SelectOrders
  BY <1>2, SelectKeeps
<1>3. CASE Sleep
  BY <1>3, SleepKeeps
<1>6. CASE \/ SkipSync
           \/ \E d \in SyncTicks, synced \in BOOLEAN : SyncPositions(d, synced)
  BY <1>6, SyncKeeps
<1>4. ASSUME NEW o \in Orders, Monitor(o) PROVE ScheduleInv'
  BY <1>4, MonitorKeeps
<1>5. ASSUME NEW d \in PollTicks, NEW stale,
             PollCompletes(d, stale) \/ PollSucceeds(d, stale) \/ PollFails(d, stale)
      PROVE  ScheduleInv'
  BY <1>5, PollCompletesKeeps, PollSucceedsKeeps, PollFailsKeeps
<1> QED
  BY <1>1, <1>2, <1>3, <1>4, <1>5, <1>6 DEF ScheduleNext, PollerStep

\* The invariant gives the types, and the bound on the waiting time.
LEMMA ScheduleInvTyped == ScheduleInv => ScheduleTypeOK
<1> SUFFICES ASSUME ScheduleInv PROVE ScheduleTypeOK
  OBVIOUS
<1>1. batch \in Seq(ToSet(monitored))
  <2>1. batch \in Seq(Orders) /\ Turns \subseteq Watched
    BY DEF ScheduleInv, ScheduleTyped
  <2>2. /\ Len(batch) \in Nat /\ batch \in [1 .. Len(batch) -> Orders]
    BY <2>1, LenProperties
  <2>3. \A i \in 1 .. Len(batch) : batch[i] \in ToSet(monitored)
    BY <2>1, <2>2 DEF Turns, Watched, ToSet
  <2>4. batch \in [1 .. Len(batch) -> ToSet(monitored)]
    BY <2>2, <2>3
  <2> QED
    BY <2>2, <2>4, SeqDef
<1> QED
  BY <1>1 DEF ScheduleInv, ScheduleTyped, ScheduleTypeOK

LEMMA ScheduleInvKeepsUp == ScheduleInv => KeepsUp
<1> SUFFICES ASSUME ScheduleInv, Cardinality(Orders) <= Batch, NEW o \in ToSet(monitored)
             PROVE  idle[o] <= Bound(o)
  BY DEF KeepsUp
<1>1. RoomForAll /\ o \in Watched /\ ScheduleTyped /\ WaitsLittle(o)
  BY DEF RoomForAll, Watched, ScheduleInv
<1>2. o \in Orders
  BY <1>1 DEF ScheduleTyped, Watched, ToSet
<1>3. PICK i \in Nat, a \in Nat, c \in Nat, v \in Nat, y \in Nat, s \in Nat :
         /\ i = idle[o] /\ a = Patience(o) /\ c = OthersOfBatch /\ v = Interval
         /\ y = LongestSync /\ s = sleep /\ s <= v
  BY <1>1, <1>2, BetweenCycles
<1>4. i <= a + v + y + 2 * c
  <2>1. CASE batch # <<>>
    <3>1. PICK p \in Nat, l \in Nat : p = Past /\ l = LongestPoll /\ p <= c
      BY <1>1, <1>3, <2>1, PastNat, ScheduleNumbers
    <3>2. i + l <= a + p \/ i <= a + v + y + c + p
      BY <1>1, <1>3, <2>1, <3>1 DEF WaitsLittle
    <3> QED
      BY <3>1, <3>2
  <2>2. CASE batch = <<>>
    <3>1. i <= a + c \/ i <= a + c + y + (v - s) \/ i <= a + c + y + v
      BY <1>1, <1>3, <2>2 DEF WaitsLittle, ScheduleTyped
    <3> QED
      BY <1>3, <3>1
  <2> QED
    BY <2>1, <2>2
<1> QED
  BY <1>3, <1>4 DEF Bound

\* The invariant holds of every reachable state.
LEMMA ScheduleInvariant == ScheduleSpec => []ScheduleInv
BY InitSchedule, NextSchedule, PTL DEF ScheduleSpec

\* The poller's records stay well formed for any number of orders, failures allowed and
\* backoff: nothing is polled that is not monitored, nothing monitored or polled twice.
THEOREM ScheduleTypeCorrectness == ScheduleSpec => []ScheduleTypeOK
BY ScheduleInvariant, ScheduleInvTyped, PTL

\* With room for all orders in a batch, none waits longer than its interval or backoff,
\* one sleep, one sync of the positions and two cycles of the other orders until its poll
\* starts, in whatever order they come, fail and complete.
THEOREM NobodyWaitsLong == ScheduleSpec => []KeepsUp
BY ScheduleInvariant, ScheduleInvKeepsUp, PTL

================================================================================
