------------------------------- MODULE FeedProofs -------------------------------
(***************************************************************************)
(* Proofs about the feed from the exchange.  MarketFeed, for any number of *)
(* markets and any limit: the types, with the subscription limit, and what *)
(* the subscription manager remembers.  BookFeed, for any prices, sizes    *)
(* and capacities: the types, with the capacities, that a tracker which    *)
(* got everything in order is exact, and that no change goes unnamed.      *)
(***************************************************************************)
EXTENDS MarketFeed, BookFeed, SequenceTheorems, FiniteSetTheorems,
        WellFoundedInduction, TLAPS

-------------------------------------------------------------------------------
(* The subscription limit *)

LEMMA MarketsFinite ==
    ASSUME NEW s \in SUBSET Markets
    PROVE  IsFiniteSet(s) /\ Cardinality(s) \in Nat
<1>1. IsFiniteSet(Markets)
  BY FS_Interval, MarketFeedAssumption DEF Markets
<1> QED
  BY <1>1, FS_Subset, FS_CardinalityType

\* A set of markets that is not empty has a last one.
LEMMA LastMarket ==
    ASSUME NEW s \in SUBSET Markets, s # {}
    PROVE  \E last \in s : \A m \in s : m <= last
<1> DEFINE Bounds == {k \in Nat : \A m \in s : m <= k}
           R      == {pair \in Nat \X Nat : pair[1] < pair[2]}
<1>1. s \subseteq Nat /\ NumMarkets \in Bounds
  BY MarketFeedAssumption DEF Markets
<1>2. PICK k \in Bounds : \A j \in Bounds : ~ (<<j, k>> \in R)
  <2>1. IsWellFoundedOn(R, Nat)
    BY NatLessThanWellFounded DEF OpToRel
  <2> QED
    BY <2>1, <1>1, WFMin, Bounds \subseteq Nat
<1>3. \A j \in Bounds : ~ (j < k)
  BY <1>2
<1>4. k \in s
  <2>1. SUFFICES ASSUME k \notin s PROVE FALSE
    OBVIOUS
  <2>2. PICK m \in s : TRUE
    OBVIOUS
  <2>3. m \in Nat /\ m < k
    BY <2>1, <2>2, <1>1
  <2>4. k - 1 \in Bounds
    BY <2>1, <2>3, <1>1
  <2> QED
    BY <2>4, <1>3
<1> QED
  BY <1>4

\* The markets of fewer than MaxMarkets others before them are no more than that.
LEMMA LimitHolds ==
    ASSUME NEW s \in SUBSET Markets
    PROVE  Limited(s) \in Subscriptions
<1> DEFINE L == Limited(s)
<1>1. L \subseteq s /\ L \subseteq Markets
  BY DEF Limited
<1>2. CASE L = {}
  BY <1>2, <1>1, FS_EmptySet, MarketFeedAssumption DEF Subscriptions
<1>3. CASE L # {}
  <2>1. PICK last \in L : \A m \in L : m <= last
    BY <1>1, <1>3, LastMarket
  <2> DEFINE Before == {n \in s : n < last}
  <2>2. Cardinality(Before) < MaxMarkets
    BY <2>1 DEF Limited, Rank
  <2>3. L \ {last} \subseteq Before
    BY <2>1, <1>1 DEF Markets
  <2>4. Cardinality(L \ {last}) <= Cardinality(Before)
    BY <2>3, MarketsFinite, FS_Subset
  <2>5. Cardinality(L \ {last}) = Cardinality(L) - 1
    BY <2>1, <1>1, MarketsFinite, FS_RemoveElement
  <2>6. Cardinality(L) \in Nat /\ Cardinality(Before) \in Nat
    BY <1>1, MarketsFinite
  <2>7. Cardinality(L) <= MaxMarkets
    BY <2>2, <2>4, <2>5, <2>6, MarketFeedAssumption
  <2> QED
    BY <2>7, <1>1 DEF Subscriptions
<1> QED
  BY <1>2, <1>3

-------------------------------------------------------------------------------
(* The inductive invariant *)

\* Which of the hand-over and the connection there is in each phase of the app.
PhaseOK ==
    /\ app \in {"waiting", "down"} => subscription = None /\ ws = None
    /\ app \in {"starting", "reconnecting"} => subscription # None /\ ws = None
    /\ app = "running" => subscription = None /\ ws # None

IInv == TypeOK /\ PhaseOK /\ ConnectionFollowsManager

LEMMA InitIInv == Init => IInv
<1> SUFFICES ASSUME Init PROVE IInv
  OBVIOUS
<1>1. {} \in Subscriptions
  BY FS_EmptySet, MarketFeedAssumption DEF Subscriptions
<1>2. listings \in 0 .. MaxListings /\ faults \in 0 .. MaxFaults
  BY MarketFeedAssumption DEF Init
<1>3. TypeOK
  BY <1>1, <1>2 DEF Init, TypeOK
<1>4. PhaseOK /\ ConnectionFollowsManager
  BY DEF Init, PhaseOK, ConnectionFollowsManager
<1> QED
  BY <1>3, <1>4 DEF IInv

\* What the process remembers is gone when it ends or starts.
LEMMA FreshIInv ==
    ASSUME NEW phase \in {"waiting", "down"}, Fresh(phase),
           listed' \in SUBSET Markets,
           listings' \in 0 .. MaxListings, faults' \in 0 .. MaxFaults
    PROVE  IInv'
<1>1. {} \in Subscriptions
  BY FS_EmptySet, MarketFeedAssumption DEF Subscriptions
<1> QED
  BY <1>1 DEF Fresh, IInv, TypeOK, PhaseOK, ConnectionFollowsManager, Up

\* The markets change, or a discovery goes on: nothing the app sees.
LEMMA DiscoveryIInv ==
    ASSUME IInv,
           \/ \E m \in Markets : ListOrDelist(m)
           \/ StartFetch \/ FetchPage \/ FetchFails \/ BroadcastMarkets
    PROVE  IInv'
<1>1. UNCHANGED <<current, update, lagged, app, subscription, ws, orphaned>>
  BY DEF ListOrDelist, ListMarkets, StartFetch, FetchPage, FetchFails,
         BroadcastMarkets, volatile
<1>2. PhaseOK' /\ ConnectionFollowsManager'
  BY <1>1 DEF IInv, PhaseOK, ConnectionFollowsManager, Up
<1>3. /\ listed' \in SUBSET Markets
      /\ listings' \in 0 .. MaxListings /\ faults' \in 0 .. MaxFaults
      /\ discovered' = None \/ discovered' \in SUBSET Markets
  <2>1. CASE \E m \in Markets : ListOrDelist(m)
    BY <2>1, MarketFeedAssumption DEF IInv, TypeOK, ListOrDelist, ListMarkets, volatile
  <2>2. CASE StartFetch \/ FetchPage \/ FetchFails \/ BroadcastMarkets
    BY <2>2 DEF IInv, TypeOK, StartFetch, FetchPage, FetchFails, BroadcastMarkets,
                external
  <2> QED
    BY <2>1, <2>2
<1>4. \/ fetch' = None
      \/ fetch' \in [offset : Nat, found : SUBSET Markets, complete : BOOLEAN]
  <2>1. CASE FetchPage
    BY <2>1, MarketFeedAssumption DEF IInv, TypeOK, FetchPage
  <2>2. CASE StartFetch
    BY <2>2 DEF StartFetch
  <2>3. CASE (\E m \in Markets : ListOrDelist(m)) \/ FetchFails \/ BroadcastMarkets
    BY <2>3 DEF IInv, TypeOK, ListOrDelist, ListMarkets, volatile, FetchFails,
                BroadcastMarkets
  <2> QED
    BY <2>1, <2>2, <2>3
<1> QED
  BY <1>1, <1>2, <1>3, <1>4 DEF IInv, TypeOK

\* A list is remembered as it is sent: cut to the limit.
LEMMA ManagerIInv ==
    ASSUME IInv, ProcessMarketUpdate
    PROVE  IInv'
<1>1. discovered \in SUBSET Markets
  BY DEF IInv, TypeOK, ProcessMarketUpdate
<1>2. Limited(discovered) \in Subscriptions
  BY <1>1, LimitHolds
<1>3. Limited(discovered) # None
  BY <1>2, NoneAssumption DEF Subscriptions
<1>4. CASE Changed(discovered)
  <2>1. current' = Limited(discovered) /\ update' = Limited(discovered)
    BY <1>4 DEF ProcessMarketUpdate, Announced
  <2>2. TypeOK'
    BY <2>1, <1>2 DEF IInv, TypeOK, ProcessMarketUpdate, external
  <2> QED
    BY <2>1, <2>2, <1>3
       DEF IInv, PhaseOK, ConnectionFollowsManager, ProcessMarketUpdate
<1>5. CASE ~Changed(discovered)
  BY <1>5 DEF IInv, TypeOK, PhaseOK, ConnectionFollowsManager, Up,
              ProcessMarketUpdate, external
<1> QED
  BY <1>4, <1>5

\* The app passes on what it receives, to itself and then to the connection.
LEMMA AppIInv ==
    ASSUME IInv, ReceiveInitial \/ Resubscribe \/ SpawnWebsocketClient
    PROVE  IInv'
<1>1. CASE ReceiveInitial
  BY <1>1 DEF IInv, TypeOK, PhaseOK, ConnectionFollowsManager, Up, ReceiveInitial,
              ReceivesUpdate, external
<1>2. CASE Resubscribe
  BY <1>2 DEF IInv, TypeOK, PhaseOK, ConnectionFollowsManager, Up, Resubscribe,
              ReceivesUpdate, external
<1>3. CASE SpawnWebsocketClient
  <2>1. subscription \in Subscriptions /\ subscription # None
    BY <1>3 DEF IInv, TypeOK, PhaseOK, SpawnWebsocketClient
  <2>2. ws' # None
    BY <1>3, <2>1, NoneAssumption DEF SpawnWebsocketClient, Subscriptions
  <2> QED
    BY <1>3, <2>1, <2>2
       DEF IInv, TypeOK, PhaseOK, ConnectionFollowsManager, Up, SpawnWebsocketClient,
           external
<1> QED
  BY <1>1, <1>2, <1>3

\* The connection opens or falls silent, and listens to the same markets.
LEMMA ConnectionIInv ==
    ASSUME IInv, Connects \/ GoesSilent
    PROVE  IInv'
<1>1. /\ ws # None
      /\ ws \in [markets : Subscriptions, open : BOOLEAN, silent : BOOLEAN]
  BY DEF IInv, TypeOK, PhaseOK, Connects, GoesSilent
<1>2. /\ ws' \in [markets : Subscriptions, open : BOOLEAN, silent : BOOLEAN]
      /\ ws'.markets = ws.markets
  BY <1>1 DEF Connects, GoesSilent
<1>3. ws' # None
  <2>1. ws' = [markets |-> ws'.markets, open |-> ws'.open, silent |-> ws'.silent]
    BY <1>2
  <2> QED
    BY <1>2, <2>1, NoneAssumption DEF Subscriptions
<1>4. faults' \in 0 .. MaxFaults
  BY MarketFeedAssumption DEF IInv, TypeOK, Connects, GoesSilent, external
<1> QED
  BY <1>1, <1>2, <1>3, <1>4
     DEF IInv, TypeOK, PhaseOK, ConnectionFollowsManager, Up, Connects, GoesSilent,
         external

LEMMA NextIInv == IInv /\ [Next]_vars => IInv'
<1> SUFFICES ASSUME IInv, [Next]_vars PROVE IInv'
  OBVIOUS
<1>1. CASE UNCHANGED vars
  BY <1>1 DEF IInv, TypeOK, PhaseOK, ConnectionFollowsManager, Up, vars, external,
              volatile
<1>2. CASE \/ UpdateLagged \/ ConnectFails \/ OrphanPingFails \/ HealthCheckFails
           \/ Restart \/ ConnectionLost
  <2>1. Fresh("down") \/ Fresh("waiting")
    BY <1>2 DEF UpdateLagged, ConnectFails, OrphanPingFails, HealthCheckFails, Exit,
                Restart, ConnectionLost
  <2>2. /\ listed' \in SUBSET Markets
        /\ listings' \in 0 .. MaxListings /\ faults' \in 0 .. MaxFaults
    BY <1>2, MarketFeedAssumption
       DEF IInv, TypeOK, UpdateLagged, ConnectFails, OrphanPingFails,
           HealthCheckFails, Exit, Restart, ConnectionLost, external
  <2> QED
    BY <2>1, <2>2, FreshIInv
<1> QED
  BY <1>1, <1>2, DiscoveryIInv, ManagerIInv, AppIInv, ConnectionIInv DEF Next

THEOREM Invariance == Spec => []IInv
<1> QED
  BY InitIInv, NextIInv, PTL DEF Spec

-------------------------------------------------------------------------------

\* The variables keep their types, and no list that is remembered, sent or listened
\* to has more markets than max_subscriptions allows, for any number of markets and
\* any limit.
THEOREM TypeCorrect == Spec => []TypeOK
<1>1. IInv => TypeOK
  BY DEF IInv
<1> QED
  BY <1>1, Invariance, PTL

\* What the subscription manager counts is what the connection listens to, or what
\* is on its way to it, through every restart and however updates and the app's own
\* steps interleave.
THEOREM ManagerIsFollowed == Spec => []ConnectionFollowsManager
<1>1. IInv => ConnectionFollowsManager
  BY DEF IInv
<1> QED
  BY <1>1, Invariance, PTL

-------------------------------------------------------------------------------
(* BookFeed: numbers *)

\* A set of numbers that is not empty has a least one.
LEMMA LeastNumber ==
    ASSUME NEW T \in SUBSET Nat, T # {}
    PROVE  \E x \in T : \A y \in T : x <= y
<1> DEFINE R == OpToRel(<, Nat)
<1>1. IsWellFoundedOn(R, Nat)
  BY NatLessThanWellFounded
<1>2. \A x, y \in Nat : <<y, x>> \in R <=> y < x
  BY DEF OpToRel
<1> HIDE DEF R
<1>3. PICK x \in T : \A y \in T : ~(<<y, x>> \in R)
  BY <1>1, WFMin, Zenon
<1>4. ASSUME NEW y \in T PROVE x <= y
  <2>1. x \in Nat /\ y \in Nat /\ ~(y < x)
    BY <1>2, <1>3
  <2> QED
    BY <2>1
<1> QED
  BY <1>4

LEMMA Induction ==
    ASSUME NEW S, 0 \in S, \A n \in Nat : n \in S => n + 1 \in S
    PROVE  Nat \subseteq S
<1> DEFINE T == Nat \ S
<1> SUFFICES ASSUME T # {} PROVE FALSE
  OBVIOUS
<1>1. PICK n \in T : \A y \in T : n <= y
  BY LeastNumber
<1>2. n # 0 /\ n - 1 \in Nat /\ n - 1 \in S /\ (n - 1) + 1 = n
  BY <1>1
<1> QED
  BY <1>1, <1>2

LEMMA GreatestValue ==
    ASSUME NEW n \in Nat, n # 0, NEW f \in [1 .. n -> Nat]
    PROVE  \E i \in 1 .. n : \A j \in 1 .. n : f[j] <= f[i]
<1> DEFINE S == {m \in Nat : 0 < m /\ m <= n =>
                    \E i \in 1 .. m : \A j \in 1 .. m : f[j] <= f[i]}
<1>1. 0 \in S
  OBVIOUS
<1>2. ASSUME NEW m \in Nat, m \in S PROVE m + 1 \in S
  <2> SUFFICES ASSUME m + 1 <= n
               PROVE  \E i \in 1 .. m + 1 : \A j \in 1 .. m + 1 : f[j] <= f[i]
    OBVIOUS
  <2>1. CASE m = 0
    <3>1. \A j \in 1 .. m + 1 : j = 1 /\ f[j] <= f[1]
      BY <2>1
    <3> QED
      BY <2>1, <3>1
  <2>2. CASE m # 0
    <3>1. PICK i \in 1 .. m : \A j \in 1 .. m : f[j] <= f[i]
      BY <1>2, <2>2
    <3>2. f[i] \in Nat /\ f[m + 1] \in Nat /\ \A j \in 1 .. m : f[j] \in Nat
      OBVIOUS
    <3>3. \A j \in 1 .. m + 1 : j \in 1 .. m \/ j = m + 1
      OBVIOUS
    <3>4. CASE f[m + 1] <= f[i]
      <4>1. \A j \in 1 .. m + 1 : f[j] <= f[i]
        BY <3>1, <3>3, <3>4, Zenon
      <4>2. i \in 1 .. m + 1
        OBVIOUS
      <4> QED
        BY <4>1, <4>2, Zenon
    <3>5. CASE f[i] < f[m + 1]
      <4>1. \A j \in 1 .. m + 1 : f[j] <= f[m + 1]
        BY <3>1, <3>2, <3>3, <3>5
      <4> QED
        BY <4>1
    <3> QED
      BY <3>2, <3>4, <3>5
  <2> QED
    BY <2>1, <2>2
<1> HIDE DEF S
<1>3. Nat \subseteq S
  BY <1>1, <1>2, Induction
<1>4. n \in S /\ 0 < n /\ n <= n
  BY <1>3
<1> QED
  BY <1>4 DEF S

\* A finite set of numbers has a greatest one, and Max is it.
LEMMA FiniteMax ==
    ASSUME NEW T \in SUBSET Nat, IsFiniteSet(T), T # {}
    PROVE  Max(T) \in T /\ \A x \in T : x <= Max(T)
<1>1. PICK n \in Nat : ExistsSurjection(1 .. n, T)
  BY FS_NatSurjection
<1>2. PICK f \in [1 .. n -> T] : \A x \in T : \E i \in 1 .. n : f[i] = x
  BY <1>1 DEF ExistsSurjection, Surjection
<1>3. n # 0
  <2>1. PICK x \in T : TRUE
    OBVIOUS
  <2>2. PICK i \in 1 .. n : f[i] = x
    BY <1>2, <2>1
  <2> QED
    BY <2>2
<1>4. f \in [1 .. n -> Nat]
  OBVIOUS
<1>5. PICK i \in 1 .. n : \A j \in 1 .. n : f[j] <= f[i]
  BY <1>3, <1>4, GreatestValue
<1>6. f[i] \in T /\ \A x \in T : f[i] >= x
  BY <1>2, <1>5
<1>7. \E m \in T : \A x \in T : m >= x
  BY <1>6
<1>8. Max(T) \in T /\ \A x \in T : Max(T) >= x
  BY <1>7 DEF Max
<1> QED
  BY <1>8

-------------------------------------------------------------------------------
(* Queues of events *)

\* The recursive function of Kept, up to the n-th event.
Keeps(upto, q, lost, n) ==
    upto = [i \in 0 .. n |->
              IF i = 0 THEN <<>>
              ELSE IF q[i].number \in lost THEN upto[i - 1] ELSE Append(upto[i - 1], q[i])]

\* Recursion: the recursive function of Kept exists.
LEMMA KeepsExist ==
    ASSUME NEW q, NEW lost, NEW n \in Nat
    PROVE  \E upto : Keeps(upto, q, lost, n)
<1> DEFINE S == {m \in Nat : \E upto : Keeps(upto, q, lost, m)}
<1>1. 0 \in S
  <2>1. Keeps([i \in 0 .. 0 |-> <<>>], q, lost, 0)
    BY DEF Keeps
  <2> QED
    BY <2>1
<1>2. ASSUME NEW m \in Nat, m \in S PROVE m + 1 \in S
  <2>1. PICK f : Keeps(f, q, lost, m)
    BY <1>2
  <2> DEFINE new == IF q[m + 1].number \in lost THEN f[m] ELSE Append(f[m], q[m + 1])
             g == [i \in 0 .. m + 1 |-> IF i = m + 1 THEN new ELSE f[i]]
  <2>2. \A i \in 0 .. m : f[i] = IF i = 0 THEN <<>>
                                 ELSE IF q[i].number \in lost THEN f[i - 1]
                                 ELSE Append(f[i - 1], q[i])
    BY <2>1 DEF Keeps
  <2>3. \A i \in 0 .. m : g[i] = f[i]
    OBVIOUS
  <2>4. g[m + 1] = IF q[m + 1].number \in lost THEN f[m] ELSE Append(f[m], q[m + 1])
    OBVIOUS
  <2>5. g = [i \in 0 .. m + 1 |-> g[i]]
    OBVIOUS
  <2> HIDE DEF g
  <2>6. ASSUME NEW i \in 0 .. m + 1
        PROVE  g[i] = IF i = 0 THEN <<>>
                      ELSE IF q[i].number \in lost THEN g[i - 1]
                      ELSE Append(g[i - 1], q[i])
    <3>1. CASE i = m + 1
      <4>1. i - 1 = m /\ m \in 0 .. m /\ i # 0
        BY <3>1
      <4> QED
        BY <2>3, <2>4, <3>1, <4>1
    <3>2. CASE i = 0
      <4>1. 0 \in 0 .. m
        OBVIOUS
      <4> QED
        BY <2>2, <2>3, <3>2, <4>1
    <3>3. CASE i \in 1 .. m
      <4>1. i - 1 \in 0 .. m /\ i \in 0 .. m /\ i # 0
        BY <3>3
      <4> QED
        BY <2>2, <2>3, <4>1
    <3> QED
      BY <3>1, <3>2, <3>3
  <2>7. Keeps(g, q, lost, m + 1)
    BY <2>5, <2>6 DEF Keeps
  <2> QED
    BY <2>7
<1> HIDE DEF S
<1>3. Nat \subseteq S
  BY <1>1, <1>2, Induction
<1> QED
  BY <1>3 DEF S

\* The elements of a queue with one more, without its head, and cut in two.
LEMMA AppendRange ==
    ASSUME NEW S, NEW q \in Seq(S), NEW e \in S
    PROVE  /\ Append(q, e) \in Seq(S)
           /\ Len(Append(q, e)) = Len(q) + 1 /\ Len(q) \in Nat
           /\ Range(Append(q, e)) = Range(q) \cup {e}
<1> DEFINE more == Append(q, e)
           n == Len(q)
<1>1. /\ n \in Nat /\ DOMAIN q = 1 .. n /\ more \in Seq(S) /\ Len(more) = n + 1
      /\ more[n + 1] = e /\ \A i \in 1 .. n : more[i] = q[i]
  BY AppendProperties, LenProperties
<1>2. DOMAIN more = 1 .. n + 1
  BY <1>1, LenProperties
<1> HIDE DEF more, n
<1>3. \A i \in 1 .. n + 1 : i \in 1 .. n \/ i = n + 1
  BY <1>1
<1>4. n + 1 \in 1 .. n + 1 /\ \A i \in 1 .. n : i \in 1 .. n + 1
  BY <1>1
<1>5. Range(more) = Range(q) \cup {e}
  <2>1. ASSUME NEW x \in Range(more) PROVE x \in Range(q) \cup {e}
    BY <1>1, <1>2, <1>3, <2>1, Zenon DEF Range
  <2>2. ASSUME NEW x \in Range(q) \cup {e} PROVE x \in Range(more)
    BY <1>1, <1>2, <1>4, <2>2, Zenon DEF Range
  <2> QED
    BY <2>1, <2>2
<1> QED
  BY <1>1, <1>5 DEF more, n

\* The events the flush does not lose.
LEMMA KeptIs ==
    ASSUME NEW S, NEW q \in Seq(S), NEW lost
    PROVE  /\ Kept(q, lost) \in Seq(S)
           /\ Len(Kept(q, lost)) \in Nat /\ Len(Kept(q, lost)) <= Len(q)
           /\ Range(Kept(q, lost)) = {e \in Range(q) : e.number \notin lost}
<1> DEFINE f == CHOOSE f : f = [i \in 0 .. Len(q) |->
                  IF i = 0 THEN <<>>
                  ELSE IF q[i].number \in lost THEN f[i - 1] ELSE Append(f[i - 1], q[i])]
           n == Len(q)
           Seen(i) == {q[j] : j \in 1 .. i}
           Good(i) == /\ f[i] \in Seq(S) /\ Len(f[i]) \in Nat /\ Len(f[i]) <= i
                      /\ Range(f[i]) = {e \in Seen(i) : e.number \notin lost}
           T == {i \in Nat : i <= n => Good(i)}
<1>1. n \in Nat /\ DOMAIN q = 1 .. n
  BY LenProperties
<1>2. Kept(q, lost) = f[n]
  BY DEF Kept
<1>3. Keeps(f, q, lost, n)
  <2>1. \E upto : Keeps(upto, q, lost, Len(q))
    BY <1>1, KeepsExist
  <2> QED
    BY <2>1 DEF Keeps
<1>4. \A i \in 0 .. n : f[i] = IF i = 0 THEN <<>>
                               ELSE IF q[i].number \in lost THEN f[i - 1]
                               ELSE Append(f[i - 1], q[i])
  BY <1>3 DEF Keeps
<1> HIDE DEF f, n
<1>5. 0 \in T
  <2>1. f[0] = <<>>
    <3>1. 0 \in 0 .. n
      BY <1>1
    <3> QED
      BY <1>4, <3>1, Zenon
  <2>2. <<>> \in Seq(S) /\ DOMAIN <<>> = {} /\ Len(<<>>) = 0 /\ Seen(0) = {}
    BY EmptySeq
  <2>3. Range(<<>>) = {}
    BY <2>2 DEF Range
  <2>4. {e \in Seen(0) : e.number \notin lost} = {}
    BY <2>2
  <2>5. 0 \in Nat /\ 0 <= 0
    OBVIOUS
  <2> HIDE DEF Seen
  <2>6. Good(0)
    BY <2>1, <2>2, <2>3, <2>4, <2>5
  <2> QED
    BY <2>6
<1>6. ASSUME NEW i \in Nat, i \in T PROVE i + 1 \in T
  <2> SUFFICES ASSUME i + 1 <= n PROVE Good(i + 1)
    OBVIOUS
  <2>1. Good(i)
    BY <1>1, <1>6
  <2>2. i + 1 \in 0 .. n /\ i + 1 \in 1 .. n /\ i + 1 # 0 /\ (i + 1) - 1 = i
    BY <1>1
  <2>3. f[i + 1] = IF q[i + 1].number \in lost THEN f[i] ELSE Append(f[i], q[i + 1])
    BY <1>4, <2>2
  <2>4. Seen(i + 1) = Seen(i) \cup {q[i + 1]}
    <3>1. \A j \in 1 .. i + 1 : j \in 1 .. i \/ j = i + 1
      OBVIOUS
    <3>2. \A j \in 1 .. i : j \in 1 .. i + 1
      OBVIOUS
    <3> QED
      BY <3>1, <3>2
  <2>5. q[i + 1] \in S
    BY <2>2, ElementOfSeq DEF n
  <2> HIDE DEF Seen
  <2>6. CASE q[i + 1].number \notin lost
    <3>1. f[i + 1] = Append(f[i], q[i + 1])
      BY <2>3, <2>6
    <3>2. /\ f[i + 1] \in Seq(S) /\ Len(f[i + 1]) = Len(f[i]) + 1
          /\ Range(f[i + 1]) = Range(f[i]) \cup {q[i + 1]}
      BY <2>1, <2>5, <3>1, AppendRange
    <3>3. Len(f[i + 1]) \in Nat /\ Len(f[i + 1]) <= i + 1
      BY <2>1, <3>2
    <3> QED
      BY <2>1, <2>4, <2>6, <3>2, <3>3
  <2>7. CASE q[i + 1].number \in lost
    <3>1. f[i + 1] = f[i]
      BY <2>3, <2>7
    <3>2. Len(f[i]) <= i + 1
      BY <2>1
    <3> QED
      BY <2>1, <2>4, <2>7, <3>1, <3>2
  <2> QED
    BY <2>6, <2>7
<1> HIDE DEF T
<1>7. Nat \subseteq T
  BY <1>5, <1>6, Induction
<1>8. Good(n)
  <2>1. n \in T /\ n <= n
    BY <1>1, <1>7
  <2> QED
    BY <2>1 DEF T
<1>9. Seen(n) = Range(q)
  BY <1>1 DEF Range
<1> QED
  BY <1>2, <1>8, <1>9 DEF n

LEMMA TailRange ==
    ASSUME NEW S, NEW q \in Seq(S), q # <<>>
    PROVE  /\ Head(q) \in S /\ Tail(q) \in Seq(S)
           /\ Len(q) \in Nat \ {0} /\ Len(Tail(q)) = Len(q) - 1
           /\ Range(q) = {Head(q)} \cup Range(Tail(q))
<1> DEFINE rest == Tail(q)
           n == Len(rest)
<1>1. /\ Head(q) \in S /\ rest \in Seq(S) /\ n = Len(q) - 1
      /\ \A i \in 1 .. n : rest[i] = q[i + 1]
      /\ Len(q) \in Nat /\ DOMAIN q = 1 .. Len(q) /\ Head(q) = q[1]
  BY HeadTailProperties, LenProperties
<1>2. n \in Nat /\ Len(q) = n + 1 /\ DOMAIN rest = 1 .. n
  BY <1>1, LenProperties
<1> HIDE DEF rest, n
<1>3. \A i \in 1 .. n + 1 : i = 1 \/ (i - 1 \in 1 .. n /\ (i - 1) + 1 = i)
  BY <1>2
<1>4. 1 \in 1 .. n + 1 /\ \A i \in 1 .. n : i + 1 \in 1 .. n + 1
  BY <1>2
<1>5. Range(q) = {Head(q)} \cup Range(rest)
  <2>1. ASSUME NEW x \in Range(q) PROVE x \in {Head(q)} \cup Range(rest)
    <3>1. PICK i \in 1 .. n + 1 : x = q[i]
      BY <1>1, <1>2 DEF Range
    <3>2. CASE i = 1
      BY <1>1, <3>1, <3>2
    <3>3. CASE i # 1
      <4>1. i - 1 \in 1 .. n /\ rest[i - 1] = x
        BY <1>1, <1>3, <3>1, <3>3
      <4> QED
        BY <1>2, <4>1 DEF Range
    <3> QED
      BY <3>2, <3>3
  <2>2. ASSUME NEW x \in {Head(q)} \cup Range(rest) PROVE x \in Range(q)
    <3>1. x = q[1] \/ \E i \in 1 .. n : x = q[i + 1]
      BY <1>1, <1>2 DEF Range
    <3> QED
      BY <1>1, <1>2, <1>4, <3>1 DEF Range
  <2> QED
    BY <2>1, <2>2
<1>6. Len(q) \in Nat \ {0}
  BY <1>2
<1> QED
  BY <1>1, <1>5, <1>6 DEF rest, n

LEMMA SplitRange ==
    ASSUME NEW S, NEW q \in Seq(S), NEW n \in 0 .. Len(q)
    PROVE  /\ SubSeq(q, 1, n) \in Seq(S) /\ Len(SubSeq(q, 1, n)) = n
           /\ SubSeq(q, n + 1, Len(q)) \in Seq(S)
           /\ Len(SubSeq(q, n + 1, Len(q))) = Len(q) - n /\ Len(q) \in Nat
           /\ Range(q) = Range(SubSeq(q, 1, n)) \cup Range(SubSeq(q, n + 1, Len(q)))
<1> DEFINE front == SubSeq(q, 1, n)
           back  == SubSeq(q, n + 1, Len(q))
           m == Len(q)
<1>1. m \in Nat /\ DOMAIN q = 1 .. m /\ n \in Nat /\ n <= m
  BY LenProperties
<1>2. \A i \in 1 .. m : q[i] \in S
  BY ElementOfSeq
<1> HIDE DEF m
<1>3. /\ front \in Seq(S) /\ Len(front) = n /\ \A i \in 1 .. n : front[i] = q[i]
  <2>1. \A i \in 1 .. n : q[i] \in S
    BY <1>1, <1>2
  <2>2. /\ front \in Seq(S) /\ Len(front) = IF 1 <= n THEN n - 1 + 1 ELSE 0
        /\ \A i \in 1 .. n - 1 + 1 : front[i] = q[1 + i - 1]
    BY <1>1, <2>1, SubSeqProperties
  <2>3. n - 1 + 1 = n /\ \A i \in 1 .. n : 1 + i - 1 = i
    BY <1>1
  <2>4. Len(front) = n
    BY <1>1, <2>2
  <2> QED
    BY <2>2, <2>3, <2>4
<1>4. /\ back \in Seq(S) /\ Len(back) = m - n
      /\ \A i \in 1 .. m - n : back[i] = q[n + i]
  <2>1. \A i \in n + 1 .. m : q[i] \in S
    BY <1>1, <1>2
  <2>2. back = SubSeq(q, n + 1, m) /\ n + 1 \in Int /\ m \in Int
    BY <1>1 DEF m
  <2>3. /\ back \in Seq(S) /\ Len(back) = IF n + 1 <= m THEN m - (n + 1) + 1 ELSE 0
        /\ \A i \in 1 .. m - (n + 1) + 1 : back[i] = q[(n + 1) + i - 1]
    BY <2>1, <2>2, SubSeqProperties
  <2>4. m - (n + 1) + 1 = m - n /\ \A i \in 1 .. m - n : (n + 1) + i - 1 = n + i
    BY <1>1
  <2>5. Len(back) = m - n
    BY <1>1, <2>3
  <2> QED
    BY <2>3, <2>4, <2>5
<1>5. DOMAIN front = 1 .. n /\ DOMAIN back = 1 .. m - n
  BY <1>3, <1>4, LenProperties
<1> HIDE DEF front, back
<1>6. ASSUME NEW x \in Range(q) PROVE x \in Range(front) \cup Range(back)
  <2>1. PICK i \in 1 .. m : x = q[i]
    BY <1>1 DEF Range
  <2>2. CASE i <= n
    <3>1. i \in 1 .. n
      BY <1>1, <2>2
    <3> QED
      BY <1>3, <1>5, <2>1, <3>1 DEF Range
  <2>3. CASE ~(i <= n)
    <3>1. i - n \in 1 .. m - n /\ n + (i - n) = i
      BY <1>1, <2>3
    <3>2. back[i - n] = x
      BY <1>4, <2>1, <3>1
    <3> QED
      BY <1>5, <3>1, <3>2 DEF Range
  <2> QED
    BY <2>2, <2>3
<1>7. ASSUME NEW x \in Range(front) \cup Range(back) PROVE x \in Range(q)
  <2>1. CASE x \in Range(front)
    <3>1. PICK i \in 1 .. n : x = q[i]
      BY <1>3, <1>5, <2>1 DEF Range
    <3>2. i \in 1 .. m
      BY <1>1
    <3> QED
      BY <1>1, <3>1, <3>2 DEF Range
  <2>2. CASE x \in Range(back)
    <3>1. PICK i \in 1 .. m - n : x = q[n + i]
      BY <1>4, <1>5, <2>2 DEF Range
    <3>2. n + i \in 1 .. m
      BY <1>1
    <3> QED
      BY <1>1, <3>1, <3>2 DEF Range
  <2> QED
    BY <1>7, <2>1, <2>2
<1> QED
  BY <1>1, <1>3, <1>4, <1>6, <1>7 DEF front, back, m

\* A broadcast channel keeps to its capacity.
LEMMA BroadcastIs ==
    ASSUME NEW S, NEW q \in Seq(S), Len(q) <= ChannelSize, NEW e \in S
    PROVE  /\ Broadcast(q, e) \in Seq(S) /\ Len(Broadcast(q, e)) <= ChannelSize
           /\ Range(Broadcast(q, e)) \subseteq Range(q) \cup {e}
<1>1. ChannelSize \in Nat \ {0} /\ Len(q) \in Nat
  BY BookFeedAssumption, LenProperties
<1>2. CASE Len(q) = ChannelSize
  <2>1. q # <<>>
    BY <1>1, <1>2, EmptySeq
  <2>2. /\ Tail(q) \in Seq(S) /\ Len(Tail(q)) = Len(q) - 1
        /\ Range(q) = {Head(q)} \cup Range(Tail(q))
    BY <2>1, TailRange
  <2>3. /\ Append(Tail(q), e) \in Seq(S) /\ Len(Append(Tail(q), e)) = Len(Tail(q)) + 1
        /\ Range(Append(Tail(q), e)) = Range(Tail(q)) \cup {e}
    <3>1. PICK r \in Seq(S) : r = Tail(q)
      BY <2>2
    <3>2. /\ Append(r, e) \in Seq(S) /\ Len(Append(r, e)) = Len(r) + 1
          /\ Range(Append(r, e)) = Range(r) \cup {e}
      BY AppendRange
    <3> QED
      BY <3>1, <3>2, Zenon
  <2>4. Len(Append(Tail(q), e)) <= ChannelSize
    BY <1>1, <1>2, <2>2, <2>3
  <2> QED
    BY <1>2, <2>2, <2>3, <2>4 DEF Broadcast
<1>3. CASE Len(q) # ChannelSize
  <2>1. /\ Append(q, e) \in Seq(S) /\ Len(Append(q, e)) = Len(q) + 1
        /\ Range(Append(q, e)) = Range(q) \cup {e}
    BY AppendRange
  <2>2. Len(Append(q, e)) <= ChannelSize
    BY <1>1, <1>3, <2>1
  <2> QED
    BY <1>3, <2>1, <2>2 DEF Broadcast
<1> QED
  BY <1>2, <1>3

\* The buffer keeps to its size, and only its oldest event goes.
LEMMA BufferedIs ==
    ASSUME NEW S, NEW q \in Seq(S), Len(q) <= BufferMaxSize, NEW e \in S
    PROVE  /\ Buffered(q, e) \in Seq(S) /\ Len(Buffered(q, e)) <= BufferMaxSize
           /\ Range(Buffered(q, e)) \subseteq Range(q) \cup {e}
           /\ Range(q) \cup {e} \subseteq
                 Range(Buffered(q, e)) \cup (IF Len(q) >= BufferMaxSize THEN {Head(q)}
                                                                        ELSE {})
           /\ Len(q) >= BufferMaxSize => Head(q) \in Range(q)
<1>1. BufferMaxSize \in Nat \ {0} /\ Len(q) \in Nat
  BY BookFeedAssumption, LenProperties
<1>2. CASE Len(q) >= BufferMaxSize
  <2>1. q # <<>>
    BY <1>1, <1>2, EmptySeq
  <2>2. /\ Tail(q) \in Seq(S) /\ Len(Tail(q)) = Len(q) - 1
        /\ Range(q) = {Head(q)} \cup Range(Tail(q))
    BY <2>1, TailRange
  <2>3. /\ Append(Tail(q), e) \in Seq(S) /\ Len(Append(Tail(q), e)) = Len(Tail(q)) + 1
        /\ Range(Append(Tail(q), e)) = Range(Tail(q)) \cup {e}
    <3>1. PICK r \in Seq(S) : r = Tail(q)
      BY <2>2
    <3>2. /\ Append(r, e) \in Seq(S) /\ Len(Append(r, e)) = Len(r) + 1
          /\ Range(Append(r, e)) = Range(r) \cup {e}
      BY AppendRange
    <3> QED
      BY <3>1, <3>2, Zenon
  <2>4. Len(Append(Tail(q), e)) <= BufferMaxSize
    BY <1>1, <1>2, <2>2, <2>3
  <2>5. Buffered(q, e) = Append(Tail(q), e)
    BY <1>2 DEF Buffered
  <2> QED
    BY <1>2, <2>2, <2>3, <2>4, <2>5
<1>3. CASE ~(Len(q) >= BufferMaxSize)
  <2>1. /\ Append(q, e) \in Seq(S) /\ Len(Append(q, e)) = Len(q) + 1
        /\ Range(Append(q, e)) = Range(q) \cup {e}
    BY AppendRange
  <2>2. Len(Append(q, e)) <= BufferMaxSize
    BY <1>1, <1>3, <2>1
  <2>3. Buffered(q, e) = Append(q, e)
    BY <1>3 DEF Buffered
  <2> QED
    BY <1>3, <2>1, <2>2, <2>3
<1> QED
  BY <1>2, <1>3

-------------------------------------------------------------------------------
(* Books *)

\* What the exchange's bids can be: the tracker's levels without what aligning adds.
ExchangeLevels == UNION {[ps -> Sizes] : ps \in SUBSET Prices}

\* Membership in ExchangeLevels and in Levels.
LEMMA ExchangeLevelsAre ==
    ASSUME NEW f
    PROVE  /\ f \in ExchangeLevels =>
                 DOMAIN f \subseteq Prices /\ f \in [DOMAIN f -> Sizes] /\ f \in Levels
           /\ \A ps \in SUBSET Prices : f \in [ps -> Sizes] => f \in ExchangeLevels
<1>1. ASSUME f \in ExchangeLevels
      PROVE  DOMAIN f \subseteq Prices /\ f \in [DOMAIN f -> Sizes] /\ f \in Levels
  <2>1. PICK ps \in SUBSET Prices : f \in [ps -> Sizes]
    BY <1>1 DEF ExchangeLevels
  <2>2. ps \in SUBSET (Prices \cup {0}) /\ f \in [ps -> Sizes \cup {0}]
    BY <2>1
  <2>3. f \in Levels
    BY <2>2 DEF Levels
  <2> QED
    BY <2>1, <2>3
<1>2. ASSUME NEW ps \in SUBSET Prices, f \in [ps -> Sizes] PROVE f \in ExchangeLevels
  BY <1>2 DEF ExchangeLevels
<1> QED
  BY <1>1, <1>2

LEMMA LevelsAre ==
    ASSUME NEW f
    PROVE  /\ f \in Levels =>
                 DOMAIN f \subseteq Prices \cup {0} /\ f \in [DOMAIN f -> Sizes \cup {0}]
           /\ \A ps \in SUBSET (Prices \cup {0}) :
                 f \in [ps -> Sizes \cup {0}] => f \in Levels
<1>1. ASSUME f \in Levels
      PROVE  DOMAIN f \subseteq Prices \cup {0} /\ f \in [DOMAIN f -> Sizes \cup {0}]
  <2>1. PICK ps \in SUBSET (Prices \cup {0}) : f \in [ps -> Sizes \cup {0}]
    BY <1>1 DEF Levels
  <2> QED
    BY <2>1
<1>2. ASSUME NEW ps \in SUBSET (Prices \cup {0}), f \in [ps -> Sizes \cup {0}]
      PROVE  f \in Levels
  BY <1>2 DEF Levels
<1> QED
  BY <1>1, <1>2

\* The best bid is the highest price there is, or 0.
LEMMA BestIs ==
    ASSUME NEW f, DOMAIN f \subseteq Prices \cup {0}
    PROVE  /\ Best(f) \in DOMAIN f \cup {0} /\ Best(f) \in Prices \cup {0}
           /\ \A p \in DOMAIN f : p <= Best(f)
<1> DEFINE T == DOMAIN f \cup {0}
<1>1. T \in SUBSET Nat /\ T # {}
  <2>1. Prices \subseteq Nat
    BY BookFeedAssumption
  <2>2. Prices \cup {0} \subseteq Nat
    BY <2>1
  <2> QED
    BY <2>2, Zenon
<1>2. IsFiniteSet(T)
  <2>1. IsFiniteSet(Prices \cup {0})
    BY FS_AddElement, BookFeedAssumption
  <2> QED
    BY <2>1, FS_Subset
<1> HIDE DEF T
<1>3. Max(T) \in T /\ \A x \in T : x <= Max(T)
  BY <1>1, <1>2, FiniteMax
<1> QED
  BY <1>3 DEF T, Best

\* A level set or removed, and nothing else.
LEMMA WithLevelTyped ==
    ASSUME NEW price \in Prices, NEW size \in Sizes \cup {0}
    PROVE  /\ \A f \in ExchangeLevels : WithLevel(f, price, size) \in ExchangeLevels
           /\ \A f \in Levels : WithLevel(f, price, size) \in Levels
<1>1. ASSUME NEW f \in ExchangeLevels PROVE WithLevel(f, price, size) \in ExchangeLevels
  <2>1. DOMAIN f \subseteq Prices /\ f \in [DOMAIN f -> Sizes]
    BY ExchangeLevelsAre
  <2>2. CASE size = 0
    <3>1. WithLevel(f, price, size) = [p \in DOMAIN f \ {price} |-> f[p]]
      BY <2>2 DEF WithLevel, WithoutLevel, Restrict
    <3>2. DOMAIN f \ {price} \in SUBSET Prices
      BY <2>1
    <3>3. [p \in DOMAIN f \ {price} |-> f[p]] \in [DOMAIN f \ {price} -> Sizes]
      BY <2>1
    <3> QED
      BY <3>1, <3>2, <3>3, ExchangeLevelsAre
  <2>3. CASE size # 0
    <3>1. WithLevel(f, price, size) =
             [p \in DOMAIN f \cup {price} |-> IF p = price THEN size ELSE f[p]]
      BY <2>3 DEF WithLevel
    <3>2. DOMAIN f \cup {price} \in SUBSET Prices /\ size \in Sizes
      BY <2>1, <2>3
    <3>3. [p \in DOMAIN f \cup {price} |-> IF p = price THEN size ELSE f[p]]
             \in [DOMAIN f \cup {price} -> Sizes]
      BY <2>1, <3>2
    <3> QED
      BY <3>1, <3>2, <3>3, ExchangeLevelsAre
  <2> QED
    BY <2>2, <2>3
<1>2. ASSUME NEW f \in Levels PROVE WithLevel(f, price, size) \in Levels
  <2>1. DOMAIN f \subseteq Prices \cup {0} /\ f \in [DOMAIN f -> Sizes \cup {0}]
    BY LevelsAre
  <2>2. CASE size = 0
    <3>1. WithLevel(f, price, size) = [p \in DOMAIN f \ {price} |-> f[p]]
      BY <2>2 DEF WithLevel, WithoutLevel, Restrict
    <3>2. DOMAIN f \ {price} \in SUBSET (Prices \cup {0})
      BY <2>1
    <3>3. [p \in DOMAIN f \ {price} |-> f[p]] \in [DOMAIN f \ {price} -> Sizes \cup {0}]
      BY <2>1
    <3> QED
      BY <3>1, <3>2, <3>3, LevelsAre
  <2>3. CASE size # 0
    <3>1. WithLevel(f, price, size) =
             [p \in DOMAIN f \cup {price} |-> IF p = price THEN size ELSE f[p]]
      BY <2>3 DEF WithLevel
    <3>2. DOMAIN f \cup {price} \in SUBSET (Prices \cup {0})
      BY <2>1
    <3>3. [p \in DOMAIN f \cup {price} |-> IF p = price THEN size ELSE f[p]]
             \in [DOMAIN f \cup {price} -> Sizes \cup {0}]
      BY <2>1
    <3> QED
      BY <3>1, <3>2, <3>3, LevelsAre
  <2> QED
    BY <2>2, <2>3
<1> QED
  BY <1>1, <1>2

\* What is shown: the levels with a size.
LEMMA ShownIs ==
    ASSUME NEW f \in Levels
    PROVE  /\ DOMAIN Shown(f) = {p \in DOMAIN f : f[p] # 0}
           /\ \A p \in DOMAIN Shown(f) : Shown(f)[p] = f[p]
           /\ Shown(f) = [p \in DOMAIN Shown(f) |-> f[p]]
<1>1. \A p \in DOMAIN f : f[p] \in Sizes \cup {0}
  BY LevelsAre
<1>2. \A p \in DOMAIN f : f[p] > 0 <=> f[p] # 0
  <2>1. \A x \in Sizes \cup {0} : x > 0 <=> x # 0
    <3>1. Sizes \subseteq Nat
      BY BookFeedAssumption
    <3> QED
      BY <3>1
  <2> QED
    BY <1>1, <2>1, Zenon
<1>3. {p \in DOMAIN f : f[p] > 0} = {p \in DOMAIN f : f[p] # 0}
  BY <1>2
<1> QED
  BY <1>3 DEF Shown, Restrict

\* A book of the exchange shows itself.
LEMMA ShownBook == ASSUME NEW f \in ExchangeLevels PROVE Shown(f) = f
<1>1. f \in [DOMAIN f -> Sizes] /\ f \in Levels
  BY ExchangeLevelsAre
<1>2. \A p \in DOMAIN f : f[p] # 0
  BY <1>1, BookFeedAssumption
<1>3. DOMAIN Shown(f) = DOMAIN f /\ Shown(f) = [p \in DOMAIN Shown(f) |-> f[p]]
  BY <1>1, <1>2, ShownIs
<1>4. f = [p \in DOMAIN f |-> f[p]]
  BY <1>1
<1> QED
  BY <1>3, <1>4

\* Setting a level does to what is shown what it does to the levels.
LEMMA ShownWithLevel ==
    ASSUME NEW f \in Levels, NEW price \in Prices, NEW size \in Sizes \cup {0}
    PROVE  Shown(WithLevel(f, price, size)) = WithLevel(Shown(f), price, size)
<1> DEFINE h == WithLevel(f, price, size)
           g == Shown(f)
<1>1. h \in Levels
  BY WithLevelTyped
<1>2. /\ DOMAIN g = {p \in DOMAIN f : f[p] # 0} /\ \A p \in DOMAIN g : g[p] = f[p]
      /\ DOMAIN Shown(h) = {p \in DOMAIN h : h[p] # 0}
      /\ Shown(h) = [p \in DOMAIN Shown(h) |-> h[p]]
  BY <1>1, ShownIs
<1>3. CASE size = 0
  <2>1. h = [p \in DOMAIN f \ {price} |-> f[p]]
    BY <1>3 DEF WithLevel, WithoutLevel, Restrict
  <2>2. WithLevel(g, price, size) = [p \in DOMAIN g \ {price} |-> g[p]]
    BY <1>3 DEF WithLevel, WithoutLevel, Restrict
  <2> HIDE DEF g, h
  <2>3. DOMAIN Shown(h) = DOMAIN g \ {price}
    BY <1>2, <2>1
  <2>4. \A p \in DOMAIN g \ {price} : h[p] = g[p]
    BY <1>2, <2>1
  <2>5. [p \in DOMAIN g \ {price} |-> g[p]] = [p \in DOMAIN g \ {price} |-> h[p]]
    BY <2>4
  <2>6. Shown(h) = WithLevel(g, price, size)
    BY <1>2, <2>2, <2>3, <2>5
  <2> QED
    BY <2>6 DEF g, h
<1>4. CASE size # 0
  <2>1. h = [p \in DOMAIN f \cup {price} |-> IF p = price THEN size ELSE f[p]]
    BY <1>4 DEF WithLevel
  <2>2. WithLevel(g, price, size) =
           [p \in DOMAIN g \cup {price} |-> IF p = price THEN size ELSE g[p]]
    BY <1>4 DEF WithLevel
  <2> HIDE DEF g, h
  <2>3. DOMAIN Shown(h) = DOMAIN g \cup {price}
    BY <1>2, <1>4, <2>1
  <2>4. \A p \in DOMAIN g \cup {price} : h[p] = IF p = price THEN size ELSE g[p]
    BY <1>2, <2>1
  <2>5. [p \in DOMAIN g \cup {price} |-> IF p = price THEN size ELSE g[p]]
           = [p \in DOMAIN g \cup {price} |-> h[p]]
    BY <2>4
  <2>6. Shown(h) = WithLevel(g, price, size)
    BY <1>2, <2>2, <2>3, <2>5
  <2> QED
    BY <2>6 DEF g, h
<1> QED
  BY <1>3, <1>4

\* Aligning moves a level that there is.
LEMMA AlignedTyped ==
    ASSUME NEW f \in Levels, NEW best \in Prices \cup {0}
    PROVE  Aligned(f, best) \in Levels
<1> DEFINE kept == Restrict(f, {p \in DOMAIN f : p <= best})
           top == Best(kept)
<1>1. DOMAIN f \subseteq Prices \cup {0} /\ f \in [DOMAIN f -> Sizes \cup {0}]
  BY LevelsAre
<1>2. /\ DOMAIN kept \subseteq DOMAIN f /\ DOMAIN kept \in SUBSET (Prices \cup {0})
      /\ \A p \in DOMAIN kept : kept[p] \in Sizes \cup {0}
      /\ kept = [p \in DOMAIN kept |-> kept[p]]
  BY <1>1 DEF Restrict
<1>3. top \in DOMAIN kept \cup {0} /\ top \in Prices \cup {0} /\ \A p \in DOMAIN kept : p <= top
  BY <1>2, BestIs
<1>4. Aligned(f, best) =
         IF best \in DOMAIN kept THEN kept
         ELSE IF DOMAIN kept = {} THEN [p \in {best} |-> 0]
         ELSE [p \in (DOMAIN kept \ {top}) \cup {best} |->
                 IF p = best THEN kept[top] ELSE kept[p]]
  BY DEF Aligned
<1> HIDE DEF kept, top
<1>5. CASE best \in DOMAIN kept
  <2>1. kept \in [DOMAIN kept -> Sizes \cup {0}]
    BY <1>2
  <2> QED
    BY <1>2, <1>4, <1>5, <2>1, LevelsAre
<1>6. CASE best \notin DOMAIN kept /\ DOMAIN kept = {}
  <2>1. [p \in {best} |-> 0] \in [{best} -> Sizes \cup {0}] /\ {best} \in SUBSET (Prices \cup {0})
    OBVIOUS
  <2> QED
    BY <1>4, <1>6, <2>1, LevelsAre
<1>7. CASE best \notin DOMAIN kept /\ DOMAIN kept # {}
  <2> DEFINE ps == (DOMAIN kept \ {top}) \cup {best}
             moved == [p \in ps |-> IF p = best THEN kept[top] ELSE kept[p]]
  <2>1. top \in DOMAIN kept
    <3>1. PICK p \in DOMAIN kept : TRUE
      BY <1>7
    <3>2. p \in Nat /\ p <= top /\ top \in Nat
      BY <1>2, <1>3, BookFeedAssumption
    <3>3. top = 0 => p = top
      BY <3>2
    <3> QED
      BY <1>3, <3>3
  <2>2. moved \in [ps -> Sizes \cup {0}] /\ ps \in SUBSET (Prices \cup {0})
    BY <1>2, <2>1
  <2>3. Aligned(f, best) = moved
    BY <1>4, <1>7
  <2> HIDE DEF ps, moved
  <2> QED
    BY <2>2, <2>3, LevelsAre
<1> QED
  BY <1>5, <1>6, <1>7

\* Aligning with the best bid of what is shown already changes nothing of it.
LEMMA ShownAligned ==
    ASSUME NEW f \in Levels PROVE Shown(Aligned(f, Best(Shown(f)))) = Shown(f)
<1> DEFINE h == Shown(f)
           best == Best(h)
           kept == Restrict(f, {p \in DOMAIN f : p <= best})
           top == Best(kept)
           new == Aligned(f, best)
<1>1. DOMAIN f \subseteq Prices \cup {0} /\ f \in [DOMAIN f -> Sizes \cup {0}]
  BY LevelsAre
<1>2. DOMAIN h = {p \in DOMAIN f : f[p] # 0} /\ h = [p \in DOMAIN h |-> f[p]]
  BY ShownIs
<1>3. /\ best \in DOMAIN h \cup {0} /\ best \in Prices \cup {0}
      /\ \A p \in DOMAIN h : p <= best
  BY <1>1, <1>2, BestIs
<1>4. DOMAIN kept = {p \in DOMAIN f : p <= best} /\ \A p \in DOMAIN kept : kept[p] = f[p]
  BY DEF Restrict
<1>5. new = IF best \in DOMAIN kept THEN kept
            ELSE IF DOMAIN kept = {} THEN [p \in {best} |-> 0]
            ELSE [p \in (DOMAIN kept \ {top}) \cup {best} |->
                    IF p = best THEN kept[top] ELSE kept[p]]
  BY DEF Aligned
<1>6. new \in Levels
  BY <1>3, AlignedTyped
<1>7. /\ DOMAIN Shown(new) = {p \in DOMAIN new : new[p] # 0}
      /\ Shown(new) = [p \in DOMAIN Shown(new) |-> new[p]]
  BY <1>6, ShownIs
<1> HIDE DEF h, best, kept, top, new
<1>8. DOMAIN h \subseteq DOMAIN kept
  BY <1>2, <1>3, <1>4
<1>9. CASE best \in DOMAIN kept
  <2>1. new = kept
    BY <1>5, <1>9
  <2>2. DOMAIN Shown(new) = DOMAIN h /\ \A p \in DOMAIN h : new[p] = f[p]
    BY <1>2, <1>4, <1>7, <1>8, <2>1
  <2>3. [p \in DOMAIN h |-> f[p]] = [p \in DOMAIN h |-> new[p]]
    BY <2>2
  <2>4. Shown(new) = h
    BY <1>2, <1>7, <2>2, <2>3
  <2> QED
    BY <2>4 DEF h, best, new
<1>10. CASE best \notin DOMAIN kept
  <2>1. best = 0 /\ DOMAIN h = {}
    <3>1. best = 0
      BY <1>3, <1>8, <1>10
    <3>2. ASSUME NEW p \in DOMAIN h PROVE FALSE
      <4>1. p \in Nat /\ p <= 0
        BY <1>1, <1>2, <1>3, <3>1, BookFeedAssumption
      <4>2. p = best
        BY <3>1, <4>1
      <4> QED
        BY <1>8, <1>10, <4>2
    <3> QED
      BY <3>1, <3>2
  <2>2. DOMAIN kept = {}
    <3>1. ASSUME NEW p \in DOMAIN kept PROVE FALSE
      <4>1. p \in Nat /\ p <= 0
        BY <1>1, <1>4, <2>1, BookFeedAssumption
      <4>2. p = best
        BY <2>1, <4>1
      <4> QED
        BY <1>10, <4>2
    <3> QED
      BY <3>1
  <2>3. new = [p \in {best} |-> 0]
    BY <1>5, <1>10, <2>2
  <2>4. DOMAIN Shown(new) = {}
    BY <1>7, <2>3
  <2>5. Shown(new) = h
    BY <1>2, <1>7, <2>1, <2>4
  <2> QED
    BY <2>5 DEF h, best, new
<1> QED
  BY <1>9, <1>10

-------------------------------------------------------------------------------
(* The book feed *)

\* What a price change tells: the bids the exchange had after it.
Told(e) ==
    /\ e.number \in 1 .. Changes
    /\ e.best = Best(history[e.number + 1])
    /\ history[e.number + 1] = IF e.price = None THEN history[e.number]
                               ELSE WithLevel(history[e.number], e.price, e.size)

Whole(e) == e.number \in 0 .. Changes /\ e.levels = history[e.number + 1]

Tells(e) == IF e.kind = "update" THEN Told(e) ELSE Whole(e)

\* The queues tell the truth.
QueuesTell ==
    /\ \A e \in Range(priceChanges) : Tells(e)
    /\ \A e \in Range(books) : Tells(e)
    /\ \A e \in Range(buffer) : Tells(e)
    /\ \A e \in Range(stream) : Tells(e)

OnStream == {e.number : e \in {u \in Range(stream) : u.kind = "update"}}

BookInv ==
    /\ BookTypeOK
    /\ history \in Seq(ExchangeLevels)
    /\ QueuesTell
    /\ following # None => following \in 0 .. Changes /\ tracked \in Levels
    /\ ExactWhenInOrder
    /\ NothingLostSilently

\* The fields of an event, the constants, and the bids in the history.
LEMMA EventFields ==
    /\ \A e \in UpdateEvents :
          /\ e.kind = "update" /\ e.number \in 1 .. MaxChanges
          /\ e.price \in Prices \cup {None} /\ e.size \in Sizes \cup {0}
          /\ e.best \in Prices \cup {0}
    /\ \A e \in BookEvents :
          e.kind = "book" /\ e.number \in 0 .. MaxChanges /\ e.levels \in Levels
BY DEF UpdateEvents, BookEvents

LEMMA BookNumbers ==
    /\ ChannelSize \in Nat \ {0} /\ BufferMaxSize \in Nat \ {0}
    /\ FlushRateLimit \in Nat \ {0} /\ MaxChanges \in Nat /\ MaxStream \in Nat
    /\ None \notin Nat /\ None \notin Levels /\ None \notin Prices
BY BookFeedAssumption, NoBookAssumption

LEMMA HistoryIs ==
    ASSUME BookTypeOK, history \in Seq(ExchangeLevels)
    PROVE  /\ Changes \in Nat /\ Changes <= MaxChanges /\ Len(history) = Changes + 1
           /\ \A i \in 0 .. Changes : history[i + 1] \in ExchangeLevels
           /\ Bids = history[Changes + 1] /\ Bids \in ExchangeLevels
<1>1. Len(history) \in 1 .. MaxChanges + 1 /\ MaxChanges \in Nat
  BY BookNumbers DEF BookTypeOK
<1>2. /\ Changes \in Nat /\ Changes <= MaxChanges /\ Len(history) = Changes + 1
  BY <1>1 DEF Changes
<1>3. \A i \in 1 .. Len(history) : history[i] \in ExchangeLevels
  BY ElementOfSeq
<1>4. \A i \in 0 .. Changes : history[i + 1] \in ExchangeLevels
  <2>1. \A i \in 0 .. Changes : i + 1 \in 1 .. Len(history)
    BY <1>2
  <2> QED
    BY <1>3, <2>1
<1>5. Bids = history[Changes + 1]
  BY <1>2 DEF Bids, Last
<1>6. Changes \in 0 .. Changes
  BY <1>2
<1> QED
  BY <1>2, <1>4, <1>5, <1>6

\* Initially there is nothing to be wrong about.
LEMMA BookInitInv == BookInit => BookInv
<1> SUFFICES ASSUME BookInit PROVE BookInv
  OBVIOUS
<1> USE DEF BookInit
<1> DEFINE empty == [p \in {} |-> 0]
<1>1. empty \in ExchangeLevels
  <2>1. empty \in [{} -> Sizes] /\ {} \in SUBSET Prices
    OBVIOUS
  <2> QED
    BY <2>1, ExchangeLevelsAre
<1>2. empty \in Levels
  BY <1>1, ExchangeLevelsAre
<1> HIDE DEF empty
<1>3. history = <<empty>>
  BY DEF empty
<1>4. history \in Seq(ExchangeLevels) /\ history \in Seq(Levels) /\ Len(history) = 1
  BY <1>1, <1>2, <1>3
<1>5. /\ priceChanges = <<>> /\ books = <<>> /\ buffer = <<>> /\ stream = <<>>
      /\ DOMAIN <<>> = {} /\ Len(<<>>) = 0 /\ \A S : <<>> \in Seq(S)
  BY EmptySeq
<1>6. Range(<<>>) = {}
  BY <1>5 DEF Range
<1>7. Changes = 0
  BY <1>4 DEF Changes
<1>8. BookTypeOK
  <2>1. Len(history) \in 1 .. MaxChanges + 1
    BY <1>4, BookNumbers
  <2>2. 0 <= ChannelSize /\ 0 <= BufferMaxSize /\ 0 <= MaxStream
    BY BookNumbers
  <2> QED
    BY <1>4, <1>5, <2>1, <2>2 DEF BookTypeOK
<1>9. QueuesTell
  BY <1>5, <1>6 DEF QueuesTell
<1>10. NothingLostSilently
  <2>1. 1 .. Changes = {}
    BY <1>7
  <2> QED
    BY <2>1 DEF NothingLostSilently
<1> QED
  BY <1>4, <1>8, <1>9, <1>10 DEF BookInv, ExactWhenInOrder

\* What was true of an event stays true when the exchange's bids change.
LEMMA TellsStays ==
    ASSUME BookInv, NEW levels \in ExchangeLevels, history' = Append(history, levels),
           NEW e, Tells(e)
    PROVE  Tells(e)'
<1>1. /\ Changes \in Nat /\ Len(history) = Changes + 1
  BY HistoryIs DEF BookInv
<1>2. /\ Len(history') = Len(history) + 1
      /\ \A i \in 1 .. Len(history) : history'[i] = history[i]
  BY AppendProperties DEF BookInv
<1>3. Changes' = Changes + 1
  BY <1>1, <1>2 DEF Changes
<1>4. CASE e.kind = "update"
  <2>1. Told(e)
    BY <1>4 DEF Tells
  <2>2. e.number \in 1 .. Len(history) /\ e.number + 1 \in 1 .. Len(history)
    BY <1>1, <2>1 DEF Told
  <2>3. history'[e.number] = history[e.number] /\ history'[e.number + 1] = history[e.number + 1]
    BY <1>2, <2>2
  <2>4. e.number \in 1 .. Changes'
    BY <1>1, <1>3, <2>1 DEF Told
  <2>5. Told(e)'
    BY <2>1, <2>3, <2>4 DEF Told
  <2> QED
    BY <1>4, <2>5 DEF Tells
<1>5. CASE e.kind # "update"
  <2>1. Whole(e)
    BY <1>5 DEF Tells
  <2>2. e.number + 1 \in 1 .. Len(history)
    BY <1>1, <2>1 DEF Whole
  <2>3. history'[e.number + 1] = history[e.number + 1]
    BY <1>2, <2>2
  <2>4. e.number \in 0 .. Changes'
    BY <1>1, <1>3, <2>1 DEF Whole
  <2>5. Whole(e)'
    BY <2>1, <2>3, <2>4 DEF Whole
  <2> QED
    BY <1>5, <2>5 DEF Tells
<1> QED
  BY <1>4, <1>5

\* ... and when they do not.
LEMMA TellsStill ==
    ASSUME history' = history, NEW e, Tells(e) PROVE Tells(e)'
BY DEF Tells, Told, Whole, Changes

\* The exchange changes its bids, or an ask.
LEMMA AnnounceKeeps ==
    ASSUME BookInv, NEW levels \in ExchangeLevels, NEW price \in Prices \cup {None},
           NEW size \in Sizes \cup {0},
           levels = IF price = None THEN Bids ELSE WithLevel(Bids, price, size),
           Announce(levels, price, size)
    PROVE  BookInv'
<1> DEFINE change == [kind |-> "update", number |-> Changes + 1, price |-> price,
                      size |-> size, best |-> Best(levels)]
<1>1. /\ Changes < MaxChanges
      /\ history' = Append(history, levels)
      /\ priceChanges' = IF subscribed THEN Broadcast(priceChanges, change)
                                       ELSE priceChanges
      /\ over' = over \cup (({Changes + 1} \cup Numbers(priceChanges))
                                  \ Numbers(priceChanges'))
      /\ UNCHANGED <<subscribed, books, buffer, stream, tracked, following>>
  BY DEF Announce
<1>2. /\ Changes \in Nat /\ Changes <= MaxChanges /\ Len(history) = Changes + 1
      /\ Bids = history[Changes + 1]
  BY HistoryIs DEF BookInv
<1>3. levels \in Levels /\ DOMAIN levels \subseteq Prices
  BY ExchangeLevelsAre
<1>4. change \in UpdateEvents
  <2>1. Best(levels) \in Prices \cup {0}
    <3>1. DOMAIN levels \subseteq Prices \cup {0}
      BY <1>3
    <3> QED
      BY <3>1, BestIs
  <2>2. Changes + 1 \in 1 .. MaxChanges
    BY <1>1, <1>2, BookNumbers
  <2> QED
    BY <2>1, <2>2 DEF UpdateEvents
<1>5. /\ history' \in Seq(ExchangeLevels) /\ history' \in Seq(Levels)
      /\ Len(history') = Len(history) + 1 /\ history'[Len(history) + 1] = levels
      /\ \A i \in 1 .. Len(history) : history'[i] = history[i]
  <2>1. history \in Seq(ExchangeLevels) /\ history \in Seq(Levels)
    BY DEF BookInv, BookTypeOK
  <2>2. /\ history' \in Seq(ExchangeLevels)
        /\ Len(history') = Len(history) + 1 /\ history'[Len(history) + 1] = levels
        /\ \A i \in 1 .. Len(history) : history'[i] = history[i]
    BY <1>1, <2>1, AppendProperties
  <2>3. history' \in Seq(Levels)
    BY <1>1, <1>3, <2>1, AppendProperties
  <2> QED
    BY <2>2, <2>3
<1>6. Changes' = Changes + 1
  BY <1>2, <1>5 DEF Changes
<1>7. PICK c \in UpdateEvents :
         /\ c = change
         /\ c.number = Changes + 1 /\ c.price = price /\ c.size = size
         /\ c.best = Best(levels) /\ c.kind = "update"
  <2>1. /\ change.number = Changes + 1 /\ change.price = price /\ change.size = size
        /\ change.best = Best(levels) /\ change.kind = "update"
    OBVIOUS
  <2> HIDE DEF change
  <2> QED
    BY <1>4, <2>1
<1> HIDE DEF change
<1>8. Tells(c)'
  <2>1. history'[Changes + 2] = levels /\ history'[Changes + 1] = Bids
    <3>1. Len(history) + 1 = Changes + 2 /\ Changes + 1 \in 1 .. Len(history)
      BY <1>2
    <3>2. history'[Changes + 2] = levels
      BY <1>5, <3>1
    <3> QED
      BY <1>2, <1>5, <3>1, <3>2
  <2>2. c.number + 1 = Changes + 2 /\ c.number \in 1 .. Changes'
    BY <1>2, <1>6, <1>7
  <2>3. Told(c)'
    BY <1>7, <2>1, <2>2 DEF Told
  <2> QED
    BY <1>7, <2>3 DEF Tells
<1>9. /\ priceChanges' \in Seq(UpdateEvents) /\ Len(priceChanges') <= ChannelSize
      /\ Range(priceChanges') \subseteq Range(priceChanges) \cup {c}
  <2>1. priceChanges \in Seq(UpdateEvents) /\ Len(priceChanges) <= ChannelSize
    BY DEF BookInv, BookTypeOK
  <2>2. /\ Broadcast(priceChanges, c) \in Seq(UpdateEvents)
        /\ Len(Broadcast(priceChanges, c)) <= ChannelSize
        /\ Range(Broadcast(priceChanges, c)) \subseteq Range(priceChanges) \cup {c}
    BY <2>1, BroadcastIs
  <2> QED
    BY <1>1, <1>7, <2>1, <2>2
<1>10. BookTypeOK'
  <2>1. Len(history') \in 1 .. MaxChanges + 1
    BY <1>1, <1>2, <1>5, BookNumbers
  <2>2. over' \subseteq 1 .. MaxChanges
    <3>1. Changes + 1 \in 1 .. MaxChanges
      BY <1>1, <1>2, BookNumbers
    <3>2. Numbers(priceChanges) \subseteq 1 .. MaxChanges
      BY EventFields, RangeOfSeq DEF BookInv, BookTypeOK, Numbers
    <3> QED
      BY <1>1, <3>1, <3>2 DEF BookInv, BookTypeOK
  <2> QED
    BY <1>1, <1>5, <1>9, <2>1, <2>2 DEF BookInv, BookTypeOK
<1>11. QueuesTell'
  <2>1. \A e : Tells(e) => Tells(e)'
    BY <1>1, TellsStays
  <2> QED
    BY <1>1, <1>8, <1>9, <2>1 DEF BookInv, QueuesTell
<1>12. following' # None => following' \in 0 .. Changes' /\ tracked' \in Levels
  <2>1. 0 .. Changes \subseteq 0 .. Changes'
    BY <1>2, <1>6
  <2> QED
    BY <1>1, <2>1 DEF BookInv
<1>13. ExactWhenInOrder'
  <2> SUFFICES ASSUME following' # None PROVE Shown(tracked') = history'[following' + 1]
    BY DEF ExactWhenInOrder, Shown
  <2>1. following \in 0 .. Changes /\ Shown(tracked) = history[following + 1]
    BY <1>1 DEF BookInv, ExactWhenInOrder
  <2>2. following + 1 \in 1 .. Len(history)
    BY <1>2, <2>1
  <2>3. history'[following + 1] = history[following + 1]
    BY <1>5, <2>2
  <2> QED
    BY <1>1, <2>1, <2>3
<1>14. NothingLostSilently'
  <2>1. 1 .. Changes' = 1 .. Changes \cup {Changes + 1}
    BY <1>2, <1>6
  <2>2. 1 .. Changes \subseteq over \cup Numbers(priceChanges) \cup Numbers(buffer)
                                 \cup OnStream
    BY DEF BookInv, NothingLostSilently, OnStream
  <2>3. Numbers(buffer') = Numbers(buffer) /\ OnStream' = OnStream
    BY <1>1 DEF OnStream
  <2>4. over \cup Numbers(priceChanges) \cup {Changes + 1}
           \subseteq over' \cup Numbers(priceChanges')
    BY <1>1
  <2>5. 1 .. Changes' \subseteq over' \cup Numbers(priceChanges') \cup Numbers(buffer')
                                 \cup OnStream'
    BY <2>1, <2>2, <2>3, <2>4
  <2> QED
    BY <2>5 DEF NothingLostSilently, OnStream, Numbers
<1> QED
  BY <1>5, <1>10, <1>11, <1>12, <1>13, <1>14 DEF BookInv

\* Any other step: the bids stay, what is true of the events of the next state is enough.
LEMMA QuietStep ==
    ASSUME BookInv, history' = history, BookTypeOK', QueuesTell',
           following' # None => following' \in 0 .. Changes /\ tracked' \in Levels,
           following' # None => Shown(tracked') = history[following' + 1],
           over \cup Numbers(priceChanges) \cup Numbers(buffer) \cup OnStream
              \subseteq over' \cup Numbers(priceChanges') \cup Numbers(buffer')
                              \cup OnStream'
    PROVE  BookInv'
<1>1. Changes' = Changes /\ history' \in Seq(ExchangeLevels)
  BY DEF Changes, BookInv
<1>2. ExactWhenInOrder'
  BY DEF ExactWhenInOrder, Shown
<1>3. NothingLostSilently'
  <2>1. 1 .. Changes \subseteq over \cup Numbers(priceChanges) \cup Numbers(buffer)
                                 \cup OnStream
    BY DEF BookInv, NothingLostSilently, OnStream
  <2>2. 1 .. Changes' \subseteq over' \cup Numbers(priceChanges') \cup Numbers(buffer')
                                 \cup OnStream'
    BY <1>1, <2>1
  <2> QED
    BY <2>2 DEF NothingLostSilently, OnStream, Numbers
<1> QED
  BY <1>1, <1>2, <1>3 DEF BookInv

\* The exchange sends the whole book.
LEMMA SendBookKeeps ==
    ASSUME BookInv, SendBook, subscribed' \in BOOLEAN,
           UNCHANGED <<history, priceChanges, buffer, stream, tracked, following, over>>
    PROVE  BookInv'
<1> DEFINE book == [kind |-> "book", number |-> Changes, levels |-> Bids]
<1>1. books' = Broadcast(books, book)
  BY DEF SendBook
<1>2. /\ Changes \in Nat /\ Changes <= MaxChanges /\ Bids = history[Changes + 1]
      /\ Bids \in ExchangeLevels
  BY HistoryIs DEF BookInv
<1>3. book \in BookEvents /\ Tells(book)
  <2>1. Changes \in 0 .. MaxChanges /\ Changes \in 0 .. Changes /\ Bids \in Levels
    BY <1>2, BookNumbers, ExchangeLevelsAre
  <2>2. book \in BookEvents
    BY <2>1 DEF BookEvents
  <2>3. book.kind = "book" /\ book.number = Changes /\ book.levels = Bids
    OBVIOUS
  <2> HIDE DEF book
  <2>4. Whole(book)
    BY <1>2, <2>1, <2>3 DEF Whole
  <2> QED
    BY <2>2, <2>3, <2>4 DEF Tells
<1> HIDE DEF book
<1>4. /\ books' \in Seq(BookEvents) /\ Len(books') <= ChannelSize
      /\ Range(books') \subseteq Range(books) \cup {book}
  BY <1>1, <1>3, BroadcastIs DEF BookInv, BookTypeOK
<1>5. BookTypeOK'
  BY <1>4 DEF BookInv, BookTypeOK
<1>6. QueuesTell'
  <2>1. \A e : Tells(e) => Tells(e)'
    BY TellsStill
  <2> QED
    BY <1>3, <1>4, <2>1 DEF BookInv, QueuesTell
<1>7. OnStream' = OnStream
  BY DEF OnStream
<1> QED
  BY <1>5, <1>6, <1>7, QuietStep DEF BookInv, ExactWhenInOrder, Numbers, Shown

\* Min of two numbers is one of them and above neither.
LEMMA MinOfTwo ==
    ASSUME NEW a \in Int, NEW b \in Int
    PROVE  /\ Min({a, b}) \in {a, b}
           /\ Min({a, b}) <= a /\ Min({a, b}) <= b
<1>1. \E x \in {a, b} : \A y \in {a, b} : x <= y
  <2>1. CASE a <= b
    BY <2>1
  <2>2. CASE b <= a
    BY <2>2
  <2> QED
    BY <2>1, <2>2
<1> QED
  BY <1>1 DEF Min

\* Events only move on.
LEMMA MovedTell ==
    ASSUME BookInv, history' = history,
           Range(priceChanges') \cup Range(books') \cup Range(buffer') \cup Range(stream')
              \subseteq Range(priceChanges) \cup Range(books) \cup Range(buffer)
                            \cup Range(stream)
    PROVE  QueuesTell'
<1>1. \A e : Tells(e) => Tells(e)'
  BY TellsStill
<1>2. \A e \in Range(priceChanges) \cup Range(books) \cup Range(buffer) \cup Range(stream) :
          Tells(e)
  BY DEF BookInv, QueuesTell
<1>3. \A e \in Range(priceChanges') \cup Range(books') \cup Range(buffer') \cup Range(stream') :
          Tells(e)'
  BY <1>1, <1>2
<1> QED
  BY <1>3 DEF QueuesTell

\* A flush: what goes to Redis, what was lost and what stays was in the buffer.
LEMMA FlushIs ==
    ASSUME BookInv, NEW n \in Flushable, NEW sent \in Sent(n), NEW lost \in Losses(n)
    PROVE  /\ sent \in Nat /\ lost \subseteq 1 .. MaxChanges
           /\ Flushed(sent, lost) \in Seq(UpdateEvents) /\ Len(Flushed(sent, lost)) \in Nat
           /\ Len(Flushed(sent, lost)) <= sent
           /\ Range(Flushed(sent, lost)) \subseteq Range(buffer)
           /\ Remaining(n) \in Seq(UpdateEvents) /\ Len(Remaining(n)) <= BufferMaxSize
           /\ Range(Remaining(n)) \subseteq Range(buffer)
           /\ Numbers(buffer) \subseteq
                 lost \cup Numbers(Flushed(sent, lost)) \cup Numbers(Remaining(n))
<1> DEFINE front == SubSeq(buffer, 1, n)
           tried == SubSeq(buffer, 1, sent)
           kept  == Flushed(sent, lost)
           left  == Remaining(n)
<1>1. buffer \in Seq(UpdateEvents) /\ Len(buffer) \in Nat /\ Len(buffer) <= BufferMaxSize
  BY LenProperties DEF BookInv, BookTypeOK
<1>2. /\ n \in 0 .. Len(buffer) /\ n \in Nat
      /\ sent \in 0 .. Len(buffer) /\ sent \in Nat /\ sent \in {n, n + 1}
  <2>1. Len(buffer) \in Int /\ FlushRateLimit \in Int
    BY <1>1, BookNumbers
  <2>2. /\ Min({Len(buffer), FlushRateLimit}) \in {Len(buffer), FlushRateLimit}
        /\ Min({Len(buffer), FlushRateLimit}) <= Len(buffer)
    BY <2>1, MinOfTwo
  <2>3. PICK m \in Int : m = Min({Len(buffer), FlushRateLimit}) /\ m <= Len(buffer)
    BY <2>1, <2>2
  <2>4. n \in 0 .. m /\ sent \in 0 .. m /\ sent \in {n, n + 1}
    BY <2>3 DEF Flushable, Sent
  <2> QED
    BY <1>1, <2>3, <2>4
<1>3. /\ front \in Seq(UpdateEvents) /\ Len(front) = n
      /\ left \in Seq(UpdateEvents) /\ Len(left) = Len(buffer) - n
      /\ Range(buffer) = Range(front) \cup Range(left)
  BY <1>1, <1>2, SplitRange DEF Remaining
<1>4. /\ tried \in Seq(UpdateEvents) /\ Len(tried) = sent
      /\ Range(tried) \subseteq Range(buffer) /\ Range(front) \subseteq Range(tried)
  <2>1. /\ tried \in Seq(UpdateEvents) /\ Len(tried) = sent
        /\ Range(tried) \subseteq Range(buffer)
    BY <1>1, <1>2, SplitRange
  <2>2. Range(front) \subseteq Range(tried)
    <3>1. DOMAIN front = 1 .. n /\ DOMAIN tried = 1 .. sent
      BY <1>3, <2>1, LenProperties
    <3>2. \A k \in 1 .. n : k \in 1 .. sent /\ front[k] = buffer[k] /\ tried[k] = buffer[k]
      BY <1>1, <1>2
    <3> HIDE DEF front, tried
    <3> QED
      BY <3>1, <3>2, Zenon DEF Range
  <2> QED
    BY <2>1, <2>2
<1>5. /\ kept \in Seq(UpdateEvents) /\ Len(kept) \in Nat /\ Len(kept) <= Len(tried)
      /\ Range(kept) = {e \in Range(tried) : e.number \notin lost}
  <2>1. PICK q \in Seq(UpdateEvents) : q = tried
    BY <1>4
  <2>2. /\ Kept(q, lost) \in Seq(UpdateEvents) /\ Len(Kept(q, lost)) \in Nat
        /\ Len(Kept(q, lost)) <= Len(q)
        /\ Range(Kept(q, lost)) = {e \in Range(q) : e.number \notin lost}
    BY KeptIs
  <2>3. kept = Kept(q, lost)
    BY <2>1 DEF Flushed
  <2> HIDE DEF kept, tried
  <2> QED
    BY <2>1, <2>2, <2>3, Zenon
<1>6. lost \subseteq 1 .. MaxChanges
  <2>1. lost \subseteq Numbers(front)
    BY DEF Losses
  <2>2. Range(front) \subseteq UpdateEvents
    BY <1>3, RangeOfSeq
  <2> QED
    BY <2>1, <2>2, EventFields DEF Numbers
<1>7. Len(left) <= BufferMaxSize
  BY <1>1, <1>2, <1>3, BookNumbers
<1> HIDE DEF front, tried, kept, left
<1>8. Numbers(buffer) \subseteq lost \cup Numbers(kept) \cup Numbers(left)
  BY <1>3, <1>5, <1>4 DEF Numbers
<1>9. Len(kept) <= sent /\ Range(kept) \subseteq Range(buffer)
  BY <1>5, <1>4
<1> QED
  BY <1>2, <1>3, <1>5, <1>6, <1>7, <1>8, <1>9 DEF kept, left

\* Price changes can be in the stream, and are told by their kind.
LEMMA OnStreamIs ==
    /\ \A q \in Seq(UpdateEvents) : q \in Seq(UpdateEvents \cup BookEvents)
    /\ \A q \in Seq(UpdateEvents) : \A e \in Range(q) : e.kind = "update"
<1>1. Seq(UpdateEvents) \subseteq Seq(UpdateEvents \cup BookEvents)
  <2>1. UpdateEvents \subseteq UpdateEvents \cup BookEvents
    OBVIOUS
  <2> QED
    BY <2>1, SeqMonotonic
<1>2. \A q \in Seq(UpdateEvents) : Range(q) \subseteq UpdateEvents
  BY RangeOfSeq
<1> QED
  BY <1>1, <1>2, EventFields

\* Events of the publisher arrive on the stream.
LEMMA StreamGrows ==
    ASSUME BookTypeOK, NEW q \in Seq(UpdateEvents), stream' = stream \o q
    PROVE  /\ stream' \in Seq(UpdateEvents \cup BookEvents)
           /\ Len(stream') = Len(stream) + Len(q) /\ Len(stream) \in Nat /\ Len(q) \in Nat
           /\ Range(stream') = Range(stream) \cup Range(q)
           /\ OnStream' = OnStream \cup Numbers(q)
<1>1. /\ stream \in Seq(UpdateEvents \cup BookEvents)
      /\ q \in Seq(UpdateEvents \cup BookEvents)
  BY OnStreamIs DEF BookTypeOK
<1>2. /\ stream' \in Seq(UpdateEvents \cup BookEvents)
      /\ Len(stream') = Len(stream) + Len(q) /\ Len(stream) \in Nat /\ Len(q) \in Nat
      /\ Range(stream') = Range(stream) \cup Range(q)
  BY <1>1, ConcatProperties, RangeConcatenation, LenProperties
<1>3. \A e \in Range(q) : e.kind = "update"
  BY OnStreamIs
<1>4. OnStream' = OnStream \cup Numbers(q)
  BY <1>2, <1>3 DEF OnStream, Numbers
<1> QED
  BY <1>2, <1>4

\* A flush by the ticker.
LEMMA FlushTickKeeps ==
    ASSUME BookInv, NEW n \in Flushable, NEW sent \in Sent(n), NEW lost \in Losses(n),
           FlushTick(n, sent, lost)
    PROVE  BookInv'
<1> DEFINE kept == Flushed(sent, lost)
           left == Remaining(n)
<1>1. /\ Len(stream) + sent <= MaxStream
      /\ stream' = stream \o kept /\ buffer' = left /\ over' = over \cup lost
      /\ UNCHANGED <<history, subscribed, priceChanges, books, tracked, following>>
  BY DEF FlushTick
<1>2. /\ sent \in Nat /\ lost \subseteq 1 .. MaxChanges
      /\ kept \in Seq(UpdateEvents) /\ Len(kept) \in Nat /\ Len(kept) <= sent
      /\ Range(kept) \subseteq Range(buffer)
      /\ left \in Seq(UpdateEvents) /\ Len(left) <= BufferMaxSize
      /\ Range(left) \subseteq Range(buffer)
      /\ Numbers(buffer) \subseteq lost \cup Numbers(kept) \cup Numbers(left)
  BY FlushIs
<1> HIDE DEF kept, left
<1>3. /\ stream' \in Seq(UpdateEvents \cup BookEvents)
      /\ Len(stream') = Len(stream) + Len(kept) /\ Len(stream) \in Nat
      /\ Range(stream') = Range(stream) \cup Range(kept)
      /\ OnStream' = OnStream \cup Numbers(kept)
  BY <1>1, <1>2, StreamGrows DEF BookInv
<1>4. Len(stream') <= MaxStream
  BY <1>1, <1>2, <1>3, BookNumbers
<1>5. BookTypeOK'
  BY <1>1, <1>2, <1>3, <1>4 DEF BookInv, BookTypeOK
<1>6. QueuesTell'
  BY <1>1, <1>2, <1>3, MovedTell
<1>7. over \cup Numbers(priceChanges) \cup Numbers(buffer) \cup OnStream
         \subseteq over' \cup Numbers(priceChanges') \cup Numbers(buffer') \cup OnStream'
  BY <1>1, <1>2, <1>3
<1> QED
  BY <1>1, <1>5, <1>6, <1>7, QuietStep DEF BookInv, ExactWhenInOrder

\* The publisher takes a price change: it goes to Redis, to another target or into the
\* buffer, after what the flush took out of it.
LEMMA PublishPriceChangeKeeps ==
    ASSUME BookInv, NEW n \in Flushable, NEW sent \in Sent(n), NEW lost \in Losses(n),
           NEW outcome \in Outcomes, PublishPriceChange(n, sent, lost, outcome)
    PROVE  BookInv'
<1> DEFINE change == Head(priceChanges)
           kept == Flushed(sent, lost)
           left == Remaining(n)
           full == Len(left) >= BufferMaxSize
           own  == IF Taken(outcome) THEN <<change>> ELSE <<>>
<1>1. /\ priceChanges # <<>>
      /\ Len(stream) + sent < MaxStream
      /\ stream' = stream \o kept \o own
      /\ buffer' = IF Fails(outcome) THEN Buffered(left, change) ELSE left
      /\ priceChanges' = Tail(priceChanges)
      /\ over' = over \cup lost
              \cup (IF outcome = "elsewhere" THEN {change.number} ELSE {})
              \cup (IF Fails(outcome) /\ full THEN {Head(left).number} ELSE {})
      /\ UNCHANGED <<history, subscribed, books, tracked, following>>
  BY DEF PublishPriceChange
<1>2. /\ sent \in Nat /\ lost \subseteq 1 .. MaxChanges
      /\ kept \in Seq(UpdateEvents) /\ Len(kept) \in Nat /\ Len(kept) <= sent
      /\ Range(kept) \subseteq Range(buffer)
      /\ left \in Seq(UpdateEvents) /\ Len(left) <= BufferMaxSize
      /\ Range(left) \subseteq Range(buffer)
      /\ Numbers(buffer) \subseteq lost \cup Numbers(kept) \cup Numbers(left)
  BY FlushIs
<1>3. /\ change \in UpdateEvents /\ Tail(priceChanges) \in Seq(UpdateEvents)
      /\ Len(priceChanges) \in Nat \ {0} /\ Len(Tail(priceChanges)) = Len(priceChanges) - 1
      /\ Range(priceChanges) = {change} \cup Range(Tail(priceChanges))
  BY <1>1, TailRange DEF BookInv, BookTypeOK
<1>4. /\ own \in Seq(UpdateEvents) /\ Len(own) \in Nat /\ Len(own) <= 1
      /\ Range(own) = IF Taken(outcome) THEN {change} ELSE {}
  <2>1. CASE Taken(outcome)
    <3>1. PICK c \in UpdateEvents : c = change
      BY <1>3
    <3>2. <<c>> \in Seq(UpdateEvents) /\ Len(<<c>>) = 1 /\ DOMAIN <<c>> = {1} /\ <<c>>[1] = c
      OBVIOUS
    <3>3. Range(<<c>>) = {c}
      BY <3>2 DEF Range
    <3> QED
      BY <2>1, <3>1, <3>2, <3>3
  <2>2. CASE ~Taken(outcome)
    <3>1. <<>> \in Seq(UpdateEvents) /\ Len(<<>>) = 0 /\ DOMAIN <<>> = {}
      BY EmptySeq
    <3>2. Range(<<>>) = {}
      BY <3>1 DEF Range
    <3> QED
      BY <2>2, <3>1, <3>2
  <2> QED
    BY <2>1, <2>2
<1>5. /\ Buffered(left, change) \in Seq(UpdateEvents)
      /\ Len(Buffered(left, change)) <= BufferMaxSize
      /\ Range(Buffered(left, change)) \subseteq Range(left) \cup {change}
      /\ Range(left) \cup {change} \subseteq
            Range(Buffered(left, change)) \cup (IF full THEN {Head(left)} ELSE {})
      /\ full => Head(left) \in Range(left)
  BY <1>2, <1>3, BufferedIs
<1> HIDE DEF kept, left, own, full, change
<1>6. /\ kept \o own \in Seq(UpdateEvents) /\ Len(kept \o own) = Len(kept) + Len(own)
      /\ Range(kept \o own) = Range(kept) \cup Range(own)
  BY <1>2, <1>4, ConcatProperties, RangeConcatenation
<1>7. stream' = stream \o (kept \o own)
  <2>1. /\ stream \in Seq(UpdateEvents \cup BookEvents)
        /\ kept \in Seq(UpdateEvents \cup BookEvents) /\ own \in Seq(UpdateEvents \cup BookEvents)
    BY <1>2, <1>4, OnStreamIs DEF BookInv, BookTypeOK
  <2>2. (stream \o kept) \o own = stream \o (kept \o own)
    BY <2>1, ConcatAssociative
  <2> QED
    BY <1>1, <2>2, Zenon
<1>8. /\ stream' \in Seq(UpdateEvents \cup BookEvents)
      /\ Len(stream') = Len(stream) + (Len(kept) + Len(own)) /\ Len(stream) \in Nat
      /\ Range(stream') = Range(stream) \cup (Range(kept) \cup Range(own))
      /\ OnStream' = OnStream \cup Numbers(kept \o own)
  <2>1. PICK q \in Seq(UpdateEvents) :
           /\ q = kept \o own /\ Len(q) = Len(kept) + Len(own)
           /\ Range(q) = Range(kept) \cup Range(own)
    BY <1>6
  <2>2. stream' = stream \o q
    BY <1>7, <2>1
  <2>3. /\ stream' \in Seq(UpdateEvents \cup BookEvents)
        /\ Len(stream') = Len(stream) + Len(q) /\ Len(stream) \in Nat
        /\ Range(stream') = Range(stream) \cup Range(q)
        /\ OnStream' = OnStream \cup Numbers(q)
    BY <2>2, StreamGrows DEF BookInv
  <2> QED
    BY <2>1, <2>3, Zenon
<1>9. Numbers(kept \o own) = Numbers(kept) \cup Numbers(own)
  BY <1>6 DEF Numbers
<1>10. Len(stream') <= MaxStream /\ Len(priceChanges') <= ChannelSize
  <2>1. Len(stream') <= MaxStream
    BY <1>1, <1>2, <1>4, <1>8, BookNumbers
  <2>2. Len(priceChanges) <= ChannelSize
    BY DEF BookInv, BookTypeOK
  <2> QED
    BY <1>1, <1>3, <2>1, <2>2, BookNumbers
<1>11. over' \subseteq 1 .. MaxChanges
  <2>1. change.number \in 1 .. MaxChanges
    BY <1>3, EventFields
  <2>2. full => Head(left).number \in 1 .. MaxChanges
    <3>1. Range(left) \subseteq UpdateEvents
      BY <1>2, RangeOfSeq
    <3> QED
      BY <1>5, <3>1, EventFields
  <2>3. over \subseteq 1 .. MaxChanges
    BY DEF BookInv, BookTypeOK
  <2> QED
    BY <1>1, <1>2, <2>1, <2>2, <2>3
<1>12. /\ buffer' \in Seq(UpdateEvents) /\ Len(buffer') <= BufferMaxSize
       /\ Range(buffer') \subseteq Range(buffer) \cup {change}
  BY <1>1, <1>2, <1>5
<1>13. BookTypeOK'
  BY <1>1, <1>3, <1>8, <1>10, <1>11, <1>12 DEF BookInv, BookTypeOK
<1>14. QueuesTell'
  <2>1. Range(own) \subseteq {change}
    BY <1>4
  <2>2. Range(priceChanges') \cup Range(books') \cup Range(buffer') \cup Range(stream')
           \subseteq Range(priceChanges) \cup Range(books) \cup Range(buffer)
                         \cup Range(stream)
    BY <1>1, <1>2, <1>3, <1>8, <1>12, <2>1
  <2> QED
    BY <1>1, <2>2, MovedTell
<1>15. over \cup Numbers(priceChanges) \cup Numbers(buffer) \cup OnStream
          \subseteq over' \cup Numbers(priceChanges') \cup Numbers(buffer') \cup OnStream'
  <2>1. Numbers(priceChanges) = {change.number} \cup Numbers(priceChanges')
    BY <1>1, <1>3 DEF Numbers
  <2>2. over \cup lost \cup OnStream \cup Numbers(kept)
           \subseteq over' \cup OnStream'
    BY <1>1, <1>8, <1>9
  <2>3. change.number \in over' \cup Numbers(buffer') \cup OnStream'
    <3>1. CASE Taken(outcome)
      <4>1. change.number \in Numbers(own)
        BY <1>4, <3>1 DEF Numbers
      <4> QED
        BY <1>8, <1>9, <4>1
    <3>2. CASE outcome = "elsewhere"
      BY <1>1, <3>2
    <3>3. CASE Fails(outcome)
      <4>1. change \in Range(buffer') \/ (full /\ change = Head(left))
        BY <1>1, <1>5, <3>3
      <4>2. full => Head(left).number \in over'
        BY <1>1, <3>3
      <4> QED
        BY <4>1, <4>2 DEF Numbers
    <3> QED
      BY <3>1, <3>2, <3>3 DEF Outcomes, Taken, Fails
  <2>4. Numbers(left) \subseteq over' \cup Numbers(buffer')
    <3>1. CASE Fails(outcome)
      <4>1. \A e \in Range(left) : e \in Range(buffer') \/ (full /\ e = Head(left))
        BY <1>1, <1>5, <3>1
      <4>2. full => Head(left).number \in over'
        BY <1>1, <3>1
      <4> QED
        BY <4>1, <4>2 DEF Numbers
    <3>2. CASE ~Fails(outcome)
      BY <1>1, <3>2
    <3> QED
      BY <3>1, <3>2
  <2> QED
    BY <1>2, <2>1, <2>2, <2>3, <2>4
<1> QED
  BY <1>1, <1>13, <1>14, <1>15, QuietStep DEF BookInv, ExactWhenInOrder

\* The publisher takes a book.
LEMMA PublishBookKeeps ==
    ASSUME BookInv, NEW outcome \in Outcomes, PublishBook(outcome)
    PROVE  BookInv'
<1> DEFINE book == Head(books)
<1>1. /\ books # <<>>
      /\ Len(stream) < MaxStream
      /\ stream' = IF Taken(outcome) THEN Append(stream, book) ELSE stream
      /\ books' = Tail(books)
      /\ UNCHANGED <<history, subscribed, priceChanges, buffer, tracked, following, over>>
  BY DEF PublishBook
<1>2. /\ book \in BookEvents /\ Tail(books) \in Seq(BookEvents)
      /\ Len(books) \in Nat \ {0} /\ Len(Tail(books)) = Len(books) - 1
      /\ Range(books) = {book} \cup Range(Tail(books))
  BY <1>1, TailRange DEF BookInv, BookTypeOK
<1>3. PICK b \in BookEvents : b = book
  BY <1>2
<1> HIDE DEF book
<1>4. /\ Append(stream, b) \in Seq(UpdateEvents \cup BookEvents)
      /\ Len(Append(stream, b)) = Len(stream) + 1 /\ Len(stream) \in Nat
      /\ Range(Append(stream, b)) = Range(stream) \cup {b}
  <2>1. stream \in Seq(UpdateEvents \cup BookEvents) /\ b \in UpdateEvents \cup BookEvents
    BY DEF BookInv, BookTypeOK
  <2> QED
    BY <2>1, AppendRange
<1>5. /\ stream' \in Seq(UpdateEvents \cup BookEvents) /\ Len(stream') <= MaxStream
      /\ Range(stream') \subseteq Range(stream) \cup {b}
      /\ Range(stream) \subseteq Range(stream')
  <2>1. CASE Taken(outcome)
    <3>1. stream' = Append(stream, b)
      BY <1>1, <1>3, <2>1
    <3>2. Len(stream) + 1 <= MaxStream
      BY <1>1, <1>4, BookNumbers
    <3> QED
      BY <1>4, <3>1, <3>2
  <2>2. CASE ~Taken(outcome)
    BY <1>1, <2>2 DEF BookInv, BookTypeOK
  <2> QED
    BY <2>1, <2>2
<1>6. BookTypeOK'
  <2>1. Len(books) <= ChannelSize
    BY DEF BookInv, BookTypeOK
  <2>2. Len(books') <= ChannelSize
    BY <1>1, <1>2, <2>1, BookNumbers
  <2> QED
    BY <1>1, <1>2, <1>5, <2>2 DEF BookInv, BookTypeOK
<1>7. QueuesTell'
  BY <1>1, <1>2, <1>3, <1>5, MovedTell
<1>8. OnStream \subseteq OnStream'
  BY <1>5 DEF OnStream
<1>9. over \cup Numbers(priceChanges) \cup Numbers(buffer) \cup OnStream
         \subseteq over' \cup Numbers(priceChanges') \cup Numbers(buffer') \cup OnStream'
  BY <1>1, <1>8
<1> QED
  BY <1>1, <1>6, <1>7, <1>9, QuietStep DEF BookInv, ExactWhenInOrder

\* A level that is set again stays as it is.
LEMMA WithLevelTwice ==
    ASSUME NEW levels, NEW price, NEW size
    PROVE  WithLevel(WithLevel(levels, price, size), price, size)
              = WithLevel(levels, price, size)
<1> DEFINE once == WithLevel(levels, price, size)
<1>1. CASE size = 0
  <2>1. once = [p \in DOMAIN levels \ {price} |-> levels[p]]
    BY <1>1 DEF WithLevel, WithoutLevel, Restrict
  <2>2. WithLevel(once, price, size) = [p \in DOMAIN once \ {price} |-> once[p]]
    BY <1>1 DEF WithLevel, WithoutLevel, Restrict
  <2> HIDE DEF once
  <2>3. DOMAIN once = DOMAIN levels \ {price}
    BY <2>1
  <2>4. DOMAIN once \ {price} = DOMAIN levels \ {price}
    BY <2>3
  <2> QED
    BY <2>1, <2>2, <2>4 DEF once
<1>2. CASE size # 0
  <2>1. once = [p \in DOMAIN levels \cup {price} |->
                   IF p = price THEN size ELSE levels[p]]
    BY <1>2 DEF WithLevel
  <2>2. WithLevel(once, price, size) = [p \in DOMAIN once \cup {price} |->
                   IF p = price THEN size ELSE once[p]]
    BY <1>2 DEF WithLevel
  <2> HIDE DEF once
  <2>3. DOMAIN once = DOMAIN levels \cup {price}
    BY <2>1
  <2>4. DOMAIN once \cup {price} = DOMAIN levels \cup {price}
    BY <2>3
  <2> QED
    BY <2>1, <2>2, <2>4 DEF once
<1> QED
  BY <1>1, <1>2

\* What an update makes of the levels tracked.
LEMMA UpdatedIs ==
    ASSUME BookInv, NEW e \in UpdateEvents, tracked \in Levels
    PROVE  /\ Updated(tracked, e) \in Levels
           /\ Told(e) /\ Shown(tracked) = history[e.number] =>
                 Shown(Updated(tracked, e)) = history[e.number + 1]
           /\ Told(e) /\ Shown(tracked) = history[e.number + 1] =>
                 Shown(Updated(tracked, e)) = history[e.number + 1]
<1> DEFINE g == IF e.price = None THEN tracked ELSE WithLevel(tracked, e.price, e.size)
<1>1. /\ e.price \in Prices \cup {None} /\ e.size \in Sizes \cup {0}
      /\ e.best \in Prices \cup {0}
  BY EventFields
<1>2. g \in Levels
  <2>1. CASE e.price = None
    BY <2>1
  <2>2. CASE e.price # None
    <3>1. e.price \in Prices
      BY <1>1, <2>2
    <3>2. WithLevel(tracked, e.price, e.size) \in Levels
      BY <1>1, <3>1, WithLevelTyped
    <3> QED
      BY <2>2, <3>2
  <2> QED
    BY <2>1, <2>2
<1>3. Updated(tracked, e) = Aligned(g, e.best)
  BY DEF Updated
<1>4. Aligned(g, e.best) \in Levels
  BY <1>1, <1>2, AlignedTyped
<1>5. ASSUME Told(e), Shown(tracked) \in {history[e.number], history[e.number + 1]}
      PROVE  Shown(Updated(tracked, e)) = history[e.number + 1]
  <2>1. Shown(g) = history[e.number + 1]
    <3>1. CASE e.price = None
      BY <1>5, <3>1 DEF Told
    <3>2. CASE e.price # None
      <4>1. e.price \in Prices
        BY <1>1, <3>2
      <4>2. Shown(WithLevel(tracked, e.price, e.size))
               = WithLevel(Shown(tracked), e.price, e.size)
        BY <1>1, <4>1, ShownWithLevel
      <4>3. history[e.number + 1] = WithLevel(history[e.number], e.price, e.size)
        BY <1>5, <3>2 DEF Told
      <4>4. WithLevel(WithLevel(history[e.number], e.price, e.size), e.price, e.size)
               = WithLevel(history[e.number], e.price, e.size)
        BY WithLevelTwice
      <4> QED
        BY <1>5, <3>2, <4>2, <4>3, <4>4
    <3> QED
      BY <3>1, <3>2
  <2> HIDE DEF g
  <2>2. e.best = Best(Shown(g))
    BY <1>5, <2>1 DEF Told
  <2>3. Shown(Aligned(g, Best(Shown(g)))) = Shown(g)
    BY <1>2, ShownAligned
  <2> QED
    BY <1>3, <2>1, <2>2, <2>3, Zenon
<1> HIDE DEF g
<1> QED
  BY <1>3, <1>4, <1>5

\* The trade server takes an event: too old, a book, or an update.
LEMMA ReceiveKeeps ==
    ASSUME BookInv, NEW stale \in BOOLEAN, Receive(stale) PROVE BookInv'
<1>1. stream # <<>> /\ stream \in Seq(UpdateEvents \cup BookEvents)
  BY DEF BookInv, BookTypeOK, Receive
<1>2. /\ Head(stream) \in UpdateEvents \cup BookEvents
      /\ Tail(stream) \in Seq(UpdateEvents \cup BookEvents)
      /\ Len(stream) \in Nat \ {0} /\ Len(Tail(stream)) = Len(stream) - 1
      /\ Range(stream) = {Head(stream)} \cup Range(Tail(stream))
  BY <1>1, TailRange
<1>3. PICK e \in UpdateEvents \cup BookEvents : e = Head(stream)
  BY <1>2
<1>4. /\ stream' = Tail(stream)
      /\ tracked' = IF stale THEN tracked
                    ELSE IF e.kind = "book" THEN e.levels
                    ELSE IF tracked = None THEN None
                    ELSE Updated(tracked, e)
      /\ following' =
            IF stale THEN following
            ELSE IF e.kind = "book" THEN e.number
            ELSE IF following # None /\ e.number \in {following, following + 1}
            THEN e.number ELSE None
      /\ over' = IF e.kind = "update" THEN over \cup {e.number} ELSE over
      /\ UNCHANGED <<history, subscribed, priceChanges, books, buffer>>
  BY <1>3, Zenon DEF Receive, Replaced
<1>5. Tells(e)
  BY <1>2, <1>3 DEF BookInv, QueuesTell
<1>6. \/ e \in UpdateEvents /\ e.kind = "update"
      \/ e \in BookEvents /\ e.kind = "book"
  BY EventFields
<1>7. /\ Changes \in Nat /\ Changes <= MaxChanges
      /\ \A i \in 0 .. Changes : history[i + 1] \in ExchangeLevels
  BY HistoryIs DEF BookInv
<1>8. /\ tracked' = None \/ tracked' \in Levels
      /\ following' # None => following' \in 0 .. Changes /\ tracked' \in Levels
      /\ following' # None => Shown(tracked') = history[following' + 1]
  <2>1. CASE stale
    BY <1>4, <2>1 DEF BookInv, BookTypeOK, ExactWhenInOrder
  <2>2. CASE ~stale /\ e \in BookEvents /\ e.kind = "book"
    <3>1. e.number \in 0 .. Changes /\ e.levels = history[e.number + 1]
      BY <1>5, <2>2 DEF Tells, Whole
    <3>2. e.levels \in ExchangeLevels
      BY <1>7, <3>1
    <3>3. e.levels \in Levels /\ Shown(e.levels) = e.levels
      BY <3>2, ExchangeLevelsAre, ShownBook
    <3>4. tracked' = e.levels /\ following' = e.number
      BY <1>4, <2>2
    <3> QED
      BY <3>1, <3>3, <3>4
  <2>3. CASE ~stale /\ e \in UpdateEvents /\ e.kind = "update"
    <3>1. /\ tracked' = IF tracked = None THEN None ELSE Updated(tracked, e)
          /\ following' = IF following # None /\ e.number \in {following, following + 1}
                          THEN e.number ELSE None
      BY <1>4, <2>3
    <3>2. Told(e) /\ e.number \in 1 .. Changes
      BY <1>5, <2>3 DEF Tells, Told
    <3>3. tracked \in Levels => Updated(tracked, e) \in Levels
      BY <2>3, UpdatedIs
    <3>4. tracked' = None \/ tracked' \in Levels
      BY <3>1, <3>3 DEF BookInv, BookTypeOK
    <3>5. ASSUME following' # None
          PROVE  /\ following' \in 0 .. Changes /\ tracked' \in Levels
                 /\ Shown(tracked') = history[following' + 1]
      <4>1. /\ following # None /\ e.number \in {following, following + 1}
            /\ following' = e.number
        BY <3>1, <3>5
      <4>2. following \in 0 .. Changes /\ tracked \in Levels
        BY <4>1 DEF BookInv
      <4>3. Shown(tracked) \in {history[e.number], history[e.number + 1]}
        BY <4>1 DEF BookInv, ExactWhenInOrder
      <4>4. tracked # None
        BY <4>2, BookNumbers
      <4>5. tracked' = Updated(tracked, e)
        BY <3>1, <4>4
      <4>6. Shown(Updated(tracked, e)) = history[e.number + 1]
        BY <2>3, <3>2, <4>2, <4>3, UpdatedIs
      <4>7. e.number \in 0 .. Changes
        BY <1>7, <3>2
      <4> QED
        BY <3>3, <4>1, <4>2, <4>5, <4>6, <4>7
    <3> QED
      BY <3>4, <3>5
  <2> QED
    BY <1>6, <2>1, <2>2, <2>3
<1>9. BookTypeOK'
  <2>1. Len(stream) <= MaxStream
    BY DEF BookInv, BookTypeOK
  <2>2. stream' \in Seq(UpdateEvents \cup BookEvents) /\ Len(stream') <= MaxStream
    BY <1>2, <1>4, <2>1, BookNumbers
  <2>3. following' \in {None} \cup 0 .. MaxChanges
    BY <1>7, <1>8, BookNumbers
  <2>4. over' \subseteq 1 .. MaxChanges
    <3>1. e.kind = "update" => e.number \in 1 .. MaxChanges
      BY <1>6, EventFields
    <3> QED
      BY <1>4, <3>1 DEF BookInv, BookTypeOK
  <2> QED
    BY <1>4, <1>8, <2>2, <2>3, <2>4 DEF BookInv, BookTypeOK
<1>10. QueuesTell'
  BY <1>2, <1>4, MovedTell
<1>11. over \cup Numbers(priceChanges) \cup Numbers(buffer) \cup OnStream
          \subseteq over' \cup Numbers(priceChanges') \cup Numbers(buffer') \cup OnStream'
  <2>1. OnStream \subseteq over' \cup OnStream'
    <3>1. ASSUME NEW u \in Range(stream), u.kind = "update"
          PROVE  u.number \in over' \cup OnStream'
      <4>1. CASE u = e
        BY <1>4, <3>1, <4>1
      <4>2. CASE u # e
        BY <1>2, <1>3, <1>4, <3>1, <4>2 DEF OnStream
      <4> QED
        BY <4>1, <4>2
    <3> QED
      BY <3>1 DEF OnStream
  <2> QED
    BY <1>4, <2>1
<1> QED
  BY <1>4, <1>8, <1>9, <1>10, <1>11, QuietStep

\* The tracker forgets its book, or the app aborts the WebSocket.
LEMMA EvictKeeps == ASSUME BookInv, EvictInactive PROVE BookInv'
<1>1. /\ tracked' = None /\ following' = None
      /\ UNCHANGED <<history, subscribed, priceChanges, books, buffer, stream, over>>
  BY DEF EvictInactive
<1>2. BookTypeOK'
  BY <1>1 DEF BookInv, BookTypeOK
<1>3. QueuesTell'
  BY <1>1, MovedTell
<1>4. over \cup Numbers(priceChanges) \cup Numbers(buffer) \cup OnStream
         \subseteq over' \cup Numbers(priceChanges') \cup Numbers(buffer') \cup OnStream'
  BY <1>1 DEF OnStream
<1> QED
  BY <1>1, <1>2, <1>3, <1>4, QuietStep

LEMMA AbortKeeps == ASSUME BookInv, AbortWebSocket PROVE BookInv'
<1>1. /\ subscribed' = FALSE
      /\ UNCHANGED <<history, priceChanges, books, buffer, stream, tracked, following, over>>
  BY DEF AbortWebSocket
<1>2. BookTypeOK'
  BY <1>1 DEF BookInv, BookTypeOK
<1>3. QueuesTell'
  BY <1>1, MovedTell
<1>4. over \cup Numbers(priceChanges) \cup Numbers(buffer) \cup OnStream
         \subseteq over' \cup Numbers(priceChanges') \cup Numbers(buffer') \cup OnStream'
  BY <1>1 DEF OnStream
<1> QED
  BY <1>1, <1>2, <1>3, <1>4, QuietStep DEF BookInv, ExactWhenInOrder

\* The process ends: what it held is named.
LEMMA EndKeeps == ASSUME BookInv, EndProcess PROVE BookInv'
<1>1. /\ subscribed' = FALSE
      /\ priceChanges' = <<>> /\ books' = <<>> /\ buffer' = <<>>
      /\ over' = over \cup Numbers(priceChanges) \cup Numbers(buffer)
      /\ UNCHANGED <<history, stream, tracked, following>>
  BY DEF EndProcess
<1>2. /\ <<>> \in Seq(UpdateEvents) /\ <<>> \in Seq(BookEvents)
      /\ Len(<<>>) = 0 /\ Range(<<>>) = {}
  BY EmptySeq DEF Range
<1>3. Numbers(priceChanges) \cup Numbers(buffer) \subseteq 1 .. MaxChanges
  <2>1. Range(priceChanges) \subseteq UpdateEvents /\ Range(buffer) \subseteq UpdateEvents
    BY RangeOfSeq DEF BookInv, BookTypeOK
  <2> QED
    BY <2>1, EventFields DEF Numbers
<1>4. BookTypeOK'
  <2>1. Len(<<>>) <= ChannelSize /\ Len(<<>>) <= BufferMaxSize
    BY <1>2, BookNumbers
  <2>2. over' \subseteq 1 .. MaxChanges
    BY <1>1, <1>3 DEF BookInv, BookTypeOK
  <2> QED
    BY <1>1, <1>2, <2>1, <2>2 DEF BookInv, BookTypeOK
<1>5. QueuesTell'
  BY <1>1, <1>2, MovedTell
<1>6. over \cup Numbers(priceChanges) \cup Numbers(buffer) \cup OnStream
         \subseteq over' \cup Numbers(priceChanges') \cup Numbers(buffer') \cup OnStream'
  BY <1>1 DEF OnStream
<1> QED
  BY <1>1, <1>4, <1>5, <1>6, QuietStep DEF BookInv, ExactWhenInOrder

\* Every step keeps the invariant.
LEMMA BookNextInv == BookInv /\ [BookNext]_bookVars => BookInv'
<1> SUFFICES ASSUME BookInv, [BookNext]_bookVars PROVE BookInv'
  OBVIOUS
<1>1. CASE UNCHANGED bookVars
  <2>1. UNCHANGED <<history, subscribed, priceChanges, books, buffer, stream, tracked,
                    following, over>>
    BY <1>1 DEF bookVars
  <2>2. BookTypeOK'
    BY <2>1 DEF BookInv, BookTypeOK
  <2>3. QueuesTell'
    BY <2>1, MovedTell
  <2>4. over \cup Numbers(priceChanges) \cup Numbers(buffer) \cup OnStream
           \subseteq over' \cup Numbers(priceChanges') \cup Numbers(buffer') \cup OnStream'
    BY <2>1 DEF OnStream
  <2> QED
    BY <2>1, <2>2, <2>3, <2>4, QuietStep DEF BookInv, ExactWhenInOrder
<1>2. ASSUME NEW price \in Prices, NEW size \in Sizes \cup {0}, ChangeBid(price, size)
      PROVE  BookInv'
  <2>1. Bids \in ExchangeLevels
    BY HistoryIs DEF BookInv
  <2>2. PICK levels \in ExchangeLevels : levels = WithLevel(Bids, price, size)
    BY <2>1, WithLevelTyped
  <2>3. Announce(levels, price, size)
    BY <1>2, <2>2 DEF ChangeBid
  <2>4. price # None
    BY BookNumbers
  <2> QED
    BY <2>2, <2>3, <2>4, AnnounceKeeps
<1>3. CASE ChangeAsk
  <2>1. Bids \in ExchangeLevels
    BY HistoryIs DEF BookInv
  <2>2. PICK levels \in ExchangeLevels : levels = Bids
    BY <2>1
  <2>3. Announce(levels, None, 0)
    BY <1>3, <2>2 DEF ChangeAsk
  <2> QED
    BY <2>2, <2>3, AnnounceKeeps
<1>4. CASE SendsBook
  <2>1. subscribed' \in BOOLEAN
    BY <1>4 DEF SendsBook, BookInv, BookTypeOK
  <2> QED
    BY <1>4, <2>1, SendBookKeeps DEF SendsBook
<1>5. CASE Connect
  BY <1>5, SendBookKeeps DEF Connect
<1>6. CASE AbortWebSocket
  BY <1>6, AbortKeeps
<1>7. CASE EndProcess
  BY <1>7, EndKeeps
<1>8. ASSUME NEW n \in Flushable, NEW sent \in Sent(n), NEW lost \in Losses(n),
             FlushTick(n, sent, lost)
      PROVE  BookInv'
  BY <1>8, FlushTickKeeps
<1>9. ASSUME NEW n \in Flushable, NEW sent \in Sent(n), NEW lost \in Losses(n),
             NEW outcome \in Outcomes, PublishPriceChange(n, sent, lost, outcome)
      PROVE  BookInv'
  BY <1>9, PublishPriceChangeKeeps
<1>10. ASSUME NEW outcome \in Outcomes, PublishBook(outcome) PROVE BookInv'
  BY <1>10, PublishBookKeeps
<1>11. ASSUME NEW stale \in BOOLEAN, Receive(stale) PROVE BookInv'
  BY <1>11, ReceiveKeeps
<1>12. CASE EvictInactive
  BY <1>12, EvictKeeps
<1> QED
  BY <1>1, <1>2, <1>3, <1>4, <1>5, <1>6, <1>8, <1>9, <1>10, <1>11, <1>12,
     <1>7 DEF BookNext

\* The invariant holds of every reachable state.
LEMMA BookInvariant == BookSpec => []BookInv
BY BookInitInv, BookNextInv, PTL DEF BookSpec

\* No queue outgrows its capacity and everything has its type, for any prices, sizes,
\* capacities and numbers of changes.
THEOREM BookTypeCorrectness == BookSpec => []BookTypeOK
<1>1. BookInv => BookTypeOK
  BY DEF BookInv
<1> QED
  BY <1>1, BookInvariant, PTL

\* A tracker that got a book and every change after it, some of them again before the
\* next, shows the exchange's bids, whatever it showed before, however events were
\* buffered, doubled, lost and overtaken before that.
THEOREM TrackerIsExact == BookSpec => []ExactWhenInOrder
<1>1. BookInv => ExactWhenInOrder
  BY DEF BookInv
<1> QED
  BY <1>1, BookInvariant, PTL

\* Every price change is applied, on its way, or lost for a named reason.
THEOREM LossesAreNamed == BookSpec => []NothingLostSilently
<1>1. BookInv => NothingLostSilently
  BY DEF BookInv
<1> QED
  BY <1>1, BookInvariant, PTL

================================================================================
