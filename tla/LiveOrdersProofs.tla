---------------------------- MODULE LiveOrdersProofs ----------------------------
(***************************************************************************)
(* Proof that live trading reports no lot twice, quotes no level twice and *)
(* is silent about an order that is over, for any number of placements,    *)
(* orders, levels, attempts and failures, and orders of any size.          *)
(***************************************************************************)
EXTENDS LiveOrders, SequenceTheorems, WellFoundedInduction, TLAPS

\* Lots of an order that were booked or are on their way to be.
Reported(v) == booked[v] + QueuedFill(queue, v)

Polling(v) == poll # None /\ poll.order = v

Untold(v) == monitored[v] = None /\ life[v] = None /\ Reported(v) = 0

\* What the program counter of a task says of its order.
TaskOK(t) ==
    /\ task[t].pc \in {"idle", "posting"} => task[t].order = None
    /\ task[t].pc \in {"posted", "matched", "monitored"} => task[t].order # None
    /\ task[t].pc # "idle" => task[t].level \in Levels
    /\ task[t].pc = "idle" => t \notin in_flight
    /\ task[t].pc \notin {"idle", "done"} => t \in in_flight
    /\ task[t].order # None =>
          /\ venue[task[t].order] # None
          /\ venue[task[t].order].level = task[t].level
    /\ task[t].pc \in {"posted", "matched"} => Untold(task[t].order)
    /\ task[t].pc = "matched" => venue[task[t].order].matched = Size

TasksOK ==
    /\ \A t \in Tasks : TaskOK(t)
    /\ \A t, u \in Tasks : task[t].order = task[u].order /\ task[t].order # None => t = u

\* What is reported of an order, and where that is known.
OrderOK(v) ==
    /\ venue[v] = None => Untold(v) /\ pending[v] = None
    /\ venue[v] # None =>
          /\ Reported(v) <= venue[v].matched
          /\ venue[v].status = "live" => venue[v].matched < Size
    /\ monitored[v] # None =>
          /\ venue[v] # None
          /\ monitored[v].filled <= venue[v].matched
          /\ ~Polling(v) => Reported(v) <= monitored[v].filled
          /\ life[v] # None /\ ~IsTerminal(life[v])

OrdersOK == \A v \in OrderIds : OrderOK(v)

\* The answer under way is not newer than the venue, and not older than what it is
\* compared with.
PollOK ==
    poll # None =>
        /\ monitored[poll.order] # None
        /\ Reported(poll.order) <= poll.known
        /\ poll.known <= venue[poll.order].matched
        /\ poll.matched <= venue[poll.order].matched
        /\ poll.status = "error" => poll.known = monitored[poll.order].filled
        /\ poll.status # "error" => poll.known <= poll.matched
        /\ poll.status \in {"matched", "canceled", "gone"} =>
              venue[poll.order].status # "live"

\* The event loop cancels what it knows of.
LoopOK == \A v \in loop.cancels \cup loop.acks : venue[v] # None

\* An event that is queued is still true of its order.
EventOK(e) ==
    /\ venue[e.order] # None
    /\ e.type = "fill" => venue[e.order].matched > 0
    /\ e.type = "cancelled" => venue[e.order].status # "live"
    /\ e.type = "placed" =>
          \E t \in in_flight :
             task[t].pc = "done" /\ task[t].order = e.order /\ task[t].level = e.level

QueueOK ==
    /\ \A i \in DOMAIN queue : EventOK(queue[i])
    /\ \A i, j \in DOMAIN queue :
          /\ queue[i].type = "placed" /\ queue[j].type = "placed"
          /\ queue[i].order = queue[j].order
          => i = j

\* Every quoting order is in flight or pending, and keeps its level from being quoted
\* by another: no two in-flight orders, and none that is to be placed, share a level
\* with it.
LevelsOK ==
    /\ \A t, u \in in_flight : task[t].level = task[u].level => t = u
    /\ \A t \in in_flight : task[t].level \notin loop.places
    /\ \A v \in OrderIds : Quoting(v) =>
          /\ venue[v].level \notin loop.places
          /\ \A t \in in_flight : task[t].level = venue[v].level => task[t].order = v
          /\ \/ \E t \in in_flight : task[t].order = v
             \/ pending[v] = [level |-> venue[v].level, remaining |-> Size]
    /\ OneQuotePerLevel

IInv ==
    TypeOK /\ TasksOK /\ OrdersOK /\ PollOK /\ LoopOK /\ QueueOK /\ LevelsOK

-------------------------------------------------------------------------------
(* Numbers, and the fills of a queue *)

LEMMA LeastNumber ==
    ASSUME NEW T \in SUBSET Nat, T # {}
    PROVE  \E x \in T : \A y \in T : x <= y
<1> DEFINE R == OpToRel(<, Nat)
<1>1. IsWellFoundedOn(R, Nat)
  BY NatLessThanWellFounded
<1>2. \A x, y \in Nat : <<y, x>> \in R <=> y < x
  BY DEF OpToRel
<1> HIDE DEF R
<1>3. PICK x \in T : \A y \in T : ~(<<y, x>> \in R)
  BY <1>1, WFMin, Zenon
<1>4. ASSUME NEW y \in T PROVE x <= y
  <2>1. x \in Nat /\ y \in Nat /\ ~(y < x)
    BY <1>2, <1>3
  <2> QED
    BY <2>1
<1> QED
  BY <1>4

\* Induction: what holds of 0, and of n + 1 whenever of n, holds of every number.
LEMMA Induction ==
    ASSUME NEW S, 0 \in S, \A n \in Nat : n \in S => n + 1 \in S
    PROVE  Nat \subseteq S
<1> DEFINE T == Nat \ S
<1> SUFFICES ASSUME T # {} PROVE FALSE
  OBVIOUS
<1>1. PICK n \in T : \A y \in T : n <= y
  BY LeastNumber
<1>2. n # 0 /\ n - 1 \in Nat /\ n - 1 \in S /\ (n - 1) + 1 = n
  BY <1>1
<1> QED
  BY <1>1, <1>2

Lots(e, v) == IF e.type = "fill" /\ e.order = v THEN e.size ELSE 0

\* upto is the function by which QueuedFill counts, up to the n-th event.
Counts(upto, q, v, n) ==
    upto = [k \in 0 .. n |-> IF k = 0 THEN 0 ELSE upto[k - 1] + Lots(q[k], v)]

LEMMA CountExists ==
    ASSUME NEW q, NEW v, NEW n \in Nat
    PROVE  \E upto : Counts(upto, q, v, n)
<1> DEFINE S == {m \in Nat : \E upto : Counts(upto, q, v, m)}
<1>1. 0 \in S
  <2>1. Counts([k \in 0 .. 0 |-> 0], q, v, 0)
    BY DEF Counts
  <2> QED
    BY <2>1
<1>2. ASSUME NEW m \in Nat, m \in S PROVE m + 1 \in S
  <2>1. PICK f : Counts(f, q, v, m)
    BY <1>2
  <2> DEFINE g == [k \in 0 .. m + 1 |->
                     IF k = m + 1 THEN f[m] + Lots(q[m + 1], v) ELSE f[k]]
  <2>2. \A k \in 0 .. m : f[k] = IF k = 0 THEN 0 ELSE f[k - 1] + Lots(q[k], v)
    BY <2>1 DEF Counts
  <2>3. \A k \in 0 .. m : g[k] = f[k]
    OBVIOUS
  <2>4. g[m + 1] = f[m] + Lots(q[m + 1], v)
    OBVIOUS
  <2>5. g = [k \in 0 .. m + 1 |-> g[k]]
    OBVIOUS
  <2> HIDE DEF g
  <2>6. ASSUME NEW k \in 0 .. m + 1
        PROVE  g[k] = IF k = 0 THEN 0 ELSE g[k - 1] + Lots(q[k], v)
    <3>1. CASE k = m + 1
      <4>1. k - 1 = m /\ m \in 0 .. m
        BY <3>1
      <4> QED
        BY <2>3, <2>4, <3>1, <4>1
    <3>2. CASE k = 0
      BY <2>2, <2>3, <3>2
    <3>3. CASE k \in 1 .. m
      <4>1. k - 1 \in 0 .. m
        BY <3>3
      <4> QED
        BY <2>2, <2>3, <3>3, <4>1
    <3> QED
      BY <3>1, <3>2, <3>3
  <2>7. Counts(g, q, v, m + 1)
    BY <2>5, <2>6 DEF Counts
  <2> QED
    BY <2>7
<1> HIDE DEF S
<1>3. Nat \subseteq S
  BY <1>1, <1>2, Induction
<1> QED
  BY <1>3 DEF S

LEMMA QueuedFillCounts ==
    ASSUME NEW q \in Seq(Event), NEW v
    PROVE  \E upto : Counts(upto, q, v, Len(q)) /\ QueuedFill(q, v) = upto[Len(q)]
<1> DEFINE f == CHOOSE f : f = [i \in 0 .. Len(q) |->
                  IF i = 0 THEN 0
                  ELSE f[i - 1] + IF q[i].type = "fill" /\ q[i].order = v
                                  THEN q[i].size ELSE 0]
<1>1. QueuedFill(q, v) = f[Len(q)]
  BY DEF QueuedFill
<1>2. \E upto : Counts(upto, q, v, Len(q))
  BY CountExists, LenProperties
<1>3. Counts(f, q, v, Len(q))
  BY <1>2 DEF Counts, Lots
<1> QED
  BY <1>1, <1>3

LEMMA EventTypes ==
    ASSUME NEW e \in Event
    PROVE  /\ e.order \in OrderIds /\ e.type \in {"placed", "fill", "cancelled"}
           /\ e.type = "placed" => e.level \in Levels
           /\ e.type = "fill" => e.size \in 1 .. Size /\ e.left \in 0 .. Size
  BY DEF Event, Placed, Fill, Cancelled

LEMMA LotsNat == ASSUME NEW e \in Event, NEW v PROVE Lots(e, v) \in Nat
  BY EventTypes, LiveAssumption DEF Lots

LEMMA CountsNat ==
    ASSUME NEW q \in Seq(Event), NEW v, NEW f, Counts(f, q, v, Len(q))
    PROVE  \A k \in 0 .. Len(q) : f[k] \in Nat
<1> DEFINE S == {k \in Nat : k <= Len(q) => f[k] \in Nat}
<1>1. Len(q) \in Nat
  BY LenProperties
<1>2. \A k \in 0 .. Len(q) : f[k] = IF k = 0 THEN 0 ELSE f[k - 1] + Lots(q[k], v)
  BY DEF Counts
<1>3. \A k \in 1 .. Len(q) : Lots(q[k], v) \in Nat
  BY ElementOfSeq, LotsNat
<1>4. 0 \in S
  BY <1>1, <1>2
<1>5. ASSUME NEW k \in Nat, k \in S PROVE k + 1 \in S
  <2> SUFFICES ASSUME k + 1 <= Len(q) PROVE f[k + 1] \in Nat
    OBVIOUS
  <2>1. k + 1 \in 1 .. Len(q) /\ k + 1 \in 0 .. Len(q) /\ (k + 1) - 1 = k
    BY <1>1
  <2> QED
    BY <1>1, <1>2, <1>3, <1>5, <2>1
<1> HIDE DEF S
<1>6. Nat \subseteq S
  BY <1>4, <1>5, Induction
<1> QED
  BY <1>1, <1>6 DEF S

LEMMA QueuedFillNat ==
    ASSUME NEW q \in Seq(Event), NEW v PROVE QueuedFill(q, v) \in Nat
  BY QueuedFillCounts, CountsNat, LenProperties

\* The first n events of d are those of q from the one after s to the m-th.
Shifted(q, s, m, d, n) ==
    n <= Len(d) /\ m <= Len(q) /\ m = s + n /\ \A k \in 1 .. n : q[s + k] = d[k]

LEMMA CountsShift ==
    ASSUME NEW q \in Seq(Event), NEW d \in Seq(Event), NEW v, NEW s \in Nat,
           NEW f, Counts(f, q, v, Len(q)), NEW g, Counts(g, d, v, Len(d)),
           NEW n \in Nat, NEW m \in Nat, Shifted(q, s, m, d, n)
    PROVE  f[m] = f[s] + g[n]
<1> USE DEF Shifted
<1> DEFINE S == {k \in Nat : k <= n => f[s + k] = f[s] + g[k]}
<1>1. Len(q) \in Nat /\ Len(d) \in Nat
  BY LenProperties
<1>2. /\ \A k \in 0 .. Len(q) : f[k] = IF k = 0 THEN 0 ELSE f[k - 1] + Lots(q[k], v)
      /\ \A k \in 0 .. Len(d) : g[k] = IF k = 0 THEN 0 ELSE g[k - 1] + Lots(d[k], v)
  BY DEF Counts
<1>3. /\ \A k \in 0 .. Len(q) : f[k] \in Nat
      /\ \A k \in 0 .. Len(d) : g[k] \in Nat
  BY CountsNat
<1>4. 0 \in S
  <2>1. g[0] = 0 /\ f[s] \in Nat /\ s + 0 = s
    BY <1>1, <1>2, <1>3
  <2> QED
    BY <2>1
<1>5. ASSUME NEW k \in Nat, k \in S PROVE k + 1 \in S
  <2> SUFFICES ASSUME k + 1 <= n PROVE f[s + (k + 1)] = f[s] + g[k + 1]
    OBVIOUS
  <2>1. /\ k + 1 \in 0 .. Len(d) /\ k + 1 \in 1 .. n /\ k + 1 # 0 /\ (k + 1) - 1 = k
        /\ s + (k + 1) \in 0 .. Len(q) /\ s + (k + 1) # 0 /\ (s + (k + 1)) - 1 = s + k
        /\ s \in 0 .. Len(q) /\ k \in 0 .. Len(d)
    BY <1>1
  <2>2. f[s + k] = f[s] + g[k] /\ q[s + (k + 1)] = d[k + 1]
    BY <1>5, <2>1
  <2>3. f[s + (k + 1)] = f[s + k] + Lots(d[k + 1], v)
    BY <1>2, <2>1, <2>2
  <2>4. g[k + 1] = g[k] + Lots(d[k + 1], v)
    BY <1>2, <2>1
  <2>5. d[k + 1] \in Event /\ Lots(d[k + 1], v) \in Nat
    BY <1>1, <2>1, ElementOfSeq, LotsNat
  <2>6. PICK a \in Nat, b \in Nat, x \in Nat :
          a = f[s] /\ b = g[k] /\ x = Lots(d[k + 1], v)
    BY <1>3, <2>1, <2>5
  <2>7. f[s + (k + 1)] = (a + b) + x
    BY <2>2, <2>3, <2>6, Zenon
  <2>8. g[k + 1] = b + x
    BY <2>4, <2>6, Zenon
  <2>9. (a + b) + x = a + (b + x)
    OBVIOUS
  <2> QED
    BY <2>6, <2>7, <2>8, <2>9, Zenon
<1> HIDE DEF S
<1>6. Nat \subseteq S
  BY <1>4, <1>5, Induction
<1> QED
  BY <1>6 DEF S

LEMMA QueuedFillNothing == ASSUME NEW v PROVE QueuedFill(<<>>, v) = 0
<1>1. <<>> \in Seq(Event) /\ Len(<<>>) = 0
  BY EmptySeq
<1>2. PICK f : Counts(f, <<>>, v, 0) /\ QueuedFill(<<>>, v) = f[0]
  BY <1>1, QueuedFillCounts
<1> QED
  BY <1>2 DEF Counts

LEMMA QueuedFillAppend ==
    ASSUME NEW q \in Seq(Event), NEW e \in Event, NEW v
    PROVE  QueuedFill(Append(q, e), v) = QueuedFill(q, v) + Lots(e, v)
<1> DEFINE more == Append(q, e)
           n == Len(q)
<1>1. /\ n \in Nat /\ more \in Seq(Event) /\ Len(more) = n + 1 /\ more[n + 1] = e
      /\ \A k \in 1 .. n : more[0 + k] = q[k]
  BY AppendProperties, LenProperties
<1>2. PICK g : Counts(g, q, v, n) /\ QueuedFill(q, v) = g[n]
  BY QueuedFillCounts
<1> HIDE DEF more
<1>3. PICK f : Counts(f, more, v, n + 1) /\ QueuedFill(more, v) = f[n + 1]
  BY <1>1, QueuedFillCounts
<1>4. f[n] = f[0] + g[n]
  <2>1. PICK s \in Nat : s = 0
    OBVIOUS
  <2>2. Shifted(more, s, n, q, n)
    BY <1>1, <2>1 DEF Shifted
  <2>3. /\ more \in Seq(Event) /\ n \in Nat
        /\ Counts(f, more, v, Len(more)) /\ Counts(g, q, v, Len(q))
    BY <1>1, <1>2, <1>3
  <2> HIDE DEF n
  <2>4. f[n] = f[s] + g[n]
    BY <2>2, <2>3, CountsShift
  <2> QED
    BY <2>1, <2>4
<1>5. f[0] = 0 /\ f[n + 1] = f[(n + 1) - 1] + Lots(more[n + 1], v)
  BY <1>1, <1>3 DEF Counts
<1>6. (n + 1) - 1 = n /\ g[n] \in Nat
  BY <1>1, <1>2, CountsNat
<1> QED
  BY <1>1, <1>2, <1>3, <1>4, <1>5, <1>6 DEF more

LEMMA QueuedFillTail ==
    ASSUME NEW q \in Seq(Event), q # <<>>, NEW v
    PROVE  QueuedFill(q, v) = Lots(Head(q), v) + QueuedFill(Tail(q), v)
<1> DEFINE rest == Tail(q)
           n == Len(rest)
<1>1. /\ rest \in Seq(Event) /\ n \in Nat /\ Len(q) = n + 1 /\ Head(q) = q[1]
      /\ \A k \in 1 .. n : q[1 + k] = rest[k]
  <2>1. Len(q) \in Nat /\ Len(q) > 0
    BY LenProperties, EmptySeq
  <2>2. rest \in Seq(Event) /\ Len(rest) = Len(q) - 1
    BY HeadTailProperties
  <2>3. \A k \in 1 .. n : rest[k] = q[k + 1]
    BY <2>1, <2>2
  <2> QED
    BY <2>1, <2>2, <2>3
<1>2. PICK f : Counts(f, q, v, Len(q)) /\ QueuedFill(q, v) = f[Len(q)]
  BY QueuedFillCounts
<1> HIDE DEF rest
<1>3. PICK g : Counts(g, rest, v, Len(rest)) /\ QueuedFill(rest, v) = g[Len(rest)]
  BY <1>1, QueuedFillCounts
<1>4. f[Len(q)] = f[1] + g[n]
  <2>1. PICK s \in Nat : s = 1
    OBVIOUS
  <2>2. Len(q) \in Nat /\ Shifted(q, s, Len(q), rest, n)
    BY <1>1, <2>1 DEF Shifted
  <2> HIDE DEF n
  <2>3. f[Len(q)] = f[s] + g[n]
    BY <1>1, <1>2, <1>3, <2>2, CountsShift
  <2> QED
    BY <2>1, <2>3
<1>5. f[0] = 0 /\ f[1] = f[1 - 1] + Lots(q[1], v)
  BY <1>1, <1>2 DEF Counts
<1>6. q[1] \in Event /\ Lots(q[1], v) \in Nat /\ g[n] \in Nat
  BY <1>1, <1>3, ElementOfSeq, LotsNat, CountsNat
<1> QED
  BY <1>1, <1>2, <1>3, <1>4, <1>5, <1>6 DEF rest

-------------------------------------------------------------------------------
(* What the variables hold *)

LEMMA Sizes ==
    /\ Size \in Nat /\ MaxAttempts \in Nat /\ MaxFailures \in Nat
    /\ Size > 0 /\ MaxAttempts > 0 /\ MaxFailures > 0
  BY LiveAssumption

LEMMA VenueTypes ==
    ASSUME TypeOK, NEW v \in OrderIds, venue[v] # None
    PROVE  /\ venue[v] \in VenueOrders /\ venue[v].level \in Levels
           /\ venue[v].matched \in 0 .. Size /\ venue[v].matched \in Nat
           /\ venue[v].status \in {"live", "matched", "canceled", "gone"}
<1>1. venue[v] \in VenueOrders
  BY DEF TypeOK
<1> QED
  BY <1>1, Sizes DEF VenueOrders

LEMMA TaskTypes ==
    ASSUME TypeOK, NEW t \in Tasks
    PROVE  /\ task[t].pc \in {"idle", "posting", "posted", "matched", "monitored", "done"}
           /\ task[t].level \in Levels \cup {None} /\ task[t].order \in OrderIds \cup {None}
           /\ task[t].attempt \in 1 .. MaxAttempts
  BY DEF TypeOK

LEMMA OrderTypes ==
    ASSUME TypeOK, NEW v \in OrderIds
    PROVE  /\ v # None
           /\ booked[v] \in Nat /\ QueuedFill(queue, v) \in Nat
           /\ monitored[v] # None => /\ monitored[v] \in Monitors
                                     /\ monitored[v].filled \in 0 .. Size
                                     /\ monitored[v].filled \in Nat
                                     /\ monitored[v].failures \in 0 .. MaxFailures - 1
           /\ life[v] # None => /\ life[v] \in Orders /\ life[v].state \in States
           /\ pending[v] # None => /\ pending[v] \in Pendings
                                   /\ pending[v].level \in Levels
                                   /\ pending[v].remaining \in 1 .. Size
<1>1. v # None /\ booked[v] \in Nat /\ queue \in Seq(Event)
  BY NoneAssumption DEF TypeOK
<1>2. QueuedFill(queue, v) \in Nat
  BY <1>1, QueuedFillNat
<1>3. /\ monitored[v] # None => monitored[v] \in Monitors
      /\ life[v] # None => life[v] \in Orders
      /\ pending[v] # None => pending[v] \in Pendings
  BY DEF TypeOK
<1> QED
  BY <1>1, <1>2, <1>3, Sizes DEF Monitors, Orders, Pendings

LEMMA PollTypes ==
    ASSUME TypeOK, poll # None
    PROVE  /\ poll \in Answers /\ poll.order \in OrderIds
           /\ poll.known \in 0 .. Size /\ poll.known \in Nat
           /\ poll.matched \in 0 .. Size /\ poll.matched \in Nat
           /\ poll.status \in {"live", "matched", "canceled", "gone", "error"}
<1>1. poll \in Answers
  BY DEF TypeOK
<1> QED
  BY <1>1, Sizes DEF Answers

LEMMA QueueTypes ==
    ASSUME TypeOK
    PROVE  /\ queue \in Seq(Event) /\ Len(queue) \in Nat /\ DOMAIN queue = 1 .. Len(queue)
           /\ \A i \in DOMAIN queue : queue[i] \in Event /\ queue[i].order \in OrderIds
<1>1. queue \in Seq(Event)
  BY DEF TypeOK
<1>2. Len(queue) \in Nat /\ DOMAIN queue = 1 .. Len(queue)
  BY <1>1, LenProperties
<1>3. \A i \in DOMAIN queue : queue[i] \in Event
  BY <1>1, <1>2, ElementOfSeq
<1> QED
  BY <1>1, <1>2, <1>3, EventTypes

LEMMA InitIsGood == Init => IInv
<1> SUFFICES ASSUME Init PROVE IInv
  OBVIOUS
<1> USE DEF Init
<1>1. TypeOK
  BY Sizes, EmptySeq DEF TypeOK, IdleTask, IdleLoop
<1>2. TasksOK
  BY DEF TasksOK, TaskOK, IdleTask
<1>3. OrdersOK
  BY QueuedFillNothing DEF OrdersOK, OrderOK, Untold, Reported
<1>4. PollOK /\ LoopOK /\ loop.cancels = {} /\ loop.acks = {}
  BY DEF PollOK, LoopOK, IdleLoop
<1>5. QueueOK
  BY DEF QueueOK
<1>6. LevelsOK
  BY NoneAssumption DEF LevelsOK, OneQuotePerLevel, Quoting, IdleTask, IdleLoop
<1> QED
  BY <1>1, <1>2, <1>3, <1>4, <1>5, <1>6 DEF IInv


-------------------------------------------------------------------------------
(* The steps that leave the placements, the queue and the poller alone *)

\* The venue's records go on: a level stays, lots are only added, and what is over
\* does not come back.
VenueMoves ==
    \A v \in OrderIds :
        /\ venue'[v] = None <=> venue[v] = None
        /\ venue[v] # None =>
              /\ venue'[v].level = venue[v].level
              /\ venue'[v].matched >= venue[v].matched
              /\ venue'[v].status = "live" =>
                    venue[v].status = "live" /\ venue'[v].matched < Size

LEMMA MovesAreGood ==
    ASSUME IInv, TypeOK', VenueMoves,
           loop'.places = loop.places,
           loop'.cancels \cup loop'.acks \subseteq loop.cancels \cup loop.acks,
           UNCHANGED <<task, in_flight, pending, booked, queue, poll, monitored>>,
           \A v \in OrderIds : (life'[v] = None <=> life[v] = None)
                                 /\ (life[v] # None => (IsTerminal(life'[v]) <=> IsTerminal(life[v])))
    PROVE  IInv'
<1> USE DEF IInv
<1>1. \A v \in OrderIds : Quoting(v)' => Quoting(v)
  <2> SUFFICES ASSUME NEW v \in OrderIds, Quoting(v)' PROVE Quoting(v)
    OBVIOUS
  <2>1. PICK t \in Tasks : task[t].order = v
    BY DEF Quoting
  <2>2. venue[v] # None
    BY <2>1, OrderTypes DEF TasksOK, TaskOK
  <2>3. venue'[v].status = "live" /\ venue'[v].matched = 0 /\ venue'[v].matched >= venue[v].matched
    BY <2>2 DEF Quoting, VenueMoves
  <2> QED
    BY <2>1, <2>2, <2>3, VenueTypes DEF Quoting, VenueMoves
<1>2. \A v \in OrderIds : Quoting(v) => venue[v] # None /\ venue'[v].level = venue[v].level
  BY OrderTypes DEF Quoting, TasksOK, TaskOK, VenueMoves
<1>3. TasksOK'
  <2> SUFFICES ASSUME NEW t \in Tasks PROVE TaskOK(t)'
    BY DEF TasksOK
  <2>1. TaskOK(t)
    BY DEF TasksOK
  <2>2. task[t].order # None => task[t].order \in OrderIds
    BY TaskTypes
  <2>3. task[t].pc = "matched" => venue'[task[t].order].matched = Size
    <3> SUFFICES ASSUME task[t].pc = "matched" PROVE venue'[task[t].order].matched = Size
      OBVIOUS
    <3> DEFINE v == task[t].order
    <3>1. v \in OrderIds /\ venue[v] # None /\ venue[v].matched = Size
      BY <2>1, <2>2 DEF TaskOK
    <3>2. venue'[v] # None /\ venue'[v].matched >= Size
      BY <3>1 DEF VenueMoves
    <3>3. venue'[v].matched \in 0 .. Size
      <4>1. venue'[v] \in VenueOrders
        BY <3>1, <3>2 DEF TypeOK
      <4> QED
        BY <4>1 DEF VenueOrders
    <3> QED
      BY <3>2, <3>3, Sizes
  <2> QED
    BY <2>1, <2>2, <2>3 DEF TaskOK, Untold, Reported, VenueMoves
<1>4. OrdersOK'
  <2> SUFFICES ASSUME NEW v \in OrderIds PROVE OrderOK(v)'
    BY DEF OrdersOK
  <2>1. OrderOK(v)
    BY DEF OrdersOK
  <2>2. venue[v] # None =>
          venue[v].matched \in Nat /\ venue'[v].matched \in Nat
    <3>1. venue[v] # None => venue'[v] \in VenueOrders
      BY DEF VenueMoves, TypeOK
    <3> QED
      BY <3>1, VenueTypes, Sizes DEF VenueOrders
  <2> QED
    BY <2>1, <2>2, OrderTypes DEF OrderOK, Untold, Reported, Polling, VenueMoves
<1>5. PollOK'
  <2> SUFFICES ASSUME poll # None PROVE PollOK'
    BY DEF PollOK
  <2> DEFINE v == poll.order
  <2>1. v \in OrderIds /\ monitored[v] # None /\ venue[v] # None
    BY PollTypes DEF PollOK, OrdersOK, OrderOK
  <2>2. venue'[v] # None /\ venue[v].matched \in Nat /\ venue'[v].matched \in Nat
        /\ venue'[v].matched >= venue[v].matched
        /\ (venue'[v].status = "live" => venue[v].status = "live")
    <3>1. venue'[v] # None /\ venue'[v] \in VenueOrders
      BY <2>1 DEF VenueMoves, TypeOK
    <3> QED
      BY <3>1, <2>1, VenueTypes, Sizes DEF VenueOrders, VenueMoves
  <2> QED
    BY <2>1, <2>2, PollTypes DEF PollOK, Reported
<1>6. LoopOK'
  <2>1. loop.cancels \subseteq OrderIds /\ loop.acks \subseteq OrderIds
    BY DEF TypeOK
  <2> QED
    BY <2>1 DEF LoopOK, VenueMoves
<1>7. QueueOK'
  <2>1. ASSUME NEW e \in Event, EventOK(e) PROVE EventOK(e)'
    <3>1. e.order \in OrderIds /\ venue[e.order] # None
      BY <2>1, EventTypes DEF EventOK
    <3>2. /\ venue'[e.order] # None /\ venue'[e.order].matched >= venue[e.order].matched
          /\ venue'[e.order].status = "live" => venue[e.order].status = "live"
      BY <3>1 DEF VenueMoves
    <3>3. venue[e.order].matched \in Nat /\ venue'[e.order].matched \in Nat
      <4>1. venue'[e.order] \in VenueOrders
        BY <3>1, <3>2 DEF TypeOK
      <4> QED
        BY <4>1, <3>1, VenueTypes, Sizes DEF VenueOrders
    <3> QED
      BY <2>1, <3>1, <3>2, <3>3 DEF EventOK
  <2>2. \A i \in DOMAIN queue : queue[i] \in Event
    BY QueueTypes
  <2>3. \A i \in DOMAIN queue : EventOK(queue[i])'
    BY <2>1, <2>2 DEF QueueOK
  <2> QED
    BY <2>3 DEF QueueOK
<1>8. LevelsOK'
  BY <1>1, <1>2 DEF LevelsOK, OneQuotePerLevel
<1> QED
  BY <1>3, <1>4, <1>5, <1>6, <1>7, <1>8


LEMMA VenueStepIsGood ==
    ASSUME IInv, NEW v \in OrderIds, VenueStep(v) PROVE IInv'
<1> USE DEF IInv
<1>1. UNCHANGED <<task, in_flight, pending, booked, queue, loop, monitored, life, poll, abandoned>>
  BY DEF VenueStep, VenueTrades, VenueCancels, VenueForgets, server, poller
<1>2. venue[v] # None /\ venue[v] \in VenueOrders
  BY DEF VenueStep, VenueTrades, VenueCancels, VenueForgets, TypeOK
<1>3. /\ venue'[v] \in VenueOrders /\ venue' = [venue EXCEPT ![v] = venue'[v]]
      /\ venue'[v].level = venue[v].level /\ venue'[v].matched >= venue[v].matched
      /\ venue'[v].status = "live" => venue[v].status = "live" /\ venue'[v].matched < Size
  <2>1. PICK r \in VenueOrders : r = venue[v] /\ r.matched \in 0 .. Size
    BY <1>2, VenueTypes
  <2>2. venue \in [OrderIds -> VenueOrders \cup {None}]
    BY DEF TypeOK
  <2>3. CASE VenueTrades(v)
    <3>1. PICK n \in 0 .. Size : n = r.matched + 1 /\ r.status = "live"
      BY <1>2, <2>1, <2>3, Sizes DEF VenueTrades, OrdersOK, OrderOK
    <3>2. PICK st \in {"live", "matched"} :
            st = (IF n = Size THEN "matched" ELSE "live") /\ (st = "live" => n < Size)
      BY Sizes
    <3>3. PICK q : q = [r EXCEPT !.matched = n, !.status = st]
      OBVIOUS
    <3>4. venue' = [venue EXCEPT ![v] = q]
      BY <2>1, <2>2, <2>3, <3>1, <3>2, <3>3 DEF VenueTrades
    <3>5. q \in VenueOrders /\ q.level = r.level /\ q.matched = n /\ q.status = st
      BY <3>3 DEF VenueOrders
    <3> QED
      BY <2>1, <2>2, <3>1, <3>2, <3>4, <3>5
  <2>4. CASE VenueCancels(v) \/ VenueForgets(v)
    <3>1. PICK over, q :
            /\ over \in {"canceled", "gone"}
            /\ q = [r EXCEPT !.status = over]
            /\ venue' = [venue EXCEPT ![v] = q]
      BY <2>1, <2>2, <2>4 DEF VenueCancels, VenueForgets
    <3>2. q \in VenueOrders /\ q.level = r.level /\ q.matched = r.matched /\ q.status = over
      BY <3>1 DEF VenueOrders
    <3> QED
      BY <2>1, <2>2, <3>1, <3>2
  <2> QED
    BY <2>3, <2>4 DEF VenueStep
<1>4. \A w \in OrderIds : w # v => venue'[w] = venue[w]
  BY <1>3 DEF TypeOK
<1>5. TypeOK'
  BY <1>1, <1>3 DEF TypeOK
<1>6. VenueMoves
  <2>1. venue'[v] # None
    BY <1>3, NoneAssumption
  <2>2. \A w \in OrderIds : venue[w] # None =>
          venue[w].matched \in Nat /\ (venue[w].status = "live" => venue[w].matched < Size)
    BY VenueTypes DEF OrdersOK, OrderOK
  <2> QED
    BY <1>2, <1>3, <1>4, <2>1, <2>2 DEF VenueMoves
<1> QED
  BY <1>1, <1>5, <1>6, MovesAreGood


LEMMA CancelStepIsGood ==
    ASSUME IInv, NEW v \in OrderIds, CancelStep(v) PROVE IInv'
<1> USE DEF IInv
<1>1. loop \in [cancels : SUBSET OrderIds, acks : SUBSET OrderIds, places : SUBSET Levels]
  BY DEF TypeOK
<1>2. UNCHANGED <<task, in_flight, pending, booked, queue, monitored, poll, abandoned>>
  BY DEF CancelStep, CancelReachesVenue, CancelRefused, CancelAcknowledged, poller
<1>3. CASE CancelReachesVenue(v)
  <2>1. life' = life
    BY <1>3 DEF CancelReachesVenue, poller
  <2>2. PICK r \in VenueOrders : r = venue[v] /\ r.matched \in 0 .. Size
    BY <1>3, VenueTypes DEF CancelReachesVenue, LoopOK
  <2>3. PICK q \in VenueOrders :
          /\ venue' = [venue EXCEPT ![v] = q]
          /\ q.level = r.level /\ q.matched = r.matched
          /\ q.status = "live" => r.status = "live" /\ r.matched < Size
    <3>1. PICK q : q = IF r.status = "live" THEN [r EXCEPT !.status = "canceled"] ELSE r
      OBVIOUS
    <3>2. /\ q \in VenueOrders /\ q.level = r.level /\ q.matched = r.matched
          /\ q.status = "live" => r.status = "live" /\ r.matched < Size
      BY <3>1 DEF VenueOrders
    <3>3. venue' = [venue EXCEPT ![v] = q]
      BY <1>3, <2>2, <3>1 DEF CancelReachesVenue, TypeOK
    <3> QED
      BY <3>2, <3>3
  <2>4. /\ loop' \in [cancels : SUBSET OrderIds, acks : SUBSET OrderIds, places : SUBSET Levels]
        /\ loop'.places = loop.places
        /\ loop'.cancels \cup loop'.acks \subseteq loop.cancels \cup loop.acks
    <3>1. PICK m : m = loop /\ m \in [cancels : SUBSET OrderIds, acks : SUBSET OrderIds,
                                        places : SUBSET Levels]
      BY <1>1
    <3>2. PICK answered \in BOOLEAN :
             loop' = [loop EXCEPT !.cancels = @ \ {v},
                                  !.acks = IF answered THEN @ \cup {v} ELSE @]
      BY <1>3 DEF CancelReachesVenue
    <3>3. PICK cancels, acks :
             /\ cancels = m.cancels \ {v}
             /\ acks = IF answered THEN m.acks \cup {v} ELSE m.acks
      OBVIOUS
    <3>4. loop' = [cancels |-> cancels, acks |-> acks, places |-> m.places]
      BY <3>1, <3>2, <3>3
    <3>5. /\ cancels \subseteq m.cancels /\ acks \subseteq m.acks \cup {v}
          /\ v \in m.cancels
      BY <1>3, <3>1, <3>3 DEF CancelReachesVenue
    <3> QED
      BY <3>1, <3>4, <3>5
  <2>5. TypeOK'
    BY <1>2, <2>1, <2>3, <2>4 DEF TypeOK
  <2>6. VenueMoves
    <3>1. /\ \A w \in OrderIds : w # v => venue'[w] = venue[w]
          /\ venue'[v] = q /\ q # None /\ venue[v] # None
      BY <2>2, <2>3, NoneAssumption DEF TypeOK
    <3>2. \A w \in OrderIds : venue[w] # None =>
            venue[w].matched \in Nat /\ (venue[w].status = "live" => venue[w].matched < Size)
      BY VenueTypes DEF OrdersOK, OrderOK
    <3> QED
      BY <2>2, <2>3, <3>1, <3>2 DEF VenueMoves
  <2> QED
    BY <1>2, <2>1, <2>4, <2>5, <2>6, MovesAreGood
<1>4. CASE CancelRefused(v) \/ CancelAcknowledged(v)
  <2>1. venue' = venue
    BY <1>4 DEF CancelRefused, CancelAcknowledged
  <2>2. /\ loop' \in [cancels : SUBSET OrderIds, acks : SUBSET OrderIds, places : SUBSET Levels]
        /\ loop'.places = loop.places
        /\ loop'.cancels \cup loop'.acks \subseteq loop.cancels \cup loop.acks
    BY <1>1, <1>4 DEF CancelRefused, CancelAcknowledged
  <2>3. /\ life' \in [OrderIds -> Orders \cup {None}]
        /\ \A w \in OrderIds :
              /\ life'[w] = None <=> life[w] = None
              /\ life[w] # None => (IsTerminal(life'[w]) <=> IsTerminal(life[w]))
    <3>1. CASE life' = life
      BY <3>1 DEF TypeOK
    <3>2. CASE life[v] # None /\ life' = [life EXCEPT ![v] = AfterCancelRequest(life[v])]
      <4>1. PICK o \in Orders : o = life[v]
        BY <3>2 DEF TypeOK
      <4>2. PICK q : q = AfterCancelRequest(o)
        OBVIOUS
      <4>3. q \in Orders /\ (IsTerminal(q) <=> IsTerminal(o))
        BY <4>2 DEF AfterCancelRequest, Orders, IsTerminal, States, TerminalReasons
      <4>4. life' = [life EXCEPT ![v] = q] /\ q # None
        BY <3>2, <4>1, <4>2, <4>3, NoneAssumption
      <4> QED
        BY <3>2, <4>1, <4>3, <4>4 DEF TypeOK
    <3> QED
      BY <1>4, <3>1, <3>2 DEF CancelRefused, CancelAcknowledged, poller
  <2>4. TypeOK'
    BY <1>2, <2>1, <2>2, <2>3 DEF TypeOK
  <2>5. VenueMoves
    BY <2>1, VenueTypes DEF VenueMoves, OrdersOK, OrderOK
  <2> QED
    BY <1>2, <2>2, <2>3, <2>4, <2>5, MovesAreGood
<1> QED
  BY <1>3, <1>4 DEF CancelStep

LEMMA IntentIsGood ==
    ASSUME IInv, NEW wanted \in SUBSET Levels, Intent(wanted) PROVE IInv'
<1> USE DEF IInv
<1> DEFINE cancels == {v \in OrderIds : /\ pending[v] # None
                                        /\ \/ pending[v].level \notin wanted
                                           \/ pending[v].remaining # Size}
           places == wanted \ QuotedLevels
<1>1. UNCHANGED <<venue, task, in_flight, pending, booked, queue, monitored, life, poll, abandoned>>
  BY DEF Intent, poller
<1>2. loop' = [cancels |-> cancels, acks |-> {}, places |-> places]
  BY DEF Intent, IdleLoop
<1>3. \A v \in cancels : venue[v] # None
  BY DEF OrdersOK, OrderOK
<1>4. \A t \in in_flight : task[t].level \notin places
  BY DEF QuotedLevels
<1>5. ASSUME NEW v \in OrderIds, Quoting(v) PROVE venue[v].level \notin places
  <2>1. CASE \E t \in in_flight : task[t].order = v
    <3>1. PICK t \in in_flight : task[t].order = v
      BY <2>1
    <3>2. task[t].level = venue[v].level
      BY <3>1, OrderTypes DEF TypeOK, TasksOK, TaskOK
    <3> QED
      BY <1>4, <3>2
  <2>2. CASE pending[v] = [level |-> venue[v].level, remaining |-> Size]
    <3>1. venue[v] # None
      BY <1>5, OrderTypes DEF Quoting, TasksOK, TaskOK
    <3>2. venue[v].level \in PendingLevels
      BY <2>2, <3>1, VenueTypes DEF PendingLevels
    <3> QED
      BY <3>2 DEF QuotedLevels
  <2> QED
    BY <1>5, <2>1, <2>2 DEF LevelsOK
<1>6. cancels \subseteq OrderIds /\ places \subseteq Levels
  OBVIOUS
<1> HIDE DEF cancels, places
<1>7. TypeOK'
  BY <1>1, <1>2, <1>6 DEF TypeOK
<1>8. TasksOK' /\ OrdersOK' /\ PollOK' /\ QueueOK'
  BY <1>1 DEF TasksOK, TaskOK, Untold, Reported, OrdersOK, OrderOK, Polling, PollOK,
              QueueOK, EventOK
<1>9. LoopOK'
  BY <1>1, <1>2, <1>3 DEF LoopOK
<1>10. LevelsOK'
  BY <1>1, <1>2, <1>4, <1>5 DEF LevelsOK, Quoting, OneQuotePerLevel
<1> QED
  BY <1>7, <1>8, <1>9, <1>10

LEMMA SpawnIsGood ==
    ASSUME IInv, NEW level \in Levels, NEW t \in Tasks, SpawnPlacement(level, t)
    PROVE  IInv'
<1> USE DEF IInv
<1>1. UNCHANGED <<venue, pending, booked, queue, monitored, life, poll, abandoned>>
  BY DEF SpawnPlacement, poller
<1>2. PICK r : r = [task[t] EXCEPT !.pc = "posting", !.level = level]
  OBVIOUS
<1>3. /\ task' = [task EXCEPT ![t] = r] /\ task[t].pc = "idle" /\ task[t].order = None
      /\ level \in loop.places /\ in_flight' = in_flight \cup {t}
      /\ loop' = [loop EXCEPT !.places = @ \ {level}]
  BY <1>2 DEF SpawnPlacement, FreeTasks, TypeOK, TasksOK, TaskOK
<1>4. /\ r \in [pc : {"idle", "posting", "posted", "matched", "monitored", "done"},
                level : Levels \cup {None}, order : OrderIds \cup {None},
                attempt : 1 .. MaxAttempts]
      /\ r.pc = "posting" /\ r.level = level /\ r.order = None
  BY <1>2, <1>3 DEF TypeOK
<1>5. task'[t] = r /\ \A u \in Tasks : u # t => task'[u] = task[u]
  BY <1>3 DEF TypeOK
<1>6. /\ loop' \in [cancels : SUBSET OrderIds, acks : SUBSET OrderIds, places : SUBSET Levels]
      /\ loop'.places = loop.places \ {level}
      /\ loop'.cancels = loop.cancels /\ loop'.acks = loop.acks
  BY <1>3 DEF TypeOK
<1>7. TypeOK'
  <2>1. /\ \A u \in in_flight' : task'[u].level \in Levels
        /\ in_flight' \subseteq Tasks
    BY <1>3, <1>4, <1>5 DEF TypeOK
  <2> QED
    BY <1>1, <1>3, <1>4, <1>6, <2>1 DEF TypeOK
<1>8. TasksOK'
  <2>1. \A u \in Tasks : TaskOK(u)'
    BY <1>1, <1>3, <1>4, <1>5 DEF TasksOK, TaskOK, Untold, Reported
  <2> QED
    BY <1>4, <1>5, <2>1 DEF TasksOK
<1>9. OrdersOK' /\ PollOK' /\ LoopOK'
  BY <1>1, <1>6 DEF OrdersOK, OrderOK, Untold, Reported, Polling, PollOK, LoopOK
<1>10. QueueOK'
  <2>1. ASSUME NEW e, EventOK(e) PROVE EventOK(e)'
    BY <1>1, <1>3, <1>5, <2>1 DEF EventOK, TypeOK
  <2> QED
    BY <1>1, <2>1 DEF QueueOK
<1>11. LevelsOK'
  <2>1. \A v \in OrderIds : Quoting(v)' => Quoting(v)
    BY <1>1, <1>4, <1>5, OrderTypes DEF Quoting
  <2> QED
    BY <1>1, <1>3, <1>4, <1>5, <1>6, <2>1, OrderTypes DEF LevelsOK, OneQuotePerLevel, TypeOK
<1> QED
  BY <1>7, <1>8, <1>9, <1>10, <1>11


-------------------------------------------------------------------------------
(* The placements *)

\* A task whose order v the venue took, working or matched at once.
LEMMA PostTakenIsGood ==
    ASSUME IInv, NEW t \in Tasks, NEW v \in OrderIds,
           PostAccepted(t, v) \/ PostMatched(t, v)
    PROVE  IInv'
<1> USE DEF IInv
<1>1. UNCHANGED <<in_flight, pending, booked, queue, loop, monitored, life, poll, abandoned>>
  BY DEF PostAccepted, PostMatched, server, poller
<1>2. /\ task[t].pc = "posting" /\ task[t].order = None /\ task[t].level \in Levels
      /\ t \in in_flight /\ venue[v] = None
  BY DEF PostAccepted, PostMatched, Fresh, TasksOK, TaskOK
<1>3. PICK q, r :
        /\ q \in VenueOrders
        /\ venue' = [venue EXCEPT ![v] = q] /\ task' = [task EXCEPT ![t] = r]
        /\ q.level = task[t].level /\ (q.status = "live" => q.matched < Size)
        /\ r \in [pc : {"posted", "matched"}, level : Levels, order : OrderIds,
                  attempt : 1 .. MaxAttempts]
        /\ r.level = task[t].level /\ r.order = v
        /\ r.pc = "matched" => q.matched = Size
  <2>1. CASE PostAccepted(t, v)
    <3>1. PICK q : q = OnVenue(task[t].level, "live", 0)
      OBVIOUS
    <3>2. PICK r : r = [task[t] EXCEPT !.pc = "posted", !.order = v]
      OBVIOUS
    <3>3. q \in VenueOrders /\ q.level = task[t].level /\ q.matched < Size
      BY <1>2, <3>1, Sizes DEF OnVenue, VenueOrders
    <3>4. /\ r \in [pc : {"posted", "matched"}, level : Levels, order : OrderIds,
                    attempt : 1 .. MaxAttempts]
          /\ r.level = task[t].level /\ r.order = v /\ r.pc = "posted"
      BY <1>2, <3>2 DEF TypeOK
    <3>5. venue' = [venue EXCEPT ![v] = q] /\ task' = [task EXCEPT ![t] = r]
      BY <2>1, <3>1, <3>2 DEF PostAccepted, TypeOK
    <3> QED
      BY <3>3, <3>4, <3>5
  <2>2. CASE PostMatched(t, v)
    <3>1. PICK q : q = OnVenue(task[t].level, "matched", Size)
      OBVIOUS
    <3>2. PICK r : r = [task[t] EXCEPT !.pc = "matched", !.order = v]
      OBVIOUS
    <3>3. /\ q \in VenueOrders /\ q.level = task[t].level /\ q.matched = Size
          /\ q.status = "matched"
      BY <1>2, <3>1, Sizes DEF OnVenue, VenueOrders
    <3>4. /\ r \in [pc : {"posted", "matched"}, level : Levels, order : OrderIds,
                    attempt : 1 .. MaxAttempts]
          /\ r.level = task[t].level /\ r.order = v /\ r.pc = "matched"
      BY <1>2, <3>2 DEF TypeOK
    <3>5. venue' = [venue EXCEPT ![v] = q] /\ task' = [task EXCEPT ![t] = r]
      BY <2>2, <3>1, <3>2 DEF PostMatched, TypeOK
    <3> QED
      BY <3>3, <3>4, <3>5
  <2> QED
    BY <2>1, <2>2
<1>4. /\ venue'[v] = q /\ q # None /\ \A w \in OrderIds : w # v => venue'[w] = venue[w]
      /\ task'[t] = r /\ \A u \in Tasks : u # t => task'[u] = task[u]
      /\ v # None /\ Untold(v) /\ pending[v] = None
  BY <1>2, <1>3, NoneAssumption DEF TypeOK, OrdersOK, OrderOK
<1>5. \A u \in Tasks : task[u].order # v
  BY <1>2, <1>4 DEF TasksOK, TaskOK
<1>6. TypeOK'
  <2>1. /\ task' \in [Tasks -> [pc : {"idle", "posting", "posted", "matched", "monitored", "done"},
                                level : Levels \cup {None}, order : OrderIds \cup {None},
                                attempt : 1 .. MaxAttempts]]
        /\ \A u \in in_flight' : task'[u].level \in Levels
    BY <1>1, <1>3, <1>4 DEF TypeOK
  <2> QED
    BY <1>1, <1>3, <2>1 DEF TypeOK
<1>7. TasksOK'
  <2>1. ASSUME NEW u \in Tasks, u # t PROVE TaskOK(u)'
    <3>1. TaskOK(u) /\ task[u].order \in OrderIds \cup {None}
      BY TaskTypes DEF TasksOK
    <3> QED
      BY <1>1, <1>4, <1>5, <2>1, <3>1 DEF TaskOK, Untold, Reported
  <2>2. TaskOK(t)'
    BY <1>1, <1>2, <1>3, <1>4 DEF TaskOK, Untold, Reported
  <2> QED
    BY <1>3, <1>4, <1>5, <2>1, <2>2 DEF TasksOK
<1>8. OrdersOK'
  <2>1. OrderOK(v)'
    <3>1. q.matched \in Nat
      BY <1>3, Sizes DEF VenueOrders
    <3> QED
      BY <1>1, <1>3, <1>4, <3>1 DEF OrderOK, Untold, Reported
  <2> QED
    BY <1>1, <1>4, <2>1 DEF OrdersOK, OrderOK, Untold, Reported, Polling
<1>9. PollOK'
  BY <1>1, <1>4, PollTypes DEF PollOK, Untold, Reported
<1>10. LoopOK'
  BY <1>1, <1>4 DEF LoopOK, TypeOK
<1>11. QueueOK'
  <2>1. ASSUME NEW e \in Event, EventOK(e) PROVE EventOK(e)'
    <3>1. e.order \in OrderIds /\ e.order # v
      BY <1>2, <2>1, EventTypes DEF EventOK
    <3>2. \A u \in in_flight : task[u].pc = "done" => task'[u] = task[u]
      BY <1>2, <1>4 DEF TypeOK
    <3> QED
      BY <1>1, <1>4, <2>1, <3>1, <3>2 DEF EventOK
  <2> QED
    BY <1>1, <2>1, QueueTypes DEF QueueOK
<1>12. LevelsOK'
  <2>1. \A w \in OrderIds : w # v /\ Quoting(w)' => Quoting(w)
    BY <1>3, <1>4 DEF Quoting
  <2>2. \A w \in OrderIds : w # v /\ Quoting(w) => venue[w].level # task[t].level
    BY <1>2, OrderTypes DEF LevelsOK
  <2>3. task[t].level \notin loop.places
        /\ \A u \in in_flight : task[u].level = task[t].level => u = t
    BY <1>2 DEF LevelsOK
  <2>4. \A u, w \in in_flight : task'[u].level = task'[w].level => u = w
    BY <1>3, <1>4 DEF LevelsOK, TypeOK
  <2>5. \A u \in in_flight : task'[u].level = task[u].level
                               /\ (u # t => task'[u].order = task[u].order)
    BY <1>3, <1>4 DEF TypeOK
  <2>6. ASSUME NEW w \in OrderIds, Quoting(w)'
        PROVE  /\ venue'[w].level \notin loop.places
               /\ \A u \in in_flight : task'[u].level = venue'[w].level => task'[u].order = w
               /\ \/ \E u \in in_flight : task'[u].order = w
                  \/ pending[w] = [level |-> venue'[w].level, remaining |-> Size]
    <3>1. CASE w = v
      BY <1>2, <1>3, <1>4, <2>3, <2>5, <3>1
    <3>2. CASE w # v
      BY <1>2, <1>3, <1>4, <2>1, <2>2, <2>5, <2>6, <3>2, OrderTypes DEF LevelsOK
    <3> QED
      BY <3>1, <3>2
  <2>7. OneQuotePerLevel'
    BY <1>3, <1>4, <2>1, <2>2 DEF LevelsOK, OneQuotePerLevel
  <2> QED
    BY <1>1, <2>3, <2>4, <2>5, <2>6, <2>7 DEF LevelsOK
<1> QED
  BY <1>6, <1>7, <1>8, <1>9, <1>10, <1>11, <1>12


\* A failed attempt, of which the venue may have taken an order that nobody knows.
LEMMA PostFailsIsGood ==
    ASSUME IInv, NEW t \in Tasks,
           PostFails(t) \/ \E v \in OrderIds : PostResponseLost(t, v)
    PROVE  IInv'
<1> USE DEF IInv
<1>1. UNCHANGED <<pending, booked, queue, loop, monitored, life, poll, abandoned>>
  BY DEF PostFails, PostResponseLost, poller
<1>2. task[t].pc = "posting" /\ task[t].order = None /\ task[t].level \in Levels /\ t \in in_flight
  BY DEF PostFails, PostResponseLost, TasksOK, TaskOK
<1>3. PICK r :
        /\ task' = [task EXCEPT ![t] = r]
        /\ r \in [pc : {"posting", "done"}, level : Levels, order : {None},
                  attempt : 1 .. MaxAttempts]
        /\ r.level = task[t].level
        /\ \/ r.pc = "posting" /\ in_flight' = in_flight
           \/ r.pc = "done" /\ in_flight' = in_flight \ {t}
  <2>1. AttemptFails(t)
    BY DEF PostFails, PostResponseLost
  <2>2. CASE task[t].attempt < MaxAttempts
    <3>1. PICK r : r = [task[t] EXCEPT !.attempt = @ + 1]
      OBVIOUS
    <3>2. task' = [task EXCEPT ![t] = r] /\ in_flight' = in_flight
      BY <2>1, <2>2, <3>1 DEF AttemptFails, TypeOK
    <3>3. task[t].attempt \in 1 .. MaxAttempts /\ task[t].attempt + 1 \in 1 .. MaxAttempts
      BY <2>2, TaskTypes, Sizes
    <3>4. /\ r \in [pc : {"posting", "done"}, level : Levels, order : {None},
                    attempt : 1 .. MaxAttempts]
          /\ r.level = task[t].level /\ r.pc = "posting"
      BY <1>2, <3>1, <3>3 DEF TypeOK
    <3> QED
      BY <3>2, <3>4
  <2>3. CASE ~(task[t].attempt < MaxAttempts)
    <3>1. PICK r : r = [task[t] EXCEPT !.pc = "done"]
      OBVIOUS
    <3>2. task' = [task EXCEPT ![t] = r] /\ in_flight' = in_flight \ {t}
      BY <2>1, <2>3, <3>1 DEF AttemptFails, TypeOK
    <3>3. /\ r \in [pc : {"posting", "done"}, level : Levels, order : {None},
                    attempt : 1 .. MaxAttempts]
          /\ r.level = task[t].level /\ r.pc = "done"
      BY <1>2, <3>1 DEF TypeOK
    <3> QED
      BY <3>2, <3>3
  <2> QED
    BY <2>2, <2>3
<1>4. /\ venue' \in [OrderIds -> VenueOrders \cup {None}]
      /\ \A w \in OrderIds :
            \/ venue'[w] = venue[w]
            \/ /\ venue[w] = None /\ venue'[w] # None
               /\ venue'[w].status = "live" /\ venue'[w].matched = 0
  <2>1. CASE venue' = venue
    BY <2>1 DEF TypeOK
  <2>2. ASSUME NEW v \in OrderIds, PostResponseLost(t, v) PROVE <1>4!1 /\ <1>4!2
    <3>1. PICK q : q = OnVenue(task[t].level, "live", 0)
      OBVIOUS
    <3>2. /\ q \in VenueOrders /\ q.status = "live" /\ q.matched = 0 /\ q # None
          /\ venue' = [venue EXCEPT ![v] = q] /\ venue[v] = None
      BY <1>2, <2>2, <3>1, Sizes, NoneAssumption DEF OnVenue, VenueOrders, PostResponseLost, Fresh
    <3> QED
      BY <3>2 DEF TypeOK
  <2> QED
    BY <2>1, <2>2 DEF PostFails
<1>5. /\ task'[t] = r /\ \A u \in Tasks : u # t => task'[u] = task[u]
      /\ r.order = None /\ r.pc \in {"posting", "done"}
      /\ \A u \in in_flight' : u \in in_flight
      /\ \A u \in in_flight : u \in in_flight' \/ (u = t /\ r.pc = "done")
      /\ in_flight' \subseteq Tasks
  BY <1>3 DEF TypeOK
<1>6. \A u \in Tasks : task'[u].order = task[u].order /\ task'[u].level = task[u].level
  BY <1>2, <1>3, <1>5
<1>7. TypeOK'
  <2>1. task' \in [Tasks -> [pc : {"idle", "posting", "posted", "matched", "monitored", "done"},
                             level : Levels \cup {None}, order : OrderIds \cup {None},
                             attempt : 1 .. MaxAttempts]]
    BY <1>3 DEF TypeOK
  <2>2. \A u \in in_flight' : task'[u].level \in Levels
    BY <1>5, <1>6 DEF TypeOK
  <2> QED
    BY <1>1, <1>4, <1>5, <2>1, <2>2 DEF TypeOK
<1>8. \A u \in Tasks : task[u].order # None => venue'[task[u].order] = venue[task[u].order]
  BY <1>4, TaskTypes DEF TasksOK, TaskOK
<1>9. TasksOK'
  <2>1. ASSUME NEW u \in Tasks, u # t PROVE TaskOK(u)'
    <3>1. TaskOK(u)
      BY DEF TasksOK
    <3> QED
      BY <1>1, <1>5, <1>8, <2>1, <3>1 DEF TaskOK, Untold, Reported
  <2>2. TaskOK(t)'
    BY <1>2, <1>3, <1>5 DEF TaskOK
  <2> QED
    BY <1>6, <2>1, <2>2 DEF TasksOK
<1>10. OrdersOK'
  BY <1>1, <1>4, Sizes DEF OrdersOK, OrderOK, Untold, Reported, Polling
<1>11. PollOK' /\ LoopOK'
  <2>1. poll # None => poll.order \in OrderIds /\ venue'[poll.order] = venue[poll.order]
    BY <1>4, PollTypes DEF PollOK, OrdersOK, OrderOK
  <2> QED
    BY <1>1, <1>4, <2>1 DEF PollOK, Reported, LoopOK, TypeOK
<1>12. QueueOK'
  <2>1. ASSUME NEW e \in Event, EventOK(e) PROVE EventOK(e)'
    <3>1. e.order \in OrderIds /\ venue'[e.order] = venue[e.order]
      BY <1>4, <2>1, EventTypes DEF EventOK
    <3>2. \A u \in in_flight : task[u].pc = "done" => task'[u] = task[u] /\ u \in in_flight'
      BY <1>2, <1>5 DEF TypeOK
    <3> QED
      BY <1>1, <2>1, <3>1, <3>2 DEF EventOK
  <2> QED
    BY <1>1, <2>1, QueueTypes DEF QueueOK
<1>13. LevelsOK'
  <2>1. \A w \in OrderIds : Quoting(w)' => Quoting(w) /\ venue'[w] = venue[w]
    BY <1>6, <1>8, OrderTypes DEF Quoting
  <2>2. \A u \in in_flight' : u \in in_flight /\ u \in Tasks
    BY <1>5
  <2>3. ASSUME NEW w \in OrderIds, NEW u \in in_flight, task[u].order = w
        PROVE  u \in in_flight'
    BY <1>2, <1>5, <2>3, OrderTypes
  <2>4. /\ \A x, u \in in_flight' : task'[x].level = task'[u].level => x = u
        /\ \A u \in in_flight' : task'[u].level \notin loop.places
    BY <1>6, <2>2 DEF LevelsOK
  <2>5. ASSUME NEW w \in OrderIds, Quoting(w)'
        PROVE  /\ venue'[w].level \notin loop.places
               /\ \A u \in in_flight' : task'[u].level = venue'[w].level => task'[u].order = w
               /\ \/ \E u \in in_flight' : task'[u].order = w
                  \/ pending[w] = [level |-> venue'[w].level, remaining |-> Size]
    <3>1. Quoting(w) /\ venue'[w] = venue[w]
      BY <2>1, <2>5
    <3>2. /\ venue[w].level \notin loop.places
          /\ \A u \in in_flight : task[u].level = venue[w].level => task[u].order = w
          /\ \/ \E u \in in_flight : task[u].order = w
             \/ pending[w] = [level |-> venue[w].level, remaining |-> Size]
      BY <3>1 DEF LevelsOK
    <3>3. CASE \E u \in in_flight : task[u].order = w
      <4>1. PICK u \in in_flight : task[u].order = w
        BY <3>3
      <4>2. u \in in_flight' /\ task'[u].order = w
        BY <1>6, <2>2, <2>3, <4>1
      <4> QED
        BY <1>6, <2>2, <3>1, <3>2, <4>2
    <3> QED
      BY <1>6, <2>2, <3>1, <3>2, <3>3
  <2>6. OneQuotePerLevel'
    BY <2>1 DEF LevelsOK, OneQuotePerLevel
  <2> QED
    BY <1>1, <2>4, <2>5, <2>6 DEF LevelsOK
<1> QED
  BY <1>7, <1>9, <1>10, <1>11, <1>12, <1>13


LEMMA MonitorIsGood ==
    ASSUME IInv, NEW t \in Tasks, Monitor(t) PROVE IInv'
<1> USE DEF IInv
<1>1. UNCHANGED <<venue, in_flight, pending, booked, queue, loop, poll, abandoned>>
  BY DEF Monitor, server
<1>2. PICK v \in OrderIds : /\ v = task[t].order /\ v # None /\ task[t].pc = "posted"
                            /\ venue[v] # None /\ Untold(v)
  BY OrderTypes, TaskTypes DEF Monitor, TasksOK, TaskOK
<1>3. PICK r : /\ task' = [task EXCEPT ![t] = r]
               /\ r \in [pc : {"monitored"}, level : Levels, order : OrderIds,
                         attempt : 1 .. MaxAttempts]
               /\ r.level = task[t].level /\ r.order = v
  <2>1. PICK r : r = [task[t] EXCEPT !.pc = "monitored"]
    OBVIOUS
  <2>2. task' = [task EXCEPT ![t] = r]
    BY <2>1 DEF Monitor, TypeOK
  <2>3. task[t].level \in Levels
    BY <1>2 DEF TasksOK, TaskOK
  <2>4. r \in [pc : {"monitored"}, level : Levels, order : OrderIds, attempt : 1 .. MaxAttempts]
        /\ r.level = task[t].level /\ r.order = v
    BY <1>2, <2>1, <2>3 DEF TypeOK
  <2> QED
    BY <2>2, <2>4
<1>4. PICK m \in Monitors : monitored' = [monitored EXCEPT ![v] = m] /\ m.filled = 0
  <2>1. PICK m : m = [filled |-> 0, failures |-> 0]
    OBVIOUS
  <2>2. m \in Monitors /\ m.filled = 0
    BY <2>1, Sizes DEF Monitors
  <2> QED
    BY <1>2, <2>1, <2>2 DEF Monitor
<1>5. PICK o \in Orders : life' = [life EXCEPT ![v] = o] /\ ~IsTerminal(o)
  <2>1. PICK n : n = [state |-> "SubmitPending", cancel_requested |-> FALSE, remaining |-> Size]
    OBVIOUS
  <2>2. PICK o : o = AfterPlaceSuccess(n)
    OBVIOUS
  <2>3. o \in Orders /\ ~IsTerminal(o)
    BY <2>1, <2>2, Sizes DEF AfterPlaceSuccess, Orders, IsTerminal, States, TerminalReasons
  <2>4. life[v] = None
    BY <1>2 DEF Untold
  <2>5. life' = [life EXCEPT ![v] = o]
    BY <1>2, <2>1, <2>2, <2>4 DEF Monitor
  <2> QED
    BY <2>3, <2>5
<1>6. /\ task'[t] = r /\ \A u \in Tasks : u # t => task'[u] = task[u]
      /\ monitored'[v] = m /\ life'[v] = o /\ m # None /\ o # None
      /\ \A w \in OrderIds : w # v => monitored'[w] = monitored[w] /\ life'[w] = life[w]
  BY <1>3, <1>4, <1>5, NoneAssumption DEF TypeOK
<1>7. \A u \in Tasks : /\ task'[u].order = task[u].order /\ task'[u].level = task[u].level
                       /\ u # t => task[u].order # v
  BY <1>2, <1>3, <1>6 DEF TasksOK
<1>8. TypeOK'
  <2>1. task' \in [Tasks -> [pc : {"idle", "posting", "posted", "matched", "monitored", "done"},
                             level : Levels \cup {None}, order : OrderIds \cup {None},
                             attempt : 1 .. MaxAttempts]]
    BY <1>3 DEF TypeOK
  <2>2. \A u \in in_flight' : task'[u].level \in Levels
    BY <1>1, <1>7 DEF TypeOK
  <2> QED
    BY <1>1, <1>4, <1>5, <2>1, <2>2 DEF TypeOK
<1>9. TasksOK'
  <2>1. ASSUME NEW u \in Tasks, u # t PROVE TaskOK(u)'
    <3>1. TaskOK(u) /\ task[u].order \in OrderIds \cup {None} /\ task'[u] = task[u]
      BY <1>6, <2>1, TaskTypes DEF TasksOK
    <3> QED
      BY <1>1, <1>6, <1>7, <2>1, <3>1 DEF TaskOK, Untold, Reported
  <2>2. TaskOK(t)'
    BY <1>1, <1>2, <1>3, <1>6 DEF TaskOK, TasksOK
  <2> QED
    BY <1>7, <2>1, <2>2 DEF TasksOK
<1>10. OrdersOK'
  <2>1. OrderOK(v)'
    <3>1. venue[v].matched \in Nat
      BY <1>2, VenueTypes
    <3>2. OrderOK(v)
      BY DEF OrdersOK
    <3> QED
      BY <1>1, <1>2, <1>4, <1>5, <1>6, <3>1, <3>2 DEF OrderOK, Untold, Reported
  <2> QED
    BY <1>1, <1>6, <2>1 DEF OrdersOK, OrderOK, Untold, Reported, Polling
<1>11. PollOK' /\ LoopOK'
  <2>1. poll # None => poll.order \in OrderIds /\ poll.order # v
    BY <1>2, PollTypes DEF PollOK, Untold
  <2> QED
    BY <1>1, <1>6, <2>1 DEF PollOK, Reported, LoopOK
<1>12. QueueOK'
  <2>1. ASSUME NEW e \in Event, EventOK(e) PROVE EventOK(e)'
    <3>1. \A u \in in_flight : task[u].pc = "done" => task'[u] = task[u]
      BY <1>2, <1>6 DEF TypeOK
    <3> QED
      BY <1>1, <2>1, <3>1 DEF EventOK
  <2> QED
    BY <1>1, <2>1, QueueTypes DEF QueueOK
<1>13. LevelsOK'
  <2>1. \A w \in OrderIds : Quoting(w)' <=> Quoting(w)
    BY <1>1, <1>7 DEF Quoting
  <2>2. \A u \in in_flight : task'[u].order = task[u].order /\ task'[u].level = task[u].level
    BY <1>7 DEF TypeOK
  <2> QED
    BY <1>1, <2>1, <2>2 DEF LevelsOK, OneQuotePerLevel
<1> QED
  BY <1>8, <1>9, <1>10, <1>11, <1>12, <1>13

LEMMA AppendTypes ==
    ASSUME TypeOK, NEW e \in Event, queue' = Append(queue, e)
    PROVE  /\ queue' \in Seq(Event) /\ Len(queue') = Len(queue) + 1
           /\ DOMAIN queue' \ DOMAIN queue = {Len(queue) + 1}
           /\ DOMAIN queue' = DOMAIN queue \cup {Len(queue) + 1}
           /\ Len(queue) + 1 \notin DOMAIN queue
           /\ queue'[Len(queue) + 1] = e
           /\ \A i \in DOMAIN queue : queue'[i] = queue[i]
           /\ \A v : QueuedFill(queue', v) = QueuedFill(queue, v) + Lots(e, v)
<1>1. queue \in Seq(Event) /\ Len(queue) \in Nat /\ DOMAIN queue = 1 .. Len(queue)
  BY QueueTypes
<1>2. /\ queue' \in Seq(Event) /\ Len(queue') = Len(queue) + 1
      /\ queue'[Len(queue) + 1] = e /\ \A i \in 1 .. Len(queue) : queue'[i] = queue[i]
      /\ DOMAIN queue' = 1 .. Len(queue) + 1
  BY <1>1, AppendProperties, LenProperties
<1>3. \A v : QueuedFill(queue', v) = QueuedFill(queue, v) + Lots(e, v)
  BY <1>1, QueuedFillAppend
<1> QED
  BY <1>1, <1>2, <1>3


LEMMA TheEvents ==
    ASSUME NEW v \in OrderIds
    PROVE  /\ \A level \in Levels :
                 LET e == Placed(v, level)
                 IN  /\ e \in Event /\ e.type = "placed" /\ e.order = v /\ e.level = level
                     /\ \A w : Lots(e, w) = 0
           /\ \A n \in 1 .. Size, left \in 0 .. Size :
                 LET e == Fill(v, n, left)
                 IN  /\ e \in Event /\ e.type = "fill" /\ e.order = v /\ e.size = n
                     /\ Lots(e, v) = n /\ \A w : w # v => Lots(e, w) = 0
           /\ LET e == Cancelled(v)
              IN  /\ e \in Event /\ e.type = "cancelled" /\ e.order = v
                  /\ \A w : Lots(e, w) = 0
  BY DEF Event, Placed, Fill, Cancelled, Lots

LEMMA AnnounceIsGood ==
    ASSUME IInv, NEW t \in Tasks, Announce(t) PROVE IInv'
<1> USE DEF IInv
<1>1. UNCHANGED <<venue, in_flight, pending, booked, loop, monitored, life, poll, abandoned>>
  BY DEF Announce, server, poller
<1>2. PICK v \in OrderIds :
        /\ v = task[t].order /\ v # None /\ venue[v] # None
        /\ venue[v].level = task[t].level /\ t \in in_flight
  BY OrderTypes, TaskTypes DEF Announce, TasksOK, TaskOK
<1>3. task[t].pc \in {"monitored", "matched"} /\ task[t].level \in Levels
  BY DEF Announce, TasksOK, TaskOK
<1>4. PICK r : /\ task' = [task EXCEPT ![t] = r]
               /\ r \in [pc : {"done"}, level : Levels, order : OrderIds,
                         attempt : 1 .. MaxAttempts]
               /\ r.level = task[t].level /\ r.order = v
  <2>1. PICK r : r = [task[t] EXCEPT !.pc = "done"]
    OBVIOUS
  <2>2. task' = [task EXCEPT ![t] = r]
    BY <2>1 DEF Announce, TypeOK
  <2>3. r \in [pc : {"done"}, level : Levels, order : OrderIds, attempt : 1 .. MaxAttempts]
        /\ r.level = task[t].level /\ r.order = v
    BY <1>2, <1>3, <2>1 DEF TypeOK
  <2> QED
    BY <2>2, <2>3
<1>5. PICK e \in Event :
        /\ queue' = Append(queue, e) /\ e.order = v
        /\ \A w : w # v => Lots(e, w) = 0
        /\ \/ task[t].pc = "monitored" /\ e.type = "placed" /\ e.level = task[t].level
              /\ Lots(e, v) = 0
           \/ task[t].pc = "matched" /\ e.type = "fill" /\ Lots(e, v) = Size
  <2>1. CASE task[t].pc = "monitored"
    <3>1. queue' = Append(queue, Placed(v, task[t].level))
      BY <1>2, <2>1 DEF Announce
    <3> QED
      BY <1>3, <2>1, <3>1, TheEvents
  <2>2. CASE task[t].pc = "matched"
    <3>1. queue' = Append(queue, Fill(v, Size, 0))
      BY <1>2, <2>2 DEF Announce
    <3>2. Size \in 1 .. Size /\ 0 \in 0 .. Size
      BY Sizes
    <3> QED
      BY <2>2, <3>1, <3>2, TheEvents
  <2> QED
    BY <1>3, <2>1, <2>2
<1>6. /\ queue' \in Seq(Event)
      /\ DOMAIN queue' = DOMAIN queue \cup {Len(queue) + 1}
      /\ Len(queue) + 1 \notin DOMAIN queue /\ queue'[Len(queue) + 1] = e
      /\ \A i \in DOMAIN queue : queue'[i] = queue[i]
      /\ \A w : QueuedFill(queue', w) = QueuedFill(queue, w) + Lots(e, w)
  BY <1>5, AppendTypes
<1>7. \A w \in OrderIds : w # v => QueuedFill(queue', w) = QueuedFill(queue, w)
  <2>1. \A w \in OrderIds : QueuedFill(queue, w) \in Nat
    BY OrderTypes
  <2> QED
    BY <1>5, <1>6, <2>1
<1>8. /\ task'[t] = r /\ \A u \in Tasks : u # t => task'[u] = task[u]
      /\ \A u \in Tasks : /\ task'[u].order = task[u].order /\ task'[u].level = task[u].level
                          /\ u # t => task[u].order # v
  BY <1>2, <1>4 DEF TypeOK, TasksOK
<1>9. task[t].pc = "matched" => Untold(v) /\ venue[v].matched = Size
  BY <1>2 DEF TasksOK, TaskOK
<1>10. TypeOK'
  <2>1. task' \in [Tasks -> [pc : {"idle", "posting", "posted", "matched", "monitored", "done"},
                             level : Levels \cup {None}, order : OrderIds \cup {None},
                             attempt : 1 .. MaxAttempts]]
    BY <1>4 DEF TypeOK
  <2>2. \A u \in in_flight' : task'[u].level \in Levels
    BY <1>1, <1>8 DEF TypeOK
  <2> QED
    BY <1>1, <1>6, <2>1, <2>2 DEF TypeOK
<1>11. TasksOK'
  <2>1. ASSUME NEW u \in Tasks, u # t PROVE TaskOK(u)'
    <3>1. TaskOK(u) /\ task'[u] = task[u] /\ task[u].order # v
      BY <1>8, <2>1 DEF TasksOK
    <3>2. task[u].order # None =>
            QueuedFill(queue', task[u].order) = QueuedFill(queue, task[u].order)
      BY <1>7, <3>1, TaskTypes
    <3> QED
      BY <1>1, <3>1, <3>2 DEF TaskOK, Untold, Reported
  <2>2. TaskOK(t)'
    BY <1>1, <1>2, <1>4, <1>8 DEF TaskOK
  <2> QED
    BY <1>8, <2>1, <2>2 DEF TasksOK
<1>12. OrdersOK'
  <2>1. OrderOK(v)'
    <3>1. OrderOK(v) /\ QueuedFill(queue, v) \in Nat /\ booked[v] \in Nat
      BY OrderTypes DEF OrdersOK
    <3>2. CASE task[t].pc = "monitored"
      <4>1. QueuedFill(queue', v) = QueuedFill(queue, v)
        BY <1>5, <1>6, <3>1, <3>2
      <4> QED
        BY <1>1, <3>1, <4>1 DEF OrderOK, Untold, Reported, Polling
    <3>3. CASE task[t].pc = "matched"
      <4>1. booked[v] + QueuedFill(queue, v) = 0 /\ monitored[v] = None /\ Size \in Nat
        BY <1>9, <3>3, Sizes DEF Untold, Reported
      <4>2. booked[v] + QueuedFill(queue', v) <= Size
        BY <1>5, <1>6, <3>1, <3>3, <4>1
      <4> QED
        BY <1>1, <1>2, <1>9, <3>1, <3>3, <4>1, <4>2 DEF OrderOK, Reported
    <3> QED
      BY <1>3, <3>2, <3>3
  <2> QED
    BY <1>1, <1>7, <2>1 DEF OrdersOK, OrderOK, Untold, Reported, Polling
<1>13. PollOK' /\ LoopOK'
  <2>1. poll # None => QueuedFill(queue', poll.order) = QueuedFill(queue, poll.order)
    <3>1. CASE task[t].pc = "monitored"
      BY <1>5, <1>6, <1>7, <3>1, PollTypes, OrderTypes
    <3>2. CASE task[t].pc = "matched"
      BY <1>7, <1>9, <3>2, PollTypes DEF PollOK, Untold
    <3> QED
      BY <1>3, <3>1, <3>2
  <2> QED
    BY <1>1, <2>1 DEF PollOK, Reported, LoopOK
<1>14. QueueOK'
  <2>1. ASSUME NEW x \in Event, EventOK(x) PROVE EventOK(x)'
    <3>1. \A u \in in_flight : task[u].pc = "done" => task'[u] = task[u]
      BY <1>3, <1>8 DEF TypeOK
    <3> QED
      BY <1>1, <2>1, <3>1 DEF EventOK
  <2>2. EventOK(e)'
    BY <1>1, <1>2, <1>4, <1>5, <1>8, <1>9, Sizes DEF EventOK
  <2>3. \A i \in DOMAIN queue : queue[i].type = "placed" /\ e.type = "placed" =>
          queue[i].order # v
    <3> SUFFICES ASSUME NEW i \in DOMAIN queue, queue[i].type = "placed", e.type = "placed",
                        queue[i].order = v
                 PROVE  FALSE
      OBVIOUS
    <3>1. PICK u \in in_flight : task[u].pc = "done" /\ task[u].order = v
      BY DEF QueueOK, EventOK
    <3> QED
      BY <1>3, <1>8, <3>1 DEF TypeOK
  <2>4. ASSUME NEW i \in DOMAIN queue' PROVE EventOK(queue[i])'
    <3>1. PICK x \in Event : x = queue'[i]
      BY <1>6, QueueTypes
    <3>2. EventOK(x)'
      BY <1>6, <2>1, <2>2, <3>1 DEF QueueOK
    <3> QED
      BY <3>1, <3>2 DEF EventOK
  <2>5. \A i, j \in DOMAIN queue' :
          /\ queue'[i].type = "placed" /\ queue'[j].type = "placed"
          /\ queue'[i].order = queue'[j].order
          => i = j
    BY <1>5, <1>6, <2>3 DEF QueueOK
  <2> QED
    BY <2>4, <2>5 DEF QueueOK
<1>15. LevelsOK'
  <2>1. \A w \in OrderIds : Quoting(w)' <=> Quoting(w)
    BY <1>1, <1>8 DEF Quoting
  <2>2. \A u \in in_flight : task'[u].order = task[u].order /\ task'[u].level = task[u].level
    BY <1>8 DEF TypeOK
  <2> QED
    BY <1>1, <2>1, <2>2 DEF LevelsOK, OneQuotePerLevel
<1> QED
  BY <1>10, <1>11, <1>12, <1>13, <1>14, <1>15


-------------------------------------------------------------------------------
(* The queued events *)

LEMMA TailTypes ==
    ASSUME TypeOK, queue # <<>>, queue' = Tail(queue)
    PROVE  /\ queue' \in Seq(Event)
           /\ Head(queue) = queue[1] /\ 1 \in DOMAIN queue /\ queue[1] \in Event
           /\ DOMAIN queue' \subseteq DOMAIN queue
           /\ \A i \in DOMAIN queue' :
                 /\ i \in Nat /\ i + 1 \in DOMAIN queue /\ i + 1 # 1
                 /\ queue'[i] = queue[i + 1]
           /\ \A v : QueuedFill(queue, v) = Lots(queue[1], v) + QueuedFill(queue', v)
           /\ \A v : QueuedFill(queue', v) \in Nat
<1>1. queue \in Seq(Event) /\ Len(queue) \in Nat /\ DOMAIN queue = 1 .. Len(queue)
  BY QueueTypes
<1>2. Len(queue) > 0
  BY <1>1, EmptySeq
<1>3. /\ queue' \in Seq(Event) /\ Len(queue') = Len(queue) - 1 /\ Head(queue) = queue[1]
      /\ DOMAIN queue' = 1 .. Len(queue) - 1
  BY <1>1, <1>2, HeadTailProperties, LenProperties
<1>4. \A i \in 1 .. Len(queue) - 1 : queue'[i] = queue[i + 1]
  BY <1>1, <1>2
<1>5. \A v : QueuedFill(queue, v) = Lots(queue[1], v) + QueuedFill(queue', v)
  BY <1>1, <1>3, QueuedFillTail
<1>6. \A v : QueuedFill(queue', v) \in Nat
  BY <1>3, QueuedFillNat
<1>7. queue[1] \in Event
  BY <1>1, <1>2, ElementOfSeq
<1> QED
  BY <1>1, <1>2, <1>3, <1>4, <1>5, <1>6, <1>7

LEMMA LotsAre ==
    ASSUME NEW e \in Event
    PROVE  /\ e.type # "fill" => \A v : Lots(e, v) = 0
           /\ e.type = "fill" => /\ Lots(e, e.order) = e.size
                                 /\ \A v : v # e.order => Lots(e, v) = 0
  BY DEF Lots

LEMMA EventIsGood ==
    ASSUME IInv, ProcessEvent PROVE IInv'
<1> USE DEF IInv
<1>1. UNCHANGED <<venue, task, loop, monitored, life, poll, abandoned>>
  BY DEF ProcessEvent, poller
<1>2. /\ queue' \in Seq(Event)
      /\ Head(queue) = queue[1] /\ 1 \in DOMAIN queue /\ queue[1] \in Event
      /\ DOMAIN queue' \subseteq DOMAIN queue
      /\ \A i \in DOMAIN queue' : /\ i \in Nat /\ i + 1 \in DOMAIN queue /\ i + 1 # 1
                                  /\ queue'[i] = queue[i + 1]
      /\ \A v : QueuedFill(queue, v) = Lots(queue[1], v) + QueuedFill(queue', v)
      /\ \A v : QueuedFill(queue', v) \in Nat
  BY TailTypes DEF ProcessEvent
<1>3. PICK e \in Event : e = queue[1]
  BY <1>2
<1>4. /\ EventOK(e) /\ e.order \in OrderIds /\ venue[e.order] # None
      /\ e.type \in {"placed", "fill", "cancelled"}
  BY <1>2, <1>3, EventTypes DEF QueueOK, EventOK
<1>5. /\ booked' \in [OrderIds -> Nat]
      /\ \A v \in OrderIds : booked'[v] + QueuedFill(queue', v) = booked[v] + QueuedFill(queue, v)
  <2>1. \A v \in OrderIds : booked[v] \in Nat
    BY OrderTypes
  <2>2. CASE e.type # "fill"
    <3>1. booked' = booked
      BY <1>2, <1>3, <2>2 DEF ProcessEvent, ProcessPlaced, ProcessFill, ProcessCancelled
    <3>2. \A v \in OrderIds : QueuedFill(queue', v) = QueuedFill(queue, v)
      BY <1>2, <1>3, <2>2, LotsAre
    <3> QED
      BY <3>1, <3>2 DEF TypeOK
  <2>3. CASE e.type = "fill"
    <3>1. booked' = [booked EXCEPT ![e.order] = @ + e.size]
      BY <1>2, <1>3, <2>3 DEF ProcessEvent, ProcessPlaced, ProcessFill, ProcessCancelled
    <3>2. e.size \in Nat
      BY <2>3, EventTypes, Sizes
    <3>3. booked' \in [OrderIds -> Nat]
      BY <1>4, <2>1, <3>1, <3>2 DEF TypeOK
    <3>4. /\ booked'[e.order] = booked[e.order] + e.size
          /\ \A v \in OrderIds : v # e.order => booked'[v] = booked[v]
      BY <1>4, <3>1 DEF TypeOK
    <3>5. Lots(e, e.order) = e.size /\ \A v : v # e.order => Lots(e, v) = 0
      BY <2>3, LotsAre
    <3>6. booked'[e.order] + QueuedFill(queue', e.order)
            = booked[e.order] + QueuedFill(queue, e.order)
      <4>1. QueuedFill(queue, e.order) = e.size + QueuedFill(queue', e.order)
        BY <1>2, <1>3, <3>5
      <4> QED
        BY <1>2, <1>4, <2>1, <3>2, <3>4, <4>1
    <3>7. \A v \in OrderIds : v # e.order => QueuedFill(queue', v) = QueuedFill(queue, v)
      BY <1>2, <1>3, <3>5
    <3> QED
      BY <3>3, <3>4, <3>6, <3>7
  <2> QED
    BY <2>2, <2>3
<1>6. /\ pending' \in [OrderIds -> Pendings \cup {None}]
      /\ \A v \in OrderIds : v # e.order => pending'[v] = pending[v]
      /\ e.type = "placed" => pending'[e.order] = [level |-> e.level, remaining |-> Size]
  <2>1. CASE e.type = "placed"
    <3>1. PICK p : p = [level |-> e.level, remaining |-> Size]
      OBVIOUS
    <3>2. p \in Pendings
      BY <2>1, <3>1, EventTypes, Sizes DEF Pendings
    <3>3. pending' = [pending EXCEPT ![e.order] = p]
      BY <1>2, <1>3, <2>1, <3>1 DEF ProcessEvent, ProcessPlaced, ProcessFill, ProcessCancelled
    <3> QED
      BY <1>4, <3>1, <3>2, <3>3 DEF TypeOK
  <2>2. CASE e.type = "fill"
    <3>1. PICK p : p = IF e.left = 0 THEN None ELSE [pending[e.order] EXCEPT !.remaining = e.left]
      OBVIOUS
    <3>2. pending' = IF pending[e.order] = None THEN pending
                     ELSE [pending EXCEPT ![e.order] = p]
      <4>1. ProcessFill(e)
        BY <1>2, <1>3, <2>2 DEF ProcessEvent, ProcessPlaced, ProcessCancelled
      <4>2. pending[e.order] # None =>
              pending' = [pending EXCEPT ![e.order] = IF e.left = 0 THEN None
                             ELSE [pending[e.order] EXCEPT !.remaining = e.left]]
        BY <4>1 DEF ProcessFill
      <4>3. pending[e.order] = None => pending' = pending
        BY <4>1 DEF ProcessFill
      <4> QED
        BY <3>1, <4>2, <4>3
    <3>3. pending[e.order] # None => p \in Pendings \cup {None}
      <4>1. e.left \in 0 .. Size /\ (e.left # 0 => e.left \in 1 .. Size)
        BY <2>2, EventTypes, Sizes
      <4>2. pending[e.order] # None => pending[e.order] \in Pendings
        BY <1>4, OrderTypes
      <4> QED
        BY <3>1, <4>1, <4>2 DEF Pendings
    <3> QED
      BY <1>4, <2>2, <3>2, <3>3 DEF TypeOK
  <2>3. CASE e.type = "cancelled"
    <3>1. pending' = [pending EXCEPT ![e.order] = None]
      BY <1>2, <1>3, <2>3 DEF ProcessEvent, ProcessPlaced, ProcessFill, ProcessCancelled
    <3> QED
      BY <1>4, <2>3, <3>1 DEF TypeOK
  <2> QED
    BY <1>4, <2>1, <2>2, <2>3
<1>7. \/ e.type # "placed" /\ in_flight' = in_flight
      \/ /\ e.type = "placed"
         /\ \E t \in in_flight :
               /\ in_flight' = in_flight \ {t}
               /\ task[t].pc = "done" /\ task[t].order = e.order /\ task[t].level = e.level
  <2>1. CASE e.type = "placed"
    <3>1. PICK t \in in_flight :
            task[t].pc = "done" /\ task[t].order = e.order /\ task[t].level = e.level
      BY <1>4, <2>1 DEF EventOK
    <3>2. \A u \in in_flight : task[u].level = e.level => u = t
      BY <3>1 DEF LevelsOK
    <3>3. ProcessPlaced(e)
      BY <1>2, <1>3, <2>1 DEF ProcessEvent, ProcessFill, ProcessCancelled
    <3>4. {u \in in_flight : task[u].level = e.level} = {t}
      BY <3>1, <3>2
    <3>5. in_flight' = in_flight \ {t}
      BY <3>3, <3>4 DEF ProcessPlaced
    <3> QED
      BY <2>1, <3>1, <3>5
  <2>2. CASE e.type # "placed"
    BY <1>2, <1>3, <2>2 DEF ProcessEvent, ProcessPlaced, ProcessFill, ProcessCancelled
  <2> QED
    BY <2>1, <2>2
<1>8. TypeOK'
  <2>1. in_flight' \subseteq in_flight
    BY <1>7
  <2>2. in_flight' \subseteq Tasks /\ \A t \in in_flight' : task'[t].level \in Levels
    BY <1>1, <2>1 DEF TypeOK
  <2> QED
    BY <1>1, <1>2, <1>5, <1>6, <2>2 DEF TypeOK
<1>9. TasksOK'
  <2>1. ASSUME NEW t \in Tasks PROVE TaskOK(t)'
    <3>1. TaskOK(t) /\ task[t].order \in OrderIds \cup {None}
      BY TaskTypes DEF TasksOK
    <3> QED
      BY <1>1, <1>5, <1>7, <3>1 DEF TaskOK, Untold, Reported
  <2> QED
    BY <1>1, <2>1 DEF TasksOK
<1>10. OrdersOK'
  <2>1. \A v \in OrderIds : venue[v] = None => pending'[v] = pending[v]
    BY <1>4, <1>6
  <2> QED
    BY <1>1, <1>5, <2>1 DEF OrdersOK, OrderOK, Untold, Reported, Polling
<1>11. PollOK' /\ LoopOK'
  BY <1>1, <1>5, PollTypes DEF PollOK, LoopOK, Reported
<1>12. QueueOK'
  <2>1. ASSUME NEW i \in DOMAIN queue' PROVE EventOK(queue[i])'
    <3>1. PICK x \in Event : x = queue[i + 1] /\ x = queue'[i]
      BY <1>2, QueueTypes
    <3>2. EventOK(x)
      BY <1>2, <3>1 DEF QueueOK
    <3>3. e.type = "placed" /\ x.type = "placed" => x.order # e.order
      BY <1>2, <1>3, <3>1 DEF QueueOK
    <3>4. EventOK(x)'
      BY <1>1, <1>7, <3>2, <3>3 DEF EventOK
    <3> QED
      BY <3>1, <3>4 DEF EventOK
  <2>2. ASSUME NEW i \in DOMAIN queue', NEW j \in DOMAIN queue',
               queue'[i].type = "placed", queue'[j].type = "placed",
               queue'[i].order = queue'[j].order
        PROVE  i = j
    <3>1. i + 1 = j + 1
      BY <1>2, <2>2 DEF QueueOK
    <3> QED
      BY <1>2, <3>1
  <2> QED
    BY <2>1, <2>2 DEF QueueOK
<1>13. LevelsOK'
  <2>1. in_flight' \subseteq in_flight
    BY <1>7
  <2>2. \A v \in OrderIds : Quoting(v)' <=> Quoting(v)
    BY <1>1 DEF Quoting
  <2>3. ASSUME NEW v \in OrderIds, Quoting(v)
        PROVE  \/ \E t \in in_flight' : task'[t].order = v
               \/ pending'[v] = [level |-> venue'[v].level, remaining |-> Size]
    <3>1. \/ \E t \in in_flight : task[t].order = v
          \/ pending[v] = [level |-> venue[v].level, remaining |-> Size]
      BY <2>3 DEF LevelsOK
    <3>2. CASE e.type = "placed"
      <4>1. PICK t \in in_flight : in_flight' = in_flight \ {t} /\ task[t].order = e.order
                                     /\ task[t].level = e.level
        BY <1>7, <3>2
      <4>2. venue[e.order].level = e.level
        BY <1>4, <4>1, OrderTypes DEF TypeOK, TasksOK, TaskOK
      <4>3. CASE v = e.order
        BY <1>1, <1>6, <3>2, <4>2, <4>3
      <4>4. CASE v # e.order
        BY <1>1, <1>6, <3>1, <4>1, <4>4
      <4> QED
        BY <4>3, <4>4
    <3>3. CASE e.type # "placed"
      <4>1. v # e.order
        <5>1. venue[e.order].matched \in Nat
          BY <1>4, VenueTypes
        <5> QED
          BY <1>4, <2>3, <3>3, <5>1 DEF Quoting, EventOK
      <4> QED
        BY <1>1, <1>6, <1>7, <3>1, <3>3, <4>1
    <3> QED
      BY <3>2, <3>3
  <2> QED
    BY <1>1, <2>1, <2>2, <2>3 DEF LevelsOK, OneQuotePerLevel
<1> QED
  BY <1>8, <1>9, <1>10, <1>11, <1>12, <1>13


-------------------------------------------------------------------------------
(* The poller *)

LEMMA PollerFrame ==
    ASSUME IInv, UNCHANGED <<venue, task, in_flight, pending, booked, loop>>
    PROVE  LoopOK' /\ LevelsOK' /\ \A e : EventOK(e) => EventOK(e)'
  BY DEF IInv, LoopOK, LevelsOK, OneQuotePerLevel, Quoting, EventOK

\* An event that is not of a placement joins the queue.
LEMMA QueueGrows ==
    ASSUME IInv, UNCHANGED <<venue, task, in_flight, pending, booked, loop>>,
           NEW e \in Event, EventOK(e), e.type # "placed", queue' = Append(queue, e)
    PROVE  QueueOK'
<1> USE DEF IInv
<1>1. /\ DOMAIN queue' = DOMAIN queue \cup {Len(queue) + 1}
      /\ Len(queue) + 1 \notin DOMAIN queue /\ queue'[Len(queue) + 1] = e
      /\ \A i \in DOMAIN queue : queue'[i] = queue[i]
  BY AppendTypes
<1>2. ASSUME NEW i \in DOMAIN queue' PROVE EventOK(queue[i])'
  <2>1. PICK x \in Event : x = queue'[i]
    BY <1>1, QueueTypes
  <2>2. EventOK(x)
    BY <1>1, <2>1 DEF QueueOK
  <2>3. EventOK(x)'
    BY <2>2, PollerFrame
  <2> QED
    BY <2>1, <2>3 DEF EventOK
<1>3. \A i, j \in DOMAIN queue' :
        /\ queue'[i].type = "placed" /\ queue'[j].type = "placed"
        /\ queue'[i].order = queue'[j].order
        => i = j
  BY <1>1 DEF QueueOK
<1> QED
  BY <1>2, <1>3 DEF QueueOK

LEMMA PollIsGood ==
    ASSUME IInv, NEW v \in OrderIds, Poll(v) PROVE IInv'
<1> USE DEF IInv
<1>1. UNCHANGED <<venue, task, in_flight, pending, booked, loop, queue, monitored, life,
                  abandoned>>
  BY DEF Poll, server
<1>2. poll = None /\ monitored[v] # None /\ OrderOK(v) /\ venue[v] # None
  BY DEF Poll, OrdersOK, OrderOK
<1>3. /\ venue[v].matched \in 0 .. Size /\ monitored[v].filled \in 0 .. Size
      /\ venue[v].status \in {"live", "matched", "canceled", "gone"}
      /\ booked[v] \in Nat /\ QueuedFill(queue, v) \in Nat
  BY <1>2, VenueTypes, OrderTypes
<1>4. PICK n, st : /\ poll' = [order |-> v, known |-> monitored[v].filled,
                               status |-> st, matched |-> n]
                   /\ \/ st = venue[v].status /\ n = venue[v].matched
                      \/ st = "error" /\ n = 0
  <2>1. PICK answer \in {venue[v], OnVenue(None, "error", 0)} :
          poll' = [order |-> v, known |-> monitored[v].filled,
                   status |-> answer.status, matched |-> answer.matched]
    BY DEF Poll
  <2>2. CASE answer = venue[v]
    BY <2>1, <2>2
  <2>3. CASE answer = OnVenue(None, "error", 0)
    BY <2>1, <2>3 DEF OnVenue
  <2> QED
    BY <2>1, <2>2, <2>3
<1>5. /\ poll' \in Answers /\ poll'.order = v /\ poll'.known = monitored[v].filled
      /\ poll'.status = st /\ poll'.matched = n /\ poll' # None
  <2>1. poll' \in Answers
    BY <1>3, <1>4, Sizes DEF Answers
  <2> QED
    BY <1>4, <2>1, NoneAssumption
<1>6. TypeOK'
  BY <1>1, <1>5 DEF TypeOK
<1>7. TasksOK' /\ QueueOK'
  BY <1>1 DEF TasksOK, TaskOK, Untold, Reported, QueueOK, EventOK
<1>8. OrdersOK'
  BY <1>1, <1>2, <1>5 DEF OrdersOK, OrderOK, Untold, Reported, Polling
<1>9. PollOK'
  <2>1. /\ booked[v] + QueuedFill(queue, v) <= monitored[v].filled
        /\ monitored[v].filled <= venue[v].matched
    BY <1>2 DEF OrderOK, Reported, Polling
  <2> QED
    BY <1>1, <1>2, <1>3, <1>4, <1>5, <2>1, Sizes DEF PollOK, Reported
<1> QED
  BY <1>1, <1>6, <1>7, <1>8, <1>9, PollerFrame

LEMMA ReportFillIsGood ==
    ASSUME IInv, ReportFill PROVE IInv'
<1> USE DEF IInv
<1>1. UNCHANGED <<venue, task, in_flight, pending, booked, loop, monitored, life, abandoned>>
  BY DEF ReportFill, server
<1>2. PICK v \in OrderIds : v = poll.order
  BY PollTypes DEF ReportFill
<1>3. /\ poll # None /\ monitored[v] # None /\ venue[v] # None
      /\ booked[v] + QueuedFill(queue, v) <= poll.known
      /\ poll.matched <= venue[v].matched
      /\ poll.status # "error" /\ poll.matched > poll.known
      /\ poll.known \in Nat /\ poll.matched \in Nat /\ poll.matched \in 0 .. Size
      /\ booked[v] \in Nat /\ QueuedFill(queue, v) \in Nat /\ venue[v].matched \in Nat
  BY <1>2, PollTypes, OrderTypes, VenueTypes
  DEF ReportFill, Unreported, PollOK, Reported, OrdersOK, OrderOK
<1>4. PICK n \in 1 .. Size, left \in 0 .. Size :
        n = poll.matched - poll.known /\ left = Size - poll.matched
  BY <1>3, Sizes
<1>5. PICK e \in Event : /\ queue' = Append(queue, e)
                         /\ e.type = "fill" /\ e.order = v /\ e.size = n
                         /\ Lots(e, v) = n /\ \A w : w # v => Lots(e, w) = 0
  <2>1. queue' = Append(queue, Fill(v, n, left))
    BY <1>2, <1>4 DEF ReportFill, NewFill
  <2> QED
    BY <2>1, TheEvents
<1>6. /\ queue' \in Seq(Event)
      /\ \A w : QueuedFill(queue', w) = QueuedFill(queue, w) + Lots(e, w)
  BY <1>5, AppendTypes
<1>7. \A w \in OrderIds : w # v => QueuedFill(queue', w) = QueuedFill(queue, w)
  <2>1. \A w \in OrderIds : QueuedFill(queue, w) \in Nat
    BY OrderTypes
  <2> QED
    BY <1>5, <1>6, <2>1
<1>8. booked[v] + QueuedFill(queue', v) <= poll.matched
  <2>1. QueuedFill(queue', v) = QueuedFill(queue, v) + (poll.matched - poll.known)
    BY <1>4, <1>5, <1>6
  <2> QED
    BY <1>3, <2>1
<1>9. /\ poll' \in Answers /\ poll' # None /\ poll'.order = v
      /\ poll'.known = poll.matched /\ poll'.matched = poll.matched
      /\ poll'.status = poll.status
  <2>1. PICK p \in Answers : p = poll
    BY <1>3, PollTypes
  <2>2. PICK q : q = [p EXCEPT !.known = p.matched]
    OBVIOUS
  <2>3. /\ q \in Answers /\ q.order = p.order /\ q.known = p.matched
        /\ q.matched = p.matched /\ q.status = p.status
    BY <2>2 DEF Answers
  <2>4. poll' = q
    BY <2>1, <2>2 DEF ReportFill
  <2> QED
    BY <1>2, <2>1, <2>3, <2>4, NoneAssumption
<1>10. TypeOK'
  BY <1>1, <1>6, <1>9 DEF TypeOK
<1>11. TasksOK'
  <2>1. ASSUME NEW u \in Tasks PROVE TaskOK(u)'
    <3>1. TaskOK(u) /\ task[u].order \in OrderIds \cup {None}
      BY TaskTypes DEF TasksOK
    <3>2. task[u].pc \in {"posted", "matched"} =>
            /\ task[u].order \in OrderIds /\ task[u].order # v
            /\ QueuedFill(queue', task[u].order) = QueuedFill(queue, task[u].order)
      BY <1>3, <1>7, <3>1 DEF TaskOK, Untold
    <3> QED
      BY <1>1, <3>1, <3>2 DEF TaskOK, Untold, Reported
  <2> QED
    BY <1>1, <2>1 DEF TasksOK
<1>12. OrdersOK'
  <2>1. OrderOK(v)'
    <3>1. OrderOK(v)
      BY DEF OrdersOK
    <3>2. booked[v] + QueuedFill(queue', v) <= venue[v].matched
      <4>1. QueuedFill(queue', v) \in Nat
        <5>1. QueuedFill(queue', v) = QueuedFill(queue, v) + n
          BY <1>5, <1>6
        <5> QED
          BY <1>3, <5>1
      <4>2. PICK a \in Nat, b \in Nat, c \in Nat, d \in Nat :
               /\ a = booked[v] /\ b = QueuedFill(queue', v)
               /\ c = poll.matched /\ d = venue[v].matched
        BY <1>3, <4>1
      <4>3. a + b <= c /\ c <= d
        BY <1>3, <1>8, <4>2
      <4> QED
        BY <4>2, <4>3
    <3> QED
      BY <1>1, <1>3, <1>9, <3>1, <3>2 DEF OrderOK, Untold, Reported, Polling
  <2>2. ASSUME NEW w \in OrderIds, w # v PROVE OrderOK(w)'
    <3>1. OrderOK(w) /\ ~Polling(w) /\ ~Polling(w)'
      BY <1>2, <1>9, <2>2 DEF OrdersOK, Polling
    <3> QED
      BY <1>1, <1>7, <2>2, <3>1 DEF OrderOK, Untold, Reported
  <2> QED
    BY <2>1, <2>2 DEF OrdersOK
<1>13. PollOK'
  BY <1>1, <1>2, <1>3, <1>8, <1>9 DEF PollOK, Reported
<1>14. EventOK(e)
  BY <1>3, <1>5 DEF EventOK
<1>15. QueueOK'
  BY <1>1, <1>5, <1>14, QueueGrows
<1> QED
  BY <1>1, <1>10, <1>11, <1>12, <1>13, <1>15, PollerFrame


\* The poller is done with an answer: it goes on watching order v, or no longer does,
\* and may have told that the order was cancelled.
LEMMA AnsweredIsGood ==
    ASSUME IInv, TypeOK', NEW v \in OrderIds, monitored[v] # None,
           poll = None \/ poll.order = v, poll' = None,
           UNCHANGED <<venue, task, in_flight, pending, booked, loop>>,
           \A w \in OrderIds : w # v => monitored'[w] = monitored[w] /\ life'[w] = life[w],
           monitored'[v] # None =>
              /\ life' = life
              /\ monitored'[v].filled <= venue[v].matched
              /\ Reported(v) <= monitored'[v].filled,
           \/ queue' = queue
           \/ \E e \in Event : /\ queue' = Append(queue, e) /\ e.type = "cancelled"
                               /\ EventOK(e)
    PROVE  IInv'
<1> USE DEF IInv
<1>1. \A w \in OrderIds : QueuedFill(queue', w) = QueuedFill(queue, w)
  <2>1. ASSUME NEW e \in Event, queue' = Append(queue, e), e.type = "cancelled"
        PROVE  \A w \in OrderIds : QueuedFill(queue', w) = QueuedFill(queue, w)
    <3>1. \A w : Lots(e, w) = 0
      BY <2>1, LotsAre
    <3> QED
      BY <2>1, <3>1, AppendTypes, OrderTypes
  <2> QED
    BY <2>1
<1>2. TasksOK'
  <2>1. ASSUME NEW u \in Tasks PROVE TaskOK(u)'
    <3>1. TaskOK(u) /\ task[u].order \in OrderIds \cup {None}
      BY TaskTypes DEF TasksOK
    <3>2. task[u].pc \in {"posted", "matched"} =>
            task[u].order \in OrderIds /\ task[u].order # v
      BY <3>1 DEF TaskOK, Untold
    <3> QED
      BY <1>1, <3>1, <3>2 DEF TaskOK, Untold, Reported
  <2> QED
    BY <2>1 DEF TasksOK
<1>3. OrdersOK'
  <2>1. OrderOK(v)'
    <3>1. OrderOK(v) /\ venue[v] # None
      BY DEF OrdersOK, OrderOK
    <3> QED
      BY <1>1, <3>1 DEF OrderOK, Untold, Reported
  <2>2. ASSUME NEW w \in OrderIds, w # v PROVE OrderOK(w)'
    <3>1. OrderOK(w) /\ ~Polling(w)
      BY <2>2 DEF OrdersOK, Polling
    <3> QED
      BY <1>1, <2>2, <3>1 DEF OrderOK, Untold, Reported
  <2> QED
    BY <2>1, <2>2 DEF OrdersOK
<1>4. PollOK'
  BY DEF PollOK
<1>5. QueueOK'
  <2>1. CASE queue' = queue
    BY <2>1 DEF QueueOK, EventOK
  <2>2. ASSUME NEW e \in Event, queue' = Append(queue, e), e.type = "cancelled", EventOK(e)
        PROVE  QueueOK'
    BY <2>2, QueueGrows
  <2> QED
    BY <2>1, <2>2
<1> QED
  BY <1>2, <1>3, <1>4, <1>5, PollerFrame

LEMMA EndedIsGood ==
    ASSUME IInv, PolledCanceled \/ PolledNotFound PROVE IInv'
<1> USE DEF IInv
<1>1. /\ UNCHANGED <<venue, task, in_flight, pending, booked, loop>>
      /\ poll # None /\ poll' = None
      /\ poll.status \in {"canceled", "gone"}
  BY DEF PolledCanceled, PolledNotFound, server
<1>2. PICK v \in OrderIds : v = poll.order
  BY <1>1, PollTypes
<1>3. /\ monitored[v] # None /\ venue[v] # None /\ venue[v].status # "live"
      /\ life[v] # None /\ ~IsTerminal(life[v]) /\ life[v] \in Orders
  BY <1>1, <1>2, OrderTypes DEF PollOK, OrdersOK, OrderOK
<1>4. monitored' = [monitored EXCEPT ![v] = None]
  BY <1>2 DEF PolledCanceled, PolledNotFound
<1>5. EndsAsCancelled(v)
  BY <1>2 DEF PolledCanceled, PolledNotFound
<1>6. PICK e \in Event : queue' = Append(queue, e) /\ e.type = "cancelled" /\ EventOK(e)
  <2>1. queue' = Append(queue, Cancelled(v))
    BY <1>3, <1>5 DEF EndsAsCancelled
  <2>2. PICK e \in Event : e = Cancelled(v) /\ e.type = "cancelled" /\ e.order = v
    BY TheEvents
  <2>3. EventOK(e)
    BY <1>3, <2>2 DEF EventOK
  <2> QED
    BY <2>1, <2>2, <2>3
<1>7. PICK o \in Orders : life' = [life EXCEPT ![v] = o]
  <2>1. PICK p \in Orders : p = life[v]
    BY <1>3
  <2>2. PICK o : o = AfterTerminal(p, "Cancelled")
    OBVIOUS
  <2>3. o \in Orders
    BY <2>2 DEF AfterTerminal, Orders, States, TerminalReasons
  <2>4. life' = [life EXCEPT ![v] = o]
    BY <1>3, <1>5, <2>1, <2>2 DEF EndsAsCancelled
  <2> QED
    BY <2>3, <2>4
<1>8. TypeOK'
  <2>1. queue' \in Seq(Event)
    BY <1>6, AppendTypes
  <2>2. abandoned' \subseteq OrderIds
    BY <1>2 DEF PolledCanceled, PolledNotFound, TypeOK
  <2> QED
    BY <1>1, <1>4, <1>7, <2>1, <2>2 DEF TypeOK
<1>9. /\ monitored'[v] = None
      /\ \A w \in OrderIds : w # v => monitored'[w] = monitored[w] /\ life'[w] = life[w]
  BY <1>4, <1>7 DEF TypeOK
<1> QED
  BY <1>1, <1>2, <1>3, <1>6, <1>8, <1>9, AnsweredIsGood

LEMMA WorkingIsGood ==
    ASSUME IInv, PolledWorking PROVE IInv'
<1> USE DEF IInv
<1>1. /\ UNCHANGED <<venue, task, in_flight, pending, booked, loop, queue, life, abandoned>>
      /\ poll # None /\ poll' = None /\ poll.status \in {"live", "matched"}
      /\ ~(poll.matched > poll.known)
  BY DEF PolledWorking, Unreported, server
<1>2. PICK v \in OrderIds : v = poll.order
  BY <1>1, PollTypes
<1>3. /\ monitored[v] # None /\ poll.matched = poll.known
      /\ poll.matched \in 0 .. Size /\ poll.matched <= venue[v].matched
      /\ Reported(v) <= poll.matched
  BY <1>1, <1>2, PollTypes DEF PollOK
<1>4. PICK m \in Monitors \cup {None} :
        /\ monitored' = [monitored EXCEPT ![v] = m]
        /\ m # None => m.filled = poll.matched
  <2>1. PICK m : m = IF poll.matched >= Size \/ poll.status = "matched" THEN None
                     ELSE [filled |-> poll.matched, failures |-> 0]
    OBVIOUS
  <2>2. monitored' = [monitored EXCEPT ![v] = m]
    BY <1>2, <1>3, <2>1 DEF PolledWorking
  <2>3. m \in Monitors \cup {None} /\ (m # None => m.filled = poll.matched)
    BY <1>3, <2>1, Sizes DEF Monitors
  <2> QED
    BY <2>2, <2>3
<1>5. TypeOK'
  BY <1>1, <1>4 DEF TypeOK
<1>6. /\ monitored'[v] = m
      /\ \A w \in OrderIds : w # v => monitored'[w] = monitored[w] /\ life'[w] = life[w]
  BY <1>1, <1>4 DEF TypeOK
<1> QED
  BY <1>1, <1>2, <1>3, <1>4, <1>5, <1>6, AnsweredIsGood

LEMMA ErrorIsGood ==
    ASSUME IInv, PolledError PROVE IInv'
<1> USE DEF IInv
<1>1. /\ UNCHANGED <<venue, task, in_flight, pending, booked, loop, queue, life>>
      /\ poll # None /\ poll' = None /\ poll.status = "error"
  BY DEF PolledError, server
<1>2. PICK v \in OrderIds : v = poll.order
  BY <1>1, PollTypes
<1>3. PICK r \in Monitors :
        /\ r = monitored[v] /\ monitored[v] # None /\ Reported(v) <= r.filled
        /\ r.filled <= venue[v].matched /\ r.failures \in Nat
  BY <1>1, <1>2, OrderTypes, Sizes DEF PollOK, OrdersOK, OrderOK, Monitors
<1>4. PICK m \in Monitors \cup {None} :
        /\ monitored' = [monitored EXCEPT ![v] = m] /\ abandoned' \subseteq OrderIds
        /\ m # None => m.filled = r.filled
  <2>1. CASE r.failures + 1 >= MaxFailures
    BY <1>2, <1>3, <2>1 DEF PolledError, TypeOK
  <2>2. CASE ~(r.failures + 1 >= MaxFailures)
    <3>1. PICK m : m = [r EXCEPT !.failures = r.failures + 1]
      OBVIOUS
    <3>2. r.failures + 1 \in 0 .. MaxFailures - 1
      BY <1>3, <2>2, Sizes
    <3>3. m \in Monitors /\ m.filled = r.filled
      BY <3>1, <3>2 DEF Monitors
    <3>4. monitored' = [monitored EXCEPT ![v] = m] /\ abandoned' = abandoned
      BY <1>2, <1>3, <2>2, <3>1 DEF PolledError
    <3> QED
      BY <3>3, <3>4 DEF TypeOK
  <2> QED
    BY <2>1, <2>2
<1>5. TypeOK'
  BY <1>1, <1>4 DEF TypeOK
<1>6. /\ monitored'[v] = m
      /\ \A w \in OrderIds : w # v => monitored'[w] = monitored[w] /\ life'[w] = life[w]
  BY <1>1, <1>4 DEF TypeOK
<1> QED
  BY <1>1, <1>2, <1>3, <1>4, <1>5, <1>6, AnsweredIsGood

LEMMA PruneIsGood ==
    ASSUME IInv, NEW v \in OrderIds, PruneStale(v) PROVE IInv'
<1> USE DEF IInv
<1>1. /\ UNCHANGED <<venue, task, in_flight, pending, booked, loop, queue, life>>
      /\ poll = None /\ poll' = None /\ monitored[v] # None
      /\ monitored' = [monitored EXCEPT ![v] = None]
      /\ abandoned' = abandoned \cup {v}
  BY DEF PruneStale, server
<1>2. TypeOK'
  BY <1>1 DEF TypeOK
<1>3. /\ monitored'[v] = None
      /\ \A w \in OrderIds : w # v => monitored'[w] = monitored[w] /\ life'[w] = life[w]
  BY <1>1 DEF TypeOK
<1> QED
  BY <1>1, <1>2, <1>3, AnsweredIsGood


-------------------------------------------------------------------------------
(* The theorems *)

LEMMA NextIsGood == IInv /\ [Next]_vars => IInv'
<1> SUFFICES ASSUME IInv, [Next]_vars PROVE IInv'
  OBVIOUS
<1>1. CASE \E wanted \in SUBSET Levels : Intent(wanted)
  BY <1>1, IntentIsGood
<1>2. CASE \E v \in OrderIds : CancelStep(v)
  BY <1>2, CancelStepIsGood
<1>3. CASE SpawnStep
  BY <1>3, SpawnIsGood DEF SpawnStep
<1>4. CASE ProcessEvent
  BY <1>4, EventIsGood
<1>5. CASE \E t \in Tasks : TaskStep(t)
  BY <1>5, PostTakenIsGood, PostFailsIsGood, MonitorIsGood, AnnounceIsGood DEF TaskStep
<1>6. CASE PollStep
  BY <1>6, PollIsGood, ReportFillIsGood, EndedIsGood, WorkingIsGood, ErrorIsGood
  DEF PollStep, HandleAnswer
<1>7. CASE \E v \in OrderIds : PruneStale(v) \/ VenueStep(v)
  BY <1>7, PruneIsGood, VenueStepIsGood
<1>8. CASE UNCHANGED vars
  BY <1>8 DEF vars, server, poller, IInv, TypeOK, TasksOK, TaskOK, Untold, Reported, OrdersOK,
              OrderOK, Polling, PollOK, LoopOK, QueueOK, EventOK, LevelsOK, Quoting,
              OneQuotePerLevel
<1> QED
  BY <1>1, <1>2, <1>3, <1>4, <1>5, <1>6, <1>7, <1>8 DEF Next

\* The placements, the event loop, the poller and the venue keep the inductive invariant.
THEOREM Invariance == Spec => []IInv
  BY InitIsGood, NextIsGood, PTL DEF Spec

\* The variables keep their shapes: no level, no queue and no answer leaves its set,
\* whatever the venue does and however many attempts fail.
THEOREM TypeCorrectness == Spec => []TypeOK
<1>1. IInv => TypeOK
  BY DEF IInv
<1> QED
  BY <1>1, Invariance, PTL

\* No fill is reported twice: what is booked or queued of an order is never more than
\* what the venue traded of it.
THEOREM OverbookingSafety == Spec => []NoOverbooking
<1>1. IInv => NoOverbooking
  BY DEF IInv, OrdersOK, OrderOK, Reported, NoOverbooking
<1> QED
  BY <1>1, Invariance, PTL

\* No two untouched orders that the program knows of quote the same level, though
\* reconciliation, placements and cancels overlap.
THEOREM QuoteSafety == Spec => []OneQuotePerLevel
<1>1. IInv => OneQuotePerLevel
  BY DEF IInv, LevelsOK
<1> QED
  BY <1>1, Invariance, PTL

\* Nothing but the placement is queued of an order that is over for the poller's
\* lifecycle engine.
THEOREM SilenceAfterTheEnd == Spec => NothingAfterCancel
<1> DEFINE Silent ==
      \A v \in OrderIds : life[v] # None /\ IsTerminal(life[v]) =>
        \A i \in DOMAIN queue' \ DOMAIN queue :
            queue'[i].order = v => queue'[i].type = "placed"
<1>1. ASSUME IInv, Next PROVE Silent
  <2> USE <1>1 DEF IInv
  <2> SUFFICES ASSUME NEW v \in OrderIds, life[v] # None, IsTerminal(life[v]),
                      NEW i \in DOMAIN queue' \ DOMAIN queue, queue'[i].order = v
               PROVE  queue'[i].type = "placed"
    OBVIOUS
  <2>1. monitored[v] = None
    BY DEF OrdersOK, OrderOK
  <2>2. ASSUME NEW e \in Event, queue' = Append(queue, e) PROVE queue'[i] = e
    BY <2>2, AppendTypes
  <2>3. CASE queue' = queue
    BY <2>3
  <2>4. CASE ProcessEvent
    BY <2>4, TailTypes DEF ProcessEvent
  <2>5. ASSUME NEW t \in Tasks, Announce(t) PROVE queue'[i].type = "placed"
    <3>1. task[t].order \in OrderIds /\ task[t].level \in Levels
      BY <2>5, TaskTypes DEF Announce, TasksOK, TaskOK
    <3>2. CASE task[t].pc = "monitored"
      <4>1. queue' = Append(queue, Placed(task[t].order, task[t].level))
        BY <2>5, <3>2 DEF Announce
      <4> QED
        BY <2>2, <3>1, <4>1, TheEvents
    <3>3. CASE task[t].pc = "matched"
      <4>1. queue' = Append(queue, Fill(task[t].order, Size, 0))
        BY <2>5, <3>3 DEF Announce
      <4>2. Size \in 1 .. Size /\ 0 \in 0 .. Size
        BY Sizes
      <4>3. task[t].order = v
        BY <2>2, <3>1, <4>1, <4>2, TheEvents
      <4>4. life[v] = None
        BY <3>3, <4>3 DEF TasksOK, TaskOK, Untold
      <4> QED
        BY <4>4
    <3> QED
      BY <2>5, <3>2, <3>3 DEF Announce
  <2>6. CASE HandleAnswer
    <3>1. poll # None => poll.order \in OrderIds /\ monitored[poll.order] # None
      BY PollTypes DEF PollOK
    <3>2. CASE ReportFill
      <4>1. poll # None /\ poll.matched - poll.known \in 1 .. Size
            /\ Size - poll.matched \in 0 .. Size
        BY <3>2, PollTypes, Sizes DEF ReportFill, Unreported
      <4>2. queue'[i].order = poll.order
        BY <2>2, <3>1, <3>2, <4>1, TheEvents DEF ReportFill, NewFill
      <4> QED
        BY <2>1, <3>1, <4>1, <4>2
    <3>3. CASE PolledCanceled \/ PolledNotFound
      <4>1. poll # None /\ EndsAsCancelled(poll.order)
        BY <3>3 DEF PolledCanceled, PolledNotFound
      <4>2. queue' = queue \/ queue' = Append(queue, Cancelled(poll.order))
        BY <4>1 DEF EndsAsCancelled
      <4>3. queue' = queue \/ queue'[i].order = poll.order
        BY <2>2, <3>1, <4>1, <4>2, TheEvents
      <4> QED
        BY <2>1, <2>3, <3>1, <4>1, <4>3
    <3>4. CASE PolledWorking \/ PolledError
      BY <2>3, <3>4 DEF PolledWorking, PolledError
    <3> QED
      BY <2>6, <3>2, <3>3, <3>4 DEF HandleAnswer
  <2>7. \/ queue' = queue
        \/ ProcessEvent
        \/ \E t \in Tasks : Announce(t)
        \/ HandleAnswer
    <3>1. ASSUME NEW t \in Tasks, TaskStep(t), ~Announce(t) PROVE queue' = queue
      BY <3>1 DEF TaskStep, PostAccepted, PostMatched, PostResponseLost, PostFails, Monitor
    <3>2. ASSUME NEW w \in OrderIds,
                 CancelStep(w) \/ PruneStale(w) \/ VenueStep(w) \/ Poll(w)
          PROVE  queue' = queue
      BY <3>2 DEF CancelStep, CancelReachesVenue, CancelRefused, CancelAcknowledged,
                  PruneStale, VenueStep, VenueTrades, VenueCancels, VenueForgets, Poll
    <3>3. ASSUME (\E wanted \in SUBSET Levels : Intent(wanted)) \/ SpawnStep
          PROVE  queue' = queue
      BY <3>3 DEF Intent, SpawnStep, SpawnPlacement
    <3> QED
      BY <1>1, <3>1, <3>2, <3>3 DEF Next, PollStep
  <2> QED
    BY <2>3, <2>4, <2>5, <2>6, <2>7
<1>2. IInv /\ [Next]_vars => [Silent]_vars
  BY <1>1
<1> QED
  BY <1>2, Invariance, PTL DEF Spec, NothingAfterCancel


================================================================================
