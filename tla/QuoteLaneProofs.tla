----------------------------- MODULE QuoteLaneProofs -----------------------------
(***************************************************************************)
(* Proofs that the maps of a quote lane stay in step, that its events tell *)
(* each order's story, and that each order implements OrderContract, for   *)
(* any orders, sizes and latencies.  The handlers are functions of a       *)
(* record of all variables, and so are the invariants here: a lemma about  *)
(* a handler is about one state and the state it returns.                  *)
(***************************************************************************)
EXTENDS QuoteLane, SequenceTheorems, WellFoundedInduction, TLAPS

Lanes ==
    {Idle}
      \cup [at : {"Placing"}, quote : Quote, due : Nat, cancel : Deadline]
      \cup [at : {"Live"}, id : OrderIds]
      \cup [at : {"Canceling"}, id : OrderIds, due : Nat, next : Quote \cup {None}]

Events ==
    [type : {"placed"}, size : Sizes]
      \cup [type : {"fill"}, size : Nat, complete : BOOLEAN]
      \cup [type : {"cancelled"}]

StateSpace ==
    [lane : Lanes, book : [OrderIds -> Resting \cup {None}],
     life : [OrderIds -> Orders \cup {None}], mapped : SUBSET OrderIds,
     story : [OrderIds -> Seq(Events)]]

\* The engine has the order acknowledged and not over, or not acknowledged.
Working(o) == o # None /\ o.state \in {"Open", "CancelPending"}
Waiting(o) == o # None /\ o.state = "SubmitPending"

Ends(e) == e.type = "cancelled" \/ (e.type = "fill" /\ e.complete)

\* What the lane holds is mapped, and the engine has it as far as the lane does.
LaneOK(s) ==
    /\ s.lane.at = "Placing" =>
          /\ s.lane.quote.id \in s.mapped
          /\ Waiting(s.life[s.lane.quote.id])
          /\ s.lane.cancel # None => s.life[s.lane.quote.id].cancel_requested
    /\ s.lane.at \in {"Live", "Canceling"} => s.lane.id \in s.mapped
    /\ s.lane.at = "Canceling" /\ s.lane.next # None =>
          s.lane.next.id \in s.mapped /\ Waiting(s.life[s.lane.next.id])

\* What is on the book is the lane's order, and works for the engine.
BookOK(s) ==
    \A i \in OrderIds :
        /\ s.book[i] # None <=> s.lane.at \in {"Live", "Canceling"} /\ s.lane.id = i
        /\ s.book[i] # None <=> Working(s.life[i])

\* An order that is not over has something left to trade.
Sound(o) == o # None /\ ~IsTerminal(o) => o.remaining > 0

\* What is told of an order o.
Told(o, events) ==
    /\ o = None \/ Waiting(o) => events = <<>>
    /\ \A k \in DOMAIN events :
          /\ events[k].type = "placed" => k = 1
          /\ Ends(events[k]) => k = Len(events)
    /\ o # None =>
          /\ o.state = "Cancelled" <=>
                events # <<>> /\ events[Len(events)].type = "cancelled"
          /\ o.state = "Filled" <=>
                /\ events # <<>>
                /\ events[Len(events)].type = "fill" /\ events[Len(events)].complete

OrdersOK(s) == \A i \in OrderIds : Sound(s.life[i]) /\ Told(s.life[i], s.story[i])

\* What was filled and what is left on the book fit in what was announced.
FitsQuote(events, resting) ==
    events # <<>> /\ events[1].type = "placed" =>
        Filled(events) + (IF resting = None THEN 0 ELSE resting.remaining)
            <= events[1].size

FillsOK(s) == \A i \in OrderIds : FitsQuote(s.story[i], s.book[i])

Good(s) ==
    s \in StateSpace /\ LaneOK(s) /\ BookOK(s) /\ OrdersOK(s) /\ FillsOK(s)

IInv == Good(Now)

-------------------------------------------------------------------------------
(* Numbers, and the sum of the fills of a story *)

LEMMA LeastNumber ==
    ASSUME NEW T \in SUBSET Nat, T # {}
    PROVE  \E x \in T : \A y \in T : x <= y
<1> DEFINE R == OpToRel(<, Nat)
<1>1. IsWellFoundedOn(R, Nat)
  BY NatLessThanWellFounded
<1>2. \A x, y \in Nat : <<y, x>> \in R <=> y < x
  BY DEF OpToRel
<1> HIDE DEF R
<1>3. PICK x \in T : \A y \in T : ~(<<y, x>> \in R)
  BY <1>1, WFMin, Zenon
<1>4. ASSUME NEW y \in T PROVE x <= y
  <2>1. x \in Nat /\ y \in Nat /\ ~(y < x)
    BY <1>2, <1>3
  <2> QED
    BY <2>1
<1> QED
  BY <1>4

\* Induction: what holds of 0, and of n + 1 whenever of n, holds of every number.
LEMMA Induction ==
    ASSUME NEW S, 0 \in S, \A n \in Nat : n \in S => n + 1 \in S
    PROVE  Nat \subseteq S
<1> DEFINE T == Nat \ S
<1> SUFFICES ASSUME T # {} PROVE FALSE
  OBVIOUS
<1>1. PICK n \in T : \A y \in T : n <= y
  BY LeastNumber
<1>2. n # 0 /\ n - 1 \in Nat /\ n - 1 \in S /\ (n - 1) + 1 = n
  BY <1>1
<1> QED
  BY <1>1, <1>2

LEMMA MinIsLeast ==
    ASSUME NEW T \in SUBSET Nat, T # {}
    PROVE  Min(T) \in T
  BY LeastNumber DEF Min

FillOf(e) == IF e.type = "fill" THEN e.size ELSE 0

\* upto is the function by which Filled counts, up to the n-th event.
Counts(upto, events, n) ==
    upto = [k \in 0 .. n |-> IF k = 0 THEN 0 ELSE upto[k - 1] + FillOf(events[k])]

LEMMA CountExists ==
    ASSUME NEW events, NEW n \in Nat
    PROVE  \E upto : Counts(upto, events, n)
<1> DEFINE S == {m \in Nat : \E upto : Counts(upto, events, m)}
<1>1. 0 \in S
  <2>1. Counts([k \in 0 .. 0 |-> 0], events, 0)
    BY DEF Counts
  <2> QED
    BY <2>1
<1>2. ASSUME NEW m \in Nat, m \in S PROVE m + 1 \in S
  <2>1. PICK f : Counts(f, events, m)
    BY <1>2
  <2> DEFINE g == [k \in 0 .. m + 1 |->
                     IF k = m + 1 THEN f[m] + FillOf(events[m + 1]) ELSE f[k]]
  <2>2. \A k \in 0 .. m : f[k] = IF k = 0 THEN 0 ELSE f[k - 1] + FillOf(events[k])
    BY <2>1 DEF Counts
  <2>3. \A k \in 0 .. m : g[k] = f[k]
    OBVIOUS
  <2>4. g[m + 1] = f[m] + FillOf(events[m + 1])
    OBVIOUS
  <2>5. g = [k \in 0 .. m + 1 |-> g[k]]
    OBVIOUS
  <2> HIDE DEF g
  <2>6. ASSUME NEW k \in 0 .. m + 1
        PROVE  g[k] = IF k = 0 THEN 0 ELSE g[k - 1] + FillOf(events[k])
    <3>1. CASE k = m + 1
      <4>1. k - 1 = m /\ m \in 0 .. m
        BY <3>1
      <4> QED
        BY <2>3, <2>4, <3>1, <4>1
    <3>2. CASE k = 0
      BY <2>2, <2>3, <3>2
    <3>3. CASE k \in 1 .. m
      <4>1. k - 1 \in 0 .. m
        BY <3>3
      <4> QED
        BY <2>2, <2>3, <3>3, <4>1
    <3> QED
      BY <3>1, <3>2, <3>3
  <2>7. Counts(g, events, m + 1)
    BY <2>5, <2>6 DEF Counts
  <2> QED
    BY <2>7
<1> HIDE DEF S
<1>3. Nat \subseteq S
  BY <1>1, <1>2, Induction
<1> QED
  BY <1>3 DEF S

LEMMA FilledCounts ==
    ASSUME NEW events \in Seq(Events)
    PROVE  \E upto : Counts(upto, events, Len(events)) /\ Filled(events) = upto[Len(events)]
<1> DEFINE f == CHOOSE f : f = [k \in 0 .. Len(events) |->
                  IF k = 0 THEN 0
                  ELSE f[k - 1] + IF events[k].type = "fill" THEN events[k].size ELSE 0]
<1>1. Filled(events) = f[Len(events)]
  BY DEF Filled
<1>2. \E upto : Counts(upto, events, Len(events))
  BY CountExists, LenProperties
<1>3. Counts(f, events, Len(events))
  BY <1>2 DEF Counts, FillOf
<1> QED
  BY <1>1, <1>3

\* Two counts agree as far as the events do.
LEMMA CountsAgree ==
    ASSUME NEW e, NEW m \in Nat, NEW f, Counts(f, e, m),
           NEW d, NEW n \in Nat, NEW g, Counts(g, d, n),
           n <= m, \A k \in 1 .. n : e[k] = d[k]
    PROVE  f[n] = g[n]
<1> DEFINE S == {k \in Nat : k <= n => f[k] = g[k]}
<1>1. /\ \A k \in 0 .. m : f[k] = IF k = 0 THEN 0 ELSE f[k - 1] + FillOf(e[k])
      /\ \A k \in 0 .. n : g[k] = IF k = 0 THEN 0 ELSE g[k - 1] + FillOf(d[k])
  BY DEF Counts
<1>2. 0 \in S
  BY <1>1
<1>3. ASSUME NEW k \in Nat, k \in S PROVE k + 1 \in S
  <2> SUFFICES ASSUME k + 1 <= n PROVE f[k + 1] = g[k + 1]
    OBVIOUS
  <2>1. k + 1 \in 0 .. n /\ k + 1 \in 0 .. m /\ k + 1 # 0 /\ (k + 1) - 1 = k
    OBVIOUS
  <2>2. f[k] = g[k] /\ e[k + 1] = d[k + 1]
    BY <1>3
  <2> QED
    BY <1>1, <2>1, <2>2
<1> HIDE DEF S
<1>4. Nat \subseteq S
  BY <1>2, <1>3, Induction
<1> QED
  BY <1>4 DEF S

LEMMA FilledNat ==
    ASSUME NEW events \in Seq(Events) PROVE Filled(events) \in Nat
<1>1. PICK f : Counts(f, events, Len(events)) /\ Filled(events) = f[Len(events)]
  BY FilledCounts
<1>2. Len(events) \in Nat
  BY LenProperties
<1> DEFINE S == {k \in Nat : k <= Len(events) => f[k] \in Nat}
<1>3. \A k \in 0 .. Len(events) : f[k] = IF k = 0 THEN 0 ELSE f[k - 1] + FillOf(events[k])
  BY <1>1 DEF Counts
<1>4. \A k \in 1 .. Len(events) : FillOf(events[k]) \in Nat
  <2> SUFFICES ASSUME NEW k \in 1 .. Len(events) PROVE FillOf(events[k]) \in Nat
    OBVIOUS
  <2>1. events[k] \in Events
    BY ElementOfSeq
  <2> QED
    BY <2>1 DEF Events, FillOf
<1>5. 0 \in S
  BY <1>2, <1>3
<1>6. ASSUME NEW k \in Nat, k \in S PROVE k + 1 \in S
  <2> SUFFICES ASSUME k + 1 <= Len(events) PROVE f[k + 1] \in Nat
    OBVIOUS
  <2>1. k + 1 \in 1 .. Len(events) /\ k + 1 \in 0 .. Len(events) /\ (k + 1) - 1 = k
    BY <1>2
  <2> QED
    BY <1>2, <1>3, <1>4, <1>6, <2>1
<1> HIDE DEF S
<1>7. Nat \subseteq S
  BY <1>5, <1>6, Induction
<1> QED
  BY <1>1, <1>2, <1>7 DEF S

LEMMA FilledAppend ==
    ASSUME NEW events \in Seq(Events), NEW e \in Events
    PROVE  Filled(Append(events, e)) = Filled(events) + FillOf(e)
<1> DEFINE more == Append(events, e)
           n == Len(events)
<1>1. /\ n \in Nat /\ more \in Seq(Events) /\ Len(more) = n + 1 /\ more[n + 1] = e
      /\ \A k \in 1 .. n : more[k] = events[k]
  BY AppendProperties, LenProperties
<1>2. PICK f : Counts(f, events, n) /\ Filled(events) = f[n]
  BY FilledCounts
<1> HIDE DEF more, n
<1>3. PICK g : Counts(g, more, n + 1) /\ Filled(more) = g[n + 1]
  BY <1>1, FilledCounts
<1>4. g[n] = f[n]
  BY <1>1, <1>2, <1>3, CountsAgree
<1>5. g[n + 1] = g[(n + 1) - 1] + FillOf(more[n + 1])
  BY <1>1, <1>3 DEF Counts
<1>6. (n + 1) - 1 = n
  BY <1>1
<1> QED
  BY <1>1, <1>2, <1>3, <1>4, <1>5, <1>6 DEF more

LEMMA FilledNothing == Filled(<<>>) = 0
<1>1. <<>> \in Seq(Events) /\ Len(<<>>) = 0
  BY EmptySeq
<1>2. PICK f : Counts(f, <<>>, 0) /\ Filled(<<>>) = f[0]
  BY <1>1, FilledCounts
<1> QED
  BY <1>2 DEF Counts

-------------------------------------------------------------------------------
(* Fills and the quote *)

OnBookLeft(resting) == IF resting = None THEN 0 ELSE resting.remaining

\* What a fill takes, the book loses.
LEMMA FitsGoesOn ==
    ASSUME NEW events \in Seq(Events), NEW e \in Events, e.type # "placed",
           NEW a \in Resting \cup {None}, NEW b \in Resting \cup {None},
           FitsQuote(events, a), FillOf(e) + OnBookLeft(b) <= OnBookLeft(a)
    PROVE  FitsQuote(Append(events, e), b)
<1> DEFINE more == Append(events, e)
<1>1. Len(events) \in Nat /\ (events # <<>> => Len(events) > 0)
  BY LenProperties, EmptySeq
<1>2. /\ Len(more) = Len(events) + 1 /\ more[Len(events) + 1] = e
      /\ \A k \in 1 .. Len(events) : more[k] = events[k]
  BY AppendProperties
<1>3. Filled(more) = Filled(events) + FillOf(e)
  BY FilledAppend
<1> SUFFICES FitsQuote(more, b)
  OBVIOUS
<1> HIDE DEF more
<1>4. Filled(events) \in Nat /\ FillOf(e) \in Nat
  BY FilledNat DEF FillOf, Events
<1>5. OnBookLeft(a) \in Nat /\ OnBookLeft(b) \in Nat
  BY DEF OnBookLeft, Resting
<1>6. CASE events = <<>>
  BY <1>2, <1>6 DEF FitsQuote
<1>7. CASE events # <<>>
  <2>1. more[1] = events[1]
    BY <1>1, <1>2, <1>7
  <2>2. ASSUME events[1].type = "placed"
        PROVE  Filled(more) + OnBookLeft(b) <= more[1].size
    <3>1. Filled(events) + OnBookLeft(a) <= events[1].size
      BY <1>7, <2>2 DEF FitsQuote, OnBookLeft
    <3>2. events[1] \in Events
      BY <1>1, <1>7, ElementOfSeq
    <3>3. events[1].size \in Nat
      BY <2>2, <3>2, LaneAssumption DEF Events
    <3> QED
      BY <1>3, <1>4, <1>5, <2>1, <3>1, <3>3
  <2> QED
    BY <2>1, <2>2 DEF FitsQuote, OnBookLeft
<1> QED
  BY <1>6, <1>7

\* What goes off the book leaves room.
LEMMA FitsOffTheBook ==
    ASSUME NEW events \in Seq(Events), NEW a \in Resting \cup {None}, FitsQuote(events, a)
    PROVE  FitsQuote(events, None)
<1> SUFFICES ASSUME events # <<>>, events[1].type = "placed"
             PROVE  Filled(events) + 0 <= events[1].size
  BY DEF FitsQuote
<1>1. events[1] \in Events /\ events[1].size \in Nat
  <2>1. events[1] \in Events
    BY ElementOfSeq, LenProperties, EmptySeq
  <2> QED
    BY <2>1, LaneAssumption DEF Events
<1>2. OnBookLeft(a) \in Nat /\ Filled(events) \in Nat
  BY FilledNat DEF OnBookLeft, Resting
<1>3. Filled(events) + OnBookLeft(a) <= events[1].size
  BY DEF FitsQuote, OnBookLeft
<1> QED
  BY <1>1, <1>2, <1>3

\* An announcement is all on the book.
LEMMA FitsAtFirst ==
    ASSUME NEW size \in Sizes, NEW until \in Deadline
    PROVE  FitsQuote(Append(<<>>, PlacedEvent(size)), OnBook(size, until))
<1> DEFINE e == PlacedEvent(size)
           more == Append(<<>>, e)
<1>1. e \in Events /\ e.type = "placed" /\ e.size = size /\ size \in Nat
  BY LaneAssumption DEF PlacedEvent, Events
<1>2. Filled(more) = 0 /\ more[1] = e
  <2>1. <<>> \in Seq(Events) /\ Len(<<>>) = 0
    BY EmptySeq
  <2>2. Filled(more) = Filled(<<>>) + FillOf(e)
    BY <1>1, <2>1, FilledAppend
  <2>3. more[1] = e
    BY <1>1, <2>1, AppendProperties
  <2> QED
    BY <1>1, <2>2, <2>3, FilledNothing DEF FillOf
<1>3. OnBook(size, until).remaining = size /\ OnBook(size, until) # None
  BY <1>1, NoneAssumption DEF OnBook, Resting
<1> HIDE DEF e, more
<1>4. FitsQuote(more, OnBook(size, until))
  BY <1>1, <1>2, <1>3 DEF FitsQuote
<1> QED
  BY <1>4 DEF more, e

-------------------------------------------------------------------------------
(* Orders and what is told of them *)

LEMMA OrderTypes ==
    ASSUME NEW o \in Orders
    PROVE  /\ o # None
           /\ o.state \in States /\ o.cancel_requested \in BOOLEAN /\ o.remaining \in Nat
  BY NoneAssumption DEF Orders

LEMMA PlaceSuccess ==
    ASSUME NEW o \in Orders, Waiting(o), Sound(o)
    PROVE  LET p == AfterPlaceSuccess(o)
           IN  /\ p \in Orders /\ Sound(p) /\ Working(p)
               /\ p.state = IF o.cancel_requested THEN "CancelPending" ELSE "Open"
  BY OrderTypes DEF AfterPlaceSuccess, Waiting, Working, Sound, IsTerminal, TerminalReasons,
                    States, Orders

LEMMA CancelRequest ==
    ASSUME NEW o \in Orders, Sound(o)
    PROVE  LET p == AfterCancelRequest(o)
           IN  /\ p \in Orders /\ Sound(p)
               /\ Working(p) <=> Working(o)
               /\ Waiting(p) <=> Waiting(o)
               /\ ~IsTerminal(o) => p.cancel_requested
               /\ \A end \in TerminalReasons : p.state = end <=> o.state = end
  BY OrderTypes DEF AfterCancelRequest, Waiting, Working, Sound, IsTerminal,
                    TerminalReasons, States, Orders

LEMMA Cancellation ==
    ASSUME NEW o \in Orders, ~IsTerminal(o)
    PROVE  LET p == AfterTerminal(o, "Cancelled")
           IN  p \in Orders /\ Sound(p) /\ p.state = "Cancelled"
  BY OrderTypes DEF AfterTerminal, Sound, IsTerminal, TerminalReasons, States, Orders

LEMMA FillEvidence ==
    ASSUME NEW o \in Orders, Working(o), Sound(o), NEW n \in Nat
    PROVE  LET p == AfterFill(o, n)
           IN  /\ p \in Orders /\ Sound(p)
               /\ p.state = "Filled" <=> p.remaining = 0
               /\ p.remaining # 0 => Working(p)
<1> DEFINE left == IF n >= o.remaining THEN 0 ELSE o.remaining - n
<1>1. left \in Nat
  BY OrderTypes
<1>2. ~IsTerminal(o) /\ o.state \in {"Open", "CancelPending"}
  BY DEF Working, IsTerminal, TerminalReasons
<1>3. AfterFill(o, n) = [o EXCEPT !.remaining = left,
                                  !.state = IF left = 0 THEN "Filled" ELSE @]
  BY <1>2 DEF AfterFill
<1> HIDE DEF left
<1> DEFINE p == AfterFill(o, n)
<1>4. /\ p \in Orders /\ p # None /\ p.remaining = left
      /\ p.state = IF left = 0 THEN "Filled" ELSE o.state
  BY <1>1, <1>2, <1>3, NoneAssumption DEF TerminalReasons, States, Orders
<1> HIDE DEF p
<1>5. CASE left = 0
  BY <1>4, <1>5 DEF Sound, IsTerminal, TerminalReasons, p
<1>6. CASE left # 0
  BY <1>1, <1>2, <1>4, <1>6 DEF Working, Sound, p
<1> QED
  BY <1>5, <1>6

\* The story of an order that is not over goes on with what happened to it.
LEMMA StoryGoesOn ==
    ASSUME NEW o \in Orders, ~IsTerminal(o),
           NEW events \in Seq(Events), Told(o, events),
           NEW e \in Events, e.type = "placed" => events = <<>>,
           NEW p \in Orders, ~Waiting(p),
           p.state = "Cancelled" <=> e.type = "cancelled",
           p.state = "Filled" <=> e.type = "fill" /\ e.complete
    PROVE  /\ Append(events, e) \in Seq(Events)
           /\ Told(p, Append(events, e))
<1> DEFINE more == Append(events, e)
<1>1. Len(events) \in Nat /\ DOMAIN events = 1 .. Len(events)
  BY LenProperties
<1>2. /\ more \in Seq(Events)
      /\ Len(more) = Len(events) + 1 /\ DOMAIN more = 1 .. Len(events) + 1
      /\ more[Len(events) + 1] = e
      /\ \A k \in 1 .. Len(events) : more[k] = events[k]
  BY <1>1, AppendProperties, LenProperties
<1>3. o # None /\ p # None
  BY OrderTypes
<1>4. \A k \in DOMAIN events : ~Ends(events[k])
  <2> SUFFICES ASSUME NEW k \in DOMAIN events, Ends(events[k]) PROVE FALSE
    OBVIOUS
  <2>1. k = Len(events) /\ events # <<>>
    BY <1>1 DEF Told
  <2>2. o.state \notin {"Cancelled", "Filled"}
    BY DEF IsTerminal, TerminalReasons
  <2> QED
    BY <1>3, <2>1, <2>2 DEF Told, Ends
<1> HIDE DEF more
<1>5. more # <<>> /\ more[Len(more)] = e
  BY <1>1, <1>2
<1>6. ASSUME NEW k \in DOMAIN more
      PROVE  /\ more[k].type = "placed" => k = 1
             /\ Ends(more[k]) => k = Len(more)
  <2>1. CASE k = Len(events) + 1
    <3>1. e.type = "placed" => Len(events) = 0
      BY <1>1
    <3> QED
      BY <1>1, <1>2, <2>1, <3>1
  <2>2. CASE k \in 1 .. Len(events)
    BY <1>1, <1>2, <1>4, <2>2 DEF Told
  <2> QED
    BY <1>1, <1>2, <2>1, <2>2
<1>7. Told(p, more)
  BY <1>3, <1>5, <1>6 DEF Told
<1> QED
  BY <1>2, <1>7 DEF more

\* An order that is still not over, or over as before, has nothing to be told.
LEMMA StoryStands ==
    ASSUME NEW o \in Orders, NEW events \in Seq(Events), Told(o, events),
           NEW p \in Orders,
           Waiting(p) => Waiting(o),
           p.state = "Cancelled" <=> o.state = "Cancelled",
           p.state = "Filled" <=> o.state = "Filled"
    PROVE  Told(p, events)
  BY OrderTypes DEF Told

LEMMA NewStory ==
    ASSUME NEW o \in Orders, Waiting(o) PROVE Told(o, <<>>)
  BY OrderTypes DEF Told, Waiting

-------------------------------------------------------------------------------
(* The handlers *)

\* What is left of the invariant between the end of one order of the lane and the
\* beginning of the next: nothing works, nothing is on the book.
Vacant(s) ==
    /\ s \in StateSpace /\ OrdersOK(s) /\ FillsOK(s)
    /\ \A i \in OrderIds : s.book[i] = None /\ ~Working(s.life[i])

Ready(s, quote) ==
    /\ quote \in Quote
    /\ quote.id \in s.mapped /\ Waiting(s.life[quote.id])

\* Orders other than id keep their records and their stories.
LEMMA OneOrderChanges ==
    ASSUME NEW s \in StateSpace, OrdersOK(s), NEW id \in OrderIds,
           NEW t \in StateSpace,
           NEW o, t.life = [s.life EXCEPT ![id] = o],
           NEW events, t.story = [s.story EXCEPT ![id] = events],
           Sound(o), Told(o, events)
    PROVE  OrdersOK(t)
  BY DEF OrdersOK, StateSpace

LEMMA LaneTypes ==
    /\ Idle \in Lanes
    /\ \A quote \in Quote, due \in Nat, cancel \in Deadline :
          Placing(quote, due, cancel) \in Lanes
    /\ \A id \in OrderIds : Live(id) \in Lanes
    /\ \A id \in OrderIds, due \in Nat, next \in Quote \cup {None} :
          Canceling(id, due, next) \in Lanes
  BY DEF Lanes, Idle, Placing, Live, Canceling

\* The end of an order is told once, and leaves the rest of the lane alone.
LEMMA ConfirmCancelEnds ==
    ASSUME NEW s \in StateSpace, OrdersOK(s), FillsOK(s), NEW id \in OrderIds,
           s.life[id] # None, ~IsTerminal(s.life[id])
    PROVE  LET t == ConfirmCancel(s, id)
           IN  /\ t \in StateSpace /\ OrdersOK(t) /\ FillsOK(t)
               /\ t.lane = s.lane /\ t.book = s.book /\ t.mapped = s.mapped
               /\ ~Working(t.life[id])
               /\ \A i \in OrderIds : i # id => t.life[i] = s.life[i]
<1> DEFINE t == ConfirmCancel(s, id)
           o == AfterTerminal(s.life[id], "Cancelled")
           told == Append(s.story[id], CancelledEvent)
<1>1. /\ s.lane \in Lanes /\ s.book \in [OrderIds -> Resting \cup {None}]
      /\ s.life \in [OrderIds -> Orders \cup {None}] /\ s.mapped \subseteq OrderIds
      /\ s.story \in [OrderIds -> Seq(Events)]
  BY DEF StateSpace
<1>2. s.life[id] \in Orders /\ s.story[id] \in Seq(Events) /\ Told(s.life[id], s.story[id])
  BY <1>1 DEF OrdersOK
<1>3. o \in Orders /\ Sound(o) /\ o.state = "Cancelled"
  BY <1>2, Cancellation
<1>4. CancelledEvent \in Events /\ CancelledEvent.type = "cancelled"
  BY DEF CancelledEvent, Events
<1>5. told \in Seq(Events) /\ Told(o, told)
  BY <1>2, <1>3, <1>4, StoryGoesOn DEF Waiting
<1>6. t = [s EXCEPT !.life[id] = o, !.story[id] = told]
  BY DEF ConfirmCancel
<1>7. FitsQuote(told, s.book[id])
  <2>1. FitsQuote(s.story[id], s.book[id]) /\ s.book[id] \in Resting \cup {None}
    BY <1>1 DEF FillsOK
  <2>2. FillOf(CancelledEvent) + OnBookLeft(s.book[id]) <= OnBookLeft(s.book[id])
    BY <1>4, <2>1 DEF FillOf, OnBookLeft, Resting
  <2> QED
    BY <1>2, <1>4, <2>1, <2>2, FitsGoesOn
<1> HIDE DEF o, told, t
<1>8. /\ t.lane = s.lane /\ t.book = s.book /\ t.mapped = s.mapped
      /\ t.life = [s.life EXCEPT ![id] = o]
      /\ t.story = [s.story EXCEPT ![id] = told]
  BY <1>6 DEF StateSpace
<1>9. t \in StateSpace
  BY <1>1, <1>3, <1>5, <1>6 DEF StateSpace
<1>10. OrdersOK(t)
  BY <1>3, <1>5, <1>8, <1>9, OneOrderChanges
<1>11. FillsOK(t)
  BY <1>1, <1>8, <1>7 DEF FillsOK
<1> QED
  BY <1>1, <1>3, <1>8, <1>9, <1>10, <1>11 DEF Working, t

LEMMA AcknowledgeIsGood ==
    ASSUME NEW s, Vacant(s), NEW quote, Ready(s, quote), NEW c \in Nat
    PROVE  /\ Good(Acknowledge(s, quote, c))
           /\ Acknowledge(s, quote, c).lane = Idle
                 => Good([Acknowledge(s, quote, c) EXCEPT !.mapped = @ \ {quote.id}])
<1> DEFINE id == quote.id
           o  == AfterPlaceSuccess(s.life[id])
           t  == [s EXCEPT !.life[id] = o]
<1>1. id \in OrderIds /\ quote.size \in Sizes /\ quote.size \in Nat
  BY LaneAssumption DEF Ready, Quote
<1>2. /\ s.lane \in Lanes /\ s.book \in [OrderIds -> Resting \cup {None}]
      /\ s.life \in [OrderIds -> Orders \cup {None}] /\ s.mapped \subseteq OrderIds
      /\ s.story \in [OrderIds -> Seq(Events)]
  BY DEF Vacant, StateSpace
<1>3. s.life[id] \in Orders /\ Waiting(s.life[id]) /\ Sound(s.life[id])
  BY <1>1, <1>2 DEF Ready, Waiting, Vacant, OrdersOK
<1>4. s.story[id] = <<>>
  BY <1>1, <1>3 DEF Vacant, OrdersOK, Told
<1>5. o \in Orders /\ Sound(o) /\ Working(o) /\ o.state \in {"Open", "CancelPending"}
  BY <1>3, PlaceSuccess
<1> HIDE DEF o
<1>6. CASE o.state = "Open"
  <2> DEFINE u == [t EXCEPT !.book[id] = OnBook(quote.size, None),
                            !.mapped = @ \cup {id},
                            !.story[id] = Append(@, PlacedEvent(quote.size)),
                            !.lane = Live(id)]
  <2>1. Acknowledge(s, quote, c) = u
    BY <1>6 DEF Acknowledge, o
  <2>2. /\ u.lane = Live(id)
        /\ u.book = [s.book EXCEPT ![id] = OnBook(quote.size, None)]
        /\ u.life = [s.life EXCEPT ![id] = o]
        /\ u.mapped = s.mapped \cup {id}
        /\ u.story = [s.story EXCEPT ![id] = Append(@, PlacedEvent(quote.size))]
    BY DEF Vacant, StateSpace
  <2>3. PlacedEvent(quote.size) \in Events /\ OnBook(quote.size, None) \in Resting
    BY <1>1 DEF PlacedEvent, Events, OnBook, Resting, Deadline
  <2>4. /\ Append(s.story[id], PlacedEvent(quote.size)) \in Seq(Events)
        /\ Told(o, Append(s.story[id], PlacedEvent(quote.size)))
    <3>1. /\ s.story[id] \in Seq(Events) /\ Told(s.life[id], s.story[id])
          /\ ~IsTerminal(s.life[id]) /\ ~Waiting(o)
      BY <1>1, <1>2, <1>3, <1>6
         DEF Vacant, OrdersOK, Waiting, IsTerminal, TerminalReasons
    <3> QED
      BY <1>3, <1>4, <1>5, <1>6, <2>3, <3>1, StoryGoesOn DEF PlacedEvent
  <2>5. u \in StateSpace
    BY <1>1, <1>2, <1>5, <2>2, <2>3, <2>4, LaneTypes DEF StateSpace, Vacant
  <2> HIDE DEF u
  <2>6. OrdersOK(u)
    <3>1. s \in StateSpace /\ OrdersOK(s)
      BY DEF Vacant
    <3> QED
      BY <1>1, <1>5, <2>2, <2>4, <2>5, <3>1, OneOrderChanges
  <2>7. LaneOK(u)
    BY <1>1, <2>2 DEF LaneOK, Live
  <2>8. BookOK(u)
    BY <1>1, <1>2, <1>5, <2>2, <2>3, NoneAssumption DEF BookOK, Live, Vacant
  <2>9. u.lane # Idle
    BY <2>2 DEF Live, Idle
  <2>10. FillsOK(u)
    <3>1. FitsQuote(Append(s.story[id], PlacedEvent(quote.size)), OnBook(quote.size, None))
      BY <1>1, <1>4, FitsAtFirst DEF Deadline
    <3> QED
      BY <1>1, <1>2, <2>2, <3>1 DEF FillsOK, Vacant
  <2> QED
    BY <2>1, <2>5, <2>6, <2>7, <2>8, <2>9, <2>10 DEF Good
<1>7. CASE o.state = "CancelPending" /\ c > 0
  <2> DEFINE u == [t EXCEPT !.book[id] = OnBook(quote.size, c),
                            !.mapped = @ \cup {id},
                            !.lane = Canceling(id, c, None)]
  <2>1. Acknowledge(s, quote, c) = u
    BY <1>7 DEF Acknowledge, o
  <2>2. /\ u.lane = Canceling(id, c, None)
        /\ u.book = [s.book EXCEPT ![id] = OnBook(quote.size, c)]
        /\ u.life = [s.life EXCEPT ![id] = o]
        /\ u.mapped = s.mapped \cup {id}
        /\ u.story = s.story
    BY DEF Vacant, StateSpace
  <2>3. OnBook(quote.size, c) \in Resting
    BY <1>1 DEF OnBook, Resting, Deadline
  <2>4. Told(o, s.story[id])
    BY <1>1, <1>2, <1>3, <1>5, <1>7, StoryStands DEF Vacant, OrdersOK, Waiting
  <2>5. u \in StateSpace
    BY <1>1, <1>2, <1>5, <2>2, <2>3, LaneTypes DEF StateSpace, Vacant
  <2> HIDE DEF t, u
  <2>6. OrdersOK(u)
    <3>1. \A i \in OrderIds \ {id} : u.life[i] = s.life[i]
      BY <1>1, <1>2, <2>2
    <3>2. u.life[id] = o
      BY <1>1, <1>2, <2>2
    <3> QED
      BY <1>1, <1>5, <2>2, <2>4, <3>1, <3>2 DEF OrdersOK, Vacant
  <2>7. LaneOK(u)
    <3>1. u.lane.at = "Canceling" /\ u.lane.id = id /\ u.lane.next = None
      BY <2>2 DEF Canceling
    <3> QED
      BY <2>2, <3>1 DEF LaneOK
  <2>8. BookOK(u)
    BY <1>1, <1>2, <1>5, <2>2, <2>3, NoneAssumption DEF BookOK, Canceling, Vacant
  <2>9. u.lane # Idle
    BY <2>2 DEF Canceling, Idle
  <2>10. FillsOK(u)
    <3>1. FitsQuote(s.story[id], OnBook(quote.size, c))
      BY <1>4 DEF FitsQuote
    <3> QED
      BY <1>1, <1>2, <2>2, <3>1 DEF FillsOK, Vacant
  <2> QED
    BY <2>1, <2>5, <2>6, <2>7, <2>8, <2>9, <2>10 DEF Good
<1>8. CASE o.state = "CancelPending" /\ c = 0
  <2> DEFINE w == ConfirmCancel(t, id)
             u == [w EXCEPT !.lane = Idle]
  <2>1. Acknowledge(s, quote, c) = u
    BY <1>8 DEF Acknowledge, o
  <2>2. /\ t \in StateSpace /\ t.book = s.book /\ t.story = s.story /\ t.mapped = s.mapped
        /\ t.life = [s.life EXCEPT ![id] = o]
    BY <1>1, <1>2, <1>5 DEF StateSpace, Vacant
  <2>3. Told(o, s.story[id])
    BY <1>1, <1>2, <1>3, <1>5, <1>8, StoryStands DEF Vacant, OrdersOK, Waiting
  <2> HIDE DEF t
  <2>4. OrdersOK(t)
    <3>1. t.story = [s.story EXCEPT ![id] = s.story[id]]
      BY <1>2, <2>2
    <3> QED
      BY <1>1, <1>5, <2>2, <2>3, <3>1, OneOrderChanges, <1>2 DEF Vacant
  <2>5. t.life[id] # None /\ ~IsTerminal(t.life[id])
    BY <1>1, <1>2, <1>5, <1>8, <2>2, OrderTypes DEF IsTerminal, TerminalReasons
  <2>6. /\ w \in StateSpace /\ OrdersOK(w) /\ FillsOK(w)
        /\ w.book = s.book /\ w.mapped = s.mapped
        /\ ~Working(w.life[id])
        /\ \A i \in OrderIds : i # id => w.life[i] = t.life[i]
    <3>1. FillsOK(t)
      BY <2>2 DEF FillsOK, Vacant
    <3> QED
      BY <1>1, <2>2, <2>4, <2>5, <3>1, ConfirmCancelEnds
  <2> HIDE DEF w
  <2>7. ASSUME NEW m \in SUBSET OrderIds
        PROVE  Good([[w EXCEPT !.lane = Idle] EXCEPT !.mapped = m])
    <3> DEFINE v == [[w EXCEPT !.lane = Idle] EXCEPT !.mapped = m]
    <3>1. /\ v \in StateSpace /\ v.lane = Idle /\ v.book = w.book /\ v.life = w.life
          /\ v.story = w.story
      BY <2>6, LaneTypes DEF StateSpace
    <3> HIDE DEF v
    <3>2. OrdersOK(v) /\ FillsOK(v)
      BY <2>6, <3>1 DEF OrdersOK, FillsOK
    <3>3. LaneOK(v)
      BY <3>1 DEF LaneOK, Idle
    <3>4. BookOK(v)
      BY <1>1, <1>2, <2>2, <2>6, <3>1 DEF BookOK, Vacant, Idle
    <3> QED
      BY <3>1, <3>2, <3>3, <3>4 DEF Good, v
  <2>8. Good(u)
    <3>1. u = [u EXCEPT !.mapped = w.mapped] /\ w.mapped \in SUBSET OrderIds
      BY <2>6 DEF StateSpace
    <3> QED
      BY <2>7, <3>1
  <2>9. Good([u EXCEPT !.mapped = @ \ {id}])
    <3>1. u.mapped \ {id} \in SUBSET OrderIds
      BY <2>6 DEF StateSpace
    <3> QED
      BY <2>7, <3>1
  <2> QED
    BY <2>1, <2>8, <2>9
<1> QED
  BY <1>5, <1>6, <1>7, <1>8

LEMMA ReplaceIsGood ==
    ASSUME NEW s, Vacant(s), NEW next, next = None \/ Ready(s, next),
           NEW p \in Nat, NEW c \in Nat
    PROVE  Good(Replace(s, next, p, c))
<1>1. CASE next = None
  <2> DEFINE t == [s EXCEPT !.lane = Idle]
  <2>1. /\ t \in StateSpace /\ t.lane = Idle /\ t.book = s.book /\ t.life = s.life
        /\ t.story = s.story
    BY LaneTypes DEF Vacant, StateSpace
  <2>2. Replace(s, next, p, c) = t
    BY <1>1 DEF Replace
  <2> HIDE DEF t
  <2> QED
    BY <2>1, <2>2 DEF Good, LaneOK, BookOK, OrdersOK, FillsOK, Vacant, Idle
<1>2. CASE next # None /\ p = 0
  BY <1>2, AcknowledgeIsGood DEF Replace
<1>3. CASE next # None /\ p # 0
  <2> DEFINE t == [s EXCEPT !.lane = Placing(next, p, None)]
  <2>1. next \in Quote /\ Placing(next, p, None) \in Lanes
    BY <1>3, LaneTypes DEF Ready, Deadline
  <2>2. /\ t \in StateSpace /\ t.lane = Placing(next, p, None) /\ t.book = s.book
        /\ t.life = s.life /\ t.mapped = s.mapped /\ t.story = s.story
    BY <2>1 DEF Vacant, StateSpace
  <2>3. Replace(s, next, p, c) = t
    BY <1>3 DEF Replace
  <2> HIDE DEF t
  <2>4. /\ t.lane.at = "Placing" /\ t.lane.quote = next /\ t.lane.cancel = None
    BY <2>2 DEF Placing
  <2>5. LaneOK(t)
    BY <1>3, <2>2, <2>4 DEF LaneOK, Ready
  <2>6. BookOK(t) /\ OrdersOK(t) /\ FillsOK(t)
    BY <2>2, <2>4 DEF BookOK, OrdersOK, FillsOK, Vacant
  <2> QED
    BY <2>2, <2>3, <2>5, <2>6 DEF Good
<1> QED
  BY <1>1, <1>2, <1>3

\* When the order of the lane is over and off the book, nothing is in the way of the
\* quote that waits for it.
LEMMA OffTheBook ==
    ASSUME NEW s, Good(s), s.lane.at \in {"Live", "Canceling"},
           NEW t \in StateSpace, OrdersOK(t), FillsOK(t),
           ~Working(t.life[s.lane.id]),
           \A i \in OrderIds : i # s.lane.id => t.life[i] = s.life[i],
           t.book = [s.book EXCEPT ![s.lane.id] = None],
           t.mapped = s.mapped \ {s.lane.id}
    PROVE  /\ Vacant(t)
           /\ s.lane.at = "Canceling" /\ s.lane.next # None => Ready(t, s.lane.next)
<1> DEFINE id == s.lane.id
<1>1. /\ id \in OrderIds /\ s.book \in [OrderIds -> Resting \cup {None}]
      /\ s.lane.at = "Canceling" => s.lane.next \in Quote \cup {None}
  BY DEF Good, StateSpace, Lanes, Idle
<1>2. \A i \in OrderIds : t.book[i] = None /\ ~Working(t.life[i])
  <2> SUFFICES ASSUME NEW i \in OrderIds PROVE t.book[i] = None /\ ~Working(t.life[i])
    OBVIOUS
  <2>1. CASE i = id
    BY <1>1, <2>1
  <2>2. CASE i # id
    BY <1>1, <2>2 DEF Good, BookOK
  <2> QED
    BY <2>1, <2>2
<1>3. ASSUME s.lane.at = "Canceling", s.lane.next # None
      PROVE  Ready(t, s.lane.next)
  <2>1. s.lane.next \in Quote /\ s.lane.next.id \in OrderIds
    BY <1>1, <1>3 DEF Quote
  <2>2. s.lane.next.id \in s.mapped /\ Waiting(s.life[s.lane.next.id])
    BY <1>3 DEF Good, LaneOK
  <2>3. Working(s.life[id])
    BY <1>1 DEF Good, BookOK
  <2>4. s.lane.next.id # id
    BY <2>2, <2>3 DEF Waiting, Working
  <2> QED
    BY <2>1, <2>2, <2>4 DEF Ready
<1> QED
  BY <1>2, <1>3 DEF Vacant

LEMMA AdvanceTimeIsGood ==
    ASSUME NEW s, Good(s), NEW p \in Nat, NEW c \in Nat
    PROVE  Good(AdvanceTime(s, p, c))
<1>1. CASE s.lane.at = "Placing" /\ s.lane.due = 0
  <2> DEFINE quote == s.lane.quote
             k == IF s.lane.cancel = None THEN c ELSE s.lane.cancel
             t == Acknowledge(s, quote, k)
  <2>1. quote \in Quote /\ s.lane.cancel \in Deadline
    BY <1>1 DEF Good, StateSpace, Lanes, Idle
  <2>2. k \in Nat
    BY <2>1 DEF Deadline
  <2>3. Ready(s, quote)
    BY <1>1, <2>1 DEF Ready, Good, LaneOK
  <2>4. Vacant(s)
    BY <1>1 DEF Vacant, Good, BookOK
  <2> HIDE DEF k
  <2>5. /\ Good(t)
        /\ t.lane = Idle => Good([t EXCEPT !.mapped = @ \ {quote.id}])
    BY <2>2, <2>3, <2>4, AcknowledgeIsGood
  <2>6. AdvanceTime(s, p, c) =
          IF t.lane = Idle THEN [t EXCEPT !.mapped = @ \ {quote.id}] ELSE t
    BY <1>1 DEF AdvanceTime, k
  <2> HIDE DEF t, quote
  <2> QED
    BY <2>5, <2>6
<1>2. CASE s.lane.at = "Canceling" /\ s.lane.due = 0
  <2> DEFINE id == s.lane.id
             w == ConfirmCancel(s, id)
             t == [w EXCEPT !.book[id] = None, !.mapped = @ \ {id}]
  <2>1. AdvanceTime(s, p, c) = Replace(t, s.lane.next, p, c)
    BY <1>2 DEF AdvanceTime
  <2>2. s \in StateSpace /\ OrdersOK(s) /\ FillsOK(s) /\ id \in OrderIds
    BY <1>2 DEF Good, StateSpace, Lanes, Idle
  <2>3. s.life[id] # None /\ ~IsTerminal(s.life[id])
    BY <1>2, <2>2 DEF Good, BookOK, Working, IsTerminal, TerminalReasons
  <2>4. /\ w \in StateSpace /\ OrdersOK(w) /\ FillsOK(w)
        /\ w.lane = s.lane /\ w.book = s.book /\ w.mapped = s.mapped
        /\ ~Working(w.life[id])
        /\ \A i \in OrderIds : i # id => w.life[i] = s.life[i]
    BY <2>2, <2>3, ConfirmCancelEnds
  <2> HIDE DEF w
  <2>5. /\ t \in StateSpace /\ t.life = w.life /\ t.story = w.story
        /\ t.book = [s.book EXCEPT ![id] = None] /\ t.mapped = s.mapped \ {id}
    BY <2>4 DEF StateSpace
  <2> HIDE DEF t
  <2>6. OrdersOK(t)
    BY <2>4, <2>5 DEF OrdersOK
  <2>7. FillsOK(t)
    <3> SUFFICES ASSUME NEW i \in OrderIds PROVE FitsQuote(t.story[i], t.book[i])
      BY DEF FillsOK
    <3>1. /\ FitsQuote(w.story[i], w.book[i]) /\ w.story[i] \in Seq(Events)
          /\ w.book[i] \in Resting \cup {None}
      BY <2>4 DEF FillsOK, StateSpace
    <3>2. t.book[i] = w.book[i] \/ t.book[i] = None
      BY <2>2, <2>4, <2>5 DEF StateSpace
    <3> QED
      BY <2>5, <3>1, <3>2, FitsOffTheBook
  <2>8. /\ Vacant(t)
        /\ s.lane.next # None => Ready(t, s.lane.next)
    BY <1>2, <2>4, <2>5, <2>6, <2>7, OffTheBook
  <2> QED
    BY <2>1, <2>8, ReplaceIsGood
<1>3. CASE ~(s.lane.at = "Placing" /\ s.lane.due = 0)
           /\ ~(s.lane.at = "Canceling" /\ s.lane.due = 0)
  BY <1>3 DEF AdvanceTime
<1> QED
  BY <1>1, <1>2, <1>3

LEMMA MinOfTwo ==
    ASSUME NEW a \in Int, NEW b \in Int
    PROVE  Min({a, b}) = IF a <= b THEN a ELSE b
<1> DEFINE m == IF a <= b THEN a ELSE b
<1>1. m \in {a, b} /\ \A y \in {a, b} : m <= y
  OBVIOUS
<1>2. \A x \in {a, b} : (\A y \in {a, b} : x <= y) => x = m
  OBVIOUS
<1> HIDE DEF m
<1>3. Min({a, b}) = m
  BY <1>1, <1>2 DEF Min
<1> QED
  BY <1>3 DEF m

LEMMA MaxOfTwo ==
    ASSUME NEW a \in Int, NEW b \in Int
    PROVE  Max({a, b}) = IF a >= b THEN a ELSE b
<1> DEFINE m == IF a >= b THEN a ELSE b
<1>1. m \in {a, b} /\ \A y \in {a, b} : m >= y
  OBVIOUS
<1>2. \A x \in {a, b} : (\A y \in {a, b} : x >= y) => x = m
  OBVIOUS
<1> HIDE DEF m
<1>3. Max({a, b}) = m
  BY <1>1, <1>2 DEF Max
<1> QED
  BY <1>3 DEF m

LEMMA FillOneIsGood ==
    ASSUME NEW s, Good(s), NEW i \in Fillable(s),
           NEW n \in Nat, NEW p \in Nat, NEW c \in Nat
    PROVE  Good(FillOne(s, i, n, p, c))
<1> DEFINE before  == s.book[i].remaining
           size    == Min({before, n})
           o       == AfterFill(s.life[i], size)
           applied == Applied(before, o.remaining, size)
           event   == FillEvent(applied, o.remaining)
           told    == Append(s.story[i], event)
           t       == [s EXCEPT !.life[i] = o]
           u       == [t EXCEPT !.story[i] = told]
<1>1. /\ s \in StateSpace /\ OrdersOK(s) /\ FillsOK(s)
      /\ s.lane \in Lanes /\ s.book \in [OrderIds -> Resting \cup {None}]
      /\ s.life \in [OrderIds -> Orders \cup {None}] /\ s.mapped \subseteq OrderIds
      /\ s.story \in [OrderIds -> Seq(Events)]
  BY DEF Good, StateSpace
<1>2. i \in OrderIds /\ s.book[i] # None
  BY DEF Fillable
<1>3. /\ s.lane.at \in {"Live", "Canceling"} /\ s.lane.id = i /\ i \in s.mapped
      /\ Working(s.life[i])
  BY <1>2 DEF Good, BookOK, LaneOK
<1>4. s.book[i] \in Resting /\ before \in Nat
  BY <1>1, <1>2 DEF Resting
<1>5. /\ s.life[i] \in Orders /\ Sound(s.life[i]) /\ Told(s.life[i], s.story[i])
      /\ ~IsTerminal(s.life[i]) /\ ~Waiting(s.life[i]) /\ s.story[i] \in Seq(Events)
  BY <1>1, <1>2, <1>3 DEF OrdersOK, Working, Waiting, IsTerminal, TerminalReasons
<1>6. size \in Nat /\ size <= before
  BY <1>4, MinOfTwo
<1> HIDE DEF size
<1>7. /\ o \in Orders /\ Sound(o)
      /\ o.state = "Filled" <=> o.remaining = 0
      /\ o.remaining # 0 => Working(o)
  BY <1>3, <1>5, <1>6, FillEvidence
<1>8. o.remaining \in Nat /\ o # None /\ ~Waiting(o) /\ o.state # "Cancelled"
  BY <1>7, OrderTypes DEF Working, Waiting
<1> HIDE DEF o
<1>9. /\ applied \in Nat
      /\ applied = 0 <=> before <= o.remaining
      /\ applied > 0 => applied + o.remaining = before
  BY <1>4, <1>8, MaxOfTwo DEF Applied
<1> HIDE DEF applied, before
<1>10. /\ event \in Events /\ event.type = "fill" /\ FillOf(event) = applied
       /\ event.complete <=> o.state = "Filled"
  BY <1>7, <1>8, <1>9 DEF FillEvent, Events, FillOf
<1> HIDE DEF event
<1>11. told \in Seq(Events) /\ Told(o, told)
  BY <1>5, <1>7, <1>8, <1>10, StoryGoesOn
<1>12. ASSUME applied > 0, NEW b \in Resting \cup {None}, OnBookLeft(b) = o.remaining
       PROVE  FitsQuote(told, b)
  <2>1. FitsQuote(s.story[i], s.book[i])
    BY <1>1, <1>2 DEF FillsOK
  <2>2. OnBookLeft(s.book[i]) = before
    BY <1>2 DEF OnBookLeft, before
  <2> QED
    BY <1>4, <1>5, <1>8, <1>9, <1>10, <1>12, <2>1, <2>2, FitsGoesOn
<1> HIDE DEF told
<1>13. /\ t \in StateSpace /\ t.lane = s.lane /\ t.book = s.book /\ t.mapped = s.mapped
       /\ t.life = [s.life EXCEPT ![i] = o] /\ t.story = s.story
  BY <1>1, <1>2, <1>7 DEF StateSpace
<1>14. /\ u \in StateSpace /\ u.lane = s.lane /\ u.book = s.book /\ u.mapped = s.mapped
       /\ u.life = [s.life EXCEPT ![i] = o] /\ u.story = [s.story EXCEPT ![i] = told]
  BY <1>1, <1>2, <1>7, <1>11 DEF StateSpace
<1>15. FillOne(s, i, n, p, c) =
         CASE size = 0 -> s
           [] size > 0 /\ applied = 0 -> t
           [] size > 0 /\ applied > 0 /\ o.state = "Filled" ->
                LET v == [u EXCEPT !.book[i] = None, !.mapped = @ \ {i}]
                IN  CASE i \in s.mapped /\ s.lane.at = "Live" ->
                           [v EXCEPT !.lane = Idle]
                      [] i \in s.mapped /\ s.lane.at = "Canceling" ->
                           Replace(v, s.lane.next, p, c)
                      [] OTHER -> v
           [] OTHER ->
                [IF IsTerminal(o) THEN t ELSE u EXCEPT
                   !.book[i].remaining = o.remaining]
  BY DEF FillOne, size, applied, o, before, told, event
<1> HIDE DEF t, u
<1>16. OrdersOK(u)
  BY <1>1, <1>2, <1>7, <1>11, <1>14, OneOrderChanges
<1>17. \A j \in OrderIds : j # i => t.life[j] = s.life[j] /\ u.life[j] = s.life[j]
  BY <1>1, <1>13, <1>14
<1>18. t.life[i] = o /\ u.life[i] = o
  BY <1>1, <1>2, <1>13, <1>14
<1>19. CASE size = 0
  BY <1>15, <1>19
<1>20. CASE size > 0 /\ applied = 0
  <2>1. FillOne(s, i, n, p, c) = t
    BY <1>15, <1>20
  <2>2. o.remaining # 0 /\ Working(o)
    BY <1>4, <1>6, <1>7, <1>8, <1>9, <1>20
  <2>3. Told(o, s.story[i])
    <3>1. /\ o.state \notin {"Cancelled", "Filled"}
          /\ s.life[i].state \notin {"Cancelled", "Filled"}
      BY <1>3, <2>2 DEF Working
    <3> QED
      BY <1>5, <1>7, <1>8, <3>1, StoryStands
  <2>4. OrdersOK(t)
    BY <1>1, <1>7, <1>13, <1>17, <1>18, <2>3 DEF OrdersOK
  <2>5. BookOK(t)
    BY <1>2, <1>3, <1>13, <1>17, <1>18, <2>2 DEF BookOK, Good
  <2>6. LaneOK(t)
    <3>1. \A j \in OrderIds : Waiting(s.life[j]) => t.life[j] = s.life[j]
      BY <1>5, <1>17
    <3>2. /\ s.lane.at = "Placing" => s.lane.quote.id \in OrderIds
          /\ s.lane.at = "Canceling" /\ s.lane.next # None => s.lane.next.id \in OrderIds
      BY <1>1 DEF Lanes, Quote, Idle
    <3> QED
      BY <1>3, <1>13, <3>1, <3>2 DEF LaneOK, Good
  <2>7. FillsOK(t)
    BY <1>1, <1>13 DEF FillsOK
  <2> QED
    BY <1>13, <2>1, <2>4, <2>5, <2>6, <2>7 DEF Good
<1>21. CASE size > 0 /\ applied > 0 /\ o.state = "Filled"
  <2> DEFINE v == [u EXCEPT !.book[i] = None, !.mapped = @ \ {i}]
  <2>1. /\ v \in StateSpace /\ v.life = u.life /\ v.story = u.story
        /\ v.book = [s.book EXCEPT ![i] = None] /\ v.mapped = s.mapped \ {i}
    BY <1>14 DEF StateSpace
  <2>2. FillOne(s, i, n, p, c) =
          IF s.lane.at = "Live" THEN [v EXCEPT !.lane = Idle]
          ELSE Replace(v, s.lane.next, p, c)
    BY <1>3, <1>9, <1>15, <1>21
  <2> HIDE DEF v
  <2>3. OrdersOK(v)
    BY <1>16, <2>1 DEF OrdersOK
  <2>4. /\ Vacant(v)
        /\ s.lane.at = "Canceling" /\ s.lane.next # None => Ready(v, s.lane.next)
    <3>1. ~Working(v.life[s.lane.id])
      BY <1>3, <1>18, <1>21, <2>1 DEF Working
    <3>2. FitsQuote(told, None)
      BY <1>7, <1>21, <1>12 DEF OnBookLeft
    <3>3. FillsOK(v)
      BY <1>1, <1>2, <1>14, <2>1, <3>2 DEF FillsOK
    <3> QED
      BY <1>3, <1>17, <2>1, <2>3, <3>1, <3>3, OffTheBook
  <2>5. Replace(v, None, p, c) = [v EXCEPT !.lane = Idle]
    BY DEF Replace
  <2> QED
    BY <1>3, <2>2, <2>4, <2>5, ReplaceIsGood
<1>22. CASE size > 0 /\ applied > 0 /\ o.state # "Filled"
  <2> DEFINE w == [u EXCEPT !.book[i].remaining = o.remaining]
  <2>1. Working(o) /\ ~IsTerminal(o)
    BY <1>7, <1>22 DEF Working, IsTerminal, TerminalReasons
  <2>2. FillOne(s, i, n, p, c) = w
    BY <1>9, <1>15, <1>22, <2>1
  <2>3. [s.book[i] EXCEPT !.remaining = o.remaining] \in Resting
    BY <1>4, <1>8 DEF Resting
  <2>4. /\ w \in StateSpace /\ w.lane = s.lane /\ w.mapped = s.mapped /\ w.life = u.life
        /\ w.story = u.story
        /\ w.book = [s.book EXCEPT ![i] = [s.book[i] EXCEPT !.remaining = o.remaining]]
    BY <1>1, <1>2, <1>14, <2>3 DEF StateSpace
  <2> HIDE DEF w
  <2>5. OrdersOK(w)
    BY <1>16, <2>4 DEF OrdersOK
  <2>6. \A j \in OrderIds : w.book[j] # None <=> s.book[j] # None
    BY <1>1, <1>2, <2>3, <2>4, NoneAssumption
  <2>7. BookOK(w)
    BY <1>2, <1>3, <1>17, <1>18, <2>1, <2>4, <2>6 DEF BookOK, Good
  <2>8. LaneOK(w)
    <3>1. \A j \in OrderIds : Waiting(s.life[j]) => w.life[j] = s.life[j]
      BY <1>5, <1>17, <2>4
    <3>2. /\ s.lane.at = "Placing" => s.lane.quote.id \in OrderIds
          /\ s.lane.at = "Canceling" /\ s.lane.next # None => s.lane.next.id \in OrderIds
      BY <1>1 DEF Lanes, Quote, Idle
    <3> QED
      BY <1>3, <2>4, <3>1, <3>2 DEF LaneOK, Good
  <2>9. FillsOK(w)
    <3> DEFINE b == [s.book[i] EXCEPT !.remaining = o.remaining]
    <3>1. OnBookLeft(b) = o.remaining
      BY <1>4, <2>3, NoneAssumption DEF OnBookLeft, Resting
    <3>2. FitsQuote(told, b)
      BY <1>22, <1>12, <2>3, <3>1
    <3> QED
      BY <1>1, <1>2, <1>14, <2>4, <3>2 DEF FillsOK
  <2> QED
    BY <2>2, <2>4, <2>5, <2>7, <2>8, <2>9 DEF Good
<1> QED
  BY <1>6, <1>9, <1>19, <1>20, <1>21, <1>22

-------------------------------------------------------------------------------
(* The steps *)

LEMMA HeldOrders ==
    ASSUME NEW l \in Lanes
    PROVE  /\ l.at = "Placing" => /\ l.quote \in Quote /\ l.quote.id \in OrderIds
                                  /\ l.due \in Nat /\ l.cancel \in Deadline
           /\ l.at \in {"Live", "Canceling"} => l.id \in OrderIds
           /\ l.at = "Canceling" => l.due \in Nat /\ l.next \in Quote \cup {None}
           /\ l.at = "Canceling" /\ l.next # None =>
                 l.next \in Quote /\ l.next.id \in OrderIds
  BY DEF Lanes, Quote, Idle

LEMMA Becoming ==
    ASSUME NEW s, Good(s), Become(s) PROVE IInv'
<1>1. s = [lane |-> s.lane, book |-> s.book, life |-> s.life, mapped |-> s.mapped,
           story |-> s.story]
  BY DEF Good, StateSpace
<1>2. Now' = s
  BY <1>1 DEF Become, Now
<1> QED
  BY <1>2 DEF IInv

LEMMA NowIs ==
    /\ Now.lane = lane /\ Now.book = book /\ Now.life = life /\ Now.mapped = mapped
    /\ Now.story = story
  BY DEF Now

\* The state after a step, for the actions that do not build it as a record.
LEMMA NextIs ==
    /\ Now'.lane = lane' /\ Now'.book = book' /\ Now'.life = life'
    /\ Now'.mapped = mapped' /\ Now'.story = story'
    /\ Now' \in StateSpace <=>
          /\ lane' \in Lanes /\ book' \in [OrderIds -> Resting \cup {None}]
          /\ life' \in [OrderIds -> Orders \cup {None}] /\ mapped' \subseteq OrderIds
          /\ story' \in [OrderIds -> Seq(Events)]
  BY DEF Now, StateSpace

LEMMA Types ==
    ASSUME IInv
    PROVE  /\ lane \in Lanes /\ book \in [OrderIds -> Resting \cup {None}]
           /\ life \in [OrderIds -> Orders \cup {None}] /\ mapped \subseteq OrderIds
           /\ story \in [OrderIds -> Seq(Events)]
  BY NowIs DEF IInv, Good, StateSpace

LEMMA Initially == Init => IInv
<1> SUFFICES ASSUME Init PROVE Good(Now)
  BY DEF IInv
<1>1. Now \in StateSpace
  BY EmptySeq, LaneTypes DEF Now, StateSpace, Init
<1>2. Now.lane.at = "Idle"
  BY NowIs DEF Init, Idle
<1>3. LaneOK(Now)
  BY <1>2 DEF LaneOK
<1>4. BookOK(Now)
  BY <1>2, NowIs DEF BookOK, Init, Working
<1>5. OrdersOK(Now)
  BY NowIs DEF OrdersOK, Init, Sound, Told
<1>6. FillsOK(Now)
  BY NowIs DEF FillsOK, Init, FitsQuote
<1> QED
  BY <1>1, <1>3, <1>4, <1>5, <1>6 DEF Good

\* A new order is waiting, and disturbs nothing.
LEMMA RecordIsGood ==
    ASSUME IInv, Unused # {}, NEW size \in Sizes
    PROVE  LET id == Min(Unused)
               r  == Record(Now, size)
           IN  /\ Good(r) /\ r.lane = lane /\ r.book = book /\ r.mapped = mapped \cup {id}
               /\ [id |-> id, size |-> size] \in Quote
               /\ Waiting(r.life[id])
<1> DEFINE id == Min(Unused)
           r  == Record(Now, size)
<1>1. Unused \in SUBSET Nat
  BY LaneAssumption DEF Unused
<1>2. id \in OrderIds /\ life[id] = None
  BY <1>1, MinIsLeast DEF Unused
<1>3. size \in Nat /\ size > 0
  BY LaneAssumption
<1>4. Submitted(size) \in Orders /\ Waiting(Submitted(size)) /\ Sound(Submitted(size))
  <2>1. Submitted(size) \in Orders
    BY <1>3 DEF Submitted, Orders, States
  <2>2. Submitted(size).state = "SubmitPending" /\ Submitted(size).remaining = size
    BY DEF Submitted
  <2> QED
    BY <1>3, <2>1, <2>2, OrderTypes DEF Waiting, Sound
<1> HIDE DEF id
<1>5. /\ r.lane = lane /\ r.book = book /\ r.mapped = mapped \cup {id} /\ r.story = story
      /\ r.life = [life EXCEPT ![id] = Submitted(size)]
      /\ r \in StateSpace
  BY <1>2, <1>4, Types DEF Record, Now, StateSpace, id
<1> HIDE DEF r
<1>6. Good(Now)
  BY DEF IInv
<1>7. r.life[id] = Submitted(size) /\ \A i \in OrderIds : i # id => r.life[i] = life[i]
  BY <1>2, <1>5, Types
<1>8. \A i \in OrderIds : Waiting(life[i]) \/ Working(life[i]) => i # id
  BY <1>2 DEF Waiting, Working
<1>9. LaneOK(r)
  <2>1. lane.at = "Placing" => lane.quote.id \in OrderIds
    BY Types, HeldOrders
  <2>2. lane.at = "Canceling" /\ lane.next # None => lane.next.id \in OrderIds
    BY Types, HeldOrders
  <2> QED
    BY <1>5, <1>6, <1>7, <1>8, <2>1, <2>2, NowIs DEF Good, LaneOK
<1>10. BookOK(r)
  BY <1>2, <1>4, <1>5, <1>6, <1>7, <1>8, NowIs DEF Good, BookOK, Waiting, Working
<1>11. OrdersOK(r)
  <2>1. story[id] = <<>>
    BY <1>2, <1>6, NowIs DEF Good, OrdersOK, Told
  <2>2. Told(Submitted(size), <<>>)
    BY <1>4, NewStory
  <2> QED
    BY <1>4, <1>5, <1>6, <1>7, <2>1, <2>2, NowIs DEF Good, OrdersOK
<1>12. FillsOK(r)
  BY <1>5, <1>6, NowIs DEF Good, FillsOK
<1>13. [id |-> id, size |-> size] \in Quote
  BY <1>2 DEF Quote
<1> QED
  BY <1>4, <1>5, <1>7, <1>9, <1>10, <1>11, <1>12, <1>13 DEF Good, id, r

LEMMA PlaceIdleStep ==
    ASSUME IInv, NEW size \in Sizes, NEW p \in PlaceLatencies, PlaceIdle(size, p)
    PROVE  IInv'
<1> DEFINE id == Min(Unused)
           quote == [id |-> id, size |-> size]
           r == Record(Now, size)
           t == [r EXCEPT !.lane = Placing(quote, p, None)]
<1>1. /\ Good(r) /\ r.lane = lane /\ r.book = book /\ r.mapped = mapped \cup {id}
      /\ quote \in Quote /\ Waiting(r.life[id])
  BY RecordIsGood DEF PlaceIdle
<1>2. lane.at = "Idle" /\ Become(t) /\ quote.id = id /\ p \in Nat
  BY LaneAssumption DEF PlaceIdle
<1> HIDE DEF id, quote, r
<1>3. Placing(quote, p, None) \in Lanes
  BY <1>1, <1>2, LaneTypes DEF Deadline
<1>4. /\ t \in StateSpace /\ t.lane = Placing(quote, p, None)
      /\ t.book = book /\ t.life = r.life /\ t.mapped = r.mapped /\ t.story = r.story
  BY <1>1, <1>3 DEF Good, StateSpace
<1> HIDE DEF t
<1>5. t.lane.at = "Placing" /\ t.lane.quote = quote /\ t.lane.cancel = None
  BY <1>4 DEF Placing
<1>6. LaneOK(t)
  BY <1>1, <1>2, <1>4, <1>5 DEF LaneOK
<1>7. BookOK(t)
  <2>1. \A i \in OrderIds : r.book[i] = None /\ ~Working(r.life[i])
    BY <1>1, <1>2 DEF Good, BookOK
  <2> QED
    BY <1>1, <1>4, <1>5, <2>1 DEF BookOK
<1>8. OrdersOK(t) /\ FillsOK(t)
  BY <1>1, <1>4 DEF Good, OrdersOK, FillsOK
<1>9. Good(t)
  BY <1>4, <1>6, <1>7, <1>8 DEF Good
<1> QED
  BY <1>2, <1>9, Becoming

LEMMA CoalesceCancelingStep ==
    ASSUME IInv, NEW size \in Sizes, CoalesceCanceling(size)
    PROVE  IInv'
<1>1. CASE lane.next # None
  <2>1. /\ lane.at = "Canceling" /\ lane.id \in OrderIds /\ lane.due \in Nat
        /\ lane.next \in Quote
    BY <1>1, Types, HeldOrders DEF CoalesceCanceling
  <2>2. /\ lane' = [lane EXCEPT !.next = [lane.next EXCEPT !.size = size]]
        /\ UNCHANGED <<book, life, mapped, story>>
    BY <1>1 DEF CoalesceCanceling
  <2>3. [lane.next EXCEPT !.size = size] \in Quote
    BY <2>1 DEF Quote
  <2>4. [lane.next EXCEPT !.size = size].id = lane.next.id
    BY <2>1 DEF Quote
  <2>5. /\ lane' \in Lanes /\ lane'.at = "Canceling" /\ lane'.id = lane.id
        /\ lane'.next # None /\ lane'.next.id = lane.next.id
    <3> DEFINE n == [lane.next EXCEPT !.size = size]
    <3> HIDE DEF n
    <3> QED
      BY <2>1, <2>2, <2>3, <2>4, Types, NoneAssumption DEF Lanes, Idle, n
  <2>6. Good(Now)
    BY DEF IInv
  <2>7. Now' \in StateSpace
    BY <2>2, <2>5, Types, NextIs
  <2>8. LaneOK(Now') /\ BookOK(Now') /\ OrdersOK(Now') /\ FillsOK(Now')
    BY <1>1, <2>1, <2>2, <2>5, <2>6, NowIs, NextIs
       DEF Good, LaneOK, BookOK, OrdersOK, FillsOK
  <2> QED
    BY <2>7, <2>8 DEF IInv, Good
<1>2. CASE lane.next = None
  <2> DEFINE id == Min(Unused)
             quote == [id |-> id, size |-> size]
             r == Record(Now, size)
             t == [r EXCEPT !.lane.next = quote]
  <2>1. /\ Good(r) /\ r.lane = lane /\ r.book = book /\ r.mapped = mapped \cup {id}
        /\ quote \in Quote /\ Waiting(r.life[id])
    BY <1>2, RecordIsGood DEF CoalesceCanceling
  <2>2. lane.at = "Canceling" /\ Become(t) /\ quote.id = id
    BY <1>2 DEF CoalesceCanceling
  <2>3. lane.id \in OrderIds /\ lane.due \in Nat
    BY <2>2, Types, HeldOrders
  <2> HIDE DEF id, quote, r
  <2>4. /\ [lane EXCEPT !.next = quote] \in Lanes
        /\ [lane EXCEPT !.next = quote].at = "Canceling"
        /\ [lane EXCEPT !.next = quote].id = lane.id
        /\ [lane EXCEPT !.next = quote].next = quote
    BY <2>1, <2>2, <2>3, Types DEF Lanes, Idle
  <2>5. /\ t \in StateSpace /\ t.lane = [lane EXCEPT !.next = quote]
        /\ t.book = r.book /\ t.life = r.life /\ t.mapped = r.mapped /\ t.story = r.story
    BY <2>1, <2>4 DEF Good, StateSpace
  <2> HIDE DEF t
  <2>6. LaneOK(t)
    BY <2>1, <2>2, <2>4, <2>5 DEF Good, LaneOK
  <2>7. BookOK(t) /\ OrdersOK(t) /\ FillsOK(t)
    BY <2>1, <2>2, <2>4, <2>5 DEF Good, BookOK, OrdersOK, FillsOK
  <2>8. Good(t)
    BY <2>5, <2>6, <2>7 DEF Good
  <2> QED
    BY <2>2, <2>8, Becoming
<1> QED
  BY <1>1, <1>2

LEMMA CoalescePlacingStep ==
    ASSUME IInv, NEW size \in Sizes, CoalescePlacing(size)
    PROVE  IInv'
<1> DEFINE quote == [lane.quote EXCEPT !.size = size]
<1>1. /\ lane.at = "Placing" /\ lane.quote \in Quote /\ lane.due \in Nat
      /\ lane.cancel \in Deadline
      /\ lane' = [lane EXCEPT !.quote = quote]
      /\ UNCHANGED <<book, life, mapped, story>>
  BY Types, HeldOrders DEF CoalescePlacing
<1>2. quote \in Quote /\ quote.id = lane.quote.id
  BY <1>1 DEF Quote
<1> HIDE DEF quote
<1>3. /\ lane' \in Lanes /\ lane'.at = "Placing" /\ lane'.quote = quote
      /\ lane'.cancel = lane.cancel
  <2>1. lane \in [at : {"Placing"}, quote : Quote, due : Nat, cancel : Deadline]
    BY <1>1, Types DEF Lanes, Idle
  <2> QED
    BY <1>1, <1>2, <2>1 DEF Lanes
<1>4. Good(Now)
  BY DEF IInv
<1>5. Now' \in StateSpace
  BY <1>1, <1>3, Types, NextIs
<1>6. LaneOK(Now') /\ BookOK(Now') /\ OrdersOK(Now') /\ FillsOK(Now')
  BY <1>1, <1>2, <1>3, <1>4, NowIs, NextIs DEF Good, LaneOK, BookOK, OrdersOK, FillsOK
<1> QED
  BY <1>5, <1>6 DEF IInv, Good

LEMMA ReplaceLiveStep ==
    ASSUME IInv, NEW size \in Sizes, NEW samePrice \in BOOLEAN, NEW c \in CancelLatencies,
           ReplaceLive(size, samePrice, c)
    PROVE  IInv'
<1> DEFINE id == lane.id
           new == Min(Unused)
           quote == [id |-> new, size |-> size]
           r == Record(Now, size)
           u == [r EXCEPT !.lane = Canceling(id, c, quote)]
           t == IF book[id] = None THEN u ELSE [u EXCEPT !.book[id].until = c]
<1>1. lane.at = "Live" /\ Unused # {} /\ c \in Nat /\ Become(t) /\ quote.id = new
  BY LaneAssumption DEF ReplaceLive
<1>2. /\ Good(r) /\ r.lane = lane /\ r.book = book /\ r.mapped = mapped \cup {new}
      /\ quote \in Quote /\ Waiting(r.life[new])
  BY <1>1, RecordIsGood
<1>3. id \in OrderIds
  BY <1>1, Types, HeldOrders
<1>4. Canceling(id, c, quote) \in Lanes
  BY <1>1, <1>2, <1>3, LaneTypes
<1> HIDE DEF new, quote, r, id
<1>5. /\ u \in StateSpace /\ u.lane = Canceling(id, c, quote) /\ u.book = book
      /\ u.life = r.life /\ u.mapped = r.mapped /\ u.story = r.story
  BY <1>2, <1>4 DEF Good, StateSpace
<1> HIDE DEF u
<1>6. /\ t \in StateSpace /\ t.lane = u.lane /\ t.life = u.life /\ t.mapped = u.mapped
      /\ t.story = u.story
      /\ \A i \in OrderIds : /\ t.book[i] # None <=> book[i] # None
                             /\ OnBookLeft(t.book[i]) = OnBookLeft(book[i])
  <2>1. CASE book[id] = None
    BY <1>5, <2>1
  <2>2. CASE book[id] # None
    <3> DEFINE b == [book[id] EXCEPT !.until = c]
    <3>1. book[id] \in Resting
      BY <1>3, <2>2, Types
    <3>2. b \in Resting /\ b.remaining = book[id].remaining
      BY <1>1, <3>1 DEF Resting, Deadline
    <3> HIDE DEF b
    <3>3. t = [u EXCEPT !.book[id] = b]
      BY <1>5, <2>2 DEF b
    <3>4. /\ t \in StateSpace /\ t.lane = u.lane /\ t.life = u.life
          /\ t.mapped = u.mapped /\ t.story = u.story /\ t.book = [book EXCEPT ![id] = b]
      BY <1>3, <1>5, <3>2, <3>3 DEF StateSpace
    <3>5. b # None
      BY <3>2, NoneAssumption
    <3> HIDE DEF t
    <3> QED
      BY <1>3, <2>2, <3>2, <3>4, <3>5, Types DEF OnBookLeft
  <2> QED
    BY <2>1, <2>2
<1> HIDE DEF t
<1>7. t.lane.at = "Canceling" /\ t.lane.id = id /\ t.lane.next = quote
  BY <1>5, <1>6 DEF Canceling
<1>8. LaneOK(t)
  BY <1>1, <1>2, <1>5, <1>6, <1>7 DEF Good, LaneOK, id
<1>9. BookOK(t)
  BY <1>1, <1>2, <1>5, <1>6, <1>7 DEF Good, BookOK, id
<1>10. OrdersOK(t) /\ FillsOK(t)
  BY <1>2, <1>5, <1>6 DEF Good, OrdersOK, FillsOK, FitsQuote, OnBookLeft
<1>11. Good(t)
  BY <1>6, <1>8, <1>9, <1>10 DEF Good
<1> QED
  BY <1>1, <1>11, Becoming

LEMMA HandleTradeStep ==
    ASSUME IInv, NEW n \in TradeSizes \cup {0}, NEW p \in PlaceLatencies,
           NEW c \in CancelLatencies, HandleTrade(n, p, c)
    PROVE  IInv'
<1> DEFINE s == AdvanceTime(Now, p, c)
           i == CHOOSE i \in Fillable(s) : TRUE
           t == IF n = 0 \/ Fillable(s) = {} THEN s ELSE FillOne(s, i, n, p, c)
<1>1. n \in Nat /\ p \in Nat /\ c \in Nat
  BY LaneAssumption
<1>2. Good(s)
  BY <1>1, AdvanceTimeIsGood DEF IInv
<1>3. Become(t)
  BY DEF HandleTrade
<1> HIDE DEF s
<1>4. Fillable(s) # {} => i \in Fillable(s)
  OBVIOUS
<1> HIDE DEF i
<1>5. Good(t)
  BY <1>1, <1>2, <1>4, FillOneIsGood
<1> QED
  BY <1>3, <1>5, Becoming

LEMMA TickStep == ASSUME IInv, Tick PROVE IInv'
<1> DEFINE Left(d) == IF d \in {None, 0} THEN d ELSE d - 1
<1>1. /\ \A d \in Nat : Left(d) \in Nat
      /\ \A d \in Deadline : Left(d) \in Deadline /\ (Left(d) = None <=> d = None)
  BY NoneAssumption DEF Deadline
<1>2. /\ lane' = CASE lane.at = "Placing" ->
                        [lane EXCEPT !.due = Left(lane.due), !.cancel = Left(lane.cancel)]
                   [] lane.at = "Canceling" -> [lane EXCEPT !.due = Left(lane.due)]
                   [] OTHER -> lane
      /\ book' = [i \in OrderIds |->
                    IF book[i] = None THEN None
                    ELSE [book[i] EXCEPT !.until = Left(book[i].until)]]
      /\ UNCHANGED <<life, mapped, story>>
  BY DEF Tick
<1> HIDE DEF Left
<1>3. /\ lane' \in Lanes /\ lane'.at = lane.at
      /\ lane.at = "Placing" => /\ lane'.quote = lane.quote
                                /\ lane'.cancel = None <=> lane.cancel = None
      /\ lane.at \in {"Live", "Canceling"} => lane'.id = lane.id
      /\ lane.at = "Canceling" => lane'.next = lane.next
  <2>1. CASE lane.at = "Placing"
    <3>1. lane \in [at : {"Placing"}, quote : Quote, due : Nat, cancel : Deadline]
      BY <2>1, Types DEF Lanes, Idle
    <3>2. lane' = [lane EXCEPT !.due = Left(lane.due), !.cancel = Left(lane.cancel)]
      BY <1>2, <2>1
    <3> QED
      BY <1>1, <2>1, <3>1, <3>2 DEF Lanes
  <2>2. CASE lane.at = "Canceling"
    <3>1. lane \in [at : {"Canceling"}, id : OrderIds, due : Nat, next : Quote \cup {None}]
      BY <2>2, Types DEF Lanes, Idle
    <3>2. lane' = [lane EXCEPT !.due = Left(lane.due)]
      BY <1>2, <2>2
    <3> QED
      BY <1>1, <2>2, <3>1, <3>2 DEF Lanes
  <2>3. CASE lane.at \notin {"Placing", "Canceling"}
    BY <1>2, <2>3, Types
  <2> QED
    BY <2>1, <2>2, <2>3
<1>4. \A i \in OrderIds :
         /\ book'[i] \in Resting \cup {None}
         /\ book'[i] # None <=> book[i] # None
         /\ OnBookLeft(book'[i]) = OnBookLeft(book[i])
  <2> SUFFICES ASSUME NEW i \in OrderIds, book[i] # None
               PROVE  /\ book'[i] \in Resting /\ book'[i] # None
                      /\ OnBookLeft(book'[i]) = OnBookLeft(book[i])
    BY <1>2
  <2>1. book[i] \in Resting /\ book'[i] = [book[i] EXCEPT !.until = Left(book[i].until)]
    BY <1>2, Types
  <2>2. book'[i] \in Resting /\ book'[i].remaining = book[i].remaining
    BY <1>1, <2>1 DEF Resting
  <2> QED
    BY <2>2, NoneAssumption DEF OnBookLeft
<1>5. Good(Now)
  BY DEF IInv
<1>6. Now' \in StateSpace
  <2>1. book' \in [OrderIds -> Resting \cup {None}]
    BY <1>2, <1>4
  <2> QED
    BY <1>2, <1>3, <2>1, Types, NextIs
<1>7. LaneOK(Now')
  BY <1>2, <1>3, <1>5, NowIs, NextIs DEF Good, LaneOK
<1>8. BookOK(Now')
  BY <1>2, <1>3, <1>4, <1>5, NowIs, NextIs DEF Good, BookOK
<1>9. OrdersOK(Now') /\ FillsOK(Now')
  BY <1>2, <1>4, <1>5, NowIs, NextIs
     DEF Good, OrdersOK, FillsOK, FitsQuote, OnBookLeft
<1> QED
  BY <1>6, <1>7, <1>8, <1>9 DEF IInv, Good

\* A cancellation that is requested: the record notes it, the story stands.
LEMMA RequestKeeps ==
    ASSUME Good(Now), NEW id \in OrderIds, life[id] # None,
           life' = [life EXCEPT ![id] = AfterCancelRequest(life[id])], story' = story
    PROVE  /\ life' \in [OrderIds -> Orders \cup {None}]
           /\ OrdersOK(Now')
           /\ ~IsTerminal(life[id]) => life'[id].cancel_requested
           /\ \A i \in OrderIds :
                 /\ Working(life'[i]) <=> Working(life[i])
                 /\ Waiting(life'[i]) <=> Waiting(life[i])
                 /\ i # id => life'[i] = life[i]
<1> DEFINE o == AfterCancelRequest(life[id])
<1>1. /\ life \in [OrderIds -> Orders \cup {None}] /\ story \in [OrderIds -> Seq(Events)]
      /\ OrdersOK(Now)
  BY Types DEF IInv, Good
<1>2. life[id] \in Orders /\ Sound(life[id]) /\ Told(life[id], story[id])
  BY <1>1, NowIs DEF OrdersOK
<1>3. /\ o \in Orders /\ Sound(o)
      /\ Working(o) <=> Working(life[id])
      /\ Waiting(o) <=> Waiting(life[id])
      /\ ~IsTerminal(life[id]) => o.cancel_requested
      /\ \A end \in TerminalReasons : o.state = end <=> life[id].state = end
  BY <1>2, CancelRequest
<1>4. Told(o, story[id])
  <2>1. /\ o.state = "Cancelled" <=> life[id].state = "Cancelled"
        /\ o.state = "Filled" <=> life[id].state = "Filled"
    BY <1>3 DEF TerminalReasons
  <2> QED
    BY <1>1, <1>2, <1>3, <2>1, StoryStands
<1> HIDE DEF o
<1>5. life'[id] = o /\ \A i \in OrderIds : i # id => life'[i] = life[i]
  BY <1>1 DEF o
<1>6. life' \in [OrderIds -> Orders \cup {None}]
  BY <1>1, <1>3 DEF o
<1>7. OrdersOK(Now')
  BY <1>1, <1>3, <1>4, <1>5, NowIs, NextIs DEF OrdersOK
<1> QED
  BY <1>3, <1>5, <1>6, <1>7

LEMMA CancelOrderStep ==
    ASSUME IInv, NEW id \in OrderIds, NEW c \in CancelLatencies, CancelOrder(id, c)
    PROVE  IInv'
<1>1. Good(Now) /\ c \in Nat
  BY LaneAssumption DEF IInv
<1>2. /\ life[id] # None /\ id \in mapped
      /\ lane' = CASE lane.at = "Placing" /\ lane.quote.id = id ->
                        [lane EXCEPT !.cancel =
                           IF lane.cancel = None THEN c ELSE Min({lane.cancel, c})]
                   [] lane.at = "Live" /\ lane.id = id -> Canceling(id, c, None)
                   [] OTHER -> lane
      /\ book' = IF lane.at = "Live" /\ lane.id = id /\ book[id] # None
                 THEN [book EXCEPT ![id] = [book[id] EXCEPT !.until = c]]
                 ELSE book
      /\ life' = [life EXCEPT ![id] = AfterCancelRequest(life[id])]
      /\ UNCHANGED <<mapped, story>>
  BY DEF CancelOrder
<1>3. /\ life' \in [OrderIds -> Orders \cup {None}]
      /\ OrdersOK(Now')
      /\ ~IsTerminal(life[id]) => life'[id].cancel_requested
      /\ \A i \in OrderIds :
            /\ Working(life'[i]) <=> Working(life[i])
            /\ Waiting(life'[i]) <=> Waiting(life[i])
            /\ i # id => life'[i] = life[i]
  BY <1>1, <1>2, RequestKeeps
<1>4. \A i \in OrderIds :
         /\ book'[i] \in Resting \cup {None}
         /\ book'[i] # None <=> book[i] # None
         /\ OnBookLeft(book'[i]) = OnBookLeft(book[i])
  <2>1. CASE lane.at = "Live" /\ lane.id = id /\ book[id] # None
    <3> DEFINE b == [book[id] EXCEPT !.until = c]
    <3>1. book[id] \in Resting
      BY <2>1, Types
    <3>2. b \in Resting /\ b.remaining = book[id].remaining
      BY <1>1, <3>1 DEF Resting, Deadline
    <3>3. b # None
      BY <3>2, NoneAssumption
    <3> HIDE DEF b
    <3>4. book' = [book EXCEPT ![id] = b]
      BY <1>2, <2>1 DEF b
    <3> QED
      BY <2>1, <3>2, <3>3, <3>4, Types DEF OnBookLeft
  <2>2. CASE ~(lane.at = "Live" /\ lane.id = id /\ book[id] # None)
    BY <1>2, <2>2, Types
  <2> QED
    BY <2>1, <2>2
<1>5. book' \in [OrderIds -> Resting \cup {None}]
  BY <1>2, <1>4, Types
<1>6. FillsOK(Now')
  BY <1>1, <1>2, <1>4, NowIs, NextIs DEF Good, FillsOK, FitsQuote, OnBookLeft
<1>7. CASE lane.at = "Placing" /\ lane.quote.id = id
  <2> DEFINE k == IF lane.cancel = None THEN c ELSE Min({lane.cancel, c})
  <2>1. lane \in [at : {"Placing"}, quote : Quote, due : Nat, cancel : Deadline]
    BY <1>7, Types DEF Lanes, Idle
  <2>2. k \in Nat
    <3>1. lane.cancel \in Deadline
      BY <2>1
    <3> QED
      BY <1>1, <3>1, MinOfTwo DEF Deadline
  <2>3. lane' = [lane EXCEPT !.cancel = k]
    BY <1>2, <1>7
  <2> HIDE DEF k
  <2>4. lane' \in Lanes /\ lane'.at = "Placing" /\ lane'.quote = lane.quote
    BY <2>1, <2>2, <2>3 DEF Lanes, Deadline
  <2>5. Waiting(life[id]) /\ ~IsTerminal(life[id])
    BY <1>1, <1>7, NowIs DEF Good, LaneOK, Waiting, IsTerminal, TerminalReasons
  <2>6. LaneOK(Now')
    BY <1>1, <1>2, <1>3, <1>7, <2>4, <2>5, NowIs, NextIs DEF Good, LaneOK
  <2>7. BookOK(Now')
    BY <1>1, <1>3, <1>4, <1>7, <2>4, NowIs, NextIs DEF Good, BookOK
  <2>8. Now' \in StateSpace
    BY <1>2, <1>3, <1>5, <2>4, Types, NextIs
  <2> QED
    BY <1>3, <1>6, <2>6, <2>7, <2>8 DEF IInv, Good
<1>8. CASE lane.at = "Live" /\ lane.id = id
  <2>1. lane' = Canceling(id, c, None)
    BY <1>2, <1>8
  <2>2. lane'.at = "Canceling" /\ lane'.id = id /\ lane'.next = None
    BY <2>1 DEF Canceling
  <2>3. lane' \in Lanes
    BY <1>1, <2>1, LaneTypes
  <2>4. LaneOK(Now')
    BY <1>2, <2>2, NextIs DEF LaneOK
  <2>5. BookOK(Now')
    BY <1>1, <1>3, <1>4, <1>8, <2>2, NowIs, NextIs DEF Good, BookOK
  <2>6. Now' \in StateSpace
    BY <1>2, <1>3, <1>5, <2>3, Types, NextIs
  <2> QED
    BY <1>3, <1>6, <2>4, <2>5, <2>6 DEF IInv, Good
<1>9. CASE ~(lane.at = "Placing" /\ lane.quote.id = id) /\ ~(lane.at = "Live" /\ lane.id = id)
  <2>1. lane' = lane
    BY <1>2, <1>9
  <2>2. LaneOK(Now')
    <3>1. lane.at = "Placing" => lane.quote.id \in OrderIds /\ lane.quote.id # id
      BY <1>9, Types, HeldOrders
    <3>2. lane.at = "Canceling" /\ lane.next # None => lane.next.id \in OrderIds
      BY Types, HeldOrders
    <3> QED
      BY <1>1, <1>2, <1>3, <2>1, <3>1, <3>2, NowIs, NextIs DEF Good, LaneOK
  <2>3. BookOK(Now')
    BY <1>1, <1>3, <1>4, <2>1, NowIs, NextIs DEF Good, BookOK
  <2>4. Now' \in StateSpace
    BY <1>2, <1>3, <1>5, <2>1, Types, NextIs
  <2> QED
    BY <1>3, <1>6, <2>2, <2>3, <2>4 DEF IInv, Good
<1> QED
  BY <1>7, <1>8, <1>9

\* An order without a lane is not on the book, so cancelling it is no more than a
\* request.
LEMMA CancelUnmappedStep ==
    ASSUME IInv, NEW id \in OrderIds, CancelUnmapped(id)
    PROVE  IInv'
<1>1. Good(Now)
  BY DEF IInv
<1>2. life[id] # None /\ id \notin mapped
  BY DEF CancelUnmapped
<1>3. book[id] = None
  BY <1>1, <1>2, NowIs DEF Good, BookOK, LaneOK
<1>4. /\ life' = [life EXCEPT ![id] = AfterCancelRequest(life[id])]
      /\ book' = book /\ UNCHANGED <<lane, mapped, story>>
  BY <1>3, Types DEF CancelUnmapped
<1>5. /\ life' \in [OrderIds -> Orders \cup {None}]
      /\ OrdersOK(Now')
      /\ \A i \in OrderIds :
            /\ Working(life'[i]) <=> Working(life[i])
            /\ Waiting(life'[i]) <=> Waiting(life[i])
            /\ i # id => life'[i] = life[i]
  BY <1>1, <1>2, <1>4, RequestKeeps
<1>6. Now' \in StateSpace
  BY <1>4, <1>5, Types, NextIs
<1>7. LaneOK(Now')
  <2>1. lane.at = "Placing" => lane.quote.id \in OrderIds
    BY Types, HeldOrders
  <2>2. lane.at = "Canceling" /\ lane.next # None => lane.next.id \in OrderIds
    BY Types, HeldOrders
  <2> QED
    BY <1>1, <1>2, <1>4, <1>5, <2>1, <2>2, NowIs, NextIs DEF Good, LaneOK
<1>8. BookOK(Now') /\ FillsOK(Now')
  BY <1>1, <1>4, <1>5, NowIs, NextIs DEF Good, BookOK, FillsOK
<1> QED
  BY <1>5, <1>6, <1>7, <1>8 DEF IInv, Good

LEMMA StutterStep == ASSUME IInv, UNCHANGED vars PROVE IInv'
<1>1. Now' = Now
  BY DEF vars, Now
<1> QED
  BY <1>1 DEF IInv

LEMMA NextKeepsIInv == IInv /\ [Next]_vars => IInv'
<1> SUFFICES ASSUME IInv, [Next]_vars PROVE IInv'
  OBVIOUS
<1>1. CASE Tick
  BY <1>1, TickStep
<1>2. CASE Trades
  BY <1>2, HandleTradeStep DEF Trades
<1>3. CASE \E size \in Sizes, p \in PlaceLatencies : PlaceIdle(size, p)
  BY <1>3, PlaceIdleStep
<1>4. CASE \E size \in Sizes : CoalescePlacing(size)
  BY <1>4, CoalescePlacingStep
<1>5. CASE \E size \in Sizes, samePrice \in BOOLEAN, c \in CancelLatencies :
              ReplaceLive(size, samePrice, c)
  BY <1>5, ReplaceLiveStep
<1>6. CASE \E size \in Sizes : CoalesceCanceling(size)
  BY <1>6, CoalesceCancelingStep
<1>7. CASE \E id \in OrderIds, c \in CancelLatencies : CancelOrder(id, c)
  BY <1>7, CancelOrderStep
<1>8. CASE \E id \in OrderIds : CancelUnmapped(id)
  BY <1>8, CancelUnmappedStep
<1>9. CASE UNCHANGED vars
  BY <1>9, StutterStep
<1> QED
  BY <1>1, <1>2, <1>3, <1>4, <1>5, <1>6, <1>7, <1>8, <1>9 DEF Next

-------------------------------------------------------------------------------
(* The theorems *)

\* The inductive invariant holds of every reachable state: each call of the executor,
\* however calls follow one another, leaves lane, book, engine and events as they should
\* be to one another.
THEOREM Invariance == Spec => []IInv
<1> QED
  BY Initially, NextKeepsIInv, PTL DEF Spec

\* The variables have their shapes, for any orders, sizes and latencies.
THEOREM TypeCorrectness == Spec => []TypeOK
<1>1. IInv => TypeOK
  <2> SUFFICES ASSUME IInv PROVE TypeOK
    OBVIOUS
  <2>1. \/ lane = Idle
        \/ /\ lane.at = "Placing" /\ lane.quote \in Quote
           /\ lane.due \in Nat /\ lane.cancel \in Deadline
        \/ lane.at = "Live" /\ lane.id \in OrderIds
        \/ /\ lane.at = "Canceling" /\ lane.id \in OrderIds
           /\ lane.due \in Nat /\ lane.next \in Quote \cup {None}
    BY Types DEF Lanes
  <2> QED
    BY <2>1, Types DEF TypeOK
<1> QED
  BY <1>1, Invariance, PTL

\* Lane, book and engine stay in step (quote_lifecycle.rs, core.rs): what is on the book
\* is the lane's order and works for the engine, and an armed cancel was requested.
THEOREM StepSafety == Spec => []InStep
<1>1. IInv => InStep
  <2> SUFFICES ASSUME IInv PROVE InStep
    OBVIOUS
  <2>1. Good(Now)
    BY DEF IInv
  <2>2. BookIsLane
    BY <2>1, NowIs DEF Good, BookOK, BookIsLane
  <2>3. BookMatchesEngine
    BY <2>1, NowIs DEF Good, BookOK, Working, BookMatchesEngine
  <2>4. ArmedCancelIsRequested
    BY <2>1, NowIs DEF Good, LaneOK, ArmedCancelIsRequested
  <2> QED
    BY <2>2, <2>3, <2>4 DEF InStep
<1> QED
  BY <1>1, Invariance, PTL

\* The events of an order tell a story that makes sense: it is placed first, if it is,
\* and nothing follows its end.
THEOREM StorySafety == Spec => []StoryWellFormed
<1>1. IInv => StoryWellFormed
  <2> SUFFICES ASSUME IInv, NEW i \in OrderIds, NEW k \in DOMAIN story[i]
               PROVE  /\ story[i][k].type = "placed" => k = 1
                      /\ story[i][k].type = "cancelled"
                            \/ (story[i][k].type = "fill" /\ story[i][k].complete)
                            => k = Len(story[i])
    BY DEF StoryWellFormed
  <2>1. Told(life[i], story[i])
    BY NowIs DEF IInv, Good, OrdersOK
  <2> QED
    BY <2>1 DEF Told, Ends
<1> QED
  BY <1>1, Invariance, PTL

\* No order ends in silence, and none is told to have ended that has not: the engine's
\* outcome is the last event's.
THEOREM EndsSafety == Spec => []EndsAreTold
<1>1. IInv => EndsAreTold
  <2> SUFFICES ASSUME IInv, NEW i \in OrderIds, life[i] # None
               PROVE  LET last == IF story[i] = <<>> THEN [type |-> "none"]
                                  ELSE story[i][Len(story[i])]
                      IN  /\ life[i].state = "Cancelled" <=> last.type = "cancelled"
                          /\ life[i].state = "Filled" <=>
                                last.type = "fill" /\ last.complete
    BY DEF EndsAreTold
  <2>1. Told(life[i], story[i])
    BY NowIs DEF IInv, Good, OrdersOK
  <2> QED
    BY <2>1 DEF Told
<1> QED
  BY <1>1, Invariance, PTL

\* An order never fills for more than it was announced with, whatever was coalesced into
\* it, partially filled, and replaced.
THEOREM FillSafety == Spec => []FillsWithinQuote
<1>1. IInv => FillsWithinQuote
  <2> SUFFICES ASSUME IInv, NEW i \in OrderIds,
                      story[i] # <<>>, story[i][1].type = "placed"
               PROVE  Filled(story[i]) <= story[i][1].size
    BY DEF FillsWithinQuote
  <2>1. /\ FitsQuote(story[i], book[i])
        /\ story[i] \in Seq(Events) /\ book[i] \in Resting \cup {None}
    BY Types, NowIs DEF IInv, Good, FillsOK
  <2>2. FitsQuote(story[i], None)
    BY <2>1, FitsOffTheBook
  <2>3. Filled(story[i]) + 0 <= story[i][1].size
    BY <2>2 DEF FitsQuote
  <2>4. Filled(story[i]) \in Nat
    BY <2>1, FilledNat
  <2> QED
    BY <2>3, <2>4
<1> QED
  BY <1>1, Invariance, PTL

-------------------------------------------------------------------------------
(* Each order implements the contract *)

\* Evidence that trades nothing does not touch what is left, nor an order that is over.
Quiet(o, p) ==
    \/ p = o
    \/ /\ o \in Orders /\ p \in Orders
       /\ ~IsTerminal(o) /\ p.remaining = o.remaining

\* A fill of an order that is not over.
Fills(o, p) ==
    /\ o \in Orders /\ p \in Orders /\ ~IsTerminal(o)
    /\ \/ p.remaining = 0 /\ p.state = "Filled"
       \/ p.remaining \in 1 .. o.remaining - 1 /\ ~IsTerminal(p)

Follows(o, p) == Quiet(o, p) \/ Fills(o, p)

Accepts(o, p) == o = None /\ \E size \in Sizes : p = Submitted(size)

\* What a call does without trading.
Calm(s, t) == \A i \in OrderIds : Quiet(s.life[i], t.life[i])

LEMMA Chain ==
    ASSUME NEW o, NEW m, NEW p, Quiet(o, m)
    PROVE  /\ Quiet(m, p) => Quiet(o, p)
           /\ Follows(m, p) => Follows(o, p)
<1>1. CASE m = o
  BY <1>1 DEF Follows
<1>2. CASE o \in Orders /\ m \in Orders /\ ~IsTerminal(o) /\ m.remaining = o.remaining
  <2>1. Quiet(m, p) => Quiet(o, p)
    BY <1>2 DEF Quiet
  <2>2. Fills(m, p) => Fills(o, p)
    BY <1>2 DEF Fills
  <2> QED
    BY <2>1, <2>2 DEF Follows
<1> QED
  BY <1>1, <1>2 DEF Quiet

LEMMA QuietEvidence ==
    ASSUME NEW o \in Orders
    PROVE  /\ AfterPlaceSuccess(o) \in Orders /\ Quiet(o, AfterPlaceSuccess(o))
           /\ AfterCancelRequest(o) \in Orders /\ Quiet(o, AfterCancelRequest(o))
           /\ AfterTerminal(o, "Cancelled") \in Orders
           /\ Quiet(o, AfterTerminal(o, "Cancelled"))
<1>1. /\ AfterPlaceSuccess(o) \in Orders
      /\ AfterPlaceSuccess(o) = o \/ o.state = "SubmitPending"
      /\ AfterPlaceSuccess(o).remaining = o.remaining
  BY OrderTypes DEF AfterPlaceSuccess, Orders, States
<1>2. /\ AfterCancelRequest(o) \in Orders
      /\ AfterCancelRequest(o) = o \/ ~IsTerminal(o)
      /\ AfterCancelRequest(o).remaining = o.remaining
  BY OrderTypes DEF AfterCancelRequest, Orders, States
<1>3. /\ AfterTerminal(o, "Cancelled") \in Orders
      /\ AfterTerminal(o, "Cancelled") = o \/ ~IsTerminal(o)
      /\ AfterTerminal(o, "Cancelled").remaining = o.remaining
  BY OrderTypes DEF AfterTerminal, Orders, States, TerminalReasons
<1> QED
  BY <1>1, <1>2, <1>3 DEF Quiet, IsTerminal, TerminalReasons

LEMMA FillTrades ==
    ASSUME NEW o \in Orders, ~IsTerminal(o), NEW n \in Nat, n > 0
    PROVE  AfterFill(o, n) \in Orders /\ Fills(o, AfterFill(o, n))
<1>1. PICK rest : rest = IF n >= o.remaining THEN 0 ELSE o.remaining - n
  OBVIOUS
<1>2. rest = 0 \/ rest \in 1 .. o.remaining - 1
  BY <1>1, OrderTypes
<1>3. rest \in Nat
  BY <1>1, OrderTypes
<1>4. PICK state : state = IF rest = 0 THEN "Filled"
                           ELSE IF o.state = "SubmitPending" THEN "Open" ELSE o.state
  OBVIOUS
<1>5. state \in States
  BY <1>4, OrderTypes DEF States, TerminalReasons
<1>6. PICK p : p = [o EXCEPT !.remaining = rest, !.state = state]
  OBVIOUS
<1>7. AfterFill(o, n) = p
  BY <1>1, <1>4, <1>6 DEF AfterFill
<1>8. p \in Orders /\ p.remaining = rest /\ p.state = state
  BY <1>3, <1>5, <1>6 DEF Orders
<1>9. rest # 0 => ~IsTerminal(p)
  BY <1>4, <1>8 DEF IsTerminal, TerminalReasons
<1> QED
  BY <1>2, <1>4, <1>7, <1>8, <1>9 DEF Fills

\* Evidence about one order is calm if it is quiet about that order.
LEMMA OneIsCalm ==
    ASSUME NEW s \in StateSpace, NEW id \in OrderIds, NEW p, Quiet(s.life[id], p),
           NEW t, t.life = [s.life EXCEPT ![id] = p]
    PROVE  Calm(s, t)
<1>1. s.life \in [OrderIds -> Orders \cup {None}]
  BY DEF StateSpace
<1> QED
  BY <1>1 DEF Calm, Quiet

LEMMA NoneIsCalm == ASSUME NEW s, NEW t, t.life = s.life PROVE Calm(s, t)
  BY DEF Calm, Quiet

LEMMA CalmChain ==
    ASSUME NEW s, NEW t, NEW u, Calm(s, t), Calm(t, u) PROVE Calm(s, u)
  BY Chain DEF Calm

-------------------------------------------------------------------------------

LEMMA ConfirmCancelIsCalm ==
    ASSUME NEW s \in StateSpace, NEW id \in OrderIds, s.life[id] # None
    PROVE  ConfirmCancel(s, id) \in StateSpace /\ Calm(s, ConfirmCancel(s, id))
<1>1. /\ s.life \in [OrderIds -> Orders \cup {None}] /\ s.life[id] \in Orders
      /\ s.story \in [OrderIds -> Seq(Events)]
  BY DEF StateSpace
<1>2. CASE IsTerminal(s.life[id])
  BY <1>2, NoneIsCalm DEF ConfirmCancel
<1>3. CASE ~IsTerminal(s.life[id])
  <2>1. PICK p \in Orders : p = AfterTerminal(s.life[id], "Cancelled") /\ Quiet(s.life[id], p)
    BY <1>1, QuietEvidence
  <2>2. PICK told \in Seq(Events) : told = Append(s.story[id], CancelledEvent)
    <3>1. CancelledEvent \in Events /\ s.story[id] \in Seq(Events)
      BY <1>1 DEF CancelledEvent, Events
    <3> QED
      BY <3>1, AppendProperties
  <2>3. ConfirmCancel(s, id) = [s EXCEPT !.life[id] = p, !.story[id] = told]
    BY <1>3, <2>1, <2>2 DEF ConfirmCancel
  <2>4. PICK t : t = ConfirmCancel(s, id)
    OBVIOUS
  <2>5. t.life = [s.life EXCEPT ![id] = p]
    BY <2>3, <2>4 DEF StateSpace
  <2>6. [s.life EXCEPT ![id] = p] \in [OrderIds -> Orders \cup {None}]
    BY <1>1
  <2>7. [s.story EXCEPT ![id] = told] \in [OrderIds -> Seq(Events)]
    BY <1>1
  <2>8. t \in StateSpace
    BY <2>3, <2>4, <2>6, <2>7 DEF StateSpace
  <2>9. Calm(s, t)
    BY <2>1, <2>5, OneIsCalm
  <2> QED
    BY <2>4, <2>8, <2>9
<1> QED
  BY <1>2, <1>3

LEMMA AcknowledgeIsCalm ==
    ASSUME NEW s \in StateSpace, NEW quote, quote.id \in OrderIds,
           s.life[quote.id] # None, NEW c \in Nat
    PROVE  Calm(s, Acknowledge(s, quote, c))
<1>1. PICK id \in OrderIds : id = quote.id
  OBVIOUS
<1>2. s.life \in [OrderIds -> Orders \cup {None}] /\ s.life[id] \in Orders
  BY <1>1 DEF StateSpace
<1>3. PICK o \in Orders : o = AfterPlaceSuccess(s.life[id]) /\ Quiet(s.life[id], o)
  BY <1>2, QuietEvidence
<1>4. PICK t : t = [s EXCEPT !.life[id] = o]
  OBVIOUS
<1>5. t \in StateSpace /\ t.life = [s.life EXCEPT ![id] = o] /\ t.life[id] # None
  BY <1>2, <1>4, NoneAssumption DEF StateSpace
<1>6. Calm(s, t)
  BY <1>3, <1>5, OneIsCalm
<1>7. PICK w : w = ConfirmCancel(t, id)
  OBVIOUS
<1>8. w \in StateSpace /\ Calm(t, w)
  BY <1>5, <1>7, ConfirmCancelIsCalm
<1>9. PICK u : u = Acknowledge(s, quote, c)
  OBVIOUS
<1>10. u = CASE o.state = "Open" ->
                  [t EXCEPT !.book[id] = OnBook(quote.size, None),
                            !.mapped = @ \cup {id},
                            !.story[id] = Append(@, PlacedEvent(quote.size)),
                            !.lane = Live(id)]
             [] o.state = "CancelPending" /\ c > 0 ->
                  [t EXCEPT !.book[id] = OnBook(quote.size, c),
                            !.mapped = @ \cup {id},
                            !.lane = Canceling(id, c, None)]
             [] o.state = "CancelPending" /\ c = 0 -> [w EXCEPT !.lane = Idle]
             [] OTHER -> [t EXCEPT !.lane = Idle]
  BY <1>1, <1>3, <1>4, <1>7, <1>9 DEF Acknowledge
<1>11. u.life = t.life \/ u.life = w.life
  <2>1. CASE o.state = "Open"
    BY <1>5, <1>10, <2>1 DEF StateSpace
  <2>2. CASE o.state = "CancelPending" /\ c > 0
    <3>1. u = [t EXCEPT !.book[id] = OnBook(quote.size, c),
                        !.mapped = @ \cup {id},
                        !.lane = Canceling(id, c, None)]
      BY <1>10, <2>2
    <3> QED
      BY <1>5, <3>1 DEF StateSpace
  <2>3. CASE o.state = "CancelPending" /\ c = 0
    <3>1. u = [w EXCEPT !.lane = Idle]
      BY <1>10, <2>3
    <3> QED
      BY <1>8, <3>1 DEF StateSpace
  <2>4. CASE /\ o.state # "Open" /\ ~(o.state = "CancelPending" /\ c > 0)
             /\ ~(o.state = "CancelPending" /\ c = 0)
    BY <1>5, <1>10, <2>4 DEF StateSpace
  <2> QED
    BY <2>1, <2>2, <2>3, <2>4
<1>12. Calm(t, u)
  BY <1>8, <1>11, NoneIsCalm DEF Calm
<1> QED
  BY <1>6, <1>9, <1>12, CalmChain

LEMMA ReplaceIsCalm ==
    ASSUME NEW s \in StateSpace, NEW next, NEW p, NEW c \in Nat,
           next # None => next.id \in OrderIds /\ s.life[next.id] # None
    PROVE  Calm(s, Replace(s, next, p, c))
<1>1. CASE next # None /\ p = 0
  BY <1>1, AcknowledgeIsCalm DEF Replace
<1>2. CASE ~(next # None /\ p = 0)
  <2>1. Replace(s, next, p, c).life = s.life
    BY <1>2 DEF Replace, StateSpace
  <2> QED
    BY <2>1, NoneIsCalm
<1> QED
  BY <1>1, <1>2

LEMMA AdvanceTimeIsCalm ==
    ASSUME NEW s, Good(s), NEW p, NEW c \in Nat
    PROVE  Calm(s, AdvanceTime(s, p, c))
<1>1. s \in StateSpace /\ s.lane \in Lanes /\ LaneOK(s) /\ BookOK(s)
  BY DEF Good, StateSpace
<1>2. CASE s.lane.at = "Placing" /\ s.lane.due = 0
  <2>1. PICK quote, k : /\ quote = s.lane.quote
                        /\ k = IF s.lane.cancel = None THEN c ELSE s.lane.cancel
    OBVIOUS
  <2>2. quote.id \in OrderIds /\ s.life[quote.id] # None /\ k \in Nat
    BY <1>1, <1>2, <2>1, HeldOrders DEF LaneOK, Waiting, Deadline
  <2>3. PICK t : t = Acknowledge(s, quote, k)
    OBVIOUS
  <2>4. Calm(s, t)
    BY <1>1, <2>2, <2>3, AcknowledgeIsCalm
  <2>5. AdvanceTime(s, p, c) =
          IF t.lane = Idle THEN [t EXCEPT !.mapped = @ \ {quote.id}] ELSE t
    BY <1>2, <2>1, <2>3 DEF AdvanceTime
  <2>6. AdvanceTime(s, p, c).life = t.life
    BY <2>5
  <2> QED
    BY <2>4, <2>6 DEF Calm
<1>3. CASE s.lane.at = "Canceling" /\ s.lane.due = 0
  <2>1. PICK id, next : id = s.lane.id /\ next = s.lane.next
    OBVIOUS
  <2>2. /\ id \in OrderIds /\ s.life[id] # None
        /\ next # None => next.id \in OrderIds /\ s.life[next.id] # None
    <3>1. id \in OrderIds /\ (next # None => next.id \in OrderIds)
      BY <1>1, <1>3, <2>1, HeldOrders
    <3>2. Working(s.life[id])
      BY <1>1, <1>3, <2>1, <3>1 DEF BookOK
    <3>3. next # None => Waiting(s.life[next.id])
      BY <1>1, <1>3, <2>1 DEF LaneOK
    <3> QED
      BY <3>1, <3>2, <3>3 DEF Waiting, Working
  <2>3. PICK w : w = ConfirmCancel(s, id)
    OBVIOUS
  <2>4. w \in StateSpace /\ Calm(s, w)
    BY <1>1, <2>2, <2>3, ConfirmCancelIsCalm
  <2>5. PICK t : t = [w EXCEPT !.book[id] = None, !.mapped = @ \ {id}]
    OBVIOUS
  <2>6. t \in StateSpace /\ t.life = w.life
    BY <2>4, <2>5 DEF StateSpace
  <2>7. AdvanceTime(s, p, c) = Replace(t, next, p, c)
    BY <1>3, <2>1, <2>3, <2>5 DEF AdvanceTime
  <2>8. Calm(s, t)
    BY <2>4, <2>6 DEF Calm
  <2>9. next # None => t.life[next.id] # None
    BY <2>2, <2>8, NoneAssumption DEF Calm, Quiet
  <2>10. Calm(t, Replace(t, next, p, c))
    BY <2>2, <2>6, <2>9, ReplaceIsCalm
  <2> QED
    BY <2>7, <2>8, <2>10, CalmChain
<1>4. CASE ~(s.lane.at = "Placing" /\ s.lane.due = 0)
           /\ ~(s.lane.at = "Canceling" /\ s.lane.due = 0)
  BY <1>4, NoneIsCalm DEF AdvanceTime
<1> QED
  BY <1>2, <1>3, <1>4

\* A fill trades of its order, and what follows the order's end trades nothing.
LEMMA FillOneFollows ==
    ASSUME NEW s, Good(s), NEW i \in Fillable(s), NEW n \in Nat, NEW p, NEW c \in Nat
    PROVE  \A j \in OrderIds : Follows(s.life[j], FillOne(s, i, n, p, c).life[j])
<1>1. /\ s \in StateSpace /\ s.lane \in Lanes
      /\ s.book \in [OrderIds -> Resting \cup {None}]
      /\ s.life \in [OrderIds -> Orders \cup {None}]
      /\ s.story \in [OrderIds -> Seq(Events)]
  BY DEF Good, StateSpace
<1>2. i \in OrderIds /\ s.book[i] # None
  BY DEF Fillable
<1>3. /\ s.lane.at \in {"Live", "Canceling"} /\ s.lane.id = i /\ Working(s.life[i])
      /\ s.lane.at = "Canceling" /\ s.lane.next # None => Waiting(s.life[s.lane.next.id])
  BY <1>2 DEF Good, BookOK, LaneOK
<1>4. s.life[i] \in Orders /\ ~IsTerminal(s.life[i])
  BY <1>1, <1>2, <1>3 DEF Working, IsTerminal, TerminalReasons
<1>5. PICK before, size : before = s.book[i].remaining /\ size = Min({before, n})
  OBVIOUS
<1>6. size \in Nat
  <2>1. before \in Nat
    BY <1>1, <1>2, <1>5 DEF Resting
  <2>2. size = IF before <= n THEN before ELSE n
    BY <1>5, <2>1, MinOfTwo
  <2> QED
    BY <2>1, <2>2
<1>7. PICK o : o = AfterFill(s.life[i], size)
  OBVIOUS
<1>8. size > 0 => o \in Orders /\ Fills(s.life[i], o)
  BY <1>4, <1>6, <1>7, FillTrades
<1>9. PICK applied, event : /\ applied = Applied(before, o.remaining, size)
                            /\ event = FillEvent(applied, o.remaining)
  OBVIOUS
<1>10. PICK t : t = [s EXCEPT !.life[i] = o]
  OBVIOUS
<1>11. PICK u : u = [t EXCEPT !.story[i] = Append(@, event)]
  OBVIOUS
<1>12. PICK v : v = [u EXCEPT !.book[i] = None, !.mapped = @ \ {i}]
  OBVIOUS
<1>13. PICK w : w = FillOne(s, i, n, p, c)
  OBVIOUS
<1>14. w = CASE size = 0 -> s
             [] size > 0 /\ applied = 0 -> t
             [] size > 0 /\ applied > 0 /\ o.state = "Filled" ->
                  (CASE i \in s.mapped /\ s.lane.at = "Live" -> [v EXCEPT !.lane = Idle]
                     [] i \in s.mapped /\ s.lane.at = "Canceling" ->
                          Replace(v, s.lane.next, p, c)
                     [] OTHER -> v)
             [] OTHER -> [IF IsTerminal(o) THEN t ELSE u EXCEPT
                            !.book[i].remaining = o.remaining]
  BY <1>5, <1>7, <1>9, <1>10, <1>11, <1>12, <1>13 DEF FillOne
<1>15. /\ t.life = [s.life EXCEPT ![i] = o] /\ u.life = t.life /\ v.life = t.life
       /\ [t EXCEPT !.book[i].remaining = o.remaining].life = t.life
       /\ [u EXCEPT !.book[i].remaining = o.remaining].life = t.life
       /\ [v EXCEPT !.lane = Idle].life = t.life
  BY <1>1, <1>10, <1>11, <1>12 DEF StateSpace
<1>16. ASSUME size > 0, w.life = t.life
       PROVE  \A j \in OrderIds : Follows(s.life[j], w.life[j])
  BY <1>1, <1>8, <1>15, <1>16 DEF Follows, Quiet
<1>17. CASE size = 0
  <2>1. w = s
    BY <1>14, <1>17
  <2> QED
    BY <1>13, <2>1 DEF Follows, Quiet
<1>18. CASE size > 0 /\ ~(w.life = t.life)
  <2>1. /\ w = Replace(v, s.lane.next, p, c) /\ o.state = "Filled"
        /\ s.lane.at = "Canceling" /\ applied > 0
    <3>1. CASE applied = 0
      <4>1. w = t
        BY <1>14, <1>18, <3>1
      <4> QED
        BY <1>18, <4>1
    <3>2. CASE applied # 0 /\ ~(applied > 0 /\ o.state = "Filled")
      <4>1. w = [IF IsTerminal(o) THEN t ELSE u EXCEPT !.book[i].remaining = o.remaining]
        BY <1>14, <1>18, <3>2
      <4> QED
        BY <1>15, <1>18, <4>1
    <3>3. CASE applied > 0 /\ o.state = "Filled"
      <4>1. w = CASE i \in s.mapped /\ s.lane.at = "Live" -> [v EXCEPT !.lane = Idle]
                  [] i \in s.mapped /\ s.lane.at = "Canceling" ->
                       Replace(v, s.lane.next, p, c)
                  [] OTHER -> v
        BY <1>14, <1>18, <3>3
      <4> QED
        BY <1>3, <1>15, <1>18, <3>3, <4>1
    <3> QED
      BY <3>1, <3>2, <3>3
  <2>2. PICK next : next = s.lane.next
    OBVIOUS
  <2>3. v \in StateSpace
    <3>1. o \in Orders /\ [s.life EXCEPT ![i] = o] \in [OrderIds -> Orders \cup {None}]
      BY <1>1, <1>8, <1>18
    <3>2. event \in Events
      <4>1. applied \in Nat
        <5>1. before \in Nat /\ o.remaining \in Nat
          BY <1>1, <1>2, <1>5, <3>1, OrderTypes DEF Resting
        <5> QED
          BY <1>9, <5>1, MaxOfTwo DEF Applied
      <4> QED
        BY <1>9, <4>1 DEF FillEvent, Events
    <3>3. PICK told \in Seq(Events) : told = Append(s.story[i], event)
      BY <1>1, <1>2, <3>2, AppendProperties
    <3>4. t \in StateSpace /\ t.story = s.story
      BY <1>1, <1>10, <3>1 DEF StateSpace
    <3>5. u = [t EXCEPT !.story[i] = told]
      BY <1>11, <3>3, <3>4
    <3>6. u \in StateSpace
      BY <3>3, <3>4, <3>5 DEF StateSpace
    <3> QED
      BY <1>12, <3>6 DEF StateSpace
  <2>4. ASSUME next # None
        PROVE  next.id \in OrderIds /\ v.life[next.id] = s.life[next.id] /\ next.id # i
               /\ s.life[next.id] # None
    <3>1. next.id \in OrderIds /\ Waiting(s.life[next.id])
      BY <1>1, <1>3, <2>1, <2>2, <2>4, HeldOrders
    <3>2. next.id # i
      BY <1>3, <3>1 DEF Waiting, Working
    <3> QED
      BY <1>1, <1>15, <3>1, <3>2 DEF Waiting
  <2>5. Calm(v, w)
    BY <2>1, <2>2, <2>3, <2>4, ReplaceIsCalm
  <2>6. o \in Orders /\ Fills(s.life[i], o) /\ IsTerminal(o)
    BY <1>8, <1>18, <2>1 DEF IsTerminal, TerminalReasons
  <2>7. w.life[i] = o
    <3>1. v.life[i] = o
      BY <1>1, <1>2, <1>15
    <3> QED
      BY <1>2, <2>5, <2>6, <3>1 DEF Calm, Quiet
  <2>8. \A j \in OrderIds : j # i => Quiet(s.life[j], w.life[j])
    BY <1>1, <1>15, <2>5 DEF Calm
  <2> QED
    BY <1>2, <1>13, <2>6, <2>7, <2>8 DEF Follows
<1> QED
  BY <1>6, <1>13, <1>16, <1>17, <1>18

-------------------------------------------------------------------------------

LEMMA HandleTradeFollows ==
    ASSUME IInv, NEW n \in TradeSizes \cup {0}, NEW p \in PlaceLatencies,
           NEW c \in CancelLatencies, HandleTrade(n, p, c)
    PROVE  \A j \in OrderIds : Follows(life[j], life'[j])
<1>1. n \in Nat /\ p \in Nat /\ c \in Nat
  BY LaneAssumption
<1>2. PICK s : s = AdvanceTime(Now, p, c)
  OBVIOUS
<1>3. Good(s)
  BY <1>1, <1>2, AdvanceTimeIsGood DEF IInv
<1>4. \A j \in OrderIds : Quiet(life[j], s.life[j])
  BY <1>1, <1>2, AdvanceTimeIsCalm, NowIs DEF IInv, Calm
<1>5. PICK i : i = CHOOSE j \in Fillable(s) : TRUE
  OBVIOUS
<1>6. PICK t : t = IF n = 0 \/ Fillable(s) = {} THEN s ELSE FillOne(s, i, n, p, c)
  OBVIOUS
<1>7. Become(t)
  BY <1>2, <1>5, <1>6 DEF HandleTrade
<1>8. \A j \in OrderIds : Follows(s.life[j], t.life[j])
  <2>1. CASE n = 0 \/ Fillable(s) = {}
    BY <1>6, <2>1 DEF Follows, Quiet
  <2>2. CASE ~(n = 0 \/ Fillable(s) = {})
    <3>1. i \in Fillable(s)
      BY <1>5, <2>2
    <3> QED
      BY <1>1, <1>3, <1>6, <2>2, <3>1, FillOneFollows
  <2> QED
    BY <2>1, <2>2
<1>9. life' = t.life
  BY <1>7 DEF Become
<1> QED
  BY <1>4, <1>8, <1>9, Chain

\* A quote that gets an order of its own is accepted.
LEMMA RecordAccepts ==
    ASSUME IInv, Unused # {}, NEW size \in Sizes
    PROVE  /\ Record(Now, size) \in StateSpace
           /\ \A j \in OrderIds : \/ Accepts(life[j], Record(Now, size).life[j])
                                  \/ Record(Now, size).life[j] = life[j]
<1>1. PICK id : id = Min(Unused)
  OBVIOUS
<1>2. Unused \in SUBSET Nat
  BY LaneAssumption DEF Unused
<1>3. id \in OrderIds /\ life[id] = None
  BY <1>1, <1>2, MinIsLeast DEF Unused
<1>4. Record(Now, size).life = [life EXCEPT ![id] = Submitted(size)]
  BY <1>1 DEF Record, Now
<1>5. Record(Now, size) \in StateSpace
  BY RecordIsGood DEF Good
<1> QED
  BY <1>3, <1>4, <1>5, Types DEF Accepts

\* What a step does to the record of an order.
LEMMA StepFollows ==
    ASSUME IInv, [Next]_vars, NEW j \in OrderIds
    PROVE  Follows(life[j], life'[j]) \/ Accepts(life[j], life'[j])
<1>1. life \in [OrderIds -> Orders \cup {None}]
  BY Types
<1>2. CASE life' = life
  BY <1>2 DEF Follows, Quiet
<1>3. CASE Trades
  BY <1>3, HandleTradeFollows DEF Trades
<1>4. ASSUME NEW size \in Sizes, Unused # {}, NEW r, r = Record(Now, size),
             life' = r.life
      PROVE  Follows(life[j], life'[j]) \/ Accepts(life[j], life'[j])
  BY <1>4, RecordAccepts DEF Follows, Quiet
<1>5. ASSUME NEW size \in Sizes, NEW p \in PlaceLatencies, PlaceIdle(size, p)
      PROVE  Follows(life[j], life'[j]) \/ Accepts(life[j], life'[j])
  <2>1. PICK r : r = Record(Now, size) /\ r \in StateSpace
    BY <1>5, RecordAccepts DEF PlaceIdle
  <2>2. life' = r.life
    BY <1>5, <2>1 DEF PlaceIdle, Become, StateSpace
  <2> QED
    BY <1>4, <1>5, <2>1, <2>2 DEF PlaceIdle
<1>6. ASSUME NEW size \in Sizes, NEW samePrice \in BOOLEAN, NEW c \in CancelLatencies,
             ReplaceLive(size, samePrice, c)
      PROVE  Follows(life[j], life'[j]) \/ Accepts(life[j], life'[j])
  <2>1. PICK r : r = Record(Now, size) /\ r \in StateSpace
    BY <1>6, RecordAccepts DEF ReplaceLive
  <2>2. life' = r.life
    BY <1>6, <2>1 DEF ReplaceLive, Become, StateSpace
  <2> QED
    BY <1>4, <1>6, <2>1, <2>2 DEF ReplaceLive
<1>7. ASSUME NEW size \in Sizes, CoalesceCanceling(size)
      PROVE  Follows(life[j], life'[j]) \/ Accepts(life[j], life'[j])
  <2>1. CASE lane.next # None
    BY <1>2, <1>7, <2>1 DEF CoalesceCanceling
  <2>2. CASE lane.next = None
    <3>1. PICK r : r = Record(Now, size) /\ r \in StateSpace
      BY <1>7, <2>2, RecordAccepts DEF CoalesceCanceling
    <3>2. life' = r.life
      BY <1>7, <2>2, <3>1 DEF CoalesceCanceling, Become, StateSpace
    <3> QED
      BY <1>4, <1>7, <2>2, <3>1, <3>2 DEF CoalesceCanceling
  <2> QED
    BY <2>1, <2>2
<1>8. ASSUME NEW id \in OrderIds, NEW c \in CancelLatencies, CancelOrder(id, c)
      PROVE  Follows(life[j], life'[j])
  <2>1. life[id] \in Orders /\ life' = [life EXCEPT ![id] = AfterCancelRequest(life[id])]
    BY <1>1, <1>8 DEF CancelOrder
  <2>2. Quiet(life[id], AfterCancelRequest(life[id]))
    BY <2>1, QuietEvidence
  <2> QED
    BY <1>1, <2>1, <2>2 DEF Follows, Quiet
<1>9. ASSUME NEW id \in OrderIds, CancelUnmapped(id)
      PROVE  Follows(life[j], life'[j])
  <2>1. PICK m : m = AfterCancelRequest(life[id])
    OBVIOUS
  <2>2. life[id] \in Orders /\ m \in Orders /\ Quiet(life[id], m)
    BY <1>1, <1>9, <2>1, QuietEvidence DEF CancelUnmapped
  <2>3. PICK q : q = IF book[id] = None THEN m ELSE AfterTerminal(m, "Cancelled")
    OBVIOUS
  <2>4. Quiet(m, q)
    BY <2>2, <2>3, QuietEvidence DEF Quiet
  <2>5. Quiet(life[id], q)
    BY <2>2, <2>4, Chain
  <2>6. life' = [life EXCEPT ![id] = q]
    BY <1>9, <2>1, <2>3 DEF CancelUnmapped
  <2> QED
    BY <1>1, <2>5, <2>6 DEF Follows, Quiet
<1> QED
  BY <1>2, <1>3, <1>5, <1>6, <1>7, <1>8, <1>9 DEF Next, vars, Tick, CoalescePlacing

\* ... is a step of the contract, or shows nothing.
LEMMA StepRefines ==
    ASSUME IInv, IInv', [Next]_vars, NEW i \in OrderIds
    PROVE  Contract(i)!Next \/ UNCHANGED <<PhaseOf(i), LeftOf(i)>>
<1>1. PICK o, q : o = life[i] /\ q = life'[i]
  OBVIOUS
<1>2. o \in Orders \cup {None} /\ q \in Orders \cup {None}
  <2>1. life' \in [OrderIds -> Orders \cup {None}]
    BY NextIs DEF IInv, Good
  <2> QED
    BY <1>1, <2>1, Types
<1>3. /\ PhaseOf(i) = IF o = None THEN "unused"
                      ELSE IF IsTerminal(o) THEN o.state ELSE "working"
      /\ LeftOf(i) = IF o = None THEN 0 ELSE o.remaining
      /\ PhaseOf(i)' = IF q = None THEN "unused"
                       ELSE IF IsTerminal(q) THEN q.state ELSE "working"
      /\ LeftOf(i)' = IF q = None THEN 0 ELSE q.remaining
  BY <1>1 DEF PhaseOf, LeftOf, IsTerminal
<1>4. PICK f, g, x, y : f = PhaseOf(i) /\ g = PhaseOf(i)' /\ x = LeftOf(i) /\ y = LeftOf(i)'
  OBVIOUS
<1>5. /\ [j \in {i} |-> PhaseOf(j)][i] = f /\ [j \in {i} |-> LeftOf(j)][i] = x
      /\ [j \in {i} |-> PhaseOf(j)]' = [[j \in {i} |-> PhaseOf(j)] EXCEPT ![i] = g]
      /\ [j \in {i} |-> LeftOf(j)]' = [[j \in {i} |-> LeftOf(j)] EXCEPT ![i] = y]
  BY <1>4
<1>6. /\ f = g => UNCHANGED [j \in {i} |-> PhaseOf(j)]
      /\ x = y => UNCHANGED [j \in {i} |-> LeftOf(j)]
  BY <1>4
<1>7. CASE Accepts(o, q)
  <2>1. PICK size \in Sizes : q = Submitted(size)
    BY <1>7 DEF Accepts
  <2>2. /\ Submitted(size) \in Orders /\ ~IsTerminal(Submitted(size))
        /\ Submitted(size).remaining = size
    BY LaneAssumption DEF Submitted, Orders, States, IsTerminal, TerminalReasons
  <2>3. f = "unused" /\ g = "working" /\ y = size
    BY <1>3, <1>4, <1>7, <2>1, <2>2, NoneAssumption DEF Accepts
  <2>4. Contract(i)!Accept(i, size)
    BY <1>5, <2>3 DEF Contract!Accept
  <2> QED
    BY <2>1, <2>4 DEF Contract!Next
<1>8. CASE Quiet(o, q) /\ (q = o \/ ~IsTerminal(q))
  <2>1. f = g /\ x = y
    BY <1>3, <1>4, <1>8, NoneAssumption DEF Quiet
  <2> QED
    BY <1>4, <2>1
<1>9. CASE Quiet(o, q) /\ q # o /\ IsTerminal(q)
  <2>1. f = "working" /\ g = q.state /\ x = y
    BY <1>3, <1>4, <1>9, NoneAssumption DEF Quiet
  <2>2. PICK outcome \in TerminalReasons : outcome = g
    BY <1>9, <2>1 DEF IsTerminal
  <2>3. Contract(i)!Close(i, outcome)
    BY <1>5, <1>6, <2>1, <2>2 DEF Contract!Close
  <2> QED
    BY <2>3 DEF Contract!Next
<1>10. CASE Fills(o, q)
  <2>1. f = "working" /\ x = o.remaining /\ y = q.remaining
    BY <1>3, <1>4, <1>10, NoneAssumption DEF Fills
  <2>2. CASE q.remaining = 0 /\ q.state = "Filled"
    <3>1. g = "Filled" /\ y = 0
      BY <1>3, <1>4, <1>10, <2>1, <2>2, NoneAssumption
         DEF Fills, IsTerminal, TerminalReasons
    <3>2. Contract(i)!Complete(i)
      BY <1>5, <2>1, <3>1 DEF Contract!Complete
    <3> QED
      BY <3>2 DEF Contract!Next
  <2>3. CASE q.remaining \in 1 .. o.remaining - 1 /\ ~IsTerminal(q)
    <3>1. g = "working" /\ y \in 1 .. x - 1 /\ y < x
      <4>1. x \in Nat
        BY <1>10, <2>1, OrderTypes DEF Fills
      <4> QED
        BY <1>3, <1>4, <1>10, <2>1, <2>3, <4>1, NoneAssumption DEF Fills
    <3>2. Contract(i)!Trade(i, y)
      BY <1>5, <1>6, <2>1, <3>1 DEF Contract!Trade
    <3> QED
      BY <1>5, <3>1, <3>2 DEF Contract!Next
  <2> QED
    BY <1>10, <2>2, <2>3 DEF Fills
<1> QED
  BY <1>1, <1>7, <1>8, <1>9, <1>10, StepFollows DEF Follows

\* Every order of the lane implements what readers of an order rely on, for any orders,
\* sizes and latencies, whatever places, replaces, cancels, fills and coalesces: it is
\* accepted once, trades only while it works and never back, and ends once.
THEOREM Refinement == Spec => ImplementsContract
<1> DEFINE Starts == \A i \in OrderIds : Contract(i)!Init
           Steps == \A i \in OrderIds :
                       Contract(i)!Next \/ UNCHANGED <<PhaseOf(i), LeftOf(i)>>
<1>1. Init => Starts
  BY DEF Init, Contract!Init, PhaseOf, LeftOf
<1>2. IInv /\ IInv' /\ [Next]_vars => Steps
  BY StepRefines
<1> HIDE DEF Starts, Steps
<1>3. Spec => Starts /\ [][Steps]_vars
  BY <1>1, <1>2, Invariance, PTL DEF Spec
<1> QED
  BY <1>3 DEF Starts, Steps, ImplementsContract

================================================================================
