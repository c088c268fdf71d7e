--------------------------- MODULE PaperTradingProofs ---------------------------
(***************************************************************************)
(* Proofs about paper trading, for any number and size of orders and       *)
(* trades: the variables' types; no trade fills an order whose             *)
(* cancellation went out; the books balance, counted by what the events    *)
(* that are not booked yet will take from them; and the orders implement   *)
(* OrderContract.                                                          *)
(***************************************************************************)
EXTENDS PaperTrading, SequenceTheorems, WellFoundedInduction, TLAPS

Placed == {id \in Orders : order[id] # None}

Fields == {"state", "cancel_requested", "remaining"}

\* What the proof needs of the types.
ShapeOK ==
    /\ DOMAIN order = Orders /\ DOMAIN life = Orders
    /\ \A id \in Placed : DOMAIN life[id] = Fields
    /\ resting \subseteq Placed /\ cancelling \subseteq Placed /\ told \subseteq Placed
    /\ trade # None => /\ {"todo", "gone"} \subseteq DOMAIN trade
                       /\ trade.todo \subseteq Placed

\* An order that rests no more, or will not once the trade is done, is over.
GoneIsOver ==
    /\ \A id \in Placed \ resting : IsTerminal(life[id])
    /\ trade # None => \A id \in trade.gone : id \in Placed /\ IsTerminal(life[id])

\* A cancellation goes out only for an order that is over.
ToldIsOver == \A id \in told : IsTerminal(life[id])

IInv == ShapeOK /\ GoneIsOver /\ ToldIsOver

\* What a step may do to an order: one that is over stays as it is.
OverIsFinal ==
    \A id \in Placed : /\ id \in Placed'
                       /\ IsTerminal(life[id]) => life'[id] = life[id]

-------------------------------------------------------------------------------

LEMMA InitIInv == Init => IInv
  BY DEF Init, IInv, ShapeOK, GoneIsOver, ToldIsOver, Placed

\* What evidence does to a record: its fields stay, and one that is over does not
\* change.
LEMMA Evidence ==
    ASSUME NEW o, DOMAIN o = Fields
    PROVE  /\ DOMAIN AfterPlaceSuccess(o) = Fields
           /\ DOMAIN AfterCancelRequest(o) = Fields
           /\ DOMAIN AfterTerminal(o, "Cancelled") = Fields
           /\ IsTerminal(AfterTerminal(o, "Cancelled"))
           /\ \A n : DOMAIN AfterFill(o, n) = Fields
           /\ IsTerminal(o) => /\ AfterPlaceSuccess(o) = o
                               /\ AfterCancelRequest(o) = o
                               /\ AfterTerminal(o, "Cancelled") = o
<1>1. DOMAIN AfterPlaceSuccess(o) = Fields /\ DOMAIN AfterCancelRequest(o) = Fields
  BY DEF AfterPlaceSuccess, AfterCancelRequest, Fields
<1>2. DOMAIN AfterTerminal(o, "Cancelled") = Fields
  BY DEF AfterTerminal, Fields
<1>3. IsTerminal(AfterTerminal(o, "Cancelled"))
  BY DEF AfterTerminal, Fields, IsTerminal, TerminalReasons
<1>4. \A n : DOMAIN AfterFill(o, n) = Fields
  BY DEF AfterFill, Fields
<1>5. IsTerminal(o) => /\ AfterPlaceSuccess(o) = o
                       /\ AfterCancelRequest(o) = o
                       /\ AfterTerminal(o, "Cancelled") = o
  BY DEF AfterPlaceSuccess, AfterCancelRequest, AfterTerminal, IsTerminal,
         TerminalReasons
<1> QED
  BY <1>1, <1>2, <1>3, <1>4, <1>5

LEMMA PlaceStep ==
    ASSUME IInv, NEW id \in Orders, NEW token \in Tokens, NEW side \in Sides,
           Place(id, token, side)
    PROVE  IInv' /\ OverIsFinal
<1> DEFINE submitted == [state |-> "SubmitPending", cancel_requested |-> FALSE,
                         remaining |-> Size]
<1>1. Placed' = Placed \cup {id} /\ id \notin Placed
  <2>1. [token |-> token, side |-> side] # None
    BY NoneAssumption DEF Entries
  <2> QED
    BY <2>1 DEF Place, Placed, IInv, ShapeOK
<1>2. DOMAIN life'[id] = Fields
  <2>1. DOMAIN submitted = Fields
    BY DEF Fields
  <2>2. DOMAIN AfterPlaceSuccess(submitted) = Fields
    BY <2>1, Evidence
  <2> QED
    BY <2>1, <2>2 DEF Place, IInv, ShapeOK
<1>3. \A i \in Placed : life'[i] = life[i]
  BY <1>1 DEF Place, IInv, ShapeOK, Placed
<1>4. ShapeOK'
  BY <1>1, <1>2, <1>3 DEF Place, IInv, ShapeOK
<1>5. GoneIsOver' /\ ToldIsOver'
  BY <1>1, <1>3 DEF Place, IInv, ShapeOK, GoneIsOver, ToldIsOver, IsTerminal
<1> QED
  BY <1>1, <1>3, <1>4, <1>5 DEF IInv, OverIsFinal

\* A step that changes the record of at most one order, as evidence does.
LEMMA RecordStep ==
    ASSUME IInv, NEW id \in Placed, NEW o,
           life' = [life EXCEPT ![id] = o] \/ (life' = life /\ o = life[id]),
           DOMAIN o = Fields, IsTerminal(life[id]) => o = life[id],
           order' = order,
           cancelling' \subseteq cancelling \cup {id},
           told' \subseteq told \cup {id}, id \in told' => IsTerminal(o),
           resting' \subseteq resting, resting \ {id} \subseteq resting',
           id \in resting' \/ IsTerminal(o),
           \/ trade' = trade
           \/ /\ {"todo", "gone"} \subseteq DOMAIN trade'
              /\ trade # None
              /\ trade'.todo \subseteq trade.todo
              /\ trade'.gone \subseteq trade.gone \cup {id}
              /\ id \in trade'.gone => IsTerminal(o)
    PROVE  IInv' /\ OverIsFinal
<1>1. Placed' = Placed
  BY DEF Placed
<1>2. /\ life'[id] = o
      /\ \A i \in Placed : i # id => life'[i] = life[i]
  BY DEF IInv, ShapeOK, Placed
<1>3. OverIsFinal
  BY <1>1, <1>2 DEF OverIsFinal
<1>4. \A i \in Placed : IsTerminal(life[i]) => IsTerminal(life'[i])
  BY <1>3 DEF OverIsFinal
<1>5. ShapeOK'
  BY <1>1, <1>2 DEF IInv, ShapeOK
<1>6. \A i \in Placed' \ resting' : IsTerminal(life'[i])
  BY <1>1, <1>2, <1>4 DEF IInv, GoneIsOver
<1>7. trade' # None => \A i \in trade'.gone : i \in Placed' /\ IsTerminal(life'[i])
  BY <1>1, <1>2, <1>4 DEF IInv, GoneIsOver
<1>8. ToldIsOver'
  <2>1. \A i \in told' : IsTerminal(life'[i])
    BY <1>1, <1>2, <1>4 DEF IInv, ShapeOK, ToldIsOver
  <2> QED
    BY <2>1 DEF ToldIsOver, IsTerminal
<1>9. GoneIsOver'
  BY <1>6, <1>7 DEF GoneIsOver, IsTerminal
<1> QED
  BY <1>3, <1>5, <1>8, <1>9 DEF IInv

LEMMA CancelStep ==
    ASSUME IInv, NEW id \in Orders, CancelOrder(id) \/ CancelUnderLock(id)
    PROVE  IInv' /\ OverIsFinal
<1>1. id \in Placed /\ DOMAIN life[id] = Fields
  BY DEF IInv, ShapeOK, CancelOrder, CancelUnderLock, Placed
<1>2. CASE CancelOrder(id)
  <2> DEFINE o == AfterCancelRequest(life[id])
  <2>1. /\ life' = [life EXCEPT ![id] = o]
        /\ order' = order /\ resting' = resting /\ trade' = trade
        /\ cancelling' \subseteq cancelling \cup {id}
        /\ told' = told \/ (told' = told \cup {id} /\ IsTerminal(life[id]))
    BY <1>2 DEF CancelOrder, Tell
  <2>2. DOMAIN o = Fields /\ (IsTerminal(life[id]) => o = life[id])
    BY <1>1, Evidence
  <2>3. id \in told' => IsTerminal(o)
    BY <2>1, <2>2 DEF IInv, ToldIsOver
  <2>4. id \in resting' \/ IsTerminal(o)
    BY <1>1, <2>1, <2>2 DEF IInv, GoneIsOver
  <2> QED
    BY <1>1, <2>1, <2>2, <2>3, <2>4, RecordStep
<1>3. CASE CancelUnderLock(id)
  <2>1. /\ order' = order /\ trade' = trade
        /\ cancelling' \subseteq cancelling \cup {id}
        /\ told' \subseteq told \cup {id}
    BY <1>3 DEF CancelUnderLock, Tell
  <2>2. CASE id \in resting /\ ~deferred
    <3> DEFINE o == AfterTerminal(life[id], "Cancelled")
    <3>1. life' = [life EXCEPT ![id] = o] /\ resting' = resting \ {id}
      BY <1>3, <2>2 DEF CancelUnderLock
    <3>2. /\ DOMAIN o = Fields /\ IsTerminal(o)
          /\ IsTerminal(life[id]) => o = life[id]
      BY <1>1, Evidence
    <3> QED
      BY <1>1, <2>1, <3>1, <3>2, RecordStep
  <2>3. CASE ~ (id \in resting /\ ~deferred)
    <3> DEFINE o == life[id]
    <3>1. resting' = resting /\ life' = life
      BY <1>3, <2>3 DEF CancelUnderLock
    <3>2. id \in resting' \/ IsTerminal(o)
      BY <1>1, <3>1 DEF IInv, GoneIsOver
    <3>3. id \in told' => IsTerminal(o)
      <4>1. CASE deferred
        BY <1>3, <4>1 DEF CancelUnderLock, Tell, TellsAtOnce, IInv, ToldIsOver
      <4>2. CASE ~deferred
        BY <1>1, <2>3, <4>2 DEF IInv, GoneIsOver
      <4> QED
        BY <4>1, <4>2
    <3> QED
      BY <1>1, <2>1, <3>1, <3>2, <3>3, RecordStep
  <2> QED
    BY <2>2, <2>3
<1> QED
  BY <1>2, <1>3

\* A trade looks at an order: the order's cancellation is confirmed, it is filled, or
\* neither.
LEMMA CheckStep ==
    ASSUME IInv, NEW id \in Orders, NEW placed \in BOOLEAN,
           PassOver(id, placed) \/ ConfirmCancel(id, placed) \/ FillOrder(id, placed)
    PROVE  IInv' /\ OverIsFinal
<1> DEFINE a == Acknowledged(id, placed)
<1>1. /\ trade # None /\ id \in trade.todo
      /\ id \in Placed /\ DOMAIN life[id] = Fields
      /\ order' = order /\ resting' = resting /\ cancelling' = cancelling
  BY DEF IInv, ShapeOK, PassOver, ConfirmCancel, FillOrder, Checked, executor
<1>2. DOMAIN a = Fields /\ (IsTerminal(life[id]) => a = life[id])
  BY <1>1, Evidence DEF Acknowledged
<1>3. ASSUME NEW o, NEW events, NEW gone \in BOOLEAN, NEW lots,
             Checked(id, o, events, gone, lots), gone => IsTerminal(o)
      PROVE  /\ life' = [life EXCEPT ![id] = o]
             /\ {"todo", "gone"} \subseteq DOMAIN trade'
             /\ trade'.todo \subseteq trade.todo
             /\ trade'.gone \subseteq trade.gone \cup {id}
             /\ id \in trade'.gone => id \in trade.gone \/ IsTerminal(o)
  BY <1>1, <1>3 DEF Checked, IInv, ShapeOK
<1>4. id \in trade.gone \/ id \notin resting => IsTerminal(life[id])
  BY <1>1 DEF IInv, GoneIsOver
<1>5. CASE PassOver(id, placed)
  <2>1. Checked(id, a, <<>>, FALSE, 0) /\ told' = told
    BY <1>5 DEF PassOver
  <2>2. id \in told \/ id \in trade.gone \/ id \notin resting => IsTerminal(a)
    BY <1>2, <1>4 DEF IInv, ToldIsOver
  <2> QED
    BY <1>1, <1>2, <1>3, <2>1, <2>2, RecordStep
<1>6. CASE ConfirmCancel(id, placed)
  <2> DEFINE o == AfterTerminal(a, "Cancelled")
  <2>1. Checked(id, o, <<Cancelled(id)>>, TRUE, 0) /\ told' = told \cup {id}
    BY <1>6 DEF ConfirmCancel
  <2>2. /\ DOMAIN o = Fields /\ IsTerminal(o)
        /\ IsTerminal(life[id]) => o = life[id]
    BY <1>2, Evidence
  <2> QED
    BY <1>1, <1>3, <2>1, <2>2, RecordStep
<1>7. CASE FillOrder(id, placed)
  <2> DEFINE lots == FillSize(id)
             o    == AfterFill(a, lots)
             gone == IsTerminal(o)
             n    == IF order[id].side = "buy" THEN lots ELSE -lots
  <2>1. /\ Checked(id, o, <<Fill(id, lots)>>, gone, n) /\ told' = told
        /\ a.state \in {"Open", "CancelPending"}
    BY <1>7 DEF FillOrder
  <2>2. ~IsTerminal(life[id])
    BY <1>2, <2>1 DEF IsTerminal, TerminalReasons
  <2>3. DOMAIN o = Fields
    BY <1>2, Evidence
  <2>4. gone \in BOOLEAN
    BY DEF IsTerminal
  <2>5. id \notin told /\ id \notin trade.gone /\ id \in resting
    BY <1>4, <2>2 DEF IInv, ToldIsOver
  <2> HIDE DEF o, n, lots
  <2>6. /\ life' = [life EXCEPT ![id] = o]
        /\ {"todo", "gone"} \subseteq DOMAIN trade'
        /\ trade'.todo \subseteq trade.todo
        /\ trade'.gone \subseteq trade.gone \cup {id}
        /\ id \in trade'.gone => IsTerminal(o)
    BY <1>3, <2>1, <2>4, <2>5
  <2> QED
    BY <1>1, <2>1, <2>2, <2>3, <2>5, <2>6, RecordStep
<1> QED
  BY <1>5, <1>6, <1>7

\* The steps of the event loop leave orders and told alone; those of a trade's start
\* and end take over what rests, and drop what is over.
LEMMA LoopStep ==
    ASSUME IInv,
           \/ UNCHANGED vars
           \/ \E token \in Tokens, side \in Sides, size \in TradeSizes :
                 StartTrade(token, side, size)
           \/ EndTrade \/ BookUpdate \/ ProcessQueued \/ EndSignals
           \/ \E max \in Policies : Intent(max)
    PROVE  IInv' /\ OverIsFinal
<1>1. order' = order /\ life' = life /\ cancelling' = cancelling /\ told' = told
  BY DEF vars, executor, StartTrade, EndTrade, BookUpdate, ProcessQueued, Intent,
         EndSignals
<1>2. Placed' = Placed
  BY <1>1 DEF Placed
<1>3. ToldIsOver' /\ OverIsFinal
  BY <1>1, <1>2 DEF IInv, ToldIsOver, OverIsFinal, IsTerminal
<1>4. CASE \E token \in Tokens, side \in Sides, size \in TradeSizes :
              StartTrade(token, side, size)
  <2>1. resting' = resting /\ trade'.todo = resting /\ trade'.gone = {}
        /\ {"todo", "gone"} \subseteq DOMAIN trade'
    BY <1>4 DEF StartTrade, executor
  <2> QED
    BY <1>1, <1>2, <1>3, <2>1 DEF IInv, ShapeOK, GoneIsOver, IsTerminal
<1>5. CASE EndTrade
  <2>1. trade # None /\ trade' = None /\ resting' = resting \ trade.gone
    BY <1>5 DEF EndTrade
  <2> QED
    BY <1>1, <1>2, <1>3, <2>1 DEF IInv, ShapeOK, GoneIsOver, IsTerminal
<1>6. CASE UNCHANGED vars \/ BookUpdate \/ ProcessQueued \/ EndSignals
           \/ \E max \in Policies : Intent(max)
  <2>1. resting' = resting /\ trade' = trade
    BY <1>6 DEF vars, executor, BookUpdate, ProcessQueued, Intent, EndSignals
  <2> QED
    BY <1>1, <1>2, <1>3, <2>1 DEF IInv, ShapeOK, GoneIsOver, IsTerminal
<1> QED
  BY <1>4, <1>5, <1>6

LEMMA NextStep == IInv /\ [Next]_vars => IInv' /\ OverIsFinal
<1> SUFFICES ASSUME IInv, [Next]_vars PROVE IInv' /\ OverIsFinal
  OBVIOUS
<1> QED
  BY PlaceStep, CancelStep, CheckStep, LoopStep DEF Next

-------------------------------------------------------------------------------

\* Once OrderCancelled went out for a paper order, no trade fills the order, however
\* cancel tasks, trades and deferred acknowledgements interleave.
THEOREM CancelledIsNotFilled == Spec => CancelsAreFinal
<1> DEFINE Kept == \A id \in told : life'[id].remaining = life[id].remaining
<1>1. IInv /\ [Next]_vars => Kept
  BY NextStep DEF IInv, ShapeOK, ToldIsOver, OverIsFinal
<1>2. IInv /\ [Next]_vars => IInv'
  BY NextStep
<1> HIDE DEF Kept
<1>3. Spec => [][Kept]_vars
  BY <1>1, <1>2, InitIInv, PTL DEF Spec
<1> QED
  BY <1>3 DEF Kept, CancelsAreFinal

-------------------------------------------------------------------------------
(* The books *)

\* What a queued event books: lots bought, or lots and pairs of a token given away.
Spent(e) ==
    IF e.kind = "fill" /\ order[e.id].side = "buy" THEN e.lots ELSE 0

Given(e, token) ==
    CASE e.kind = "fill" /\ order[e.id].side = "sell" /\ order[e.id].token = token -> e.lots
      [] e.kind = "redeemed" -> e.pairs
      [] OTHER -> 0

Weights == [Events -> Nat]

Spends == [e \in Events |-> Spent(e)]
Gives(token) == [e \in Events |-> Given(e, token)]

Total(q, w) ==
    LET upto[i \in 0 .. Len(q)] == IF i = 0 THEN 0 ELSE upto[i - 1] + w[q[i]]
    IN  upto[Len(q)]

\* Events whose order, if they tell of a fill, was placed.
KnownEvents == {e \in Events : e.kind = "fill" => e.id \in Placed}

\* What the proof of the types needs beside them: the executor has a record of every
\* order that was placed, and of no other.
PlacedOK ==
    /\ \A id \in Orders : id \in Placed <=> life[id] # None
    /\ resting \cup cancelling \subseteq Placed
    /\ queue \in Seq(KnownEvents)
    /\ trade # None => trade.events \in Seq(KnownEvents)

TInv == TypeOK /\ PlacedOK

\* A trade's fills are all of its token and against its side, and within the books;
\* the books do not change while a trade is checked.
TradeOK ==
    trade # None =>
        /\ event = None
        /\ Total(trade.events, Spends) = IF trade.side = "sell" THEN trade.bought ELSE 0
        /\ \A token \in Tokens :
              Total(trade.events, Gives(token)) =
                  IF trade.side = "buy" /\ token = trade.token THEN -trade.bought ELSE 0
        /\ Total(trade.events, Spends) <= quote
        /\ ~hasty => \A token \in Tokens : Total(trade.events, Gives(token)) <= positions[token]

\* What is queued is within the quote balance, and within the positions unless pairs
\* were redeemed in haste; nothing is queued to be booked while a trade is checked.
QueueOK ==
    /\ trade # None => /\ Total(queue, Spends) = 0
                       /\ \A token \in Tokens : Total(queue, Gives(token)) = 0
    /\ Total(queue, Spends) <= quote
    /\ ~hasty => \A token \in Tokens : Total(queue, Gives(token)) <= positions[token]

Worth == ~hasty => quote + positions["up"] + positions["down"] = Quote

BInv == TInv /\ TradeOK /\ QueueOK /\ Worth

-------------------------------------------------------------------------------
(* Numbers, and the totals of a sequence of events *)

LEMMA LeastNumber ==
    ASSUME NEW T \in SUBSET Nat, T # {}
    PROVE  \E x \in T : \A y \in T : x <= y
<1> DEFINE R == OpToRel(<, Nat)
<1>1. IsWellFoundedOn(R, Nat)
  BY NatLessThanWellFounded
<1>2. \A x, y \in Nat : <<y, x>> \in R <=> y < x
  BY DEF OpToRel
<1> HIDE DEF R
<1>3. PICK x \in T : \A y \in T : ~(<<y, x>> \in R)
  BY <1>1, WFMin, Zenon
<1>4. ASSUME NEW y \in T PROVE x <= y
  <2>1. x \in Nat /\ y \in Nat /\ ~(y < x)
    BY <1>2, <1>3
  <2> QED
    BY <2>1
<1> QED
  BY <1>4

\* Induction: what holds of 0, and of n + 1 whenever of n, holds of every number.
LEMMA Induction ==
    ASSUME NEW S, 0 \in S, \A n \in Nat : n \in S => n + 1 \in S
    PROVE  Nat \subseteq S
<1> DEFINE T == Nat \ S
<1> SUFFICES ASSUME T # {} PROVE FALSE
  OBVIOUS
<1>1. PICK n \in T : \A y \in T : n <= y
  BY LeastNumber
<1>2. n # 0 /\ n - 1 \in Nat /\ n - 1 \in S /\ (n - 1) + 1 = n
  BY <1>1
<1> QED
  BY <1>1, <1>2

\* upto is the function by which Total counts, up to the n-th event.
Counts(upto, q, w, n) ==
    upto = [k \in 0 .. n |-> IF k = 0 THEN 0 ELSE upto[k - 1] + w[q[k]]]

LEMMA CountExists ==
    ASSUME NEW q, NEW w, NEW n \in Nat
    PROVE  \E upto : Counts(upto, q, w, n)
<1> DEFINE S == {m \in Nat : \E upto : Counts(upto, q, w, m)}
<1>1. 0 \in S
  <2>1. Counts([k \in 0 .. 0 |-> 0], q, w, 0)
    BY DEF Counts
  <2> QED
    BY <2>1
<1>2. ASSUME NEW m \in Nat, m \in S PROVE m + 1 \in S
  <2>1. PICK f : Counts(f, q, w, m)
    BY <1>2
  <2> DEFINE g == [k \in 0 .. m + 1 |->
                     IF k = m + 1 THEN f[m] + w[q[m + 1]] ELSE f[k]]
  <2>2. \A k \in 0 .. m : f[k] = IF k = 0 THEN 0 ELSE f[k - 1] + w[q[k]]
    BY <2>1 DEF Counts
  <2>3. \A k \in 0 .. m : g[k] = f[k]
    OBVIOUS
  <2>4. g[m + 1] = f[m] + w[q[m + 1]]
    OBVIOUS
  <2>5. g = [k \in 0 .. m + 1 |-> g[k]]
    OBVIOUS
  <2> HIDE DEF g
  <2>6. ASSUME NEW k \in 0 .. m + 1
        PROVE  g[k] = IF k = 0 THEN 0 ELSE g[k - 1] + w[q[k]]
    <3>1. CASE k = m + 1
      <4>1. k - 1 = m /\ m \in 0 .. m
        BY <3>1
      <4> QED
        BY <2>3, <2>4, <3>1, <4>1
    <3>2. CASE k = 0
      BY <2>2, <2>3, <3>2
    <3>3. CASE k \in 1 .. m
      <4>1. k - 1 \in 0 .. m
        BY <3>3
      <4> QED
        BY <2>2, <2>3, <3>3, <4>1
    <3> QED
      BY <3>1, <3>2, <3>3
  <2>7. Counts(g, q, w, m + 1)
    BY <2>5, <2>6 DEF Counts
  <2> QED
    BY <2>7
<1> HIDE DEF S
<1>3. Nat \subseteq S
  BY <1>1, <1>2, Induction
<1> QED
  BY <1>3 DEF S

LEMMA TotalCounts ==
    ASSUME NEW q \in Seq(Events), NEW w
    PROVE  \E upto : Counts(upto, q, w, Len(q)) /\ Total(q, w) = upto[Len(q)]
<1> DEFINE f == CHOOSE f : f = [i \in 0 .. Len(q) |->
                  IF i = 0 THEN 0 ELSE f[i - 1] + w[q[i]]]
<1>1. Total(q, w) = f[Len(q)]
  BY DEF Total
<1>2. \E upto : Counts(upto, q, w, Len(q))
  BY CountExists, LenProperties
<1>3. Counts(f, q, w, Len(q))
  BY <1>2 DEF Counts
<1> QED
  BY <1>1, <1>3

LEMMA WeightNat ==
    ASSUME NEW w \in Weights, NEW e \in Events PROVE w[e] \in Nat
  BY DEF Weights

LEMMA CountsNat ==
    ASSUME NEW q \in Seq(Events), NEW w \in Weights, NEW f,
           Counts(f, q, w, Len(q))
    PROVE  \A k \in 0 .. Len(q) : f[k] \in Nat
<1> DEFINE S == {k \in Nat : k <= Len(q) => f[k] \in Nat}
<1>1. Len(q) \in Nat
  BY LenProperties
<1>2. \A k \in 0 .. Len(q) : f[k] = IF k = 0 THEN 0 ELSE f[k - 1] + w[q[k]]
  BY DEF Counts
<1>3. \A k \in 1 .. Len(q) : w[q[k]] \in Nat
  BY ElementOfSeq, WeightNat
<1>4. 0 \in S
  BY <1>1, <1>2
<1>5. ASSUME NEW k \in Nat, k \in S PROVE k + 1 \in S
  <2> SUFFICES ASSUME k + 1 <= Len(q) PROVE f[k + 1] \in Nat
    OBVIOUS
  <2>1. k + 1 \in 1 .. Len(q) /\ k + 1 \in 0 .. Len(q) /\ (k + 1) - 1 = k
    BY <1>1
  <2> QED
    BY <1>1, <1>2, <1>3, <1>5, <2>1
<1> HIDE DEF S
<1>6. Nat \subseteq S
  BY <1>4, <1>5, Induction
<1> QED
  BY <1>1, <1>6 DEF S

LEMMA TotalNat ==
    ASSUME NEW q \in Seq(Events), NEW w \in Weights PROVE Total(q, w) \in Nat
  BY TotalCounts, CountsNat, LenProperties

\* Weighed by v, the first n events of d are those of q, weighed by w, from the one
\* after s to the m-th.
Shifted(q, w, s, m, d, v, n) ==
    n <= Len(d) /\ m <= Len(q) /\ m = s + n /\ \A k \in 1 .. n : w[q[s + k]] = v[d[k]]

LEMMA CountsShift ==
    ASSUME NEW q \in Seq(Events), NEW d \in Seq(Events),
           NEW w \in Weights, NEW v \in Weights,
           NEW f, Counts(f, q, w, Len(q)), NEW g, Counts(g, d, v, Len(d)),
           NEW s \in Nat, NEW n \in Nat, NEW m \in Nat, Shifted(q, w, s, m, d, v, n)
    PROVE  f[m] = f[s] + g[n]
<1> USE DEF Shifted
<1> DEFINE S == {k \in Nat : k <= n => f[s + k] = f[s] + g[k]}
<1>1. Len(q) \in Nat /\ Len(d) \in Nat
  BY LenProperties
<1>2. /\ \A k \in 0 .. Len(q) : f[k] = IF k = 0 THEN 0 ELSE f[k - 1] + w[q[k]]
      /\ \A k \in 0 .. Len(d) : g[k] = IF k = 0 THEN 0 ELSE g[k - 1] + v[d[k]]
  BY DEF Counts
<1>3. /\ \A k \in 0 .. Len(q) : f[k] \in Nat
      /\ \A k \in 0 .. Len(d) : g[k] \in Nat
  BY CountsNat
<1>4. 0 \in S
  <2>1. g[0] = 0 /\ f[s] \in Nat /\ s + 0 = s
    BY <1>1, <1>2, <1>3
  <2> QED
    BY <2>1
<1>5. ASSUME NEW k \in Nat, k \in S PROVE k + 1 \in S
  <2> SUFFICES ASSUME k + 1 <= n PROVE f[s + (k + 1)] = f[s] + g[k + 1]
    OBVIOUS
  <2>1. /\ k + 1 \in 0 .. Len(d) /\ k + 1 \in 1 .. n /\ k + 1 # 0 /\ (k + 1) - 1 = k
        /\ s + (k + 1) \in 0 .. Len(q) /\ s + (k + 1) # 0 /\ (s + (k + 1)) - 1 = s + k
        /\ s \in 0 .. Len(q) /\ k \in 0 .. Len(d)
    BY <1>1
  <2>2. f[s + k] = f[s] + g[k] /\ w[q[s + (k + 1)]] = v[d[k + 1]]
    BY <1>5, <2>1
  <2>3. f[s + (k + 1)] = f[s + k] + v[d[k + 1]]
    BY <1>2, <2>1, <2>2
  <2>4. g[k + 1] = g[k] + v[d[k + 1]]
    BY <1>2, <2>1
  <2>5. d[k + 1] \in Events /\ v[d[k + 1]] \in Nat
    BY <1>1, <2>1, ElementOfSeq, WeightNat
  <2>6. PICK a \in Nat, b \in Nat, x \in Nat :
          a = f[s] /\ b = g[k] /\ x = v[d[k + 1]]
    BY <1>3, <2>1, <2>5
  <2>7. f[s + (k + 1)] = (a + b) + x
    BY <2>2, <2>3, <2>6, Zenon
  <2>8. g[k + 1] = b + x
    BY <2>4, <2>6, Zenon
  <2>9. (a + b) + x = a + (b + x)
    OBVIOUS
  <2> QED
    BY <2>6, <2>7, <2>8, <2>9, Zenon
<1> HIDE DEF S
<1>6. Nat \subseteq S
  BY <1>4, <1>5, Induction
<1> QED
  BY <1>6 DEF S

LEMMA TotalConcat ==
    ASSUME NEW q \in Seq(Events), NEW d \in Seq(Events), NEW w \in Weights
    PROVE  Total(q \o d, w) = Total(q, w) + Total(d, w)
<1> DEFINE both == q \o d
<1>1. PICK n, m : n = Len(q) /\ m = Len(both)
  OBVIOUS
<1>2. /\ n \in Nat /\ Len(d) \in Nat /\ both \in Seq(Events) /\ m \in Nat
      /\ m = n + Len(d)
      /\ \A k \in 1 .. m : both[k] = IF k <= n THEN q[k] ELSE d[k - n]
  BY <1>1, ConcatProperties, LenProperties
<1> HIDE DEF both
<1>3. PICK f : Counts(f, both, w, m) /\ Total(both, w) = f[m]
  BY <1>1, <1>2, TotalCounts
<1>4. PICK g : Counts(g, q, w, n) /\ Total(q, w) = g[n]
  BY <1>1, TotalCounts
<1>5. PICK h : Counts(h, d, w, Len(d)) /\ Total(d, w) = h[Len(d)]
  BY TotalCounts
<1>6. PICK s \in Nat : s = 0
  OBVIOUS
<1>7. Shifted(both, w, s, n, q, w, n)
  <2>1. \A k \in 1 .. n : s + k = k /\ k \in 1 .. m
    BY <1>2, <1>6
  <2> QED
    BY <1>1, <1>2, <1>6, <2>1 DEF Shifted
<1>8. Shifted(both, w, n, m, d, w, Len(d))
  <2>1. \A k \in 1 .. Len(d) : both[n + k] = d[k]
    <3> SUFFICES ASSUME NEW k \in 1 .. Len(d) PROVE both[n + k] = d[k]
      OBVIOUS
    <3>1. n + k \in 1 .. m /\ ~(n + k <= n) /\ (n + k) - n = k
      BY <1>2
    <3> QED
      BY <1>2, <3>1
  <2> QED
    BY <1>1, <1>2, <2>1 DEF Shifted
<1>9. f[n] = f[s] + g[n]
  <2>1. Counts(f, both, w, Len(both)) /\ Counts(g, q, w, Len(q)) /\ both \in Seq(Events)
    BY <1>1, <1>2, <1>3, <1>4
  <2> QED
    BY <1>2, <1>7, <2>1, CountsShift
<1>10. f[m] = f[n] + h[Len(d)]
  <2>1. Counts(f, both, w, Len(both)) /\ Counts(h, d, w, Len(d)) /\ both \in Seq(Events)
    BY <1>1, <1>2, <1>3, <1>5
  <2> QED
    BY <1>2, <1>8, <2>1, CountsShift
<1>11. f[s] = 0
  BY <1>2, <1>3, <1>6 DEF Counts
<1>12. g[n] \in Nat
  BY <1>1, <1>2, <1>4, CountsNat
<1> QED
  BY <1>3, <1>4, <1>5, <1>9, <1>10, <1>11, <1>12 DEF both

\* Weights that agree on the events of a sequence give it the same total.
LEMMA TotalAgrees ==
    ASSUME NEW q \in Seq(Events), NEW w \in Weights, NEW v \in Weights,
           \A i \in 1 .. Len(q) : w[q[i]] = v[q[i]]
    PROVE  Total(q, w) = Total(q, v)
<1>1. PICK n \in Nat : n = Len(q)
  BY LenProperties
<1>2. PICK s \in Nat : s = 0
  OBVIOUS
<1>3. PICK f : Counts(f, q, w, Len(q)) /\ Total(q, w) = f[Len(q)]
  BY TotalCounts
<1>4. PICK g : Counts(g, q, v, Len(q)) /\ Total(q, v) = g[Len(q)]
  BY TotalCounts
<1>5. Shifted(q, w, s, n, q, v, n)
  BY <1>1, <1>2 DEF Shifted
<1>6. f[n] = f[s] + g[n]
  <2>1. Counts(f, q, w, Len(q)) /\ Counts(g, q, v, Len(q))
    BY <1>3, <1>4
  <2> QED
    BY <1>5, <2>1, CountsShift
<1>7. f[s] = 0
  BY <1>1, <1>2, <1>3 DEF Counts
<1>8. g[n] \in Nat
  BY <1>1, <1>4, CountsNat
<1> QED
  BY <1>1, <1>3, <1>4, <1>6, <1>7, <1>8

\* Events that weigh nothing.
LEMMA TotalZero ==
    ASSUME NEW q \in Seq(Events), NEW w, \A i \in 1 .. Len(q) : w[q[i]] = 0
    PROVE  Total(q, w) = 0
<1>1. PICK f : Counts(f, q, w, Len(q)) /\ Total(q, w) = f[Len(q)]
  BY TotalCounts
<1> DEFINE S == {k \in Nat : k <= Len(q) => f[k] = 0}
<1>2. Len(q) \in Nat
  BY LenProperties
<1>3. \A k \in 0 .. Len(q) : f[k] = IF k = 0 THEN 0 ELSE f[k - 1] + w[q[k]]
  BY <1>1 DEF Counts
<1>4. 0 \in S
  BY <1>2, <1>3
<1>5. ASSUME NEW k \in Nat, k \in S PROVE k + 1 \in S
  <2> SUFFICES ASSUME k + 1 <= Len(q) PROVE f[k + 1] = 0
    OBVIOUS
  <2>1. k + 1 \in 1 .. Len(q) /\ k + 1 \in 0 .. Len(q) /\ (k + 1) - 1 = k
    BY <1>2
  <2>2. w[q[k + 1]] = 0 /\ f[k] = 0
    BY <1>2, <1>5, <2>1
  <2> QED
    BY <1>3, <2>1, <2>2
<1> HIDE DEF S
<1>6. Nat \subseteq S
  BY <1>4, <1>5, Induction
<1> QED
  BY <1>1, <1>2, <1>6 DEF S

LEMMA TotalNothing == ASSUME NEW w \in Weights PROVE Total(<<>>, w) = 0
<1>1. <<>> \in Seq(Events) /\ Len(<<>>) = 0
  BY EmptySeq
<1>2. PICK f : Counts(f, <<>>, w, 0) /\ Total(<<>>, w) = f[0]
  BY <1>1, TotalCounts
<1> QED
  BY <1>2 DEF Counts

LEMMA TotalOne ==
    ASSUME NEW e \in Events, NEW w \in Weights
    PROVE  <<e>> \in Seq(Events) /\ Total(<<e>>, w) = w[e]
<1>1. PICK q : q = <<e>>
  OBVIOUS
<1>2. q \in Seq(Events) /\ Len(q) = 1 /\ q[1] = e
  BY <1>1
<1>3. PICK f : Counts(f, q, w, 1) /\ Total(q, w) = f[1]
  BY <1>2, TotalCounts
<1>4. f[0] = 0 /\ f[1] = f[1 - 1] + w[q[1]]
  BY <1>3 DEF Counts
<1>5. w[e] \in Nat
  BY WeightNat
<1> QED
  BY <1>1, <1>2, <1>3, <1>4, <1>5

LEMMA TotalAppend ==
    ASSUME NEW q \in Seq(Events), NEW e \in Events, NEW w \in Weights
    PROVE  Append(q, e) \in Seq(Events) /\ Total(Append(q, e), w) = Total(q, w) + w[e]
<1>1. Append(q, e) = q \o <<e>>
  BY AppendIsConcat
<1> QED
  <2>1. <<e>> \in Seq(Events) /\ Total(<<e>>, w) = w[e]
    BY TotalOne
  <2>2. Append(q, e) \in Seq(Events)
    BY AppendProperties
  <2>3. Total(q \o <<e>>, w) = Total(q, w) + Total(<<e>>, w)
    BY <2>1, TotalConcat, Zenon
  <2> QED
    BY <1>1, <2>1, <2>2, <2>3, Zenon

LEMMA TotalTail ==
    ASSUME NEW q \in Seq(Events), q # <<>>, NEW w \in Weights
    PROVE  /\ Head(q) \in Events /\ Tail(q) \in Seq(Events)
           /\ Total(q, w) = w[Head(q)] + Total(Tail(q), w)
<1>1. /\ Head(q) \in Events /\ Tail(q) \in Seq(Events)
      /\ <<Head(q)>> \o Tail(q) = q
  BY HeadTailProperties
<1>2. <<Head(q)>> \in Seq(Events) /\ Total(<<Head(q)>>, w) = w[Head(q)]
  BY <1>1, TotalOne, Zenon
<1>3. Total(<<Head(q)>> \o Tail(q), w) = Total(<<Head(q)>>, w) + Total(Tail(q), w)
  BY <1>1, <1>2, TotalConcat, Zenon
<1> QED
  BY <1>1, <1>2, <1>3, Zenon

-------------------------------------------------------------------------------
(* The types *)

LEMMA EventTypes ==
    ASSUME NEW e \in Events
    PROVE  /\ e.kind \in {"fill", "cancelled", "redeemed"}
           /\ e.kind = "fill" => /\ e.id \in Orders /\ e.lots \in 1 .. Size
                                 /\ e.lots \in Nat /\ e.lots > 0
           /\ e.kind = "redeemed" => e.pairs \in Nat /\ e.pairs > 0
<1>1. \A n \in 1 .. Size : n \in Nat /\ n > 0
  BY PaperAssumption
<1>2. CASE e \in [kind : {"fill"}, id : Orders, lots : 1 .. Size]
  <2>1. e.kind = "fill" /\ e.id \in Orders /\ e.lots \in 1 .. Size
    BY <1>2
  <2> QED
    BY <1>1, <2>1
<1>3. CASE e \in [kind : {"cancelled"}, id : Orders]
  BY <1>3
<1>4. CASE e \in [kind : {"redeemed"}, pairs : Nat \ {0}]
  <2>1. e.kind = "redeemed" /\ e.pairs \in Nat \ {0}
    BY <1>4
  <2> QED
    BY <2>1
<1> QED
  BY <1>2, <1>3, <1>4 DEF Events

LEMMA FillKnown ==
    ASSUME NEW id \in Orders, NEW lots \in 1 .. Size
    PROVE  /\ Fill(id, lots) \in Events
           /\ id \in Placed => Fill(id, lots) \in KnownEvents
  BY DEF Fill, Events, KnownEvents

LEMMA CancelledKnown ==
    ASSUME NEW id \in Orders PROVE Cancelled(id) \in Events /\ Cancelled(id) \in KnownEvents
  BY DEF Cancelled, Events, KnownEvents

LEMMA RedeemedKnown ==
    ASSUME NEW n \in Nat \ {0} PROVE Redeemed(n) \in Events /\ Redeemed(n) \in KnownEvents
  BY DEF Redeemed, Events, KnownEvents

LEMMA KnownAreEvents ==
    ASSUME NEW q \in Seq(KnownEvents)
    PROVE  q \in Seq(Events)
<1>1. KnownEvents \subseteq Events
  BY DEF KnownEvents
<1> QED
  BY <1>1, SeqMonotonic

LEMMA RecordTypes ==
    ASSUME NEW o \in Records
    PROVE  /\ o # None
           /\ o.state \in States /\ o.remaining \in 0 .. Size /\ o.remaining \in Nat
           /\ AfterPlaceSuccess(o) \in Records
           /\ AfterPlaceSuccess(o).remaining = o.remaining
           /\ AfterCancelRequest(o) \in Records
           /\ AfterTerminal(o, "Cancelled") \in Records
<1>1. /\ o.state \in States /\ o.cancel_requested \in BOOLEAN
      /\ o.remaining \in 0 .. Size
  BY DEF Records
<1>2. o # None
  BY NoneAssumption
<1>3. o.remaining \in Nat
  BY <1>1, PaperAssumption
<1>4. AfterPlaceSuccess(o) \in Records /\ AfterPlaceSuccess(o).remaining = o.remaining
  BY DEF AfterPlaceSuccess, Records, States
<1>5. AfterCancelRequest(o) \in Records
  BY DEF AfterCancelRequest, Records, States
<1>6. AfterTerminal(o, "Cancelled") \in Records
  BY DEF AfterTerminal, Records, States, TerminalReasons
<1> QED
  BY <1>1, <1>2, <1>3, <1>4, <1>5, <1>6

LEMMA FilledRecord ==
    ASSUME NEW o \in Records, NEW n \in Nat PROVE AfterFill(o, n) \in Records
<1>1. PICK rest : rest = IF n >= o.remaining THEN 0 ELSE o.remaining - n
  OBVIOUS
<1>2. rest \in 0 .. Size
  BY <1>1, RecordTypes, PaperAssumption
<1>3. AfterFill(o, n) = IF IsTerminal(o) THEN o
                        ELSE [o EXCEPT !.remaining = rest,
                                       !.state = IF rest = 0 THEN "Filled"
                                                 ELSE IF @ = "SubmitPending" THEN "Open"
                                                 ELSE @]
  BY <1>1 DEF AfterFill
<1>4. PICK state : state = IF rest = 0 THEN "Filled"
                           ELSE IF o.state = "SubmitPending" THEN "Open" ELSE o.state
  OBVIOUS
<1>5. state \in States
  BY <1>4, RecordTypes DEF States, TerminalReasons
<1>6. [o EXCEPT !.remaining = rest, !.state = state] \in Records
  BY <1>2, <1>5 DEF Records
<1> QED
  BY <1>3, <1>4, <1>6

\* A placed order has its entry and its record.
LEMMA PlacedTypes ==
    ASSUME TInv, NEW id \in Placed
    PROVE  /\ id \in Orders /\ order[id] \in Entries
           /\ order[id].token \in Tokens /\ order[id].side \in Sides
           /\ life[id] \in Records
<1>1. id \in Orders /\ order[id] \in Entries
  BY DEF Placed, TInv, TypeOK
<1>2. life[id] \in Records
  BY <1>1 DEF TInv, TypeOK, PlacedOK
<1> QED
  BY <1>1, <1>2 DEF Entries

LEMMA TradeTypes ==
    ASSUME TInv, trade # None
    PROVE  /\ trade.token \in Tokens /\ trade.side \in Sides
           /\ trade.size \in Nat /\ trade.size > 0
           /\ trade.todo \subseteq resting /\ trade.gone \subseteq resting
           /\ trade.todo \subseteq Placed /\ trade.gone \subseteq Placed
           /\ trade.bought \in Int
           /\ trade.events \in Seq(Events) /\ trade.events \in Seq(KnownEvents)
           /\ trade = [token |-> trade.token, side |-> trade.side, size |-> trade.size,
                       todo |-> trade.todo, bought |-> trade.bought,
                       events |-> trade.events, gone |-> trade.gone]
<1>1. PICK t \in Trades : t = trade
  BY DEF TInv, TypeOK
<1>2. /\ t.token \in Tokens /\ t.side \in Sides /\ t.size \in TradeSizes
      /\ t.bought \in Int /\ t.events \in Seq(Events)
      /\ t = [token |-> t.token, side |-> t.side, size |-> t.size, todo |-> t.todo,
              bought |-> t.bought, events |-> t.events, gone |-> t.gone]
  BY DEF Trades
<1>3. t.size \in Nat /\ t.size > 0
  BY <1>2, PaperAssumption
<1>4. trade.todo \subseteq resting /\ trade.gone \subseteq resting
  BY DEF TInv, TypeOK
<1> QED
  BY <1>1, <1>2, <1>3, <1>4 DEF TInv, PlacedOK

\* What a step leaves alone keeps its type.
LEMMA RestTypes ==
    ASSUME TInv
    PROVE  /\ UNCHANGED deferred => deferred' \in BOOLEAN
           /\ UNCHANGED hasty => hasty' \in BOOLEAN
           /\ UNCHANGED order => order' \in [Orders -> Entries \cup {None}] /\ Placed' = Placed
                                 /\ KnownEvents' = KnownEvents
           /\ UNCHANGED life => life' \in [Orders -> Records \cup {None}]
           /\ UNCHANGED resting => resting' \subseteq Orders
           /\ UNCHANGED cancelling => cancelling' \subseteq Orders
           /\ UNCHANGED told => told' \subseteq Orders
           /\ UNCHANGED event => event' \in {None, "book", "trade", "queued"}
           /\ UNCHANGED queue => queue' \in Seq(Events)
           /\ UNCHANGED books => positions' \in [Tokens -> Int] /\ quote' \in Int
           /\ UNCHANGED <<trade, resting>> =>
                 (trade' # None => /\ trade' \in Trades
                                   /\ trade'.todo \cup trade'.gone \subseteq resting')
  BY DEF TInv, TypeOK, Placed, KnownEvents, books

LEMMA InitTInv == Init => TInv
<1> SUFFICES ASSUME Init PROVE TInv
  OBVIOUS
<1>1. queue \in Seq(Events) /\ queue \in Seq(KnownEvents)
  BY EmptySeq DEF Init
<1>2. order \in [Orders -> Entries \cup {None}] /\ life \in [Orders -> Records \cup {None}]
  BY DEF Init
<1>3. positions \in [Tokens -> Int] /\ quote \in Int
  BY PaperAssumption DEF Init
<1>4. \A id \in Orders : id \in Placed <=> life[id] # None
  BY DEF Init, Placed
<1> QED
  BY <1>1, <1>2, <1>3, <1>4 DEF Init, TInv, TypeOK, PlacedOK

LEMMA PlaceTypes ==
    ASSUME TInv, NEW id \in Orders, NEW token \in Tokens, NEW side \in Sides,
           Place(id, token, side)
    PROVE  TInv'
<1>1. PICK entry \in Entries : entry = [token |-> token, side |-> side]
  BY DEF Entries
<1>2. PICK submitted : submitted = [state |-> "SubmitPending", cancel_requested |-> FALSE,
                                    remaining |-> Size]
  OBVIOUS
<1>3. submitted \in Records
  <2>1. Size \in 0 .. Size
    BY PaperAssumption
  <2> QED
    BY <1>2, <2>1 DEF Records, States
<1>4. PICK o \in Records : life' = [life EXCEPT ![id] = o]
  BY <1>2, <1>3, RecordTypes DEF Place
<1>5. /\ order' = [order EXCEPT ![id] = entry] /\ order[id] = None
      /\ resting' = resting \cup {id}
      /\ UNCHANGED <<deferred, cancelling, trade, event, queue, books, told, hasty>>
      /\ trade = None
  BY <1>1 DEF Place
<1>6. entry # None /\ o # None
  BY NoneAssumption
<1>7. /\ order' \in [Orders -> Entries \cup {None}]
      /\ life' \in [Orders -> Records \cup {None}]
      /\ Placed' = Placed \cup {id}
      /\ \A i \in Orders : i \in Placed' <=> life'[i] # None
  BY <1>4, <1>5, <1>6 DEF TInv, TypeOK, Placed, PlacedOK
<1>8. queue' \in Seq(KnownEvents')
  <2>1. KnownEvents \subseteq KnownEvents'
    BY <1>7 DEF KnownEvents
  <2>2. queue \in Seq(KnownEvents)
    BY DEF TInv, PlacedOK
  <2> QED
    BY <1>5, <2>1, <2>2, SeqMonotonic
<1>9. /\ resting' \subseteq Orders
      /\ resting' \cup cancelling' \subseteq Placed'
  BY <1>5, <1>7 DEF TInv, TypeOK, PlacedOK
<1>10. TypeOK'
  BY <1>5, <1>7, <1>9, RestTypes DEF TypeOK
<1>11. PlacedOK'
  BY <1>5, <1>7, <1>8, <1>9 DEF PlacedOK
<1> QED
  BY <1>10, <1>11 DEF TInv

\* The answer to a cancel is queued, or not.
LEMMA TellTypes ==
    ASSUME TInv, NEW id \in Orders, Tell(id)
    PROVE  /\ queue' \in Seq(KnownEvents) /\ queue' \in Seq(Events)
           /\ told' \subseteq Orders
           /\ queue' = queue \/ queue' = Append(queue, Cancelled(id))
<1>1. queue' = queue \/ queue' = Append(queue, Cancelled(id))
  BY DEF Tell
<1>2. queue' \in Seq(KnownEvents)
  BY <1>1, CancelledKnown, AppendProperties DEF TInv, PlacedOK
<1> QED
  BY <1>1, <1>2, KnownAreEvents DEF Tell, TInv, TypeOK

LEMMA CancelTypes ==
    ASSUME TInv, NEW id \in Orders, CancelOrder(id) \/ CancelUnderLock(id)
    PROVE  TInv'
<1>1. id \in Placed /\ life[id] \in Records
  <2>1. id \in Placed
    BY DEF CancelOrder, CancelUnderLock, Placed, TInv, PlacedOK
  <2> QED
    BY <2>1, PlacedTypes
<1>2. /\ UNCHANGED <<deferred, order, trade, event, books, hasty>>
      /\ cancelling' \subseteq cancelling \cup {id}
      /\ resting' \subseteq resting /\ (trade # None => resting' = resting)
  BY DEF CancelOrder, CancelUnderLock
<1>3. PICK o \in Records : life' = [life EXCEPT ![id] = o]
  <2>1. life = [life EXCEPT ![id] = life[id]]
    BY <1>1 DEF TInv, TypeOK
  <2> QED
    BY <1>1, <2>1, RecordTypes DEF CancelOrder, CancelUnderLock
<1>4. /\ life' \in [Orders -> Records \cup {None}]
      /\ \A i \in Orders : i \in Placed <=> life'[i] # None
  BY <1>1, <1>3, RecordTypes DEF TInv, TypeOK, PlacedOK
<1>5. /\ queue' \in Seq(KnownEvents) /\ queue' \in Seq(Events)
      /\ told' \subseteq Orders
  <2>1. CASE Tell(id)
    BY <2>1, TellTypes
  <2>2. CASE queue' = queue /\ told' = told
    BY <2>2 DEF TInv, TypeOK, PlacedOK
  <2> QED
    BY <2>1, <2>2 DEF CancelOrder, CancelUnderLock
<1>6. Placed' = Placed /\ KnownEvents' = KnownEvents
  BY <1>2, RestTypes
<1>7. TypeOK'
  BY <1>1, <1>2, <1>4, <1>5, RestTypes DEF TypeOK, TInv
<1>8. PlacedOK'
  BY <1>1, <1>2, <1>4, <1>5, <1>6 DEF PlacedOK, TInv
<1> QED
  BY <1>7, <1>8 DEF TInv

LEMMA StartTypes ==
    ASSUME TInv, NEW token \in Tokens, NEW side \in Sides, NEW size \in TradeSizes,
           StartTrade(token, side, size)
    PROVE  TInv'
<1>1. PICK t : t = [token |-> token, side |-> side, size |-> size, todo |-> resting,
                    bought |-> 0, events |-> <<>>, gone |-> {}]
  OBVIOUS
<1>2. <<>> \in Seq(Events) /\ <<>> \in Seq(KnownEvents)
  BY EmptySeq
<1>3. t \in Trades /\ t.todo = resting /\ t.gone = {} /\ t.events = <<>>
  BY <1>1, <1>2 DEF Trades, TInv, TypeOK
<1>4. /\ trade' = t
      /\ UNCHANGED <<deferred, order, life, resting, cancelling, event, queue, books, told, hasty>>
  BY <1>1 DEF StartTrade, executor
<1>5. TypeOK'
  BY <1>3, <1>4, RestTypes DEF TypeOK
<1>6. PlacedOK'
  BY <1>2, <1>3, <1>4, RestTypes DEF PlacedOK, TInv
<1> QED
  BY <1>5, <1>6 DEF TInv

\* A trade has looked at an order.
LEMMA CheckedTypes ==
    ASSUME TInv, trade # None, NEW id, NEW o \in Records, NEW events \in Seq(KnownEvents),
           NEW gone \in BOOLEAN, NEW lots \in Int, Checked(id, o, events, gone, lots)
    PROVE  /\ id \in Placed /\ id \in trade.todo
           /\ trade' # None /\ trade' \in Trades
           /\ trade'.token = trade.token /\ trade'.side = trade.side
           /\ trade'.bought = trade.bought + lots
           /\ trade'.events = trade.events \o events
           /\ trade'.events \in Seq(KnownEvents)
           /\ told' \subseteq Orders => TInv'
<1>1. id \in trade.todo /\ id \in Placed /\ id \in resting /\ id \in Orders
  BY TradeTypes DEF Checked, Placed
<1>2. PICK t : t = trade
  OBVIOUS
<1>3. PICK n : n = [t EXCEPT !.todo = @ \ {id}, !.events = @ \o events,
                             !.gone = IF gone THEN @ \cup {id} ELSE @, !.bought = @ + lots]
  OBVIOUS
<1>4. t \in Trades /\ t.events \in Seq(KnownEvents) /\ t.events \in Seq(Events)
      /\ t.bought \in Int /\ t.todo \cup t.gone \subseteq resting
  BY <1>2, TradeTypes DEF TInv, TypeOK
<1>5. PICK all : all = t.events \o events
  OBVIOUS
<1>6. all \in Seq(KnownEvents) /\ all \in Seq(Events)
  BY <1>4, <1>5, ConcatProperties, KnownAreEvents
<1>7. t.bought + lots \in Int /\ resting \subseteq Orders
  BY <1>4 DEF TInv, TypeOK
<1>8. /\ n.token = t.token /\ n.side = t.side /\ n.bought = t.bought + lots
      /\ n.events = all /\ n.todo \subseteq t.todo /\ n.gone \subseteq t.gone \cup {id}
      /\ n \in Trades
  BY <1>1, <1>3, <1>4, <1>5, <1>6, <1>7 DEF Trades
<1>9. trade' = n
  BY <1>2, <1>3 DEF Checked
<1>10. n # None
  BY <1>8, NoneAssumption
<1>11. /\ UNCHANGED <<deferred, order, resting, cancelling, event, queue, books, hasty>>
       /\ life' = [life EXCEPT ![id] = o]
  BY DEF Checked
<1>12. /\ life' \in [Orders -> Records \cup {None}]
       /\ \A i \in Orders : i \in Placed <=> life'[i] # None
  BY <1>1, <1>11, RecordTypes DEF TInv, TypeOK, PlacedOK
<1>13. trade'.todo \cup trade'.gone \subseteq resting'
  BY <1>1, <1>4, <1>8, <1>9, <1>11
<1>14. ASSUME told' \subseteq Orders PROVE TypeOK'
  BY <1>8, <1>9, <1>11, <1>12, <1>13, <1>14, RestTypes DEF TypeOK
<1>15. PlacedOK'
  BY <1>6, <1>8, <1>9, <1>11, <1>12, RestTypes DEF PlacedOK, TInv
<1> QED
  BY <1>1, <1>2, <1>5, <1>6, <1>8, <1>9, <1>10, <1>14, <1>15 DEF TInv

LEMMA LeastOfThree ==
    ASSUME NEW a \in Int, NEW b \in Int, NEW c \in Int
    PROVE  /\ Min({a, b, c}) \in Int
           /\ Min({a, b, c}) <= a /\ Min({a, b, c}) <= b /\ Min({a, b, c}) <= c
<1>1. \E x \in {a, b, c} : \A y \in {a, b, c} : x <= y
  <2>1. CASE a <= b /\ a <= c
    BY <2>1
  <2>2. CASE b <= a /\ b <= c
    BY <2>2
  <2>3. CASE c <= a /\ c <= b
    BY <2>3
  <2> QED
    BY <2>1, <2>2, <2>3
<1>2. PICK m : m = Min({a, b, c})
  OBVIOUS
<1>3. m \in {a, b, c} /\ \A y \in {a, b, c} : m <= y
  BY <1>1, <1>2 DEF Min
<1> QED
  BY <1>2, <1>3

\* A fill is no larger than the order, and within the books.
LEMMA FillSizeTypes ==
    ASSUME TInv, trade # None, NEW id \in Placed, FillSize(id) > 0
    PROVE  /\ FillSize(id) \in 1 .. Size /\ FillSize(id) \in Nat
           /\ FillSize(id) <= Affordable(order[id].side)
<1>1. PICK a, b, c : /\ a = life[id].remaining /\ b = trade.size
                     /\ c = Affordable(order[id].side)
  OBVIOUS
<1>2. FillSize(id) = Min({a, b, c})
  BY <1>1 DEF FillSize
<1>3. a \in Int /\ a <= Size
  BY <1>1, PlacedTypes, RecordTypes, PaperAssumption
<1>4. b \in Int
  BY <1>1, TradeTypes
<1>5. c \in Int
  <2>1. trade.token \in Tokens /\ trade.bought \in Int
    BY TradeTypes
  <2>2. quote \in Int /\ positions[trade.token] \in Int
    BY <2>1 DEF TInv, TypeOK
  <2> QED
    BY <1>1, <2>1, <2>2 DEF Affordable
<1>6. PICK m : m = FillSize(id)
  OBVIOUS
<1>7. m \in Int /\ m <= a /\ m <= c /\ m > 0
  BY <1>2, <1>3, <1>4, <1>5, <1>6, LeastOfThree
<1> QED
  BY <1>1, <1>3, <1>6, <1>7, PaperAssumption

LEMMA AcknowledgedRecord ==
    ASSUME TInv, NEW id \in Placed, NEW placed
    PROVE  Acknowledged(id, placed) \in Records
  BY PlacedTypes, RecordTypes DEF Acknowledged

\* A trade that looks at an order adds nothing to what it tells of, or the order's
\* end, or a fill within the books.
LEMMA CheckForms ==
    ASSUME TInv, NEW id \in Orders, NEW placed \in BOOLEAN,
           PassOver(id, placed) \/ ConfirmCancel(id, placed) \/ FillOrder(id, placed)
    PROVE  /\ trade # None /\ id \in Placed /\ told' \subseteq Orders
           /\ \E o \in Records, events \in Seq(KnownEvents), gone \in BOOLEAN, lots \in Int :
                /\ Checked(id, o, events, gone, lots)
                /\ \/ events = <<>> /\ lots = 0
                   \/ events = <<Cancelled(id)>> /\ lots = 0
                   \/ \E n \in 1 .. Size :
                        /\ events = <<Fill(id, n)>>
                        /\ lots = IF order[id].side = "buy" THEN n ELSE -n
                        /\ n <= Affordable(order[id].side)
                        /\ order[id].token = trade.token
                        /\ order[id].side # trade.side
<1>1. trade # None /\ id \in Placed
  BY TradeTypes DEF PassOver, ConfirmCancel, FillOrder, Checked
<1>2. PICK a \in Records : a = Acknowledged(id, placed)
  BY <1>1, AcknowledgedRecord
<1>3. told' \subseteq Orders
  BY DEF PassOver, ConfirmCancel, FillOrder, TInv, TypeOK
<1>4. CASE PassOver(id, placed)
  <2>1. PICK events, lots : events = <<>> /\ lots = 0
    OBVIOUS
  <2>2. PICK gone \in BOOLEAN : gone = FALSE
    OBVIOUS
  <2>3. Checked(id, a, events, gone, lots)
    BY <1>2, <1>4, <2>1, <2>2 DEF PassOver
  <2>4. events \in Seq(KnownEvents) /\ lots \in Int
    BY <2>1, EmptySeq
  <2> QED
    BY <1>1, <1>3, <2>1, <2>3, <2>4
<1>5. CASE ConfirmCancel(id, placed)
  <2>1. PICK o \in Records : o = AfterTerminal(a, "Cancelled")
    BY RecordTypes
  <2>2. PICK events, lots : events = <<Cancelled(id)>> /\ lots = 0
    OBVIOUS
  <2>3. PICK gone \in BOOLEAN : gone = TRUE
    OBVIOUS
  <2>4. Checked(id, o, events, gone, lots)
    BY <1>2, <1>5, <2>1, <2>2, <2>3 DEF ConfirmCancel
  <2>5. events \in Seq(KnownEvents) /\ lots \in Int
    BY <2>2, CancelledKnown
  <2> QED
    BY <1>1, <1>3, <2>2, <2>4, <2>5
<1>6. CASE FillOrder(id, placed)
  <2>1. PICK n : n = FillSize(id)
    OBVIOUS
  <2>2. n \in 1 .. Size /\ n \in Nat /\ n <= Affordable(order[id].side)
    BY <1>1, <1>6, <2>1, FillSizeTypes DEF FillOrder
  <2>3. PICK o \in Records : o = AfterFill(a, n)
    BY <2>2, FilledRecord
  <2>4. PICK gone, events, lots : /\ gone = IsTerminal(o) /\ events = <<Fill(id, n)>>
                                  /\ lots = IF order[id].side = "buy" THEN n ELSE -n
    OBVIOUS
  <2>5. Checked(id, o, events, gone, lots)
    BY <1>2, <1>6, <2>1, <2>3, <2>4 DEF FillOrder
  <2>6. events \in Seq(KnownEvents)
    BY <1>1, <2>2, <2>4, FillKnown
  <2>7. gone \in BOOLEAN
    BY <2>4 DEF IsTerminal
  <2>8. lots \in Int
    BY <2>2, <2>4
  <2>9. order[id].token = trade.token /\ order[id].side # trade.side
    BY <1>6 DEF FillOrder
  <2> QED
    BY <1>1, <1>3, <2>2, <2>4, <2>5, <2>6, <2>7, <2>8, <2>9
<1> QED
  BY <1>4, <1>5, <1>6

LEMMA CheckTypes ==
    ASSUME TInv, NEW id \in Orders, NEW placed \in BOOLEAN,
           PassOver(id, placed) \/ ConfirmCancel(id, placed) \/ FillOrder(id, placed)
    PROVE  TInv'
<1>1. trade # None /\ told' \subseteq Orders
  BY CheckForms
<1>2. PICK o \in Records, events \in Seq(KnownEvents), gone \in BOOLEAN, lots \in Int :
          Checked(id, o, events, gone, lots)
  BY CheckForms
<1> QED
  BY <1>1, <1>2, CheckedTypes

LEMMA EndTypes ==
    ASSUME TInv, EndTrade PROVE TInv'
<1>1. /\ UNCHANGED <<deferred, order, life, cancelling, books, told, hasty>>
      /\ trade # None /\ trade' = None /\ event' = "trade"
      /\ resting' \subseteq resting /\ queue' = queue \o trade.events
  BY DEF EndTrade
<1>2. queue' \in Seq(KnownEvents) /\ queue' \in Seq(Events)
  <2>1. queue \in Seq(KnownEvents) /\ trade.events \in Seq(KnownEvents)
    BY <1>1, TradeTypes DEF TInv, PlacedOK
  <2>2. queue' \in Seq(KnownEvents)
    BY <1>1, <2>1, ConcatProperties
  <2> QED
    BY <2>2, KnownAreEvents
<1>3. resting' \subseteq Orders
  BY <1>1 DEF TInv, TypeOK
<1>4. TypeOK'
  BY <1>1, <1>2, <1>3, RestTypes DEF TypeOK
<1>5. PlacedOK'
  BY <1>1, <1>2, RestTypes DEF PlacedOK, TInv
<1> QED
  BY <1>4, <1>5 DEF TInv

\* What a queued event does to the books.
LEMMA ProcessBooks ==
    ASSUME TInv, ProcessQueued
    PROVE  /\ positions' \in [Tokens -> Int] /\ quote' \in Int
           /\ \E e \in KnownEvents :
                /\ e = Head(queue)
                /\ e.kind = "fill" =>
                      LET lots == IF order[e.id].side = "buy" THEN e.lots ELSE -e.lots
                      IN  /\ positions' = [positions EXCEPT ![order[e.id].token] = @ + lots]
                          /\ quote' = quote - lots
                /\ e.kind = "redeemed" =>
                      /\ positions' = [t \in Tokens |-> IF positions[t] = 0 THEN 0
                                                        ELSE positions[t] - e.pairs]
                      /\ quote' = quote + 2 * e.pairs
                /\ e.kind = "cancelled" => positions' = positions /\ quote' = quote
<1>1. PICK e \in KnownEvents : e = Head(queue)
  BY HeadTailProperties DEF ProcessQueued, TInv, PlacedOK
<1>2. positions \in [Tokens -> Int] /\ quote \in Int
  BY DEF TInv, TypeOK
<1>3. e \in Events /\ e.kind \in {"fill", "cancelled", "redeemed"}
  BY EventTypes DEF KnownEvents
<1>4. CASE e.kind = "fill"
  <2>1. PICK lots : lots = IF order[e.id].side = "buy" THEN e.lots ELSE -e.lots
    OBVIOUS
  <2>2. lots \in Int /\ order[e.id].token \in Tokens
    <3>1. e.id \in Placed /\ e.lots \in Nat
      BY <1>3, <1>4, EventTypes DEF KnownEvents
    <3> QED
      BY <2>1, <3>1, PlacedTypes
  <2>3. /\ positions' = [positions EXCEPT ![order[e.id].token] = @ + lots]
        /\ quote' = quote - lots
    BY <1>1, <1>4, <2>1 DEF ProcessQueued
  <2>4. positions' \in [Tokens -> Int] /\ quote' \in Int
    BY <1>2, <2>2, <2>3
  <2> QED
    BY <1>1, <1>4, <2>1, <2>3, <2>4
<1>5. CASE e.kind = "redeemed"
  <2>1. /\ positions' = [t \in Tokens |-> IF positions[t] = 0 THEN 0
                                          ELSE positions[t] - e.pairs]
        /\ quote' = quote + 2 * e.pairs
    BY <1>1, <1>5 DEF ProcessQueued
  <2>2. e.pairs \in Nat
    BY <1>3, <1>5, EventTypes
  <2>3. positions' \in [Tokens -> Int] /\ quote' \in Int
    BY <1>2, <2>1, <2>2
  <2> QED
    BY <1>1, <1>5, <2>1, <2>3
<1>6. CASE e.kind = "cancelled"
  <2>1. positions' = positions /\ quote' = quote
    BY <1>1, <1>6 DEF ProcessQueued, books
  <2> QED
    BY <1>1, <1>2, <1>6, <2>1
<1> QED
  BY <1>3, <1>4, <1>5, <1>6

\* The pairs above the limit, and no more than the least position.
LEMMA ExcessBounds ==
    ASSUME TInv, NEW max \in Policies
    PROVE  Excess(max) \in Int /\ \A token \in Tokens : Excess(max) <= positions[token]
<1>1. positions["up"] \in Int /\ positions["down"] \in Int
  BY DEF TInv, TypeOK, Tokens
<1>2. PICK a \in Int, b \in Int : a = positions["up"] /\ b = positions["down"]
  BY <1>1
<1>3. Range(positions) = {a, b, b}
  BY <1>2 DEF Range, TInv, TypeOK, Tokens
<1>4. PICK m : m = Min({a, b, b})
  OBVIOUS
<1>5. m \in Int /\ m <= a /\ m <= b
  BY <1>4, LeastOfThree
<1>6. m - max \in Int /\ m - max <= a /\ m - max <= b
  BY <1>5, PaperAssumption
<1> QED
  BY <1>2, <1>3, <1>4, <1>6 DEF Excess, Tokens

LEMMA RedemptionTypes ==
    ASSUME NEW n \in Int
    PROVE  Redemption(n) \in Seq(KnownEvents)
<1>1. CASE n > 0
  BY <1>1, RedeemedKnown DEF Redemption
<1>2. CASE ~(n > 0)
  BY <1>2, EmptySeq DEF Redemption
<1> QED
  BY <1>1, <1>2

LEMMA LoopTypes ==
    ASSUME TInv, UNCHANGED vars \/ BookUpdate \/ ProcessQueued \/ EndSignals
           \/ \E max \in Policies : Intent(max)
    PROVE  TInv'
<1>1. UNCHANGED <<deferred, order, life, resting, cancelling, trade, told>>
  BY DEF vars, BookUpdate, ProcessQueued, Intent, EndSignals, executor
<1>2. event' \in {None, "book", "trade", "queued"}
  BY DEF vars, BookUpdate, ProcessQueued, Intent, EndSignals, TInv, TypeOK
<1>3. positions' \in [Tokens -> Int] /\ quote' \in Int
  BY ProcessBooks DEF vars, BookUpdate, Intent, EndSignals, books, TInv, TypeOK
<1>4. queue' \in Seq(KnownEvents) /\ queue' \in Seq(Events)
  <2>1. queue \in Seq(KnownEvents)
    BY DEF TInv, PlacedOK
  <2>2. CASE ProcessQueued
    BY <2>1, <2>2, HeadTailProperties, KnownAreEvents DEF ProcessQueued
  <2>3. CASE \E max \in Policies : Intent(max)
    <3>1. PICK max \in Policies, n \in Int : Intent(max) /\ n = Excess(max)
      BY <2>3, ExcessBounds
    <3>2. queue' = queue \o Redemption(n)
      BY <3>1 DEF Intent
    <3>3. queue' \in Seq(KnownEvents)
      BY <2>1, <3>2, RedemptionTypes, ConcatProperties
    <3> QED
      BY <3>3, KnownAreEvents
  <2>4. CASE UNCHANGED vars \/ BookUpdate \/ EndSignals
    BY <2>1, <2>4, KnownAreEvents DEF vars, BookUpdate, EndSignals
  <2> QED
    BY <2>2, <2>3, <2>4
<1>5. hasty' \in BOOLEAN
  BY DEF vars, BookUpdate, ProcessQueued, Intent, EndSignals, TInv, TypeOK
<1>6. TypeOK'
  BY <1>1, <1>2, <1>3, <1>4, <1>5, RestTypes DEF TypeOK
<1>7. PlacedOK'
  BY <1>1, <1>4, RestTypes DEF PlacedOK, TInv
<1> QED
  BY <1>6, <1>7 DEF TInv

LEMMA NextTInv == TInv /\ [Next]_vars => TInv'
<1> SUFFICES ASSUME TInv, [Next]_vars PROVE TInv'
  OBVIOUS
<1> QED
  BY PlaceTypes, CancelTypes, CheckTypes, StartTypes, EndTypes, LoopTypes DEF Next

\* Spec implies that the variables have their types, for any orders, sizes and trades.
THEOREM TypeCorrectness == Spec => []TypeOK
<1>1. TInv => TypeOK
  BY DEF TInv
<1> QED
  BY <1>1, InitTInv, NextTInv, PTL DEF Spec

-------------------------------------------------------------------------------
(* The books balance *)

LEMMA Weighing ==
    ASSUME TInv
    PROVE  Spends \in Weights /\ \A token \in Tokens : Gives(token) \in Weights
<1>1. \A e \in Events : Spent(e) \in Nat
  BY EventTypes DEF Spent
<1>2. \A e \in Events, token \in Tokens : Given(e, token) \in Nat
  BY EventTypes DEF Given
<1> QED
  BY <1>1, <1>2 DEF Weights, Spends, Gives

\* What each kind of event books.
LEMMA EventWeights ==
    ASSUME TInv, NEW e \in KnownEvents
    PROVE  /\ e.kind \in {"fill", "cancelled", "redeemed"}
           /\ e.kind = "fill" =>
                /\ e.id \in Placed /\ e.lots \in Nat
                /\ Spends[e] = IF order[e.id].side = "buy" THEN e.lots ELSE 0
                /\ \A token \in Tokens :
                      Gives(token)[e] = IF order[e.id].side = "sell" /\ order[e.id].token = token
                                        THEN e.lots ELSE 0
           /\ e.kind = "cancelled" =>
                Spends[e] = 0 /\ \A token \in Tokens : Gives(token)[e] = 0
           /\ e.kind = "redeemed" =>
                /\ e.pairs \in Nat /\ e.pairs > 0
                /\ Spends[e] = 0 /\ \A token \in Tokens : Gives(token)[e] = e.pairs
<1>1. e \in Events /\ (e.kind = "fill" => e.id \in Placed)
  BY DEF KnownEvents
<1>2. Spends[e] = Spent(e) /\ \A token \in Tokens : Gives(token)[e] = Given(e, token)
  BY <1>1 DEF Spends, Gives
<1>3. CASE e.kind = "fill"
  <2>1. /\ Spent(e) = IF order[e.id].side = "buy" THEN e.lots ELSE 0
        /\ \A token \in Tokens :
              Given(e, token) = IF order[e.id].side = "sell" /\ order[e.id].token = token
                                THEN e.lots ELSE 0
    BY <1>3 DEF Spent, Given
  <2> QED
    BY <1>1, <1>2, <1>3, <2>1, EventTypes
<1>4. CASE e.kind = "cancelled"
  BY <1>2, <1>4 DEF Spent, Given
<1>5. CASE e.kind = "redeemed"
  <2>1. Spent(e) = 0 /\ \A token \in Tokens : Given(e, token) = e.pairs
    BY <1>5 DEF Spent, Given
  <2> QED
    BY <1>1, <1>2, <1>5, <2>1, EventTypes
<1> QED
  BY <1>1, <1>3, <1>4, <1>5, EventTypes

\* An order placed later changes nothing in what the known events book.
LEMMA Steady ==
    ASSUME TInv, TInv', \A i \in Placed : i \in Placed' /\ order'[i] = order[i]
    PROVE  \A q \in Seq(KnownEvents) :
              /\ Total(q, Spends') = Total(q, Spends)
              /\ \A token \in Tokens : Total(q, Gives(token)') = Total(q, Gives(token))
<1>1. \A e \in KnownEvents : e \in Events /\ (e.kind = "fill" => order'[e.id] = order[e.id])
  BY DEF KnownEvents
<1>2. \A e \in KnownEvents : Spends'[e] = Spends[e]
  <2>1. \A e \in KnownEvents :
           (IF e.kind = "fill" /\ order'[e.id].side = "buy" THEN e.lots ELSE 0)
              = IF e.kind = "fill" /\ order[e.id].side = "buy" THEN e.lots ELSE 0
    BY <1>1
  <2> QED
    BY <1>1, <2>1 DEF Spends, Spent
<1>3. \A e \in KnownEvents, token \in Tokens : Gives(token)'[e] = Gives(token)[e]
  BY <1>1 DEF Gives, Given
<1>4. Spends \in Weights /\ \A token \in Tokens : Gives(token) \in Weights
  BY Weighing
<1>5. Spends' \in Weights /\ \A token \in Tokens : Gives(token)' \in Weights
  <2>1. \A e \in Events : Spent(e)' \in Nat
    BY EventTypes DEF Spent
  <2>2. \A e \in Events, token \in Tokens : Given(e, token)' \in Nat
    BY EventTypes DEF Given
  <2> QED
    BY <2>1, <2>2 DEF Weights, Spends, Gives
<1> SUFFICES ASSUME NEW q \in Seq(KnownEvents)
             PROVE  /\ Total(q, Spends') = Total(q, Spends)
                    /\ \A token \in Tokens : Total(q, Gives(token)') = Total(q, Gives(token))
  OBVIOUS
<1>6. q \in Seq(Events) /\ \A i \in 1 .. Len(q) : q[i] \in KnownEvents
  BY KnownAreEvents, ElementOfSeq
<1>7. Total(q, Spends') = Total(q, Spends)
  BY <1>2, <1>4, <1>5, <1>6, TotalAgrees
<1>8. ASSUME NEW token \in Tokens PROVE Total(q, Gives(token)') = Total(q, Gives(token))
  <2>1. PICK w \in Weights, v \in Weights : w = Gives(token) /\ v = Gives(token)'
    BY <1>4, <1>5
  <2>2. \A i \in 1 .. Len(q) : w[q[i]] = v[q[i]]
    BY <1>3, <1>6, <2>1
  <2>3. Total(q, w) = Total(q, v)
    BY <1>6, <2>2, TotalAgrees
  <2> QED
    BY <2>1, <2>3
<1> QED
  BY <1>7, <1>8

LEMMA InitBInv == Init => BInv
<1> SUFFICES ASSUME Init PROVE BInv
  OBVIOUS
<1>1. TInv
  BY InitTInv
<1>2. Total(queue, Spends) = 0 /\ \A token \in Tokens : Total(queue, Gives(token)) = 0
  <2>1. queue = <<>>
    BY DEF Init
  <2> QED
    BY <1>1, <2>1, Weighing, TotalNothing
<1>3. quote = Quote /\ \A token \in Tokens : positions[token] = 0
  BY DEF Init
<1>4. QueueOK
  BY <1>2, <1>3, PaperAssumption DEF QueueOK
<1>5. TradeOK
  BY DEF Init, TradeOK
<1>6. Worth
  BY <1>3, PaperAssumption DEF Worth, Tokens
<1> QED
  BY <1>1, <1>4, <1>5, <1>6 DEF BInv

\* A step that books nothing, and tells of nothing to book, keeps the balance.
LEMMA NothingBooked ==
    ASSUME BInv, TInv', \A i \in Placed : i \in Placed' /\ order'[i] = order[i],
           UNCHANGED <<trade, positions, quote, hasty>>, queue' \in Seq(KnownEvents),
           Total(queue', Spends) = Total(queue, Spends),
           \A token \in Tokens : Total(queue', Gives(token)) = Total(queue, Gives(token)),
           trade = None \/ event' = event \/ event' = None
    PROVE  BInv'
<1>1. TInv /\ TradeOK /\ QueueOK /\ Worth
  BY DEF BInv
<1>2. trade # None => trade.events \in Seq(KnownEvents)
  BY <1>1, TradeTypes
<1>3. /\ Total(queue', Spends') = Total(queue, Spends)
      /\ \A token \in Tokens : Total(queue', Gives(token)') = Total(queue, Gives(token))
  BY <1>1, <1>2, Steady
<1>4. trade # None =>
        /\ Total(trade.events, Spends') = Total(trade.events, Spends)
        /\ \A token \in Tokens :
              Total(trade.events, Gives(token)') = Total(trade.events, Gives(token))
  BY <1>1, <1>2, Steady
<1>5. TradeOK'
  <2>1. trade # None => event' = None
    BY <1>1 DEF TradeOK
  <2> QED
    BY <1>1, <1>4, <2>1 DEF TradeOK
<1>6. QueueOK'
  BY <1>1, <1>3 DEF QueueOK
<1>7. Worth'
  BY <1>1 DEF Worth
<1> QED
  BY <1>5, <1>6, <1>7 DEF BInv

LEMMA PlaceBooks ==
    ASSUME BInv, NEW id \in Orders, NEW token \in Tokens, NEW side \in Sides,
           Place(id, token, side)
    PROVE  BInv'
<1>1. TInv'
  BY PlaceTypes DEF BInv
<1>2. \A i \in Placed : i \in Placed' /\ order'[i] = order[i]
  BY DEF Place, Placed, BInv, TInv, TypeOK
<1>3. UNCHANGED <<trade, positions, quote, queue, event, hasty>>
  BY DEF Place, books
<1>4. queue \in Seq(KnownEvents)
  BY DEF BInv, TInv, PlacedOK
<1> QED
  BY <1>1, <1>2, <1>3, <1>4, NothingBooked

LEMMA CancelBooks ==
    ASSUME BInv, NEW id \in Orders, CancelOrder(id) \/ CancelUnderLock(id)
    PROVE  BInv'
<1>1. TInv /\ TInv'
  BY CancelTypes DEF BInv
<1>2. UNCHANGED <<order, trade, positions, quote, event, hasty>>
  BY DEF CancelOrder, CancelUnderLock, books
<1>3. /\ queue' = queue \/ queue' = Append(queue, Cancelled(id))
      /\ queue' \in Seq(KnownEvents)
  BY <1>1, TellTypes DEF CancelOrder, CancelUnderLock, TInv, PlacedOK
<1>4. /\ Total(queue', Spends) = Total(queue, Spends)
      /\ \A token \in Tokens : Total(queue', Gives(token)) = Total(queue, Gives(token))
  <2>1. PICK e \in KnownEvents : e = Cancelled(id) /\ e.kind = "cancelled"
    BY CancelledKnown DEF Cancelled
  <2>2. queue \in Seq(Events) /\ e \in Events
    BY <1>1 DEF TInv, TypeOK, KnownEvents
  <2>3. Spends[e] = 0 /\ \A token \in Tokens : Gives(token)[e] = 0
    BY <1>1, <2>1, EventWeights
  <2>4. CASE queue' = Append(queue, e)
    <3>1. Total(queue', Spends) = Total(queue, Spends) + 0
      BY <1>1, <2>2, <2>3, <2>4, Weighing, TotalAppend
    <3>2. \A token \in Tokens : Total(queue', Gives(token)) = Total(queue, Gives(token)) + 0
      BY <1>1, <2>2, <2>3, <2>4, Weighing, TotalAppend
    <3>3. Total(queue, Spends) \in Nat
          /\ \A token \in Tokens : Total(queue, Gives(token)) \in Nat
      BY <1>1, <2>2, Weighing, TotalNat
    <3> QED
      BY <3>1, <3>2, <3>3
  <2> QED
    BY <1>3, <2>1, <2>4
<1>5. \A i \in Placed : i \in Placed' /\ order'[i] = order[i]
  BY <1>2 DEF Placed
<1> QED
  BY <1>1, <1>2, <1>3, <1>4, <1>5, NothingBooked

LEMMA IdleBooks ==
    ASSUME BInv, UNCHANGED vars \/ BookUpdate \/ EndSignals
    PROVE  BInv'
<1>1. TInv'
  BY LoopTypes DEF BInv
<1>2. UNCHANGED <<order, trade, positions, quote, queue, hasty>>
  BY DEF vars, BookUpdate, EndSignals, books, executor
<1>3. trade = None \/ event' = event \/ event' = None
  BY DEF vars, BookUpdate, EndSignals, Idle
<1>4. \A i \in Placed : i \in Placed' /\ order'[i] = order[i]
  BY <1>2 DEF Placed
<1>5. queue \in Seq(KnownEvents)
  BY DEF BInv, TInv, PlacedOK
<1> QED
  BY <1>1, <1>2, <1>3, <1>4, <1>5, NothingBooked

LEMMA StartBooks ==
    ASSUME BInv, NEW token \in Tokens, NEW side \in Sides, NEW size \in TradeSizes,
           StartTrade(token, side, size)
    PROVE  BInv'
<1>1. TInv /\ TInv' /\ QueueOK /\ Worth
  BY StartTypes DEF BInv
<1>2. /\ UNCHANGED <<order, positions, quote, queue, event, hasty>>
      /\ event = None /\ queue = <<>>
      /\ trade' # None /\ trade'.events = <<>> /\ trade'.bought = 0
  <2>1. trade' # None
    <3>1. PICK t : t = [token |-> token, side |-> side, size |-> size, todo |-> resting,
                        bought |-> 0, events |-> <<>>, gone |-> {}]
      OBVIOUS
    <3>2. <<>> \in Seq(Events)
      BY EmptySeq
    <3>3. t \in Trades
      BY <1>1, <3>1, <3>2 DEF Trades, TInv, TypeOK
    <3> QED
      BY <3>1, <3>3, NoneAssumption DEF StartTrade
  <2> QED
    BY <2>1 DEF StartTrade, Idle, executor, books
<1>3. Spends' = Spends /\ \A kind \in Tokens : Gives(kind)' = Gives(kind)
  BY <1>2 DEF Spends, Spent, Gives, Given
<1>4. /\ Total(<<>>, Spends) = 0
      /\ \A kind \in Tokens : Total(<<>>, Gives(kind)) = 0
  BY <1>1, Weighing, TotalNothing
<1>5. QueueOK'
  BY <1>1, <1>2, <1>3, <1>4 DEF QueueOK
<1>6. quote >= 0 /\ (~hasty => \A kind \in Tokens : positions[kind] >= 0)
  BY <1>1, <1>2, <1>4 DEF QueueOK
<1>7. TradeOK'
  BY <1>2, <1>3, <1>4, <1>6 DEF TradeOK
<1>8. Worth'
  BY <1>1, <1>2 DEF Worth
<1> QED
  BY <1>1, <1>5, <1>7, <1>8 DEF BInv

\* What a look at an order adds to what the trade books, in lots of the trade's token.
Adds(events, lots) ==
    /\ Total(events, Spends) = IF trade.side = "sell" THEN lots ELSE 0
    /\ \A token \in Tokens :
          Total(events, Gives(token)) =
              IF trade.side = "buy" /\ token = trade.token THEN -lots ELSE 0
    /\ trade.side = "sell" => trade.bought + lots <= quote
    /\ trade.side = "buy" /\ ~hasty => -(trade.bought + lots) <= positions[trade.token]

\* What the trade tells of so far is within the books.
LEMMA SoFar ==
    ASSUME BInv, trade # None
    PROVE  /\ trade.side = "sell" => trade.bought <= quote
           /\ trade.side = "buy" /\ ~hasty => -trade.bought <= positions[trade.token]
<1>1. TInv /\ TradeOK
  BY DEF BInv
<1>2. trade.token \in Tokens
  BY <1>1, TradeTypes
<1>3. /\ Total(trade.events, Spends) <= quote
      /\ ~hasty => Total(trade.events, Gives(trade.token)) <= positions[trade.token]
  BY <1>1, <1>2 DEF TradeOK
<1>4. trade.side = "sell" => Total(trade.events, Spends) = trade.bought
  BY <1>1 DEF TradeOK
<1>5. trade.side = "buy" => Total(trade.events, Gives(trade.token)) = -trade.bought
  BY <1>1, <1>2 DEF TradeOK
<1> QED
  BY <1>3, <1>4, <1>5

\* A look without a fill adds nothing.
LEMMA AddsNothing ==
    ASSUME BInv, trade # None, NEW id \in Orders, NEW events,
           events = <<>> \/ events = <<Cancelled(id)>>
    PROVE  Adds(events, 0)
<1>1. TInv
  BY DEF BInv
<1>2. Total(events, Spends) = 0 /\ \A token \in Tokens : Total(events, Gives(token)) = 0
  <2>1. CASE events = <<>>
    BY <1>1, <2>1, Weighing, TotalNothing
  <2>2. CASE events = <<Cancelled(id)>>
    <3>1. PICK e \in KnownEvents : e = Cancelled(id) /\ e.kind = "cancelled"
      BY CancelledKnown DEF Cancelled
    <3>2. e \in Events
      BY DEF KnownEvents
    <3>3. Spends[e] = 0 /\ \A token \in Tokens : Gives(token)[e] = 0
      BY <1>1, <3>1, EventWeights
    <3> QED
      BY <1>1, <2>2, <3>1, <3>2, <3>3, Weighing, TotalOne
  <2> QED
    BY <2>1, <2>2
<1>3. trade.bought \in Int
  BY <1>1, TradeTypes
<1> QED
  BY <1>2, <1>3, SoFar DEF Adds

\* A fill adds its lots, on the side against the trade's.
LEMMA AddsFill ==
    ASSUME BInv, trade # None, NEW id \in Placed, NEW n \in 1 .. Size,
           n <= Affordable(order[id].side),
           order[id].token = trade.token, order[id].side # trade.side
    PROVE  Adds(<<Fill(id, n)>>, IF order[id].side = "buy" THEN n ELSE -n)
<1>1. TInv /\ TradeOK
  BY DEF BInv
<1>2. PICK e \in KnownEvents : /\ e = Fill(id, n) /\ e.kind = "fill"
                               /\ e.id = id /\ e.lots = n
  BY FillKnown DEF Fill, Placed
<1>3. e \in Events
  BY DEF KnownEvents
<1>4. /\ Spends[e] = IF order[id].side = "buy" THEN n ELSE 0
      /\ \A token \in Tokens :
            Gives(token)[e] = IF order[id].side = "sell" /\ trade.token = token
                              THEN n ELSE 0
  BY <1>1, <1>2, EventWeights
<1>5. /\ Total(<<e>>, Spends) = Spends[e]
      /\ \A token \in Tokens : Total(<<e>>, Gives(token)) = Gives(token)[e]
  BY <1>1, <1>3, Weighing, TotalOne
<1>6. /\ trade.token \in Tokens /\ trade.bought \in Int /\ n \in Int
      /\ quote \in Int /\ positions[trade.token] \in Int
  <2>1. trade.token \in Tokens /\ trade.bought \in Int
    BY <1>1, TradeTypes
  <2> QED
    BY <1>1, <2>1 DEF TInv, TypeOK
<1>7. \/ (order[id].side = "buy" /\ trade.side = "sell")
      \/ (order[id].side = "sell" /\ trade.side = "buy")
  BY <1>1, PlacedTypes, TradeTypes DEF Sides
<1>8. CASE order[id].side = "buy" /\ trade.side = "sell"
  <2>1. /\ Total(<<e>>, Spends) = n
        /\ \A token \in Tokens : Total(<<e>>, Gives(token)) = 0
    BY <1>4, <1>5, <1>8
  <2>2. n <= quote - trade.bought
    BY <1>8 DEF Affordable
  <2>3. trade.bought + n <= quote
    BY <1>6, <2>2
  <2> QED
    BY <1>2, <1>8, <2>1, <2>3 DEF Adds
<1>9. CASE order[id].side = "sell" /\ trade.side = "buy"
  <2>1. /\ Total(<<e>>, Spends) = 0
        /\ \A token \in Tokens :
              Total(<<e>>, Gives(token)) = IF token = trade.token THEN -(-n) ELSE 0
    BY <1>4, <1>5, <1>6, <1>9
  <2>2. n <= positions[trade.token] + trade.bought
    BY <1>9 DEF Affordable
  <2>3. -(trade.bought + (-n)) <= positions[trade.token]
    BY <1>6, <2>2
  <2> QED
    BY <1>2, <1>9, <2>1, <2>3 DEF Adds
<1> QED
  BY <1>7, <1>8, <1>9

LEMMA CheckBooks ==
    ASSUME BInv, NEW id \in Orders, NEW placed \in BOOLEAN,
           PassOver(id, placed) \/ ConfirmCancel(id, placed) \/ FillOrder(id, placed)
    PROVE  BInv'
<1>1. TInv /\ TInv' /\ TradeOK /\ QueueOK /\ Worth
  BY CheckTypes DEF BInv
<1>2. trade # None /\ id \in Placed
  BY <1>1, CheckForms
<1>3. PICK o \in Records, events \in Seq(KnownEvents), gone \in BOOLEAN, lots \in Int :
          Checked(id, o, events, gone, lots) /\ Adds(events, lots)
  <2>1. PICK o \in Records, events \in Seq(KnownEvents), gone \in BOOLEAN, lots \in Int :
          /\ Checked(id, o, events, gone, lots)
          /\ \/ (events = <<>> \/ events = <<Cancelled(id)>>) /\ lots = 0
             \/ \E n \in 1 .. Size :
                  /\ events = <<Fill(id, n)>>
                  /\ lots = IF order[id].side = "buy" THEN n ELSE -n
                  /\ n <= Affordable(order[id].side)
                  /\ order[id].token = trade.token
                  /\ order[id].side # trade.side
    BY <1>1, CheckForms
  <2>2. Adds(events, lots)
    BY <1>2, <2>1, AddsNothing, AddsFill
  <2> QED
    BY <2>1, <2>2
<1>4. /\ trade'.token = trade.token /\ trade'.side = trade.side
      /\ trade'.bought = trade.bought + lots
      /\ trade'.events = trade.events \o events
  BY <1>1, <1>2, <1>3, CheckedTypes
<1>5. UNCHANGED <<order, queue, event, positions, quote, hasty>>
  BY <1>3 DEF Checked, books
<1>6. Spends' = Spends /\ \A token \in Tokens : Gives(token)' = Gives(token)
  BY <1>5 DEF Spends, Spent, Gives, Given
<1>7. events \in Seq(Events) /\ trade.events \in Seq(Events) /\ trade.bought \in Int
  BY <1>1, <1>2, KnownAreEvents, TradeTypes
<1>8. /\ Total(trade'.events, Spends) = Total(trade.events, Spends) + Total(events, Spends)
      /\ \A token \in Tokens :
            Total(trade'.events, Gives(token))
               = Total(trade.events, Gives(token)) + Total(events, Gives(token))
  BY <1>1, <1>4, <1>7, Weighing, TotalConcat
<1>9. Total(trade'.events, Spends) = IF trade.side = "sell" THEN trade.bought + lots ELSE 0
  <2>1. /\ Total(trade.events, Spends) = IF trade.side = "sell" THEN trade.bought ELSE 0
        /\ Total(events, Spends) = IF trade.side = "sell" THEN lots ELSE 0
    BY <1>1, <1>2, <1>3 DEF TradeOK, Adds
  <2> QED
    BY <1>7, <1>8, <2>1
<1>10. \A token \in Tokens :
          Total(trade'.events, Gives(token)) =
              IF trade.side = "buy" /\ token = trade.token THEN -(trade.bought + lots) ELSE 0
  <2> SUFFICES ASSUME NEW token \in Tokens
               PROVE  Total(trade'.events, Gives(token)) =
                        IF trade.side = "buy" /\ token = trade.token
                        THEN -(trade.bought + lots) ELSE 0
    OBVIOUS
  <2>1. /\ Total(trade.events, Gives(token)) =
              IF trade.side = "buy" /\ token = trade.token THEN -trade.bought ELSE 0
        /\ Total(events, Gives(token)) =
              IF trade.side = "buy" /\ token = trade.token THEN -lots ELSE 0
    BY <1>1, <1>2, <1>3 DEF TradeOK, Adds
  <2>2. Total(trade'.events, Gives(token))
           = Total(trade.events, Gives(token)) + Total(events, Gives(token))
    BY <1>8
  <2> QED
    BY <1>7, <2>1, <2>2
<1>11. quote >= 0 /\ (~hasty => \A token \in Tokens : positions[token] >= 0)
  <2>1. /\ Total(queue, Spends) \in Nat
        /\ \A token \in Tokens : Total(queue, Gives(token)) \in Nat
    BY <1>1, Weighing, TotalNat DEF TInv, TypeOK
  <2>2. /\ quote \in Int /\ \A token \in Tokens : positions[token] \in Int
    BY <1>1 DEF TInv, TypeOK
  <2> QED
    BY <1>1, <2>1, <2>2 DEF QueueOK
<1>12. Total(trade'.events, Spends) <= quote
  BY <1>3, <1>9, <1>11 DEF Adds
<1>13. ~hasty => \A token \in Tokens : Total(trade'.events, Gives(token)) <= positions[token]
  BY <1>3, <1>10, <1>11 DEF Adds
<1>14. TradeOK'
  <2>1. event = None
    BY <1>1, <1>2 DEF TradeOK
  <2> QED
    BY <1>4, <1>5, <1>6, <1>9, <1>10, <1>12, <1>13, <2>1 DEF TradeOK
<1>15. QueueOK'
  BY <1>1, <1>2, <1>5, <1>6 DEF QueueOK
<1>16. Worth'
  BY <1>1, <1>5 DEF Worth
<1> QED
  BY <1>1, <1>14, <1>15, <1>16 DEF BInv

LEMMA EndBooks ==
    ASSUME BInv, EndTrade PROVE BInv'
<1>1. TInv /\ TInv' /\ TradeOK /\ QueueOK /\ Worth
  BY EndTypes DEF BInv
<1>2. /\ trade # None /\ trade' = None /\ event' = "trade"
      /\ queue' = queue \o trade.events
      /\ UNCHANGED <<order, positions, quote, hasty>>
  BY DEF EndTrade, books
<1>3. Spends' = Spends /\ \A token \in Tokens : Gives(token)' = Gives(token)
  BY <1>2 DEF Spends, Spent, Gives, Given
<1>4. trade.events \in Seq(Events) /\ queue \in Seq(Events)
  BY <1>1, <1>2, TradeTypes DEF TInv, TypeOK
<1>5. /\ Total(queue', Spends) = Total(queue, Spends) + Total(trade.events, Spends)
      /\ \A token \in Tokens :
            Total(queue', Gives(token))
               = Total(queue, Gives(token)) + Total(trade.events, Gives(token))
  BY <1>1, <1>2, <1>4, Weighing, TotalConcat
<1>6. /\ Total(trade.events, Spends) \in Nat
      /\ \A token \in Tokens : Total(trade.events, Gives(token)) \in Nat
  BY <1>1, <1>4, Weighing, TotalNat
<1>7. /\ Total(queue', Spends) = Total(trade.events, Spends)
      /\ \A token \in Tokens :
            Total(queue', Gives(token)) = Total(trade.events, Gives(token))
  <2>1. /\ Total(queue, Spends) = 0
        /\ \A token \in Tokens : Total(queue, Gives(token)) = 0
    BY <1>1, <1>2 DEF QueueOK
  <2> QED
    BY <1>5, <1>6, <2>1
<1>8. QueueOK'
  BY <1>1, <1>2, <1>3, <1>7 DEF QueueOK, TradeOK
<1>9. TradeOK'
  BY <1>2 DEF TradeOK
<1>10. Worth'
  BY <1>1, <1>2 DEF Worth
<1> QED
  BY <1>1, <1>8, <1>9, <1>10 DEF BInv

LEMMA QueuedBooks ==
    ASSUME BInv, ProcessQueued PROVE BInv'
<1>1. TInv /\ TInv' /\ QueueOK /\ Worth
  BY LoopTypes DEF BInv
<1>2. /\ trade' = None /\ event' = "queued" /\ UNCHANGED <<order, hasty>>
      /\ queue # <<>> /\ queue' = Tail(queue)
  BY DEF ProcessQueued, Idle, executor
<1>3. Spends' = Spends /\ \A token \in Tokens : Gives(token)' = Gives(token)
  BY <1>2 DEF Spends, Spent, Gives, Given
<1>4. PICK e \in KnownEvents :
        /\ e = Head(queue)
        /\ e.kind = "fill" =>
              LET lots == IF order[e.id].side = "buy" THEN e.lots ELSE -e.lots
              IN  /\ positions' = [positions EXCEPT ![order[e.id].token] = @ + lots]
                  /\ quote' = quote - lots
        /\ e.kind = "redeemed" =>
              /\ positions' = [t \in Tokens |-> IF positions[t] = 0 THEN 0
                                                ELSE positions[t] - e.pairs]
              /\ quote' = quote + 2 * e.pairs
        /\ e.kind = "cancelled" => positions' = positions /\ quote' = quote
  BY <1>1, ProcessBooks
<1>5. queue \in Seq(Events) /\ queue' \in Seq(Events)
  BY <1>1 DEF TInv, TypeOK
<1>6. /\ Total(queue, Spends) = Spends[e] + Total(queue', Spends)
      /\ \A token \in Tokens :
            Total(queue, Gives(token)) = Gives(token)[e] + Total(queue', Gives(token))
  BY <1>1, <1>2, <1>4, <1>5, Weighing, TotalTail
<1>7. /\ Total(queue', Spends) \in Nat
      /\ \A token \in Tokens : Total(queue', Gives(token)) \in Nat
  BY <1>1, <1>5, Weighing, TotalNat
<1>8. /\ positions \in [Tokens -> Int] /\ quote \in Int
      /\ Total(queue, Spends) <= quote
      /\ ~hasty => \A token \in Tokens : Total(queue, Gives(token)) <= positions[token]
  BY <1>1 DEF TInv, TypeOK, QueueOK
<1>9. /\ Total(queue', Spends) <= quote'
      /\ ~hasty => \A token \in Tokens : Total(queue', Gives(token)) <= positions'[token]
      /\ Worth'
  <2>1. CASE e.kind = "fill"
    <3>1. PICK n \in Nat, t \in Tokens, side \in Sides :
             n = e.lots /\ t = order[e.id].token /\ side = order[e.id].side
      BY <1>1, <2>1, EventWeights, PlacedTypes
    <3>2. /\ Spends[e] = IF side = "buy" THEN n ELSE 0
          /\ \A token \in Tokens :
                Gives(token)[e] = IF side = "sell" /\ t = token THEN n ELSE 0
      BY <1>1, <2>1, <3>1, EventWeights
    <3>3. /\ positions' = [positions EXCEPT ![t] = @ + (IF side = "buy" THEN n ELSE -n)]
          /\ quote' = quote - (IF side = "buy" THEN n ELSE -n)
      BY <1>4, <2>1, <3>1
    <3>4. CASE side = "buy"
      <4>1. positions' = [positions EXCEPT ![t] = @ + n] /\ quote' = quote - n
        BY <3>3, <3>4
      <4>2. Total(queue, Spends) = n + Total(queue', Spends)
            /\ \A token \in Tokens : Total(queue, Gives(token)) = 0 + Total(queue', Gives(token))
        BY <1>6, <3>2, <3>4
      <4> QED
        BY <1>1, <1>2, <1>7, <1>8, <4>1, <4>2 DEF Worth, Tokens
    <3>5. CASE side = "sell"
      <4>1. positions' = [positions EXCEPT ![t] = @ + (-n)] /\ quote' = quote - (-n)
        BY <3>3, <3>5
      <4>2. Total(queue, Spends) = 0 + Total(queue', Spends)
            /\ \A token \in Tokens :
                  Total(queue, Gives(token))
                     = (IF t = token THEN n ELSE 0) + Total(queue', Gives(token))
        BY <1>6, <3>2, <3>5
      <4> QED
        BY <1>1, <1>2, <1>7, <1>8, <4>1, <4>2 DEF Worth, Tokens
    <3> QED
      BY <3>4, <3>5 DEF Sides
  <2>2. CASE e.kind = "cancelled"
    <3>1. Spends[e] = 0 /\ \A token \in Tokens : Gives(token)[e] = 0
      BY <1>1, <2>2, EventWeights
    <3>2. positions' = positions /\ quote' = quote
      BY <1>4, <2>2
    <3>3. Worth'
      BY <1>1, <1>2, <3>2 DEF Worth
    <3> QED
      BY <1>6, <1>7, <1>8, <3>1, <3>2, <3>3
  <2>3. CASE e.kind = "redeemed"
    <3>1. PICK n \in Nat : n = e.pairs /\ n > 0
      BY <1>1, <2>3, EventWeights
    <3>2. Spends[e] = 0 /\ \A token \in Tokens : Gives(token)[e] = n
      BY <1>1, <2>3, <3>1, EventWeights
    <3>3. /\ positions' = [t \in Tokens |-> IF positions[t] = 0 THEN 0
                                            ELSE positions[t] - n]
          /\ quote' = quote + 2 * n
      BY <1>4, <2>3, <3>1
    <3>4. \A token \in Tokens :
             /\ Total(queue, Gives(token)) = n + Total(queue', Gives(token))
             /\ ~hasty => positions[token] >= n /\ positions'[token] = positions[token] - n
      BY <1>6, <1>7, <1>8, <3>1, <3>2, <3>3
    <3>5. Total(queue', Spends) <= quote'
      BY <1>6, <1>7, <1>8, <3>1, <3>2, <3>3
    <3>6. ~hasty => \A token \in Tokens : Total(queue', Gives(token)) <= positions'[token]
      BY <1>7, <1>8, <3>1, <3>4
    <3>7. Worth'
      <4>1. hasty' = hasty
        BY <1>2
      <4>2. ~hasty => positions'["up"] = positions["up"] - n
                      /\ positions'["down"] = positions["down"] - n
        BY <3>4 DEF Tokens
      <4>3. positions["up"] \in Int /\ positions["down"] \in Int
        BY <1>8 DEF Tokens
      <4> QED
        BY <1>1, <1>8, <3>1, <3>3, <4>1, <4>2, <4>3 DEF Worth
    <3> QED
      BY <3>5, <3>6, <3>7
  <2> QED
    BY <1>1, <2>1, <2>2, <2>3, EventWeights
<1>10. QueueOK'
  BY <1>2, <1>3, <1>9 DEF QueueOK
<1>11. TradeOK'
  BY <1>2 DEF TradeOK
<1> QED
  BY <1>1, <1>9, <1>10, <1>11 DEF BInv

\* A queue without redemptions and sales takes nothing away from the positions.
LEMMA NothingGiven ==
    ASSUME TInv, Redemptions \cup Sales = {}, NEW token \in Tokens
    PROVE  Total(queue, Gives(token)) = 0
<1>1. queue \in Seq(KnownEvents) /\ queue \in Seq(Events)
  BY DEF TInv, TypeOK, PlacedOK
<1>2. ASSUME NEW i \in 1 .. Len(queue) PROVE Gives(token)[queue[i]] = 0
  <2>1. PICK e \in KnownEvents : e = queue[i]
    BY <1>1, ElementOfSeq
  <2>2. i \in DOMAIN queue
    BY <1>1, LenProperties
  <2>3. e.kind # "redeemed"
    BY <2>1, <2>2 DEF Redemptions
  <2>4. ~(e.kind = "fill" /\ order[e.id].side = "sell")
    BY <2>1, <2>2 DEF Sales
  <2> QED
    BY <2>1, <2>3, <2>4, EventWeights
<1> QED
  BY <1>1, <1>2, TotalZero

\* The excess is within the positions; it is beyond what the queue takes from them only
\* if the queue holds another redemption, or a sale.
LEMMA IntentBooks ==
    ASSUME BInv, NEW max \in Policies, Intent(max) PROVE BInv'
<1>1. TInv /\ TInv' /\ TradeOK /\ QueueOK /\ Worth
  BY LoopTypes DEF BInv
<1>2. PICK n \in Int : n = Excess(max)
  BY <1>1, ExcessBounds
<1>3. /\ event # None /\ queue' = queue \o Redemption(n)
      /\ hasty' = (hasty \/ (n > 0 /\ Redemptions \cup Sales # {}))
      /\ UNCHANGED <<order, trade, positions, quote>>
  BY <1>2 DEF Intent, executor, books
<1>4. trade = None
  BY <1>1, <1>3 DEF TradeOK
<1>5. Spends' = Spends /\ \A token \in Tokens : Gives(token)' = Gives(token)
  BY <1>3 DEF Spends, Spent, Gives, Given
<1>6. PICK d \in Seq(KnownEvents) : d = Redemption(n)
  BY RedemptionTypes
<1>7. d \in Seq(Events) /\ queue \in Seq(Events)
  BY <1>1, KnownAreEvents DEF TInv, TypeOK
<1>8. /\ Total(queue', Spends) = Total(queue, Spends) + Total(d, Spends)
      /\ \A token \in Tokens :
            Total(queue', Gives(token)) = Total(queue, Gives(token)) + Total(d, Gives(token))
  BY <1>1, <1>3, <1>6, <1>7, Weighing, TotalConcat
<1>9. /\ quote \in Int /\ Total(queue, Spends) \in Nat
      /\ \A token \in Tokens : positions[token] \in Int /\ Total(queue, Gives(token)) \in Nat
  BY <1>1, <1>7, Weighing, TotalNat DEF TInv, TypeOK
<1>10. /\ Total(queue', Spends) <= quote
       /\ ~hasty' => \A token \in Tokens : Total(queue', Gives(token)) <= positions[token]
  <2>1. CASE n > 0
    <3>1. PICK e \in KnownEvents : e = Redeemed(n) /\ e.kind = "redeemed" /\ e.pairs = n
      <4>1. Redeemed(n) \in KnownEvents
        BY <2>1, RedeemedKnown
      <4>2. Redeemed(n).kind = "redeemed" /\ Redeemed(n).pairs = n
        BY DEF Redeemed
      <4> QED
        BY <4>1, <4>2
    <3>2. Spends[e] = 0 /\ \A token \in Tokens : Gives(token)[e] = n
      BY <1>1, <3>1, EventWeights
    <3>3. e \in Events /\ d = <<e>>
      BY <1>6, <2>1, <3>1 DEF Redemption, KnownEvents
    <3>4. Total(d, Spends) = 0 /\ \A token \in Tokens : Total(d, Gives(token)) = n
      BY <1>1, <3>2, <3>3, Weighing, TotalOne
    <3>5. ~hasty' => \A token \in Tokens : Total(queue, Gives(token)) = 0
      BY <1>1, <1>3, <2>1, NothingGiven
    <3>6. \A token \in Tokens : n <= positions[token]
      BY <1>1, <1>2, ExcessBounds
    <3> QED
      BY <1>1, <1>8, <1>9, <3>4, <3>5, <3>6 DEF QueueOK
  <2>2. CASE ~(n > 0)
    <3>1. d = <<>> /\ hasty' = hasty
      BY <1>1, <1>3, <1>6, <2>2 DEF Redemption, TInv, TypeOK
    <3>2. Total(d, Spends) = 0 /\ \A token \in Tokens : Total(d, Gives(token)) = 0
      BY <1>1, <3>1, Weighing, TotalNothing
    <3> QED
      BY <1>1, <1>8, <1>9, <3>1, <3>2 DEF QueueOK
  <2> QED
    BY <2>1, <2>2
<1>11. QueueOK'
  BY <1>3, <1>4, <1>5, <1>10 DEF QueueOK
<1>12. TradeOK'
  BY <1>3, <1>4 DEF TradeOK
<1>13. Worth'
  BY <1>1, <1>3 DEF Worth
<1> QED
  BY <1>1, <1>11, <1>12, <1>13 DEF BInv

LEMMA NextBInv == BInv /\ [Next]_vars => BInv'
<1> SUFFICES ASSUME BInv, [Next]_vars PROVE BInv'
  OBVIOUS
<1> QED
  BY PlaceBooks, CancelBooks, CheckBooks, StartBooks, EndBooks, IdleBooks,
     QueuedBooks, IntentBooks DEF Next

\* Totals are never negative, so what is within the books leaves nothing negative.
LEMMA BInvBalances == BInv => BooksBalance
<1> SUFFICES ASSUME BInv PROVE BooksBalance
  OBVIOUS
<1>1. TInv /\ QueueOK /\ Worth
  BY DEF BInv
<1>2. /\ Total(queue, Spends) \in Nat
      /\ \A token \in Tokens : Total(queue, Gives(token)) \in Nat
  BY <1>1, Weighing, TotalNat DEF TInv, TypeOK
<1>3. quote \in Int /\ \A token \in Tokens : positions[token] \in Int
  BY <1>1 DEF TInv, TypeOK
<1>4. quote >= 0 /\ (~hasty => \A token \in Tokens : positions[token] >= 0)
  BY <1>1, <1>2, <1>3 DEF QueueOK
<1> QED
  BY <1>1, <1>4 DEF BooksBalance, Worth

\* Paper trading spends no quote it has not got; and until pairs are redeemed while the
\* queue holds another redemption or a sale, it sells no token it has not got and pays
\* for each pair once: for any number and size of orders and trades, and whatever
\* signals with whatever policies the generators answer an event with.
THEOREM BooksSafety == Spec => []BooksBalance
<1>1. Init => BInv
  BY InitBInv
<1>2. BInv /\ [Next]_vars => BInv'
  BY NextBInv
<1>3. BInv => BooksBalance
  BY BInvBalances
<1> QED
  BY <1>1, <1>2, <1>3, PTL DEF Spec

-------------------------------------------------------------------------------
(* The orders implement the contract *)

\* Evidence that trades nothing does not touch what is left, nor an order that is over.
Quiet(o, p) == p.remaining = o.remaining /\ (IsTerminal(o) => p = o)

\* A fill of an order that is not over.
Fills(o, p) ==
    /\ ~IsTerminal(o)
    /\ \/ p.remaining = 0 /\ p.state = "Filled"
       \/ p.remaining \in 1 .. o.remaining - 1 /\ ~IsTerminal(p)

LEMMA QuietEvidence ==
    ASSUME NEW o \in Records
    PROVE  /\ Quiet(o, o)
           /\ Quiet(o, AfterCancelRequest(o))
           /\ Quiet(o, AfterPlaceSuccess(o))
           /\ Quiet(o, AfterTerminal(o, "Cancelled"))
<1>1. /\ o.state \in States /\ o.cancel_requested \in BOOLEAN
      /\ o = [state |-> o.state, cancel_requested |-> o.cancel_requested,
              remaining |-> o.remaining]
  BY DEF Records
<1>2. Quiet(o, AfterCancelRequest(o)) /\ Quiet(o, o)
  BY <1>1 DEF Quiet, AfterCancelRequest, IsTerminal, States
<1>3. Quiet(o, AfterPlaceSuccess(o))
  BY <1>1 DEF Quiet, AfterPlaceSuccess, IsTerminal, TerminalReasons, States
<1>4. Quiet(o, AfterTerminal(o, "Cancelled"))
  BY <1>1 DEF Quiet, AfterTerminal, IsTerminal, TerminalReasons
<1> QED
  BY <1>2, <1>3, <1>4

\* The acknowledgement that comes with a fill or a cancellation cannot be told apart
\* from it.
LEMMA AcknowledgedFirst ==
    ASSUME NEW o \in Records, NEW a, a = o \/ a = AfterPlaceSuccess(o)
    PROVE  /\ a \in Records /\ a.remaining = o.remaining
           /\ IsTerminal(a) <=> IsTerminal(o)
           /\ IsTerminal(o) => a = o
  BY RecordTypes DEF AfterPlaceSuccess, IsTerminal, TerminalReasons, Records, States

LEMMA FillTrades ==
    ASSUME NEW o \in Records, ~IsTerminal(o), NEW n \in Nat, n > 0
    PROVE  Fills(o, AfterFill(o, n))
<1>1. PICK rest : rest = IF n >= o.remaining THEN 0 ELSE o.remaining - n
  OBVIOUS
<1>2. rest = 0 \/ rest \in 1 .. o.remaining - 1
  BY <1>1, RecordTypes
<1>3. PICK state : state = IF rest = 0 THEN "Filled"
                           ELSE IF o.state = "SubmitPending" THEN "Open" ELSE o.state
  OBVIOUS
<1>4. PICK p : p = [o EXCEPT !.remaining = rest, !.state = state]
  OBVIOUS
<1>5. AfterFill(o, n) = p
  BY <1>1, <1>3, <1>4 DEF AfterFill
<1>6. p.remaining = rest /\ p.state = state
  BY <1>4 DEF Records
<1>7. rest # 0 => ~IsTerminal(p)
  BY <1>3, <1>6 DEF IsTerminal, TerminalReasons
<1> QED
  BY <1>2, <1>3, <1>5, <1>6, <1>7 DEF Fills

-------------------------------------------------------------------------------

\* How the abstract variables read the change of one record.
LEMMA AbstractReplace ==
    ASSUME TInv, NEW id \in Orders, NEW p \in Records, life' = [life EXCEPT ![id] = p]
    PROVE  /\ phase' = [phase EXCEPT ![id] = IF IsTerminal(p) THEN p.state ELSE "working"]
           /\ left' = [left EXCEPT ![id] = p.remaining]
<1>1. life'[id] = p /\ \A i \in Orders : i # id => life'[i] = life[i]
  BY DEF TInv, TypeOK
<1>2. p # None
  BY RecordTypes
<1>3. /\ \A i \in Orders : phase'[i] =
           IF life'[i] = None THEN "unused"
           ELSE IF life'[i].state \in TerminalReasons THEN life'[i].state ELSE "working"
      /\ \A i \in Orders : left'[i] = IF life'[i] = None THEN 0 ELSE life'[i].remaining
      /\ \A i \in Orders : phase[i] =
           IF life[i] = None THEN "unused"
           ELSE IF life[i].state \in TerminalReasons THEN life[i].state ELSE "working"
      /\ \A i \in Orders : left[i] = IF life[i] = None THEN 0 ELSE life[i].remaining
  BY DEF phase, left, IsTerminal
<1>4. /\ phase = [i \in Orders |-> phase[i]] /\ phase' = [i \in Orders |-> phase'[i]]
      /\ left = [i \in Orders |-> left[i]] /\ left' = [i \in Orders |-> left'[i]]
  BY DEF phase, left
<1>5. phase' = [phase EXCEPT ![id] = IF IsTerminal(p) THEN p.state ELSE "working"]
  BY <1>1, <1>2, <1>3, <1>4 DEF IsTerminal
<1>6. left' = [left EXCEPT ![id] = p.remaining]
  BY <1>1, <1>2, <1>3, <1>4
<1> QED
  BY <1>5, <1>6

\* What the abstract variables show of a placed order, and of one that is not.
LEMMA AbstractReads ==
    ASSUME TInv, NEW id \in Orders
    PROVE  /\ id \in Placed =>
                /\ phase[id] = IF IsTerminal(life[id]) THEN life[id].state ELSE "working"
                /\ left[id] = life[id].remaining
           /\ id \notin Placed => phase[id] = "unused"
           /\ phase = [phase EXCEPT ![id] = phase[id]] /\ left = [left EXCEPT ![id] = left[id]]
<1>1. id \in Placed <=> life[id] # None
  BY DEF TInv, PlacedOK
<1> QED
  BY <1>1 DEF phase, left

\* An order's record that changes without a trade closes the order or shows nothing.
LEMMA QuietRefines ==
    ASSUME TInv, NEW id \in Placed, NEW p \in Records, Quiet(life[id], p),
           life' = [life EXCEPT ![id] = p] \/ (life' = life /\ p = life[id])
    PROVE  [Contract!Next]_<<phase, left>>
<1>1. id \in Orders /\ life[id] \in Records
  BY PlacedTypes
<1>2. life' = [life EXCEPT ![id] = p]
  BY <1>1 DEF TInv, TypeOK
<1>3. /\ phase' = [phase EXCEPT ![id] = IF IsTerminal(p) THEN p.state ELSE "working"]
      /\ left' = [left EXCEPT ![id] = p.remaining]
  BY <1>1, <1>2, AbstractReplace
<1>4. left' = left
  BY <1>1, <1>3, AbstractReads DEF Quiet
<1>5. CASE IsTerminal(life[id]) \/ ~IsTerminal(p)
  <2>1. phase[id] = IF IsTerminal(p) THEN p.state ELSE "working"
    BY <1>1, <1>5, AbstractReads DEF Quiet
  <2>2. phase' = phase
    BY <1>1, <1>3, <2>1, AbstractReads
  <2> QED
    BY <1>4, <2>2
<1>6. CASE ~IsTerminal(life[id]) /\ IsTerminal(p)
  <2>1. phase[id] = "working"
    BY <1>1, <1>6, AbstractReads
  <2>2. PICK outcome \in TerminalReasons : outcome = p.state
    BY <1>6 DEF IsTerminal
  <2>3. Contract!Close(id, outcome)
    BY <1>3, <1>4, <1>6, <2>1, <2>2 DEF Contract!Close
  <2> QED
    BY <1>1, <2>3 DEF Contract!Next
<1> QED
  BY <1>5, <1>6

\* A fill is a trade of the contract, or its last.
LEMMA TradeRefines ==
    ASSUME TInv, NEW id \in Placed, NEW p \in Records, Fills(life[id], p),
           life' = [life EXCEPT ![id] = p]
    PROVE  Contract!Next
<1>1. id \in Orders /\ life[id] \in Records
  BY PlacedTypes
<1>2. /\ phase' = [phase EXCEPT ![id] = IF IsTerminal(p) THEN p.state ELSE "working"]
      /\ left' = [left EXCEPT ![id] = p.remaining]
  BY <1>1, AbstractReplace
<1>3. phase[id] = "working" /\ left[id] = life[id].remaining
  BY <1>1, AbstractReads DEF Fills
<1>4. CASE p.remaining = 0 /\ p.state = "Filled"
  <2>1. Contract!Complete(id)
    BY <1>2, <1>3, <1>4 DEF Contract!Complete, IsTerminal, TerminalReasons
  <2> QED
    BY <1>1, <2>1 DEF Contract!Next
<1>5. CASE p.remaining \in 1 .. life[id].remaining - 1 /\ ~IsTerminal(p)
  <2>1. PICK rest \in 1 .. left[id] - 1 : rest = p.remaining
    BY <1>3, <1>5
  <2>2. phase' = phase
    BY <1>1, <1>2, <1>3, <1>5, AbstractReads
  <2>3. rest < left[id]
    BY <1>1, <1>3, <2>1, RecordTypes
  <2>4. Contract!Trade(id, rest)
    BY <1>2, <1>3, <2>1, <2>2, <2>3 DEF Contract!Trade
  <2> QED
    BY <1>1, <2>1, <2>4 DEF Contract!Next
<1> QED
  BY <1>4, <1>5 DEF Fills

-------------------------------------------------------------------------------

LEMMA PlaceRefines ==
    ASSUME TInv, NEW id \in Orders, NEW token \in Tokens, NEW side \in Sides,
           Place(id, token, side)
    PROVE  Contract!Next
<1>1. PICK submitted \in Records :
          submitted = [state |-> "SubmitPending", cancel_requested |-> FALSE,
                       remaining |-> Size]
  <2>1. Size \in 0 .. Size
    BY PaperAssumption
  <2>2. [state |-> "SubmitPending", cancel_requested |-> FALSE, remaining |-> Size] \in Records
    BY <2>1 DEF Records, States
  <2> QED
    BY <2>2
<1>2. PICK p : p = IF deferred THEN submitted ELSE AfterPlaceSuccess(submitted)
  OBVIOUS
<1>3. p \in Records /\ p.remaining = Size /\ ~IsTerminal(p)
  BY <1>1, <1>2, AcknowledgedFirst DEF IsTerminal, TerminalReasons
<1>4. life' = [life EXCEPT ![id] = p] /\ id \notin Placed
  BY <1>1, <1>2 DEF Place, Placed
<1>5. phase[id] = "unused"
  BY <1>4, AbstractReads
<1>6. /\ phase' = [phase EXCEPT ![id] = "working"] /\ left' = [left EXCEPT ![id] = Size]
  BY <1>3, <1>4, AbstractReplace
<1>7. Contract!Accept(id, Size)
  BY <1>5, <1>6 DEF Contract!Accept
<1> QED
  BY <1>7 DEF Contract!Next

LEMMA CancelRefines ==
    ASSUME TInv, NEW id \in Orders, CancelOrder(id) \/ CancelUnderLock(id)
    PROVE  [Contract!Next]_<<phase, left>>
<1>1. id \in Placed
  BY DEF CancelOrder, CancelUnderLock, TInv, PlacedOK, Placed
<1>2. PICK o \in Records : o = life[id]
  BY <1>1, PlacedTypes
<1>3. PICK p \in Records :
          /\ Quiet(o, p)
          /\ life' = [life EXCEPT ![id] = p] \/ (life' = life /\ p = life[id])
  BY <1>2, RecordTypes, QuietEvidence DEF CancelOrder, CancelUnderLock
<1> QED
  BY <1>1, <1>2, <1>3, QuietRefines

LEMMA CheckRefines ==
    ASSUME TInv, NEW id \in Orders, NEW placed \in BOOLEAN,
           PassOver(id, placed) \/ ConfirmCancel(id, placed) \/ FillOrder(id, placed)
    PROVE  [Contract!Next]_<<phase, left>>
<1>1. id \in Placed /\ trade # None
  BY CheckForms
<1>2. PICK o \in Records : o = life[id]
  BY <1>1, PlacedTypes
<1>3. PICK a : a = Acknowledged(id, placed)
  OBVIOUS
<1>4. /\ a \in Records /\ a.remaining = o.remaining
      /\ IsTerminal(a) <=> IsTerminal(o)
      /\ IsTerminal(o) => a = o
  BY <1>2, <1>3, AcknowledgedFirst DEF Acknowledged
<1>5. CASE PassOver(id, placed)
  <2>1. life' = [life EXCEPT ![id] = a]
    BY <1>3, <1>5 DEF PassOver, Checked
  <2>2. Quiet(o, a)
    BY <1>2, <1>3, QuietEvidence DEF Acknowledged
  <2> QED
    BY <1>1, <1>2, <1>4, <2>1, <2>2, QuietRefines
<1>6. CASE ConfirmCancel(id, placed)
  <2>1. PICK p \in Records : p = AfterTerminal(a, "Cancelled")
    BY <1>4, RecordTypes
  <2>2. life' = [life EXCEPT ![id] = p]
    BY <1>3, <1>6, <2>1 DEF ConfirmCancel, Checked
  <2>3. Quiet(a, p)
    BY <1>4, <2>1, QuietEvidence
  <2>4. Quiet(o, p)
    BY <1>4, <2>3 DEF Quiet
  <2> QED
    BY <1>1, <1>2, <2>2, <2>4, QuietRefines
<1>7. CASE FillOrder(id, placed)
  <2>1. PICK n : n = FillSize(id)
    OBVIOUS
  <2>2. n \in Nat /\ n > 0
    BY <1>1, <1>7, <2>1, FillSizeTypes DEF FillOrder
  <2>3. PICK p \in Records : p = AfterFill(a, n)
    BY <1>4, <2>2, FilledRecord
  <2>4. life' = [life EXCEPT ![id] = p] /\ a.state \in {"Open", "CancelPending"}
    BY <1>3, <1>7, <2>1, <2>3 DEF FillOrder, Checked
  <2>5. Fills(a, p)
    BY <1>4, <2>2, <2>3, <2>4, FillTrades DEF IsTerminal, TerminalReasons
  <2>6. Fills(o, p)
    BY <1>4, <2>5 DEF Fills
  <2> QED
    BY <1>1, <1>2, <2>4, <2>6, TradeRefines
<1> QED
  BY <1>5, <1>6, <1>7

LEMMA StepRefines == TInv /\ [Next]_vars => [Contract!Next]_<<phase, left>>
<1> SUFFICES ASSUME TInv, [Next]_vars PROVE [Contract!Next]_<<phase, left>>
  OBVIOUS
<1>1. CASE UNCHANGED life
  BY <1>1 DEF phase, left, IsTerminal
<1>2. CASE ~UNCHANGED life
  <2>1. \/ \E id \in Orders, token \in Tokens, side \in Sides : Place(id, token, side)
        \/ \E id \in Orders : CancelOrder(id) \/ CancelUnderLock(id)
        \/ \E id \in Orders, placed \in BOOLEAN :
              PassOver(id, placed) \/ ConfirmCancel(id, placed) \/ FillOrder(id, placed)
    BY <1>2 DEF Next, vars, executor, StartTrade, EndTrade, BookUpdate, ProcessQueued,
                Intent, EndSignals
  <2> QED
    BY <2>1, PlaceRefines, CancelRefines, CheckRefines
<1> QED
  BY <1>1, <1>2

\* The paper executor's orders implement what readers of an order rely on, for any
\* orders, sizes, trades and latencies: whichever of a trade, a cancel task and a
\* latency comes first, an order trades only while it works and ends once.
THEOREM Refinement == Spec => ImplementsContract
<1>1. Init => Contract!Init
  BY DEF Init, Contract!Init, phase, left
<1>2. TInv /\ [Next]_vars => [UNCHANGED life \/ Contract!Next]_<<phase, left>>
  BY StepRefines
<1> QED
  BY <1>1, <1>2, InitTInv, NextTInv, PTL DEF Spec, ImplementsContract

=================================================================================
