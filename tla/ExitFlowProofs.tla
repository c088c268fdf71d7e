----------------------------- MODULE ExitFlowProofs -----------------------------
(***************************************************************************)
(* Proof that pending_sells lets one exit out at a time, and that the      *)
(* manager's books follow the exchange, for any bounds on retries,         *)
(* failures, trades, tasks and events.                                     *)
(***************************************************************************)
EXTENDS ExitFlow, FiniteSetTheorems, SequenceTheorems, WellFoundedInduction, TLAPS

\* What the proof needs of the tasks' types.
TasksOK ==
    /\ DOMAIN tasks = Slots
    /\ \A s \in Slots : tasks[s] # None => "phase" \in DOMAIN tasks[s]

\* As long as no position closed under an exit, the mark is there for the one exit
\* that sells or still has to clear it.  OneExitAtATime alone is not inductive: it
\* does not know of the mark, nor of the exits that failed and have not cleared it.
MarkIsOfOne ==
    ~interfered => /\ \A s, t \in InPhase(Marked) : s = t
                   /\ InPhase(Marked) # {} => pending

IInv == TasksOK /\ MarkIsOfOne

-------------------------------------------------------------------------------

LEMMA InitIInv == Init => IInv
  BY DEF Init, IInv, TasksOK, MarkIsOfOne, InPhase

\* The steps of a task that leave the mark alone and do not start an exit.
LEMMA TaskKeepsMark ==
    ASSUME IInv, NEW s \in Slots, NEW task,
           tasks' = [tasks EXCEPT ![s] = task],
           task # None => "phase" \in DOMAIN task,
           task # None /\ task.phase \in Marked => s \in InPhase(Marked),
           pending' = pending, interfered' = interfered
    PROVE  IInv'
<1>1. TasksOK'
  BY DEF IInv, TasksOK
<1>2. InPhase(Marked)' \subseteq InPhase(Marked)
  BY DEF IInv, TasksOK, InPhase
<1>3. MarkIsOfOne'
  BY <1>2 DEF IInv, MarkIsOfOne
<1> QED
  BY <1>1, <1>3 DEF IInv

\* The step of the exit that clears the mark and is done with it.
LEMMA TaskClearsMark ==
    ASSUME IInv, NEW s \in InPhase(Marked), NEW task,
           tasks' = [tasks EXCEPT ![s] = task],
           task # None => "phase" \in DOMAIN task /\ task.phase \notin Marked,
           interfered' = interfered
    PROVE  IInv'
<1>1. TasksOK'
  BY DEF IInv, TasksOK, InPhase
<1>2. InPhase(Marked)' = InPhase(Marked) \ {s}
  BY DEF IInv, TasksOK, InPhase
<1>3. MarkIsOfOne'
  BY <1>2 DEF IInv, MarkIsOfOne
<1> QED
  BY <1>1, <1>3 DEF IInv

\* An exit starts when there is no mark, so that no other is under way.
LEMMA SpawnIInv ==
    ASSUME IInv, NEW type, NEW amount, Spawn(type, amount)
    PROVE  IInv'
<1> DEFINE task == [type |-> type, amount |-> amount, phase |-> "trying", attempt |-> 1]
<1>1. PICK s \in Slots : tasks' = [tasks EXCEPT ![s] = task]
  BY DEF Spawn
<1>2. TasksOK'
  BY <1>1 DEF IInv, TasksOK
<1>3. InPhase(Marked)' \subseteq InPhase(Marked) \cup {s}
  BY <1>1 DEF IInv, TasksOK, InPhase
<1>4. ~interfered => InPhase(Marked) = {}
  BY DEF IInv, MarkIsOfOne, Spawn
<1>5. pending' = TRUE /\ interfered' = interfered
  BY DEF Spawn
<1>6. MarkIsOfOne'
  BY <1>3, <1>4, <1>5 DEF MarkIsOfOne
<1> QED
  BY <1>2, <1>6 DEF IInv

\* A position that closes takes the mark with it, and the history says so if an
\* exit was under way.
LEMMA BookIInv ==
    ASSUME IInv, Book
    PROVE  IInv'
<1>1. tasks' = tasks
  BY DEF Book
<1>2. InPhase(Marked)' = InPhase(Marked)
  BY <1>1 DEF InPhase
<1>3. TasksOK'
  BY <1>1 DEF IInv, TasksOK
<1>4. ~interfered' /\ InPhase(Marked) # {} => ~interfered /\ (pending => pending')
  BY DEF Book, Closes
<1>5. ~interfered' => ~interfered
  BY DEF Book
<1>6. MarkIsOfOne'
  BY <1>2, <1>4, <1>5 DEF IInv, MarkIsOfOne
<1> QED
  BY <1>3, <1>6 DEF IInv

LEMMA TaskIInv ==
    ASSUME IInv, NEW s \in Slots,
           \/ SellMatched(s) \/ SellFails(s) \/ ClearPendingSell(s) \/ CountFailure(s)
           \/ \E sold : SellRetried(s, sold)
           \/ PlaceLimit(s) \/ EndLimit(s) \/ ModifyLimit(s) \/ FillLimit(s)
           \/ ExpireLimit(s)
    PROVE  IInv'
<1> DEFINE With(phase) == [tasks[s] EXCEPT !.phase = phase]
<1>0. tasks[s] # None => "phase" \in DOMAIN tasks[s]
  BY DEF IInv, TasksOK
<1>1. CASE SellMatched(s) \/ CountFailure(s) \/ ExpireLimit(s)
  <2>1. /\ tasks' = [tasks EXCEPT ![s] = None]
        /\ pending' = pending /\ interfered' = interfered
    BY <1>1 DEF SellMatched, CountFailure, ExpireLimit, exchange, manager, ghosts
  <2> QED
    BY <2>1, TaskKeepsMark
<1>2. CASE SellFails(s) \/ PlaceLimit(s) \/ EndLimit(s)
  <2>1. PICK phase : /\ tasks' = [tasks EXCEPT ![s] = With(phase)]
                     /\ pending' = pending /\ interfered' = interfered
                     /\ s \in InPhase(Marked)
    BY <1>2 DEF SellFails, PlaceLimit, EndLimit, manager, ghosts, InPhase, Marked, Out
  <2>2. "phase" \in DOMAIN With(phase)
    BY <1>0, <2>1 DEF InPhase
  <2> QED
    BY <2>1, <2>2, TaskKeepsMark
<1>3. CASE \E sold : SellRetried(s, sold)
  <2> DEFINE task == [tasks[s] EXCEPT !.attempt = @ + 1]
  <2>1. /\ tasks' = [tasks EXCEPT ![s] = task]
        /\ pending' = pending /\ interfered' = interfered
        /\ s \in InPhase(Marked)
    BY <1>3 DEF SellRetried, manager, ghosts, InPhase, Marked, Out
  <2>2. "phase" \in DOMAIN task
    BY <1>0, <2>1 DEF InPhase
  <2> QED
    BY <2>1, <2>2, TaskKeepsMark
<1>4. CASE ModifyLimit(s)
  <2> DEFINE task == [tasks[s] EXCEPT !.phase = "modifying", !.amount = position.amount]
  <2>1. /\ tasks' = [tasks EXCEPT ![s] = task]
        /\ pending' = pending /\ interfered' = interfered
        /\ s \in InPhase(Marked)
    BY <1>4 DEF ModifyLimit, manager, ghosts, InPhase, Marked, Out
  <2>2. "phase" \in DOMAIN task
    BY <1>0, <2>1 DEF InPhase
  <2> QED
    BY <2>1, <2>2, TaskKeepsMark
<1>5. CASE FillLimit(s)
  <2>1. PICK task : /\ tasks' = [tasks EXCEPT ![s] = task]
                    /\ task = None \/ task = [tasks[s] EXCEPT !.amount = @ - 1]
                    /\ pending' = pending /\ interfered' = interfered
                    /\ s \in InPhase(Marked)
    BY <1>5 DEF FillLimit, manager, ghosts, InPhase, Marked, Out
  <2>2. task # None => "phase" \in DOMAIN task
    BY <1>0, <2>1 DEF InPhase
  <2> QED
    BY <2>1, <2>2, TaskKeepsMark
<1>6. CASE ClearPendingSell(s)
  <2>1. /\ s \in InPhase(Marked) /\ interfered' = interfered
        /\ \/ tasks' = [tasks EXCEPT ![s] = With("cleared")]
           \/ tasks' = [tasks EXCEPT ![s] = None]
    BY <1>6 DEF ClearPendingSell, InPhase, Marked
  <2>2. "phase" \in DOMAIN With("cleared") /\ With("cleared").phase = "cleared"
    BY <1>0, <2>1 DEF InPhase
  <2>3. "cleared" \notin Marked
    BY DEF Marked, Out
  <2> QED
    BY <2>1, <2>2, <2>3, TaskClearsMark
<1> QED
  BY <1>1, <1>2, <1>3, <1>4, <1>5, <1>6

LEMMA NextIInv == IInv /\ [Next]_vars => IInv'
<1> SUFFICES ASSUME IInv, [Next]_vars PROVE IInv'
  OBVIOUS
<1>1. CASE \/ UNCHANGED vars
           \/ Buy \/ ReportBuy \/ (\E kind \in Bookings : SellOrMerge(kind))
           \/ UpdatePrice \/ NoExitOnUpdate
  <2>1. UNCHANGED <<tasks, pending, interfered>>
    BY <1>1 DEF vars, Buy, ReportBuy, SellOrMerge, UpdatePrice, NoExitOnUpdate,
                manager, ghosts
  <2> QED
    BY <2>1 DEF IInv, TasksOK, MarkIsOfOne, InPhase
<1>2. CASE Book
  BY <1>2, BookIInv
<1>3. CASE \/ ExitOnUpdate \/ ExitOnTimer
           \/ \E type \in {"Sell", "LimitSell"} : ExitOnSignal(type)
  <2>1. \E type, amount : Spawn(type, amount)
    BY <1>3 DEF ExitOnUpdate, ExitOnTimer, ExitOnSignal
  <2> QED
    BY <2>1, SpawnIInv
<1>4. CASE \E s \in Slots :
              \/ SellMatched(s) \/ SellFails(s) \/ ClearPendingSell(s)
              \/ CountFailure(s)
              \/ tasks[s] # None /\ \E sold \in {0, tasks[s].amount} : SellRetried(s, sold)
              \/ PlaceLimit(s) \/ EndLimit(s) \/ ModifyLimit(s) \/ FillLimit(s)
              \/ ExpireLimit(s)
  BY <1>4, TaskIInv
<1> QED
  BY <1>1, <1>2, <1>3, <1>4 DEF Next

-------------------------------------------------------------------------------

\* Whichever of price update, fill, timer and signal asks, and however tasks, fills
\* and merges interleave, no two exits of a token are out at once unless a position
\* closed under one of them.
THEOREM OneExit == Spec => []OneExitAtATime
<1>1. IInv => OneExitAtATime
  <2> SUFFICES ASSUME IInv, ~interfered PROVE Cardinality(InPhase(Out)) <= 1
    BY DEF OneExitAtATime
  <2>1. \A s, t \in InPhase(Out) : s = t
    BY DEF IInv, MarkIsOfOne, InPhase, Marked
  <2>2. CASE InPhase(Out) = {}
    BY <2>2, FS_EmptySet
  <2>3. CASE InPhase(Out) # {}
    <3>1. PICK s : InPhase(Out) = {s}
      BY <2>1, <2>3
    <3> QED
      BY <3>1, FS_Singleton
  <2> QED
    BY <2>2, <2>3
<1> QED
  BY <1>1, InitIInv, NextIInv, PTL DEF Spec

-------------------------------------------------------------------------------
(* The books: lots are counted by side, in the queue and beside it *)

\* What an event books, by side.
Lots(e, side) ==
    IF e.kind \notin Bookings THEN 0
    ELSE IF side = "bought" THEN IF e.change > 0 THEN e.change ELSE 0
                            ELSE IF e.change < 0 THEN -e.change ELSE 0

Total(q, side) ==
    LET upto[i \in 0 .. Len(q)] ==
            IF i = 0 THEN 0 ELSE upto[i - 1] + Lots(q[i], side)
    IN  upto[Len(q)]

\* A limit order is for at least a lot, and only limit orders rest or are modified.
LimitsOK ==
    \A s \in Slots : tasks[s] # None =>
        /\ tasks[s].type = "LimitSell" => tasks[s].amount >= 1
        /\ tasks[s].phase \in {"resting", "modifying"} => tasks[s].type = "LimitSell"

\* No more is on its way to the books than was bought, or left.
OnTheWay ==
    /\ unreported + Total(queue, "bought") <= trades
    /\ balance + untold + Total(queue, "sold") <= trades

Balanced ==
    Amount + unreported + Total(queue, "bought") = balance + untold + Total(queue, "sold")

BooksIInv == TypeOK /\ LimitsOK /\ OnTheWay /\ Balanced

-------------------------------------------------------------------------------
(* Numbers, and what the queued events book *)

LEMMA LeastNumber ==
    ASSUME NEW T \in SUBSET Nat, T # {}
    PROVE  \E x \in T : \A y \in T : x <= y
<1> DEFINE R == OpToRel(<, Nat)
<1>1. IsWellFoundedOn(R, Nat)
  BY NatLessThanWellFounded
<1>2. \A x, y \in Nat : <<y, x>> \in R <=> y < x
  BY DEF OpToRel
<1> HIDE DEF R
<1>3. PICK x \in T : \A y \in T : ~(<<y, x>> \in R)
  BY <1>1, WFMin, Zenon
<1>4. ASSUME NEW y \in T PROVE x <= y
  <2>1. x \in Nat /\ y \in Nat /\ ~(y < x)
    BY <1>2, <1>3
  <2> QED
    BY <2>1
<1> QED
  BY <1>4

\* Induction: what holds of 0, and of n + 1 whenever of n, holds of every number.
LEMMA Induction ==
    ASSUME NEW S, 0 \in S, \A n \in Nat : n \in S => n + 1 \in S
    PROVE  Nat \subseteq S
<1> DEFINE T == Nat \ S
<1> SUFFICES ASSUME T # {} PROVE FALSE
  OBVIOUS
<1>1. PICK n \in T : \A y \in T : n <= y
  BY LeastNumber
<1>2. n # 0 /\ n - 1 \in Nat /\ n - 1 \in S /\ (n - 1) + 1 = n
  BY <1>1
<1> QED
  BY <1>1, <1>2

\* upto is the function by which Total counts, up to the n-th event.
Counts(upto, q, side, n) ==
    upto = [k \in 0 .. n |-> IF k = 0 THEN 0 ELSE upto[k - 1] + Lots(q[k], side)]

LEMMA CountExists ==
    ASSUME NEW q, NEW side, NEW n \in Nat
    PROVE  \E upto : Counts(upto, q, side, n)
<1> DEFINE S == {m \in Nat : \E upto : Counts(upto, q, side, m)}
<1>1. 0 \in S
  <2>1. Counts([k \in 0 .. 0 |-> 0], q, side, 0)
    BY DEF Counts
  <2> QED
    BY <2>1
<1>2. ASSUME NEW m \in Nat, m \in S PROVE m + 1 \in S
  <2>1. PICK f : Counts(f, q, side, m)
    BY <1>2
  <2> DEFINE g == [k \in 0 .. m + 1 |->
                     IF k = m + 1 THEN f[m] + Lots(q[m + 1], side) ELSE f[k]]
  <2>2. \A k \in 0 .. m : f[k] = IF k = 0 THEN 0 ELSE f[k - 1] + Lots(q[k], side)
    BY <2>1 DEF Counts
  <2>3. \A k \in 0 .. m : g[k] = f[k]
    OBVIOUS
  <2>4. g[m + 1] = f[m] + Lots(q[m + 1], side)
    OBVIOUS
  <2>5. g = [k \in 0 .. m + 1 |-> g[k]]
    OBVIOUS
  <2> HIDE DEF g
  <2>6. ASSUME NEW k \in 0 .. m + 1
        PROVE  g[k] = IF k = 0 THEN 0 ELSE g[k - 1] + Lots(q[k], side)
    <3>1. CASE k = m + 1
      <4>1. k - 1 = m /\ m \in 0 .. m
        BY <3>1
      <4> QED
        BY <2>3, <2>4, <3>1, <4>1
    <3>2. CASE k = 0
      BY <2>2, <2>3, <3>2
    <3>3. CASE k \in 1 .. m
      <4>1. k - 1 \in 0 .. m
        BY <3>3
      <4> QED
        BY <2>2, <2>3, <3>3, <4>1
    <3> QED
      BY <3>1, <3>2, <3>3
  <2>7. Counts(g, q, side, m + 1)
    BY <2>5, <2>6 DEF Counts
  <2> QED
    BY <2>7
<1> HIDE DEF S
<1>3. Nat \subseteq S
  BY <1>1, <1>2, Induction
<1> QED
  BY <1>3 DEF S

LEMMA TotalCounts ==
    ASSUME NEW q \in Seq(Events), NEW side
    PROVE  \E upto : Counts(upto, q, side, Len(q)) /\ Total(q, side) = upto[Len(q)]
<1> DEFINE f == CHOOSE f : f = [i \in 0 .. Len(q) |->
                  IF i = 0 THEN 0 ELSE f[i - 1] + Lots(q[i], side)]
<1>1. Total(q, side) = f[Len(q)]
  BY DEF Total
<1>2. \E upto : Counts(upto, q, side, Len(q))
  BY CountExists, LenProperties
<1>3. Counts(f, q, side, Len(q))
  BY <1>2 DEF Counts
<1> QED
  BY <1>1, <1>3

LEMMA Bounds ==
    /\ MaxSellFailures \in Nat /\ MaxRetries \in Nat /\ MaxTrades \in Nat
    /\ MaxSellFailures > 0 /\ MaxRetries > 0 /\ MaxTrades > 0
  BY ExitFlowAssumption

LEMMA AmountTypes ==
    \A a : a \in Amounts <=> a \in Int /\ -MaxTrades <= a /\ a <= MaxTrades
  BY Bounds DEF Amounts

LEMMA EventTypes ==
    ASSUME NEW e \in Events
    PROVE  /\ e.kind \in {"fill", "merged", "updated"}
           /\ e.kind \in Bookings => e.change \in Amounts /\ e.change \in Int
           /\ e.kind = "merged" => e.change = -1 /\ e.exit = FALSE
           /\ e.kind = "fill" => e.exit \in BOOLEAN
           /\ e.kind = "updated" => e.copy \in Positions
<1>1. \A a \in Amounts \cup {-1} : a \in Amounts /\ a \in Int
  BY Bounds, AmountTypes
<1>2. CASE e \in [kind : {"fill"}, change : Amounts, exit : BOOLEAN]
  BY <1>1, <1>2 DEF Bookings
<1>3. CASE e \in [kind : {"merged"}, change : {-1}, exit : {FALSE}]
  BY <1>1, <1>3 DEF Bookings
<1>4. CASE e \in [kind : {"updated"}, copy : Positions]
  BY <1>4 DEF Bookings
<1> QED
  BY <1>2, <1>3, <1>4 DEF Events

LEMMA LotsNat == ASSUME NEW e \in Events, NEW side PROVE Lots(e, side) \in Nat
<1>1. e.kind \in Bookings => e.change \in Int
  BY EventTypes
<1> QED
  BY <1>1 DEF Lots

LEMMA CountsNat ==
    ASSUME NEW q \in Seq(Events), NEW side, NEW f, Counts(f, q, side, Len(q))
    PROVE  \A k \in 0 .. Len(q) : f[k] \in Nat
<1> DEFINE S == {k \in Nat : k <= Len(q) => f[k] \in Nat}
<1>1. Len(q) \in Nat
  BY LenProperties
<1>2. \A k \in 0 .. Len(q) : f[k] = IF k = 0 THEN 0 ELSE f[k - 1] + Lots(q[k], side)
  BY DEF Counts
<1>3. \A k \in 1 .. Len(q) : Lots(q[k], side) \in Nat
  BY ElementOfSeq, LotsNat
<1>4. 0 \in S
  BY <1>1, <1>2
<1>5. ASSUME NEW k \in Nat, k \in S PROVE k + 1 \in S
  <2> SUFFICES ASSUME k + 1 <= Len(q) PROVE f[k + 1] \in Nat
    OBVIOUS
  <2>1. k + 1 \in 1 .. Len(q) /\ k + 1 \in 0 .. Len(q) /\ (k + 1) - 1 = k
    BY <1>1
  <2> QED
    BY <1>1, <1>2, <1>3, <1>5, <2>1
<1> HIDE DEF S
<1>6. Nat \subseteq S
  BY <1>4, <1>5, Induction
<1> QED
  BY <1>1, <1>6 DEF S

LEMMA TotalNat ==
    ASSUME NEW q \in Seq(Events), NEW side PROVE Total(q, side) \in Nat
  BY TotalCounts, CountsNat, LenProperties

\* The first n events of d are those of q from the one after s to the m-th.
Shifted(q, s, m, d, n) ==
    n <= Len(d) /\ m <= Len(q) /\ m = s + n /\ \A k \in 1 .. n : q[s + k] = d[k]

LEMMA CountsShift ==
    ASSUME NEW q \in Seq(Events), NEW d \in Seq(Events), NEW side, NEW s \in Nat,
           NEW f, Counts(f, q, side, Len(q)), NEW g, Counts(g, d, side, Len(d)),
           NEW n \in Nat, NEW m \in Nat, Shifted(q, s, m, d, n)
    PROVE  f[m] = f[s] + g[n]
<1> USE DEF Shifted
<1> DEFINE S == {k \in Nat : k <= n => f[s + k] = f[s] + g[k]}
<1>1. Len(q) \in Nat /\ Len(d) \in Nat
  BY LenProperties
<1>2. /\ \A k \in 0 .. Len(q) : f[k] = IF k = 0 THEN 0 ELSE f[k - 1] + Lots(q[k], side)
      /\ \A k \in 0 .. Len(d) : g[k] = IF k = 0 THEN 0 ELSE g[k - 1] + Lots(d[k], side)
  BY DEF Counts
<1>3. /\ \A k \in 0 .. Len(q) : f[k] \in Nat
      /\ \A k \in 0 .. Len(d) : g[k] \in Nat
  BY CountsNat
<1>4. 0 \in S
  <2>1. g[0] = 0 /\ f[s] \in Nat /\ s + 0 = s
    BY <1>1, <1>2, <1>3
  <2> QED
    BY <2>1
<1>5. ASSUME NEW k \in Nat, k \in S PROVE k + 1 \in S
  <2> SUFFICES ASSUME k + 1 <= n PROVE f[s + (k + 1)] = f[s] + g[k + 1]
    OBVIOUS
  <2>1. /\ k + 1 \in 0 .. Len(d) /\ k + 1 \in 1 .. n /\ k + 1 # 0 /\ (k + 1) - 1 = k
        /\ s + (k + 1) \in 0 .. Len(q) /\ s + (k + 1) # 0 /\ (s + (k + 1)) - 1 = s + k
        /\ s \in 0 .. Len(q) /\ k \in 0 .. Len(d)
    BY <1>1
  <2>2. f[s + k] = f[s] + g[k] /\ q[s + (k + 1)] = d[k + 1]
    BY <1>5, <2>1
  <2>3. f[s + (k + 1)] = f[s + k] + Lots(d[k + 1], side)
    BY <1>2, <2>1, <2>2
  <2>4. g[k + 1] = g[k] + Lots(d[k + 1], side)
    BY <1>2, <2>1
  <2>5. d[k + 1] \in Events /\ Lots(d[k + 1], side) \in Nat
    BY <1>1, <2>1, ElementOfSeq, LotsNat
  <2>6. PICK a \in Nat, b \in Nat, x \in Nat :
          a = f[s] /\ b = g[k] /\ x = Lots(d[k + 1], side)
    BY <1>3, <2>1, <2>5
  <2>7. f[s + (k + 1)] = (a + b) + x
    BY <2>2, <2>3, <2>6, Zenon
  <2>8. g[k + 1] = b + x
    BY <2>4, <2>6, Zenon
  <2>9. (a + b) + x = a + (b + x)
    OBVIOUS
  <2> QED
    BY <2>6, <2>7, <2>8, <2>9, Zenon
<1> HIDE DEF S
<1>6. Nat \subseteq S
  BY <1>4, <1>5, Induction
<1> QED
  BY <1>6 DEF S

LEMMA TotalNothing == ASSUME NEW side PROVE Total(<<>>, side) = 0
<1>1. <<>> \in Seq(Events) /\ Len(<<>>) = 0
  BY EmptySeq
<1>2. PICK f : Counts(f, <<>>, side, 0) /\ Total(<<>>, side) = f[0]
  BY <1>1, TotalCounts
<1> QED
  BY <1>2 DEF Counts

LEMMA TotalAppend ==
    ASSUME NEW q \in Seq(Events), NEW e \in Events, NEW side
    PROVE  Total(Append(q, e), side) = Total(q, side) + Lots(e, side)
<1> DEFINE more == Append(q, e)
           n == Len(q)
<1>1. /\ n \in Nat /\ more \in Seq(Events) /\ Len(more) = n + 1 /\ more[n + 1] = e
      /\ \A k \in 1 .. n : more[0 + k] = q[k]
  BY AppendProperties, LenProperties
<1>2. PICK g : Counts(g, q, side, n) /\ Total(q, side) = g[n]
  BY TotalCounts
<1> HIDE DEF more
<1>3. PICK f : Counts(f, more, side, n + 1) /\ Total(more, side) = f[n + 1]
  BY <1>1, TotalCounts
<1>4. f[n] = f[0] + g[n]
  <2>1. PICK s \in Nat : s = 0
    OBVIOUS
  <2>2. Shifted(more, s, n, q, n)
    BY <1>1, <2>1 DEF Shifted
  <2>3. /\ more \in Seq(Events) /\ n \in Nat
        /\ Counts(f, more, side, Len(more)) /\ Counts(g, q, side, Len(q))
    BY <1>1, <1>2, <1>3
  <2> HIDE DEF n
  <2>4. f[n] = f[s] + g[n]
    BY <2>2, <2>3, CountsShift
  <2> QED
    BY <2>1, <2>4
<1>5. f[0] = 0 /\ f[n + 1] = f[(n + 1) - 1] + Lots(more[n + 1], side)
  BY <1>1, <1>3 DEF Counts
<1>6. (n + 1) - 1 = n /\ g[n] \in Nat
  BY <1>1, <1>2, CountsNat
<1> QED
  BY <1>1, <1>2, <1>3, <1>4, <1>5, <1>6 DEF more

LEMMA TotalTail ==
    ASSUME NEW q \in Seq(Events), q # <<>>, NEW side
    PROVE  Total(q, side) = Lots(Head(q), side) + Total(Tail(q), side)
<1> DEFINE rest == Tail(q)
           n == Len(rest)
<1>1. /\ rest \in Seq(Events) /\ n \in Nat /\ Len(q) = n + 1 /\ Head(q) = q[1]
      /\ \A k \in 1 .. n : q[1 + k] = rest[k]
  <2>1. Len(q) \in Nat /\ Len(q) > 0
    BY LenProperties, EmptySeq
  <2>2. rest \in Seq(Events) /\ Len(rest) = Len(q) - 1
    BY HeadTailProperties
  <2>3. \A k \in 1 .. n : rest[k] = q[k + 1]
    BY <2>1, <2>2
  <2> QED
    BY <2>1, <2>2, <2>3
<1>2. PICK f : Counts(f, q, side, Len(q)) /\ Total(q, side) = f[Len(q)]
  BY TotalCounts
<1> HIDE DEF rest
<1>3. PICK g : Counts(g, rest, side, Len(rest)) /\ Total(rest, side) = g[Len(rest)]
  BY <1>1, TotalCounts
<1>4. f[Len(q)] = f[1] + g[n]
  <2>1. PICK s \in Nat : s = 1
    OBVIOUS
  <2>2. Len(q) \in Nat /\ Shifted(q, s, Len(q), rest, n)
    BY <1>1, <2>1 DEF Shifted
  <2> HIDE DEF n
  <2>3. f[Len(q)] = f[s] + g[n]
    BY <1>1, <1>2, <1>3, <2>2, CountsShift
  <2> QED
    BY <2>1, <2>3
<1>5. f[0] = 0 /\ f[1] = f[1 - 1] + Lots(q[1], side)
  BY <1>1, <1>2 DEF Counts
<1>6. q[1] \in Events /\ Lots(q[1], side) \in Nat /\ g[n] \in Nat
  BY <1>1, <1>3, ElementOfSeq, LotsNat, CountsNat
<1> QED
  BY <1>1, <1>2, <1>3, <1>4, <1>5, <1>6 DEF rest

\* What is queued, in all, is what was bought less what left.
LEMMA QueuedIsBoughtLessSold ==
    ASSUME queue \in Seq(Events)
    PROVE  Queued = Total(queue, "bought") - Total(queue, "sold")
<1> DEFINE n == Len(queue)
           Step(g, i) == IF i = 0 THEN 0
                         ELSE g[i - 1] + IF queue[i].kind \in Bookings
                                         THEN queue[i].change ELSE 0
           f == CHOOSE g : g = [i \in 0 .. n |-> Step(g, i)]
<1>1. Queued = f[n]
  BY DEF Queued
<1>2. PICK b : Counts(b, queue, "bought", n) /\ Total(queue, "bought") = b[n]
  BY TotalCounts
<1>3. PICK s : Counts(s, queue, "sold", n) /\ Total(queue, "sold") = s[n]
  BY TotalCounts
<1>4. n \in Nat /\ \A i \in 1 .. n : queue[i] \in Events
  BY LenProperties, ElementOfSeq
<1>5. /\ \A k \in 0 .. n : b[k] = IF k = 0 THEN 0 ELSE b[k - 1] + Lots(queue[k], "bought")
      /\ \A k \in 0 .. n : s[k] = IF k = 0 THEN 0 ELSE s[k - 1] + Lots(queue[k], "sold")
      /\ \A k \in 0 .. n : b[k] \in Nat /\ s[k] \in Nat
  BY <1>2, <1>3, CountsNat DEF Counts
<1>6. \A i \in 1 .. n : Lots(queue[i], "bought") - Lots(queue[i], "sold")
                         = IF queue[i].kind \in Bookings THEN queue[i].change ELSE 0
  <2> SUFFICES ASSUME NEW i \in 1 .. n
               PROVE  Lots(queue[i], "bought") - Lots(queue[i], "sold")
                        = IF queue[i].kind \in Bookings THEN queue[i].change ELSE 0
    OBVIOUS
  <2>1. PICK e \in Events : e = queue[i]
    BY <1>4
  <2>2. e.kind \in Bookings => e.change \in Int
    BY EventTypes
  <2> QED
    BY <2>1, <2>2 DEF Lots
<1>7. \A k \in 1 .. n : Lots(queue[k], "bought") \in Nat /\ Lots(queue[k], "sold") \in Nat
  BY <1>4, LotsNat
<1> DEFINE d == [k \in 0 .. n |-> b[k] - s[k]]
<1>8. d = [k \in 0 .. n |-> Step(d, k)]
  <2> SUFFICES ASSUME NEW k \in 0 .. n PROVE d[k] = Step(d, k)
    OBVIOUS
  <2>1. CASE k = 0
    BY <1>4, <1>5, <2>1
  <2>2. CASE k # 0
    <3>1. k \in 1 .. n /\ k - 1 \in 0 .. n
      BY <1>4, <2>2
    <3>2. d[k] = b[k] - s[k] /\ d[k - 1] = b[k - 1] - s[k - 1]
      BY <3>1
    <3>3. /\ b[k] = b[k - 1] + Lots(queue[k], "bought")
          /\ s[k] = s[k - 1] + Lots(queue[k], "sold")
      BY <1>5, <2>2
    <3> HIDE DEF d, n
    <3>4. d[k] = d[k - 1] + (Lots(queue[k], "bought") - Lots(queue[k], "sold"))
      BY <1>5, <1>7, <3>1, <3>2, <3>3
    <3>5. d[k] = d[k - 1] + IF queue[k].kind \in Bookings THEN queue[k].change ELSE 0
      BY <1>6, <3>1, <3>4
    <3> QED
      BY <2>2, <3>5
  <2> QED
    BY <2>1, <2>2
<1>9. f = [k \in 0 .. n |-> Step(f, k)]
  BY <1>8
<1> HIDE DEF d
<1>10. /\ \A k \in 0 .. n : f[k] = Step(f, k)
       /\ \A k \in 0 .. n : k # 0 => f[k] = f[k - 1] + IF queue[k].kind \in Bookings
                                                       THEN queue[k].change ELSE 0
  BY <1>9
<1> HIDE DEF f
<1> DEFINE S == {k \in Nat : k <= n => f[k] = b[k] - s[k]}
<1>11. 0 \in S
  BY <1>4, <1>5, <1>10
<1>12. ASSUME NEW k \in Nat, k \in S PROVE k + 1 \in S
  <2> SUFFICES ASSUME k + 1 <= n PROVE f[k + 1] = b[k + 1] - s[k + 1]
    OBVIOUS
  <2>1. /\ k + 1 \in 1 .. n /\ k + 1 \in 0 .. n /\ k \in 0 .. n
        /\ k + 1 # 0 /\ (k + 1) - 1 = k
    BY <1>4
  <2>2. f[k] = b[k] - s[k]
    BY <1>4, <1>12, <2>1
  <2>3. PICK m \in 1 .. n : m = k + 1
    BY <2>1
  <2> HIDE DEF n
  <2>4. /\ b[m] = b[k] + Lots(queue[m], "bought")
        /\ s[m] = s[k] + Lots(queue[m], "sold")
    BY <1>5, <2>1, <2>3
  <2>5. f[m] = f[k] + (Lots(queue[m], "bought") - Lots(queue[m], "sold"))
    BY <1>6, <1>10, <2>1, <2>3
  <2> QED
    BY <1>5, <1>7, <2>1, <2>2, <2>3, <2>4, <2>5
<1> HIDE DEF S
<1>13. Nat \subseteq S
  BY <1>11, <1>12, Induction
<1>14. f[n] = b[n] - s[n]
  BY <1>4, <1>13 DEF S
<1> QED
  BY <1>1, <1>2, <1>3, <1>14

-------------------------------------------------------------------------------
(* The steps that the books see *)

\* The lots booked, and to be booked, are numbers within the lots traded.
LEMMA BooksAreNumbers ==
    ASSUME BooksIInv
    PROVE  /\ balance \in Nat /\ trades \in Nat /\ unreported \in Nat /\ untold \in Nat
           /\ trades <= MaxTrades
           /\ Total(queue, "bought") \in Nat /\ Total(queue, "sold") \in Nat
           /\ Amount \in Int
<1>1. /\ balance \in Nat /\ trades \in Nat /\ unreported \in Nat /\ untold \in Nat
      /\ trades <= MaxTrades
  BY Bounds DEF BooksIInv, TypeOK
<1>2. Total(queue, "bought") \in Nat /\ Total(queue, "sold") \in Nat
  BY TotalNat DEF BooksIInv, TypeOK
<1>3. position \in Positions => position.amount \in Amounts
  BY DEF Positions
<1>4. Amount \in Int
  BY <1>3, AmountTypes DEF Amount, BooksIInv, TypeOK
<1> QED
  BY <1>1, <1>2, <1>4

LEMMA PositionTypes ==
    ASSUME NEW p \in Positions
    PROVE  /\ p # None /\ p.amount \in Amounts /\ p.amount \in Int /\ p.amount # 0
           /\ p.failures \in 0 .. MaxSellFailures /\ p.failures \in Nat
           /\ p = [amount |-> p.amount, failures |-> p.failures]
<1>1. p.amount \in Amounts \ {0} /\ p.failures \in 0 .. MaxSellFailures
  BY DEF Positions
<1>2. p # None
  BY NoneAssumption
<1>3. p = [amount |-> p.amount, failures |-> p.failures]
  BY DEF Positions
<1> QED
  BY <1>1, <1>2, <1>3, AmountTypes, Bounds

LEMMA TaskTypes ==
    ASSUME NEW task \in Tasks
    PROVE  /\ task # None
           /\ task.type \in {"Sell", "MarketSell", "LimitSell"}
           /\ task.amount \in Amounts /\ task.amount \in Int
           /\ task.phase \in Marked \cup {"cleared"}
           /\ task.attempt \in 1 .. MaxRetries
<1>1. /\ task.type \in {"Sell", "MarketSell", "LimitSell"}
      /\ task.amount \in Amounts /\ task.phase \in Marked \cup {"cleared"}
      /\ task.attempt \in 1 .. MaxRetries
  BY DEF Tasks
<1>2. task # None
  BY NoneAssumption
<1> QED
  BY <1>1, <1>2, AmountTypes

\* A step that gives a task a new state keeps the tasks in order.
TaskFits(task) ==
    task # None =>
        /\ task \in Tasks
        /\ task.type = "LimitSell" => task.amount >= 1
        /\ task.phase \in {"resting", "modifying"} => task.type = "LimitSell"

LEMMA TaskStep ==
    ASSUME BooksIInv, NEW s \in Slots, NEW task, TaskFits(task),
           tasks' = [tasks EXCEPT ![s] = task]
    PROVE  tasks' \in [Slots -> Tasks \cup {None}] /\ LimitsOK'
<1>1. tasks \in [Slots -> Tasks \cup {None}]
  BY DEF BooksIInv, TypeOK
<1>2. tasks'[s] = task /\ \A t \in Slots \ {s} : tasks'[t] = tasks[t]
  BY <1>1
<1>3. tasks' \in [Slots -> Tasks \cup {None}]
  BY <1>1 DEF TaskFits
<1>4. LimitsOK'
  BY <1>2 DEF LimitsOK, BooksIInv, TaskFits
<1> QED
  BY <1>3, <1>4

\* The old state of a task that has one.
LEMMA TaskAt ==
    ASSUME BooksIInv, NEW s \in Slots, tasks[s] # None
    PROVE  tasks[s] \in Tasks /\ TaskFits(tasks[s])
<1>1. tasks[s] \in Tasks
  BY DEF BooksIInv, TypeOK
<1> QED
  BY <1>1 DEF TaskFits, BooksIInv, LimitsOK

LEMMA QueueAppends ==
    ASSUME BooksIInv, NEW e \in Events, queue' = Append(queue, e)
    PROVE  /\ queue' \in Seq(Events)
           /\ \A side : Total(queue', side) = Total(queue, side) + Lots(e, side)
<1>1. queue \in Seq(Events)
  BY DEF BooksIInv, TypeOK
<1>2. queue' \in Seq(Events)
  BY <1>1, AppendProperties
<1>3. \A side : Total(Append(queue, e), side) = Total(queue, side) + Lots(e, side)
  BY <1>1, TotalAppend
<1> QED
  BY <1>2, <1>3

LEMMA QueueTails ==
    ASSUME BooksIInv, queue # <<>>
    PROVE  /\ Head(queue) \in Events /\ Tail(queue) \in Seq(Events)
           /\ \A side : /\ Total(queue, side) = Lots(Head(queue), side) + Total(Tail(queue), side)
                        /\ Total(Tail(queue), side) \in Nat
                        /\ Lots(Head(queue), side) \in Nat
<1>1. queue \in Seq(Events)
  BY DEF BooksIInv, TypeOK
<1>2. Head(queue) \in Events /\ Tail(queue) \in Seq(Events)
  BY <1>1, HeadTailProperties
<1> QED
  BY <1>1, <1>2, TotalTail, TotalNat, LotsNat

LEMMA LotsOfChange ==
    ASSUME NEW e \in Events
    PROVE  /\ e.kind \in Bookings => /\ Lots(e, "bought") - Lots(e, "sold") = e.change
                                     /\ e.change >= 0 => Lots(e, "sold") = 0
                                     /\ e.change <= 0 => Lots(e, "bought") = 0
           /\ e.kind \notin Bookings => Lots(e, "bought") = 0 /\ Lots(e, "sold") = 0
<1>1. e.kind \in Bookings => e.change \in Int
  BY EventTypes
<1> QED
  BY <1>1 DEF Lots

LEMMA ChangeTypes ==
    ASSUME NEW change \in Amounts, NEW exit \in BOOLEAN
    PROVE  /\ Change("fill", change, exit) \in Events
           /\ Change("fill", change, exit).kind = "fill"
           /\ Change("fill", change, exit).change = change
  BY DEF Change, Events

LEMMA UpdateTypes ==
    ASSUME NEW copy \in Positions
    PROVE  /\ Update(copy) \in Events /\ Update(copy).kind = "updated"
           /\ Update(copy).kind \notin Bookings /\ Update(copy).copy = copy
  BY DEF Update, Events, Bookings

\* Nothing is bought, sold or booked.
LEMMA StillBooks ==
    ASSUME BooksIInv, UNCHANGED <<balance, trades, unreported, untold>>,
           Amount' = Amount,
           \A side : Total(queue', side) = Total(queue, side)
    PROVE  OnTheWay' /\ Balanced'
  BY DEF BooksIInv, OnTheWay, Balanced

-------------------------------------------------------------------------------

LEMMA InitBooks == Init => BooksIInv
<1> SUFFICES ASSUME Init PROVE BooksIInv
  OBVIOUS
<1>1. TypeOK
  <2>1. queue \in Seq(Events)
    BY EmptySeq DEF Init
  <2>2. 0 \in 0 .. MaxTrades
    BY Bounds
  <2>3. tasks \in [Slots -> Tasks \cup {None}]
    BY DEF Init
  <2> QED
    BY <2>1, <2>2, <2>3 DEF Init, TypeOK
<1>2. LimitsOK
  BY DEF Init, LimitsOK
<1>3. OnTheWay /\ Balanced
  BY TotalNothing DEF Init, OnTheWay, Balanced, Amount
<1> QED
  BY <1>1, <1>2, <1>3 DEF BooksIInv

LEMMA BuyBooks ==
    ASSUME BooksIInv, Buy PROVE BooksIInv'
<1>1. /\ balance' = balance + 1 /\ trades' = trades + 1 /\ unreported' = unreported + 1
      /\ trades < MaxTrades /\ UNCHANGED <<position, untold, queue, tasks>>
  BY DEF Buy, manager
<1>2. Amount' = Amount
  BY <1>1 DEF Amount
<1>3. OnTheWay' /\ Balanced'
  BY <1>1, <1>2, BooksAreNumbers DEF BooksIInv, OnTheWay, Balanced
<1>4. /\ balance' \in 0 .. MaxTrades /\ trades' \in 0 .. MaxTrades
      /\ unreported' \in 0 .. MaxTrades
  BY <1>1, BooksAreNumbers, Bounds DEF BooksIInv, OnTheWay
<1>5. TypeOK'
  BY <1>1, <1>4 DEF Buy, manager, ghosts, BooksIInv, TypeOK
<1>6. LimitsOK'
  BY <1>1 DEF BooksIInv, LimitsOK
<1> QED
  BY <1>3, <1>5, <1>6 DEF BooksIInv

\* Lots that were bought, or left, are told to the queue.
LEMMA LotsQueued ==
    ASSUME BooksIInv, Amount' = Amount, UNCHANGED <<trades, untold>>,
           NEW bought \in Nat, NEW sold \in Nat, bought <= unreported, sold <= balance,
           unreported' = unreported - bought, balance' = balance - sold,
           Total(queue', "bought") = Total(queue, "bought") + bought,
           Total(queue', "sold") = Total(queue, "sold") + sold
    PROVE  /\ OnTheWay' /\ Balanced'
           /\ balance' \in 0 .. MaxTrades /\ unreported' \in 0 .. MaxTrades
<1>1. /\ balance' \in Nat /\ balance' <= balance
      /\ unreported' \in Nat /\ unreported' <= unreported
      /\ unreported' + bought = unreported /\ balance' + sold = balance
  BY BooksAreNumbers
<1>2. OnTheWay /\ Balanced
  BY DEF BooksIInv
<1>3. OnTheWay'
  BY <1>1, <1>2, BooksAreNumbers DEF OnTheWay
<1>4. Balanced'
  BY <1>1, <1>2, BooksAreNumbers DEF Balanced
<1>5. balance' \in 0 .. MaxTrades /\ unreported' \in 0 .. MaxTrades
  BY <1>1, BooksAreNumbers, Bounds DEF BooksIInv, TypeOK
<1> QED
  BY <1>3, <1>4, <1>5

LEMMA QueuedBooks ==
    ASSUME BooksIInv, NEW e \in Events, e.kind \in Bookings,
           queue' = Append(queue, e), UNCHANGED <<trades, position, untold>>,
           NEW bought \in Nat, NEW sold \in Nat, e.change = bought - sold,
           bought = 0 \/ sold = 0, bought <= unreported, sold <= balance,
           unreported' = unreported - bought, balance' = balance - sold
    PROVE  /\ OnTheWay' /\ Balanced' /\ queue' \in Seq(Events)
           /\ balance' \in 0 .. MaxTrades /\ unreported' \in 0 .. MaxTrades
<1>1. Lots(e, "bought") = bought /\ Lots(e, "sold") = sold
  BY DEF Lots
<1>2. /\ queue' \in Seq(Events)
      /\ Total(queue', "bought") = Total(queue, "bought") + bought
      /\ Total(queue', "sold") = Total(queue, "sold") + sold
  BY <1>1, QueueAppends
<1>3. Amount' = Amount
  BY DEF Amount
<1> QED
  BY <1>2, <1>3, LotsQueued

\* What a step leaves alone keeps its type.
LEMMA RestTypes ==
    ASSUME BooksIInv
    PROVE  /\ UNCHANGED balance => balance' \in 0 .. MaxTrades
           /\ UNCHANGED trades => trades' \in 0 .. MaxTrades
           /\ UNCHANGED unreported => unreported' \in 0 .. MaxTrades
           /\ UNCHANGED untold => untold' \in 0 .. MaxTrades
           /\ UNCHANGED managed => managed' \in BOOLEAN
           /\ UNCHANGED position => position' = None \/ position' \in Positions
           /\ UNCHANGED pending => pending' \in BOOLEAN
           /\ UNCHANGED queue => queue' \in Seq(Events)
           /\ UNCHANGED tasks => tasks' \in [Slots -> Tasks \cup {None}] /\ LimitsOK'
           /\ UNCHANGED leftover => leftover' \in BOOLEAN
           /\ UNCHANGED interfered => interfered' \in BOOLEAN
  BY DEF BooksIInv, TypeOK, LimitsOK

LEMMA ReportBuyBooks ==
    ASSUME BooksIInv, ReportBuy PROVE BooksIInv'
<1>1. PICK e : e = Change("fill", 1, FALSE)
  OBVIOUS
<1>2. e \in Events /\ e.kind \in Bookings /\ e.change = 1 - 0
  <2>1. 1 \in Amounts /\ 1 = 1 - 0
    BY Bounds, AmountTypes
  <2>2. e \in Events
    BY <1>1, <2>1, ChangeTypes
  <2> QED
    BY <1>1, <2>1, <2>2 DEF Change, Bookings
<1>3. /\ queue' = Append(queue, e) /\ UNCHANGED <<trades, position, untold>>
      /\ unreported' = unreported - 1 /\ balance' = balance - 0
      /\ 1 <= unreported /\ 0 <= balance
  BY <1>1, BooksAreNumbers DEF ReportBuy, manager
<1>4. /\ OnTheWay' /\ Balanced' /\ queue' \in Seq(Events)
      /\ balance' \in 0 .. MaxTrades /\ unreported' \in 0 .. MaxTrades
  BY <1>2, <1>3, QueuedBooks
<1>5. UNCHANGED <<trades, managed, position, pending, tasks, untold, leftover, interfered>>
  BY DEF ReportBuy, manager, ghosts
<1> QED
  BY <1>4, <1>5, RestTypes DEF BooksIInv, TypeOK

LEMMA SellOrMergeBooks ==
    ASSUME BooksIInv, NEW kind \in Bookings, SellOrMerge(kind) PROVE BooksIInv'
<1>1. PICK e : e = Change(kind, -1, FALSE)
  OBVIOUS
<1>2. e \in Events /\ e.kind \in Bookings /\ e.change = 0 - 1
  <2>1. -1 \in Amounts /\ -1 = 0 - 1
    BY Bounds, AmountTypes
  <2>2. e \in Events
    BY <1>1, <2>1 DEF Change, Events, Bookings
  <2> QED
    BY <1>1, <2>1, <2>2 DEF Change
<1>3. /\ queue' = Append(queue, e) /\ UNCHANGED <<trades, position, untold>>
      /\ unreported' = unreported - 0 /\ balance' = balance - 1
      /\ 0 <= unreported /\ 1 <= balance
  BY <1>1, BooksAreNumbers DEF SellOrMerge, manager
<1>4. /\ OnTheWay' /\ Balanced' /\ queue' \in Seq(Events)
      /\ balance' \in 0 .. MaxTrades /\ unreported' \in 0 .. MaxTrades
  BY <1>2, <1>3, QueuedBooks
<1>5. UNCHANGED <<trades, managed, position, pending, tasks, untold, leftover, interfered>>
  BY DEF SellOrMerge, manager, ghosts
<1> QED
  BY <1>4, <1>5, RestTypes DEF BooksIInv, TypeOK

LEMMA UpdatePriceBooks ==
    ASSUME BooksIInv, UpdatePrice PROVE BooksIInv'
<1>1. PICK e : e = Update(position)
  OBVIOUS
<1>2. e \in Events /\ e.kind \notin Bookings
  BY <1>1, UpdateTypes DEF UpdatePrice, BooksIInv, TypeOK
<1>3. queue' = Append(queue, e)
  BY <1>1 DEF UpdatePrice
<1>4. queue' \in Seq(Events) /\ \A side : Total(queue', side) = Total(queue, side)
  <2>1. \A side : Lots(e, side) = 0
    BY <1>2 DEF Lots
  <2>2. \A side : Total(queue, side) \in Nat
    BY TotalNat DEF BooksIInv, TypeOK
  <2>3. \A side : Total(queue, side) + 0 = Total(queue, side)
    BY <2>2
  <2> QED
    BY <1>2, <1>3, <2>1, <2>3, QueueAppends
<1>5. UNCHANGED <<balance, trades, unreported, managed, position, pending, tasks,
                  untold, leftover, interfered>>
  BY DEF UpdatePrice, exchange, manager, ghosts
<1>6. OnTheWay' /\ Balanced'
  BY <1>4, <1>5, StillBooks DEF Amount
<1> QED
  BY <1>4, <1>5, <1>6, RestTypes DEF BooksIInv, TypeOK

\* An update at the head of the queue books nothing.
LEMMA UpdateLeaves ==
    ASSUME BooksIInv, queue # <<>>, Head(queue).kind = "updated", queue' = Tail(queue)
    PROVE  /\ Head(queue).copy \in Positions
           /\ queue' \in Seq(Events)
           /\ \A side : Total(queue', side) = Total(queue, side)
<1>1. Head(queue) \in Events /\ Head(queue).copy \in Positions
  BY QueueTails, EventTypes
<1>2. \A side : Lots(Head(queue), side) = 0
  BY DEF Lots, Bookings
<1>3. \A side : /\ Total(queue, side) = 0 + Total(queue', side)
                /\ Total(queue', side) \in Nat
  BY <1>2, QueueTails
<1>4. \A side : Total(queue', side) = Total(queue, side)
  BY <1>3
<1> QED
  BY <1>1, <1>4, QueueTails

LEMMA NoExitOnUpdateBooks ==
    ASSUME BooksIInv, NoExitOnUpdate PROVE BooksIInv'
<1>1. queue' \in Seq(Events) /\ \A side : Total(queue', side) = Total(queue, side)
  BY UpdateLeaves DEF NoExitOnUpdate
<1>2. UNCHANGED <<balance, trades, unreported, managed, position, pending, tasks,
                  untold, leftover, interfered>>
  BY DEF NoExitOnUpdate, exchange, manager, ghosts
<1>3. OnTheWay' /\ Balanced'
  BY <1>1, <1>2, StillBooks DEF Amount
<1> QED
  BY <1>1, <1>2, <1>3, RestTypes DEF BooksIInv, TypeOK

\* A new exit has the amount of a position, and a limit order at least a lot.
LEMMA SpawnBooks ==
    ASSUME BooksIInv, NEW type \in {"Sell", "MarketSell", "LimitSell"},
           NEW amount \in Amounts, type = "LimitSell" => amount >= 1,
           Spawn(type, amount),
           queue' \in Seq(Events), \A side : Total(queue', side) = Total(queue, side)
    PROVE  BooksIInv'
<1>1. PICK task : task = [type |-> type, amount |-> amount, phase |-> "trying",
                          attempt |-> 1]
  OBVIOUS
<1>2. PICK s \in Slots : tasks' = [tasks EXCEPT ![s] = task]
  BY <1>1 DEF Spawn
<1>3. TaskFits(task)
  <2>1. 1 \in 1 .. MaxRetries /\ "trying" \in Marked
    BY Bounds DEF Marked, Out
  <2> QED
    BY <1>1, <2>1 DEF TaskFits, Tasks
<1>4. tasks' \in [Slots -> Tasks \cup {None}] /\ LimitsOK'
  BY <1>2, <1>3, TaskStep
<1>5. /\ UNCHANGED <<balance, trades, unreported, managed, position, untold, interfered>>
      /\ pending' = TRUE /\ leftover' = FALSE
  BY DEF Spawn, exchange
<1>6. OnTheWay' /\ Balanced'
  BY <1>5, StillBooks DEF Amount
<1> QED
  BY <1>4, <1>5, <1>6, RestTypes DEF BooksIInv, TypeOK

LEMMA ExitBooks ==
    ASSUME BooksIInv,
           \/ ExitOnUpdate \/ ExitOnTimer
           \/ \E type \in {"Sell", "LimitSell"} : ExitOnSignal(type)
    PROVE  BooksIInv'
<1>1. CASE ExitOnUpdate
  <2>1. PICK amount : amount = Head(queue).copy.amount
    OBVIOUS
  <2>2. /\ queue # <<>> /\ Head(queue).kind = "updated" /\ queue' = Tail(queue)
        /\ Spawn("Sell", amount)
    BY <1>1, <2>1 DEF ExitOnUpdate
  <2>3. /\ amount \in Amounts
        /\ queue' \in Seq(Events) /\ \A side : Total(queue', side) = Total(queue, side)
    BY <2>1, <2>2, UpdateLeaves, PositionTypes
  <2> QED
    BY <2>2, <2>3, SpawnBooks
<1>2. CASE ExitOnTimer \/ \E type \in {"Sell", "LimitSell"} : ExitOnSignal(type)
  <2>1. /\ position # None /\ queue' = queue
        /\ \/ Spawn("MarketSell", position.amount)
           \/ /\ position.amount > 0
              /\ \E type \in {"Sell", "LimitSell"} : Spawn(type, position.amount)
    BY <1>2 DEF ExitOnTimer, CollectedByTimer, ExitOnSignal
  <2>2. PICK amount : amount = position.amount
    OBVIOUS
  <2>3. amount \in Amounts /\ amount \in Int
    BY <2>1, <2>2, PositionTypes DEF BooksIInv, TypeOK
  <2>4. queue' \in Seq(Events) /\ \A side : Total(queue', side) = Total(queue, side)
    BY <2>1 DEF BooksIInv, TypeOK
  <2>5. \E type \in {"Sell", "MarketSell", "LimitSell"} :
            Spawn(type, amount) /\ (type = "LimitSell" => amount >= 1)
    BY <2>1, <2>2, <2>3
  <2> QED
    BY <2>3, <2>4, <2>5, SpawnBooks
<1> QED
  BY <1>1, <1>2

\* A booking: the lots leave the queue for the position, or, if the position is not
\* there, are lost.
LEMMA BookBooks ==
    ASSUME BooksIInv, Book PROVE BooksIInv'
<1>1. PICK e : e = Head(queue)
  OBVIOUS
<1>2. queue # <<>> /\ e \in Events /\ e.kind \in Bookings
  BY <1>1, QueueTails DEF Book
<1>3. PICK c : c = e.change
  OBVIOUS
<1>4. PICK b, s : b = Lots(e, "bought") /\ s = Lots(e, "sold")
  OBVIOUS
<1>5. /\ c \in Int /\ b \in Nat /\ s \in Nat /\ b - s = c
      /\ e.kind = "merged" => c = -1 /\ b = 0 /\ s = 1
  <2>1. c \in Int /\ b \in Nat /\ s \in Nat
    BY <1>2, <1>3, <1>4, EventTypes, LotsNat
  <2>2. b - s = c /\ (c <= 0 => b = 0)
    BY <1>2, <1>3, <1>4, LotsOfChange
  <2>3. e.kind = "merged" => c = -1
    BY <1>2, <1>3, EventTypes
  <2> QED
    BY <2>1, <2>2, <2>3
<1> DEFINE skipped == e.kind = "merged" /\ position = None
<1>6. PICK amount : amount = Amount + c
  OBVIOUS
<1>7. PICK booked : booked = [amount   |-> amount,
                              failures |-> IF position = None THEN 0 ELSE position.failures]
  OBVIOUS
<1>8. /\ position' = IF skipped \/ amount = 0 THEN None ELSE booked
      /\ queue' = IF position # None /\ position' # None
                  THEN Append(Tail(queue), Update(position')) ELSE Tail(queue)
      /\ untold' = IF skipped THEN untold - c ELSE untold
      /\ UNCHANGED <<balance, trades, unreported, managed, tasks>>
  BY <1>1, <1>3, <1>6, <1>7 DEF Book, Booked, exchange
<1>9. /\ pending' = (pending /\ (skipped \/ ~Closes(amount)))
      /\ leftover' = (pending' /\ (leftover \/ e.exit))
      /\ interfered' = (interfered \/ (~skipped /\ amount = 0 /\ InPhase(Marked) # {}))
  BY <1>1, <1>3, <1>6 DEF Book, Booked
<1>10. pending' \in BOOLEAN /\ leftover' \in BOOLEAN /\ interfered' \in BOOLEAN
  BY <1>9
<1> HIDE DEF skipped
<1>11. PICK rb, rs : rb = Total(Tail(queue), "bought") /\ rs = Total(Tail(queue), "sold")
  OBVIOUS
<1>12. /\ Total(queue, "bought") = b + rb /\ Total(queue, "sold") = s + rs
       /\ rb \in Nat /\ rs \in Nat
  BY <1>1, <1>2, <1>4, <1>11, QueueTails
<1>13. /\ unreported + b + rb <= trades /\ balance + untold + s + rs <= trades
       /\ Amount + unreported + b + rb = balance + untold + s + rs
  BY <1>5, <1>12, BooksAreNumbers DEF BooksIInv, OnTheWay, Balanced
<1>14. amount \in Amounts /\ amount \in Int
  <2>1. amount + unreported + rb = balance + untold + rs
    BY <1>5, <1>6, <1>12, <1>13, BooksAreNumbers
  <2>2. amount \in Int /\ amount <= trades /\ -trades <= amount
    BY <1>5, <1>6, <1>12, <1>13, <2>1, BooksAreNumbers
  <2> QED
    BY <2>2, BooksAreNumbers, AmountTypes, Bounds
<1>15. position' = None \/ position' \in Positions
  <2>1. CASE skipped \/ amount = 0
    BY <1>8, <2>1
  <2>2. CASE ~skipped /\ amount # 0
    <3>1. (IF position = None THEN 0 ELSE position.failures) \in 0 .. MaxSellFailures
      BY PositionTypes, Bounds DEF BooksIInv, TypeOK
    <3>2. booked \in Positions
      BY <1>7, <1>14, <2>2, <3>1 DEF Positions
    <3> QED
      BY <1>8, <2>2, <3>2
  <2> QED
    BY <2>1, <2>2
<1>16. /\ queue' \in Seq(Events)
       /\ Total(queue', "bought") = rb /\ Total(queue', "sold") = rs
  <2>1. Tail(queue) \in Seq(Events)
    BY <1>2, QueueTails
  <2>2. CASE queue' = Tail(queue)
    BY <1>11, <2>1, <2>2
  <2>3. CASE queue' # Tail(queue)
    <3>1. PICK u : u = Update(position')
      OBVIOUS
    <3>2. queue' = Append(Tail(queue), u) /\ position' # None
      BY <1>8, <2>3, <3>1
    <3>3. PICK p \in Positions : p = position'
      BY <1>15, <3>2
    <3>4. u \in Events /\ u.kind \notin Bookings
      BY <3>1, <3>3, UpdateTypes
    <3>5. \A side : Lots(u, side) = 0
      BY <3>4 DEF Lots
    <3>6. /\ Total(queue', "bought") = rb + 0 /\ Total(queue', "sold") = rs + 0
      BY <1>11, <2>1, <3>2, <3>4, <3>5, TotalAppend
    <3>7. queue' \in Seq(Events)
      BY <2>1, <3>2, <3>4, AppendProperties
    <3> QED
      BY <1>12, <3>6, <3>7
  <2> QED
    BY <2>2, <2>3
<1>17. /\ skipped => Amount' = 0 /\ Amount = 0 /\ c = -1 /\ b = 0 /\ s = 1 /\ untold' = untold + 1
       /\ ~skipped => Amount' = amount /\ untold' = untold
  <2>1. CASE skipped
    <3>1. Amount' = 0 /\ Amount = 0
      BY <1>8, <2>1 DEF Amount, skipped
    <3>2. c = -1 /\ b = 0 /\ s = 1
      BY <1>5, <2>1 DEF skipped
    <3>3. untold' = untold - c
      BY <1>8, <2>1
    <3>4. untold' = untold + 1
      BY <3>2, <3>3, BooksAreNumbers
    <3> QED
      BY <2>1, <3>1, <3>2, <3>4
  <2>2. CASE ~skipped
    <3>1. untold' = untold
      BY <1>8, <2>2
    <3>2. CASE amount = 0
      BY <1>8, <2>2, <3>1, <3>2 DEF Amount
    <3>3. CASE amount # 0
      <4>1. position' = booked /\ booked.amount = amount
        BY <1>7, <1>8, <2>2, <3>3
      <4>2. position' # None
        <5>1. booked = None => booked \in Positions \/ amount = 0
          <6>1. (IF position = None THEN 0 ELSE position.failures) \in 0 .. MaxSellFailures
            BY PositionTypes, Bounds DEF BooksIInv, TypeOK
          <6> QED
            BY <1>7, <1>14, <6>1 DEF Positions
        <5> QED
          BY <3>3, <4>1, <5>1, NoneAssumption
      <4> QED
        BY <2>2, <3>1, <4>1, <4>2 DEF Amount
    <3> QED
      BY <3>2, <3>3
  <2> QED
    BY <2>1, <2>2
<1>18. OnTheWay'
  <2>1. unreported + rb <= trades /\ balance + untold' + rs <= trades
    BY <1>5, <1>12, <1>13, <1>17, BooksAreNumbers
  <2> QED
    BY <1>8, <1>16, <2>1 DEF OnTheWay
<1>19. Balanced'
  <2>1. Amount' + unreported + rb = balance + untold' + rs
    BY <1>5, <1>6, <1>12, <1>13, <1>17, BooksAreNumbers
  <2> QED
    BY <1>8, <1>16, <2>1 DEF Balanced
<1>20. untold' \in 0 .. MaxTrades
  <2>1. untold' \in Nat /\ untold' <= trades
    BY <1>5, <1>12, <1>13, <1>17, BooksAreNumbers
  <2> QED
    BY <2>1, BooksAreNumbers, Bounds
<1> QED
  BY <1>8, <1>10, <1>15, <1>16, <1>18, <1>19, <1>20, RestTypes DEF BooksIInv, TypeOK

\* The steps of a task that sells nothing.
LEMMA QuietTask ==
    ASSUME BooksIInv, NEW s \in Slots, NEW task, TaskFits(task),
           tasks' = [tasks EXCEPT ![s] = task],
           UNCHANGED <<exchange, managed, queue, untold, interfered>>,
           Amount' = Amount, position' = None \/ position' \in Positions,
           pending' \in BOOLEAN, leftover' \in BOOLEAN
    PROVE  BooksIInv'
<1>1. tasks' \in [Slots -> Tasks \cup {None}] /\ LimitsOK'
  BY TaskStep
<1>2. UNCHANGED <<balance, trades, unreported, managed, queue, untold, interfered>>
  BY DEF exchange
<1>3. OnTheWay' /\ Balanced'
  BY <1>2, StillBooks
<1> QED
  BY <1>1, <1>2, <1>3, RestTypes DEF BooksIInv, TypeOK

LEMMA QuietTaskBooks ==
    ASSUME BooksIInv, NEW s \in Slots,
           \/ SellFails(s) \/ ClearPendingSell(s)
           \/ PlaceLimit(s) \/ EndLimit(s) \/ ModifyLimit(s) \/ ExpireLimit(s)
    PROVE  BooksIInv'
<1>1. /\ tasks[s] # None /\ tasks[s] \in Tasks /\ TaskFits(tasks[s])
      /\ UNCHANGED <<exchange, managed, position, queue, untold, interfered>>
  <2>1. /\ tasks[s] # None
        /\ UNCHANGED <<exchange, managed, position, queue, untold, interfered>>
    BY DEF SellFails, ClearPendingSell, PlaceLimit, EndLimit, ModifyLimit, ExpireLimit,
           InPhase, manager, ghosts
  <2> QED
    BY <2>1, TaskAt
<1>2. PICK old \in Tasks : old = tasks[s]
  BY <1>1
<1>3. /\ Amount' = Amount /\ (position' = None \/ position' \in Positions)
      /\ pending' \in BOOLEAN /\ leftover' \in BOOLEAN
  BY <1>1, RestTypes DEF SellFails, ClearPendingSell, PlaceLimit, EndLimit, ModifyLimit,
           ExpireLimit, MarkAfterFailure, Amount, manager, ghosts
<1>4. \E task : tasks' = [tasks EXCEPT ![s] = task] /\ TaskFits(task)
  <2>1. CASE tasks' = [tasks EXCEPT ![s] = None]
    BY <2>1 DEF TaskFits
  <2>2. CASE ModifyLimit(s)
    <3>1. PICK task : task = [old EXCEPT !.phase = "modifying", !.amount = position.amount]
      OBVIOUS
    <3>2. /\ position.amount \in Amounts /\ position.amount \in Int /\ position.amount > 0
          /\ old.phase = "resting"
      BY <1>2, <2>2, PositionTypes DEF ModifyLimit, BooksIInv, TypeOK, InPhase
    <3>3. /\ task.type = old.type /\ task.amount = position.amount
          /\ task.phase = "modifying" /\ task \in Tasks
      BY <1>2, <3>1, <3>2 DEF Tasks, Marked, Out
    <3>4. TaskFits(task)
      BY <1>1, <1>2, <3>2, <3>3 DEF TaskFits
    <3>5. tasks' = [tasks EXCEPT ![s] = task]
      BY <1>2, <2>2, <3>1 DEF ModifyLimit
    <3> QED
      BY <3>4, <3>5
  <2>3. CASE /\ tasks' # [tasks EXCEPT ![s] = None]
             /\ SellFails(s) \/ PlaceLimit(s) \/ EndLimit(s) \/ ClearPendingSell(s)
    <3>1. PICK phase \in {"failed", "cleared", "unplaced", "resting"} :
              /\ tasks' = [tasks EXCEPT ![s].phase = phase]
              /\ phase = "resting" => old.type = "LimitSell"
      BY <1>1, <1>2, <2>3 DEF SellFails, PlaceLimit, EndLimit, ClearPendingSell, InPhase,
                              TaskFits
    <3>2. PICK task : task = [old EXCEPT !.phase = phase]
      OBVIOUS
    <3>3. /\ task.type = old.type /\ task.amount = old.amount /\ task.phase = phase
          /\ task \in Tasks
      BY <1>2, <3>2 DEF Tasks, Marked, Out
    <3>4. TaskFits(task)
      BY <1>1, <1>2, <3>1, <3>3 DEF TaskFits
    <3>5. tasks' = [tasks EXCEPT ![s] = task]
      BY <1>2, <3>1, <3>2
    <3> QED
      BY <3>4, <3>5
  <2> QED
    BY <2>1, <2>2, <2>3 DEF ExpireLimit
<1> QED
  BY <1>1, <1>3, <1>4, QuietTask

LEMMA MinOfTwo ==
    ASSUME NEW a \in Int, NEW b \in Int
    PROVE  Min({a, b}) = IF a <= b THEN a ELSE b
<1>1. PICK m : m = IF a <= b THEN a ELSE b
  OBVIOUS
<1>2. /\ m \in {a, b} /\ \A y \in {a, b} : m <= y
      /\ \A x \in {a, b} : (\A y \in {a, b} : x <= y) => x = m
  BY <1>1
<1>3. Min({a, b}) = m
  BY <1>1, <1>2 DEF Min
<1> QED
  BY <1>1, <1>3

LEMMA CountFailureBooks ==
    ASSUME BooksIInv, NEW s \in Slots, CountFailure(s) PROVE BooksIInv'
<1>1. /\ UNCHANGED <<exchange, managed, queue, untold, interfered, pending, leftover>>
      /\ tasks' = [tasks EXCEPT ![s] = None]
  BY DEF CountFailure, ghosts
<1>2. Amount' = Amount /\ (position' = None \/ position' \in Positions)
  <2>1. CASE position = None
    BY <2>1 DEF CountFailure, Amount
  <2>2. CASE position # None
    <3>1. PICK old \in Positions : old = position
      BY <2>2 DEF BooksIInv, TypeOK
    <3>2. PICK f : f = Min({old.failures + 1, MaxSellFailures})
      OBVIOUS
    <3>3. position' = [old EXCEPT !.failures = f]
      BY <2>2, <3>1, <3>2 DEF CountFailure
    <3>4. f \in 0 .. MaxSellFailures
      BY <3>2, MinOfTwo, PositionTypes, Bounds
    <3>5. PICK new : new = [old EXCEPT !.failures = f]
      OBVIOUS
    <3>6. new \in Positions /\ new.amount = old.amount
      BY <3>4, <3>5 DEF Positions
    <3>7. position' # None
      BY <3>3, <3>5, <3>6, PositionTypes
    <3> QED
      BY <2>2, <3>1, <3>3, <3>5, <3>6, <3>7 DEF Amount
  <2> QED
    BY <2>1, <2>2
<1>3. pending' \in BOOLEAN /\ leftover' \in BOOLEAN
  BY <1>1, RestTypes
<1>4. TaskFits(None)
  BY DEF TaskFits
<1> QED
  BY <1>1, <1>2, <1>3, <1>4, QuietTask

LEMMA SellMatchedBooks ==
    ASSUME BooksIInv, NEW s \in Slots, SellMatched(s) PROVE BooksIInv'
<1>1. PICK n : n = tasks[s].amount
  OBVIOUS
<1>2. n \in 1 .. balance /\ n \in Nat /\ n <= balance /\ n >= 1
  BY <1>1, BooksAreNumbers DEF SellMatched
<1>3. PICK e : e = Change("fill", -n, TRUE)
  OBVIOUS
<1>4. e \in Events /\ e.kind \in Bookings /\ e.change = 0 - n
  <2>1. balance <= MaxTrades
    BY Bounds DEF BooksIInv, TypeOK
  <2>2. -n \in Amounts /\ -n = 0 - n
    BY <1>2, <2>1, BooksAreNumbers, Bounds, AmountTypes
  <2>3. e \in Events
    BY <1>3, <2>2, ChangeTypes
  <2> QED
    BY <1>3, <2>2, <2>3 DEF Change, Bookings
<1>5. /\ queue' = Append(queue, e) /\ UNCHANGED <<trades, position, untold>>
      /\ unreported' = unreported - 0 /\ balance' = balance - n
      /\ 0 <= unreported /\ n <= balance
  BY <1>1, <1>2, <1>3, BooksAreNumbers DEF SellMatched, manager
<1>6. /\ OnTheWay' /\ Balanced' /\ queue' \in Seq(Events)
      /\ balance' \in 0 .. MaxTrades /\ unreported' \in 0 .. MaxTrades
  BY <1>2, <1>4, <1>5, QueuedBooks
<1>7. /\ UNCHANGED <<trades, managed, position, pending, untold, leftover, interfered>>
      /\ tasks' = [tasks EXCEPT ![s] = None]
  BY DEF SellMatched, manager, ghosts
<1>8. tasks' \in [Slots -> Tasks \cup {None}] /\ LimitsOK'
  BY <1>7, TaskStep DEF TaskFits
<1> QED
  BY <1>6, <1>7, <1>8, RestTypes DEF BooksIInv, TypeOK

LEMMA FillLimitBooks ==
    ASSUME BooksIInv, NEW s \in Slots, FillLimit(s) PROVE BooksIInv'
<1>1. /\ tasks[s] # None /\ tasks[s] \in Tasks /\ TaskFits(tasks[s])
      /\ tasks[s].phase = "resting"
  BY TaskAt DEF FillLimit, InPhase
<1>2. PICK old \in Tasks : old = tasks[s]
  BY <1>1
<1>3. old.amount \in Amounts /\ old.amount \in Int /\ old.amount >= 1
  BY <1>1, <1>2, TaskTypes DEF TaskFits
<1>4. PICK last \in BOOLEAN : last = (old.amount = 1)
  OBVIOUS
<1>5. PICK e : e = Change("fill", -1, last)
  OBVIOUS
<1>6. e \in Events /\ e.kind \in Bookings /\ e.change = 0 - 1
  <2>1. -1 \in Amounts /\ -1 = 0 - 1
    BY Bounds, AmountTypes
  <2>2. e \in Events
    BY <1>5, <2>1, ChangeTypes
  <2> QED
    BY <1>5, <2>1, <2>2 DEF Change, Bookings
<1>7. /\ queue' = Append(queue, e) /\ UNCHANGED <<trades, position, untold>>
      /\ unreported' = unreported - 0 /\ balance' = balance - 1
      /\ 0 <= unreported /\ 1 <= balance
  BY <1>2, <1>4, <1>5, BooksAreNumbers DEF FillLimit, manager
<1>8. /\ OnTheWay' /\ Balanced' /\ queue' \in Seq(Events)
      /\ balance' \in 0 .. MaxTrades /\ unreported' \in 0 .. MaxTrades
  BY <1>6, <1>7, QueuedBooks
<1>9. UNCHANGED <<trades, managed, position, pending, untold, leftover, interfered>>
  BY DEF FillLimit, manager, ghosts
<1>10. tasks' \in [Slots -> Tasks \cup {None}] /\ LimitsOK'
  <2>1. CASE last
    BY <1>2, <1>4, <2>1, TaskStep DEF FillLimit, TaskFits
  <2>2. CASE ~last
    <3>1. PICK task : task = [old EXCEPT !.amount = @ - 1]
      OBVIOUS
    <3>2. old.amount - 1 \in Amounts /\ old.amount - 1 >= 1
      <4>1. old.amount # 1
        BY <1>4, <2>2
      <4> QED
        BY <1>3, <4>1, AmountTypes, Bounds
    <3>3. /\ task.type = old.type /\ task.amount = old.amount - 1
          /\ task.phase = old.phase /\ task \in Tasks
      BY <3>1, <3>2 DEF Tasks
    <3>4. TaskFits(task)
      BY <1>1, <1>2, <3>2, <3>3 DEF TaskFits
    <3>5. tasks' = [tasks EXCEPT ![s] = task]
      BY <1>2, <1>4, <2>2, <3>1 DEF FillLimit
    <3> QED
      BY <3>4, <3>5, TaskStep
  <2> QED
    BY <2>1, <2>2
<1> QED
  BY <1>8, <1>9, <1>10, RestTypes DEF BooksIInv, TypeOK

LEMMA SellRetriedBooks ==
    ASSUME BooksIInv, NEW s \in Slots, NEW sold, tasks[s] # None, SellRetried(s, sold)
    PROVE  BooksIInv'
<1>1. tasks[s] \in Tasks /\ TaskFits(tasks[s])
  BY TaskAt
<1>2. /\ sold \in Nat /\ sold <= balance
      /\ balance' = balance - sold /\ untold' = untold + sold
  BY BooksAreNumbers DEF SellRetried
<1>3. UNCHANGED <<trades, unreported, managed, position, pending, queue, leftover, interfered>>
  BY DEF SellRetried, manager, ghosts
<1>4. OnTheWay' /\ Balanced'
  <2>1. balance' + untold' = balance + untold /\ balance' \in Nat /\ untold' \in Nat
    BY <1>2, BooksAreNumbers
  <2>2. Amount' = Amount /\ \A side : Total(queue', side) = Total(queue, side)
    BY <1>3 DEF Amount
  <2> QED
    BY <1>3, <2>1, <2>2, BooksAreNumbers DEF BooksIInv, OnTheWay, Balanced
<1>5. balance' \in 0 .. MaxTrades /\ untold' \in 0 .. MaxTrades
  BY <1>2, BooksAreNumbers, Bounds DEF BooksIInv, OnTheWay
<1>6. tasks' \in [Slots -> Tasks \cup {None}] /\ LimitsOK'
  <2>1. PICK old \in Tasks : old = tasks[s]
    BY <1>1
  <2>2. PICK task : task = [old EXCEPT !.attempt = @ + 1]
    OBVIOUS
  <2>3. old.attempt + 1 \in 1 .. MaxRetries
    BY <2>1, TaskTypes, Bounds DEF SellRetried
  <2>4. /\ task.type = old.type /\ task.amount = old.amount
        /\ task.phase = old.phase /\ task \in Tasks
    BY <2>2, <2>3 DEF Tasks
  <2>5. TaskFits(task)
    BY <1>1, <2>1, <2>4 DEF TaskFits
  <2>6. tasks' = [tasks EXCEPT ![s] = task]
    BY <2>1, <2>2 DEF SellRetried
  <2> QED
    BY <2>5, <2>6, TaskStep
<1> QED
  BY <1>3, <1>4, <1>5, <1>6, RestTypes DEF BooksIInv, TypeOK

LEMMA NextBooks == BooksIInv /\ [Next]_vars => BooksIInv'
<1> SUFFICES ASSUME BooksIInv, [Next]_vars PROVE BooksIInv'
  OBVIOUS
<1>1. CASE UNCHANGED vars
  <2>1. UNCHANGED <<balance, trades, unreported, managed, position, pending, queue,
                    tasks, untold, leftover, interfered>>
    BY <1>1 DEF vars, exchange, manager, ghosts
  <2>2. OnTheWay' /\ Balanced'
    BY <2>1, StillBooks DEF Amount
  <2> QED
    BY <2>1, <2>2, RestTypes DEF BooksIInv, TypeOK
<1>2. CASE Buy \/ ReportBuy \/ \E kind \in Bookings : SellOrMerge(kind)
  BY <1>2, BuyBooks, ReportBuyBooks, SellOrMergeBooks
<1>3. CASE UpdatePrice \/ Book \/ NoExitOnUpdate
  BY <1>3, UpdatePriceBooks, BookBooks, NoExitOnUpdateBooks
<1>4. CASE \/ ExitOnUpdate \/ ExitOnTimer
           \/ \E type \in {"Sell", "LimitSell"} : ExitOnSignal(type)
  BY <1>4, ExitBooks
<1>5. CASE \E s \in Slots :
              \/ SellMatched(s) \/ CountFailure(s) \/ FillLimit(s)
              \/ tasks[s] # None /\ \E sold \in {0, tasks[s].amount} : SellRetried(s, sold)
  BY <1>5, SellMatchedBooks, CountFailureBooks, FillLimitBooks, SellRetriedBooks
<1>6. CASE \E s \in Slots :
              \/ SellFails(s) \/ ClearPendingSell(s) \/ PlaceLimit(s) \/ EndLimit(s)
              \/ ModifyLimit(s) \/ ExpireLimit(s)
  BY <1>6, QuietTaskBooks
<1> QED
  BY <1>1, <1>2, <1>3, <1>4, <1>5, <1>6 DEF Next

-------------------------------------------------------------------------------

\* The inductive invariant of the books.
THEOREM BooksInvariance == Spec => []BooksIInv
  BY InitBooks, NextBooks, PTL DEF Spec

\* Whatever the bounds, every variable keeps its type: the manager's amount and the
\* exits' amounts stay within the lots ever bought, short or long, a count of failures
\* within max_sell_failures and a task within its retries.
THEOREM TypeCorrectness == Spec => []TypeOK
<1>1. BooksIInv => TypeOK
  BY DEF BooksIInv
<1> QED
  BY <1>1, BooksInvariance, PTL

\* However buys, exits, retries, merges and their fills overlap, the manager's amount
\* and what is on its way to it make up the exchange's balance and the named losses.
THEOREM BooksSafety == Spec => []BooksFollowExchange
<1>1. BooksIInv => BooksFollowExchange
  <2> SUFFICES ASSUME BooksIInv PROVE BooksFollowExchange
    OBVIOUS
  <2>1. Queued = Total(queue, "bought") - Total(queue, "sold")
    BY QueuedIsBoughtLessSold DEF BooksIInv, TypeOK
  <2>2. Balanced
    BY DEF BooksIInv
  <2> QED
    BY <2>1, <2>2, BooksAreNumbers DEF Balanced, BooksFollowExchange
<1> QED
  BY <1>1, BooksInvariance, PTL

=================================================================================
