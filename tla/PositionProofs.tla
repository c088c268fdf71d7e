----------------------------- MODULE PositionProofs -----------------------------
(***************************************************************************)
(* Proofs about live trading's books, for any number of trades.            *)
(***************************************************************************)
EXTENDS PairRedemption, SequenceTheorems, WellFoundedInduction, TLAPS

\* Types without the bounds.
Typed ==
    /\ held \in [Tokens -> Nat] /\ trades \in 0 .. MaxTrades /\ paid \in Nat
    /\ policy = None \/ policy \in Policies
    /\ positions \in [Tokens -> Int] /\ unpriced \subseteq Tokens /\ bought \subseteq Tokens
    /\ received \in Nat
    /\ fills \in [Tokens -> [Lots -> Nat]]
    /\ completed \in Seq(Nat)
    /\ requested \in BOOLEAN
    /\ merge = None \/ merge \in Merges
    /\ abandoned \subseteq Nat /\ untold \in Nat

\* Tokens and fills on their way come from trades, two for each pair.
FromTrades ==
    /\ \A t \in Tokens : /\ held[t] + paid + fills[t][-1] <= trades
                         /\ fills[t][1] <= trades
    /\ held["up"] + held["down"] + 2 * paid <= trades

\* No merge takes more pairs than trades can have made.  Between its two reads it has
\* read one balance, and the other may still grow by trades.
Pairable(amount) == 2 * amount <= trades

MergesOK ==
    /\ merge # None =>
          /\ merge.phase = "half" => merge.amount + held["down"] <= trades
          /\ merge.phase \notin {"asked", "half"} => Pairable(merge.amount)
    /\ \A a \in abandoned : Pairable(a)
    /\ \A i \in DOMAIN completed : Pairable(completed[i])

\* A position, with what is still to be booked of either side, is within what trades and
\* merges can have made of it.
PositionsOK ==
    \A t \in Tokens :
        /\ positions[t] + fills[t][1] <= 2 * trades
        /\ positions[t] - fills[t][-1] - (Total(completed) + MinedNow) >= -(trades + paid)

IInv == Typed /\ FromTrades /\ MergesOK /\ PositionsOK /\ CreditedOnce

-------------------------------------------------------------------------------
(* Numbers, and what the queued events credit *)

LEMMA LeastNumber ==
    ASSUME NEW T \in SUBSET Nat, T # {}
    PROVE  \E x \in T : \A y \in T : x <= y
<1> DEFINE R == OpToRel(<, Nat)
<1>1. IsWellFoundedOn(R, Nat)
  BY NatLessThanWellFounded
<1>2. \A x, y \in Nat : <<y, x>> \in R <=> y < x
  BY DEF OpToRel
<1> HIDE DEF R
<1>3. PICK x \in T : \A y \in T : ~(<<y, x>> \in R)
  BY <1>1, WFMin, Zenon
<1>4. ASSUME NEW y \in T PROVE x <= y
  <2>1. x \in Nat /\ y \in Nat /\ ~(y < x)
    BY <1>2, <1>3
  <2> QED
    BY <2>1
<1> QED
  BY <1>4

\* Induction: what holds of 0, and of n + 1 whenever of n, holds of every number.
LEMMA Induction ==
    ASSUME NEW S, 0 \in S, \A n \in Nat : n \in S => n + 1 \in S
    PROVE  Nat \subseteq S
<1> DEFINE T == Nat \ S
<1> SUFFICES ASSUME T # {} PROVE FALSE
  OBVIOUS
<1>1. PICK n \in T : \A y \in T : n <= y
  BY LeastNumber
<1>2. n # 0 /\ n - 1 \in Nat /\ n - 1 \in S /\ (n - 1) + 1 = n
  BY <1>1
<1> QED
  BY <1>1, <1>2

\* upto is the function by which Total counts, up to the n-th event.
Counts(upto, q, n) == upto = [k \in 0 .. n |-> IF k = 0 THEN 0 ELSE upto[k - 1] + q[k]]

LEMMA CountExists ==
    ASSUME NEW q, NEW n \in Nat
    PROVE  \E upto : Counts(upto, q, n)
<1> DEFINE S == {m \in Nat : \E upto : Counts(upto, q, m)}
<1>1. 0 \in S
  <2>1. Counts([k \in 0 .. 0 |-> 0], q, 0)
    BY DEF Counts
  <2> QED
    BY <2>1
<1>2. ASSUME NEW m \in Nat, m \in S PROVE m + 1 \in S
  <2>1. PICK f : Counts(f, q, m)
    BY <1>2
  <2> DEFINE g == [k \in 0 .. m + 1 |->
                     IF k = m + 1 THEN f[m] + q[m + 1] ELSE f[k]]
  <2>2. \A k \in 0 .. m : f[k] = IF k = 0 THEN 0 ELSE f[k - 1] + q[k]
    BY <2>1 DEF Counts
  <2>3. \A k \in 0 .. m : g[k] = f[k]
    OBVIOUS
  <2>4. g[m + 1] = f[m] + q[m + 1]
    OBVIOUS
  <2>5. g = [k \in 0 .. m + 1 |-> g[k]]
    OBVIOUS
  <2> HIDE DEF g
  <2>6. ASSUME NEW k \in 0 .. m + 1
        PROVE  g[k] = IF k = 0 THEN 0 ELSE g[k - 1] + q[k]
    <3>1. CASE k = m + 1
      <4>1. k - 1 = m /\ m \in 0 .. m
        BY <3>1
      <4> QED
        BY <2>3, <2>4, <3>1, <4>1
    <3>2. CASE k = 0
      BY <2>2, <2>3, <3>2
    <3>3. CASE k \in 1 .. m
      <4>1. k - 1 \in 0 .. m
        BY <3>3
      <4> QED
        BY <2>2, <2>3, <3>3, <4>1
    <3> QED
      BY <3>1, <3>2, <3>3
  <2>7. Counts(g, q, m + 1)
    BY <2>5, <2>6 DEF Counts
  <2> QED
    BY <2>7
<1> HIDE DEF S
<1>3. Nat \subseteq S
  BY <1>1, <1>2, Induction
<1> QED
  BY <1>3 DEF S

LEMMA TotalCounts ==
    ASSUME NEW q \in Seq(Nat)
    PROVE  \E upto : Counts(upto, q, Len(q)) /\ Total(q) = upto[Len(q)]
<1> DEFINE f == CHOOSE f : f = [i \in 0 .. Len(q) |->
                  IF i = 0 THEN 0 ELSE f[i - 1] + q[i]]
<1>1. Total(q) = f[Len(q)]
  BY DEF Total
<1>2. \E upto : Counts(upto, q, Len(q))
  BY CountExists, LenProperties
<1>3. Counts(f, q, Len(q))
  BY <1>2 DEF Counts
<1> QED
  BY <1>1, <1>3

LEMMA CountsNat ==
    ASSUME NEW q \in Seq(Nat), NEW f, Counts(f, q, Len(q))
    PROVE  \A k \in 0 .. Len(q) : f[k] \in Nat
<1> DEFINE S == {k \in Nat : k <= Len(q) => f[k] \in Nat}
<1>1. Len(q) \in Nat
  BY LenProperties
<1>2. \A k \in 0 .. Len(q) : f[k] = IF k = 0 THEN 0 ELSE f[k - 1] + q[k]
  BY DEF Counts
<1>3. \A k \in 1 .. Len(q) : q[k] \in Nat
  BY ElementOfSeq
<1>4. 0 \in S
  BY <1>1, <1>2
<1>5. ASSUME NEW k \in Nat, k \in S PROVE k + 1 \in S
  <2> SUFFICES ASSUME k + 1 <= Len(q) PROVE f[k + 1] \in Nat
    OBVIOUS
  <2>1. k + 1 \in 1 .. Len(q) /\ k + 1 \in 0 .. Len(q) /\ (k + 1) - 1 = k /\ k + 1 # 0
    BY <1>1
  <2>2. f[k + 1] = f[k] + q[k + 1]
    BY <1>2, <2>1
  <2>3. f[k] \in Nat
    BY <1>1, <1>5
  <2>4. q[k + 1] \in Nat
    BY <1>3, <2>1
  <2> QED
    BY <2>2, <2>3, <2>4
<1> HIDE DEF S
<1>6. Nat \subseteq S
  BY <1>4, <1>5, Induction
<1> QED
  BY <1>1, <1>6 DEF S

LEMMA TotalNat ==
    ASSUME NEW q \in Seq(Nat) PROVE Total(q) \in Nat
  BY TotalCounts, CountsNat, LenProperties

\* The first n events of d are those of q from the one after s to the m-th.
Shifted(q, s, m, d, n) ==
    n <= Len(d) /\ m <= Len(q) /\ m = s + n /\ \A k \in 1 .. n : q[s + k] = d[k]

LEMMA CountsShift ==
    ASSUME NEW q \in Seq(Nat), NEW d \in Seq(Nat), NEW s \in Nat,
           NEW f, Counts(f, q, Len(q)), NEW g, Counts(g, d, Len(d)),
           NEW n \in Nat, NEW m \in Nat, Shifted(q, s, m, d, n)
    PROVE  f[m] = f[s] + g[n]
<1> USE DEF Shifted
<1> DEFINE S == {k \in Nat : k <= n => f[s + k] = f[s] + g[k]}
<1>1. Len(q) \in Nat /\ Len(d) \in Nat
  BY LenProperties
<1>2. /\ \A k \in 0 .. Len(q) : f[k] = IF k = 0 THEN 0 ELSE f[k - 1] + q[k]
      /\ \A k \in 0 .. Len(d) : g[k] = IF k = 0 THEN 0 ELSE g[k - 1] + d[k]
  BY DEF Counts
<1>3. /\ \A k \in 0 .. Len(q) : f[k] \in Nat
      /\ \A k \in 0 .. Len(d) : g[k] \in Nat
  BY CountsNat
<1>4. 0 \in S
  <2>1. g[0] = 0 /\ f[s] \in Nat /\ s + 0 = s
    BY <1>1, <1>2, <1>3
  <2> QED
    BY <2>1
<1>5. ASSUME NEW k \in Nat, k \in S PROVE k + 1 \in S
  <2> SUFFICES ASSUME k + 1 <= n PROVE f[s + (k + 1)] = f[s] + g[k + 1]
    OBVIOUS
  <2>1. /\ k + 1 \in 0 .. Len(d) /\ k + 1 \in 1 .. n /\ k + 1 # 0 /\ (k + 1) - 1 = k
        /\ s + (k + 1) \in 0 .. Len(q) /\ s + (k + 1) # 0 /\ (s + (k + 1)) - 1 = s + k
        /\ s \in 0 .. Len(q) /\ k \in 0 .. Len(d)
    BY <1>1
  <2>2. f[s + k] = f[s] + g[k] /\ q[s + (k + 1)] = d[k + 1]
    BY <1>5, <2>1
  <2>3. f[s + (k + 1)] = f[s + k] + d[k + 1]
    BY <1>2, <2>1, <2>2
  <2>4. g[k + 1] = g[k] + d[k + 1]
    BY <1>2, <2>1
  <2>5. d[k + 1] \in Nat
    <3>1. k + 1 \in 1 .. Len(d)
      BY <1>1, <2>1
    <3> HIDE DEF Shifted
    <3> QED
      BY <3>1, ElementOfSeq
  <2>6. PICK a \in Nat, b \in Nat, x \in Nat :
          a = f[s] /\ b = g[k] /\ x = d[k + 1]
    <3>1. f[s] \in Nat
      BY <1>3, <2>1
    <3>2. g[k] \in Nat
      BY <1>3, <2>1
    <3> QED
      BY <2>5, <3>1, <3>2
  <2>7. f[s + (k + 1)] = (a + b) + x
    BY <2>2, <2>3, <2>6, Zenon
  <2>8. g[k + 1] = b + x
    BY <2>4, <2>6, Zenon
  <2>9. (a + b) + x = a + (b + x)
    OBVIOUS
  <2> QED
    BY <2>6, <2>7, <2>8, <2>9, Zenon
<1> HIDE DEF S
<1>6. Nat \subseteq S
  BY <1>4, <1>5, Induction
<1> QED
  BY <1>6 DEF S

LEMMA TotalNothing == Total(<<>>) = 0
<1>1. <<>> \in Seq(Nat) /\ Len(<<>>) = 0
  BY EmptySeq
<1>2. PICK f : Counts(f, <<>>, 0) /\ Total(<<>>) = f[0]
  BY <1>1, TotalCounts
<1> QED
  BY <1>2 DEF Counts

LEMMA TotalAppend ==
    ASSUME NEW q \in Seq(Nat), NEW e \in Nat
    PROVE  Total(Append(q, e)) = Total(q) + e
<1> DEFINE more == Append(q, e)
           n == Len(q)
<1>1. /\ n \in Nat /\ more \in Seq(Nat) /\ Len(more) = n + 1 /\ more[n + 1] = e
      /\ \A k \in 1 .. n : more[0 + k] = q[k]
  BY AppendProperties, LenProperties
<1>2. PICK g : Counts(g, q, n) /\ Total(q) = g[n]
  BY TotalCounts
<1> HIDE DEF more
<1>3. PICK f : Counts(f, more, n + 1) /\ Total(more) = f[n + 1]
  BY <1>1, TotalCounts
<1>4. f[n] = f[0] + g[n]
  <2>1. PICK s \in Nat : s = 0
    OBVIOUS
  <2>2. Shifted(more, s, n, q, n)
    BY <1>1, <2>1 DEF Shifted
  <2>3. /\ more \in Seq(Nat) /\ n \in Nat
        /\ Counts(f, more, Len(more)) /\ Counts(g, q, Len(q))
    BY <1>1, <1>2, <1>3
  <2> HIDE DEF n
  <2>4. f[n] = f[s] + g[n]
    BY <2>2, <2>3, CountsShift
  <2> QED
    BY <2>1, <2>4
<1>5. f[0] = 0 /\ f[n + 1] = f[(n + 1) - 1] + more[n + 1]
  BY <1>1, <1>3 DEF Counts
<1>6. (n + 1) - 1 = n /\ g[n] \in Nat
  BY <1>1, <1>2, CountsNat
<1> QED
  BY <1>1, <1>2, <1>3, <1>4, <1>5, <1>6 DEF more

LEMMA TotalTail ==
    ASSUME NEW q \in Seq(Nat), q # <<>>
    PROVE  Total(q) = Head(q) + Total(Tail(q))
<1> DEFINE rest == Tail(q)
           n == Len(rest)
<1>1. /\ rest \in Seq(Nat) /\ n \in Nat /\ Len(q) = n + 1 /\ Head(q) = q[1]
      /\ \A k \in 1 .. n : q[1 + k] = rest[k]
  <2>1. Len(q) \in Nat /\ Len(q) > 0
    BY LenProperties, EmptySeq
  <2>2. rest \in Seq(Nat) /\ Len(rest) = Len(q) - 1
    BY HeadTailProperties
  <2>3. \A k \in 1 .. n : rest[k] = q[k + 1]
    BY <2>1, <2>2
  <2> QED
    BY <2>1, <2>2, <2>3
<1>2. PICK f : Counts(f, q, Len(q)) /\ Total(q) = f[Len(q)]
  BY TotalCounts
<1> HIDE DEF rest
<1>3. PICK g : Counts(g, rest, Len(rest)) /\ Total(rest) = g[Len(rest)]
  BY <1>1, TotalCounts
<1>4. f[Len(q)] = f[1] + g[n]
  <2>1. PICK s \in Nat : s = 1
    OBVIOUS
  <2>2. Len(q) \in Nat /\ Shifted(q, s, Len(q), rest, n)
    BY <1>1, <2>1 DEF Shifted
  <2> HIDE DEF n
  <2>3. f[Len(q)] = f[s] + g[n]
    BY <1>1, <1>2, <1>3, <2>2, CountsShift
  <2> QED
    BY <2>1, <2>3
<1>5. f[0] = 0 /\ f[1] = f[1 - 1] + q[1]
  BY <1>1, <1>2 DEF Counts
<1>6. q[1] \in Nat /\ g[n] \in Nat
  BY <1>1, <1>3, ElementOfSeq, CountsNat
<1> QED
  BY <1>1, <1>2, <1>3, <1>4, <1>5, <1>6 DEF rest

-------------------------------------------------------------------------------
(* Merges *)

LEMMA MinOfTwo ==
    ASSUME NEW a \in Int, NEW b \in Int
    PROVE  /\ Min({a, b}) \in {a, b}
           /\ Min({a, b}) <= a /\ Min({a, b}) <= b
<1>1. \E x \in {a, b} : \A y \in {a, b} : x <= y
  <2>1. CASE a <= b
    BY <2>1
  <2>2. CASE b <= a
    BY <2>2
  <2> QED
    BY <2>1, <2>2
<1> QED
  BY <1>1 DEF Min

\* There are as many pairs as tokens of the rarer kind.
LEMMA PairsAreHeld ==
    ASSUME NEW amounts \in [Tokens -> Int]
    PROVE  /\ Pairs(amounts) \in Int
           /\ \A t \in Tokens : Pairs(amounts) <= amounts[t]
<1>1. Range(amounts) = {amounts["up"], amounts["down"]}
  BY DEF Range, Tokens
<1>2. amounts["up"] \in Int /\ amounts["down"] \in Int
  BY DEF Tokens
<1> QED
  BY <1>1, <1>2, MinOfTwo DEF Pairs, Tokens

LEMMA MergeTypes ==
    ASSUME NEW m \in Merges
    PROVE  /\ m # None /\ m.amount \in 0 .. MaxTrades /\ m.amount \in Nat
           /\ m.phase \in {"asked", "half", "read", "waiting", "mined", "doomed"}
           /\ m = [phase |-> m.phase, amount |-> m.amount]
  BY NoneAssumption, PairAssumption DEF Merges

\* A merge that fits in with the balances and the trades.
Fits(m) ==
    m # None =>
        /\ m.phase = "half" => m.amount + held["down"] <= trades
        /\ m.phase \notin {"asked", "half"} => Pairable(m.amount)

\* The numbers of a state that the invariant bounds.
LEMMA Numbers ==
    ASSUME IInv
    PROVE  /\ trades \in Nat /\ MaxTrades \in Nat /\ trades <= MaxTrades /\ paid \in Nat
           /\ received \in Nat /\ untold \in Nat /\ Total(completed) \in Nat
           /\ MinedNow \in Nat
           /\ \A t \in Tokens :
                 /\ held[t] \in Nat /\ positions[t] \in Int
                 /\ fills[t][1] \in Nat /\ fills[t][-1] \in Nat
           /\ held["up"] \in Nat /\ held["down"] \in Nat
<1>1. /\ trades \in Nat /\ MaxTrades \in Nat /\ trades <= MaxTrades /\ paid \in Nat
      /\ received \in Nat /\ untold \in Nat
  BY PairAssumption DEF IInv, Typed
<1>2. Total(completed) \in Nat
  BY TotalNat DEF IInv, Typed
<1>3. MinedNow \in Nat
  BY MergeTypes DEF MinedNow, IInv, Typed
<1>4. \A t \in Tokens : /\ held[t] \in Nat /\ positions[t] \in Int
                        /\ fills[t][1] \in Nat /\ fills[t][-1] \in Nat
  BY DEF IInv, Typed, Lots
<1> QED
  BY <1>1, <1>2, <1>3, <1>4 DEF Tokens

LEMMA InvTyped == IInv => TypeOK
<1> SUFFICES ASSUME IInv PROVE TypeOK
  OBVIOUS
<1>1. \A a \in Nat : Pairable(a) => a \in 0 .. MaxTrades \div 2
  <2>1. PICK m \in Nat, n \in Nat : m = MaxTrades /\ n = trades /\ n <= m
    BY Numbers
  <2>2. \A a \in Nat : 2 * a <= n => a \in 0 .. m \div 2
    BY <2>1
  <2> QED
    BY <2>1, <2>2 DEF Pairable
<1>2. \A t \in Tokens : held[t] \in 0 .. MaxTrades
  BY Numbers DEF IInv, FromTrades
<1>3. Pairable(paid)
  BY Numbers DEF IInv, FromTrades, Pairable
<1>4. Pairable(received) /\ Pairable(untold)
  <2>1. received <= paid /\ untold <= paid
    BY Numbers DEF IInv, CreditedOnce
  <2> QED
    BY <1>3, <2>1, Numbers DEF Pairable
<1>5. \A t \in Tokens : positions[t] \in -2 * MaxTrades .. 2 * MaxTrades
  <2> SUFFICES ASSUME NEW t \in Tokens PROVE positions[t] \in -2 * MaxTrades .. 2 * MaxTrades
    OBVIOUS
  <2>0. Total(completed) + MinedNow \in Nat
    BY Numbers
  <2>1. PICK p \in Int, b \in Nat, s \in Nat, w \in Nat, m \in Nat, n \in Nat, d \in Nat :
           /\ p = positions[t] /\ b = fills[t][1] /\ s = fills[t][-1]
           /\ w = Total(completed) + MinedNow /\ m = MaxTrades /\ n = trades /\ d = paid
    BY Numbers, <2>0
  <2>2. p + b <= 2 * n /\ p - s - w >= -(n + d) /\ n <= m /\ 2 * d <= n
    BY <1>3, <2>1, Numbers DEF IInv, PositionsOK, Pairable
  <2>3. p \in -2 * m .. 2 * m
    BY <2>2
  <2> QED
    BY <2>1, <2>3, Zenon
<1>6. \A t \in Tokens, n \in Lots : fills[t][n] \in 0 .. MaxTrades
  BY Numbers DEF IInv, FromTrades, Lots
<1>7. completed \in Seq(0 .. MaxTrades \div 2)
  <2>1. \A i \in 1 .. Len(completed) : completed[i] \in 0 .. MaxTrades \div 2
    BY <1>1, LenProperties, ElementOfSeq DEF IInv, Typed, MergesOK
  <2>2. Len(completed) \in Nat /\ completed \in [1 .. Len(completed) -> Nat]
    BY LenProperties DEF IInv, Typed
  <2>3. completed \in [1 .. Len(completed) -> 0 .. MaxTrades \div 2]
    BY <2>1, <2>2
  <2> QED
    BY <2>2, <2>3, SeqDef
<1> QED
  BY <1>1, <1>2, <1>3, <1>4, <1>5, <1>6, <1>7 DEF IInv, Typed, TypeOK, MergesOK


-------------------------------------------------------------------------------
(* Every step keeps the invariant *)

LEMMA InitIInv == Init => IInv
<1> SUFFICES ASSUME Init PROVE IInv
  OBVIOUS
<1> USE DEF Init
<1>1. Typed
  <2>1. fills \in [Tokens -> [Lots -> Nat]] /\ completed \in Seq(Nat)
    BY EmptySeq
  <2>2. trades \in 0 .. MaxTrades
    BY PairAssumption
  <2>3. held \in [Tokens -> Nat] /\ positions \in [Tokens -> Int]
    OBVIOUS
  <2> QED
    BY <2>1, <2>2, <2>3 DEF Typed
<1>2. Total(completed) = 0 /\ MinedNow = 0
  BY TotalNothing DEF MinedNow
<1>3. FromTrades
  BY DEF FromTrades, Tokens, Lots
<1>4. MergesOK
  BY EmptySeq DEF MergesOK
<1>5. PositionsOK
  BY <1>2 DEF PositionsOK, Tokens, Lots
<1>6. CreditedOnce
  BY <1>2 DEF CreditedOnce
<1> QED
  BY <1>1, <1>3, <1>4, <1>5, <1>6 DEF IInv

\* A trade moves one lot, and its fill is on its way.
LEMMA TradeKeeps ==
    ASSUME IInv, NEW token \in Tokens, NEW n \in Lots, Trade(token, n)
    PROVE  IInv'
<1> USE DEF Trade
<1>1. /\ trades' = trades + 1 /\ paid' = paid /\ received' = received /\ untold' = untold
      /\ merge' = merge /\ completed' = completed /\ abandoned' = abandoned
      /\ positions' = positions
  BY DEF manager, network
<1>2. ASSUME NEW t \in Tokens
      PROVE  \/ /\ held'[t] = held[t]
                /\ fills'[t][1] = fills[t][1] /\ fills'[t][-1] = fills[t][-1]
             \/ /\ held'[t] = held[t] + 1
                /\ fills'[t][1] = fills[t][1] + 1 /\ fills'[t][-1] = fills[t][-1]
             \/ /\ held'[t] = held[t] - 1
                /\ fills'[t][1] = fills[t][1] /\ fills'[t][-1] = fills[t][-1] + 1
  <2>1. CASE t # token
    BY <2>1 DEF IInv, Typed
  <2>2. CASE t = token /\ n = 1
    BY <2>2, Numbers DEF IInv, Typed, Lots
  <2>3. CASE t = token /\ n = -1
    <3>1. held[t] + n = held[t] - 1
      BY <2>3, Numbers
    <3> QED
      BY <2>3, <3>1 DEF IInv, Typed, Lots
  <2> QED
    BY <2>1, <2>2, <2>3 DEF Lots
<1>3. Typed'
  <2>1. held' \in [Tokens -> Nat]
    <3>1. held[token] + n \in Nat
      BY Numbers DEF Lots
    <3> QED
      BY <3>1 DEF IInv, Typed
  <2>2. fills' \in [Tokens -> [Lots -> Nat]]
    BY DEF IInv, Typed, Lots
  <2>3. trades' \in 0 .. MaxTrades
    BY Numbers
  <2> QED
    BY <1>1, <2>1, <2>2, <2>3 DEF IInv, Typed, manager, network
<1>4. MinedNow' = MinedNow
  BY <1>1 DEF MinedNow
<1>5. FromTrades'
  <2>1. \A t \in Tokens : /\ held'[t] + paid' + fills'[t][-1] <= trades'
                          /\ fills'[t][1] <= trades'
    BY <1>1, <1>2, Numbers DEF IInv, FromTrades
  <2>2. held'["up"] + held'["down"] + 2 * paid' <= trades'
    <3>1. held'["up"] + held'["down"] <= held["up"] + held["down"] + 1
      <4>1. CASE token = "up"
        <5>1. held'["down"] = held["down"]
          BY <4>1 DEF IInv, Typed, Tokens
        <5>2. held'["up"] \in {held["up"], held["up"] + 1, held["up"] - 1}
          BY <1>2 DEF Tokens
        <5> QED
          BY <5>1, <5>2, Numbers
      <4>2. CASE token = "down"
        <5>1. held'["up"] = held["up"]
          BY <4>2 DEF IInv, Typed, Tokens
        <5>2. held'["down"] \in {held["down"], held["down"] + 1, held["down"] - 1}
          BY <1>2 DEF Tokens
        <5> QED
          BY <5>1, <5>2, Numbers
      <4> QED
        BY <4>1, <4>2 DEF Tokens
    <3>2. held'["up"] \in Nat /\ held'["down"] \in Nat
      BY <1>3 DEF Typed, Tokens
    <3> QED
      BY <1>1, <3>1, <3>2, Numbers DEF IInv, FromTrades
  <2> QED
    BY <2>1, <2>2 DEF FromTrades
<1>6. MergesOK'
  <2>1. \A a \in Nat : Pairable(a) => Pairable(a)'
    BY <1>1, Numbers DEF Pairable
  <2>2. held'["down"] <= held["down"] + 1
    BY <1>2, Numbers DEF Tokens
  <2>3. held'["down"] \in Nat
    BY <1>3 DEF Typed, Tokens
  <2>4. ASSUME merge # None, merge.phase = "half"
        PROVE  merge.amount + held'["down"] <= trades'
    <3>1. merge.amount \in Nat
      BY <2>4, MergeTypes DEF IInv, Typed
    <3> QED
      BY <1>1, <2>2, <2>3, <2>4, <3>1, Numbers DEF IInv, MergesOK
  <2>5. ASSUME merge # None, merge.phase \notin {"asked", "half"}
        PROVE  Pairable(merge.amount)'
    BY <1>1, <2>1, <2>5, MergeTypes DEF IInv, Typed, MergesOK
  <2>6. \A i \in DOMAIN completed : completed[i] \in Nat
    BY LenProperties, ElementOfSeq DEF IInv, Typed
  <2> QED
    BY <1>1, <2>1, <2>4, <2>5, <2>6 DEF IInv, Typed, MergesOK
<1>7. PositionsOK'
  <2>1. Total(completed) + MinedNow \in Nat
    BY Numbers
  <2> SUFFICES ASSUME NEW t \in Tokens
               PROVE  /\ positions[t] + fills'[t][1] <= 2 * trades'
                      /\ positions[t] - fills'[t][-1] - (Total(completed) + MinedNow)
                           >= -(trades' + paid)
    BY <1>1, <1>4 DEF PositionsOK
  <2>2. PICK p \in Int, b \in Nat, s \in Nat, w \in Nat :
           /\ p = positions[t] /\ b = fills[t][1] /\ s = fills[t][-1]
           /\ w = Total(completed) + MinedNow
    BY Numbers, <2>1
  <2>3. p + b <= 2 * trades /\ p - s - w >= -(trades + paid)
    BY <2>2 DEF IInv, PositionsOK
  <2>4. /\ fills'[t][1] \in {b, b + 1} /\ fills'[t][-1] \in {s, s + 1}
    BY <1>2, <2>2
  <2>5. PICK c \in {b, b + 1}, z \in {s, s + 1} : c = fills'[t][1] /\ z = fills'[t][-1]
    BY <2>4
  <2>6. p + c <= 2 * trades' /\ p - z - w >= -(trades' + paid)
    BY <1>1, <2>3, <2>5, Numbers
  <2> QED
    BY <2>2, <2>5, <2>6
<1>8. CreditedOnce'
  BY <1>1, <1>4 DEF IInv, CreditedOnce
<1> QED
  BY <1>3, <1>5, <1>6, <1>7, <1>8 DEF IInv

\* A step of the merge executor that burns nothing: the merge still fits, and what it
\* no longer will tell is untold.
LEMMA ExecutorStep ==
    ASSUME IInv, UNCHANGED executorOnly, requested' \in BOOLEAN,
           merge' = None \/ merge' \in Merges, Fits(merge'),
           abandoned' \subseteq Nat, \A a \in abandoned' : Pairable(a),
           untold' \in Nat, MinedNow' \in Nat,
           untold' + MinedNow' = untold + MinedNow, MinedNow' <= MinedNow
    PROVE  IInv'
<1>1. /\ held' = held /\ trades' = trades /\ paid' = paid /\ policy' = policy
      /\ positions' = positions /\ unpriced' = unpriced /\ bought' = bought
      /\ received' = received /\ fills' = fills /\ completed' = completed
  BY DEF executorOnly, chain, manager
<1>2. Typed' /\ FromTrades'
  BY <1>1 DEF IInv, Typed, FromTrades
<1>3. MergesOK'
  BY <1>1 DEF IInv, MergesOK, Fits, Pairable
<1>4. PositionsOK'
  <2> SUFFICES ASSUME NEW t \in Tokens
               PROVE  positions[t] - fills[t][-1] - (Total(completed) + MinedNow')
                        >= -(trades + paid)
    BY <1>1 DEF IInv, PositionsOK
  <2>1. PICK p \in Int, s \in Nat, w \in Nat, m \in Nat, x \in Nat :
           /\ p = positions[t] /\ s = fills[t][-1] /\ w = Total(completed)
           /\ m = MinedNow /\ x = MinedNow'
    BY Numbers
  <2>2. p - s - (w + m) >= -(trades + paid) /\ x <= m
    BY <2>1 DEF IInv, PositionsOK
  <2>3. p - s - (w + x) >= -(trades + paid)
    BY <2>2, Numbers
  <2> QED
    BY <2>1, <2>3
<1>5. CreditedOnce'
  <2>1. PICK r \in Nat, w \in Nat, u \in Nat, m \in Nat, v \in Nat, x \in Nat :
           /\ r = received /\ w = Total(completed) /\ u = untold /\ m = MinedNow
           /\ v = untold' /\ x = MinedNow'
    BY Numbers
  <2>2. r + w + u + m = paid /\ v + x = u + m
    BY <2>1 DEF IInv, CreditedOnce
  <2>3. r + w + v + x = paid
    BY <2>2
  <2> QED
    BY <1>1, <2>1, <2>3 DEF CreditedOnce
<1> QED
  BY <1>2, <1>3, <1>4, <1>5 DEF IInv


\* A fill is booked: what it adds to the position it takes from what was on its way.
LEMMA BookFillKeeps ==
    ASSUME IInv, NEW token \in Tokens, NEW n \in Lots, NEW source \in Sources,
           BookFill(token, n, source)
    PROVE  IInv'
<1> USE DEF BookFill
<1>1. /\ trades' = trades /\ paid' = paid /\ received' = received /\ untold' = untold
      /\ merge' = merge /\ completed' = completed /\ abandoned' = abandoned
      /\ held' = held /\ policy' = policy
  BY DEF chain, network
<1>2. ASSUME NEW t \in Tokens
      PROVE  \/ /\ positions'[t] = positions[t] \/ positions'[t] = positions[t] + 1
                /\ fills'[t][1] = fills[t][1] - 1 /\ fills'[t][-1] = fills[t][-1]
             \/ /\ positions'[t] = positions[t] - 1
                /\ fills'[t][1] = fills[t][1] /\ fills'[t][-1] = fills[t][-1] - 1
             \/ /\ positions'[t] = positions[t]
                /\ fills'[t][1] = fills[t][1] /\ fills'[t][-1] = fills[t][-1]
  <2>1. CASE t # token
    BY <2>1 DEF IInv, Typed
  <2>2. CASE t = token /\ n = 1
    BY <2>2 DEF IInv, Typed, Lots
  <2>3. CASE t = token /\ n = -1
    <3>1. positions[t] + n = positions[t] - 1
      BY <2>3, Numbers
    <3>2. positions'[t] = positions[t] - 1
      BY <2>3, <3>1 DEF IInv, Typed
    <3>3. fills'[t][1] = fills[t][1] /\ fills'[t][-1] = fills[t][-1] - 1
      BY <2>3 DEF IInv, Typed, Lots
    <3> QED
      BY <3>2, <3>3
  <2> QED
    BY <2>1, <2>2, <2>3 DEF Lots
<1>3. Typed'
  <2>1. fills' \in [Tokens -> [Lots -> Nat]]
    <3>1. fills[token][n] - 1 \in Nat
      BY Numbers DEF Lots
    <3> QED
      BY <3>1 DEF IInv, Typed
  <2>2. positions' \in [Tokens -> Int]
    BY DEF IInv, Typed, Lots
  <2>3. bought' \subseteq Tokens /\ unpriced' \subseteq Tokens
    BY DEF IInv, Typed
  <2>4. requested' \in BOOLEAN
    BY DEF IInv, Typed, Asked
  <2> QED
    BY <1>1, <2>1, <2>2, <2>3, <2>4 DEF IInv, Typed
<1>4. MinedNow' = MinedNow
  BY <1>1 DEF MinedNow
<1>5. FromTrades'
  BY <1>1, <1>2, Numbers DEF IInv, FromTrades
<1>6. MergesOK'
  BY <1>1 DEF IInv, MergesOK, Pairable
<1>7. PositionsOK'
  <2>1. Total(completed) + MinedNow \in Nat
    BY Numbers
  <2> SUFFICES ASSUME NEW t \in Tokens
               PROVE  /\ positions'[t] + fills'[t][1] <= 2 * trades
                      /\ positions'[t] - fills'[t][-1] - (Total(completed) + MinedNow)
                           >= -(trades + paid)
    BY <1>1, <1>4 DEF PositionsOK
  <2>2. PICK p \in Int, b \in Nat, s \in Nat, w \in Nat :
           /\ p = positions[t] /\ b = fills[t][1] /\ s = fills[t][-1]
           /\ w = Total(completed) + MinedNow
    BY Numbers, <2>1
  <2>3. p + b <= 2 * trades /\ p - s - w >= -(trades + paid)
    BY <2>2 DEF IInv, PositionsOK
  <2>4. \/ positions'[t] \in {p, p + 1} /\ fills'[t][1] = b - 1 /\ fills'[t][-1] = s
        \/ positions'[t] = p - 1 /\ fills'[t][1] = b /\ fills'[t][-1] = s - 1
        \/ positions'[t] = p /\ fills'[t][1] = b /\ fills'[t][-1] = s
    BY <1>2, <2>2
  <2>5. PICK q \in Int, c \in Int, z \in Int :
           /\ q = positions'[t] /\ c = fills'[t][1] /\ z = fills'[t][-1]
           /\ \/ q \in {p, p + 1} /\ c = b - 1 /\ z = s
              \/ q = p - 1 /\ c = b /\ z = s - 1
              \/ q = p /\ c = b /\ z = s
    BY <2>4
  <2>6. q + c <= 2 * trades /\ q - z - w >= -(trades + paid)
    BY <2>3, <2>5, Numbers
  <2> QED
    BY <2>2, <2>5, <2>6
<1>8. CreditedOnce'
  BY <1>1, <1>4 DEF IInv, CreditedOnce
<1> QED
  BY <1>3, <1>5, <1>6, <1>7, <1>8 DEF IInv

LEMMA IntentKeeps ==
    ASSUME IInv, NEW max \in Policies, Intent(max) PROVE IInv'
<1>1. /\ trades' = trades /\ paid' = paid /\ received' = received /\ untold' = untold
      /\ merge' = merge /\ completed' = completed /\ abandoned' = abandoned
      /\ held' = held /\ policy' = max /\ positions' = positions /\ fills' = fills
      /\ unpriced' = unpriced /\ bought' = bought
  BY DEF Intent, chain, manager, network
<1>2. requested' \in BOOLEAN
  BY DEF IInv, Typed, Intent, Asked
<1>3. MinedNow' = MinedNow
  BY <1>1 DEF MinedNow
<1>4. Typed' /\ FromTrades' /\ MergesOK'
  BY <1>1, <1>2 DEF IInv, Typed, FromTrades, MergesOK, Pairable
<1>5. PositionsOK' /\ CreditedOnce'
  BY <1>1, <1>3 DEF IInv, PositionsOK, CreditedOnce
<1> QED
  BY <1>4, <1>5 DEF IInv

\* A merge is booked: the positions lose the pairs the event no longer credits.
LEMMA BookMergeKeeps == ASSUME IInv, BookMerge PROVE IInv'
<1> USE DEF BookMerge
<1>1. /\ trades' = trades /\ paid' = paid /\ untold' = untold
      /\ merge' = merge /\ abandoned' = abandoned /\ fills' = fills
      /\ held' = held /\ policy' = policy /\ bought' = bought /\ requested' = requested
  BY DEF chain, network
<1>2. PICK a \in Nat, w \in Nat :
         /\ a = Head(completed) /\ w = Total(Tail(completed))
         /\ Total(completed) = a + w
  <2>1. Tail(completed) \in Seq(Nat) /\ Head(completed) \in Nat
    BY HeadTailProperties DEF IInv, Typed
  <2>2. Total(Tail(completed)) \in Nat
    BY <2>1, TotalNat
  <2> QED
    BY <2>1, <2>2, TotalTail DEF IInv, Typed
<1>3. /\ completed' = Tail(completed) /\ received' = received + a
      /\ Total(completed') = w
  BY <1>2
<1>4. ASSUME NEW t \in Tokens
      PROVE  \/ positions'[t] = positions[t] - a
             \/ positions[t] = 0 /\ positions'[t] = 0
  BY <1>2
<1>5. Typed'
  <2>1. positions' \in [Tokens -> Int]
    <3>1. positions' = [t \in Tokens |-> positions'[t]]
      OBVIOUS
    <3>2. \A t \in Tokens : positions'[t] \in Int
      BY <1>4, Numbers
    <3> QED
      BY <3>1, <3>2
  <2>2. unpriced' \subseteq Tokens
    BY DEF IInv, Typed
  <2>3. completed' \in Seq(Nat)
    BY HeadTailProperties DEF IInv, Typed
  <2>4. received' \in Nat
    BY <1>3, Numbers
  <2> QED
    BY <1>1, <2>1, <2>2, <2>3, <2>4 DEF IInv, Typed
<1>6. MinedNow' = MinedNow
  BY <1>1 DEF MinedNow
<1>7. FromTrades'
  BY <1>1 DEF IInv, FromTrades
<1>8. MergesOK'
  <2> DEFINE rest == Tail(completed)
  <2>1. \A i \in DOMAIN rest : i + 1 \in DOMAIN completed /\ rest[i] = completed[i + 1]
    BY HeadTailProperties, LenProperties DEF IInv, Typed
  <2> HIDE DEF rest
  <2>2. \A i \in DOMAIN rest : Pairable(rest[i])
    BY <2>1 DEF IInv, MergesOK
  <2>3. completed' = rest
    BY <1>3 DEF rest
  <2> QED
    BY <1>1, <2>2, <2>3 DEF IInv, MergesOK, Pairable
<1>9. PositionsOK'
  <2> SUFFICES ASSUME NEW t \in Tokens
               PROVE  /\ positions'[t] + fills[t][1] <= 2 * trades
                      /\ positions'[t] - fills[t][-1] - (w + MinedNow) >= -(trades + paid)
    BY <1>1, <1>3, <1>6 DEF PositionsOK
  <2>1. PICK p \in Int, b \in Nat, s \in Nat, m \in Nat :
           p = positions[t] /\ b = fills[t][1] /\ s = fills[t][-1] /\ m = MinedNow
    BY Numbers
  <2>2. p + b <= 2 * trades /\ p - s - ((a + w) + m) >= -(trades + paid)
    BY <1>2, <2>1 DEF IInv, PositionsOK
  <2>3. PICK q \in Int : q = positions'[t] /\ (q = p - a \/ (p = 0 /\ q = 0))
    <3>1. positions'[t] = p - a \/ (p = 0 /\ positions'[t] = 0)
      BY <1>4, <2>1
    <3>2. p - a \in Int
      OBVIOUS
    <3> QED
      BY <3>1, <3>2
  <2>4. q + b <= 2 * trades /\ q - s - (w + m) >= -(trades + paid)
    <3>1. PICK n \in Nat, d \in Nat : n = trades /\ d = paid
      BY Numbers
    <3>2. p + b <= 2 * n /\ p - s - ((a + w) + m) >= -(n + d)
      BY <2>2, <3>1
    <3>3. q + b <= 2 * n
      BY <2>3, <3>2
    <3>4. q - s - (w + m) >= -(n + d)
      BY <2>3, <3>2
    <3> QED
      BY <3>1, <3>3, <3>4
  <2> QED
    BY <2>1, <2>3, <2>4
<1>10. CreditedOnce'
  <2>1. PICK r \in Nat, u \in Nat, m \in Nat : r = received /\ u = untold /\ m = MinedNow
    BY Numbers
  <2>2. r + (a + w) + u + m = paid
    BY <1>2, <2>1 DEF IInv, CreditedOnce
  <2>3. (r + a) + w + u + m = paid
    BY <2>2
  <2>4. received' = r + a /\ Total(completed') = w /\ untold' = u /\ MinedNow' = m /\ paid' = paid
    BY <1>1, <1>3, <1>6, <2>1
  <2>5. Total(completed)' = w
    BY <2>4
  <2> QED
    BY <2>3, <2>4, <2>5, Zenon DEF CreditedOnce
<1> QED
  BY <1>5, <1>7, <1>8, <1>9, <1>10 DEF IInv

\* sync_positions writes a balance: fills and merges that are still to be booked cannot
\* take it further than the bounds.
LEMMA SyncKeeps ==
    ASSUME IInv, NEW token \in Tokens, Sync(token) PROVE IInv'
<1> USE DEF Sync
<1>1. /\ trades' = trades /\ paid' = paid /\ untold' = untold /\ received' = received
      /\ merge' = merge /\ abandoned' = abandoned /\ fills' = fills
      /\ held' = held /\ policy' = policy /\ bought' = bought /\ requested' = requested
      /\ completed' = completed
  BY DEF chain, network
<1>2. \A t \in Tokens : positions'[t] = IF t = token THEN held[t] ELSE positions[t]
  BY DEF IInv, Typed
<1>3. Typed'
  <2>1. positions' \in [Tokens -> Int]
    <3>1. held[token] \in Int
      BY Numbers
    <3> QED
      BY <3>1 DEF IInv, Typed
  <2>2. unpriced' \subseteq Tokens
    BY DEF IInv, Typed
  <2> QED
    BY <1>1, <2>1, <2>2 DEF IInv, Typed
<1>4. MinedNow' = MinedNow
  BY <1>1 DEF MinedNow
<1>5. FromTrades' /\ MergesOK' /\ CreditedOnce'
  BY <1>1, <1>4 DEF IInv, FromTrades, MergesOK, Pairable, CreditedOnce
<1>6. PositionsOK'
  <2> SUFFICES ASSUME NEW t \in Tokens
               PROVE  /\ positions'[t] + fills[t][1] <= 2 * trades
                      /\ positions'[t] - fills[t][-1] - (Total(completed) + MinedNow)
                           >= -(trades + paid)
    BY <1>1, <1>4 DEF PositionsOK
  <2>1. CASE t # token
    BY <1>2, <2>1 DEF IInv, PositionsOK
  <2>2. CASE t = token
    <3>1. PICK h \in Nat, b \in Nat, s \in Nat, w \in Nat, m \in Nat, r \in Nat, u \in Nat :
             /\ h = held[t] /\ b = fills[t][1] /\ s = fills[t][-1]
             /\ w = Total(completed) /\ m = MinedNow /\ r = received /\ u = untold
      BY Numbers
    <3>2. h + paid + s <= trades /\ b <= trades
      BY <3>1 DEF IInv, FromTrades
    <3>3. r + w + u + m = paid
      BY <3>1 DEF IInv, CreditedOnce
    <3>4. h + b <= 2 * trades /\ h - s - (w + m) >= -(trades + paid)
      BY <3>2, <3>3, Numbers
    <3>5. positions'[t] = h
      BY <1>2, <2>2, <3>1
    <3> QED
      BY <3>1, <3>4, <3>5
  <2> QED
    BY <2>1, <2>2
<1> QED
  BY <1>3, <1>5, <1>6 DEF IInv


-------------------------------------------------------------------------------
(* The merge executor and the chain *)

\* In particular one that has nothing to tell, before or after, and abandons nothing.
LEMMA QuietStep ==
    ASSUME IInv, UNCHANGED executorOnly, UNCHANGED network, requested' \in BOOLEAN,
           merge' = None \/ merge' \in Merges, Fits(merge'), MinedNow = 0, MinedNow' = 0
    PROVE  IInv'
<1>1. abandoned' = abandoned /\ untold' = untold
  BY DEF network
<1>2. abandoned' \subseteq Nat /\ \A a \in abandoned' : Pairable(a)
  BY <1>1 DEF IInv, Typed, MergesOK
<1>3. /\ untold' \in Nat /\ MinedNow' \in Nat
      /\ untold' + MinedNow' = untold + MinedNow /\ MinedNow' <= MinedNow
  BY <1>1, Numbers
<1> QED
  BY <1>2, <1>3, ExecutorStep

LEMMA TakeRequestKeeps == ASSUME IInv, TakeRequest PROVE IInv'
<1> USE DEF TakeRequest
<1>1. merge' \in Merges
  BY PairAssumption DEF Merges
<1>2. /\ merge'.phase = "asked" /\ MinedNow' = 0 /\ MinedNow = 0
      /\ requested' = FALSE
  BY <1>1, NoneAssumption DEF MinedNow
<1>3. Fits(merge')
  BY <1>2 DEF Fits
<1> QED
  BY <1>1, <1>2, <1>3, QuietStep DEF IInv, Typed

LEMMA ReadUpKeeps == ASSUME IInv, ReadUp PROVE IInv'
<1> USE DEF ReadUp
<1>1. held["up"] + held["down"] <= trades
  BY Numbers DEF IInv, FromTrades
<1>2. held["up"] \in 0 .. MaxTrades
  BY <1>1, Numbers
<1>3. merge' \in Merges
  BY <1>2 DEF Merges
<1>4. /\ merge'.phase = "half" /\ merge'.amount = held["up"]
      /\ MinedNow' = 0 /\ MinedNow = 0
      /\ requested' = requested
  BY <1>3, NoneAssumption DEF MinedNow
<1>5. Fits(merge')
  BY <1>1, <1>4 DEF Fits
<1> QED
  BY <1>3, <1>4, <1>5, QuietStep DEF IInv, Typed

\* The smaller of the two balances is at most half of all the tokens trades made, also
\* when trades came between the reads.
LEMMA ReadDownKeeps == ASSUME IInv, ReadDown PROVE IInv'
<1> DEFINE amount == Mergeable(merge.amount, held["down"])
<1>1. /\ merge \in Merges /\ merge.phase = "half"
      /\ merge' = IF amount < MinMerge THEN None ELSE [phase |-> "read", amount |-> amount]
      /\ requested' = requested
      /\ UNCHANGED executorOnly /\ UNCHANGED network
  BY DEF IInv, Typed, ReadDown
<1>2. PICK u \in Nat, d \in Nat : u = merge.amount /\ d = held["down"]
  BY <1>1, MergeTypes, Numbers
<1>3. u + d <= trades
  BY <1>1, <1>2, NoneAssumption DEF IInv, MergesOK
<1>4. PICK a \in Nat : a = amount /\ (a = u \/ a = d) /\ a <= u /\ a <= d
  <2>1. Min({u, d}) \in {u, d} /\ Min({u, d}) <= u /\ Min({u, d}) <= d
    BY MinOfTwo
  <2> QED
    BY <1>2, <2>1 DEF Mergeable
<1>5. Pairable(a) /\ a \in 0 .. MaxTrades
  BY <1>3, <1>4, Numbers DEF Pairable
<1> HIDE DEF amount
<1>6. merge' = None \/ merge' = [phase |-> "read", amount |-> a]
  BY <1>1, <1>4
<1>7. [phase |-> "read", amount |-> a] \in Merges
  BY <1>5 DEF Merges
<1>8. MinedNow' = 0 /\ MinedNow = 0
  BY <1>1, <1>6 DEF MinedNow
<1>9. Fits(merge')
  BY <1>5, <1>6 DEF Fits
<1> QED
  BY <1>1, <1>6, <1>7, <1>8, <1>9, QuietStep DEF IInv, Typed

LEMMA MergeFailsKeeps == ASSUME IInv, MergeFails PROVE IInv'
<1> USE DEF MergeFails
<1>1. /\ merge' = None /\ MinedNow' = 0 /\ MinedNow = 0
      /\ requested' = requested
  BY DEF MinedNow
<1>2. Fits(merge')
  BY <1>1 DEF Fits
<1> QED
  BY <1>1, <1>2, QuietStep DEF IInv, Typed

LEMMA SubmitKeeps == ASSUME IInv, Submit PROVE IInv'
<1> USE DEF Submit
<1>1. merge \in Merges /\ merge.amount \in 0 .. MaxTrades
  BY MergeTypes DEF IInv, Typed
<1>2. merge' = [phase |-> "waiting", amount |-> merge.amount]
  BY <1>1 DEF Merges
<1>3. merge' \in Merges /\ merge'.phase = "waiting" /\ merge'.amount = merge.amount
  BY <1>1, <1>2 DEF Merges
<1>4. /\ MinedNow' = 0 /\ MinedNow = 0
      /\ requested' = requested
  BY <1>3 DEF MinedNow
<1>5. Fits(merge')
  BY <1>3 DEF Fits, IInv, MergesOK
<1> QED
  BY <1>3, <1>4, <1>5, QuietStep DEF IInv, Typed

LEMMA SubmitAnswerLostKeeps == ASSUME IInv, SubmitAnswerLost PROVE IInv'
<1> USE DEF SubmitAnswerLost
<1>1. merge.amount \in Nat /\ Pairable(merge.amount)
  BY MergeTypes DEF IInv, Typed, MergesOK
<1>2. /\ merge' = None /\ MinedNow' = 0 /\ MinedNow = 0
      /\ untold' = untold /\ requested' = requested
  BY DEF MinedNow
<1>3. Fits(merge')
  BY <1>2 DEF Fits
<1>4. abandoned' \subseteq Nat /\ \A a \in abandoned' : Pairable(a)
  BY <1>1 DEF IInv, Typed, MergesOK
<1> QED
  BY <1>2, <1>3, <1>4, Numbers, ExecutorStep DEF IInv, Typed

LEMMA RevertedKeeps == ASSUME IInv, Reverted PROVE IInv'
<1> USE DEF Reverted
<1>1. /\ merge' = None /\ MinedNow' = 0 /\ MinedNow = 0
      /\ requested' = requested
  BY DEF MinedNow
<1>2. Fits(merge')
  BY <1>1 DEF Fits
<1> QED
  BY <1>1, <1>2, QuietStep DEF IInv, Typed

\* A merge that is given up may still be mined, or was: then nobody will tell.
LEMMA TimesOutKeeps == ASSUME IInv, TimesOut PROVE IInv'
<1> USE DEF TimesOut
<1>1. merge \in Merges /\ merge.amount \in Nat
  BY MergeTypes DEF IInv, Typed
<1>2. Pairable(merge.amount)
  BY DEF IInv, MergesOK
<1>3. merge' = None /\ MinedNow' = 0 /\ requested' = requested
  BY DEF MinedNow
<1>4. Fits(merge')
  BY <1>3 DEF Fits
<1>5. abandoned' \subseteq Nat /\ \A a \in abandoned' : Pairable(a)
  BY <1>1, <1>2 DEF IInv, Typed, MergesOK
<1>6. untold' \in Nat /\ untold' + MinedNow' = untold + MinedNow
  <2>1. CASE merge.phase = "mined"
    <3>1. untold' = untold + merge.amount /\ MinedNow = merge.amount
      BY <2>1 DEF MinedNow
    <3> QED
      BY <1>1, <1>3, <3>1, Numbers
  <2>2. CASE merge.phase # "mined"
    <3>1. untold' = untold /\ MinedNow = 0
      BY <2>2 DEF MinedNow
    <3> QED
      BY <1>3, <3>1, Numbers
  <2> QED
    BY <2>1, <2>2
<1>7. /\ UNCHANGED executorOnly /\ requested' \in BOOLEAN
      /\ MinedNow' \in Nat /\ MinedNow' <= MinedNow
  BY <1>3, Numbers DEF IInv, Typed
<1> HIDE DEF TimesOut
<1> QED
  BY <1>3, <1>4, <1>5, <1>6, <1>7, ExecutorStep

LEMMA AbandonedDroppedKeeps ==
    ASSUME IInv, NEW amount \in abandoned, AbandonedDropped(amount) PROVE IInv'
<1> USE DEF AbandonedDropped
<1>1. merge' = merge /\ MinedNow' = MinedNow /\ untold' = untold /\ requested' = requested
  BY DEF MinedNow
<1>2. Fits(merge')
  BY <1>1 DEF Fits, IInv, MergesOK
<1>3. abandoned' \subseteq Nat /\ \A a \in abandoned' : Pairable(a)
  BY DEF IInv, Typed, MergesOK
<1>4. /\ UNCHANGED executorOnly /\ requested' \in BOOLEAN
      /\ merge' = None \/ merge' \in Merges
  BY <1>1 DEF IInv, Typed
<1>5. /\ untold' \in Nat /\ MinedNow' \in Nat /\ MinedNow' <= MinedNow
      /\ untold' + MinedNow' = untold + MinedNow
  BY <1>1, Numbers
<1> HIDE DEF AbandonedDropped
<1> QED
  BY <1>2, <1>3, <1>4, <1>5, ExecutorStep

\* A merge is told: its pairs go from the executor to the queue of events.
LEMMA ConfirmedKeeps == ASSUME IInv, Confirmed PROVE IInv'
<1> USE DEF Confirmed, Success
<1>1. /\ held' = held /\ trades' = trades /\ paid' = paid /\ policy' = policy
      /\ positions' = positions /\ unpriced' = unpriced /\ bought' = bought
      /\ received' = received /\ fills' = fills /\ requested' = requested
      /\ abandoned' = abandoned /\ untold' = untold /\ merge' = None
  BY DEF chain, manager, network
<1>2. PICK a \in Nat : a = merge.amount /\ Pairable(a)
  BY MergeTypes DEF IInv, Typed, MergesOK
<1>3. MinedNow = a /\ MinedNow' = 0
  BY <1>1, <1>2 DEF MinedNow
<1>4. completed' = Append(completed, a)
  BY <1>2
<1>5. PICK w \in Nat : w = Total(completed) /\ Total(completed') = w + a
  BY <1>4, Numbers, TotalAppend DEF IInv, Typed
<1>6. Typed' /\ FromTrades'
  <2>1. completed' \in Seq(Nat)
    BY <1>4, AppendProperties DEF IInv, Typed
  <2> QED
    BY <1>1, <2>1 DEF IInv, Typed, FromTrades
<1>7. MergesOK'
  <2> DEFINE more == Append(completed, a)
  <2>1. \A i \in DOMAIN more : more[i] = a \/ (i \in DOMAIN completed /\ more[i] = completed[i])
    BY AppendProperties, LenProperties DEF IInv, Typed
  <2> HIDE DEF more
  <2>2. \A i \in DOMAIN more : Pairable(more[i])
    BY <1>2, <2>1 DEF IInv, MergesOK
  <2>3. completed' = more
    BY <1>4 DEF more
  <2> QED
    BY <1>1, <2>2, <2>3 DEF IInv, MergesOK, Pairable
<1>8. Total(completed') + MinedNow' = Total(completed) + MinedNow
  BY <1>3, <1>5
<1>9. PositionsOK'
  BY <1>1, <1>8 DEF IInv, PositionsOK
<1>10. CreditedOnce'
  <2>1. PICK r \in Nat, u \in Nat : r = received /\ u = untold
    BY Numbers
  <2>2. r + w + u + a = paid
    BY <1>3, <1>5, <2>1 DEF IInv, CreditedOnce
  <2>3. r + (w + a) + u + 0 = paid
    BY <2>2
  <2>4. received' = r /\ Total(completed)' = w + a /\ untold' = u /\ MinedNow' = 0
        /\ paid' = paid
    BY <1>1, <1>3, <1>5, <2>1
  <2> QED
    BY <2>3, <2>4, Zenon DEF CreditedOnce
<1> QED
  BY <1>6, <1>7, <1>9, <1>10 DEF IInv

\* A transaction burns pairs and pays for them; the merge under way or the untold
\* pairs account for it.
LEMMA BurnStep ==
    ASSUME IInv, NEW amount \in Nat, Burn(amount),
           merge' = None \/ merge' \in Merges,
           merge' # None => (/\ merge # None
                             /\ merge'.amount = merge.amount
                             /\ \/ merge'.phase = merge.phase
                                \/ merge.phase = "waiting"
                                   /\ merge'.phase \in {"mined", "doomed"}),
           untold' \in Nat, MinedNow' \in Nat,
           untold' + MinedNow' = untold + MinedNow + amount,
           MinedNow' <= MinedNow + amount
    PROVE  IInv'
<1>1. /\ trades' = trades /\ policy' = policy /\ positions' = positions
      /\ unpriced' = unpriced /\ bought' = bought /\ received' = received
      /\ fills' = fills /\ completed' = completed /\ requested' = requested
      /\ paid' = paid + amount /\ abandoned' = {}
  BY DEF Burn, manager
<1>2. \A t \in Tokens : held'[t] = held[t] - amount /\ amount <= held[t]
  <2>1. held \in [Tokens -> Int]
    BY DEF IInv, Typed
  <2>2. /\ Pairs(held) \in Int /\ amount <= Pairs(held)
        /\ \A t \in Tokens : Pairs(held) <= held[t]
    BY <2>1, PairsAreHeld DEF Burn
  <2>3. \A t \in Tokens : amount <= held[t]
    BY <2>2, Numbers
  <2> QED
    BY <2>3 DEF Burn
<1>3. Typed'
  <2>1. held' = [t \in Tokens |-> held'[t]]
    BY DEF Burn
  <2>2. \A t \in Tokens : held'[t] \in Nat
    BY <1>2, Numbers
  <2>3. held' \in [Tokens -> Nat] /\ paid' \in Nat
    BY <1>1, <2>1, <2>2, Numbers
  <2> QED
    BY <1>1, <2>3 DEF IInv, Typed
<1>4. FromTrades'
  <2>1. \A t \in Tokens : /\ held'[t] + paid' + fills[t][-1] <= trades
                          /\ fills[t][1] <= trades
    BY <1>1, <1>2, Numbers DEF IInv, FromTrades
  <2>2. held'["up"] + held'["down"] + 2 * paid' <= trades
    BY <1>1, <1>2, Numbers DEF IInv, FromTrades, Tokens
  <2> QED
    BY <1>1, <2>1, <2>2 DEF FromTrades
<1>5. MergesOK'
  <2>1. ASSUME merge' # None, merge'.phase = "half"
        PROVE  merge'.amount + held'["down"] <= trades
    <3>1. merge \in Merges /\ merge.phase = "half" /\ merge'.amount = merge.amount
      BY <2>1 DEF IInv, Typed
    <3>2. merge.amount \in Nat /\ merge.amount + held["down"] <= trades
      BY <2>1, <3>1, MergeTypes DEF IInv, MergesOK
    <3>3. held'["down"] = held["down"] - amount
      BY <1>2 DEF Tokens
    <3> QED
      BY <3>1, <3>2, <3>3, Numbers
  <2>2. ASSUME merge' # None, merge'.phase \notin {"asked", "half"}
        PROVE  Pairable(merge'.amount)
    <3>1. merge # None /\ merge.phase \notin {"asked", "half"} /\ merge'.amount = merge.amount
      BY <2>2
    <3> QED
      BY <3>1 DEF IInv, MergesOK
  <2> QED
    BY <1>1, <2>1, <2>2 DEF IInv, MergesOK, Pairable
<1>6. PositionsOK'
  <2> SUFFICES ASSUME NEW t \in Tokens
               PROVE  positions[t] - fills[t][-1] - (Total(completed) + MinedNow')
                        >= -(trades + (paid + amount))
    BY <1>1 DEF IInv, PositionsOK
  <2>1. PICK p \in Int, s \in Nat, w \in Nat, m \in Nat, x \in Nat :
           /\ p = positions[t] /\ s = fills[t][-1] /\ w = Total(completed)
           /\ m = MinedNow /\ x = MinedNow'
    BY Numbers
  <2>2. p - s - (w + m) >= -(trades + paid) /\ x <= m + amount
    BY <2>1 DEF IInv, PositionsOK
  <2>3. p - s - (w + x) >= -(trades + (paid + amount))
    BY <2>2, Numbers
  <2> QED
    BY <2>1, <2>3
<1>7. CreditedOnce'
  <2>1. PICK r \in Nat, w \in Nat, u \in Nat, m \in Nat, v \in Nat, x \in Nat :
           /\ r = received /\ w = Total(completed) /\ u = untold /\ m = MinedNow
           /\ v = untold' /\ x = MinedNow'
    BY Numbers
  <2>2. r + w + u + m = paid /\ v + x = u + m + amount
    BY <2>1 DEF IInv, CreditedOnce
  <2>3. r + w + v + x = paid + amount
    BY <2>2, Numbers
  <2> QED
    BY <1>1, <2>1, <2>3 DEF CreditedOnce
<1> QED
  BY <1>3, <1>4, <1>5, <1>6, <1>7 DEF IInv

LEMMA MinedKeeps == ASSUME IInv, Mined PROVE IInv'
<1> USE DEF Mined
<1>1. merge \in Merges /\ merge.amount \in 0 .. MaxTrades /\ merge.amount \in Nat
  BY MergeTypes DEF IInv, Typed
<1>2. merge' = [phase |-> "mined", amount |-> merge.amount]
  BY <1>1 DEF Merges
<1>3. merge' \in Merges /\ merge'.phase = "mined" /\ merge'.amount = merge.amount
  BY <1>1, <1>2 DEF Merges
<1>4. MinedNow = 0 /\ untold' = untold
  BY DEF MinedNow
<1>5. MinedNow' = merge.amount
  BY <1>3, NoneAssumption DEF MinedNow
<1>6. untold' + MinedNow' = untold + MinedNow + merge.amount /\ MinedNow' <= MinedNow + merge.amount
  BY <1>1, <1>4, <1>5, Numbers
<1> QED
  BY <1>1, <1>3, <1>4, <1>5, <1>6, Numbers, BurnStep

\* A transaction nobody waits for is mined: the one that is waited for is doomed.
LEMMA AbandonedMinedKeeps ==
    ASSUME IInv, NEW amount \in abandoned, AbandonedMined(amount) PROVE IInv'
<1> USE DEF AbandonedMined
<1>1. amount \in Nat /\ Burn(amount) /\ untold' = untold + amount
  BY DEF IInv, Typed
<1>2. CASE merge # None /\ merge.phase = "waiting"
  <2>1. merge \in Merges /\ merge.amount \in 0 .. MaxTrades
    BY <1>2, MergeTypes DEF IInv, Typed
  <2>2. merge' = [phase |-> "doomed", amount |-> merge.amount]
    BY <1>2, <2>1 DEF Merges
  <2>3. merge' \in Merges /\ merge'.phase = "doomed" /\ merge'.amount = merge.amount
    BY <2>1, <2>2 DEF Merges
  <2>4. MinedNow = 0 /\ MinedNow' = 0
    BY <1>2, <2>3 DEF MinedNow
  <2>5. untold' + MinedNow' = untold + MinedNow + amount /\ MinedNow' <= MinedNow + amount
        /\ untold' \in Nat /\ MinedNow' \in Nat
    BY <1>1, <2>4, Numbers
  <2> QED
    BY <1>1, <1>2, <2>3, <2>5, BurnStep
<1>3. CASE ~(merge # None /\ merge.phase = "waiting")
  <2>1. merge' = merge
    BY <1>3
  <2>2. MinedNow' = MinedNow
    BY <2>1 DEF MinedNow
  <2>3. untold' + MinedNow' = untold + MinedNow + amount /\ MinedNow' <= MinedNow + amount
        /\ untold' \in Nat /\ MinedNow' \in Nat
    <3>1. PICK u \in Nat, m \in Nat, a \in Nat : u = untold /\ m = MinedNow /\ a = amount
      BY <1>1, Numbers
    <3>2. (u + a) + m = u + m + a /\ m <= m + a /\ u + a \in Nat
      OBVIOUS
    <3> QED
      BY <1>1, <2>2, <3>1, <3>2
  <2>4. merge' = None \/ merge' \in Merges
    BY <2>1 DEF IInv, Typed
  <2> QED
    BY <1>1, <2>1, <2>3, <2>4, BurnStep
<1> QED
  BY <1>2, <1>3

LEMMA NextIInv == IInv /\ [Next]_vars => IInv'
<1> SUFFICES ASSUME IInv, [Next]_vars PROVE IInv'
  OBVIOUS
<1>1. CASE \E t \in Tokens, n \in Lots : Trade(t, n)
  BY <1>1, TradeKeeps
<1>2. CASE \E t \in Tokens, n \in Lots, source \in Sources : BookFill(t, n, source)
  BY <1>2, BookFillKeeps
<1>3. CASE \E max \in Policies : Intent(max)
  BY <1>3, IntentKeeps
<1>4. CASE BookMerge
  BY <1>4, BookMergeKeeps
<1>5. CASE \E t \in Tokens : Sync(t)
  BY <1>5, SyncKeeps
<1>6. CASE TakeRequest
  BY <1>6, TakeRequestKeeps
<1>7. CASE ReadUp
  BY <1>7, ReadUpKeeps
<1>8. CASE ReadDown
  BY <1>8, ReadDownKeeps
<1>9. CASE MergeFails
  BY <1>9, MergeFailsKeeps
<1>10. CASE Submit
  BY <1>10, SubmitKeeps
<1>11. CASE SubmitAnswerLost
  BY <1>11, SubmitAnswerLostKeeps
<1>12. CASE Confirmed
  BY <1>12, ConfirmedKeeps
<1>13. CASE Reverted
  BY <1>13, RevertedKeeps
<1>14. CASE TimesOut
  BY <1>14, TimesOutKeeps
<1>15. CASE Mined
  BY <1>15, MinedKeeps
<1>16. CASE \E a \in abandoned : AbandonedMined(a)
  BY <1>16, AbandonedMinedKeeps
<1>17. CASE \E a \in abandoned : AbandonedDropped(a)
  BY <1>17, AbandonedDroppedKeeps
<1>18. CASE UNCHANGED vars
  BY <1>18 DEF vars, chain, manager, network, IInv, Typed, FromTrades, MergesOK,
               Pairable, PositionsOK, CreditedOnce, MinedNow
<1> QED
  BY <1>1, <1>2, <1>3, <1>4, <1>5, <1>6, <1>7, <1>8, <1>9, <1>10, <1>11, <1>12,
     <1>13, <1>14, <1>15, <1>16, <1>17, <1>18 DEF Next

\* What the state of live trading's books and merges is made of, whatever is traded and
\* merged, fails, times out or is mined late: a pair takes two trades, and a position is
\* never further off than the trades and the pairs allow.
THEOREM TypeCorrectness == Spec => []TypeOK
<1>1. Init => IInv
  BY InitIInv
<1>2. IInv /\ [Next]_vars => IInv'
  BY NextIInv
<1>3. IInv => TypeOK
  BY InvTyped
<1> QED
  BY <1>1, <1>2, <1>3, PTL DEF Spec

\* Every merged pair is credited once, but for those of a transaction that was given up:
\* for any number of trades, merges, lost answers and timeouts.
THEOREM CreditSafety == Spec => []CreditedOnce
<1>1. Init => IInv
  BY InitIInv
<1>2. IInv /\ [Next]_vars => IInv'
  BY NextIInv
<1>3. IInv => CreditedOnce
  BY DEF IInv
<1> QED
  BY <1>1, <1>2, <1>3, PTL DEF Spec

-------------------------------------------------------------------------------
(* PositionSync: fill events and balance syncs of one token.  It has variables of its *)
(* own; the bound on trades, and None, are shared.                                     *)

VARIABLES balance, tokenTrades, unreported, queue, position, tokenBought, sync

Pos == INSTANCE PositionSync WITH trades <- tokenTrades, bought <- tokenBought

Unreported(source) == unreported[source][1] + unreported[source][-1]

\* A trade is in one place until it is booked.  The bound on the queue needs it, and
\* that on the balance needs to know that every lot came from a trade.
Accounted ==
    /\ Len(queue) + Unreported("poller") + Unreported("task") <= tokenTrades
    /\ balance <= tokenTrades

SyncInv == Pos!TypeOK /\ Accounted

-------------------------------------------------------------------------------

LEMMA InitSyncInv == Pos!Init => SyncInv
<1> SUFFICES ASSUME Pos!Init PROVE SyncInv
  OBVIOUS
<1>1. Len(queue) = 0 /\ queue \in Seq(Pos!Lots)
  BY DEF Pos!Init
<1>2. Pos!TypeOK
  <2>1. 0 \in 0 .. MaxTrades
    BY PairAssumption
  <2>2. unreported \in [Pos!Sources -> [Pos!Lots -> 0 .. MaxTrades]]
    BY <2>1 DEF Pos!Init
  <2>3. Len(queue) <= MaxTrades
    BY <1>1, PairAssumption
  <2> QED
    BY <1>1, <2>1, <2>2, <2>3 DEF Pos!Init, Pos!TypeOK
<1>3. \A source \in Pos!Sources, n \in Pos!Lots : unreported[source][n] = 0
  BY DEF Pos!Init
<1>4. Unreported("poller") = 0 /\ Unreported("task") = 0
  BY <1>3 DEF Unreported, Pos!Sources, Pos!Lots
<1>5. Accounted
  BY <1>1, <1>4 DEF Pos!Init, Accounted
<1> QED
  BY <1>2, <1>5 DEF SyncInv

LEMMA SyncNumbers ==
    ASSUME Pos!TypeOK
    PROVE  /\ Len(queue) \in Nat /\ MaxTrades \in Nat
           /\ balance \in Nat /\ tokenTrades \in Nat /\ tokenTrades <= MaxTrades
           /\ \A source \in Pos!Sources :
                 /\ Unreported(source) \in Nat
                 /\ \A n \in Pos!Lots : /\ unreported[source][n] \in Nat
                                   /\ unreported[source][n] <= Unreported(source)
<1>1. /\ Len(queue) \in Nat /\ MaxTrades \in Nat
      /\ balance \in Nat /\ tokenTrades \in Nat /\ tokenTrades <= MaxTrades
  BY PairAssumption DEF Pos!TypeOK
<1>2. \A source \in Pos!Sources, n \in Pos!Lots : unreported[source][n] \in Nat
  BY <1>1 DEF Pos!TypeOK
<1>3. \A source \in Pos!Sources : /\ unreported[source][1] \in Nat
                              /\ unreported[source][-1] \in Nat
  BY <1>2 DEF Pos!Lots
<1> QED
  BY <1>1, <1>2, <1>3 DEF Unreported, Pos!Lots

\* A lot more or less among the unreported ones.
LEMMA CountStep ==
    ASSUME SyncInv, NEW source \in Pos!Sources, NEW n \in Pos!Lots, NEW d \in {1, -1},
           unreported[source][n] + d \in 0 .. MaxTrades,
           unreported' = [unreported EXCEPT ![source][n] = @ + d]
    PROVE  /\ unreported' \in [Pos!Sources -> [Pos!Lots -> 0 .. MaxTrades]]
           /\ Unreported("poller")' + Unreported("task")'
                = Unreported("poller") + Unreported("task") + d
<1>1. unreported \in [Pos!Sources -> [Pos!Lots -> 0 .. MaxTrades]]
  BY DEF SyncInv, Pos!TypeOK
<1>2. unreported' \in [Pos!Sources -> [Pos!Lots -> 0 .. MaxTrades]]
  BY <1>1
<1>3. unreported'[source][n] = unreported[source][n] + d
  BY <1>1
<1>4. \A s \in Pos!Sources, m \in Pos!Lots :
        s # source \/ m # n => unreported'[s][m] = unreported[s][m]
  BY <1>1
<1>5. \A s \in Pos!Sources, m \in Pos!Lots : unreported[s][m] \in Int
  BY <1>1, PairAssumption
<1>6. \A s \in Pos!Sources : s # source => Unreported(s)' = Unreported(s)
  BY <1>4 DEF Unreported, Pos!Lots
<1>7. Unreported(source)' = Unreported(source) + d
  <2>1. CASE n = 1
    BY <1>3, <1>4, <1>5, <2>1 DEF Unreported, Pos!Lots
  <2>2. CASE n = -1
    BY <1>3, <1>4, <1>5, <2>2 DEF Unreported, Pos!Lots
  <2> QED
    BY <2>1, <2>2 DEF Pos!Lots
<1>8. \A s \in Pos!Sources : Unreported(s) \in Int
  BY <1>5 DEF Unreported, Pos!Lots
<1>9. PICK a \in Int, b \in Int :
         a = Unreported("poller") /\ b = Unreported("task")
  BY <1>8 DEF Pos!Sources
<1>10. CASE source = "poller"
  <2>1. Unreported("poller")' = a + d /\ Unreported("task")' = b
    BY <1>6, <1>7, <1>9, <1>10 DEF Pos!Sources
  <2> QED
    BY <1>2, <1>9, <2>1
<1>11. CASE source = "task"
  <2>1. Unreported("poller")' = a /\ Unreported("task")' = b + d
    BY <1>6, <1>7, <1>9, <1>11 DEF Pos!Sources
  <2> QED
    BY <1>2, <1>9, <2>1
<1> QED
  BY <1>10, <1>11 DEF Pos!Sources

LEMMA TradeSyncInv ==
    ASSUME SyncInv, NEW source \in Pos!Sources, NEW n \in Pos!Lots, Pos!Trade(source, n)
    PROVE  SyncInv'
<1>0. /\ Unreported("poller") \in Nat /\ Unreported("task") \in Nat
      /\ Len(queue) \in Nat /\ balance \in Nat /\ tokenTrades \in Nat /\ MaxTrades \in Nat
      /\ unreported[source][n] \in Nat
      /\ unreported[source][n] <= Unreported("poller") + Unreported("task")
  BY SyncNumbers DEF SyncInv, Pos!Sources
<1>1. unreported[source][n] + 1 \in 0 .. MaxTrades
  <2>1. PICK u \in Nat, p \in Nat, t \in Nat, l \in Nat :
           /\ u = unreported[source][n] /\ l = Len(queue)
           /\ p = Unreported("poller") /\ t = Unreported("task")
    BY <1>0
  <2>2. u <= p + t /\ l + p + t <= tokenTrades /\ tokenTrades < MaxTrades
    BY <1>0, <2>1 DEF Pos!Trade, SyncInv, Accounted
  <2>3. u + 1 \in 0 .. MaxTrades
    BY <1>0, <2>2
  <2> QED
    BY <2>1, <2>3, Zenon
<1>2. unreported' = [unreported EXCEPT ![source][n] = @ + 1]
  BY DEF Pos!Trade
<1>3. /\ unreported' \in [Pos!Sources -> [Pos!Lots -> 0 .. MaxTrades]]
      /\ Unreported("poller")' + Unreported("task")'
            = Unreported("poller") + Unreported("task") + 1
  BY <1>1, <1>2, CountStep
<1>4. /\ tokenTrades' = tokenTrades + 1 /\ tokenTrades' \in 0 .. MaxTrades
      /\ balance' \in Nat /\ balance' <= tokenTrades'
  <2>1. tokenTrades' = tokenTrades + 1 /\ tokenTrades < MaxTrades /\ balance' = balance + n
        /\ balance + n >= 0 /\ balance <= tokenTrades /\ n \in {1, -1}
    BY DEF Pos!Trade, SyncInv, Accounted, Pos!Lots
  <2> QED
    BY <1>0, <2>1
<1>5. UNCHANGED <<queue, position, tokenBought, sync>>
  BY DEF Pos!Trade
<1>6. Pos!TypeOK'
  BY <1>0, <1>3, <1>4, <1>5 DEF SyncInv, Pos!TypeOK
<1>7. Unreported("poller")' \in Nat /\ Unreported("task")' \in Nat
  <2>1. \A s \in Pos!Sources, m \in Pos!Lots : unreported'[s][m] \in Nat
    BY <1>0, <1>3
  <2>2. \A s \in Pos!Sources : unreported'[s][1] \in Nat /\ unreported'[s][-1] \in Nat
    BY <2>1 DEF Pos!Lots
  <2> QED
    BY <2>2 DEF Unreported, Pos!Sources
<1>8. Accounted'
  <2>1. PICK p \in Nat, t \in Nat, l \in Nat :
           l = Len(queue) /\ p = Unreported("poller") /\ t = Unreported("task")
    BY <1>0
  <2>2. PICK x \in Nat, y \in Nat :
           x = Unreported("poller")' /\ y = Unreported("task")'
    BY <1>7
  <2>3. l + p + t <= tokenTrades /\ x + y = p + t + 1 /\ Len(queue') = l
    BY <1>3, <1>5, <2>1, <2>2 DEF SyncInv, Accounted
  <2>4. PICK k \in Nat : k = tokenTrades
    BY <1>0
  <2>5. l + x + y <= k + 1
    BY <2>3, <2>4
  <2> QED
    BY <1>4, <2>2, <2>3, <2>4, <2>5 DEF Accounted
<1> QED
  BY <1>6, <1>8 DEF SyncInv

LEMMA ReportSyncInv ==
    ASSUME SyncInv, NEW source \in Pos!Sources, NEW n \in Pos!Lots, Pos!Report(source, n)
    PROVE  SyncInv'
<1>0. /\ Unreported("poller") \in Nat /\ Unreported("task") \in Nat
      /\ Len(queue) \in Nat /\ tokenTrades \in Nat /\ MaxTrades \in Nat
      /\ tokenTrades <= MaxTrades
  BY SyncNumbers DEF SyncInv, Pos!Sources
<1>1. /\ unreported' = [unreported EXCEPT ![source][n] = @ + (-1)]
      /\ unreported[source][n] + (-1) \in 0 .. MaxTrades
  <2>1. unreported[source][n] \in 0 .. MaxTrades /\ unreported[source][n] > 0
    BY DEF Pos!Report, SyncInv, Pos!TypeOK
  <2>2. unreported[source][n] + (-1) \in 0 .. MaxTrades
    BY <1>0, <2>1
  <2>3. unreported[source][n] - 1 = unreported[source][n] + (-1)
    BY <2>1
  <2> QED
    BY <2>2, <2>3 DEF Pos!Report
<1>2. /\ unreported' \in [Pos!Sources -> [Pos!Lots -> 0 .. MaxTrades]]
      /\ Unreported("poller")' + Unreported("task")'
            = Unreported("poller") + Unreported("task") + (-1)
  BY <1>1, CountStep
<1>3. queue' \in Seq(Pos!Lots) /\ Len(queue') = Len(queue) + 1
  BY DEF Pos!Report, SyncInv, Pos!TypeOK
<1>4. UNCHANGED <<balance, tokenTrades, position, tokenBought, sync>>
  BY DEF Pos!Report
<1>5. Len(queue') <= MaxTrades
  <2>1. PICK u \in Nat, p \in Nat, t \in Nat, l \in Nat :
           /\ u = unreported[source][n] /\ l = Len(queue)
           /\ p = Unreported("poller") /\ t = Unreported("task")
    BY <1>0, SyncNumbers DEF SyncInv
  <2>2. u > 0 /\ u <= p + t
    BY <2>1, SyncNumbers DEF SyncInv, Pos!Report, Pos!Sources
  <2>3. l + p + t <= tokenTrades
    BY <2>1 DEF SyncInv, Accounted
  <2>4. l + 1 <= MaxTrades
    BY <1>0, <2>2, <2>3
  <2> QED
    BY <1>3, <2>1, <2>4
<1>6. Pos!TypeOK'
  BY <1>2, <1>3, <1>4, <1>5 DEF SyncInv, Pos!TypeOK
<1>7. Unreported("poller")' \in Nat /\ Unreported("task")' \in Nat
  <2>1. \A s \in Pos!Sources, m \in Pos!Lots : unreported'[s][m] \in Nat
    BY <1>0, <1>2
  <2>2. \A s \in Pos!Sources : unreported'[s][1] \in Nat /\ unreported'[s][-1] \in Nat
    BY <2>1 DEF Pos!Lots
  <2> QED
    BY <2>2 DEF Unreported, Pos!Sources
<1>8. Accounted'
  <2>1. PICK p \in Nat, t \in Nat, l \in Nat :
           l = Len(queue) /\ p = Unreported("poller") /\ t = Unreported("task")
    BY <1>0
  <2>2. PICK x \in Nat, y \in Nat :
           x = Unreported("poller")' /\ y = Unreported("task")'
    BY <1>7
  <2>3. l + p + t <= tokenTrades /\ x + y = p + t + (-1) /\ Len(queue') = l + 1
    BY <1>2, <1>3, <2>1, <2>2 DEF SyncInv, Accounted
  <2>4. PICK k \in Nat : k = tokenTrades
    BY <1>0
  <2>5. (l + 1) + x + y <= k
    BY <2>3, <2>4
  <2>6. balance' <= tokenTrades'
    BY <1>4 DEF SyncInv, Accounted
  <2> QED
    BY <1>4, <2>2, <2>3, <2>4, <2>5, <2>6 DEF Accounted
<1> QED
  BY <1>6, <1>8 DEF SyncInv

LEMMA FillSyncInv == ASSUME SyncInv, Pos!ProcessFill PROVE SyncInv'
<1> DEFINE n      == Head(queue)
           before == IF position = None THEN [amount |-> 0, priced |-> TRUE]
                                        ELSE position
           after  == IF n > 0 /\ ~before.priced THEN before
                     ELSE [before EXCEPT !.amount = @ + n]
<1>1. /\ n \in Pos!Lots /\ queue' \in Seq(Pos!Lots) /\ Len(queue') = Len(queue) - 1
      /\ Len(queue) \in Nat
  BY DEF Pos!ProcessFill, SyncInv, Pos!TypeOK
<1>2. before \in [amount : Int, priced : BOOLEAN]
  BY DEF SyncInv, Pos!TypeOK
<1>3. after \in [amount : Int, priced : BOOLEAN]
  <2>1. n \in Int
    BY <1>1 DEF Pos!Lots
  <2> HIDE DEF n, before
  <2> QED
    BY <1>2, <2>1
<1>4. position' = None \/ position' \in [amount : Int, priced : BOOLEAN]
  <2>1. position' = IF after.amount = 0 THEN None ELSE after
    BY DEF Pos!ProcessFill
  <2> HIDE DEF after
  <2> QED
    BY <1>3, <2>1
<1>5. tokenBought' \in BOOLEAN /\ UNCHANGED <<balance, tokenTrades, unreported, sync>>
  BY <1>1 DEF Pos!ProcessFill, SyncInv, Pos!TypeOK
<1>6. Pos!TypeOK'
  BY <1>1, <1>4, <1>5, PairAssumption DEF SyncInv, Pos!TypeOK
<1>7. Accounted'
  <2>1. UNCHANGED <<Unreported("poller"), Unreported("task")>>
    BY <1>5 DEF Unreported
  <2>2. Unreported("poller") \in Nat /\ Unreported("task") \in Nat /\ tokenTrades \in Nat
    BY SyncNumbers DEF SyncInv, Pos!Sources
  <2> QED
    BY <1>1, <1>5, <2>1, <2>2 DEF SyncInv, Accounted
<1> QED
  BY <1>6, <1>7 DEF SyncInv

LEMMA SyncStepInv ==
    ASSUME SyncInv, Pos!SyncStart \/ Pos!SyncRead \/ Pos!SyncFails \/ Pos!SyncApply
    PROVE  SyncInv'
<1>1. UNCHANGED <<balance, tokenTrades, unreported, queue, tokenBought>>
  BY DEF Pos!SyncStart, Pos!SyncRead, Pos!SyncFails, Pos!SyncApply
<1>2. Pos!Amount \in Int
  BY DEF Pos!Amount, SyncInv, Pos!TypeOK
<1>3. \/ sync' = None
      \/ sync' \in [expected : Int, actual : {None} \cup 0 .. MaxTrades]
  BY <1>2 DEF Pos!SyncStart, Pos!SyncRead, Pos!SyncFails, Pos!SyncApply, SyncInv, Pos!TypeOK
<1>4. position' = None \/ position' \in [amount : Int, priced : BOOLEAN]
  <2>1. CASE Pos!SyncApply
    <3>1. sync.actual \in Int
      BY <2>1, PairAssumption DEF Pos!SyncApply, SyncInv, Pos!TypeOK
    <3> QED
      BY <2>1, <3>1 DEF Pos!SyncApply, Pos!Reconciled, SyncInv, Pos!TypeOK
  <2>2. CASE ~Pos!SyncApply
    BY <2>2 DEF Pos!SyncStart, Pos!SyncRead, Pos!SyncFails, SyncInv, Pos!TypeOK
  <2> QED
    BY <2>1, <2>2
<1> QED
  BY <1>1, <1>3, <1>4 DEF SyncInv, Pos!TypeOK, Accounted, Unreported

LEMMA NextSyncInv == SyncInv /\ [Pos!Next]_(Pos!vars) => SyncInv'
<1> SUFFICES ASSUME SyncInv, [Pos!Next]_(Pos!vars) PROVE SyncInv'
  OBVIOUS
<1>1. CASE UNCHANGED Pos!vars
  BY <1>1 DEF Pos!vars, SyncInv, Pos!TypeOK, Accounted, Unreported
<1> QED
  BY <1>1, TradeSyncInv, ReportSyncInv, FillSyncInv, SyncStepInv DEF Pos!Next

-------------------------------------------------------------------------------

\* Each trade waits in one place, so the fills on their way to the position manager
\* are never more than there were trades; the balance is never below zero.
THEOREM SyncTypeCorrectness == Pos!Spec => []Pos!TypeOK
<1>1. SyncInv => Pos!TypeOK
  BY DEF SyncInv
<1> QED
  BY <1>1, InitSyncInv, NextSyncInv, PTL DEF Pos!Spec

================================================================================
