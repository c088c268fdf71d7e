----------------------------- MODULE IngesterProofs -----------------------------
(***************************************************************************)
(* Proofs about the ingester, for any number of lists, events and crashes  *)
(* and any limits: channel, batches and flush attempts stay within their   *)
(* limits, and every event is in one place.                                *)
(***************************************************************************)
EXTENDS Ingester, FiniteSetTheorems, SequenceTheorems, TLAPS

Phases == {"connecting", "failed", "checking", "popping", "sending", "stopped"}

\* The type invariant in parts, and that a consumer that sends has something to send:
\* without that, sending the last event would not be known to end the batch.
ConsumerOK(c) ==
    /\ c \in [phase : Phases, events : Seq(Events)]
    /\ Len(c.events) <= PopBatch
    /\ c.phase = "sending" => c.events # <<>>

ConsumersOK ==
    /\ consumers \in [Queues -> [phase : Phases, events : Seq(Events)]]
    /\ \A q \in Queues : ConsumerOK(consumers[q])

FlushesOK ==
    DOMAIN flushes = Slots /\ \A s \in Slots : flushes[s] = None \/ flushes[s] \in Flush

MainOK == main \in {"running", "draining", "awaiting", "down"} /\ cancelled \in BOOLEAN

ListsOK == pushed \in 0 .. MaxEvents /\ lists \in [Queues -> Seq(Events)]

ChannelOK == channel \in Seq(Events) /\ Len(channel) <= ChannelSize

BatchOK == batch \subseteq Events /\ Cardinality(batch) < BatchSize

TableOK == table \in [Events -> 0 .. 2]

HistoryOK ==
    lost \subseteq Events /\ repeated \subseteq Events

IInv ==
    /\ ListsOK /\ ConsumersOK /\ ChannelOK /\ MainOK
    /\ BatchOK /\ FlushesOK /\ TableOK /\ HistoryOK

LEMMA IInvTypes == IInv => TypeOK
<1> SUFFICES ASSUME IInv PROVE TypeOK
  OBVIOUS
<1>1. /\ consumers \in [Queues -> [phase : Phases, events : Seq(Events)]]
      /\ \A q \in Queues : Len(consumers[q].events) <= PopBatch
  BY DEF IInv, ConsumersOK, ConsumerOK
<1>2. /\ DOMAIN flushes = Slots
      /\ \A s \in Slots : flushes[s] = None \/ flushes[s] \in Flush
  BY DEF IInv, FlushesOK
<1> QED
  BY <1>1, <1>2 DEF IInv, TypeOK, ListsOK, ChannelOK, MainOK, BatchOK, Flush, TableOK,
                    HistoryOK, Phases

-------------------------------------------------------------------------------
(* The data *)

LEMMA Limits ==
    /\ PopBatch \in Nat /\ PopBatch > 0
    /\ ChannelSize \in Nat /\ ChannelSize > 0
    /\ BatchSize \in Nat /\ BatchSize > 0
    /\ FlushMaxRetries \in Nat /\ FlushMaxRetries > 0
    /\ MaxEvents \in Nat
  BY IngesterAssumption

LEMMA MinOfTwo ==
    ASSUME NEW a \in Int, NEW b \in Int
    PROVE  /\ Min({a, b}) \in {a, b}
           /\ Min({a, b}) <= a /\ Min({a, b}) <= b
<1>1. \E x \in {a, b} : \A y \in {a, b} : x <= y
  <2>1. CASE a <= b
    BY <2>1
  <2>2. CASE b <= a
    BY <2>2
  <2> QED
    BY <2>1, <2>2
<1> QED
  BY <1>1 DEF Min

\* An LPOP takes at most a batch, and leaves the rest.
LEMMA PopSplits ==
    ASSUME NEW list \in Seq(Events)
    PROVE  LET n == Min({PopBatch, Len(list)})
           IN  /\ SubSeq(list, 1, n) \in Seq(Events)
               /\ Len(SubSeq(list, 1, n)) <= PopBatch
               /\ SubSeq(list, n + 1, Len(list)) \in Seq(Events)
<1> DEFINE n == Min({PopBatch, Len(list)})
<1>1. Len(list) \in Nat
  BY LenProperties
<1>2. n \in Nat /\ n <= PopBatch /\ n <= Len(list)
  <2>1. PopBatch \in Int /\ Len(list) \in Int
    BY <1>1, Limits
  <2>2. n \in {PopBatch, Len(list)} /\ n <= PopBatch /\ n <= Len(list)
    BY <2>1, MinOfTwo
  <2> HIDE DEF n
  <2> QED
    BY <1>1, <2>2, Limits
<1> HIDE DEF n
<1>3. \A i \in 1 .. n : list[i] \in Events
  BY <1>1, <1>2, ElementOfSeq
<1>4. \A i \in n + 1 .. Len(list) : list[i] \in Events
  BY <1>1, <1>2, ElementOfSeq
<1>5. /\ SubSeq(list, 1, n) \in Seq(Events)
      /\ Len(SubSeq(list, 1, n)) = IF 1 <= n THEN n - 1 + 1 ELSE 0
  BY <1>2, <1>3, SubSeqProperties
<1>6. SubSeq(list, n + 1, Len(list)) \in Seq(Events)
  BY <1>1, <1>2, <1>4, SubSeqProperties
<1>7. Len(SubSeq(list, 1, n)) <= PopBatch
  BY <1>2, <1>5, Limits
<1> QED
  BY <1>5, <1>6, <1>7 DEF n

LEMMA RangeType ==
    ASSUME NEW seq \in Seq(Events) PROVE Range(seq) \subseteq Events
  BY LenProperties, ElementOfSeq DEF Range

LEMMA EmptyType ==
    ASSUME NEW phase \in Phases \ {"sending"}
    PROVE  ConsumerOK(Consumer(phase, <<>>))
  BY Limits, EmptySeq DEF ConsumerOK, Consumer

LEMMA NoRows == {} \subseteq Events /\ Cardinality({}) < BatchSize
  BY Limits, FS_EmptySet

LEMMA CountType == ASSUME NEW k \in 0 .. 2 PROVE Min({k + 1, 2}) \in 0 .. 2
<1> DEFINE n == Min({k + 1, 2})
<1>1. n \in {k + 1, 2} /\ n <= 2
  BY MinOfTwo
<1> HIDE DEF n
<1>2. n \in 0 .. 2
  BY <1>1
<1> QED
  BY <1>2 DEF n

\* Inserted rows are there once or more often.
LEMMA WithRowsType ==
    ASSUME TableOK, NEW rows PROVE WithRows(rows) \in [Events -> 0 .. 2]
  BY CountType DEF TableOK, WithRows

-------------------------------------------------------------------------------
(* The steps *)

\* What is in memory is of the events.
LEMMA MemoryType ==
    ASSUME IInv PROVE InTransit \subseteq Events /\ Flushing \subseteq Events
<1>1. Range(channel) \subseteq Events
  BY RangeType DEF IInv, ChannelOK
<1>2. \A q \in Queues : Range(consumers[q].events) \subseteq Events
  BY RangeType DEF IInv, ConsumersOK, ConsumerOK
<1>3. \A s \in Slots : flushes[s] # None => flushes[s].rows \subseteq Events
  BY DEF IInv, FlushesOK, Flush
<1> QED
  BY <1>1, <1>2, <1>3 DEF InTransit, Flushing

LEMMA FreshKeeps ==
    ASSUME NEW phase \in {"running", "down"}, Fresh(phase)
    PROVE  ConsumersOK' /\ ChannelOK' /\ MainOK' /\ BatchOK' /\ FlushesOK'
<1>1. ConsumersOK'
  <2> DEFINE c == Consumer("connecting", <<>>)
  <2>1. ConsumerOK(c)
    BY EmptyType DEF Phases
  <2>2. c \in [phase : Phases, events : Seq(Events)]
    BY <2>1 DEF ConsumerOK
  <2>3. consumers' = [q \in Queues |-> c]
    BY DEF Fresh
  <2> HIDE DEF c
  <2> QED
    BY <2>1, <2>2, <2>3 DEF ConsumersOK
<1>2. ChannelOK'
  BY Limits, EmptySeq DEF Fresh, ChannelOK
<1>3. BatchOK'
  BY NoRows DEF Fresh, BatchOK
<1>4. MainOK' /\ FlushesOK'
  BY DEF Fresh, MainOK, FlushesOK
<1> QED
  BY <1>1, <1>2, <1>3, <1>4

LEMMA SpawnKeeps ==
    ASSUME FlushesOK, NEW rows \in SUBSET Events, SpawnFlush(rows)
    PROVE  FlushesOK'
<1>1. [rows |-> rows, attempt |-> 1] \in Flush
  BY Limits DEF Flush
<1> QED
  BY <1>1 DEF FlushesOK, SpawnFlush

LEMMA FlushBatchKeeps ==
    ASSUME FlushesOK, BatchOK, FlushBatch PROVE FlushesOK'
  BY SpawnKeeps DEF FlushBatch, FlushesOK, BatchOK

LEMMA CollectKeeps ==
    ASSUME IInv, Collect
    PROVE  ChannelOK' /\ BatchOK' /\ FlushesOK'
<1> DEFINE rows == batch \cup {Head(channel)}
<1>1. /\ channel # <<>> /\ channel' = Tail(channel)
      /\ IF Cardinality(rows) >= BatchSize
         THEN SpawnFlush(rows) /\ batch' = {}
         ELSE batch' = rows /\ UNCHANGED flushes
  BY DEF Collect, Remaining
<1>2. /\ Head(channel) \in Events /\ Tail(channel) \in Seq(Events)
      /\ Len(Tail(channel)) = Len(channel) - 1 /\ Len(channel) \in Nat
  BY <1>1, HeadTailProperties, LenProperties DEF IInv, ChannelOK
<1>3. ChannelOK'
  BY <1>1, <1>2, Limits DEF IInv, ChannelOK
<1>4. rows \subseteq Events /\ Cardinality(rows) \in Int
  <2>1. rows \subseteq Events
    BY <1>2 DEF IInv, BatchOK
  <2>2. IsFiniteSet(Events)
    BY Limits, FS_Interval DEF Events
  <2> QED
    BY <2>1, <2>2, FS_Subset, FS_CardinalityType
<1> HIDE DEF rows
<1>5. CASE Cardinality(rows) >= BatchSize
  BY <1>1, <1>3, <1>4, <1>5, SpawnKeeps, NoRows DEF IInv, BatchOK
<1>6. CASE ~(Cardinality(rows) >= BatchSize)
  BY <1>1, <1>3, <1>4, <1>6, Limits DEF IInv, BatchOK, FlushesOK
<1> QED
  BY <1>5, <1>6

\* A consumer's step changes that consumer.
LEMMA ConsumerKeeps ==
    ASSUME ConsumersOK, NEW q \in Queues, NEW c, ConsumerOK(c),
           consumers' = [consumers EXCEPT ![q] = c]
    PROVE  ConsumersOK'
  BY DEF ConsumersOK, ConsumerOK

LEMMA PhaseKeeps ==
    ASSUME ConsumersOK, NEW q \in Queues, NEW phase \in Phases \ {"sending"},
           consumers' = [consumers EXCEPT ![q].phase = phase]
    PROVE  ConsumersOK'
  BY DEF ConsumersOK, ConsumerOK

LEMMA ConsumerIInv ==
    ASSUME IInv, NEW q \in Queues,
           \/ Push(q) \/ \E connected \in BOOLEAN : Connect(q, connected)
           \/ CheckCancelled(q) \/ PopSucceeds(q) \/ PopFails(q) \/ Send(q)
    PROVE  IInv'
<1> USE DEF IInv
<1>1. CASE Push(q)
  <2>1. ListsOK'
    BY <1>1, Limits DEF Push, ListsOK, Events
  <2> QED
    BY <1>1, <2>1 DEF Push, process, history, ConsumersOK, ConsumerOK, ChannelOK,
       MainOK, BatchOK, FlushesOK, TableOK, HistoryOK
<1>2. CASE \E connected \in BOOLEAN : Connect(q, connected)
  <2>1. ConsumersOK'
    BY <1>2, PhaseKeeps DEF Connect, Phases
  <2> QED
    BY <1>2, <2>1 DEF Connect, history, ListsOK, ChannelOK, MainOK, BatchOK,
       FlushesOK, TableOK, HistoryOK
<1>3. CASE CheckCancelled(q)
  <2>1. ConsumersOK'
    BY <1>3, PhaseKeeps DEF CheckCancelled, Phases
  <2> QED
    BY <1>3, <2>1 DEF CheckCancelled, history, ListsOK, ChannelOK, MainOK, BatchOK,
       FlushesOK, TableOK, HistoryOK
<1>4. lists[q] \in Seq(Events)
  BY DEF ListsOK
<1>5. CASE PopSucceeds(q)
  <2> DEFINE popped == SubSeq(lists[q], 1, Min({PopBatch, Len(lists[q])}))
  <2>1. popped \in Seq(Events) /\ Len(popped) <= PopBatch
    BY <1>4, PopSplits
  <2>2. ListsOK'
    BY <1>4, <1>5, PopSplits DEF PopSucceeds, LPop, ListsOK
  <2>3. consumers' = [consumers EXCEPT ![q] = AfterPop(popped)]
    BY <1>5 DEF PopSucceeds
  <2> HIDE DEF popped
  <2>4. ConsumerOK(AfterPop(popped))
    BY <2>1, EmptyType DEF AfterPop, ConsumerOK, Consumer, Phases
  <2>5. ConsumersOK'
    BY <2>3, <2>4, ConsumerKeeps
  <2> QED
    BY <1>5, <2>2, <2>5 DEF PopSucceeds, history, ChannelOK, MainOK, BatchOK,
       FlushesOK, TableOK, HistoryOK
<1>6. CASE PopFails(q)
  <2>1. ListsOK'
    BY <1>4, <1>6, PopSplits DEF PopFails, LPop, ListsOK
  <2>2. ConsumersOK'
    BY <1>6, PhaseKeeps DEF PopFails, Phases
  <2>3. Popped(q) \subseteq Events
    BY <1>4, PopSplits, RangeType DEF Popped
  <2> QED
    BY <1>6, <2>1, <2>2, <2>3 DEF PopFails, ChannelOK, MainOK, BatchOK, FlushesOK,
       TableOK, HistoryOK
<1>7. CASE Send(q)
  <2> DEFINE events == consumers[q].events
  <2>1. /\ events \in Seq(Events) /\ events # <<>> /\ Len(events) <= PopBatch
        /\ Len(channel) < ChannelSize
        /\ channel' = Append(channel, Head(events))
        /\ consumers' = [consumers EXCEPT ![q] =
                            IF Len(events) = 1 THEN Consumer("checking", <<>>)
                            ELSE Consumer("sending", Tail(events))]
    BY <1>7 DEF Send, ConsumersOK, ConsumerOK
  <2> HIDE DEF events
  <2>2. /\ Head(events) \in Events /\ Tail(events) \in Seq(Events)
        /\ Len(Tail(events)) = Len(events) - 1
        /\ Len(events) \in Nat \ {0}
    BY <2>1, HeadTailProperties, EmptySeq
  <2>3. ChannelOK'
    BY <2>1, <2>2, Limits DEF ChannelOK
  <2> DEFINE c == IF Len(events) = 1 THEN Consumer("checking", <<>>)
                  ELSE Consumer("sending", Tail(events))
  <2>4. ConsumerOK(c)
    <3>1. CASE Len(events) = 1
      BY <3>1, EmptyType DEF Phases
    <3>2. CASE Len(events) # 1
      <4>1. Tail(events) # <<>> /\ Len(Tail(events)) <= PopBatch
        BY <2>1, <2>2, <3>2, Limits, EmptySeq
      <4> QED
        BY <2>2, <3>2, <4>1 DEF ConsumerOK, Consumer, Phases
    <3> QED
      BY <3>1, <3>2
  <2>5. consumers' = [consumers EXCEPT ![q] = c]
    BY <2>1
  <2> HIDE DEF c
  <2>6. ConsumersOK'
    BY <2>4, <2>5, ConsumerKeeps
  <2> QED
    BY <1>7, <2>3, <2>6 DEF Send, history, ListsOK, MainOK, BatchOK, FlushesOK,
       TableOK, HistoryOK
<1> QED
  BY <1>1, <1>2, <1>3, <1>5, <1>6, <1>7

LEMMA MainIInv ==
    ASSUME IInv, Receive \/ Shutdown \/ Drain \/ DrainEnds \/ Exit
    PROVE  IInv'
<1> USE DEF IInv
<1>1. CASE Receive \/ Drain
  <2>1. ChannelOK' /\ BatchOK' /\ FlushesOK'
    BY <1>1, CollectKeeps DEF Receive, Drain
  <2> QED
    BY <1>1, <2>1 DEF Receive, Drain, history, ListsOK, ConsumersOK, ConsumerOK,
       MainOK, TableOK, HistoryOK
<1>2. CASE Shutdown \/ DrainEnds
  <2>1. FlushesOK' /\ BatchOK'
    BY <1>2, FlushBatchKeeps, NoRows DEF Shutdown, DrainEnds, FlushDrained, BatchOK
  <2>2. MainOK'
    BY <1>2 DEF Shutdown, DrainEnds, MainOK
  <2> QED
    BY <1>2, <2>1, <2>2 DEF Shutdown, DrainEnds, history, ListsOK, ConsumersOK,
       ConsumerOK, ChannelOK, TableOK, HistoryOK
<1>3. CASE Exit
  <2>1. HistoryOK' /\ ListsOK' /\ TableOK'
    BY <1>3, MemoryType DEF Exit, HistoryOK, ListsOK, TableOK
  <2> QED
    BY <1>3, <2>1, FreshKeeps DEF Exit
<1> QED
  BY <1>1, <1>2, <1>3

LEMMA FlushIInv ==
    ASSUME IInv, NEW s \in Slots,
           InsertSucceeds(s) \/ \E taken \in BOOLEAN : InsertFails(s, taken)
    PROVE  IInv'
<1> USE DEF IInv
<1>1. UNCHANGED <<pushed, lists, consumers, channel, main, cancelled, batch>>
  BY DEF InsertSucceeds, InsertFails, history
<1>2. flushes[s] # None /\ flushes[s] \in Flush
  BY DEF InsertSucceeds, InsertFails, FlushesOK
<1>3. TableOK'
  BY WithRowsType DEF InsertSucceeds, InsertFails, TableOK
<1>4. lost' \subseteq Events /\ repeated' \subseteq Events
  BY <1>2 DEF InsertSucceeds, InsertFails, history, HistoryOK, Flush
<1>5. FlushesOK'
  <2>1. CASE InsertSucceeds(s)
    BY <2>1 DEF InsertSucceeds, FlushesOK
  <2>2. CASE \E taken \in BOOLEAN : InsertFails(s, taken)
    <3> DEFINE next == flushes[s].attempt + 1
    <3>1. CASE next > FlushMaxRetries + 1
      BY <2>2, <3>1 DEF InsertFails, NextAttempt, FlushesOK
    <3>2. CASE ~(next > FlushMaxRetries + 1)
      <4>1. flushes' = [flushes EXCEPT ![s].attempt = next]
        BY <2>2, <3>2 DEF InsertFails, NextAttempt
      <4>2. next \in 1 .. FlushMaxRetries + 1
        BY <1>2, <3>2, Limits DEF Flush
      <4> HIDE DEF next
      <4> QED
        BY <1>2, <4>1, <4>2 DEF FlushesOK, Flush
    <3> QED
      BY <3>1, <3>2
  <2> QED
    BY <2>1, <2>2
<1> QED
  BY <1>1, <1>3, <1>4, <1>5 DEF ListsOK, ConsumersOK, ConsumerOK, ChannelOK, MainOK,
     BatchOK, HistoryOK

LEMMA RestartIInv ==
    ASSUME IInv, Crash \/ Restart
    PROVE  IInv'
<1> USE DEF IInv
<1>1. ConsumersOK' /\ ChannelOK' /\ MainOK' /\ BatchOK' /\ FlushesOK'
  BY FreshKeeps DEF Crash, Restart
<1>2. HistoryOK'
  BY MemoryType, Limits DEF Crash, Restart, history, HistoryOK, BatchOK
<1> QED
  BY <1>1, <1>2 DEF Crash, Restart, ListsOK, TableOK

LEMMA NextIInv == IInv /\ [Next]_vars => IInv'
<1> SUFFICES ASSUME IInv, [Next]_vars PROVE IInv'
  OBVIOUS
<1>1. CASE UNCHANGED vars
  BY <1>1 DEF vars, process, history, IInv, ListsOK, ConsumersOK, ConsumerOK,
     ChannelOK, MainOK, BatchOK, FlushesOK, TableOK, HistoryOK
<1> QED
  BY <1>1, ConsumerIInv, MainIInv, FlushIInv, RestartIInv DEF Next

LEMMA InitIInv == Init => IInv
<1> SUFFICES ASSUME Init PROVE IInv
  OBVIOUS
<1>1. ConsumersOK
  <2> DEFINE c == Consumer("connecting", <<>>)
  <2>1. ConsumerOK(c)
    BY EmptyType DEF Phases
  <2>2. c \in [phase : Phases, events : Seq(Events)]
    BY <2>1 DEF ConsumerOK
  <2>3. consumers = [q \in Queues |-> c]
    BY DEF Init
  <2> HIDE DEF c
  <2> QED
    BY <2>1, <2>2, <2>3 DEF ConsumersOK
<1>2. ChannelOK /\ ListsOK
  BY Limits, EmptySeq DEF Init, ChannelOK, ListsOK
<1>3. BatchOK
  BY NoRows DEF Init, BatchOK
<1>4. MainOK /\ FlushesOK
  BY DEF Init, MainOK, FlushesOK
<1>5. TableOK
  BY DEF Init, TableOK
<1>6. HistoryOK
  BY Limits DEF Init, HistoryOK
<1> QED
  BY <1>1, <1>2, <1>3, <1>4, <1>5, <1>6 DEF IInv

-------------------------------------------------------------------------------

\* The channel and the batches never hold more than they may, whatever fails, stops or
\* starts again, and no flush makes more than FLUSH_MAX_RETRIES attempts and one.
THEOREM WithinLimits == Spec => []TypeOK
  BY IInvTypes, InitIInv, NextIInv, PTL DEF Spec

-------------------------------------------------------------------------------
(* One place for every event *)

\* The kinds of places an event can be in.
Kinds == {"nowhere", "list", "consumer", "channel", "batch", "flush", "table", "lost"}

Rows(s) == IF flushes[s] = None THEN {} ELSE flushes[s].rows

\* kind and owner tell for every event where it is; as functions they tell one place.
Located(kind, owner) ==
    /\ kind \in [Events -> Kinds]
    /\ \A e \in Events :
          /\ kind[e] = "nowhere" <=> e > pushed
          /\ kind[e] \in {"list", "consumer"} => owner[e] \in Queues
          /\ kind[e] = "flush" => owner[e] \in Slots
          /\ \A q \in Queues :
                /\ e \in Range(lists[q]) <=> (kind[e] = "list" /\ owner[e] = q)
                /\ e \in Range(consumers[q].events) <=>
                      (kind[e] = "consumer" /\ owner[e] = q)
          /\ e \in Range(channel) <=> kind[e] = "channel"
          /\ e \in batch <=> kind[e] = "batch"
          /\ \A s \in Slots : e \in Rows(s) <=> (kind[e] = "flush" /\ owner[e] = s)
          /\ e \in lost <=> kind[e] = "lost"
          /\ table[e] # 0 => kind[e] \in {"flush", "table"}
          /\ kind[e] = "table" => table[e] # 0
          /\ table[e] > 1 \/ (table[e] # 0 /\ kind[e] = "flush") => e \in repeated

\* An event is once in its list, its consumer or the channel.
Distinct ==
    /\ IsInjective(channel)
    /\ \A q \in Queues : IsInjective(lists[q]) /\ IsInjective(consumers[q].events)

\* Where nothing is: a consumer that does not send, the batch of a process that waits
\* for its flushes, and a process that is down.
Emptied ==
    /\ \A q \in Queues :
          consumers[q].phase # "sending" \/ main = "down" => consumers[q].events = <<>>
    /\ main \in {"awaiting", "down"} => batch = {}
    /\ main = "down" => channel = <<>> /\ \A s \in Slots : flushes[s] = None

PInv == IInv /\ Distinct /\ Emptied /\ \E kind, owner : Located(kind, owner)

-------------------------------------------------------------------------------
(* Sequences without repetitions *)

LEMMA InRange ==
    ASSUME NEW seq \in Seq(Events), NEW e
    PROVE  e \in Range(seq) <=> \E i \in 1 .. Len(seq) : seq[i] = e
  BY LenProperties DEF Range

LEMMA Once ==
    ASSUME NEW seq \in Seq(Events)
    PROVE  IsInjective(seq) <=>
             \A i \in 1 .. Len(seq), j \in 1 .. Len(seq) : seq[i] = seq[j] => i = j
  BY LenProperties DEF IsInjective

LEMMA NoEvents == Range(<<>>) = {} /\ IsInjective(<<>>)
  BY DEF Range, IsInjective

\* An event is added that was not there.
LEMMA Added ==
    ASSUME NEW seq \in Seq(Events), IsInjective(seq), NEW e \in Events, e \notin Range(seq)
    PROVE  /\ IsInjective(Append(seq, e))
           /\ \A x : x \in Range(Append(seq, e)) <=> x \in Range(seq) \/ x = e
<1>1. PICK all \in Seq(Events) : all = Append(seq, e)
  BY AppendProperties
<1>2. PICK n \in Nat : n = Len(seq)
  BY LenProperties
<1>3. /\ Len(all) = n + 1 /\ all[n + 1] = e
      /\ \A i \in 1 .. n : all[i] = seq[i]
  BY <1>1, <1>2, AppendProperties
<1>4. \A x : x \in Range(all) <=> x \in Range(seq) \/ x = e
  <2> SUFFICES ASSUME NEW x PROVE x \in Range(all) <=> x \in Range(seq) \/ x = e
    OBVIOUS
  <2>1. x \in Range(all) <=> \E i \in 1 .. n + 1 : all[i] = x
    BY <1>3, InRange
  <2>2. x \in Range(seq) <=> \E i \in 1 .. n : seq[i] = x
    BY <1>2, InRange
  <2> QED
    BY <1>3, <2>1, <2>2
<1>5. IsInjective(all)
  <2>1. \A i \in 1 .. n : seq[i] # e
    BY <1>2, InRange
  <2>2. \A i \in 1 .. n, j \in 1 .. n : seq[i] = seq[j] => i = j
    BY <1>2, Once
  <2>3. \A i \in 1 .. n + 1, j \in 1 .. n + 1 : all[i] = all[j] => i = j
    BY <1>3, <2>1, <2>2
  <2> QED
    BY <1>3, <2>3, Once
<1> QED
  BY <1>1, <1>4, <1>5

\* The first event is taken.
LEMMA Taken ==
    ASSUME NEW seq \in Seq(Events), IsInjective(seq), seq # <<>>
    PROVE  /\ Head(seq) \in Range(seq) /\ Head(seq) \in Events
           /\ IsInjective(Tail(seq)) /\ Tail(seq) \in Seq(Events)
           /\ \A x : x \in Range(Tail(seq)) <=> x \in Range(seq) /\ x # Head(seq)
<1>1. PICK rest \in Seq(Events), n \in Nat : rest = Tail(seq) /\ n = Len(rest)
  BY HeadTailProperties, LenProperties
<1>2. /\ Len(seq) = n + 1 /\ Head(seq) = seq[1] /\ Head(seq) \in Events
      /\ \A i \in 1 .. n : rest[i] = seq[i + 1]
  BY <1>1, HeadTailProperties, LenProperties
<1>3. \A i \in 1 .. n + 1, j \in 1 .. n + 1 : seq[i] = seq[j] => i = j
  <2>1. \A i \in 1 .. Len(seq), j \in 1 .. Len(seq) : seq[i] = seq[j] => i = j
    BY Once, Zenon
  <2> QED
    BY <1>2, <2>1, Zenon
<1>4. \A x : x \in Range(rest) <=> x \in Range(seq) /\ x # Head(seq)
  <2> SUFFICES ASSUME NEW x PROVE x \in Range(rest) <=> x \in Range(seq) /\ x # Head(seq)
    OBVIOUS
  <2>1. x \in Range(seq) <=> \E i \in 1 .. n + 1 : seq[i] = x
    BY <1>2, InRange
  <2>2. x \in Range(rest) <=> \E i \in 1 .. n : rest[i] = x
    BY <1>1, InRange
  <2>3. ASSUME x \in Range(rest) PROVE x \in Range(seq) /\ x # Head(seq)
    <3>1. PICK i \in 1 .. n : rest[i] = x
      BY <2>2, <2>3
    <3>2. i + 1 \in 1 .. n + 1 /\ 1 \in 1 .. n + 1 /\ i + 1 # 1 /\ seq[i + 1] = x
      BY <1>2, <3>1
    <3> QED
      BY <1>2, <1>3, <2>1, <3>2
  <2>4. ASSUME x \in Range(seq), x # Head(seq) PROVE x \in Range(rest)
    <3>1. PICK i \in 1 .. n + 1 : seq[i] = x
      BY <2>1, <2>4
    <3>2. i # 1
      BY <1>2, <2>4, <3>1
    <3>3. PICK j \in 1 .. n : i = j + 1
      <4>1. i - 1 \in 1 .. n /\ i = (i - 1) + 1
        BY <3>1, <3>2
      <4> QED
        BY <4>1
    <3> QED
      BY <1>2, <2>2, <3>1, <3>3
  <2> QED
    BY <2>3, <2>4
<1>5. IsInjective(rest)
  <2>1. \A i \in 1 .. n, j \in 1 .. n : rest[i] = rest[j] => i = j
    BY <1>2, <1>3
  <2> QED
    BY <1>1, <2>1, Once
<1>6. Head(seq) \in Range(seq)
  <2>1. 1 \in 1 .. Len(seq) /\ seq[1] = Head(seq)
    BY <1>2
  <2> QED
    BY <2>1, InRange
<1> QED
  BY <1>1, <1>2, <1>4, <1>5, <1>6

\* The first events are taken, and the others stay.
LEMMA Split ==
    ASSUME NEW seq \in Seq(Events), IsInjective(seq), NEW n \in 0 .. Len(seq)
    PROVE  /\ SubSeq(seq, 1, n) \in Seq(Events) /\ SubSeq(seq, n + 1, Len(seq)) \in Seq(Events)
           /\ IsInjective(SubSeq(seq, 1, n)) /\ IsInjective(SubSeq(seq, n + 1, Len(seq)))
           /\ \A x : /\ x \in Range(SubSeq(seq, 1, n)) => x \in Range(seq)
                     /\ x \in Range(SubSeq(seq, n + 1, Len(seq))) <=>
                          x \in Range(seq) /\ x \notin Range(SubSeq(seq, 1, n))
<1>1. PICK m \in Nat : m = Len(seq)
  BY LenProperties
<1>2. PICK a, b : a = SubSeq(seq, 1, n) /\ b = SubSeq(seq, n + 1, m)
  OBVIOUS
<1>3. n \in Nat /\ n <= m
  BY <1>1
<1>4. \A i \in 1 .. m : seq[i] \in Events
  BY <1>1, ElementOfSeq
<1>5. /\ a \in Seq(Events) /\ Len(a) = n
      /\ \A i \in 1 .. n : a[i] = seq[i]
  <2>1. \A i \in 1 .. n : seq[i] \in Events
    BY <1>3, <1>4
  <2>2. /\ a \in Seq(Events) /\ Len(a) = (IF 1 <= n THEN n - 1 + 1 ELSE 0)
        /\ \A i \in 1 .. n - 1 + 1 : a[i] = seq[1 + i - 1]
    BY <1>2, <1>3, <2>1, SubSeqProperties
  <2> QED
    BY <1>3, <2>2
<1>6. /\ b \in Seq(Events) /\ Len(b) = m - n
      /\ \A i \in 1 .. m - n : b[i] = seq[n + i]
  <2>1. \A i \in n + 1 .. m : seq[i] \in Events
    BY <1>3, <1>4
  <2>2. /\ b \in Seq(Events) /\ Len(b) = (IF n + 1 <= m THEN m - (n + 1) + 1 ELSE 0)
        /\ \A i \in 1 .. m - (n + 1) + 1 : b[i] = seq[n + 1 + i - 1]
    BY <1>2, <1>3, <2>1, SubSeqProperties
  <2> QED
    BY <1>3, <2>2
<1>7. \A i \in 1 .. m, j \in 1 .. m : seq[i] = seq[j] => i = j
  BY <1>1, Once
<1>8. IsInjective(a)
  <2>1. \A i \in 1 .. n, j \in 1 .. n : a[i] = a[j] => i = j
    BY <1>3, <1>5, <1>7
  <2> QED
    BY <1>5, <2>1, Once
<1>9. IsInjective(b)
  <2>1. \A i \in 1 .. m - n, j \in 1 .. m - n : b[i] = b[j] => i = j
    BY <1>3, <1>6, <1>7
  <2> QED
    BY <1>6, <2>1, Once
<1>10. ASSUME NEW x
       PROVE  /\ x \in Range(a) => x \in Range(seq)
              /\ x \in Range(b) <=> (x \in Range(seq) /\ x \notin Range(a))
  <2>1. /\ x \in Range(seq) <=> \E i \in 1 .. m : seq[i] = x
        /\ x \in Range(a) <=> \E i \in 1 .. n : a[i] = x
        /\ x \in Range(b) <=> \E i \in 1 .. m - n : b[i] = x
    BY <1>1, <1>5, <1>6, InRange
  <2>2. ASSUME x \in Range(a) PROVE x \in Range(seq)
    BY <1>3, <1>5, <2>1, <2>2
  <2>3. ASSUME x \in Range(b) PROVE x \in Range(seq) /\ x \notin Range(a)
    <3>1. PICK i \in 1 .. m - n : b[i] = x
      BY <2>1, <2>3
    <3>2. n + i \in 1 .. m /\ n + i > n /\ seq[n + i] = x
      BY <1>3, <1>6, <3>1
    <3>3. \A j \in 1 .. n : seq[j] # x
      BY <1>3, <1>7, <3>2
    <3> QED
      BY <1>5, <2>1, <3>2, <3>3
  <2>4. ASSUME x \in Range(seq), x \notin Range(a) PROVE x \in Range(b)
    <3>1. PICK i \in 1 .. m : seq[i] = x
      BY <2>1, <2>4
    <3>2. i > n
      BY <1>3, <1>5, <2>1, <2>4, <3>1
    <3>3. PICK j \in 1 .. m - n : i = n + j
      <4>1. i - n \in 1 .. m - n /\ i = n + (i - n)
        BY <1>3, <3>1, <3>2
      <4> QED
        BY <4>1
    <3> QED
      BY <1>6, <2>1, <3>1, <3>3
  <2> QED
    BY <2>2, <2>3, <2>4
<1> QED
  BY <1>1, <1>2, <1>5, <1>6, <1>8, <1>9, <1>10

-------------------------------------------------------------------------------
(* Events that move *)

\* The events of M go to one place, of kind k and of owner w.
Moves(M, k, w) ==
    /\ \/ k \in {"list", "consumer"} /\ w \in Queues
       \/ k \in {"channel", "batch"}
       \/ k = "flush" /\ w \in Slots
    /\ \A e \in Events :
          /\ e > pushed' <=> (e > pushed /\ e \notin M)
          /\ \A q \in Queues :
                /\ e \in Range(lists'[q]) <=>
                      IF e \in M THEN k = "list" /\ w = q ELSE e \in Range(lists[q])
                /\ e \in Range(consumers'[q].events) <=>
                      IF e \in M THEN k = "consumer" /\ w = q
                      ELSE e \in Range(consumers[q].events)
          /\ e \in Range(channel') <=> IF e \in M THEN k = "channel" ELSE e \in Range(channel)
          /\ e \in batch' <=> IF e \in M THEN k = "batch" ELSE e \in batch
          /\ \A s \in Slots :
                e \in Rows(s)' <=> IF e \in M THEN k = "flush" /\ w = s ELSE e \in Rows(s)
          /\ e \in lost' <=> (e \in lost /\ e \notin M)
          /\ e \notin M => table'[e] = table[e]
          /\ e \in M /\ table'[e] # 0 => k = "flush" /\ e \in repeated'
          /\ e \in repeated => e \in repeated'

\* The events of M leave the memory of the process: the table has them or they are lost.
Leaves(M) ==
    /\ pushed' = pushed
    /\ \A e \in Events :
          /\ \A q \in Queues :
                /\ e \in Range(lists'[q]) <=> (e \in Range(lists[q]) /\ e \notin M)
                /\ e \in Range(consumers'[q].events) <=>
                      (e \in Range(consumers[q].events) /\ e \notin M)
          /\ e \in Range(channel') <=> (e \in Range(channel) /\ e \notin M)
          /\ e \in batch' <=> (e \in batch /\ e \notin M)
          /\ \A s \in Slots : e \in Rows(s)' <=> (e \in Rows(s) /\ e \notin M)
          /\ e \in lost' <=> (e \in lost \/ (e \in M /\ table'[e] = 0))
          /\ e \notin M => table'[e] = table[e]
          /\ e \in M => e <= pushed /\ e \notin lost
          /\ e \in M /\ table'[e] > 1 => e \in repeated'
          /\ e \in repeated => e \in repeated'

LEMMA MovesLocates ==
    ASSUME NEW kind, NEW owner, Located(kind, owner), TableOK, TableOK',
           NEW M, NEW k, NEW w, Moves(M, k, w)
    PROVE  \E kind2, owner2 : Located(kind2, owner2)'
<1>1. PICK kind2 : kind2 = [e \in Events |-> IF e \in M THEN k ELSE kind[e]]
  OBVIOUS
<1>2. PICK owner2 : owner2 = [e \in Events |-> IF e \in M THEN w ELSE owner[e]]
  OBVIOUS
<1>3. kind2 \in [Events -> Kinds]
  BY <1>1 DEF Located, Moves, Kinds
<1>4. k # "nowhere" /\ k # "lost" /\ k # "table"
  BY DEF Moves
<1>5. ASSUME NEW e \in Events
      PROVE  /\ kind2[e] = "nowhere" <=> e > pushed'
             /\ kind2[e] \in {"list", "consumer"} => owner2[e] \in Queues
             /\ kind2[e] = "flush" => owner2[e] \in Slots
             /\ \A q \in Queues :
                   /\ e \in Range(lists'[q]) <=> (kind2[e] = "list" /\ owner2[e] = q)
                   /\ e \in Range(consumers'[q].events) <=>
                         (kind2[e] = "consumer" /\ owner2[e] = q)
             /\ e \in Range(channel') <=> kind2[e] = "channel"
             /\ e \in batch' <=> kind2[e] = "batch"
             /\ \A s \in Slots : e \in Rows(s)' <=> (kind2[e] = "flush" /\ owner2[e] = s)
             /\ e \in lost' <=> kind2[e] = "lost"
             /\ table'[e] # 0 => kind2[e] \in {"flush", "table"}
             /\ kind2[e] = "table" => table'[e] # 0
             /\ table'[e] > 1 \/ (table'[e] # 0 /\ kind2[e] = "flush") => e \in repeated'
  <2>1. table'[e] \in Nat
    BY <1>5 DEF TableOK
  <2>2. CASE e \in M
    <3>1. kind2[e] = k /\ owner2[e] = w
      BY <1>1, <1>2, <1>5, <2>2
    <3> QED
      BY <1>4, <1>5, <2>1, <2>2, <3>1 DEF Moves
  <2>3. CASE e \notin M
    <3>1. kind2[e] = kind[e] /\ owner2[e] = owner[e] /\ table'[e] = table[e]
      BY <1>1, <1>2, <1>5, <2>3 DEF Moves
    <3> QED
      BY <1>5, <2>1, <2>3, <3>1 DEF Moves, Located
  <2> QED
    BY <2>2, <2>3
<1>6. Located(kind2, owner2)'
  BY <1>3, <1>5 DEF Located
<1> QED
  BY <1>6

LEMMA LeavesLocates ==
    ASSUME NEW kind, NEW owner, Located(kind, owner), ListsOK, TableOK, TableOK',
           NEW M, Leaves(M)
    PROVE  \E kind2, owner2 : Located(kind2, owner2)'
<1>1. PICK kind2 :
        kind2 = [e \in Events |-> IF e \in M THEN IF table'[e] = 0 THEN "lost" ELSE "table"
                                  ELSE kind[e]]
  OBVIOUS
<1>2. kind2 \in [Events -> Kinds]
  BY <1>1 DEF Located, Kinds
<1>3. ASSUME NEW e \in Events
      PROVE  /\ kind2[e] = "nowhere" <=> e > pushed'
             /\ kind2[e] \in {"list", "consumer"} => owner[e] \in Queues
             /\ kind2[e] = "flush" => owner[e] \in Slots
             /\ \A q \in Queues :
                   /\ e \in Range(lists'[q]) <=> (kind2[e] = "list" /\ owner[e] = q)
                   /\ e \in Range(consumers'[q].events) <=>
                         (kind2[e] = "consumer" /\ owner[e] = q)
             /\ e \in Range(channel') <=> kind2[e] = "channel"
             /\ e \in batch' <=> kind2[e] = "batch"
             /\ \A s \in Slots : e \in Rows(s)' <=> (kind2[e] = "flush" /\ owner[e] = s)
             /\ e \in lost' <=> kind2[e] = "lost"
             /\ table'[e] # 0 => kind2[e] \in {"flush", "table"}
             /\ kind2[e] = "table" => table'[e] # 0
             /\ table'[e] > 1 \/ (table'[e] # 0 /\ kind2[e] = "flush") => e \in repeated'
  <2>1. table'[e] \in Nat /\ pushed' = pushed
    BY <1>3 DEF TableOK, Leaves
  <2>2. CASE e \in M
    <3>1. kind2[e] = IF table'[e] = 0 THEN "lost" ELSE "table"
      BY <1>1, <1>3, <2>2
    <3>2. ~(e > pushed)
      BY <1>3, <2>2, Limits DEF Leaves, ListsOK, Events
    <3> QED
      BY <1>3, <2>1, <2>2, <3>1, <3>2 DEF Leaves
  <2>3. CASE e \notin M
    <3>1. kind2[e] = kind[e] /\ table'[e] = table[e]
      BY <1>1, <1>3, <2>3 DEF Leaves
    <3> QED
      BY <1>3, <2>1, <2>3, <3>1 DEF Leaves, Located
  <2> QED
    BY <2>2, <2>3
<1>4. Located(kind2, owner)'
  BY <1>2, <1>3 DEF Located
<1> QED
  BY <1>4

-------------------------------------------------------------------------------
(* The steps of a consumer *)

\* A step that moves nothing.
LEMMA NothingMoves ==
    ASSUME PInv, UNCHANGED <<pushed, lists, channel, batch, table, lost, repeated>>,
           UNCHANGED flushes \/ \A s \in Slots : Rows(s)' = Rows(s),
           \A q \in Queues : consumers'[q].events = consumers[q].events, TableOK'
    PROVE  (\E kind, owner : Located(kind, owner)') /\ Distinct'
<1>1. PICK kind, owner : Located(kind, owner)
  BY DEF PInv
<1>2. Moves({}, "channel", None)
  BY DEF Moves, Rows
<1>3. \E kind2, owner2 : Located(kind2, owner2)'
  BY <1>1, <1>2, MovesLocates DEF PInv, IInv
<1>4. Distinct'
  BY DEF Distinct, PInv
<1> QED
  BY <1>3, <1>4

LEMMA PushPlace ==
    ASSUME PInv, NEW q \in Queues, Push(q), IInv' PROVE PInv'
<1>1. PICK kind, owner : Located(kind, owner)
  BY DEF PInv
<1>2. PICK e \in Events : e = pushed + 1
  BY Limits DEF Push, PInv, IInv, ListsOK, Events
<1>3. /\ pushed' = e /\ lists' = [lists EXCEPT ![q] = Append(lists[q], e)]
      /\ UNCHANGED <<consumers, channel, main, batch, flushes, table, lost, repeated>>
  BY <1>2 DEF Push, process, history
<1>4. pushed \in Nat /\ \A x \in Events : x \in Nat
  BY Limits DEF PInv, IInv, ListsOK, Events
<1>5. kind[e] = "nowhere"
  BY <1>1, <1>2, <1>4 DEF Located
<1>6. \A r \in Queues : lists[r] \in Seq(Events) /\ IsInjective(lists[r])
  BY DEF PInv, IInv, ListsOK, Distinct
<1>7. \A r \in Queues : lists'[r] = IF r = q THEN Append(lists[q], e) ELSE lists[r]
  BY <1>3 DEF PInv, IInv, ListsOK
<1>8. e \notin Range(lists[q])
  BY <1>1, <1>5 DEF Located
<1>9. /\ IsInjective(Append(lists[q], e))
      /\ \A x : x \in Range(Append(lists[q], e)) <=> x \in Range(lists[q]) \/ x = e
  BY <1>6, <1>8, Added
<1>10. Moves({e}, "list", q)
  <2>1. \A x \in Events : x > pushed' <=> (x > pushed /\ x \notin {e})
    BY <1>2, <1>3, <1>4
  <2>2. \A x \in Events, r \in Queues :
           x \in Range(lists'[r]) <=> IF x \in {e} THEN r = q ELSE x \in Range(lists[r])
    BY <1>1, <1>5, <1>7, <1>9 DEF Located
  <2>3. \A x \in Events :
           /\ \A r \in Queues : x = e => x \notin Range(consumers[r].events)
           /\ x = e => /\ x \notin Range(channel) /\ x \notin batch /\ x \notin lost
                       /\ table[x] = 0 /\ \A s \in Slots : x \notin Rows(s)
    BY <1>1, <1>5 DEF Located
  <2> QED
    BY <1>3, <2>1, <2>2, <2>3 DEF Moves, Rows
<1>11. \E kind2, owner2 : Located(kind2, owner2)'
  BY <1>1, <1>10, MovesLocates DEF PInv, IInv
<1>12. Distinct'
  BY <1>3, <1>6, <1>7, <1>9 DEF Distinct, PInv
<1>13. Emptied'
  BY <1>3 DEF Emptied, PInv
<1> QED
  BY <1>11, <1>12, <1>13 DEF PInv

LEMMA PhasePlace ==
    ASSUME PInv, NEW q \in Queues, IInv',
           (\E connected \in BOOLEAN : Connect(q, connected)) \/ CheckCancelled(q)
    PROVE  PInv'
<1>1. UNCHANGED <<pushed, lists, channel, main, batch, flushes, table, lost, repeated>>
  BY DEF Connect, CheckCancelled, history
<1>2. PICK phase : consumers' = [consumers EXCEPT ![q].phase = phase]
  BY DEF Connect, CheckCancelled
<1>3. consumers[q].phase # "sending" /\ main # "down"
  BY DEF Connect, CheckCancelled, Up
<1>4. \A r \in Queues : /\ consumers'[r].events = consumers[r].events
                        /\ r # q => consumers'[r] = consumers[r]
  BY <1>2 DEF PInv, IInv, ConsumersOK
<1>5. Emptied'
  BY <1>1, <1>3, <1>4 DEF PInv, Emptied
<1> QED
  BY <1>1, <1>4, <1>5, NothingMoves DEF PInv, IInv

\* What an LPOP does to a list.
LEMMA PopTakes ==
    ASSUME PInv, NEW q \in Queues, LPop(q)
    PROVE  \E n \in Nat, popped \in Seq(Events) :
              /\ n = Min({PopBatch, Len(lists[q])}) /\ popped = SubSeq(lists[q], 1, n)
              /\ IsInjective(popped)
              /\ \A x : x \in Range(popped) => x \in Range(lists[q])
              /\ \A r \in Queues :
                    /\ IsInjective(lists'[r])
                    /\ \A x : x \in Range(lists'[r]) <=>
                                x \in Range(lists[r]) /\ ~(r = q /\ x \in Range(popped))
<1>1. PICK list \in Seq(Events) : list = lists[q]
  BY DEF PInv, IInv, ListsOK
<1>2. PICK n : n = Min({PopBatch, Len(list)})
  OBVIOUS
<1>3. Len(list) \in Nat
  BY LenProperties
<1>4. n \in 0 .. Len(list)
  <2>1. n \in {PopBatch, Len(list)} /\ n <= Len(list)
    <3>1. PopBatch \in Int /\ Len(list) \in Int
      BY <1>3, Limits
    <3> QED
      BY <1>2, <3>1, MinOfTwo, Zenon
  <2> QED
    BY <1>3, <2>1, Limits
<1>5. PICK popped, rest : popped = SubSeq(list, 1, n) /\ rest = SubSeq(list, n + 1, Len(list))
  OBVIOUS
<1>6. IsInjective(list) /\ \A r \in Queues : IsInjective(lists[r])
  BY <1>1 DEF PInv, Distinct
<1>7. /\ popped \in Seq(Events) /\ IsInjective(popped) /\ IsInjective(rest)
      /\ \A x : /\ x \in Range(popped) => x \in Range(list)
                /\ x \in Range(rest) <=> x \in Range(list) /\ x \notin Range(popped)
  BY <1>4, <1>5, <1>6, Split
<1>8. \A r \in Queues : lists'[r] = IF r = q THEN rest ELSE lists[r]
  BY <1>1, <1>2, <1>5 DEF LPop, PInv, IInv, ListsOK
<1>9. \A r \in Queues :
         /\ IsInjective(lists'[r])
         /\ \A x : x \in Range(lists'[r]) <=>
                     x \in Range(lists[r]) /\ ~(r = q /\ x \in Range(popped))
  BY <1>1, <1>6, <1>7, <1>8
<1>10. n \in Nat
  BY <1>3, <1>4
<1> QED
  BY <1>1, <1>2, <1>5, <1>7, <1>9, <1>10

LEMMA PopPlace ==
    ASSUME PInv, NEW q \in Queues, PopSucceeds(q), IInv' PROVE PInv'
<1>1. PICK kind, owner : Located(kind, owner)
  BY DEF PInv
<1>2. PICK n \in Nat, popped \in Seq(Events) :
        /\ n = Min({PopBatch, Len(lists[q])}) /\ popped = SubSeq(lists[q], 1, n)
        /\ IsInjective(popped)
        /\ \A x : x \in Range(popped) => x \in Range(lists[q])
        /\ \A r \in Queues :
              /\ IsInjective(lists'[r])
              /\ \A x : x \in Range(lists'[r]) <=>
                          x \in Range(lists[r]) /\ ~(r = q /\ x \in Range(popped))
  BY PopTakes DEF PopSucceeds
<1>3. /\ UNCHANGED <<pushed, channel, main, batch, flushes, table, lost, repeated>>
      /\ consumers' = [consumers EXCEPT ![q] = AfterPop(popped)]
      /\ main # "down" /\ consumers[q].phase = "popping"
  BY <1>2 DEF PopSucceeds, LPop, Up, history
<1>4. /\ AfterPop(popped).events = popped
      /\ AfterPop(popped).phase # "sending" => popped = <<>>
  BY DEF AfterPop, Consumer
<1>5. \A r \in Queues : consumers'[r] = IF r = q THEN AfterPop(popped) ELSE consumers[r]
  BY <1>3 DEF PInv, IInv, ConsumersOK
<1>6. Range(consumers[q].events) = {}
  BY <1>3, NoEvents DEF PInv, Emptied
<1>7. \A x \in Range(popped) : kind[x] = "list" /\ owner[x] = q /\ x \in Events
  <2> SUFFICES ASSUME NEW x \in Range(popped)
               PROVE  kind[x] = "list" /\ owner[x] = q /\ x \in Events
    OBVIOUS
  <2>1. x \in Events
    BY RangeType
  <2>2. x \in Range(lists[q])
    BY <1>2
  <2> QED
    BY <1>1, <2>1, <2>2 DEF Located
<1>8. Moves(Range(popped), "consumer", q)
  <2>1. \A x \in Range(popped) : /\ ~(x > pushed)
                                 /\ \A r \in Queues : /\ x \in Range(lists[r]) <=> r = q
                                                      /\ x \notin Range(consumers[r].events)
                                 /\ x \notin Range(channel) /\ x \notin batch /\ x \notin lost
                                 /\ \A s \in Slots : x \notin Rows(s)
                                 /\ table[x] = 0
    BY <1>1, <1>7 DEF Located
  <2>2. \A x \in Events, r \in Queues :
           /\ x \in Range(lists'[r]) <=> (x \in Range(lists[r]) /\ x \notin Range(popped))
           /\ x \in Range(consumers'[r].events) <=>
                 IF x \in Range(popped) THEN r = q ELSE x \in Range(consumers[r].events)
    BY <1>2, <1>4, <1>5, <1>6, <2>1
  <2> QED
    BY <1>3, <2>1, <2>2 DEF Moves, Rows
<1>9. \E kind2, owner2 : Located(kind2, owner2)'
  BY <1>1, <1>8, MovesLocates DEF PInv, IInv
<1>10. Distinct'
  BY <1>2, <1>3, <1>4, <1>5 DEF Distinct, PInv
<1>11. Emptied'
  BY <1>3, <1>4, <1>5 DEF Emptied, PInv
<1> QED
  BY <1>9, <1>10, <1>11 DEF PInv

\* A pop that fails after it was carried out loses what it took.
LEMMA PopFailsPlace ==
    ASSUME PInv, NEW q \in Queues, PopFails(q), IInv' PROVE PInv'
<1>1. PICK kind, owner : Located(kind, owner)
  BY DEF PInv
<1>2. /\ UNCHANGED <<pushed, channel, main, batch, flushes, table, repeated>>
      /\ consumers' = [consumers EXCEPT ![q].phase = "checking"]
      /\ main # "down" /\ consumers[q].phase = "popping"
  BY DEF PopFails, Up
<1>3. \A r \in Queues : /\ consumers'[r].events = consumers[r].events
                        /\ r # q => consumers'[r] = consumers[r]
  BY <1>2 DEF PInv, IInv, ConsumersOK
<1>4. Emptied'
  BY <1>2, <1>3 DEF PInv, Emptied
<1>5. CASE UNCHANGED lists /\ UNCHANGED lost
  BY <1>2, <1>3, <1>4, <1>5, NothingMoves DEF PInv, IInv
<1>6. CASE LPop(q) /\ lost' = lost \cup Popped(q)
  <2>1. PICK n \in Nat, popped \in Seq(Events) :
          /\ n = Min({PopBatch, Len(lists[q])}) /\ popped = SubSeq(lists[q], 1, n)
          /\ IsInjective(popped)
          /\ \A x : x \in Range(popped) => x \in Range(lists[q])
          /\ \A r \in Queues :
                /\ IsInjective(lists'[r])
                /\ \A x : x \in Range(lists'[r]) <=>
                            x \in Range(lists[r]) /\ ~(r = q /\ x \in Range(popped))
    BY <1>6, PopTakes
  <2>2. Popped(q) = Range(popped)
    BY <2>1 DEF Popped
  <2>3. \A x \in Range(popped) : kind[x] = "list" /\ owner[x] = q /\ x \in Events
    <3> SUFFICES ASSUME NEW x \in Range(popped)
                 PROVE  kind[x] = "list" /\ owner[x] = q /\ x \in Events
      OBVIOUS
    <3>1. x \in Events
      BY RangeType
    <3>2. x \in Range(lists[q])
      BY <2>1
    <3> QED
      BY <1>1, <3>1, <3>2 DEF Located
  <2>4. Leaves(Range(popped))
    <3>1. \A x \in Range(popped) : /\ ~(x > pushed)
                                   /\ \A r \in Queues : /\ x \in Range(lists[r]) <=> r = q
                                                        /\ x \notin Range(consumers[r].events)
                                   /\ x \notin Range(channel) /\ x \notin batch
                                   /\ x \notin lost
                                   /\ \A s \in Slots : x \notin Rows(s)
                                   /\ table[x] = 0
      BY <1>1, <2>3 DEF Located
    <3>2. \A x \in Range(popped) : x <= pushed
      BY <2>3, <3>1, Limits DEF PInv, IInv, ListsOK, Events
    <3>3. \A x \in Events, r \in Queues :
             x \in Range(lists'[r]) <=> (x \in Range(lists[r]) /\ x \notin Range(popped))
      BY <2>1, <3>1
    <3> QED
      BY <1>2, <1>3, <1>6, <2>2, <3>1, <3>2, <3>3 DEF Leaves, Rows
  <2>5. \E kind2, owner2 : Located(kind2, owner2)'
    BY <1>1, <2>4, LeavesLocates DEF PInv, IInv
  <2>6. Distinct'
    BY <1>2, <1>3, <2>1 DEF Distinct, PInv
  <2> QED
    BY <1>4, <2>5, <2>6 DEF PInv
<1> QED
  BY <1>5, <1>6 DEF PopFails

LEMMA SendPlace ==
    ASSUME PInv, NEW q \in Queues, Send(q), IInv' PROVE PInv'
<1>1. PICK kind, owner : Located(kind, owner)
  BY DEF PInv
<1>2. PICK events \in Seq(Events) : events = consumers[q].events
  BY DEF PInv, IInv, ConsumersOK, ConsumerOK
<1>3. events # <<>> /\ IsInjective(events) /\ channel \in Seq(Events) /\ IsInjective(channel)
  BY <1>2 DEF Send, PInv, IInv, ConsumersOK, ConsumerOK, ChannelOK, Distinct
<1>4. PICK e \in Events : e = Head(events) /\ e \in Range(events)
  BY <1>3, Taken
<1>5. PICK rest \in Seq(Events) :
        /\ rest = Tail(events) /\ IsInjective(rest)
        /\ \A x : x \in Range(rest) <=> x \in Range(events) /\ x # e
  BY <1>3, <1>4, Taken
<1>6. Len(events) = 1 => rest = <<>>
  BY <1>3, <1>5, HeadTailProperties, LenProperties, EmptySeq
<1>7. /\ UNCHANGED <<pushed, lists, main, batch, flushes, table, lost, repeated>>
      /\ channel' = Append(channel, e) /\ main # "down"
      /\ consumers' = [consumers EXCEPT ![q] = IF Len(events) = 1 THEN Consumer("checking", <<>>)
                                               ELSE Consumer("sending", rest)]
  BY <1>2, <1>4, <1>5 DEF Send, Up, history
<1>8. /\ \A r \in Queues :
            consumers'[r].events = IF r = q THEN rest ELSE consumers[r].events
      /\ consumers'[q].phase # "sending" => rest = <<>>
      /\ \A r \in Queues : r # q => consumers'[r] = consumers[r]
  BY <1>6, <1>7 DEF Consumer, PInv, IInv, ConsumersOK
<1>9. kind[e] = "consumer" /\ owner[e] = q
  BY <1>1, <1>2, <1>4 DEF Located
<1>10. /\ ~(e > pushed)
       /\ \A r \in Queues : e \notin Range(lists[r])
       /\ \A r \in Queues : e \in Range(consumers[r].events) <=> r = q
       /\ e \notin Range(channel) /\ e \notin batch /\ e \notin lost
       /\ \A s \in Slots : e \notin Rows(s)
       /\ table[e] = 0
  BY <1>1, <1>9 DEF Located
<1>11. /\ IsInjective(channel')
       /\ \A x : x \in Range(channel') <=> x \in Range(channel) \/ x = e
  BY <1>3, <1>7, <1>10, Added
<1>12. Moves({e}, "channel", q)
  <2>1. \A x \in Events, r \in Queues :
           x \in Range(consumers'[r].events) <=>
              (x # e /\ x \in Range(consumers[r].events))
    BY <1>2, <1>5, <1>8, <1>10
  <2> QED
    BY <1>7, <1>10, <1>11, <2>1 DEF Moves, Rows
<1>13. \E kind2, owner2 : Located(kind2, owner2)'
  BY <1>1, <1>12, MovesLocates DEF PInv, IInv
<1>14. Distinct'
  BY <1>5, <1>7, <1>8, <1>11 DEF Distinct, PInv
<1>15. Emptied'
  BY <1>7, <1>8 DEF Emptied, PInv
<1> QED
  BY <1>13, <1>14, <1>15 DEF PInv

-------------------------------------------------------------------------------
(* The steps of the main loop *)

\* What a location means for an event in memory.
LEMMA OnlyThere ==
    ASSUME PInv, NEW kind, NEW owner, Located(kind, owner), NEW e \in Events,
           kind[e] \in {"list", "consumer", "channel", "batch"}
    PROVE  /\ e <= pushed /\ ~(e > pushed) /\ table[e] = 0 /\ e \notin lost
           /\ \A s \in Slots : e \notin Rows(s)
           /\ kind[e] # "list" => \A q \in Queues : e \notin Range(lists[q])
           /\ kind[e] # "consumer" => \A q \in Queues : e \notin Range(consumers[q].events)
           /\ kind[e] # "channel" => e \notin Range(channel)
           /\ kind[e] # "batch" => e \notin batch
<1>1. ~(e > pushed)
  BY DEF Located
<1>2. e <= pushed
  BY <1>1, Limits DEF PInv, IInv, ListsOK, Events
<1> QED
  BY <1>1, <1>2 DEF Located

\* A flush that starts holds its rows.
LEMMA SpawnRows ==
    ASSUME FlushesOK, NEW rows \in SUBSET Events, SpawnFlush(rows)
    PROVE  \E s \in Slots :
              /\ Rows(s) = {}
              /\ \A r \in Slots : Rows(r)' = IF r = s THEN rows ELSE Rows(r)
<1>1. PICK s \in Slots : /\ flushes[s] = None
                         /\ flushes' = [flushes EXCEPT ![s] = [rows |-> rows, attempt |-> 1]]
  BY DEF SpawnFlush
<1>2. PICK f : f = [rows |-> rows, attempt |-> 1]
  OBVIOUS
<1>3. f \in Flush /\ f.rows = rows
  BY <1>2, Limits DEF Flush
<1>4. f # None
  BY <1>3, NoneAssumption
<1>5. \A r \in Slots : flushes'[r] = IF r = s THEN f ELSE flushes[r]
  BY <1>1, <1>2 DEF FlushesOK
<1>6. \A r \in Slots : Rows(r)' = IF r = s THEN rows ELSE Rows(r)
  BY <1>3, <1>4, <1>5 DEF Rows
<1> QED
  BY <1>1, <1>6 DEF Rows

LEMMA CollectPlace ==
    ASSUME PInv, Receive \/ Drain, IInv' PROVE PInv'
<1>1. PICK kind, owner : Located(kind, owner)
  BY DEF PInv
<1>2. /\ channel # <<>> /\ channel \in Seq(Events) /\ IsInjective(channel)
      /\ Collect
  BY DEF Receive, Drain, Collect, PInv, IInv, ChannelOK, Distinct
<1>3. PICK e \in Events, rest \in Seq(Events) :
        /\ e = Head(channel) /\ e \in Range(channel)
        /\ rest = Tail(channel) /\ IsInjective(rest)
        /\ \A x : x \in Range(rest) <=> x \in Range(channel) /\ x # e
  <2>1. PICK e \in Events : e = Head(channel) /\ e \in Range(channel)
    BY <1>2, Taken
  <2>2. PICK rest \in Seq(Events) :
          /\ rest = Tail(channel) /\ IsInjective(rest)
          /\ \A x : x \in Range(rest) <=> x \in Range(channel) /\ x # e
    BY <1>2, <2>1, Taken
  <2> QED
    BY <2>1, <2>2
<1>4. PICK rows : rows = batch \cup {e}
  OBVIOUS
<1>5. /\ UNCHANGED <<pushed, lists, consumers, main, table, lost, repeated>>
      /\ channel' = rest /\ main \notin {"awaiting", "down"}
      /\ \/ SpawnFlush(rows) /\ batch' = {}
         \/ batch' = rows /\ UNCHANGED flushes
  BY <1>2, <1>3, <1>4 DEF Receive, Drain, Collect, Remaining, history
<1>6. kind[e] = "channel" /\ \A x \in batch : kind[x] = "batch" /\ x \in Events
  BY <1>1, <1>3 DEF Located, PInv, IInv, BatchOK
<1>7. rows \in SUBSET Events
  BY <1>4, <1>6
<1>8. \A x \in rows :
         /\ ~(x > pushed) /\ table[x] = 0 /\ x \notin lost
         /\ \A s \in Slots : x \notin Rows(s)
         /\ \A q \in Queues : x \notin Range(lists[q]) /\ x \notin Range(consumers[q].events)
  BY <1>1, <1>4, <1>6, OnlyThere
<1>9. \A x \in Events : /\ x \in Range(channel') <=> (x \in Range(channel) /\ x # e)
                        /\ x \in batch => x \notin Range(channel)
  BY <1>1, <1>3, <1>5 DEF Located
<1>10. \E kind2, owner2 : Located(kind2, owner2)'
  <2>1. CASE SpawnFlush(rows) /\ batch' = {}
    <3>1. PICK s \in Slots :
            Rows(s) = {} /\ \A r \in Slots : Rows(r)' = IF r = s THEN rows ELSE Rows(r)
      BY <1>7, <2>1, SpawnRows DEF PInv, IInv
    <3>2. Moves(rows, "flush", s)
      <4>1. \A x \in Events, r \in Slots :
               x \in Rows(r)' <=> IF x \in rows THEN s = r ELSE x \in Rows(r)
        BY <1>8, <3>1
      <4>2. \A x \in Events : /\ x \in Range(channel') <=> x \notin rows /\ x \in Range(channel)
                              /\ x \in batch' <=> x \notin rows /\ x \in batch
        BY <1>4, <1>9, <2>1
      <4> QED
        BY <1>5, <1>8, <4>1, <4>2 DEF Moves
    <3> QED
      BY <1>1, <3>2, MovesLocates DEF PInv, IInv
  <2>2. CASE batch' = rows /\ UNCHANGED flushes
    <3>1. e \in rows
      BY <1>4
    <3>2. Moves({e}, "batch", None)
      <4>1. \A x \in Events : x \in batch' <=> x = e \/ x \in batch
        BY <1>4, <2>2
      <4> QED
        BY <1>5, <1>8, <1>9, <2>2, <3>1, <4>1 DEF Moves, Rows
    <3> QED
      BY <1>1, <3>2, MovesLocates DEF PInv, IInv
  <2> QED
    BY <1>5, <2>1, <2>2
<1>11. Distinct'
  BY <1>3, <1>5 DEF Distinct, PInv
<1>12. Emptied'
  BY <1>5 DEF Emptied, PInv
<1> QED
  BY <1>10, <1>11, <1>12 DEF PInv

\* The batch under way is flushed.
LEMMA FlushPlace ==
    ASSUME PInv, Shutdown \/ DrainEnds, IInv' PROVE PInv'
<1>1. PICK kind, owner : Located(kind, owner)
  BY DEF PInv
<1>2. /\ UNCHANGED <<pushed, lists, consumers, channel, table, lost, repeated>>
      /\ FlushBatch /\ batch' = {} /\ main' \in {"draining", "awaiting"} /\ main # "down"
  BY DEF Shutdown, DrainEnds, FlushDrained, history
<1>3. Emptied'
  BY <1>2 DEF Emptied, PInv
<1>4. CASE batch = {}
  <2>1. UNCHANGED <<batch, flushes>>
    BY <1>2, <1>4 DEF FlushBatch
  <2> QED
    BY <1>2, <1>3, <2>1, NothingMoves DEF PInv, IInv
<1>5. CASE batch # {}
  <2>1. batch \in SUBSET Events /\ SpawnFlush(batch)
    BY <1>2, <1>5 DEF FlushBatch, PInv, IInv, BatchOK
  <2>2. PICK s \in Slots :
          Rows(s) = {} /\ \A r \in Slots : Rows(r)' = IF r = s THEN batch ELSE Rows(r)
    BY <2>1, SpawnRows DEF PInv, IInv
  <2>3. \A x \in batch : kind[x] = "batch" /\ x \in Events
    BY <1>1, <2>1 DEF Located
  <2>4. \A x \in batch :
           /\ ~(x > pushed) /\ table[x] = 0 /\ x \notin lost /\ x \notin Range(channel)
           /\ \A r \in Slots : x \notin Rows(r)
           /\ \A q \in Queues : x \notin Range(lists[q]) /\ x \notin Range(consumers[q].events)
    BY <1>1, <2>3, OnlyThere
  <2>5. \A x \in Events, r \in Slots :
           x \in Rows(r)' <=> IF x \in batch THEN s = r ELSE x \in Rows(r)
    BY <2>2, <2>4
  <2>6. Moves(batch, "flush", s)
    BY <1>2, <2>4, <2>5 DEF Moves
  <2>7. \E kind2, owner2 : Located(kind2, owner2)'
    BY <1>1, <2>6, MovesLocates DEF PInv, IInv
  <2>8. Distinct'
    BY <1>2 DEF Distinct, PInv
  <2> QED
    BY <1>3, <2>7, <2>8 DEF PInv
<1> QED
  BY <1>4, <1>5

\* A fresh process holds nothing.
LEMMA FreshHolds ==
    ASSUME NEW phase, Fresh(phase)
    PROVE  /\ channel' = <<>> /\ Range(channel') = {} /\ IsInjective(channel')
           /\ batch' = {} /\ \A s \in Slots : Rows(s)' = {} /\ flushes'[s] = None
           /\ \A q \in Queues : /\ consumers'[q].events = <<>>
                                /\ Range(consumers'[q].events) = {}
                                /\ IsInjective(consumers'[q].events)
  BY NoEvents DEF Fresh, Consumer, Rows

LEMMA TransitRange ==
    ASSUME NEW e
    PROVE  e \in InTransit <=>
             e \in Range(channel) \/ \E q \in Queues : e \in Range(consumers[q].events)
  BY DEF InTransit

LEMMA FlushingRows == \A e : e \in Flushing <=> \E s \in Slots : e \in Rows(s)
  BY DEF Flushing, Rows

LEMMA ExitPlace ==
    ASSUME PInv, Exit, IInv' PROVE PInv'
<1>1. PICK kind, owner : Located(kind, owner)
  BY DEF PInv
<1>2. /\ UNCHANGED <<pushed, lists, table, repeated>> /\ lost' = lost \cup InTransit
      /\ Fresh("down") /\ \A s \in Slots : flushes[s] = None
      /\ main = "awaiting"
  BY DEF Exit
<1>3. batch = {} /\ \A s \in Slots : Rows(s) = {}
  BY <1>2 DEF PInv, Emptied, Rows
<1>4. InTransit \subseteq Events
  BY MemoryType DEF PInv
<1>5. \A x \in InTransit : kind[x] \in {"channel", "consumer"}
  BY <1>1, <1>4, TransitRange DEF Located
<1>6. \A x \in InTransit :
         /\ x <= pushed /\ table[x] = 0 /\ x \notin lost
         /\ \A q \in Queues : x \notin Range(lists[q])
  BY <1>1, <1>4, <1>5, OnlyThere
<1>7. Leaves(InTransit)
  <2>1. \A x \in Events : /\ x \in Range(channel) => x \in InTransit
                          /\ \A q \in Queues : x \in Range(consumers[q].events) => x \in InTransit
    BY TransitRange
  <2> QED
    BY <1>2, <1>3, <1>6, <2>1, FreshHolds DEF Leaves
<1>8. \E kind2, owner2 : Located(kind2, owner2)'
  BY <1>1, <1>7, LeavesLocates DEF PInv, IInv
<1>9. Distinct'
  BY <1>2, FreshHolds DEF Distinct, PInv
<1>10. Emptied'
  BY <1>2, FreshHolds DEF Emptied
<1> QED
  BY <1>8, <1>9, <1>10 DEF PInv

LEMMA CrashPlace ==
    ASSUME PInv, Crash, IInv' PROVE PInv'
<1>1. PICK kind, owner : Located(kind, owner)
  BY DEF PInv
<1>2. PICK held : held = InTransit \cup batch \cup Flushing
  OBVIOUS
<1>3. /\ UNCHANGED <<pushed, lists, table, repeated>>
      /\ lost' = lost \cup {e \in held : table[e] = 0} /\ Fresh("down")
  BY <1>2 DEF Crash
<1>4. held \subseteq Events
  BY <1>2, MemoryType DEF PInv, IInv, BatchOK
<1>5. \A x \in Events : /\ x \in Range(channel) => x \in held
                        /\ \A q \in Queues : x \in Range(consumers[q].events) => x \in held
                        /\ x \in batch => x \in held
                        /\ \A s \in Slots : x \in Rows(s) => x \in held
  BY <1>2, TransitRange, FlushingRows
<1>6. \A x \in held : kind[x] \in {"channel", "consumer", "batch", "flush"}
  BY <1>1, <1>2, <1>4, TransitRange, FlushingRows DEF Located
<1>7. \A x \in held : /\ x <= pushed /\ x \notin lost
                      /\ \A q \in Queues : x \notin Range(lists[q])
                      /\ table[x] > 1 => x \in repeated
  <2> SUFFICES ASSUME NEW x \in held
               PROVE  /\ x <= pushed /\ x \notin lost
                      /\ \A q \in Queues : x \notin Range(lists[q])
                      /\ table[x] > 1 => x \in repeated
    OBVIOUS
  <2>1. ~(x > pushed) /\ x \in Nat /\ pushed \in Nat
    BY <1>1, <1>4, <1>6, Limits DEF Located, PInv, IInv, ListsOK, Events
  <2>2. kind[x] \in {"channel", "consumer", "batch", "flush"} /\ x \in Events
    BY <1>4, <1>6
  <2>3. x \notin lost /\ (\A q \in Queues : x \notin Range(lists[q]))
        /\ (table[x] > 1 => x \in repeated)
    BY <1>1, <2>2 DEF Located
  <2> QED
    BY <2>1, <2>3
<1>8. Leaves(held)
  BY <1>3, <1>5, <1>7, FreshHolds DEF Leaves
<1>9. \E kind2, owner2 : Located(kind2, owner2)'
  BY <1>1, <1>8, LeavesLocates DEF PInv, IInv
<1>10. Distinct'
  BY <1>3, FreshHolds DEF Distinct, PInv
<1>11. Emptied'
  BY <1>3, FreshHolds DEF Emptied
<1> QED
  BY <1>9, <1>10, <1>11 DEF PInv

LEMMA RestartPlace ==
    ASSUME PInv, Restart, IInv' PROVE PInv'
<1>1. /\ UNCHANGED <<pushed, lists, table, lost, repeated>>
      /\ Fresh("running") /\ main = "down"
  BY DEF Restart, history
<1>2. /\ channel = <<>> /\ batch = {} /\ \A s \in Slots : flushes[s] = None
      /\ \A q \in Queues : consumers[q].events = <<>>
  BY <1>1 DEF PInv, Emptied
<1>3. \A s \in Slots : Rows(s)' = Rows(s)
  BY <1>1, <1>2, FreshHolds DEF Rows
<1>4. /\ UNCHANGED <<channel, batch>>
      /\ \A q \in Queues : consumers'[q].events = consumers[q].events
  BY <1>1, <1>2, FreshHolds
<1>5. Emptied'
  BY <1>1, FreshHolds DEF Emptied
<1> QED
  BY <1>1, <1>3, <1>4, <1>5, NothingMoves DEF PInv, IInv

-------------------------------------------------------------------------------
(* The steps of a flush *)

\* Inserted rows are in the table, twice only if it had them before.
LEMMA Inserted ==
    ASSUME TableOK, NEW rows, NEW e \in Events
    PROVE  /\ e \in rows => WithRows(rows)[e] # 0 /\ (WithRows(rows)[e] > 1 => table[e] # 0)
           /\ e \notin rows => WithRows(rows)[e] = table[e]
<1>1. PICK k \in 0 .. 2 : k = table[e]
  BY DEF TableOK
<1>2. PICK n : n = Min({k + 1, 2})
  OBVIOUS
<1>3. n # 0 /\ (n > 1 => k # 0)
  <2>1. PICK m \in Int : m = k + 1
    BY <1>1
  <2>2. n \in {m, 2} /\ n <= m
    BY <1>2, <2>1, MinOfTwo
  <2> QED
    BY <1>1, <2>1, <2>2
<1> QED
  BY <1>1, <1>2, <1>3 DEF WithRows

LEMMA FlushEnds ==
    ASSUME PInv, NEW s \in Slots, flushes[s] # None, IInv',
           UNCHANGED <<pushed, lists, consumers, channel, main, batch>>,
           flushes' = [flushes EXCEPT ![s] = None],
           lost' = lost \cup {e \in Rows(s) : table'[e] = 0},
           \A e \in Events : e \notin Rows(s) => table'[e] = table[e],
           \A e \in Rows(s) : table'[e] > 1 => e \in repeated',
           repeated \subseteq repeated'
    PROVE  PInv'
<1>1. PICK kind, owner : Located(kind, owner)
  BY DEF PInv
<1>2. Rows(s) \subseteq Events
  BY DEF PInv, IInv, FlushesOK, Flush, Rows
<1>3. \A x \in Rows(s) : kind[x] = "flush" /\ owner[x] = s /\ x \in Events
  BY <1>1, <1>2 DEF Located
<1>4. \A x \in Rows(s) :
         /\ ~(x > pushed) /\ x \notin lost /\ x \notin Range(channel) /\ x \notin batch
         /\ \A q \in Queues : x \notin Range(lists[q]) /\ x \notin Range(consumers[q].events)
         /\ \A r \in Slots : x \in Rows(r) => r = s
  BY <1>1, <1>3 DEF Located
<1>5. \A x \in Rows(s) : x <= pushed
  BY <1>2, <1>4, Limits DEF PInv, IInv, ListsOK, Events
<1>6. \A r \in Slots : Rows(r)' = IF r = s THEN {} ELSE Rows(r)
  BY DEF PInv, IInv, FlushesOK, Rows
<1>7. \A x \in Events, r \in Slots : x \in Rows(r)' <=> (x \in Rows(r) /\ x \notin Rows(s))
  BY <1>4, <1>6
<1>8. PICK rows : rows = Rows(s)
  OBVIOUS
<1>9. Leaves(rows)
  BY <1>4, <1>5, <1>7, <1>8 DEF Leaves
<1>10. \E kind2, owner2 : Located(kind2, owner2)'
  BY <1>1, <1>9, LeavesLocates DEF PInv, IInv
<1>11. Distinct'
  BY DEF Distinct, PInv
<1>12. Emptied'
  <2>1. \A r \in Slots : flushes[r] = None => flushes'[r] = None
    BY DEF PInv, IInv, FlushesOK
  <2> QED
    BY <2>1 DEF Emptied, PInv
<1> QED
  BY <1>10, <1>11, <1>12 DEF PInv

LEMMA FlushPlaces ==
    ASSUME PInv, NEW s \in Slots, IInv',
           InsertSucceeds(s) \/ \E taken \in BOOLEAN : InsertFails(s, taken)
    PROVE  PInv'
<1>1. PICK kind, owner : Located(kind, owner)
  BY DEF PInv
<1>2. /\ UNCHANGED <<pushed, lists, consumers, channel, main, batch>>
      /\ flushes[s] # None
  BY DEF InsertSucceeds, InsertFails
<1>3. PICK rows : rows = Rows(s) /\ rows = flushes[s].rows
  BY <1>2 DEF Rows
<1>4. rows \subseteq Events
  BY <1>2, <1>3 DEF PInv, IInv, FlushesOK, Flush
<1>5. \A x \in rows : /\ kind[x] = "flush" /\ owner[x] = s /\ x \in Events
                      /\ table[x] # 0 => x \in repeated
  BY <1>1, <1>3, <1>4 DEF Located
<1>6. CASE InsertSucceeds(s)
  <2>1. /\ UNCHANGED <<lost, repeated>> /\ table' = WithRows(rows)
        /\ flushes' = [flushes EXCEPT ![s] = None]
    BY <1>3, <1>6 DEF InsertSucceeds, history
  <2>2. \A x \in Events :
           /\ x \in rows => table'[x] # 0 /\ (table'[x] > 1 => x \in repeated)
           /\ x \notin rows => table'[x] = table[x]
    BY <1>5, <2>1, Inserted DEF PInv, IInv
  <2>3. lost' = lost \cup {e \in rows : table'[e] = 0}
    BY <1>4, <2>1, <2>2
  <2> QED
    BY <1>2, <1>3, <1>4, <2>1, <2>2, <2>3, FlushEnds
<1>7. ASSUME NEW taken \in BOOLEAN, InsertFails(s, taken) PROVE PInv'
  <2>1. /\ table' = IF taken THEN WithRows(rows) ELSE table
        /\ repeated' = IF taken THEN repeated \cup rows ELSE repeated
        /\ \/ /\ flushes' = [flushes EXCEPT ![s] = None]
              /\ lost' = lost \cup {e \in rows : table'[e] = 0}
           \/ /\ \E n \in 1 .. FlushMaxRetries + 1 :
                    flushes' = [flushes EXCEPT ![s].attempt = n]
              /\ UNCHANGED lost
    <3>1. PICK next : next = NextAttempt(flushes[s].attempt)
      OBVIOUS
    <3>2. flushes[s].attempt \in Nat /\ flushes[s].attempt > 0
      BY <1>2 DEF PInv, IInv, FlushesOK, Flush
    <3>3. next \in Nat /\ next > 0
      BY <3>1, <3>2 DEF NextAttempt
    <3>4. CASE next > FlushMaxRetries + 1
      BY <1>3, <1>7, <3>1, <3>4 DEF InsertFails
    <3>5. CASE ~(next > FlushMaxRetries + 1)
      <4>1. next \in 1 .. FlushMaxRetries + 1
        BY <3>3, <3>5, Limits
      <4> QED
        BY <1>3, <1>7, <3>1, <3>5, <4>1 DEF InsertFails
    <3> QED
      BY <3>4, <3>5
  <2>2. repeated \subseteq repeated' /\ (taken => rows \subseteq repeated')
    BY <2>1
  <2>3. \A x \in Events : x \notin rows => table'[x] = table[x]
    BY <2>1, Inserted DEF PInv, IInv
  <2>4. \A x \in rows : table'[x] # 0 => x \in repeated'
    BY <1>5, <2>1, <2>2
  <2>5. CASE /\ flushes' = [flushes EXCEPT ![s] = None]
             /\ lost' = lost \cup {e \in rows : table'[e] = 0}
    <3>1. \A x \in rows : table'[x] > 1 => x \in repeated'
      <4>1. \A x \in rows : table'[x] \in 0 .. 2
        BY <1>4, <1>7 DEF IInv, TableOK
      <4> QED
        BY <2>4, <4>1
    <3> QED
      BY <1>2, <1>3, <2>2, <2>3, <2>5, <3>1, FlushEnds
  <2>6. CASE /\ \E n \in 1 .. FlushMaxRetries + 1 :
                   flushes' = [flushes EXCEPT ![s].attempt = n]
             /\ UNCHANGED lost
    <3>1. \A r \in Slots : Rows(r)' = Rows(r) /\ (flushes[r] = None => flushes'[r] = None)
      <4>1. PICK n \in 1 .. FlushMaxRetries + 1 :
              flushes' = [flushes EXCEPT ![s].attempt = n]
        BY <2>6
      <4>2. flushes[s] \in Flush /\ flushes'[s] = [flushes[s] EXCEPT !.attempt = n]
        BY <1>2, <4>1 DEF PInv, IInv, FlushesOK
      <4>3. flushes'[s] # None
        <5>1. flushes'[s] \in Flush
          BY <4>2 DEF Flush
        <5> QED
          BY <5>1, NoneAssumption
      <4>4. flushes'[s].rows = flushes[s].rows
        BY <4>2 DEF Flush
      <4>5. \A r \in Slots : r # s => flushes'[r] = flushes[r]
        BY <4>1 DEF PInv, IInv, FlushesOK
      <4> QED
        BY <1>2, <4>3, <4>4, <4>5 DEF Rows
    <3>2. \A x \in rows :
             /\ ~(x > pushed) /\ x \notin lost /\ x \notin Range(channel) /\ x \notin batch
             /\ \A q \in Queues :
                   x \notin Range(lists[q]) /\ x \notin Range(consumers[q].events)
             /\ \A r \in Slots : x \in Rows(r) <=> r = s
      BY <1>1, <1>5 DEF Located
    <3>3. Moves(rows, "flush", s)
      BY <1>2, <2>2, <2>3, <2>4, <2>6, <3>1, <3>2 DEF Moves
    <3>4. \E kind2, owner2 : Located(kind2, owner2)'
      BY <1>1, <3>3, MovesLocates DEF PInv, IInv
    <3>5. Distinct'
      BY <1>2 DEF Distinct, PInv
    <3>6. Emptied'
      BY <1>2, <3>1 DEF Emptied, PInv
    <3> QED
      BY <3>4, <3>5, <3>6 DEF PInv
  <2> QED
    BY <2>1, <2>5, <2>6
<1> QED
  BY <1>6, <1>7

-------------------------------------------------------------------------------

LEMMA InitPlace == Init => PInv
<1> SUFFICES ASSUME Init PROVE PInv
  OBVIOUS
<1>1. IInv
  BY InitIInv
<1>2. Distinct /\ Emptied
  BY NoEvents DEF Init, Distinct, Emptied, Consumer
<1>3. PICK kind : kind = [e \in Events |-> "nowhere"]
  OBVIOUS
<1>4. \A e \in Events : e > pushed
  BY Limits DEF Init, Events
<1>5. Located(kind, kind)
  BY <1>3, <1>4, NoEvents DEF Init, Located, Kinds, Rows, Consumer
<1> QED
  BY <1>1, <1>2, <1>5 DEF PInv

LEMMA NextPlace == PInv /\ [Next]_vars => PInv'
<1> SUFFICES ASSUME PInv, [Next]_vars PROVE PInv'
  OBVIOUS
<1>1. IInv'
  BY NextIInv DEF PInv
<1>2. CASE UNCHANGED vars
  <2>1. Emptied'
    BY <1>2 DEF vars, process, Emptied, PInv
  <2>2. UNCHANGED <<pushed, lists, channel, batch, flushes, table, lost, repeated, consumers>>
    BY <1>2 DEF vars, process, history
  <2> QED
    BY <1>1, <2>1, <2>2, NothingMoves DEF PInv, IInv
<1> QED
  BY <1>1, <1>2, PushPlace, PhasePlace, PopPlace, PopFailsPlace, SendPlace, CollectPlace,
     FlushPlace, ExitPlace, FlushPlaces, CrashPlace, RestartPlace DEF Next

\* An event that is located is in one place.
LEMMA LocatedOnce == PInv => OnePlace
<1> SUFFICES ASSUME PInv, NEW e \in 1 .. pushed
             PROVE  Cardinality(Places(e)) = 1 /\ (table[e] > 1 => e \in repeated)
  BY DEF OnePlace
<1>1. PICK kind, owner : Located(kind, owner)
  BY DEF PInv
<1>2. e \in Events /\ ~(e > pushed)
  BY Limits DEF PInv, IInv, ListsOK, Events
<1>3. table[e] > 1 => e \in repeated
  BY <1>1, <1>2 DEF Located
<1>4. kind[e] \in Kinds \ {"nowhere"}
  BY <1>1, <1>2 DEF Located
<1>5. e \in Flushing <=> kind[e] = "flush"
  BY <1>1, <1>2, FlushingRows DEF Located
<1>6. (table[e] > 0 /\ e \notin Flushing) <=> kind[e] = "table"
  <2>1. table[e] \in Nat
    BY <1>2 DEF PInv, IInv, TableOK
  <2> QED
    BY <1>1, <1>2, <1>5, <2>1 DEF Located
<1>7. \A p : p \in Places(e) <=>
         \/ \E q \in Queues : p = <<"list", q>> /\ kind[e] = "list" /\ owner[e] = q
         \/ \E q \in Queues : p = <<"consumer", q>> /\ kind[e] = "consumer" /\ owner[e] = q
         \/ \E i \in DOMAIN channel : p = <<"channel", i>> /\ channel[i] = e
         \/ p = <<"batch", e>> /\ kind[e] = "batch"
         \/ \E s \in Slots : p = <<"flush", s>> /\ kind[e] = "flush" /\ owner[e] = s
         \/ p = <<"table", e>> /\ kind[e] = "table"
         \/ p = <<"lost", e>> /\ kind[e] = "lost"
  <2>1. \A s \in Slots : (flushes[s] # None /\ e \in flushes[s].rows) <=> e \in Rows(s)
    BY DEF Rows
  <2> QED
    BY <1>1, <1>2, <1>6, <2>1 DEF Located, Places
<1>8. \A i \in DOMAIN channel : channel[i] = e => kind[e] = "channel"
  <2>1. \A i \in DOMAIN channel : channel[i] \in Range(channel)
    BY DEF Range
  <2> QED
    BY <1>1, <1>2, <2>1 DEF Located
<1>9. \E p : Places(e) = {p}
  <2>1. CASE kind[e] \in {"list", "consumer", "flush"}
    <3>1. /\ kind[e] \in {"list", "consumer"} => owner[e] \in Queues
          /\ kind[e] = "flush" => owner[e] \in Slots
      BY <1>1, <1>2 DEF Located
    <3>2. \A x : x \in Places(e) <=> x = <<kind[e], owner[e]>>
      BY <1>7, <1>8, <2>1, <3>1
    <3>3. Places(e) = {<<kind[e], owner[e]>>}
      BY <3>2
    <3> QED
      BY <3>3
  <2>2. CASE kind[e] \in {"batch", "table", "lost"}
    <3>1. \A x : x \in Places(e) <=> x = <<kind[e], e>>
      BY <1>7, <1>8, <2>2
    <3>2. Places(e) = {<<kind[e], e>>}
      BY <3>1
    <3> QED
      BY <3>2
  <2>3. CASE kind[e] = "channel"
    <3>1. e \in Range(channel) /\ IsInjective(channel)
      BY <1>1, <1>2, <2>3 DEF Located, PInv, Distinct
    <3>2. PICK i \in DOMAIN channel : /\ channel[i] = e
                                      /\ \A j \in DOMAIN channel : channel[j] = e => j = i
      BY <3>1 DEF Range, IsInjective
    <3>3. \A x : x \in Places(e) <=> x = <<"channel", i>>
      BY <1>7, <2>3, <3>2
    <3>4. Places(e) = {<<"channel", i>>}
      BY <3>3
    <3> QED
      BY <3>4
  <2> QED
    BY <1>4, <2>1, <2>2, <2>3 DEF Kinds
<1>10. PICK p : Places(e) = {p}
  BY <1>9
<1> QED
  BY <1>3, <1>10, FS_Singleton

\* However consumers, main loop, flush tasks, shutdowns and crashes overlap, every event
\* is in one place, and twice in the table only after an insert that was taken and
\* failed: for any lists, events, limits and crashes.
THEOREM PlaceSafety == Spec => []OnePlace
<1>1. Init => PInv
  BY InitPlace
<1>2. PInv /\ [Next]_vars => PInv'
  BY NextPlace
<1>3. PInv => OnePlace
  BY LocatedOnce
<1> QED
  BY <1>1, <1>2, <1>3, PTL DEF Spec

=================================================================================
