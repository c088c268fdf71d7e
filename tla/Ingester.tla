-------------------------------- MODULE Ingester --------------------------------
(***************************************************************************)
(* The ingester moves events from Redis lists to a table.  A task per list *)
(* pops batches and sends them through one bounded channel; the main loop  *)
(* collects rows and spawns a task per full batch, which inserts it with   *)
(* retries.  SIGTERM ends the process gracefully, a crash does not, and    *)
(* the orchestrator starts it again.  Popping is the only receipt Redis    *)
(* gets, so what is popped lives in memory until it is in the table.       *)
(*                                                                         *)
(* Events are numbered in the order they are pushed.                       *)
(***************************************************************************)
EXTENDS Integers, Sequences, SequencesExt, FiniteSets, FiniteSetsExt, Functions

CONSTANTS
    Queues,           \* the lists of the configuration
    PopBatch,         \* BATCH_SIZE of consume_redis_queue
    ChannelSize,      \* capacity of the channel, 10000 in the code
    BatchSize,        \* batch_size of the configuration
    FlushMaxRetries,  \* FLUSH_MAX_RETRIES
    MaxEvents,        \* bound: events pushed in a behaviour
    MaxFlushes,       \* bound: flush tasks at once, which the code does not limit
    None              \* no task

ASSUME IngesterAssumption ==
    /\ {PopBatch, ChannelSize, BatchSize, FlushMaxRetries, MaxFlushes}
            \subseteq Nat \ {0}
    /\ MaxEvents \in Nat

Events == 1 .. MaxEvents
Slots  == 1 .. MaxFlushes

\* A flush task: its rows and the attempt it makes.
Flush == [rows : SUBSET Events, attempt : 1 .. FlushMaxRetries + 1]

ASSUME NoneAssumption == None \notin Flush

VARIABLES
    pushed,     \* how many events were pushed
    lists,      \* the Redis lists
    consumers,  \* consume_redis_queue: its phase, and what it popped and has not sent
    channel,    \* event_rx
    main,       \* where run is
    cancelled,  \* the CancellationToken
    batch,      \* pending_batch, and drain_batch during the shutdown
    flushes,    \* the flush tasks: their rows and the attempt they make
    table,      \* [event -> how many rows of it the table has, up to two]
    lost,       \* history variable: events that will never be in the table
    repeated    \* history variable: events of an insert that was taken and yet failed

process == <<consumers, channel, main, cancelled, batch, flushes>>
history == <<lost, repeated>>
vars == <<pushed, lists, process, table, history>>

Consumer(phase, events) == [phase |-> phase, events |-> events]

Fresh(phase) ==
    /\ consumers' = [q \in Queues |-> Consumer("connecting", <<>>)]
    /\ channel' = <<>> /\ batch' = {}
    /\ main' = phase /\ cancelled' = FALSE
    /\ flushes' = [s \in Slots |-> None]

Init ==
    /\ pushed = 0
    /\ lists = [q \in Queues |-> <<>>]
    /\ consumers = [q \in Queues |-> Consumer("connecting", <<>>)]
    /\ channel = <<>> /\ batch = {}
    /\ main = "running" /\ cancelled = FALSE
    /\ flushes = [s \in Slots |-> None]
    /\ table = [e \in Events |-> 0]
    /\ lost = {} /\ repeated = {}

Up == main # "down"

-------------------------------------------------------------------------------
(* The lists and their consumers *)

Push(q) ==
    /\ pushed < MaxEvents
    /\ pushed' = pushed + 1
    /\ lists' = [lists EXCEPT ![q] = Append(@, pushed')]
    /\ UNCHANGED <<process, table, history>>

\* A consumer that cannot connect ends, and nobody reads its list any more.
Connect(q, connected) ==
    /\ Up /\ consumers[q].phase = "connecting"
    /\ consumers' = [consumers EXCEPT ![q].phase =
                        IF connected THEN "checking" ELSE "failed"]
    /\ UNCHANGED <<pushed, lists, channel, main, cancelled, batch, flushes, table,
                   history>>

\* The token is looked at before each LPOP only.
CheckCancelled(q) ==
    /\ Up /\ consumers[q].phase = "checking"
    /\ consumers' = [consumers EXCEPT ![q].phase =
                        IF cancelled THEN "stopped" ELSE "popping"]
    /\ UNCHANGED <<pushed, lists, channel, main, cancelled, batch, flushes, table,
                   history>>

Popped(q) == Range(SubSeq(lists[q], 1, Min({PopBatch, Len(lists[q])})))

\* Redis takes up to BATCH_SIZE events off the list.
LPop(q) ==
    /\ Up /\ consumers[q].phase = "popping"
    /\ lists' = [lists EXCEPT ![q] =
                    SubSeq(@, Min({PopBatch, Len(@)}) + 1, Len(@))]

\* A consumer that takes an empty list for the end of it.
AfterPop_Stops(events) ==
    IF events = <<>> THEN Consumer("stopped", <<>>) ELSE Consumer("sending", events)

\* After an empty reply the consumer pauses; otherwise it sends what it got.
AfterPop(events) ==
    IF events = <<>> THEN Consumer("checking", <<>>) ELSE Consumer("sending", events)

PopSucceeds(q) ==
    /\ LPop(q)
    /\ consumers' = [consumers EXCEPT ![q] =
                        AfterPop(SubSeq(lists[q], 1, Min({PopBatch, Len(lists[q])})))]
    /\ UNCHANGED <<pushed, channel, main, cancelled, batch, flushes, table, history>>

\* An error is retried with a new LPOP; the one that failed may have been carried out.
PopFails(q) ==
    /\ Up /\ consumers[q].phase = "popping"
    /\ consumers' = [consumers EXCEPT ![q].phase = "checking"]
    /\ \/ UNCHANGED lists /\ UNCHANGED lost
       \/ LPop(q) /\ lost' = lost \cup Popped(q)
    /\ UNCHANGED <<pushed, channel, main, cancelled, batch, flushes, table, repeated>>

\* tx.send waits for room in the channel.
Send(q) ==
    LET events == consumers[q].events
    IN  /\ Up /\ consumers[q].phase = "sending"
        /\ Len(channel) < ChannelSize
        /\ channel' = Append(channel, Head(events))
        /\ consumers' = [consumers EXCEPT ![q] =
                            IF Len(events) = 1 THEN Consumer("checking", <<>>)
                            ELSE Consumer("sending", Tail(events))]
        /\ UNCHANGED <<pushed, lists, main, cancelled, batch, flushes, table, history>>

-------------------------------------------------------------------------------
(* The main loop *)

\* A task of its own inserts the rows.
SpawnFlush(rows) ==
    \E s \in Slots :
        /\ flushes[s] = None
        /\ \A r \in Slots : r < s => flushes[r] # None
        /\ flushes' = [flushes EXCEPT ![s] = [rows |-> rows, attempt |-> 1]]

\* std::mem::replace leaves an empty batch.
Remaining(rows) == {}

\* A row is received; a full batch is handed to a task.
Collect ==
    LET rows == batch \cup {Head(channel)}
    IN  /\ channel # <<>>
        /\ channel' = Tail(channel)
        /\ IF Cardinality(rows) >= BatchSize
           THEN SpawnFlush(rows) /\ batch' = Remaining(rows)
           ELSE batch' = rows /\ UNCHANGED flushes

Receive ==
    /\ main = "running"
    /\ Collect
    /\ UNCHANGED <<pushed, lists, consumers, main, cancelled, table, history>>

FlushBatch ==
    IF batch = {} THEN UNCHANGED flushes ELSE SpawnFlush(batch)

\* SIGTERM cancels the consumers; so does the end of all of them, in effect.  The
\* batch under way is flushed.
Shutdown ==
    /\ main = "running"
    /\ \/ cancelled' = TRUE
       \/ /\ \A q \in Queues : consumers[q].phase \in {"failed", "stopped"}
          /\ channel = <<>>
          /\ UNCHANGED cancelled
    /\ FlushBatch
    /\ batch' = {}
    /\ main' = "draining"
    /\ UNCHANGED <<pushed, lists, consumers, channel, table, history>>

\* try_recv, as long as there is something in the channel ...
Drain ==
    /\ main = "draining"
    /\ Collect
    /\ UNCHANGED <<pushed, lists, consumers, main, cancelled, table, history>>

\* A shutdown that forgets the last rows it drained.
FlushDrained_Full == UNCHANGED flushes

\* ... and the rows of a batch that did not get full.
FlushDrained == FlushBatch

DrainEnds ==
    /\ main = "draining" /\ channel = <<>>
    /\ FlushDrained
    /\ batch' = {}
    /\ main' = "awaiting"
    /\ UNCHANGED <<pushed, lists, consumers, channel, cancelled, table, history>>

\* What tasks and channel hold, the flushes aside.
InTransit ==
    Range(channel) \cup UNION {Range(consumers[q].events) : q \in Queues}

\* The process ends when all flushes have; nobody waits for the consumers.
Exit ==
    /\ main = "awaiting" /\ \A s \in Slots : flushes[s] = None
    /\ lost' = lost \cup InTransit
    /\ Fresh("down")
    /\ UNCHANGED <<pushed, lists, table, repeated>>

-------------------------------------------------------------------------------
(* flush_batch_with_retry_owned *)

\* How often does not matter beyond twice.
WithRows(rows) ==
    [e \in Events |-> IF e \in rows THEN Min({table[e] + 1, 2}) ELSE table[e]]

InsertSucceeds(s) ==
    /\ flushes[s] # None
    /\ table' = WithRows(flushes[s].rows)
    /\ flushes' = [flushes EXCEPT ![s] = None]
    /\ UNCHANGED <<pushed, lists, consumers, channel, main, cancelled, batch, history>>

\* Attempts that start over instead of giving up.
NextAttempt_StartsOver(attempt) == IF attempt > FlushMaxRetries THEN 1 ELSE attempt + 1

\* FLUSH_MAX_RETRIES attempts with a pause after each, then a last one.
NextAttempt(attempt) == attempt + 1

\* The table may have taken the rows of an insert that fails.
InsertFails(s, taken) ==
    LET flush == flushes[s]
        next  == NextAttempt(flush.attempt)
    IN  /\ flush # None
        /\ table' = IF taken THEN WithRows(flush.rows) ELSE table
        /\ repeated' = IF taken THEN repeated \cup flush.rows ELSE repeated
        /\ IF next > FlushMaxRetries + 1
           THEN /\ flushes' = [flushes EXCEPT ![s] = None]
                /\ lost' = lost \cup {e \in flush.rows : table'[e] = 0}
           ELSE /\ flushes' = [flushes EXCEPT ![s].attempt = next]
                /\ UNCHANGED lost
        /\ UNCHANGED <<pushed, lists, consumers, channel, main, cancelled, batch>>

-------------------------------------------------------------------------------
(* Crash and restart *)

Flushing == UNION {flushes[s].rows : s \in {s \in Slots : flushes[s] # None}}

Crash ==
    /\ Up
    /\ lost' = lost \cup {e \in InTransit \cup batch \cup Flushing : table[e] = 0}
    /\ Fresh("down")
    /\ UNCHANGED <<pushed, lists, table, repeated>>

Restart ==
    /\ main = "down"
    /\ Fresh("running")
    /\ UNCHANGED <<pushed, lists, table, history>>

-------------------------------------------------------------------------------

Next ==
    \/ \E q \in Queues :
          \/ Push(q)
          \/ \E connected \in BOOLEAN : Connect(q, connected)
          \/ CheckCancelled(q) \/ PopSucceeds(q) \/ PopFails(q) \/ Send(q)
    \/ Receive \/ Shutdown \/ Drain \/ DrainEnds \/ Exit
    \/ \E s \in Slots :
          InsertSucceeds(s) \/ \E taken \in BOOLEAN : InsertFails(s, taken)
    \/ Crash \/ Restart

\* Every task keeps running; Redis answers an LPOP, and the table an insert, but the
\* table may refuse for ever.
Fairness ==
    /\ \A q \in Queues :
          /\ WF_vars(\E connected \in BOOLEAN : Connect(q, connected))
          /\ WF_vars(CheckCancelled(q))
          /\ WF_vars(PopSucceeds(q) \/ PopFails(q)) /\ SF_vars(PopSucceeds(q))
          /\ SF_vars(Send(q))
    /\ WF_vars(Receive) /\ WF_vars(Drain) /\ WF_vars(DrainEnds) /\ WF_vars(Exit)
    /\ \A s \in Slots :
          WF_vars(InsertSucceeds(s) \/ \E taken \in BOOLEAN : InsertFails(s, taken))
    /\ WF_vars(Restart)

Spec == Init /\ [][Next]_vars /\ Fairness

-------------------------------------------------------------------------------

\* The variables have their types, and channel and batches stay within their sizes.
TypeOK ==
    LET Phases == {"connecting", "failed", "checking", "popping", "sending", "stopped"}
    IN  /\ pushed \in 0 .. MaxEvents
        /\ lists \in [Queues -> Seq(Events)]
        /\ consumers \in [Queues -> [phase : Phases, events : Seq(Events)]]
        /\ \A q \in Queues : Len(consumers[q].events) <= PopBatch
        /\ channel \in Seq(Events) /\ Len(channel) <= ChannelSize
        /\ main \in {"running", "draining", "awaiting", "down"}
        /\ cancelled \in BOOLEAN
        /\ batch \subseteq Events /\ Cardinality(batch) < BatchSize
        /\ DOMAIN flushes = Slots
        /\ \A s \in Slots : flushes[s] = None \/ flushes[s] \in Flush
        /\ table \in [Events -> 0 .. 2]
        /\ lost \subseteq Events /\ repeated \subseteq Events

\* Where an event is; one that a flush repeats may be in the table as well.
Places(e) ==
    {<<"list", q>> : q \in {q \in Queues : e \in Range(lists[q])}}
    \cup {<<"consumer", q>> : q \in {q \in Queues : e \in Range(consumers[q].events)}}
    \cup {<<"channel", i>> : i \in {i \in DOMAIN channel : channel[i] = e}}
    \cup {<<"batch", x>> : x \in {e} \cap batch}
    \cup {<<"flush", s>> : s \in {s \in Slots : flushes[s] # None
                                              /\ e \in flushes[s].rows}}
    \cup {<<"table", x>> : x \in {e} \cap {x \in Events \ Flushing : table[x] > 0}}
    \cup {<<"lost", x>> : x \in {e} \cap lost}

\* However consumers, main loop, flush tasks, shutdowns and crashes overlap, an event
\* is in one place: no path of the shutdown drops or doubles one, and only a lost
\* reply, a crash, a flush out of attempts or an exit that did not wait for a consumer
\* loses one.  The table has it twice only if an insert failed that was taken.
OnePlace ==
    \A e \in 1 .. pushed :
        Cardinality(Places(e)) = 1 /\ (table[e] > 1 => e \in repeated)

\* A shutdown comes to its end, although consumers go on sending while it drains and
\* the table may refuse every insert.
ShutdownEnds == main \in {"draining", "awaiting"} ~> main = "down"

\* In a process that stays up a list whose consumer connected is empty again and
\* again, although one channel serves all lists and the table may refuse.
KeepsConsuming ==
    \A q \in Queues :
        <>[](main = "running" /\ consumers[q].phase # "failed")
            => []<>(lists[q] = <<>>)

\* What app.rs says of the shutdown: it is graceful and drains the remaining events.
\* So nothing is lost by it.  (TLC refutes it: README, section 6.)
ShutdownLosesNothing == [][Exit => InTransit = {}]_vars

================================================================================
