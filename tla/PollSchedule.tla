------------------------------ MODULE PollSchedule ------------------------------
(***************************************************************************)
(* Which orders the order status poller asks the venue about, and when     *)
(* (execution/polymarket/poller): a cycle takes the due orders in the      *)
(* order of poll_priority, polls the first Batch of them one after the     *)
(* other, each after a token of the rate limiter, syncs the positions if   *)
(* that is due, and sleeps Interval.  The sync is of the same task: nobody *)
(* is polled meanwhile.  What an answer says is LiveOrders' subject, what  *)
(* a sync does PositionSync's; here a poll only completes the order, keeps *)
(* it, or fails.                                                           *)
(*                                                                         *)
(* Time is counted in ticks.  poll_priority compares added_at first, which *)
(* differs between orders, so its other fields never decide.               *)
(***************************************************************************)
EXTENDS Integers, Sequences, SequencesExt, FiniteSetsExt

CONSTANTS
    Orders,         \* orders monitored at a time; a completed one can come back
    Batch,          \* batch_size
    Interval,       \* poll_interval
    Backoff,        \* calculate_backoff: [failures -> ticks]
    MaxFailures,    \* max_consecutive_failures
    PollTicks,      \* how long a poll can take, with the wait for its token
    EnablePositionSync, \* enable_position_sync
    SyncInterval,   \* position_sync_interval
    SyncTicks       \* how long a sync can take: a token and an answer for the quote
                    \* balance and for each token that is held or was bought

ASSUME ScheduleAssumption ==
    /\ {Batch, Interval, MaxFailures, SyncInterval} \subseteq Nat \ {0}
    /\ PollTicks # {} /\ PollTicks \subseteq Nat \ {0} /\ IsFiniteSet(PollTicks)
    /\ SyncTicks # {} /\ SyncTicks \subseteq Nat \ {0} /\ IsFiniteSet(SyncTicks)
    /\ EnablePositionSync \in BOOLEAN
    /\ IsFiniteSet(Orders)
    /\ Backoff \in [1 .. MaxFailures - 1 -> Nat]

VARIABLES
    monitored,  \* the monitored orders by added_at, oldest first
    polled,     \* [order -> whether last_polled is set]
    idle,       \* [order -> ticks since it was last polled, or else added]
    failures,   \* [order -> consecutive_failures]
    stage,      \* where the poller's loop is: "cycle", "sync" or "sleep"
    batch,      \* orders of the cycle still to be polled
    sinceSync,  \* ticks since last_position_sync, up to SyncInterval
    sleep       \* ticks left of the sleep

scheduleVars == <<monitored, polled, idle, failures, stage, batch, sinceSync, sleep>>

LongestPoll == Max(PollTicks)
LongestSync == IF EnablePositionSync THEN Max(SyncTicks) ELSE 0

Patience(o) == IF failures[o] = 0 THEN Interval ELSE Backoff[failures[o]]

\* The most that the other orders of a batch take.
OthersOfBatch == (Batch - 1) * LongestPoll

\* How long an order waits at most until its poll starts, if a batch takes in all due
\* orders: due right after a selection, last of the next one.
Bound(o) == Patience(o) + Interval + LongestSync + 2 * OthersOfBatch

\* The bound on idle: nobody who gets a turn waits out as many cycles as there
\* are orders.
IdleCap ==
    LET waits == {Interval} \cup {Backoff[f] : f \in DOMAIN Backoff}
    IN  Max(waits)
          + (Cardinality(Orders) + 1) * (Interval + Batch * LongestPoll + LongestSync) + 1

After(d) ==
    [o \in Orders |-> IF o \in ToSet(monitored) THEN Min({idle[o] + d, IdleCap})
                      ELSE idle[o]]

SyncAge(d) == Min({sinceSync + d, SyncInterval})

ScheduleInit ==
    /\ monitored = <<>>
    /\ polled = [o \in Orders |-> FALSE]
    /\ idle = [o \in Orders |-> 0]
    /\ failures = [o \in Orders |-> 0]
    /\ stage = "cycle" /\ batch = <<>> /\ sinceSync = 0 /\ sleep = 0

-------------------------------------------------------------------------------

\* monitor_order, by a task that placed an order.
Monitor(o) ==
    /\ o \notin ToSet(monitored) \cup ToSet(batch)
    /\ monitored' = Append(monitored, o)
    /\ polled' = [polled EXCEPT ![o] = FALSE]
    /\ idle' = [idle EXCEPT ![o] = 0]
    /\ failures' = [failures EXCEPT ![o] = 0]
    /\ UNCHANGED <<stage, batch, sinceSync, sleep>>

\* should_poll: an order that was never polled, or not within its interval.
Due(o) == polled[o] => idle[o] >= Patience(o)

\* The orders of q that are in a set, in the order of q.
Among(q, chosen) ==
    LET upto[i \in 0 .. Len(q)] ==
            IF i = 0 THEN <<>>
            ELSE IF q[i] \in chosen THEN Append(upto[i - 1], q[i]) ELSE upto[i - 1]
    IN  upto[Len(q)]

\* Due orders sorted by poll_priority.
Candidates == Among(monitored, {o \in Orders : Due(o)})

\* select_orders_to_poll, at the start of a cycle, which is over if nothing is due.
SelectOrders ==
    /\ stage = "cycle" /\ batch = <<>>
    /\ LET due == Candidates
       IN  /\ batch' = SubSeq(due, 1, Min({Len(due), Batch}))
           /\ stage' = IF due = <<>> THEN "sync" ELSE "cycle"
    /\ UNCHANGED <<monitored, polled, idle, failures, sinceSync, sleep>>

\* The cycle goes on with the next order, or ends.
NextOfBatch ==
    /\ batch' = Tail(batch)
    /\ stage' = IF Len(batch) = 1 THEN "sync" ELSE "cycle"
    /\ UNCHANGED sleep

\* The poll may take the order off the list.  The end of a cycle prunes the orders that
\* are stale by then (prune_stale_orders).
Pruned(over, stale) ==
    /\ Len(batch) > 1 => stale = {}
    /\ monitored' = Among(monitored, Orders \ (over \cup stale))

Polled(o, d) ==
    /\ polled' = [polled EXCEPT ![o] = TRUE]
    /\ idle' = [After(d) EXCEPT ![o] = 0]
    /\ sinceSync' = SyncAge(d)

\* The order is over: filled, cancelled, invalid or not found.
PollCompletes(d, stale) ==
    /\ batch # <<>>
    /\ NextOfBatch
    /\ Pruned({Head(batch)}, stale)
    /\ Polled(Head(batch), d)
    /\ UNCHANGED failures

\* record_poll_success.
PollSucceeds(d, stale) ==
    /\ batch # <<>>
    /\ NextOfBatch
    /\ Pruned({}, stale)
    /\ Polled(Head(batch), d)
    /\ failures' = [failures EXCEPT ![Head(batch)] = 0]

\* A failed poll that ends the whole cycle.
PollFails_EndsCycle(d, stale) ==
    /\ batch # <<>>
    /\ batch' = <<>> /\ stage' = "sync" /\ UNCHANGED sleep
    /\ Polled(Head(batch), d)
    /\ LET o == Head(batch)
       IN  IF failures[o] + 1 >= MaxFailures
           THEN Pruned({o}, stale) /\ UNCHANGED failures
           ELSE /\ failures' = [failures EXCEPT ![o] = @ + 1]
                /\ Pruned({}, stale)

\* ... that gives the order up one failure too late.
PollFails_OffByOne(d, stale) ==
    /\ batch # <<>>
    /\ NextOfBatch
    /\ Polled(Head(batch), d)
    /\ LET o == Head(batch)
       IN  IF failures[o] >= MaxFailures
           THEN Pruned({o}, stale) /\ UNCHANGED failures
           ELSE /\ failures' = [failures EXCEPT ![o] = @ + 1]
                /\ Pruned({}, stale)

\* record_poll_failure; the cycle goes on with the next order.
PollFails(d, stale) ==
    /\ batch # <<>>
    /\ NextOfBatch
    /\ Polled(Head(batch), d)
    /\ LET o == Head(batch)
       IN  IF failures[o] + 1 >= MaxFailures
           THEN Pruned({o}, stale) /\ UNCHANGED failures
           ELSE /\ failures' = [failures EXCEPT ![o] = @ + 1]
                /\ Pruned({}, stale)

\* The cycle is over, and the poller goes to sleep after the sync, if one is due.
FallAsleep ==
    /\ stage = "sync"
    /\ stage' = "sleep" /\ sleep' = Interval
    /\ UNCHANGED <<monitored, polled, failures, batch>>

SyncDue == EnablePositionSync /\ sinceSync >= SyncInterval

SkipSync == ~SyncDue /\ FallAsleep /\ UNCHANGED <<idle, sinceSync>>

\* sync_positions; one that fails is tried again after the next cycle.
SyncPositions(d, synced) ==
    /\ SyncDue /\ FallAsleep
    /\ idle' = After(d)
    /\ sinceSync' = IF synced THEN 0 ELSE SyncAge(d)

Sleep ==
    /\ stage = "sleep"
    /\ sleep' = sleep - 1
    /\ stage' = IF sleep = 1 THEN "cycle" ELSE "sleep"
    /\ idle' = After(1) /\ sinceSync' = SyncAge(1)
    /\ UNCHANGED <<monitored, polled, failures, batch>>

PollerStep ==
    \/ SelectOrders
    \/ \E d \in PollTicks, stale \in SUBSET ToSet(monitored) :
          PollCompletes(d, stale) \/ PollSucceeds(d, stale) \/ PollFails(d, stale)
    \/ SkipSync
    \/ \E d \in SyncTicks, synced \in BOOLEAN : SyncPositions(d, synced)
    \/ Sleep

ScheduleNext == PollerStep \/ \E o \in Orders : Monitor(o)

\* The poller's task keeps running.
ScheduleFairness == WF_scheduleVars(PollerStep)

ScheduleSpec == ScheduleInit /\ [][ScheduleNext]_scheduleVars /\ ScheduleFairness

-------------------------------------------------------------------------------

\* The variables have their types; no order is monitored twice.
ScheduleTypeOK ==
    /\ monitored \in Seq(Orders) /\ IsInjective(monitored)
    /\ polled \in [Orders -> BOOLEAN]
    /\ idle \in [Orders -> 0 .. IdleCap]
    /\ failures \in [Orders -> 0 .. MaxFailures - 1]
    /\ batch \in Seq(ToSet(monitored)) /\ IsInjective(batch)
    /\ stage \in {"cycle", "sync", "sleep"}
    /\ sinceSync \in 0 .. SyncInterval /\ sleep \in 0 .. Interval

\* When a batch has room for all orders, none goes unpolled for longer than its
\* interval (or backoff), one sleep, one sync and two cycles of the other orders until
\* its poll starts, whatever fails meanwhile.
KeepsUp ==
    Cardinality(Orders) <= Batch =>
        \A o \in ToSet(monitored) : idle[o] <= Bound(o)

\* What config.rs says of batch_size, and the design of the polling priority: many
\* orders do not starve one, all get their turn.  (TLC refutes it: README, section 6.)
NobodyStarves == \A o \in ToSet(monitored) : idle[o] < IdleCap

================================================================================
