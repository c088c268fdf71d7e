----------------------------- MODULE MCPollSchedule -----------------------------
\* PollSchedule for TLC: an interval of two ticks, backed off by half.
EXTENDS PollSchedule

HalfAsLong == [f \in 1 .. MaxFailures - 1 |-> IF f = 1 THEN 3 ELSE 4]

================================================================================
