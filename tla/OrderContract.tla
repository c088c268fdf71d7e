----------------------------- MODULE OrderContract -----------------------------
(***************************************************************************)
(* What the rest of the trading server relies on when it reads an order:   *)
(* an order is accepted once, trades only while it works, never trades     *)
(* back, and ends once with one outcome.  LifecycleEngine implements this  *)
(* for every adapter; so do the orders of QuoteLane and PaperTrading,      *)
(* whose steps put several pieces of evidence together.                    *)
(***************************************************************************)
EXTENDS Integers

CONSTANTS
    Ids,       \* logical orders
    Sizes,     \* possible sizes
    Outcomes   \* the ways an order can end

VARIABLES
    phase,     \* [order -> "unused", "working" or its outcome]
    left       \* [order -> what is still to trade]

Init ==
    /\ phase = [i \in Ids |-> "unused"]
    /\ left = [i \in Ids |-> 0]

Accept(i, size) ==
    /\ phase[i] = "unused"
    /\ phase' = [phase EXCEPT ![i] = "working"]
    /\ left' = [left EXCEPT ![i] = size]

\* A trade that leaves something open.
Trade(i, rest) ==
    /\ phase[i] = "working"
    /\ rest < left[i]
    /\ left' = [left EXCEPT ![i] = rest]
    /\ UNCHANGED phase

\* The trade of all that was left ends the order as filled.
Complete(i) ==
    /\ phase[i] = "working"
    /\ phase' = [phase EXCEPT ![i] = "Filled"]
    /\ left' = [left EXCEPT ![i] = 0]

\* Somebody says how the order ended; what it traded is not touched.
Close(i, outcome) ==
    /\ phase[i] = "working"
    /\ phase' = [phase EXCEPT ![i] = outcome]
    /\ UNCHANGED left

Next == \E i \in Ids :
    \/ \E size \in Sizes : Accept(i, size)
    \/ \E rest \in 1 .. left[i] - 1 : Trade(i, rest)
    \/ Complete(i)
    \/ \E outcome \in Outcomes : Close(i, outcome)

Spec == Init /\ [][Next]_<<phase, left>>

================================================================================
