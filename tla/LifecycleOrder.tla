---------------------------- MODULE LifecycleOrder ----------------------------
(***************************************************************************)
(* One logical limit order, as execution/lifecycle keeps it: the states of *)
(* LifecycleState and what each kind of evidence does to a single record.  *)
(* LifecycleEngine adds the table of records and its indexes; the          *)
(* executors use these operators for the record of an order they own.      *)
(*                                                                         *)
(* Sizes are naturals (a number of lots); Terminal(reason) is the reason   *)
(* itself.  An operator takes any record that has at least the fields      *)
(* state, cancel_requested and remaining.                                  *)
(***************************************************************************)
EXTENDS Integers

TerminalReasons == {"Filled", "Cancelled", "Rejected", "Expired"}

States == {"SubmitPending", "Open", "CancelPending"} \cup TerminalReasons

IsTerminal(o) == o.state \in TerminalReasons

\* record_place_success: the venue acknowledged the order.
AfterPlaceSuccess(o) ==
    IF o.state = "SubmitPending"
    THEN [o EXCEPT !.state = IF o.cancel_requested THEN "CancelPending"
                                                   ELSE "Open"]
    ELSE o

\* record_cancel_request: the strategy wants the order gone.
AfterCancelRequest(o) ==
    IF IsTerminal(o)
    THEN o
    ELSE [o EXCEPT !.cancel_requested = TRUE,
                   !.state = IF @ = "Open" THEN "CancelPending" ELSE @]

\* record_fill_evidence without the floor at zero.
AfterFill_NoFloor(o, n) ==
    LET left == o.remaining - n
    IN  IF IsTerminal(o)
        THEN o
        ELSE [o EXCEPT !.remaining = left,
                       !.state = IF left <= 0 THEN "Filled"
                                 ELSE IF @ = "SubmitPending" THEN "Open"
                                 ELSE @]

\* ... that books a late fill on a terminal order.
AfterFill_Late(o, n) ==
    LET left == IF n >= o.remaining THEN 0 ELSE o.remaining - n
    IN  [o EXCEPT !.remaining = left,
                  !.state = IF left = 0 THEN "Filled"
                            ELSE IF @ = "SubmitPending" THEN "Open"
                            ELSE @]

\* ... that takes any partial fill for a sign that the order is open.
AfterFill_Reopens(o, n) ==
    LET left == IF n >= o.remaining THEN 0 ELSE o.remaining - n
    IN  IF IsTerminal(o)
        THEN o
        ELSE [o EXCEPT !.remaining = left,
                       !.state = IF left = 0 THEN "Filled" ELSE "Open"]

\* ... that leaves an order open with nothing left to trade.
AfterFill_LeavesOpen(o, n) ==
    LET left == IF n >= o.remaining THEN 0 ELSE o.remaining - n
    IN  IF IsTerminal(o)
        THEN o
        ELSE [o EXCEPT !.remaining = left,
                       !.state = IF left < 0 THEN "Filled"
                                 ELSE IF @ = "SubmitPending" THEN "Open"
                                 ELSE @]

\* record_fill_evidence: n lots traded.
AfterFill(o, n) ==
    LET left == IF n >= o.remaining THEN 0 ELSE o.remaining - n
    IN  IF IsTerminal(o)
        THEN o
        ELSE [o EXCEPT !.remaining = left,
                       !.state = IF left = 0 THEN "Filled"
                                 ELSE IF @ = "SubmitPending" THEN "Open"
                                 ELSE @]

\* A cancellation nobody asked for is refused while the venue has not answered.
TerminalAllowed(o, reason) ==
    ~(/\ reason = "Cancelled"
      /\ o.state = "SubmitPending"
      /\ ~o.cancel_requested)

\* record_terminal_evidence that does not note that the order was cancelled.
AfterTerminal_KeepsFlag(o, reason) ==
    IF IsTerminal(o) THEN o ELSE [o EXCEPT !.state = reason]

\* record_terminal_evidence, once TerminalAllowed: the order is over.
AfterTerminal(o, reason) ==
    IF IsTerminal(o)
    THEN o
    ELSE [o EXCEPT !.state = reason,
                   !.cancel_requested = @ \/ reason = "Cancelled"]

================================================================================
