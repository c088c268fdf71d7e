------------------------------ MODULE PairRedemption ------------------------------
(***************************************************************************)
(* Merging the Up and Down tokens of one market in live trading.  The      *)
(* event loop compares its positions with the market's redemption policy   *)
(* and asks for a merge; the MergeExecutor, a task of its own, reads the   *)
(* balances on chain, sends a transaction of the Safe wallet, waits for it *)
(* and tells the event loop, whose books sync_positions corrects.          *)
(*                                                                         *)
(* A transaction carries the Safe's nonce and is worth nothing once        *)
(* another one with that nonce is mined.  So the nonce itself is left out: *)
(* all abandoned transactions have the present one.                        *)
(***************************************************************************)
EXTENDS Integers, Sequences, SequencesExt, FiniteSetsExt, Functions

CONSTANTS
    Policies,   \* values of max_unredeemed_pair_value that strategies ask for
    MinMerge,   \* auto_merge_min_amount
    MaxTrades,  \* bound: trades, of one lot each
    None        \* Option::None

ASSUME PairAssumption ==
    /\ Policies \subseteq Nat
    /\ MinMerge \in Nat \ {0} /\ MaxTrades \in Nat

Tokens == {"up", "down"}
Lots   == {1, -1}

\* The orders a fill can be of.
Sources == {"limit", "market"}

\* A merge of the executor: how far it got, and the pairs it takes.
Merges == [phase : {"asked", "half", "read", "waiting", "mined", "doomed"},
           amount : 0 .. MaxTrades]

ASSUME NoneAssumption == None \notin Merges

VARIABLES
    held,       \* on chain: the tokens of the wallet
    trades,     \* how many trades there were
    paid,       \* on chain: what merges paid to the wallet
    policy,     \* max_unredeemed_pair_value, or None
    positions,  \* the manager's positions, 0 where there is none
    unpriced,   \* positions without an entry price
    bought,     \* bought_mints
    received,   \* total_quote_received, the part that came from merges
    fills,      \* [token -> [lot -> fill events on their way]]
    completed,  \* RedemptionCompleted events on their way
    requested,  \* is the market in pending_merges?
    merge,      \* the merge under way, or None
    abandoned,  \* transactions in the network that nobody waits for any more
    untold      \* history variable: pairs merged without an event

chain   == <<held, trades, paid>>
manager == <<positions, unpriced, bought, received>>
network == <<abandoned, untold>>
vars == <<chain, policy, manager, fills, completed, requested, merge, network>>

Pairs(amounts) == Min(Range(amounts))

Init ==
    /\ held = [t \in Tokens |-> 0] /\ trades = 0 /\ paid = 0
    /\ policy = None
    /\ positions = [t \in Tokens |-> 0] /\ unpriced = {} /\ bought = {}
    /\ received = 0
    /\ fills = [t \in Tokens |-> [n \in Lots |-> 0]]
    /\ completed = <<>>
    /\ requested = FALSE /\ merge = None
    /\ abandoned = {} /\ untold = 0

-------------------------------------------------------------------------------
(* The exchange and the event loop *)

Trade(token, n) ==
    /\ trades < MaxTrades
    /\ held[token] + n >= 0
    /\ held' = [held EXCEPT ![token] = @ + n]
    /\ trades' = trades + 1
    /\ fills' = [fills EXCEPT ![token][n] = @ + 1]
    /\ UNCHANGED <<paid, policy, manager, completed, requested, merge, network>>

\* pairs_to_redeem is positive.
Violated(max, amounts) == Pairs(amounts) > max

\* process_redemption_actions: Polymarket's execute_redemption puts the market in
\* pending_merges, whatever the quantity.
Asked(max, amounts) == requested \/ (max # None /\ Violated(max, amounts))

\* A fill is booked (a buy of a position without a price is not).  Only that of a
\* market order (handle_execution_event) makes the event loop check the policy; that
\* of a limit order goes to the position manager and no further.
BookFill(token, n, source) ==
    /\ fills[token][n] > 0
    /\ fills' = [fills EXCEPT ![token][n] = @ - 1]
    /\ positions' = IF n > 0 /\ token \in unpriced THEN positions
                    ELSE [positions EXCEPT ![token] = @ + n]
    /\ unpriced' = {t \in unpriced : positions'[t] # 0}
    /\ bought' = IF n > 0 THEN bought \cup {token} ELSE bought
    /\ requested' = IF source = "market" THEN Asked(policy, positions') ELSE requested
    /\ UNCHANGED <<chain, policy, received, completed, merge, network>>

\* handle_intent_signal: an intent brings a policy.
Intent(max) ==
    /\ policy' = max
    /\ requested' = Asked(max, positions)
    /\ UNCHANGED <<chain, manager, fills, completed, merge, network>>

\* handle_redemption: both positions lose the pairs, one that is not there stays so.
BookMerge ==
    LET amount == Head(completed)
    IN  /\ completed # <<>>
        /\ completed' = Tail(completed)
        /\ received' = received + amount
        /\ positions' = [t \in Tokens |->
                            IF positions[t] = 0 THEN 0 ELSE positions[t] - amount]
        /\ unpriced' = {t \in unpriced : positions'[t] # 0}
        /\ UNCHANGED <<chain, policy, bought, fills, requested, merge, network>>

\* sync_positions looks at open positions and at the tokens bought before.
Synced == {t \in Tokens : positions[t] # 0 \/ t \in bought}

\* It writes the balance over the position, in one step here (PositionSync has the
\* two, and what can happen between them); a new position has no price.
Sync(token) ==
    /\ token \in Synced /\ positions[token] # held[token]
    /\ positions' = [positions EXCEPT ![token] = held[token]]
    /\ unpriced' = IF positions[token] = 0 THEN unpriced \cup {token}
                   ELSE {t \in unpriced : positions'[t] # 0}
    /\ UNCHANGED <<chain, policy, bought, received, fills, completed, requested,
                   merge, network>>

-------------------------------------------------------------------------------
(* The merge executor *)

executorOnly == <<chain, policy, manager, fills, completed>>

\* process_pending_merges drains the requests.
TakeRequest ==
    /\ requested /\ merge = None
    /\ requested' = FALSE
    /\ merge' = [phase |-> "asked", amount |-> 0]
    /\ UNCHANGED <<executorOnly, network>>

\* execute_merge reads the balances one after the other ...
ReadUp ==
    /\ merge # None /\ merge.phase = "asked"
    /\ merge' = [phase |-> "half", amount |-> held["up"]]
    /\ UNCHANGED <<executorOnly, requested, network>>

\* A merge of all the Up tokens.
Mergeable_UpOnly(up, down) == up

\* The merge takes the smaller balance, whatever quantity the action named.
Mergeable(up, down) == Min({up, down})

\* ... and gives up below the threshold.
ReadDown ==
    LET amount == Mergeable(merge.amount, held["down"])
    IN  /\ merge # None /\ merge.phase = "half"
        /\ merge' = IF amount < MinMerge THEN None
                    ELSE [phase |-> "read", amount |-> amount]
        /\ UNCHANGED <<executorOnly, requested, network>>

\* A balance or neg_risk cannot be read, or the transaction is refused.
MergeFails ==
    /\ merge # None /\ merge.phase \in {"asked", "half", "read"}
    /\ merge' = None
    /\ UNCHANGED <<executorOnly, requested, network>>

Submit ==
    /\ merge # None /\ merge.phase = "read"
    /\ merge' = [merge EXCEPT !.phase = "waiting"]
    /\ UNCHANGED <<executorOnly, requested, network>>

\* The transaction is sent, but the answer is an error.
SubmitAnswerLost ==
    /\ merge # None /\ merge.phase = "read"
    /\ merge' = None
    /\ abandoned' = abandoned \cup {merge.amount}
    /\ UNCHANGED <<executorOnly, requested, untold>>

\* A receipt that is taken for a success whatever its status.
Success_AnyStatus(phase) == phase \in {"mined", "doomed"}

\* The receipt's status is 0x1.
Success(phase) == phase = "mined"

\* handle_merge_confirmation: whether or not the merge was indexed, the event goes out.
Confirmed ==
    /\ merge # None /\ Success(merge.phase)
    /\ merge' = None
    /\ completed' = Append(completed, merge.amount)
    /\ UNCHANGED <<chain, policy, manager, fills, requested, network>>

\* The transaction reverted: the pairs are not there, or the nonce was used.
Reverted ==
    /\ merge # None
    /\ \/ merge.phase = "doomed"
       \/ merge.phase = "waiting" /\ merge.amount > Pairs(held)
    /\ merge' = None
    /\ UNCHANGED <<executorOnly, requested, network>>

\* No receipt was seen in time: nothing is told.
TimesOut ==
    /\ merge # None /\ merge.phase \in {"waiting", "mined", "doomed"}
    /\ merge' = None
    /\ abandoned' = IF merge.phase = "waiting" THEN abandoned \cup {merge.amount}
                    ELSE abandoned
    /\ untold' = IF merge.phase = "mined" THEN untold + merge.amount ELSE untold
    /\ UNCHANGED <<executorOnly, requested>>

-------------------------------------------------------------------------------
(* The chain *)

Burn(amount) ==
    /\ amount <= Pairs(held)
    /\ held' = [t \in Tokens |-> held[t] - amount]
    /\ paid' = paid + amount
    /\ abandoned' = {}
    /\ UNCHANGED <<trades, policy, manager, fills, completed, requested>>

Mined ==
    /\ merge # None /\ merge.phase = "waiting"
    /\ Burn(merge.amount)
    /\ merge' = [merge EXCEPT !.phase = "mined"]
    /\ UNCHANGED untold

AbandonedMined(amount) ==
    /\ amount \in abandoned
    /\ Burn(amount)
    /\ untold' = untold + amount
    /\ merge' = IF merge # None /\ merge.phase = "waiting"
                THEN [merge EXCEPT !.phase = "doomed"] ELSE merge

\* It reverts, or the network forgets it.
AbandonedDropped(amount) ==
    /\ amount \in abandoned
    /\ abandoned' = abandoned \ {amount}
    /\ UNCHANGED <<executorOnly, requested, merge, untold>>

-------------------------------------------------------------------------------

Next ==
    \/ \E t \in Tokens, n \in Lots :
          Trade(t, n) \/ \E source \in Sources : BookFill(t, n, source)
    \/ \E max \in Policies : Intent(max)
    \/ BookMerge
    \/ \E t \in Tokens : Sync(t)
    \/ TakeRequest \/ ReadUp \/ ReadDown \/ MergeFails
    \/ Submit \/ SubmitAnswerLost \/ Confirmed \/ Reverted \/ TimesOut
    \/ Mined
    \/ \E a \in abandoned : AbandonedMined(a) \/ AbandonedDropped(a)

\* The event loop, the syncs and the merge executor keep running, intents keep
\* coming, and what is asked of the chain succeeds in time again and again.
Fairness ==
    /\ \A t \in Tokens : \A n \in Lots :
          WF_vars(\E source \in Sources : BookFill(t, n, source))
    /\ \A t \in Tokens : SF_vars(Sync(t))
    /\ WF_vars(BookMerge)
    /\ WF_vars(\E max \in Policies : Intent(max))
    /\ WF_vars(TakeRequest)
    /\ SF_vars(ReadUp) /\ SF_vars(ReadDown) /\ SF_vars(Submit)
    /\ SF_vars(Mined) /\ WF_vars(Confirmed) /\ WF_vars(Reverted)

Spec == Init /\ [][Next]_vars /\ Fairness

-------------------------------------------------------------------------------

\* The variables have their types; a pair takes two trades.  (Proved, as is CreditedOnce,
\* in PositionProofs.)
TypeOK ==
    LET Amounts == 0 .. MaxTrades
        Merged  == 0 .. MaxTrades \div 2
    IN  /\ held \in [Tokens -> Amounts] /\ trades \in Amounts /\ paid \in Merged
        /\ policy = None \/ policy \in Policies
        /\ positions \in [Tokens -> -2 * MaxTrades .. 2 * MaxTrades]
        /\ unpriced \subseteq Tokens /\ bought \subseteq Tokens
        /\ received \in Merged
        /\ fills \in [Tokens -> [Lots -> Amounts]]
        /\ completed \in Seq(Merged)
        /\ requested \in BOOLEAN
        /\ merge = None \/ merge \in Merges
        /\ abandoned \subseteq Merged
        /\ untold \in Merged

\* The pairs of the first events, up to all of them.
Total(events) ==
    LET upto[i \in 0 .. Len(events)] ==
            IF i = 0 THEN 0 ELSE upto[i - 1] + events[i]
    IN  upto[Len(events)]

\* Pairs merged by the merge under way, which will be told.
MinedNow == IF merge # None /\ merge.phase = "mined" THEN merge.amount ELSE 0

\* However transactions time out, are lost, overtaken by an abandoned one or asked
\* for twice, every merged pair is credited once, but for those merged by a
\* transaction the executor had given up.
CreditedOnce == received + Total(completed) + untold + MinedNow = paid

\* Once the market's policy stays the same and trading ends, whatever failed before,
\* the positions come to the balances and the pairs to what the policy allows (or
\* to what is too little to merge), for good.
PolicyIsMet ==
    \A max \in Policies :
        <>[](policy = max) =>
            <>[](positions = held /\ (Pairs(held) <= max \/ Pairs(held) < MinMerge))

\* What RedemptionPolicy says: when the pairs exceed the limit, the system redeems
\* the excess.  So no merge takes more than is over the lowest limit there ever was.
\* (TLC refutes it: README, section 6.)
RedeemsOnlyExcess ==
    [][paid' # paid => paid' - paid <= Pairs(held) - Min(Policies)]_vars

================================================================================
