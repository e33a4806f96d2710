----------------------------- MODULE MessageFate -----------------------------
(***************************************************************************)
(* What the prompt queue of a conversation promises, without turns, pipes  *)
(* or files: a message waits until it is settled, once, and everything     *)
(* waiting when a turn goes out goes with it.                              *)
(***************************************************************************)
EXTENDS Naturals

CONSTANT Msgs

VARIABLES waiting, ran, returned, withdrawn, rejected

vars == <<waiting, ran, returned, withdrawn, rejected>>

Known == waiting \cup ran \cup returned \cup withdrawn \cup rejected

Init == waiting = {} /\ ran = {} /\ returned = {} /\ withdrawn = {} /\ rejected = {}

Accept(m) ==
    /\ m \notin Known
    /\ waiting' = waiting \cup {m}
    /\ UNCHANGED <<ran, returned, withdrawn, rejected>>

\* Some of the messages waiting become turns of the conversation.
Run(S) ==
    /\ S # {} /\ S \subseteq waiting
    /\ waiting' = waiting \ S /\ ran' = ran \cup S
    /\ UNCHANGED <<returned, withdrawn, rejected>>

\* A stop, or a turn that failed, hands messages back to the composer.
Return(S) ==
    /\ S # {} /\ S \subseteq waiting
    /\ waiting' = waiting \ S /\ returned' = returned \cup S
    /\ UNCHANGED <<ran, withdrawn, rejected>>

Withdraw(m) ==
    /\ m \in waiting
    /\ waiting' = waiting \ {m} /\ withdrawn' = withdrawn \cup {m}
    /\ UNCHANGED <<ran, returned, rejected>>

Reject(m) ==
    /\ m \in waiting
    /\ waiting' = waiting \ {m} /\ rejected' = rejected \cup {m}
    /\ UNCHANGED <<ran, returned, withdrawn>>

Next == \/ \E m \in Msgs : Accept(m) \/ Withdraw(m) \/ Reject(m)
        \/ \E S \in SUBSET Msgs : Run(S) \/ Return(S)

Safety == Init /\ [][Next]_vars

\* The step that settles m.
Settle(m) ==
    \/ Withdraw(m) \/ Reject(m)
    \/ \E S \in SUBSET Msgs : m \in S /\ (Run(S) \/ Return(S))

\* No message waits for ever.
Liveness == \A m \in Msgs : WF_vars(Settle(m))

Spec == Safety /\ Liveness
=============================================================================
