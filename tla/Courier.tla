------------------------------- MODULE Courier -------------------------------
(***************************************************************************)
(* What the outgoing queue of chatr promises: every text that is typed     *)
(* waits until it is sent, and is sent as often as it was typed.  Which of *)
(* several equal texts goes first, and to whom, is left open: the code     *)
(* tells messages apart by their text.                                     *)
(***************************************************************************)
EXTENDS Naturals

CONSTANT Bodies     \* the texts

VARIABLES
    waiting,        \* waiting[b]: how many copies of b are still to be sent
    sent            \* sent[b]: how many copies of b were sent

vars == <<waiting, sent>>

Init ==
    /\ waiting = [b \in Bodies |-> 0]
    /\ sent = [b \in Bodies |-> 0]

Type(b) ==
    /\ waiting' = [waiting EXCEPT ![b] = @ + 1]
    /\ UNCHANGED sent

Send(b) ==
    /\ waiting[b] > 0
    /\ waiting' = [waiting EXCEPT ![b] = @ - 1]
    /\ sent' = [sent EXCEPT ![b] = @ + 1]

Next == \E b \in Bodies : Type(b) \/ Send(b)

Spec == Init /\ [][Next]_vars

=============================================================================
