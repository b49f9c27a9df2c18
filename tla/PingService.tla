----------------------------- MODULE PingService -----------------------------
(***************************************************************************)
(* What a network of Pingers promises, without handshakes, queues or       *)
(* channels: nodes ask their peers, and every ping is answered once.       *)
(***************************************************************************)
EXTENDS Naturals

CONSTANT Link   \* the pairs <<asking node, asked peer>>

VARIABLES
    asked,     \* per link: the pings made
    answered   \* per link: the pongs received

Init ==
    /\ asked = [l \in Link |-> 0]
    /\ answered = [l \in Link |-> 0]

Ask(l) ==
    /\ asked' = [asked EXCEPT ![l] = @ + 1]
    /\ UNCHANGED answered

Answer(l) ==
    /\ answered[l] < asked[l]
    /\ answered' = [answered EXCEPT ![l] = @ + 1]
    /\ UNCHANGED asked

Next == \E l \in Link : Ask(l) \/ Answer(l)

Spec ==
    /\ Init
    /\ [][Next]_<<asked, answered>>
    /\ \A l \in Link : WF_<<asked, answered>>(Answer(l))
=============================================================================
