------------------------------- MODULE Rendezvous -------------------------------
(***************************************************************************)
(* What sync_cores_barrier of smp.rs promises: nobody gets past the k-th    *)
(* barrier before every core has come to it.                                *)
(***************************************************************************)
EXTENDS Naturals

CONSTANTS Core

VARIABLES arrived, \* how many barriers each core has come to
          passed   \* how many it has got past

vars == <<arrived, passed>>

Init ==
    /\ arrived = [c \in Core |-> 0]
    /\ passed = [c \in Core |-> 0]

Arrive(c) ==
    /\ arrived[c] = passed[c]
    /\ arrived' = [arrived EXCEPT ![c] = @ + 1]
    /\ UNCHANGED passed

Pass(c) ==
    /\ passed[c] < arrived[c]
    /\ \A d \in Core : arrived[d] > passed[c]
    /\ passed' = [passed EXCEPT ![c] = @ + 1]
    /\ UNCHANGED arrived

\* the last core to come, the leader, does not wait
ArriveAndPass(c) ==
    /\ arrived[c] = passed[c]
    /\ \A d \in Core \ {c} : arrived[d] > passed[c]
    /\ arrived' = [arrived EXCEPT ![c] = @ + 1]
    /\ passed' = [passed EXCEPT ![c] = @ + 1]

Next == \E c \in Core : Arrive(c) \/ Pass(c) \/ ArriveAndPass(c)

Spec == Init /\ [][Next]_vars
================================================================================
