------------------------------ MODULE SpinBarrier ------------------------------
(***************************************************************************)
(* sync_cores_barrier of smp.rs on top of spin::Barrier: a count and a      *)
(* generation number behind a lock.  The last core to arrive resets the     *)
(* count and starts a new generation; the others poll until they see it.    *)
(* The barrier is used again at once, so a core may arrive in the next      *)
(* generation before a slow one has noticed that the last one is over.      *)
(***************************************************************************)
EXTENDS Naturals, FiniteSets

CONSTANTS Core,     \* the cores that call sync_cores_barrier
          MaxSyncs  \* bound on the calls of each core

ASSUME CoreAssumption == IsFiniteSet(Core) /\ Core # {}
ASSUME MaxSyncsAssumption == MaxSyncs \in Nat

num_threads == Cardinality(Core) \* ap_count + 1

VARIABLES count, generation_id, \* the state behind the barrier's lock
          local_gen,            \* the generation in which each core last arrived
          waiting,              \* the cores polling inside wait
          arrived, passed       \* calls of wait begun and finished by each core

vars == <<count, generation_id, local_gen, waiting, arrived, passed>>

Init ==
    /\ count = 0 /\ generation_id = 0
    /\ local_gen = [c \in Core |-> 0]
    /\ waiting = {}
    /\ arrived = [c \in Core |-> 0]
    /\ passed = [c \in Core |-> 0]

\* wait, up to the first check of the loop: not the last to come
wait_arrive(c) ==
    /\ c \notin waiting /\ arrived[c] < MaxSyncs
    /\ count + 1 < num_threads
    /\ count' = count + 1
    /\ local_gen' = [local_gen EXCEPT ![c] = generation_id]
    /\ waiting' = waiting \cup {c}
    /\ arrived' = [arrived EXCEPT ![c] = @ + 1]
    /\ UNCHANGED <<generation_id, passed>>

\* Mutant: no new generation begins
wait_leader_same_generation(c) ==
    /\ c \notin waiting /\ arrived[c] < MaxSyncs
    /\ count + 1 >= num_threads
    /\ count' = 0
    /\ arrived' = [arrived EXCEPT ![c] = @ + 1]
    /\ passed' = [passed EXCEPT ![c] = @ + 1]
    /\ UNCHANGED <<generation_id, local_gen, waiting>>

\* Mutant: made for ap_count threads, the BSP forgotten
wait_leader_one_short(c) ==
    /\ c \notin waiting /\ arrived[c] < MaxSyncs
    /\ count + 2 >= num_threads
    /\ count' = 0
    /\ generation_id' = generation_id + 1
    /\ arrived' = [arrived EXCEPT ![c] = @ + 1]
    /\ passed' = [passed EXCEPT ![c] = @ + 1]
    /\ UNCHANGED <<local_gen, waiting>>

\* wait of the leader, which does not block
wait_leader(c) ==
    /\ c \notin waiting /\ arrived[c] < MaxSyncs
    /\ count + 1 >= num_threads
    /\ count' = 0
    /\ generation_id' = generation_id + 1
    /\ arrived' = [arrived EXCEPT ![c] = @ + 1]
    /\ passed' = [passed EXCEPT ![c] = @ + 1]
    /\ UNCHANGED <<local_gen, waiting>>

\* Mutant: the loop is left without looking at the generation
wait_leave_at_once(c) ==
    /\ c \in waiting
    /\ waiting' = waiting \ {c}
    /\ passed' = [passed EXCEPT ![c] = @ + 1]
    /\ UNCHANGED <<count, generation_id, local_gen, arrived>>

\* a poll that finds the loop's condition false
wait_leave(c) ==
    /\ c \in waiting
    /\ ~(local_gen[c] = generation_id /\ count < num_threads)
    /\ waiting' = waiting \ {c}
    /\ passed' = [passed EXCEPT ![c] = @ + 1]
    /\ UNCHANGED <<count, generation_id, local_gen, arrived>>

sync_cores_barrier(c) == wait_arrive(c) \/ wait_leader(c) \/ wait_leave(c)

Next == \E c \in Core : sync_cores_barrier(c)

Spec == Init /\ [][Next]_vars
FairSpec == Spec /\ \A c \in Core : WF_vars(sync_cores_barrier(c))
--------------------------------------------------------------------------------
TypeOK ==
    /\ count \in 0 .. num_threads - 1
    /\ generation_id \in Nat
    /\ local_gen \in [Core -> Nat]
    /\ waiting \in SUBSET Core
    /\ arrived \in [Core -> Nat]
    /\ passed \in [Core -> Nat]

\* The cores that arrived in the current generation and wait for its end
Pending == {c \in waiting : local_gen[c] = generation_id}

\* The count is the number of cores waiting in the current generation, and every
\* core is at most one barrier away from the generation: a core that runs is in it,
\* one that waits is about to enter it or has yet to notice that it began.
GenerationsAgree ==
    /\ count = Cardinality(Pending)
    /\ \A c \in Core \ waiting : arrived[c] = generation_id /\ passed[c] = generation_id
    /\ \A c \in waiting :
          /\ arrived[c] = local_gen[c] + 1 /\ passed[c] = local_gen[c]
          /\ local_gen[c] = generation_id \/ local_gen[c] + 1 = generation_id

\* No core is past a barrier another core has not come to: what kernel_main, main
\* and the APs rely on whenever they call sync_cores_barrier.
NobodyPassesEarly == \A c, d \in Core : passed[c] <= arrived[d]

R == INSTANCE Rendezvous

\* The counting barrier implements the rendezvous.
ImplementsRendezvous == R!Spec

\* Nobody is left behind in a barrier: with every core calling it equally often,
\* each call ends although the barrier is reused before all have left it.
EveryoneGetsThrough == <>(\A c \in Core : passed[c] = MaxSyncs)
================================================================================
