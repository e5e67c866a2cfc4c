--------------------------- MODULE SpinBarrierProofs ---------------------------
(***************************************************************************)
(* For any number of cores the counting barrier is a rendezvous.  The       *)
(* invariant that carries the proof is GenerationsAgree: it ties the count  *)
(* to the cores that wait in the current generation, so that the leader     *)
(* knows that everybody else is among them.                                 *)
(***************************************************************************)
EXTENDS SpinBarrier, FiniteSetTheorems, TLAPS

IInv == TypeOK /\ GenerationsAgree

\* There is at least one core, and the number of cores is a natural number.
LEMMA NumThreads == num_threads \in Nat /\ num_threads >= 1
<1>1. Cardinality(Core) \in Nat
  BY CoreAssumption, FS_CardinalityType, Zenon
<1>2. Cardinality(Core) # 0
  BY CoreAssumption, FS_EmptySet, Zenon
<1> QED  BY <1>1, <1>2 DEF num_threads

\* Before the first call nobody waits.
LEMMA InitGenerations == Init => IInv
<1> SUFFICES ASSUME Init PROVE IInv  BY Zenon
<1>1. Pending = {} /\ Cardinality({}) = 0
  BY FS_EmptySet, Zenon DEF Init, Pending
<1> QED  BY <1>1, NumThreads DEF Init, IInv, TypeOK, GenerationsAgree

\* The cores that wait in the current generation are finitely many.
LEMMA PendingFinite == TypeOK => IsFiniteSet(Pending) /\ Pending \subseteq Core
<1> SUFFICES ASSUME TypeOK PROVE IsFiniteSet(Pending) /\ Pending \subseteq Core  BY Zenon
<1>1. Pending \subseteq Core  BY Zenon DEF TypeOK, Pending
<1> QED  BY <1>1, CoreAssumption, FS_Subset, Zenon

\* A core that arrives and is not the last joins the waiting ones.
LEMMA ArriveStep == ASSUME IInv, NEW c \in Core, wait_arrive(c) PROVE IInv'
<1> USE DEF IInv
<1>1. TypeOK'
  BY NumThreads DEF TypeOK, wait_arrive
<1>2. Pending' = Pending \cup {c} /\ c \notin Pending
  BY Zenon DEF TypeOK, Pending, wait_arrive
<1>3. Cardinality(Pending') = count + 1
  BY <1>2, PendingFinite, FS_AddElement, Zenon DEF GenerationsAgree
<1>4. GenerationsAgree'
  BY <1>3, Zenon DEF GenerationsAgree, TypeOK, wait_arrive
<1> QED  BY <1>1, <1>4, Zenon

\* When the leader arrives, every other core waits in the current generation.
LEMMA LeaderIsLast ==
    ASSUME IInv, NEW c \in Core, wait_leader(c)
    PROVE  waiting = Core \ {c} /\ Pending = waiting
<1> USE DEF IInv
<1>1. IsFiniteSet(Core \ {c}) /\ Cardinality(Core \ {c}) = num_threads - 1
  BY CoreAssumption, FS_RemoveElement, Zenon DEF num_threads
<1>2. Pending \subseteq Core \ {c}
  BY PendingFinite, Zenon DEF Pending, wait_leader
<1>3. Cardinality(Pending) = num_threads - 1
  BY NumThreads DEF TypeOK, GenerationsAgree, wait_leader
<1>4. Pending = Core \ {c}
  BY <1>1, <1>2, <1>3, FS_Subset, Zenon
<1> QED  BY <1>4, Zenon DEF Pending, TypeOK, wait_leader

\* The leader starts a generation in which nobody waits yet.
LEMMA LeaderStep == ASSUME IInv, NEW c \in Core, wait_leader(c) PROVE IInv'
<1> USE DEF IInv
<1>1. TypeOK'
  BY NumThreads DEF TypeOK, wait_leader
<1>2. \A d \in waiting : local_gen[d] = generation_id
  BY LeaderIsLast, Zenon DEF Pending
<1>3. Pending' = {} /\ Cardinality({}) = 0
  BY <1>2, FS_EmptySet DEF Pending, TypeOK, wait_leader
<1>4. GenerationsAgree'
  BY <1>2, <1>3, LeaderIsLast, Zenon DEF GenerationsAgree, TypeOK, wait_leader
<1> QED  BY <1>1, <1>4, Zenon

\* Only a core of an earlier generation leaves the loop.
LEMMA LeaverIsReleased ==
    ASSUME IInv, NEW c \in Core, wait_leave(c)
    PROVE  local_gen[c] + 1 = generation_id /\ c \notin Pending
BY NumThreads DEF IInv, TypeOK, GenerationsAgree, Pending, wait_leave

\* A core that leaves is in the current generation and was not counted in it.
LEMMA LeaveStep == ASSUME IInv, NEW c \in Core, wait_leave(c) PROVE IInv'
<1> USE DEF IInv
<1>1. TypeOK'
  BY DEF TypeOK, wait_leave
<1>2. Pending' = Pending
  BY LeaverIsReleased, Zenon DEF Pending, wait_leave
<1>3. GenerationsAgree'
  BY <1>2, LeaverIsReleased, Zenon DEF GenerationsAgree, TypeOK, wait_leave
<1> QED  BY <1>1, <1>3, Zenon

\* Every step keeps the invariant.
LEMMA NextGenerations == IInv /\ [Next]_vars => IInv'
<1> SUFFICES ASSUME IInv, [Next]_vars PROVE IInv'  BY Zenon
<1>1. CASE Next
  <2>1. PICK c \in Core : sync_cores_barrier(c)  BY <1>1, Zenon DEF Next
  <2> QED  BY <2>1, ArriveStep, LeaderStep, LeaveStep, Zenon DEF sync_cores_barrier
<1>2. CASE UNCHANGED vars
  BY <1>2, Zenon DEF vars, IInv, TypeOK, GenerationsAgree, Pending
<1> QED  BY <1>1, <1>2, Zenon

\* The count and the generation of the barrier always agree with where the cores
\* are, for every number of cores.
THEOREM CountsWaiters == Spec => [](TypeOK /\ GenerationsAgree)
<1>1. Init => IInv  BY InitGenerations, Zenon
<1>2. IInv /\ [Next]_vars => IInv'  BY NextGenerations, Zenon
<1> QED  BY <1>1, <1>2, PTL DEF Spec, IInv

\* No core gets past a call of sync_cores_barrier before every core has made it.
THEOREM BarrierSeparates == Spec => []NobodyPassesEarly
<1>1. IInv => NobodyPassesEarly
  <2> SUFFICES ASSUME IInv, NEW c \in Core, NEW d \in Core PROVE passed[c] <= arrived[d]
    BY Zenon DEF NobodyPassesEarly
  <2>1. passed[c] \in Nat /\ arrived[d] \in Nat /\ generation_id \in Nat
        /\ local_gen[c] \in Nat /\ local_gen[d] \in Nat
    BY Zenon DEF IInv, TypeOK
  <2>2. passed[c] <= generation_id
    BY <2>1 DEF IInv, GenerationsAgree
  <2>3. generation_id <= arrived[d]
    BY <2>1 DEF IInv, GenerationsAgree
  <2> QED  BY <2>1, <2>2, <2>3
<1> QED  BY <1>1, CountsWaiters, PTL DEF IInv

\* The barrier on a count and a generation implements the rendezvous.
THEOREM BarrierImplementsRendezvous == Spec => ImplementsRendezvous
<1>1. Init => R!Init
  BY Zenon DEF Init, R!Init
<1>2. IInv /\ [Next]_vars => [R!Next]_(R!vars)
  <2> SUFFICES ASSUME IInv, [Next]_vars PROVE [R!Next]_(R!vars)  BY Zenon
  <2> USE DEF IInv
  <2>1. ASSUME NEW c \in Core, wait_arrive(c) PROVE R!Arrive(c)
    BY <2>1, Zenon DEF TypeOK, GenerationsAgree, wait_arrive, R!Arrive
  <2>2. ASSUME NEW c \in Core, wait_leader(c) PROVE R!ArriveAndPass(c)
    <3>1. \A d \in Core \ {c} : d \in waiting /\ local_gen[d] = generation_id
      BY <2>2, LeaderIsLast, Zenon DEF Pending
    <3>2. \A d \in Core \ {c} : arrived[d] > passed[c]
      BY <2>2, <3>1 DEF TypeOK, GenerationsAgree, wait_leader
    <3> QED  BY <2>2, <3>2, Zenon DEF TypeOK, GenerationsAgree, wait_leader, R!ArriveAndPass
  <2>3. ASSUME NEW c \in Core, wait_leave(c) PROVE R!Pass(c)
    <3>1. c \in waiting /\ local_gen[c] + 1 = generation_id
      BY <2>3, LeaverIsReleased, Zenon DEF wait_leave
    <3>2. \A d \in Core : arrived[d] >= generation_id
      BY DEF TypeOK, GenerationsAgree
    <3>3. passed[c] < generation_id
      BY <3>1 DEF TypeOK, GenerationsAgree
    <3> QED  BY <2>3, <3>1, <3>2, <3>3 DEF TypeOK, GenerationsAgree, wait_leave, R!Pass
  <2>4. CASE UNCHANGED vars
    BY <2>4, Zenon DEF vars, R!vars
  <2> QED  BY <2>1, <2>2, <2>3, <2>4, Zenon DEF Next, sync_cores_barrier, R!Next
<1> QED  BY <1>1, <1>2, CountsWaiters, PTL DEF Spec, IInv, ImplementsRendezvous, R!Spec
================================================================================
