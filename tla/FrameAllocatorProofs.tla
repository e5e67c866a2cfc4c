-------------------------- MODULE FrameAllocatorProofs --------------------------
(***************************************************************************)
(* Proofs about the linked free list of memory.rs, for every memory map     *)
(* (every sequence Usable of distinct frames).                              *)
(***************************************************************************)
EXTENDS FrameAllocator, FiniteSetTheorems, TLAPS

\* The counters and the ghost set move together; with the ranked list this is
\* the inductive invariant behind every theorem of this module.
CountsAgree ==
    /\ IsFiniteSet(allocated)
    /\ free_frames + Cardinality(allocated) = total_frames

IInv == TypeOK /\ ListRanked /\ CountsAgree

\* A frame stands at one position of Usable, the one Position computes.
LEMMA PositionCorrect ==
    \A i \in 1..Len(Usable) : Usable[i] \in Frame /\ Position(Usable[i]) = i
PROOF
  <1> TAKE i \in 1..Len(Usable)
  <1>1. Usable[i] \in Frame
    BY Zenon DEF Frame
  <1>2. \A j \in 1..Len(Usable) : Usable[j] = Usable[i] => j = i
    BY UsableAssumption, Zenon
  <1> QED
    BY <1>1, <1>2, Zenon DEF Position

\* Every frame has a position.
LEMMA FrameHasPosition ==
    \A f \in Frame : Position(f) \in 1..Len(Usable) /\ Usable[Position(f)] = f
PROOF
  <1> TAKE f \in Frame
  <1>1. PICK i \in 1..Len(Usable) : f = Usable[i]
    BY Zenon DEF Frame
  <1> QED
    BY <1>1, PositionCorrect, Zenon

\* None is no frame, so an Option is never ambiguous.
LEMMA NoneNotFrame == None \notin Frame
PROOF
  <1>1. \A i \in 1..Len(Usable) : Usable[i] \in Nat
    BY UsableAssumption
  <1> QED
    BY <1>1, NoneAssumption, Zenon DEF Frame

\* The list that initialize_free_memory builds is ranked and fully free.
LEMMA InitRanked == Init => IInv
PROOF
  <1> SUFFICES ASSUME Init PROVE IInv
    BY Zenon
  <1> DEFINE N == Len(Usable)
  <1>0. N \in Nat
    BY UsableAssumption
  <1>1. \A i \in 0..N : Peek(i) \in Frame \cup {None}
    BY <1>0, PositionCorrect DEF Peek
  <1>2. TypeOK
    <2>1. node \in [Frame -> FreeNode]
      BY <1>0, <1>1, FrameHasPosition DEF Init, FreeNode
    <2>2. rank \in [Frame -> 0..N]
      BY <1>0, FrameHasPosition DEF Init
    <2> QED
      BY <1>0, <1>1, <2>1, <2>2 DEF Init, TypeOK
  <1>3. ListRanked
    <2>1. \A f \in Frame : rank[f] # 0 /\ rank[f] <= free_frames
      BY <1>0, FrameHasPosition DEF Init
    <2>2. \A f, g \in Frame : rank[f] = rank[g] => f = g
      BY <1>0, FrameHasPosition DEF Init
    <2>3. IF free_frames = 0 THEN free_memory_head = None
          ELSE free_memory_head \in Frame /\ rank[free_memory_head] = free_frames
      BY <1>0, PositionCorrect DEF Init, Peek
    <2>4. ASSUME NEW f \in Frame
          PROVE  /\ node[f].frame = f
                 /\ IF rank[f] = 1 THEN node[f].next = None
                    ELSE node[f].next \in Frame /\ rank[node[f].next] = rank[f] - 1
      BY <1>0, FrameHasPosition, PositionCorrect DEF Init, Peek
    <2> QED
      BY <2>1, <2>2, <2>3, <2>4, Zenon DEF ListRanked, Init
  <1>4. CountsAgree
    BY <1>0, FS_EmptySet DEF Init, CountsAgree
  <1> QED
    BY <1>2, <1>3, <1>4, Zenon DEF IInv

\* Taking the head leaves the rest of the list ranked; the frame taken was free.
LEMMA AllocateStep ==
    ASSUME IInv, allocate_frame
    PROVE  /\ IInv'
           /\ result' \in Frame \ allocated
           /\ allocated' = allocated \cup {result'}
PROOF
  <1> DEFINE h == free_memory_head
  <1> USE UsableAssumption DEF IInv
  <1>1. h \in Frame /\ h \notin allocated /\ node[h].frame = h /\ rank[h] = free_frames /\ free_frames # 0
    BY NoneNotFrame, Zenon DEF TypeOK, ListRanked, allocate_frame
  <1>2. node[h].next \in Frame \cup {None}
    BY <1>1, Zenon DEF TypeOK, FreeNode
  <1>3. TypeOK'
    BY <1>1, <1>2 DEF TypeOK, allocate_frame
  <1>4. ListRanked'
    <2>1. \A f \in Frame : rank'[f] = IF f = h THEN 0 ELSE rank[f]
      BY Zenon DEF TypeOK, allocate_frame
    <2>2. \A f \in Frame : rank'[f] = 0 <=> f \in allocated'
      BY <1>1, <2>1 DEF ListRanked, allocate_frame
    <2>3. \A f \in Frame : rank'[f] <= free_frames'
      BY <1>1, <2>1 DEF TypeOK, ListRanked, allocate_frame
    <2>4. \A f, g \in Frame : rank'[f] = rank'[g] /\ rank'[f] # 0 => f = g
      BY <2>1 DEF ListRanked
    <2>5. IF free_frames' = 0 THEN free_memory_head' = None
          ELSE free_memory_head' \in Frame /\ rank'[free_memory_head'] = free_frames'
      BY <1>1, <2>1 DEF TypeOK, ListRanked, allocate_frame
    <2>6. \A f \in Frame : rank'[f] # 0 =>
            /\ node'[f].frame = f
            /\ IF rank'[f] = 1 THEN node'[f].next = None
               ELSE node'[f].next \in Frame /\ rank'[node'[f].next] = rank'[f] - 1
      <3> SUFFICES ASSUME NEW f \in Frame, rank'[f] # 0
                   PROVE  /\ node'[f].frame = f
                          /\ IF rank'[f] = 1 THEN node'[f].next = None
                             ELSE node'[f].next \in Frame /\ rank'[node'[f].next] = rank'[f] - 1
        BY Zenon
      <3>1. f # h /\ rank'[f] = rank[f] /\ rank[f] <= free_frames /\ rank[f] \in Nat /\ node' = node
        BY <2>1 DEF TypeOK, ListRanked, allocate_frame
      <3>2. rank[f] # 1 => node[f].next # h
        BY <1>1, <3>1 DEF TypeOK, ListRanked
      <3> QED
        BY <2>1, <3>1, <3>2, Zenon DEF ListRanked
    <2> QED
      BY <2>2, <2>3, <2>4, <2>5, <2>6, Zenon DEF ListRanked
  <1>5. CountsAgree'
    <2>1. Cardinality(allocated') = Cardinality(allocated) + 1 /\ IsFiniteSet(allocated')
      BY <1>1, FS_AddElement, Zenon DEF CountsAgree, allocate_frame
    <2>2. Cardinality(allocated) \in Nat
      BY FS_CardinalityType, Zenon DEF CountsAgree
    <2> QED
      BY <1>1, <2>1, <2>2 DEF CountsAgree, TypeOK, allocate_frame
  <1> QED
    BY <1>1, <1>3, <1>4, <1>5, Zenon DEF allocate_frame

\* A frame given back becomes the head, one rank above everything listed.
LEMMA DeallocateStep ==
    ASSUME IInv, NEW frame \in allocated, deallocate_frame(frame)
    PROVE  IInv'
PROOF
  <1> USE UsableAssumption DEF IInv
  <1>1. frame \in Frame /\ rank[frame] = 0
    BY Zenon DEF TypeOK, ListRanked
  <1>2. /\ IsFiniteSet(allocated') /\ Cardinality(allocated') = Cardinality(allocated) - 1
        /\ Cardinality(allocated) \in Nat /\ Cardinality(allocated') \in Nat
    BY FS_RemoveElement, FS_CardinalityType, Zenon DEF CountsAgree, deallocate_frame
  <1>3. CountsAgree'
    BY <1>2 DEF CountsAgree, TypeOK, deallocate_frame
  <1>4. free_frames + 1 \in 1..Len(Usable)
    BY <1>2 DEF CountsAgree, TypeOK
  <1>5. TypeOK'
    BY <1>1, <1>4 DEF TypeOK, FreeNode, deallocate_frame
  <1>6. ListRanked'
    <2>1. \A f \in Frame : rank'[f] = IF f = frame THEN free_frames + 1 ELSE rank[f]
      BY Zenon DEF TypeOK, deallocate_frame
    <2>2. \A f \in Frame : rank'[f] = 0 <=> f \in allocated'
      BY <1>1, <1>4, <2>1 DEF ListRanked, deallocate_frame
    <2>3. \A f \in Frame : rank'[f] <= free_frames'
      BY <2>1 DEF TypeOK, ListRanked, deallocate_frame
    <2>4. \A f, g \in Frame : rank'[f] = rank'[g] /\ rank'[f] # 0 => f = g
      BY <2>1 DEF TypeOK, ListRanked
    <2>5. IF free_frames' = 0 THEN free_memory_head' = None
          ELSE free_memory_head' \in Frame /\ rank'[free_memory_head'] = free_frames'
      BY <1>1, <1>4, <2>1 DEF deallocate_frame
    <2>6. \A f \in Frame : rank'[f] # 0 =>
            /\ node'[f].frame = f
            /\ IF rank'[f] = 1 THEN node'[f].next = None
               ELSE node'[f].next \in Frame /\ rank'[node'[f].next] = rank'[f] - 1
      <3> SUFFICES ASSUME NEW f \in Frame, rank'[f] # 0
                   PROVE  /\ node'[f].frame = f
                          /\ IF rank'[f] = 1 THEN node'[f].next = None
                             ELSE node'[f].next \in Frame /\ rank'[node'[f].next] = rank'[f] - 1
        BY Zenon
      <3>1. CASE f = frame
        <4>1. node'[f] = [next |-> free_memory_head, frame |-> frame]
          BY <1>1, <3>1, Zenon DEF TypeOK, deallocate_frame
        <4>2. free_memory_head # None => free_memory_head # frame
          BY <1>1, NoneNotFrame, Zenon DEF TypeOK, ListRanked
        <4> QED
          BY <1>1, <1>4, <2>1, <3>1, <4>1, <4>2 DEF TypeOK, ListRanked
      <3>2. CASE f # frame
        <4>1. node'[f] = node[f] /\ rank'[f] = rank[f] /\ rank[f] # 0 /\ rank[f] \in Nat
          BY <2>1, <3>2 DEF TypeOK, deallocate_frame
        <4>2. rank[f] # 1 => node[f].next # frame
          BY <1>1, <4>1 DEF ListRanked
        <4> QED
          BY <2>1, <4>1, <4>2 DEF ListRanked
      <3> QED
        BY <3>1, <3>2, Zenon
    <2> QED
      BY <2>2, <2>3, <2>4, <2>5, <2>6, Zenon DEF ListRanked
  <1> QED
    BY <1>3, <1>5, <1>6, Zenon

\* An owner's write reaches no node of the list.
LEMMA OverwriteStep ==
    ASSUME IInv, NEW frame \in allocated, Overwrite(frame)
    PROVE  IInv'
PROOF
  <1> USE DEF IInv
  <1>1. frame \in Frame /\ rank[frame] = 0
    BY Zenon DEF TypeOK, ListRanked
  <1>2. node' \in [Frame -> FreeNode] /\ \A f \in Frame : f # frame => node'[f] = node[f]
    BY Zenon DEF TypeOK, Overwrite
  <1>3. TypeOK'
    BY <1>2, Zenon DEF TypeOK, Overwrite
  <1>4. ListRanked'
    BY <1>1, <1>2 DEF ListRanked, Overwrite
  <1> QED
    BY <1>3, <1>4, Zenon DEF CountsAgree, Overwrite

\* IInv is inductive: one case per operation of the allocator.
LEMMA NextRanked == IInv /\ [Next]_vars => IInv'
PROOF
  <1> SUFFICES ASSUME IInv, [Next]_vars PROVE IInv'
    BY Zenon
  <1>1. CASE allocate_frame
    BY <1>1, AllocateStep, Zenon
  <1>2. CASE allocate_frame_none
    BY <1>2, Zenon DEF allocate_frame_none, IInv, TypeOK, ListRanked, CountsAgree
  <1>3. CASE \E f \in allocated : deallocate_frame(f)
    BY Zenon, <1>3, DeallocateStep
  <1>4. CASE \E f \in allocated : Overwrite(f)
    BY <1>4, OverwriteStep, Zenon
  <1>5. CASE UNCHANGED vars
    BY <1>5, Zenon DEF vars, IInv, TypeOK, ListRanked, CountsAgree
  <1> QED
    BY <1>1, <1>2, <1>3, <1>4, <1>5, Zenon DEF Next

\* The inductive invariant holds in every reachable state.
LEMMA Ranked == Spec => []IInv
  BY InitRanked, NextRanked, PTL DEF Spec

\* The state of BootInfoFrameAllocator always has its declared shape; in
\* particular free_frames, a u64, never drops below zero nor exceeds the total.
THEOREM TypeCorrect == Spec => []TypeOK
  BY Ranked, PTL DEF IInv

\* The free list of memory.rs is a chain of distinct free frames of length
\* free_frames that no owner of a handed out frame can damage.
THEOREM ListStaysRanked == Spec => []ListRanked
  BY Ranked, PTL DEF IInv

\* get_memory_utilization is exact at all times, whatever the memory map.
THEOREM UtilizationIsExact == Spec => []UtilizationExact
PROOF
  <1>1. Cardinality(Frame) = Len(Usable)
    <2> DEFINE N == Len(Usable)
               u == [i \in 1..N |-> Usable[i]]
    <2>1. N \in Nat
      BY UsableAssumption
    <2>2. u \in Bijection(1..N, Frame)
      <3>1. u \in [1..N -> Frame]
        BY Zenon DEF Frame
      <3>2. \A i, j \in 1..N : u[i] = u[j] => i = j
        BY UsableAssumption, Zenon
      <3>3. \A f \in Frame : \E i \in 1..N : u[i] = f
        BY Zenon DEF Frame
      <3> QED
        BY <3>1, <3>2, <3>3, Zenon DEF Bijection, Injection, Surjection, IsInjective
    <2> QED
      BY <2>1, <2>2, FS_CountingElements, Zenon DEF ExistsBijection
  <1>2. IInv => UtilizationExact
    <2> SUFFICES ASSUME IInv PROVE UtilizationExact
      BY Zenon
    <2>1. Cardinality(allocated) \in Nat
      BY FS_CardinalityType, Zenon DEF IInv, CountsAgree
    <2> QED
      BY <1>1, <2>1, UsableAssumption DEF IInv, CountsAgree, TypeOK, UtilizationExact, get_memory_utilization
  <1> QED
    BY <1>2, Ranked, PTL

\* The linked list implements the abstract pool: a grant is a frame nobody holds
\* and a refusal means that every frame is held.
THEOREM ListImplementsPool == Spec => ImplementsPool
PROOF
  <1>1. Init => FP!Init
    BY Zenon DEF Init, FP!Init
  <1>2. IInv /\ [Next]_vars => [FP!Next]_(FP!vars)
    <2> SUFFICES ASSUME IInv, [Next]_vars PROVE [FP!Next]_(FP!vars)
      BY Zenon
    <2>1. CASE allocate_frame
      BY <2>1, AllocateStep, Zenon DEF FP!Next, FP!Grant
    <2>2. CASE allocate_frame_none
      <3>1. free_frames = 0
        BY <2>2, NoneNotFrame, Zenon DEF allocate_frame_none, IInv, ListRanked
      <3>2. \A f \in Frame : rank[f] \in Nat /\ rank[f] <= 0
        BY <3>1, UsableAssumption DEF IInv, TypeOK, ListRanked
      <3>3. \A f \in Frame : f \in allocated
        BY <3>2 DEF IInv, ListRanked
      <3>4. allocated = Frame
        BY <3>3, Zenon DEF IInv, TypeOK
      <3> QED
        BY <2>2, <3>4, Zenon DEF allocate_frame_none, FP!Next, FP!Refuse
    <2>3. CASE \E f \in allocated : deallocate_frame(f)
      BY <2>3, Zenon DEF deallocate_frame, FP!Next, FP!GiveBack
    <2>4. CASE \E f \in allocated : Overwrite(f)
      BY <2>4, Zenon DEF Overwrite, FP!vars
    <2>5. CASE UNCHANGED vars
      BY <2>5, Zenon DEF vars, FP!vars
    <2> QED
      BY <2>1, <2>2, <2>3, <2>4, <2>5, Zenon DEF Next
  <1> QED
    BY <1>1, <1>2, Ranked, PTL DEF Spec, ImplementsPool, FP!Spec
================================================================================
