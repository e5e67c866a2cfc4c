----------------------------- MODULE FrameAllocator -----------------------------
(***************************************************************************)
(* BootInfoFrameAllocator of memory.rs: the free physical frames form a     *)
(* linked list whose nodes live inside the free frames themselves.  A frame *)
(* that is handed out is ordinary memory, so its owner may overwrite the    *)
(* bytes of the old node at any time; the list must never lead through it.  *)
(* Every call is made with the MEMORY lock held, so a call is one step.     *)
(***************************************************************************)
EXTENDS Naturals, Sequences, FiniteSets

CONSTANTS Usable, \* the frames of raw_usable_frame_addresses, in its order
          None    \* Option::None

ASSUME UsableAssumption ==
    /\ Usable \in Seq(Nat)
    /\ \A i, j \in 1..Len(Usable) : Usable[i] = Usable[j] => i = j

ASSUME NoneAssumption == None \notin Nat

Frame == {Usable[i] : i \in 1..Len(Usable)}

\* struct FreeNode; any bit pattern can be read as one
FreeNode == [next : Frame \cup {None}, frame : Frame]

VARIABLES
    free_memory_head, \* the first free frame, or None
    total_frames,
    free_frames,
    node,             \* what each frame holds, read as a FreeNode
    allocated,        \* the frames the callers hold
    result,           \* what the last allocate_frame returned
    rank              \* auxiliary: distance of a listed frame to the list's
                      \* end, 0 for a frame that is not on the list

vars == <<free_memory_head, total_frames, free_frames, node, allocated, result, rank>>

Position(f) == CHOOSE i \in 1..Len(Usable) : Usable[i] = f

\* Mutant: the last usable frame is never linked
Peek_drops_last(i) == IF i + 1 < Len(Usable) THEN Usable[i + 1] ELSE None

\* the iterator's peek(): the address after position i, if there is one
Peek(i) == IF i < Len(Usable) THEN Usable[i + 1] ELSE None

\* initialize_free_memory links the usable frames in their order
Init ==
    /\ free_memory_head = Peek(0)
    /\ total_frames = Len(Usable)
    /\ free_frames = Len(Usable)
    /\ node = [f \in Frame |-> [next |-> Peek(Position(f)), frame |-> f]]
    /\ allocated = {}
    /\ result = None
    /\ rank = [f \in Frame |-> Len(Usable) + 1 - Position(f)]

\* Mutant: free_frames is not decremented
allocate_frame_uncounted ==
    /\ free_memory_head # None
    /\ LET n == node[free_memory_head] IN
       /\ free_memory_head' = n.next
       /\ result' = n.frame
       /\ allocated' = allocated \cup {n.frame}
       /\ rank' = [rank EXCEPT ![free_memory_head] = 0]
    /\ UNCHANGED <<total_frames, free_frames, node>>

\* Mutant: the head is not advanced
allocate_frame_keeps_head ==
    /\ free_memory_head # None
    /\ LET n == node[free_memory_head] IN
       /\ free_frames' = free_frames - 1
       /\ result' = n.frame
       /\ allocated' = allocated \cup {n.frame}
       /\ rank' = [rank EXCEPT ![free_memory_head] = 0]
    /\ UNCHANGED <<free_memory_head, total_frames, node>>

allocate_frame ==
    /\ free_memory_head # None
    /\ LET n == node[free_memory_head] IN
       /\ free_frames' = free_frames - 1
       /\ free_memory_head' = n.next
       /\ result' = n.frame
       /\ allocated' = allocated \cup {n.frame}
       /\ rank' = [rank EXCEPT ![free_memory_head] = 0]
    /\ UNCHANGED <<total_frames, node>>

\* Option::map of None: the caller gets None, and panics with "Out of memory"
allocate_frame_none ==
    /\ free_memory_head = None
    /\ result' = None
    /\ UNCHANGED <<free_memory_head, total_frames, free_frames, node, allocated, rank>>

\* Mutant: the node is written but the head is left where it was
deallocate_frame_unlinked(frame) ==
    /\ frame \in allocated
    /\ node' = [node EXCEPT ![frame] = [next |-> free_memory_head, frame |-> frame]]
    /\ free_frames' = free_frames + 1
    /\ allocated' = allocated \ {frame}
    /\ rank' = [rank EXCEPT ![frame] = free_frames + 1]
    /\ UNCHANGED <<free_memory_head, total_frames, result>>

deallocate_frame(frame) ==
    /\ frame \in allocated
    /\ node' = [node EXCEPT ![frame] = [next |-> free_memory_head, frame |-> frame]]
    /\ free_memory_head' = frame
    /\ free_frames' = free_frames + 1
    /\ allocated' = allocated \ {frame}
    /\ rank' = [rank EXCEPT ![frame] = free_frames + 1]
    /\ UNCHANGED <<total_frames, result>>

\* the owner of a frame writes to it: page table entries, heap or program data
Overwrite(frame) ==
    /\ frame \in allocated
    /\ \E n \in FreeNode : node' = [node EXCEPT ![frame] = n]
    /\ UNCHANGED <<free_memory_head, total_frames, free_frames, allocated, result, rank>>

Next ==
    \/ allocate_frame
    \/ allocate_frame_none
    \/ \E f \in allocated : deallocate_frame(f)
    \/ \E f \in allocated : Overwrite(f)

Spec == Init /\ [][Next]_vars

get_memory_utilization == <<total_frames - free_frames, total_frames>>
--------------------------------------------------------------------------------
TypeOK ==
    /\ free_memory_head \in Frame \cup {None}
    /\ total_frames = Len(Usable)
    /\ free_frames \in 0..Len(Usable)
    /\ node \in [Frame -> FreeNode]
    /\ allocated \in SUBSET Frame
    /\ result \in Frame \cup {None}
    /\ rank \in [Frame -> 0..Len(Usable)]

\* The links followed from free_memory_head, k nodes deep
Walk ==
    LET w[k \in 0..Len(Usable)] ==
          IF k = 0 THEN free_memory_head
          ELSE IF w[k - 1] = None THEN None ELSE node[w[k - 1]].next
    IN w

\* Following the links from free_memory_head visits exactly the frames nobody
\* holds and then ends, however the owners of handed out frames overwrite the
\* nodes that used to be in them (allocate_frame leaves its node in place).
ListIsFreeFrames ==
    /\ Walk[Len(Usable)] = None
    /\ {Walk[k] : k \in DOMAIN Walk} \ {None} = Frame \ allocated

\* get_memory_utilization reports as used exactly the frames callers hold: the
\* counters allocate_frame and deallocate_frame adjust never drift from the list.
UtilizationExact ==
    get_memory_utilization = <<Cardinality(allocated), Cardinality(Frame)>>

\* rank orders the listed frames from the head down to 1, each link lowering it
\* by one; this is what makes ListIsFreeFrames inductive.
ListRanked ==
    /\ \A f \in Frame : rank[f] = 0 <=> f \in allocated
    /\ \A f \in Frame : rank[f] <= free_frames
    /\ \A f, g \in Frame : rank[f] = rank[g] /\ rank[f] # 0 => f = g
    /\ IF free_frames = 0 THEN free_memory_head = None
       ELSE free_memory_head \in Frame /\ rank[free_memory_head] = free_frames
    /\ \A f \in Frame : rank[f] # 0 =>
          /\ node[f].frame = f
          /\ IF rank[f] = 1 THEN node[f].next = None
             ELSE node[f].next \in Frame /\ rank[node[f].next] = rank[f] - 1

FP == INSTANCE FramePool WITH Pool <- Frame, out <- allocated

\* The linked list implements the pool: allocate_frame never hands out a frame
\* that is held, and returns None only when every frame is held.
ImplementsPool == FP!Spec
================================================================================
