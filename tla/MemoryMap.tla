------------------------------- MODULE MemoryMap -------------------------------
(***************************************************************************)
(* initialize_free_memory of memory.rs: from the memory regions the         *)
(* bootloader reports and the pages its ram disk is mapped to, compute the  *)
(* usable frame addresses and link them into the free list.                 *)
(* Addresses are bytes; PageSize stands for 4096.                           *)
(***************************************************************************)
EXTENDS Integers, FiniteSets, SequencesExt

CONSTANTS PageSize, \* bytes per frame
          Memory,   \* bytes of physical memory
          None

ASSUME PageSizeAssumption == PageSize \in Nat \ {0} /\ Memory \in Nat

VARIABLES memory_regions,   \* boot_info.memory_regions, in ascending order
          ramdisk,          \* physical address and length of the ram disk
          pending,          \* what the peekable iterator has still to yield
          free_memory_head,
          node,             \* the FreeNodes written so far, by address
          frame_count

vars == <<memory_regions, ramdisk, pending, free_memory_head, node, frame_count>>

align_down(a) == a - (a % PageSize)
\* Mutant: a region that starts inside a frame keeps that frame
align_up_rounds_down(a) == align_down(a)

align_up(a) == align_down(a + PageSize - 1)

\* the frames of the ram disk, which is physically contiguous (asserted)
already_mapped_range ==
    LET base_addr == align_down(ramdisk.addr)
    IN  base_addr .. base_addr + align_up(ramdisk.len) - PageSize

\* Mutant: the last frame of a region is left out
FramesOf_short(r) ==
    LET first == align_up(r.start)
        last  == align_down(r.end)
    IN  [i \in 1..((last - first) \div PageSize - 1) |-> first + (i - 1) * PageSize]

\* (start..end).step_by(4096) over one region shrunk to whole frames
FramesOf(r) ==
    LET first == align_up(r.start)
        last  == align_down(r.end)
    IN  [i \in 1..((last - first) \div PageSize) |-> first + (i - 1) * PageSize]

raw_usable_frame_addresses ==
    LET usable == SelectSeq(memory_regions, LAMBDA r : r.usable /\ r.start > 0)
        frames == FlattenSeq([i \in DOMAIN usable |-> FramesOf(usable[i])])
    IN  SelectSeq(frames, LAMBDA a : a \notin already_mapped_range)

PeekOf(s) == IF s = <<>> THEN None ELSE Head(s)

\* the regions a bootloader reports: ascending, disjoint, of any alignment
Region == {r \in [start : 0..Memory, end : 0..Memory, usable : BOOLEAN] : r.start < r.end}
RegionMaps == {<<r>> : r \in Region} \cup
              {s \in Region \X Region : s[1].end <= s[2].start}

\* the bootloader maps the ram disk from the start of a page on
RamDisks == [addr : {a \in 0..Memory : a % PageSize = 0}, len : 1..(2 * PageSize + 1)]

Init ==
    /\ memory_regions \in RegionMaps
    /\ ramdisk \in RamDisks
    /\ pending = raw_usable_frame_addresses
    /\ free_memory_head = PeekOf(pending)
    /\ node = <<>>
    /\ frame_count = 0

\* Mutant: peek before next, so that a node points to itself
LinkFrame_to_itself ==
    /\ pending # <<>>
    /\ node' = Append(node, [addr |-> Head(pending), next |-> PeekOf(pending)])
    /\ pending' = Tail(pending)
    /\ frame_count' = frame_count + 1
    /\ UNCHANGED <<memory_regions, ramdisk, free_memory_head>>

\* one turn of the while loop: the node of an address points to the next one
LinkFrame ==
    /\ pending # <<>>
    /\ node' = Append(node, [addr |-> Head(pending), next |-> PeekOf(Tail(pending))])
    /\ pending' = Tail(pending)
    /\ frame_count' = frame_count + 1
    /\ UNCHANGED <<memory_regions, ramdisk, free_memory_head>>

Next == LinkFrame

Spec == Init /\ [][Next]_vars
--------------------------------------------------------------------------------
Done == pending = <<>>
Listed == {node[i].addr : i \in DOMAIN node}
Bytes(a) == a .. a + PageSize - 1

\* Every byte of a listed frame belongs to one usable region and none to the ram
\* disk ("Bootloader ram disk corruption mitigation") or to the trampoline's frame 0.
ListedFramesAreSafe ==
    \A a \in Listed :
        /\ a # 0
        /\ \E i \in DOMAIN memory_regions :
              /\ memory_regions[i].usable
              /\ \A b \in Bytes(a) : memory_regions[i].start <= b /\ b < memory_regions[i].end
        /\ Bytes(a) \cap (ramdisk.addr .. ramdisk.addr + ramdisk.len - 1) = {}

\* No memory is lost: a whole frame of a usable region that does not start at 0
\* is listed unless the ram disk reaches into it.
NoFrameLost ==
    Done => \A i \in DOMAIN memory_regions, a \in 0..Memory :
        /\ memory_regions[i].usable /\ memory_regions[i].start > 0
        /\ a % PageSize = 0
        /\ memory_regions[i].start <= a /\ a + PageSize <= memory_regions[i].end
        /\ Bytes(a) \cap (ramdisk.addr .. ramdisk.addr + ramdisk.len - 1) = {}
        => a \in Listed

\* The finished list is the one the allocator starts from (UsableAssumption and
\* Init of FrameAllocator): distinct frames, each linked to the one after it, the
\* last to nothing, as many as frame_count says.
HandsOverFreeList ==
    Done =>
        /\ frame_count = Cardinality(Listed)
        /\ free_memory_head = IF node = <<>> THEN None ELSE node[1].addr
        /\ \A i \in DOMAIN node :
              node[i].next = IF i = frame_count THEN None ELSE node[i + 1].addr
================================================================================
