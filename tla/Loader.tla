--------------------------------- MODULE Loader ---------------------------------
(***************************************************************************)
(* Address spaces (struct Memory of memory.rs) and the applications that    *)
(* run in them (loader.rs), on several cores.  Every core prepares, runs    *)
(* and drops applications and grows the kernel heap; all of them share one  *)
(* frame allocator and the kernel half of the address space.                *)
(*                                                                          *)
(* MEMORY is locked for the whole of an operation on either of them, so such *)
(* an operation is one step; a panic inside one leaves the lock held.        *)
(*                                                                          *)
(* A page table is abstracted to two levels: an L4 table has one entry per  *)
(* region (Slot), and an entry leads to one table that stands for the L3,   *)
(* L2 and L1 tables below it.  A free frame holds garbage until it is       *)
(* cleared.                                                                 *)
(***************************************************************************)
EXTENDS ContextSwitch, Sequences, FiniteSets

CONSTANTS
    Core, App,
    Segments,        \* the PT_LOAD segments of the program: pages and flags
    StackPages,      \* pages of the application stack above its guard page
    HeapPages,       \* pages the application heap may grow to, in order
    Caller,          \* the registers and memory of a core that calls run
    entry_point,     \* of the program
    CounterPage,     \* the page of the program's static COUNTER
    KernelHeapPages, \* pages the kernel heap may grow to, in order
    Frames,          \* numbers of frames there may be on the free list after boot
    MaxRuns,         \* bound on the runs of one application
    None

\* the pages of a page_range
PagesOf(range) == {range[i] : i \in DOMAIN range}

ASSUME LoaderAssumption ==
    /\ Frames \subseteq Nat /\ IsFiniteSet(Frames) /\ Frames # {} /\ MaxRuns \in Nat
    /\ Caller \in Machine /\ HasRoom(Caller) /\ entry_point \in Int
    /\ None \notin Nat \cup Core \cup App
    /\ None \notin [frame : Nat, write : BOOLEAN, exec : BOOLEAN]

Segment == [pages : Seq(Nat) \ {<<>>}, write : BOOLEAN, exec : BOOLEAN]

ASSUME PagesAssumption ==
    /\ Segments \in Seq(Segment) /\ Segments # <<>>
    /\ StackPages \in Seq(Nat) /\ StackPages # <<>>
    /\ HeapPages \in Seq(Nat) /\ KernelHeapPages \in Seq(Nat)

\* The linker and the constants of the kernel give the segments, the stack and the heap
\* of a program pages of their own, or map_to would report PageAlreadyMapped
ASSUME ImageAssumption ==
    /\ \A i, j \in DOMAIN Segments :
          i # j => PagesOf(Segments[i].pages) \cap PagesOf(Segments[j].pages) = {}
    /\ \A i \in DOMAIN Segments :
          PagesOf(Segments[i].pages) \cap (PagesOf(StackPages) \cup PagesOf(HeapPages)) = {}
    /\ \E i \in DOMAIN Segments : CounterPage \in PagesOf(Segments[i].pages)

KernelSlot == {"heap", "stacks"}       \* L4 entries of KERNEL_L4_PAGE_TABLE_RANGE
Slot == KernelSlot \cup {"user"}       \* "user" is L4 entry 0

Kernel == 0                            \* the L4 table the bootloader set up
Frame == UNION {0 .. n + 3 : n \in Frames}
\* Mutant: the kernel heap has not been used when the first application is loaded
BootTable_without_heap == [heap |-> None, stacks |-> 2, user |-> 3]

BootTable == [heap |-> 1, stacks |-> 2, user |-> 3]  \* left behind by the boot

SegmentPages == UNION {PagesOf(Segments[i].pages) : i \in DOMAIN Segments}
Page == SegmentPages \cup PagesOf(StackPages) \cup PagesOf(HeapPages)
        \cup PagesOf(KernelHeapPages)

VARIABLES
    free,    \* frame_allocator: the free list, first frame first
    l4,      \* contents of a frame used as L4 table
    pt,      \* contents of a frame used as lower table
    data,    \* contents of a frame used as memory: a COUNTER value or garbage
    cr3,     \* the active L4 table of each core
    MEMORY,  \* the lock: None, or the core that panicked while holding it
    pc, cur, \* what each core is doing, and for which application
    seg,     \* the segment each core is loading
    owner,   \* the core whose app_test has the resources of an application
    status,  \* the state of each ApplicationResources value
    table,   \* ... its l4_page_table
    heap,    \* ... the number of pages its heap has grown to
    kheap,   \* the number of pages of the kernel heap
    cld,     \* running_application_data of each core
    cpu,     \* the registers of each core, and its memory as far as ContextSwitch goes
    exits    \* the exit codes each application's runs returned

memvars == <<free, l4, pt>>
appvars == <<owner, status, table, heap, exits>>
vars == <<memvars, data, cr3, MEMORY, pc, cur, seg, appvars, kheap, cld, cpu>>

Garbage == MaxRuns + 7

\* init_smp has run: the kernel heap and the AP stacks have their L4 entries, the
\* trampoline page is unmapped again but its tables stay in the kernel's table
Init ==
    /\ \E n \in Frames : free = [i \in 1..n |-> i + 3]
    /\ l4 = [f \in Frame |-> IF f = Kernel THEN BootTable ELSE [s \in Slot |-> f]]
    /\ pt = [f \in Frame |-> [p \in Page |-> None]]
    /\ data = [f \in Frame |-> Garbage]
    /\ cr3 = [c \in Core |-> Kernel]
    /\ MEMORY = None
    /\ pc = [c \in Core |-> "kernel"] /\ cur = [c \in Core |-> None]
    /\ seg = [c \in Core |-> 0]
    /\ owner = [a \in App |-> None]
    /\ status = [a \in App |-> "none"] /\ table = [a \in App |-> None]
    /\ heap = [a \in App |-> 0] /\ exits = [a \in App |-> <<>>]
    /\ kheap = 0 /\ cld = [c \in Core |-> None] /\ cpu = [c \in Core |-> Caller]
--------------------------------------------------------------------------------
\* MEMORY.lock() succeeds, and the guard is dropped at the end of the step
locked == MEMORY = None /\ UNCHANGED MEMORY
Goto(c, label) == pc' = [pc EXCEPT ![c] = label]

\* the lower table of a region in the table that is ACTIVE on this core
LowerTable(c, slot) == l4[cr3[c]][slot]
FramesNeeded(c, slot, pages) == Len(pages) + (IF LowerTable(c, slot) = None THEN 1 ELSE 0)
Enough(c, slot, pages) == Len(free) >= FramesNeeded(c, slot, pages)

\* each page takes the next free frame; map_to takes one more, for a missing lower
\* table, after the first
MapPages(c, slot, pages, write, exec) ==
    LET missing == LowerTable(c, slot) = None
        t == IF missing THEN free[2] ELSE LowerTable(c, slot)
        FrameFor(i) == free[IF missing /\ i > 1 THEN i + 1 ELSE i]
        EntryFor(p) == [frame |-> FrameFor(CHOOSE i \in DOMAIN pages : pages[i] = p),
                        write |-> write, exec |-> exec]
    IN  /\ l4' = [l4 EXCEPT ![cr3[c]][slot] = t]
        /\ pt' = [pt EXCEPT ![t] = [p \in Page |->
                    IF p \in PagesOf(pages) THEN EntryFor(p)
                    ELSE IF missing THEN None ELSE pt[t][p]]]
        /\ free' = SubSeq(free, FramesNeeded(c, slot, pages) + 1, Len(free))

\* map_ram_user and map_ram_kernel for a range of pages
map_ram(c, slot, pages, write, exec) ==
    Enough(c, slot, pages) /\ MapPages(c, slot, pages, write, exec)

\* The frames run out in the middle of a range: the pages before stay mapped, and a
\* frame taken for a page whose lower table cannot be had is lost
map_ram_fails(c, slot, pages, write, exec) ==
    LET tables == FramesNeeded(c, slot, pages) - Len(pages)
        before == SubSeq(pages, 1, Len(free) - tables)
    IN  /\ ~Enough(c, slot, pages)
        /\ IF before = <<>> THEN free' = <<>> /\ UNCHANGED <<l4, pt>>
           ELSE MapPages(c, slot, before, write, exec)

\* the frame a core reaches through its active table
Translate(c, page) == pt[l4[cr3[c]]["user"]][page].frame
--------------------------------------------------------------------------------
(* prepare_application *)
StartPrepare(c, a) ==
    /\ pc[c] = "kernel" /\ status[a] = "none"
    /\ owner' = [owner EXCEPT ![a] = c]
    /\ status' = [status EXCEPT ![a] = "loading"]
    /\ cur' = [cur EXCEPT ![c] = a]
    /\ Goto(c, "create")
    /\ UNCHANGED <<memvars, data, cr3, MEMORY, seg, table, heap, exits, kheap, cld, cpu>>

\* Mutant: all entries are copied, not only those of the kernel's range
create_user_page_table_copies_all(c) ==
    /\ pc[c] = "create" /\ locked /\ free # <<>>
    /\ l4' = [l4 EXCEPT ![free[1]] = l4[cr3[c]]]
    /\ free' = Tail(free)
    /\ cr3' = [cr3 EXCEPT ![c] = free[1]]
    /\ table' = [table EXCEPT ![cur[c]] = free[1]]
    /\ seg' = [seg EXCEPT ![c] = 1]
    /\ Goto(c, "map")
    /\ UNCHANGED <<pt, data, cur, owner, status, heap, exits, kheap, cld, cpu>>

\* the entries of the kernel's range, the rest cleared
KernelEntries(entries) == [s \in Slot |-> IF s \in KernelSlot THEN entries[s] ELSE None]

\* a cleared L4 table that copies the kernel entries of the active one
create_user_page_table(c) ==
    /\ pc[c] = "create" /\ locked /\ free # <<>>
    /\ l4' = [l4 EXCEPT ![free[1]] = KernelEntries(l4[cr3[c]])]
    /\ free' = Tail(free)
    /\ cr3' = [cr3 EXCEPT ![c] = free[1]]
    /\ table' = [table EXCEPT ![cur[c]] = free[1]]
    /\ seg' = [seg EXCEPT ![c] = 1]
    /\ Goto(c, "map")
    /\ UNCHANGED <<pt, data, cur, owner, status, heap, exits, kheap, cld, cpu>>

\* the flags load computes: a writable segment is never executable
SegWrite(s) == s.write
SegExec(s) == s.exec /\ ~s.write

\* map_segment maps the pages writable, whatever the flags, so that it can fill them
map_segment(c) ==
    /\ pc[c] = "map" /\ locked
    /\ map_ram(c, "user", Segments[seg[c]].pages, TRUE, SegExec(Segments[seg[c]]))
    /\ Goto(c, "fill")
    /\ UNCHANGED <<data, cr3, cur, seg, appvars, kheap, cld, cpu>>

\* Mutant: the pages keep what was in their frames
fill_segment_leaves_garbage(c) ==
    /\ pc[c] = "fill"
    /\ Goto(c, "protect")
    /\ UNCHANGED <<memvars, data, cr3, MEMORY, cur, seg, appvars, kheap, cld, cpu>>

\* fill(0) and copy_from_slice: COUNTER starts at 0
fill_segment(c) ==
    /\ pc[c] = "fill"
    /\ LET filled == {Translate(c, p) : p \in PagesOf(Segments[seg[c]].pages)}
       IN  data' = [f \in Frame |-> IF f \in filled THEN 0 ELSE data[f]]
    /\ Goto(c, "protect")
    /\ UNCHANGED <<memvars, cr3, MEMORY, cur, seg, appvars, kheap, cld, cpu>>

\* Mutant: the flags used for filling stay
protect_segment_keeps_flags(c) ==
    /\ pc[c] = "protect" /\ locked
    /\ IF seg[c] < Len(Segments)
       THEN seg' = [seg EXCEPT ![c] = @ + 1] /\ Goto(c, "map")
       ELSE Goto(c, "stack") /\ UNCHANGED seg
    /\ UNCHANGED <<memvars, data, cr3, cur, appvars, kheap, cld, cpu>>

\* change_flags on every page of the segment: the frames stay
change_flags(entries, s) ==
    [p \in Page |->
        IF p \in PagesOf(s.pages)
        THEN [frame |-> entries[p].frame, write |-> SegWrite(s), exec |-> SegExec(s)]
        ELSE entries[p]]

\* the flags of the segment replace those used for filling, then the next segment or the stack
protect_segment(c) ==
    /\ pc[c] = "protect" /\ locked
    /\ LET t == l4[cr3[c]]["user"]
       IN  pt' = [pt EXCEPT ![t] = change_flags(pt[t], Segments[seg[c]])]
    /\ IF seg[c] < Len(Segments)
       THEN seg' = [seg EXCEPT ![c] = @ + 1] /\ Goto(c, "map")
       ELSE Goto(c, "stack") /\ UNCHANGED seg
    /\ UNCHANGED <<free, l4, data, cr3, cur, appvars, kheap, cld, cpu>>

allocate_stack(c) ==
    /\ pc[c] = "stack" /\ locked
    /\ map_ram(c, "user", StackPages, TRUE, FALSE)
    /\ Goto(c, "to_kernel")
    /\ UNCHANGED <<data, cr3, cur, seg, appvars, kheap, cld, cpu>>

\* the last call of prepare_application, of run and of drop
switch_to_kernel_page_table(c) ==
    /\ pc[c] = "to_kernel" /\ locked
    /\ cr3' = [cr3 EXCEPT ![c] = Kernel]
    /\ status' = [status EXCEPT ![cur[c]] = IF @ = "dropping" THEN "dropped" ELSE "ready"]
    /\ exits' = IF status[cur[c]] = "running"
                THEN [exits EXCEPT ![cur[c]] = Append(@, cpu[c].reg["rax"])] ELSE exits
    /\ cur' = [cur EXCEPT ![c] = None]
    /\ Goto(c, "kernel")
    /\ UNCHANGED <<memvars, data, seg, owner, table, heap, kheap, cld, cpu>>
--------------------------------------------------------------------------------
(* run, and drop of ApplicationResources, which frees nothing *)
StartRun(c, a) ==
    /\ pc[c] = "kernel" /\ owner[a] = c /\ status[a] = "ready" /\ Len(exits[a]) < MaxRuns
    /\ status' = [status EXCEPT ![a] = "running"]
    /\ cur' = [cur EXCEPT ![c] = a]
    /\ Goto(c, "to_user")
    /\ UNCHANGED <<memvars, data, cr3, MEMORY, seg, owner, table, heap, exits, kheap, cld, cpu>>

StartDrop(c, a) ==
    /\ pc[c] = "kernel" /\ owner[a] = c /\ status[a] = "ready"
    /\ status' = [status EXCEPT ![a] = "dropping"]
    /\ cur' = [cur EXCEPT ![c] = a]
    /\ Goto(c, "to_user")
    /\ UNCHANGED <<memvars, data, cr3, MEMORY, seg, owner, table, heap, exits, kheap, cld, cpu>>

switch_to_user_page_table(c) ==
    /\ pc[c] = "to_user" /\ locked
    /\ cr3' = [cr3 EXCEPT ![c] = table[cur[c]]]
    /\ Goto(c, IF status[cur[c]] = "running" THEN "execute" ELSE "to_kernel")
    /\ UNCHANGED <<memvars, data, cur, seg, appvars, kheap, cld, cpu>>

switch_stack_and_execute(c) ==
    /\ pc[c] = "execute"
    /\ cld' = [cld EXCEPT ![c] = cur[c]]
    /\ cpu' = [cpu EXCEPT ![c] = execute(@, entry_point)]
    /\ Goto(c, "user")
    /\ UNCHANGED <<memvars, data, cr3, MEMORY, cur, seg, appvars, kheap>>

\* the program allocates and the heap of the application this core runs must grow
StartGrowUser(c) ==
    /\ pc[c] = "user" /\ heap[cld[c]] < Len(HeapPages)
    /\ Goto(c, "grow_user")
    /\ UNCHANGED <<memvars, data, cr3, MEMORY, cur, seg, appvars, kheap, cld, cpu>>

grow_user_heap(c) ==
    /\ pc[c] = "grow_user" /\ locked
    /\ map_ram(c, "user", <<HeapPages[heap[cld[c]] + 1]>>, TRUE, FALSE)
    /\ heap' = [heap EXCEPT ![cld[c]] = @ + 1]
    /\ Goto(c, "user")
    /\ UNCHANGED <<data, cr3, cur, seg, owner, status, table, exits, kheap, cld, cpu>>

\* what the program leaves in the registers
Used == [r \in Reg |-> Garbage]

\* main of test.rs: COUNTER.fetch_add, then return its old value or panic
user_main(c) ==
    /\ pc[c] = "user"
    /\ LET f == Translate(c, CounterPage) IN
       /\ data' = [data EXCEPT ![f] = @ + 1]
       /\ \/ /\ data[f] = 0
             /\ cpu' = [cpu EXCEPT ![c] = save_instruction_pointer_returns(@, data[f], Used)]
             /\ Goto(c, "leave")
          \/ data[f] # 0 /\ Goto(c, "abort") /\ UNCHANGED cpu
    /\ UNCHANGED <<memvars, cr3, MEMORY, cur, seg, appvars, kheap, cld>>

\* the panic handler of the program calls abort(42), which needs the core's data
abort(c) ==
    /\ pc[c] = "abort" /\ cld[c] # None
    /\ cpu' = [cpu EXCEPT ![c] = abort_jumps(@, 42, Used)]
    /\ Goto(c, "leave")
    /\ UNCHANGED <<memvars, data, cr3, MEMORY, cur, seg, appvars, kheap, cld>>

\* Mutant: running_application_data stays set
leave_application_keeps_data(c) ==
    /\ pc[c] = "leave" /\ cpu[c].reg["rip"] = after_call
    /\ cpu' = [cpu EXCEPT ![c] = resume(@)]
    /\ Goto(c, "to_kernel")
    /\ UNCHANGED <<memvars, data, cr3, MEMORY, cur, seg, appvars, kheap, cld>>

leave_application(c) ==
    /\ pc[c] = "leave" /\ cpu[c].reg["rip"] = after_call
    /\ cpu' = [cpu EXCEPT ![c] = resume(@)]
    /\ cld' = [cld EXCEPT ![c] = None]
    /\ Goto(c, "to_kernel")
    /\ UNCHANGED <<memvars, data, cr3, MEMORY, cur, seg, appvars, kheap>>
--------------------------------------------------------------------------------
(* kernel code allocates and the kernel heap must grow; the heap's own lock lets
   one core at a time do so                                                     *)
StartGrowKernel(c) ==
    /\ pc[c] = "kernel" /\ kheap < Len(KernelHeapPages)
    /\ \A d \in Core : pc[d] # "grow_kernel"
    /\ Goto(c, "grow_kernel")
    /\ UNCHANGED <<memvars, data, cr3, MEMORY, cur, seg, appvars, kheap, cld, cpu>>

grow_kernel_heap(c) ==
    /\ pc[c] = "grow_kernel" /\ locked
    /\ map_ram(c, "heap", <<KernelHeapPages[kheap + 1]>>, TRUE, FALSE)
    /\ kheap' = kheap + 1
    /\ Goto(c, "kernel")
    /\ UNCHANGED <<data, cr3, cur, seg, appvars, cld, cpu>>

\* "Out of memory" or FrameAllocationFailed: the core panics and stops with MEMORY held
Panic(c) ==
    /\ MEMORY = None
    /\ \/ pc[c] = "create" /\ free = <<>> /\ UNCHANGED memvars
       \/ pc[c] = "map" /\ LET s == Segments[seg[c]]
                           IN  map_ram_fails(c, "user", s.pages, TRUE, SegExec(s))
       \/ pc[c] = "stack" /\ map_ram_fails(c, "user", StackPages, TRUE, FALSE)
       \/ pc[c] = "grow_user"
          /\ map_ram_fails(c, "user", <<HeapPages[heap[cld[c]] + 1]>>, TRUE, FALSE)
       \/ pc[c] = "grow_kernel"
          /\ map_ram_fails(c, "heap", <<KernelHeapPages[kheap + 1]>>, TRUE, FALSE)
    /\ MEMORY' = c
    /\ Goto(c, "panic")
    /\ UNCHANGED <<data, cr3, cur, seg, appvars, kheap, cld, cpu>>

Next == \E c \in Core :
    \/ create_user_page_table(c) \/ map_segment(c) \/ fill_segment(c)
    \/ protect_segment(c) \/ allocate_stack(c) \/ switch_to_kernel_page_table(c)
    \/ switch_to_user_page_table(c) \/ switch_stack_and_execute(c)
    \/ StartGrowUser(c) \/ grow_user_heap(c)
    \/ user_main(c) \/ abort(c) \/ leave_application(c)
    \/ StartGrowKernel(c) \/ grow_kernel_heap(c) \/ Panic(c)
    \/ \E a \in App : StartPrepare(c, a) \/ StartRun(c, a) \/ StartDrop(c, a)

Spec == Init /\ [][Next]_vars
--------------------------------------------------------------------------------
L4Tables == {Kernel} \cup {table[a] : a \in {b \in App : table[b] # None}}
LowerTables == {l4[t][s] : t \in L4Tables, s \in Slot} \ {None}
Mapped == {tp \in LowerTables \X Page : pt[tp[1]][tp[2]] # None}
FrameAt(tp) == pt[tp[1]][tp[2]].frame
FreeSet == {free[i] : i \in DOMAIN free}

\* Frames are never shared: each is free, one L4 table, one lower table or one
\* mapped page; two applications have different L4 tables, and two L4 tables share a
\* lower table only where both have it for the same region of the kernel.  This is the
\* isolation create_user_page_table and map_ram_user give applications, whatever
\* the order in which cores map pages and panic.
FrameHasOneUse ==
    /\ \A i, j \in DOMAIN free : free[i] = free[j] => i = j
    /\ \A m, n \in Mapped : FrameAt(m) = FrameAt(n) => m = n
    /\ FreeSet \cap (L4Tables \cup LowerTables) = {}
    /\ L4Tables \cap LowerTables = {}
    /\ {FrameAt(m) : m \in Mapped} \cap (FreeSet \cup L4Tables \cup LowerTables) = {}
    /\ \A t, u \in L4Tables, r, s \in Slot : l4[t][r] = l4[u][s] /\ l4[t][r] # None =>
          r = s /\ (t = u \/ r \in KernelSlot)
    /\ \A a, b \in App : table[a] = table[b] /\ table[a] # None => a = b

\* The kernel half is one for all: although create_user_page_table only copies the
\* L4 entries present at that moment, every page the kernel heap gains later, on any
\* core, is reachable from the table active on every core (an interrupt handler may
\* touch the heap while an application runs).
KernelHalfShared ==
    \A c \in Core, i \in 1..kheap :
        LET t == l4[cr3[c]]["heap"]
        IN  /\ t # None
            /\ pt[t][KernelHeapPages[i]] # None
            /\ pt[t][KernelHeapPages[i]] = pt[l4[Kernel]["heap"]][KernelHeapPages[i]]

\* app_test asserts 0, 0, 42: an application's first run finds COUNTER at 0 and
\* returns it, every later run finds it changed by that application alone and
\* leaves through abort(42), whatever other applications run meanwhile.
ExitCodes ==
    \A a \in App : \A i \in DOMAIN exits[a] : exits[a][i] = IF i = 1 THEN 0 ELSE 42

\* A core executes an application under that application's table and with its own
\* core local data set to it; back in kernel code both are reset.
RunsInOwnAddressSpace ==
    \A c \in Core :
        /\ pc[c] \in {"kernel", "create", "grow_kernel", "to_user"} =>
              cr3[c] = Kernel /\ cld[c] = None
        /\ pc[c] \in {"user", "grow_user", "abort", "leave"} =>
              cld[c] # None /\ cld[c] = cur[c] /\ cr3[c] = table[cur[c]]
        /\ cld[c] # None => \A d \in Core \ {c} : cld[d] # cld[c]

\* run is a function call for its caller: whether the program returned or called abort
\* with every register in use, the caller's registers and stack pointer are back when
\* switch_stack_and_execute is left, and until then abort_addr leads back into it.
RunReturnsToCaller ==
    \A c \in Core :
        /\ pc[c] \in {"kernel", "to_kernel"} => Restored(Caller, cpu[c], cpu[c].reg["rax"])
        /\ pc[c] = "leave" => cpu[c].reg["rip"] = after_call
        /\ pc[c] \in {"user", "abort"} => cpu[c].mem[abort_addr] = after_call

\* Once prepared, an application has no page that is both writable and executable,
\* although map_segment maps every page writable before change_flags, and every
\* page of its segments and stack is mapped.
PreparedImage ==
    \A a \in App : status[a] \in {"ready", "running"} =>
        LET image == pt[l4[table[a]]["user"]]
        IN  /\ \A p \in Page : image[p] # None => ~(image[p].write /\ image[p].exec)
            /\ \A i \in DOMAIN Segments : \A j \in DOMAIN Segments[i].pages :
                  LET e == image[Segments[i].pages[j]]
                  IN  e # None /\ e.write = Segments[i].write
            /\ \A i \in DOMAIN StackPages : image[StackPages[i]] # None
================================================================================
