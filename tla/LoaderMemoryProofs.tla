--------------------------- MODULE LoaderMemoryProofs ---------------------------
(***************************************************************************)
(* The page tables of the loader, for every number of frames, cores and       *)
(* applications.  Every action that touches page tables is first reduced to   *)
(* its effect (MapsInto, Protects, Creates); the invariant MInv is then       *)
(* proved from the effects.  OneUse is FrameHasOneUse element by element,     *)
(* Filling says that a segment being filled is mapped, and KernelHalf that    *)
(* all tables point to the tables of the kernel's half the boot code made.    *)
(***************************************************************************)
EXTENDS LoaderProofs

\* The table of the application's half under the L4 table of application a
UserTable(a) == l4[table[a]]["user"]
\* All pages of segment i are mapped in the table of application a
HasSegment(a, i) ==
    UserTable(a) # None /\ \A p \in PagesOf(Segments[i].pages) : pt[UserTable(a)][p] # None
\* Between map_segment and protect_segment all pages of the segment are mapped
Filling == \A c \in Core : pc[c] \in {"fill", "protect"} => HasSegment(cur[c], seg[c])

\* Every L4 table has the boot code's tables for the kernel's half, and they map the
\* pages of the kernel heap
KernelHalf ==
    /\ kheap <= Len(KernelHeapPages)
    /\ \A t \in L4Tables : l4[t]["heap"] = BootTable["heap"] /\ l4[t]["stacks"] = BootTable["stacks"]
    /\ \A i \in 1 .. kheap : pt[BootTable["heap"]][KernelHeapPages[i]] # None

\* FrameHasOneUse, element by element
OneUse ==
    /\ \A i, j \in DOMAIN free : free[i] = free[j] => i = j
    /\ \A t \in L4Tables : t \notin FreeSet /\ t \notin LowerTables
    /\ \A t \in LowerTables : t \notin FreeSet
    /\ \A t \in LowerTables, p \in Page : pt[t][p] # None =>
          /\ pt[t][p].frame \notin FreeSet /\ pt[t][p].frame \notin L4Tables
          /\ pt[t][p].frame \notin LowerTables
    /\ \A t, u \in LowerTables, p, q \in Page :
          pt[t][p] # None /\ pt[u][q] # None /\ pt[t][p].frame = pt[u][q].frame => t = u /\ p = q
    /\ \A t, u \in L4Tables, r, s \in Slot : l4[t][r] = l4[u][s] /\ l4[t][r] # None =>
          r = s /\ (t = u \/ r \in KernelSlot)
    /\ \A a, b \in App : table[a] = table[b] /\ table[a] # None => a = b

\* OneUse says what FrameHasOneUse says
LEMMA OneUseMeans == OneUse => FrameHasOneUse
<1>1. ASSUME OneUse, NEW m \in Mapped
      PROVE  /\ m = <<m[1], m[2]>> /\ m[1] \in LowerTables /\ m[2] \in Page
             /\ pt[m[1]][m[2]] # None
  BY DEF Mapped
<1>2. ASSUME OneUse PROVE \A m, n \in Mapped : FrameAt(m) = FrameAt(n) => m = n
  <2> SUFFICES ASSUME NEW m \in Mapped, NEW n \in Mapped, FrameAt(m) = FrameAt(n) PROVE m = n
    BY Zenon
  <2>1. m[1] = n[1] /\ m[2] = n[2]
    <3>1. \A t, u \in LowerTables, p, q \in Page :
             pt[t][p] # None /\ pt[u][q] # None /\ pt[t][p].frame = pt[u][q].frame => t = u /\ p = q
      BY <1>2, Zenon DEF OneUse
    <3> QED  BY <1>1, <1>2, <3>1 DEF FrameAt
  <2> QED  BY <1>1, <1>2, <2>1, Zenon
<1>3. ASSUME OneUse
      PROVE  {FrameAt(m) : m \in Mapped} \cap (FreeSet \cup L4Tables \cup LowerTables) = {}
  <2>1. ASSUME NEW m \in Mapped
        PROVE  FrameAt(m) \notin FreeSet \cup L4Tables \cup LowerTables
    BY <1>1, <1>3, Zenon DEF OneUse, FrameAt
  <2> QED  BY <2>1, Zenon
<1>4. ASSUME OneUse
      PROVE FreeSet \cap (L4Tables \cup LowerTables) = {} /\ L4Tables \cap LowerTables = {}
  BY <1>4, Zenon DEF OneUse
<1> QED
  BY <1>2, <1>3, <1>4, Zenon DEF OneUse, FrameHasOneUse

--------------------------------------------------------------------------------
\* Tables are frames, and a lower table is one that some L4 table points to
LEMMA TablesAreFrames ==
    ASSUME Typed, MemoryTyped
    PROVE  /\ L4Tables \subseteq Frame /\ LowerTables \subseteq Frame
           /\ \A t \in L4Tables, s \in Slot : l4[t][s] # None => l4[t][s] \in LowerTables
           /\ \A u \in LowerTables : \E t \in L4Tables, s \in Slot : u = l4[t][s] /\ u # None
<1>1. L4Tables \subseteq Frame
  <2>1. \A a \in App : table[a] # None => table[a] \in Frame
    BY Zenon DEF Typed
  <2>2. Kernel \in Frame
    BY FrameNumbers, Zenon DEF Kernel
  <2> QED  BY <2>1, <2>2, Zenon DEF L4Tables
<1>2. \A u \in LowerTables : \E t \in L4Tables, s \in Slot : u = l4[t][s] /\ u # None
  BY SMT DEF LowerTables
<1>3. \A t \in L4Tables, s \in Slot : l4[t][s] # None => l4[t][s] \in LowerTables
  BY SMT DEF LowerTables
<1>4. \A t \in L4Tables, s \in Slot : l4[t][s] # None => l4[t][s] \in Frame
  BY <1>1 DEF MemoryTyped
<1>5. LowerTables \subseteq Frame
  BY <1>2, <1>4, Zenon
<1> QED
  BY <1>1, <1>2, <1>3, <1>5, Zenon

\* A mapping changes at most one L4 entry, from missing to a new table
LEMMA MapsL4 ==
    ASSUME MemoryTyped, NEW c \in Core, cr3[c] \in Frame, NEW slot \in Slot, NEW pages,
           NEW w, NEW x, NEW t \in Frame, MapsInto(c, slot, pages, w, x, t)
    PROVE  \A u \in Frame, r \in Slot :
              \/ l4'[u][r] = l4[u][r]
              \/ /\ u = cr3[c] /\ r = slot /\ l4'[u][r] = t /\ l4[u][r] = None
                 /\ t \in FreeSet /\ t \notin FreeSet'
<1>1. CASE LowerTable(c, slot) = t /\ UNCHANGED l4
  BY <1>1, Zenon
<1>2. CASE /\ LowerTable(c, slot) = None /\ t \in FreeSet /\ t \notin FreeSet'
           /\ l4' = [l4 EXCEPT ![cr3[c]][slot] = t]
  BY <1>2, Zenon DEF MemoryTyped, LowerTable
<1> QED
  BY <1>1, <1>2, Zenon DEF MapsInto

\* A mapping keeps OneUse: the frames it takes were free, hence used nowhere else
LEMMA MapKeepsOneUse ==
    ASSUME Typed, MemoryTyped, OneUse, UNCHANGED table,
           NEW c \in Core, cr3[c] \in L4Tables, NEW slot \in Slot, NEW pages, NEW w, NEW x,
           NEW t \in Frame, MapsInto(c, slot, pages, w, x, t)
    PROVE  OneUse'
<1>1. L4Tables' = L4Tables
  BY Zenon DEF L4Tables
<1>2. \A u \in L4Tables, r \in Slot :
          \/ l4'[u][r] = l4[u][r]
          \/ /\ u = cr3[c] /\ r = slot /\ l4'[u][r] = t /\ l4[u][r] = None
             /\ t \in FreeSet /\ t \notin FreeSet'
  BY TablesAreFrames, MapsL4
<1>3. \/ t \in LowerTables /\ LowerTable(c, slot) # None
      \/ t \in FreeSet /\ t \notin FreeSet' /\ LowerTable(c, slot) = None
  <2>1. LowerTable(c, slot) = t \/ (LowerTable(c, slot) = None /\ t \in FreeSet /\ t \notin FreeSet')
    BY Zenon DEF MapsInto
  <2>2. t # None
    BY FrameNumbers, Zenon
  <2> QED  BY <2>1, <2>2, TablesAreFrames, Zenon DEF LowerTable
<1>4. ASSUME NEW u \in LowerTables' PROVE u \in LowerTables \/ u = t
  <2>1. PICK v \in L4Tables, r \in Slot : u = l4'[v][r] /\ u # None
    BY <1>1, SMT DEF LowerTables
  <2>2. CASE u = l4[v][r]
    BY <2>1, <2>2, TablesAreFrames, Zenon
  <2> QED  BY <1>2, <2>1, <2>2, Zenon
<1>5. ASSUME NEW u \in LowerTables', NEW p \in Page, pt'[u][p] # None
      PROVE  \/ u \in LowerTables /\ pt'[u][p] = pt[u][p]
             \/ /\ u = t /\ p \in PagesOf(pages)
                /\ pt'[u][p].frame \in FreeSet /\ pt'[u][p].frame \notin FreeSet'
                /\ pt'[u][p].frame # t
  <2>1. CASE u = t
    BY <1>3, <1>5, <2>1, Zenon DEF MapsInto
  <2>2. CASE u # t
    <3>1. u \in LowerTables /\ u \in Frame
      BY <1>4, <2>2, TablesAreFrames, Zenon
    <3> QED  BY <2>2, <3>1, Zenon DEF MapsInto, MemoryTyped
  <2> QED  BY <2>1, <2>2, Zenon
<1>6. FreeSet' \subseteq FreeSet
  BY Zenon DEF MapsInto
<1> HIDE DEF FreeSet
<1>7. \A i, j \in DOMAIN free' : free'[i] = free'[j] => i = j
  BY Zenon DEF MapsInto
<1>8. \A u \in L4Tables : u \notin FreeSet' /\ u \notin LowerTables'
  BY <1>3, <1>4, <1>6 DEF OneUse
<1>9. \A u \in LowerTables' : u \notin FreeSet'
  BY <1>3, <1>4, <1>6, Zenon DEF OneUse
<1>10. \A u \in LowerTables', p \in Page : pt'[u][p] # None =>
          /\ pt'[u][p].frame \notin FreeSet' /\ pt'[u][p].frame \notin L4Tables
          /\ pt'[u][p].frame \notin LowerTables'
  BY <1>3, <1>4, <1>5, <1>6 DEF OneUse
<1>11. ASSUME NEW u \in LowerTables', NEW v \in LowerTables', NEW p \in Page, NEW q \in Page,
              pt'[u][p] # None, pt'[v][q] # None, pt'[u][p].frame = pt'[v][q].frame
       PROVE  u = v /\ p = q
  <2>1. /\ \A p1, q1 \in PagesOf(pages) : pt'[t][p1].frame = pt'[t][q1].frame => p1 = q1
        /\ \A z \in LowerTables, p1 \in Page : pt[z][p1] # None => pt[z][p1].frame \notin FreeSet
    BY Zenon DEF OneUse, MapsInto
  <2>2. \A y, z \in LowerTables, p1, q1 \in Page :
          pt[y][p1] # None /\ pt[z][q1] # None /\ pt[y][p1].frame = pt[z][q1].frame
             => y = z /\ p1 = q1
    BY Zenon DEF OneUse
  <2> QED  BY <1>5, <1>11, <2>1, <2>2
<1>12. ASSUME NEW u \in L4Tables, NEW v \in L4Tables, NEW r \in Slot, NEW s \in Slot,
              l4'[u][r] = l4'[v][s], l4'[u][r] # None
       PROVE  r = s /\ (u = v \/ r \in KernelSlot)
  BY <1>2, <1>12, TablesAreFrames DEF OneUse
<1>13. \A a, b \in App : table'[a] = table'[b] /\ table'[a] # None => a = b
  BY Zenon DEF OneUse
<1> QED
  BY <1>1, <1>7, <1>8, <1>9, <1>10, <1>11, <1>12, <1>13 DEF OneUse

\* The table in CR3 is one of the L4 tables, and its lower tables are not free
LEMMA ActiveTable ==
    ASSUME Typed, Spaces, MemoryTyped, OneUse, NEW c \in Core, NEW slot \in Slot
    PROVE  cr3[c] \in L4Tables /\ cr3[c] \in Frame /\ LowerTable(c, slot) \notin FreeSet
<1>1. cr3[c] \in Frame
  BY Zenon DEF Typed
<1>2. cr3[c] = Kernel \/ \E a \in App : table[a] # None /\ cr3[c] = table[a]
  BY <1>1, FrameNumbers, Zenon DEF Typed, Spaces
<1>3. cr3[c] \in L4Tables
  BY <1>2, Zenon DEF L4Tables
<1>4. FreeSet \subseteq Frame
  BY DEF FreeSet, Typed
<1>5. LowerTable(c, slot) # None => LowerTable(c, slot) \in LowerTables
  BY <1>3, TablesAreFrames, Zenon DEF LowerTable
<1>6. \A u \in LowerTables : u \notin FreeSet
  BY Zenon DEF OneUse
<1> QED
  BY <1>1, <1>3, <1>4, <1>5, <1>6, FrameNumbers, Zenon

\* map_ram that succeeds has the effect MapsInto
LEMMA MapRam ==
    ASSUME Typed, Spaces, MemoryTyped, OneUse, NEW c \in Core, NEW slot \in Slot,
           NEW pages \in Seq(Page), pages # <<>>, NEW w \in BOOLEAN, NEW x \in BOOLEAN,
           map_ram(c, slot, pages, w, x)
    PROVE  \E t \in Frame : MapsInto(c, slot, pages, w, x, t)
<1>1. free \in Seq(Frame) /\ \A i, j \in DOMAIN free : free[i] = free[j] => i = j
  BY Zenon DEF Typed, OneUse
<1>2. cr3[c] \in Frame /\ LowerTable(c, slot) \notin FreeSet
  BY ActiveTable, Zenon
<1>3. Enough(c, slot, pages) /\ MapPages(c, slot, pages, w, x)
  BY Zenon DEF map_ram
<1> QED
  BY <1>1, <1>2, <1>3, MapPagesEffect, Zenon

\* The length of a prefix that is not empty
LEMMA Prefix ==
    ASSUME NEW S, NEW s \in Seq(S), NEW m \in Int, m <= Len(s), SubSeq(s, 1, m) # <<>>
    PROVE  Len(SubSeq(s, 1, m)) = m
<1>1. CASE m <= 0
  BY <1>1
<1>2. CASE m > 0
  BY <1>2
<1> QED
  BY <1>1, <1>2

\* map_ram that runs out of frames has mapped a prefix of the range, or nothing
LEMMA MapRamFails ==
    ASSUME Typed, Spaces, MemoryTyped, OneUse, NEW c \in Core, NEW slot \in Slot,
           NEW pages \in Seq(Page), NEW w \in BOOLEAN, NEW x \in BOOLEAN,
           map_ram_fails(c, slot, pages, w, x)
    PROVE  \/ free' = <<>> /\ UNCHANGED <<l4, pt>>
           \/ \E before \in Seq(Page), t \in Frame :
                 /\ PagesOf(before) \subseteq PagesOf(pages)
                 /\ MapsInto(c, slot, before, w, x, t)
<1> DEFINE tables == FramesNeeded(c, slot, pages) - Len(pages)
           before == SubSeq(pages, 1, Len(free) - tables)
<1>1. /\ tables = IF LowerTable(c, slot) = None THEN 1 ELSE 0
      /\ ~(Len(free) >= Len(pages) + tables) /\ Len(free) \in Nat /\ Len(pages) \in Nat
  BY DEF FramesNeeded, Enough, map_ram_fails, Typed
<1>2. /\ tables \in {0, 1}
      /\ \/ free' = <<>> /\ UNCHANGED <<l4, pt>>
         \/ before # <<>> /\ MapPages(c, slot, before, w, x)
  BY <1>1, Zenon DEF map_ram_fails
<1> HIDE DEF tables
<1>3. before \in Seq(Page) /\ PagesOf(before) \subseteq PagesOf(pages)
  BY <1>1, <1>2 DEF PagesOf
<1>4. ASSUME before # <<>> PROVE Len(before) = Len(free) - tables
  <2> DEFINE m == Len(free) - tables
  <2>1. m \in Int /\ m <= Len(pages)
    BY <1>1, <1>2
  <2> HIDE DEF m
  <2>2. SubSeq(pages, 1, m) # <<>> => Len(SubSeq(pages, 1, m)) = m
    BY <2>1, Prefix, Zenon
  <2> QED  BY <1>4, <2>2, Zenon DEF m
<1> HIDE DEF before
<1>5. ASSUME before # <<>> PROVE Enough(c, slot, before)
  BY <1>1, <1>4, <1>5 DEF Enough, FramesNeeded
<1>6. ASSUME before # <<>>, MapPages(c, slot, before, w, x)
      PROVE  \E t \in Frame : MapsInto(c, slot, before, w, x, t)
  BY <1>3, <1>5, <1>6, MapRam, Zenon DEF map_ram
<1> QED
  BY <1>2, <1>3, <1>6, Zenon

\* The region a core maps pages in
Region(c) == IF pc[c] = "grow_kernel" THEN "heap" ELSE "user"
\* Core c maps some pages, executable ones only for a segment
Maps(c, pages) ==
    \E w \in BOOLEAN, x \in BOOLEAN, t \in Frame :
        (x => pc[c] = "map") /\ MapsInto(c, Region(c), pages, w, x, t)

\* what the core asks map_ram for
Wanted(c) ==
    CASE pc[c] = "map" -> Segments[seg[c]].pages
      [] pc[c] = "stack" -> StackPages
      [] pc[c] = "grow_user" -> <<HeapPages[heap[cld[c]] + 1]>>
      [] pc[c] = "grow_kernel" -> <<KernelHeapPages[kheap + 1]>>

\* What a core asks map_ram for are pages of the model, at least one
LEMMA WantedPages ==
    ASSUME Control, NEW c \in Core, pc[c] \in {"map", "stack", "grow_user", "grow_kernel"}
    PROVE  Wanted(c) \in Seq(Page) /\ Wanted(c) # <<>> /\ Region(c) \in Slot
<1>1. Region(c) \in Slot
  BY Zenon DEF Region, Slot, KernelSlot
<1>2. CASE pc[c] = "map"
  BY <1>1, <1>2, PagesOfSegments, Zenon DEF Wanted, Control, Ranges
<1>3. CASE pc[c] = "stack"
  BY <1>1, <1>3, OtherPages, Zenon DEF Wanted
<1>4. CASE pc[c] = "grow_user"
  <2>1. heap[cld[c]] \in Nat /\ heap[cld[c]] < Len(HeapPages)
    BY <1>4, LoaderAssumption DEF Control, Ranges, Typed, CoreData, Ownership, Inside
  <2> QED  BY <1>1, <1>4, <2>1, OtherPages DEF Wanted
<1>5. CASE pc[c] = "grow_kernel"
  <2>1. kheap \in Nat /\ kheap < Len(KernelHeapPages)
    BY <1>5, Zenon DEF Control, Ranges, Typed
  <2> QED  BY <1>1, <1>5, <2>1, OtherPages DEF Wanted
<1> QED
  BY <1>2, <1>3, <1>4, <1>5, Zenon

\* The four callers of map_ram map what they ask for and switch no table
LEMMA MappingSteps ==
    ASSUME Control, MemoryTyped, OneUse, NEW c \in Core,
           map_segment(c) \/ allocate_stack(c) \/ grow_user_heap(c) \/ grow_kernel_heap(c)
    PROVE  /\ pc[c] \in {"map", "stack", "grow_user", "grow_kernel"}
           /\ Maps(c, Wanted(c)) /\ UNCHANGED <<table, cr3, cur>>
<1>1. /\ UNCHANGED <<table, cr3, cur>> /\ pc[c] \in {"map", "stack", "grow_user", "grow_kernel"}
      /\ \E w \in BOOLEAN, x \in BOOLEAN :
            (x => pc[c] = "map") /\ map_ram(c, Region(c), Wanted(c), w, x)
  <2>1. CASE map_segment(c)
    <3>1. SegExec(Segments[seg[c]]) \in BOOLEAN
      BY Zenon DEF SegExec
    <3> QED  BY <2>1, <3>1, Zenon DEF map_segment, Wanted, Region, appvars
  <2>2. CASE allocate_stack(c)
    BY <2>2, Zenon DEF allocate_stack, Wanted, Region, appvars
  <2>3. CASE grow_user_heap(c)
    BY <2>3, Zenon DEF grow_user_heap, Wanted, Region
  <2>4. CASE grow_kernel_heap(c)
    BY <2>4, Zenon DEF grow_kernel_heap, Wanted, Region, appvars
  <2> QED  BY <2>1, <2>2, <2>3, <2>4, Zenon
<1> QED
  BY <1>1, WantedPages, MapRam, Zenon DEF Maps, Control

\* A core that panics for want of frames has mapped a part of what it asked for
LEMMA PanicSteps ==
    ASSUME Control, MemoryTyped, OneUse, NEW c \in Core, Panic(c)
    PROVE  /\ UNCHANGED <<table, cr3, cur>>
           /\ \/ UNCHANGED <<l4, pt>> /\ (UNCHANGED free \/ free' = <<>>)
              \/ /\ pc[c] \in {"map", "stack", "grow_user", "grow_kernel"}
                 /\ \E pages \in Seq(Page) : PagesOf(pages) \subseteq PagesOf(Wanted(c)) /\ Maps(c, pages)
<1>1. /\ UNCHANGED <<table, cr3, cur>>
      /\ \/ UNCHANGED <<l4, pt>> /\ (UNCHANGED free \/ free' = <<>>)
         \/ /\ pc[c] \in {"map", "stack", "grow_user", "grow_kernel"}
            /\ \E w \in BOOLEAN, x \in BOOLEAN :
                  (x => pc[c] = "map") /\ map_ram_fails(c, Region(c), Wanted(c), w, x)
  <2>1. SegExec(Segments[seg[c]]) \in BOOLEAN
    BY Zenon DEF SegExec
  <2> QED  BY <2>1, Zenon DEF Panic, Wanted, Region, appvars, memvars
<1>2. ASSUME pc[c] \in {"map", "stack", "grow_user", "grow_kernel"},
             NEW w \in BOOLEAN, NEW x \in BOOLEAN, map_ram_fails(c, Region(c), Wanted(c), w, x)
      PROVE  \/ free' = <<>> /\ UNCHANGED <<l4, pt>>
             \/ \E before \in Seq(Page), t \in Frame :
                 /\ PagesOf(before) \subseteq PagesOf(Wanted(c))
                 /\ MapsInto(c, Region(c), before, w, x, t)
  BY <1>2, WantedPages, MapRamFails DEF Control
<1> QED
  BY <1>1, <1>2, Zenon DEF Maps

\* What a step of core c may do to the page tables: map pages, make an L4 table,
\* change flags, or nothing
LEMMA MemoryStep ==
    ASSUME Control, MemoryTyped, OneUse, NEW c \in Core, StepOf(c)
    PROVE  \/ \E pages \in Seq(Page) :
                /\ pc[c] \in {"map", "stack", "grow_user", "grow_kernel"}
                /\ PagesOf(pages) \subseteq PagesOf(Wanted(c))
                /\ Maps(c, pages) /\ UNCHANGED table
           \/ create_user_page_table(c) \/ protect_segment(c)
           \/ UNCHANGED <<l4, pt, table>> /\ (UNCHANGED free \/ free' = <<>>)
<1>1. ASSUME \/ fill_segment(c) \/ switch_to_kernel_page_table(c)
             \/ switch_to_user_page_table(c) \/ switch_stack_and_execute(c)
             \/ StartGrowUser(c) \/ user_main(c) \/ abort(c) \/ leave_application(c)
             \/ StartGrowKernel(c)
             \/ \E a \in App : StartPrepare(c, a) \/ StartRun(c, a) \/ StartDrop(c, a)
      PROVE  UNCHANGED <<free, l4, pt, table>>
  BY <1>1, Zenon
  DEF fill_segment, switch_to_kernel_page_table, switch_to_user_page_table,
      switch_stack_and_execute, StartGrowUser, user_main, abort, leave_application,
      StartGrowKernel, StartPrepare, StartRun, StartDrop, memvars, appvars
<1>2. ASSUME map_segment(c) \/ allocate_stack(c) \/ grow_user_heap(c) \/ grow_kernel_heap(c)
      PROVE  /\ pc[c] \in {"map", "stack", "grow_user", "grow_kernel"}
             /\ Wanted(c) \in Seq(Page) /\ Maps(c, Wanted(c)) /\ UNCHANGED table
  BY <1>2, MappingSteps, WantedPages, Zenon
<1> HIDE DEF Maps, Wanted
<1> QED
  BY <1>1, <1>2, PanicSteps, Zenon DEF StepOf

\* The same for a step of any core
LEMMA MemoryCases ==
    ASSUME Control, MemoryTyped, OneUse, [Next]_vars
    PROVE  \/ \E c \in Core, pages \in Seq(Page) :
                /\ pc[c] \in {"map", "stack", "grow_user", "grow_kernel"}
                /\ Maps(c, pages) /\ UNCHANGED table
           \/ \E c \in Core : create_user_page_table(c) \/ protect_segment(c)
           \/ UNCHANGED <<l4, pt, table>> /\ (UNCHANGED free \/ free' = <<>>)
<1>1. (\E c \in Core : StepOf(c)) \/ UNCHANGED vars
  BY StepCases, Zenon DEF StepOf
<1>2. CASE UNCHANGED vars
  BY <1>2, Zenon DEF vars, memvars, appvars
<1> HIDE DEF Maps, Wanted
<1> QED
  BY <1>1, <1>2, MemoryStep, Zenon

\* change_flags: what protect_segment leaves of the entries
Protects(c, t) ==
    /\ UNCHANGED <<free, l4, table>> /\ t = UserTable(cur[c])
    /\ pt' = [pt EXCEPT ![t] = pt'[t]] /\ pt'[t] \in [Page -> Entry \cup {None}]
    /\ \A p \in Page \ PagesOf(Segments[seg[c]].pages) : pt'[t][p] = pt[t][p]
    /\ \A p \in PagesOf(Segments[seg[c]].pages) :
          /\ pt[t][p] # None /\ pt'[t][p] \in Entry /\ pt'[t][p].frame = pt[t][p].frame
          /\ pt'[t][p].write = SegWrite(Segments[seg[c]])
          /\ pt'[t][p].exec = SegExec(Segments[seg[c]])

\* protect_segment has the effect Protects: it only changes flags, because all pages
\* of the segment are mapped
LEMMA ProtectEffect ==
    ASSUME Control, MemoryTyped, Filling, NEW c \in Core, protect_segment(c)
    PROVE  \E t \in Frame : Protects(c, t)
<1> DEFINE s == Segments[seg[c]]
           t == l4[cr3[c]]["user"]
<1>1. /\ pc[c] = "protect" /\ UNCHANGED <<free, l4, table>>
      /\ pt' = [pt EXCEPT ![t] = [p \in Page |->
                    IF p \in PagesOf(s.pages)
                    THEN [frame |-> pt[t][p].frame, write |-> SegWrite(s), exec |-> SegExec(s)]
                    ELSE pt[t][p]]]
  BY Zenon DEF protect_segment, change_flags, appvars
<1>2. /\ cr3[c] = table[cur[c]] /\ cr3[c] \in Frame /\ seg[c] \in DOMAIN Segments
      /\ HasSegment(cur[c], seg[c])
  <2>1. cr3[c] = table[cur[c]] /\ cr3[c] \in Frame
    <3>1. cr3[c] \in Frame
      BY Zenon DEF Control, Typed
    <3>2. cr3[c] = table[cur[c]]
      BY <1>1, Zenon DEF Control, Spaces, OwnTable
    <3> QED  BY <3>1, <3>2, Zenon
  <2>2. seg[c] \in DOMAIN Segments /\ HasSegment(cur[c], seg[c])
    BY <1>1, Zenon DEF Control, Ranges, Filling
  <2> QED  BY <2>1, <2>2, Zenon
<1>3. /\ t = UserTable(cur[c]) /\ t # None /\ t \in Frame
      /\ \A p \in PagesOf(s.pages) : pt[t][p] # None
  <2>1. t = UserTable(cur[c])
    BY <1>2, Zenon DEF UserTable
  <2>2. UserTable(cur[c]) # None /\ \A p \in PagesOf(s.pages) : pt[UserTable(cur[c])][p] # None
    BY <1>2, Zenon DEF HasSegment
  <2>3. t \in Frame \cup {None}
    BY <1>2 DEF MemoryTyped, Slot
  <2> HIDE DEF t
  <2> QED  BY <2>1, <2>2, <2>3, Zenon
<1>4. PagesOf(s.pages) \subseteq Page /\ s \in Segment
  BY <1>2, PagesOfSegments, PagesAssumption
<1>5. SegWrite(s) \in BOOLEAN /\ SegExec(s) \in BOOLEAN
  BY <1>4, Zenon DEF SegWrite, SegExec, Segment
<1> HIDE DEF t, s
<1>6. pt[t] \in [Page -> Entry \cup {None}]
  BY <1>3, Zenon DEF MemoryTyped
<1>7. ASSUME NEW p \in PagesOf(s.pages) PROVE pt[t][p].frame \in Frame
  BY <1>3, <1>4, <1>6, Zenon DEF Entry
<1>8. /\ pt' = [pt EXCEPT ![t] = pt'[t]] /\ pt'[t] = [p \in Page |-> pt'[t][p]]
      /\ \A p \in Page \ PagesOf(s.pages) : pt'[t][p] = pt[t][p]
      /\ \A p \in PagesOf(s.pages) : pt'[t][p] =
            [frame |-> pt[t][p].frame, write |-> SegWrite(s), exec |-> SegExec(s)]
  BY <1>1, <1>3, <1>4, Zenon DEF MemoryTyped
<1>9. ASSUME NEW p \in PagesOf(s.pages)
      PROVE  /\ pt[t][p] # None /\ pt'[t][p] \in Entry /\ pt'[t][p].frame = pt[t][p].frame
             /\ pt'[t][p].write = SegWrite(s) /\ pt'[t][p].exec = SegExec(s)
  <2>1. /\ pt'[t][p] = [frame |-> pt[t][p].frame, write |-> SegWrite(s), exec |-> SegExec(s)]
        /\ pt[t][p].frame \in Frame
    BY <1>7, <1>8, Zenon
  <2> QED  BY <1>3, <1>5, <2>1 DEF Entry
<1>10. pt'[t] \in [Page -> Entry \cup {None}]
  <2>1. \A p \in Page : pt'[t][p] \in Entry \cup {None}
    BY <1>6, <1>8, <1>9, Zenon
  <2> QED  BY <1>8, <2>1, Zenon
<1>11. Protects(c, t)
  BY <1>1, <1>3, <1>8, <1>9, <1>10, Zenon DEF Protects, s
<1> QED
  BY <1>3, <1>11, Zenon

\* Every step keeps the type of the page tables
LEMMA MemoryTypedStep ==
    ASSUME Control, MemoryTyped, OneUse, Filling, [Next]_vars
    PROVE  MemoryTyped'
<1>1. ASSUME NEW c \in Core, NEW pages, Maps(c, pages) PROVE MemoryTyped'
  <2>1. PICK w \in BOOLEAN, x \in BOOLEAN, t \in Frame : MapsInto(c, Region(c), pages, w, x, t)
    BY <1>1, Zenon DEF Maps
  <2>2. cr3[c] \in Frame /\ Region(c) \in Slot
    BY Zenon DEF Control, Typed, Region, Slot, KernelSlot
  <2>3. \/ l4' = l4 \/ l4' = [l4 EXCEPT ![cr3[c]][Region(c)] = t]
    BY <2>1, Zenon DEF MapsInto
  <2>4. l4' \in [Frame -> [Slot -> Frame \cup {None}]]
    <3>1. l4[cr3[c]] \in [Slot -> Frame \cup {None}]
      BY <2>2, Zenon DEF MemoryTyped
    <3>2. [l4[cr3[c]] EXCEPT ![Region(c)] = t] \in [Slot -> Frame \cup {None}]
      BY <2>2, <3>1, Zenon
    <3>3. \/ l4' = l4 \/ l4' = [l4 EXCEPT ![cr3[c]] = [l4[cr3[c]] EXCEPT ![Region(c)] = t]]
      BY <2>2, <2>3, Zenon DEF MemoryTyped
    <3> QED  BY <2>2, <3>2, <3>3, Zenon DEF MemoryTyped
  <2>5. pt' \in [Frame -> [Page -> Entry \cup {None}]]
    BY <2>1, Zenon DEF MapsInto, MemoryTyped
  <2> QED  BY <2>4, <2>5, Zenon DEF MemoryTyped
<1>2. ASSUME NEW c \in Core, create_user_page_table(c) PROVE MemoryTyped'
  <2>1. /\ free # <<>> /\ UNCHANGED pt
        /\ l4' = [l4 EXCEPT ![free[1]] =
                     [s \in Slot |-> IF s \in KernelSlot THEN l4[cr3[c]][s] ELSE None]]
    BY <1>2, Zenon DEF create_user_page_table, KernelEntries
  <2>2. free[1] \in Frame /\ cr3[c] \in Frame
    BY <2>1 DEF Control, Typed
  <2>3. [s \in Slot |-> IF s \in KernelSlot THEN l4[cr3[c]][s] ELSE None]
           \in [Slot -> Frame \cup {None}]
    BY <2>2 DEF MemoryTyped
  <2> QED  BY <2>1, <2>2, <2>3, Zenon DEF MemoryTyped
<1>3. ASSUME NEW c \in Core, protect_segment(c) PROVE MemoryTyped'
  BY <1>3, ProtectEffect, Zenon DEF Protects, MemoryTyped
<1>4. ASSUME UNCHANGED <<l4, pt>> PROVE MemoryTyped'
  BY <1>4, Zenon DEF MemoryTyped
<1> QED
  BY <1>1, <1>2, <1>3, <1>4, MemoryCases, Zenon

\* create_user_page_table makes frame f the L4 table of the application
Creates(c, f) ==
    /\ f \in FreeSet /\ f \notin FreeSet' /\ FreeSet' \subseteq FreeSet /\ UNCHANGED pt
    /\ \A i, j \in DOMAIN free' : free'[i] = free'[j] => i = j
    /\ cur[c] \in App /\ table[cur[c]] = None /\ f \notin L4Tables
    /\ table'[cur[c]] = f /\ \A a \in App \ {cur[c]} : table'[a] = table[a]
    /\ \A u : u \in L4Tables' <=> u \in L4Tables \/ u = f
    /\ \A u \in L4Tables, r \in Slot : l4'[u][r] = l4[u][r]
    /\ \A r \in KernelSlot : l4'[f][r] = l4[Kernel][r]
    /\ \A r \in Slot \ KernelSlot : l4'[f][r] = None

\* create_user_page_table has the effect Creates
LEMMA CreateEffect ==
    ASSUME Control, MemoryTyped, OneUse, NEW c \in Core, create_user_page_table(c)
    PROVE  \E f \in Frame : Creates(c, f)
<1> DEFINE f == free[1]
<1>1. /\ free # <<>> /\ free' = Tail(free) /\ UNCHANGED pt
      /\ l4' = [l4 EXCEPT ![f] =
                   [s \in Slot |-> IF s \in KernelSlot THEN l4[cr3[c]][s] ELSE None]]
      /\ table' = [table EXCEPT ![cur[c]] = f]
      /\ cur[c] \in App /\ table[cur[c]] = None /\ cr3[c] = Kernel
  <2>1. cur[c] \in App /\ table[cur[c]] = None /\ cr3[c] = Kernel
    BY Zenon DEF create_user_page_table, Control, Typed, Ownership, Spaces, Preparing
  <2> QED  BY <2>1, Zenon DEF create_user_page_table, KernelEntries
<1>2. /\ free \in Seq(Frame) /\ 1 \in DOMAIN free /\ f \in Frame
      /\ DOMAIN free' = 1 .. Len(free) - 1 /\ \A i \in DOMAIN free' : free'[i] = free[i + 1]
      /\ \A i \in DOMAIN free' : i + 1 \in DOMAIN free /\ i + 1 # 1
  BY <1>1 DEF Control, Typed
<1>3. f \in FreeSet /\ f \notin FreeSet' /\ FreeSet' \subseteq FreeSet
  BY <1>2 DEF OneUse, FreeSet
<1>4. \A i, j \in DOMAIN free' : free'[i] = free'[j] => i = j
  BY <1>2 DEF OneUse
<1> HIDE DEF f
<1>5. \A u : u \in L4Tables' <=> u \in L4Tables \/ u = f
  <2>1. \A u : u \in L4Tables <=> u = Kernel \/ \E a \in App : table[a] # None /\ u = table[a]
    BY Zenon DEF L4Tables
  <2>2. \A u : u \in L4Tables' <=> u = Kernel \/ \E a \in App : table'[a] # None /\ u = table'[a]
    BY Zenon DEF L4Tables
  <2>3. f # None
    BY <1>2, FrameNumbers, Zenon
  <2>4. table'[cur[c]] = f /\ \A a \in App \ {cur[c]} : table'[a] = table[a]
    BY <1>1, Zenon DEF Control, Typed
  <2>5. \A a \in App : table[a] # None => a # cur[c]
    BY <1>1, Zenon
  <2> QED  BY <1>1, <2>1, <2>2, <2>3, <2>4, <2>5, SMTT(60)
<1>6. f \notin L4Tables
  BY <1>3, Zenon DEF OneUse
<1>7. /\ \A u \in L4Tables, r \in Slot : l4'[u][r] = l4[u][r]
      /\ \A r \in KernelSlot : l4'[f][r] = l4[Kernel][r]
      /\ \A r \in Slot \ KernelSlot : l4'[f][r] = None
  <2>1. L4Tables \subseteq Frame
    BY TablesAreFrames, Zenon DEF Control
  <2> QED  BY <1>1, <1>2, <1>6, <2>1, Zenon DEF MemoryTyped, Slot
<1>8. table'[cur[c]] = f /\ \A a \in App \ {cur[c]} : table'[a] = table[a]
  BY <1>1, Zenon DEF Control, Typed
<1> QED
  BY <1>1, <1>2, <1>3, <1>4, <1>5, <1>6, <1>7, <1>8, Zenon DEF Creates

\* A new L4 table keeps OneUse: its frame was free and it copies only the entries of
\* the kernel's half, which all tables share
LEMMA CreateKeepsOneUse ==
    ASSUME Control, MemoryTyped, OneUse, NEW c \in Core, create_user_page_table(c)
    PROVE  OneUse'
<1>1. PICK f \in Frame : Creates(c, f)
  BY CreateEffect, Zenon
<1>2. f \in FreeSet /\ f \notin FreeSet' /\ FreeSet' \subseteq FreeSet /\ UNCHANGED pt
  BY <1>1, Zenon DEF Creates
<1>3. \A i, j \in DOMAIN free' : free'[i] = free'[j] => i = j
  BY <1>1, Zenon DEF Creates
<1>4. \A u : u \in L4Tables' <=> u \in L4Tables \/ u = f
  BY <1>1, Zenon DEF Creates
<1>5. /\ \A u \in L4Tables, r \in Slot : l4'[u][r] = l4[u][r]
      /\ \A r \in KernelSlot : l4'[f][r] = l4[Kernel][r]
      /\ \A r \in Slot \ KernelSlot : l4'[f][r] = None
  BY <1>1, Zenon DEF Creates
<1>6. Kernel \in L4Tables /\ KernelSlot \subseteq Slot
  BY Zenon DEF L4Tables, Slot
<1>7. \A u \in LowerTables' : u \in LowerTables
  <2> TAKE u \in LowerTables'
  <2>1. PICK v \in L4Tables', r \in Slot : u = l4'[v][r] /\ u # None
    BY DEF LowerTables
  <2>2. \E v2 \in L4Tables : u = l4[v2][r]
    BY <1>4, <1>5, <1>6, <2>1, Zenon
  <2> QED  BY <2>1, <2>2, TablesAreFrames, Zenon DEF Control
<1>8. /\ \A u \in L4Tables' : u \notin FreeSet' /\ u \notin LowerTables'
      /\ \A u \in LowerTables' : u \notin FreeSet'
  BY <1>2, <1>4, <1>7, Zenon DEF OneUse
<1>9. \A u \in LowerTables', p \in Page : pt'[u][p] # None =>
          /\ pt'[u][p].frame \notin FreeSet' /\ pt'[u][p].frame \notin L4Tables'
          /\ pt'[u][p].frame \notin LowerTables'
  BY <1>2, <1>4, <1>7 DEF OneUse
<1>10. \A u, v \in LowerTables', p, q \in Page :
          pt'[u][p] # None /\ pt'[v][q] # None /\ pt'[u][p].frame = pt'[v][q].frame => u = v /\ p = q
  BY <1>2, <1>7 DEF OneUse
<1>11. ASSUME NEW u \in L4Tables', NEW v \in L4Tables', NEW r \in Slot, NEW s \in Slot,
              l4'[u][r] = l4'[v][s], l4'[u][r] # None
       PROVE  r = s /\ (u = v \/ r \in KernelSlot)
  BY <1>4, <1>5, <1>6, <1>11 DEF OneUse
<1>12. \A a, b \in App : table'[a] = table'[b] /\ table'[a] # None => a = b
  <2>1. \A a \in App : table[a] # None => table[a] \in L4Tables
    BY Zenon DEF L4Tables
  <2>2. f \notin L4Tables
    BY <1>1, Zenon DEF Creates
  <2>3. table'[cur[c]] = f /\ \A a \in App \ {cur[c]} : table'[a] = table[a]
    BY <1>1, Zenon DEF Creates
  <2> QED  BY <2>1, <2>2, <2>3, Zenon DEF OneUse
<1> QED
  BY <1>3, <1>8, <1>9, <1>10, <1>11, <1>12 DEF OneUse

\* Changing flags keeps OneUse: the frames stay where they are
LEMMA ProtectKeepsOneUse ==
    ASSUME Control, MemoryTyped, OneUse, Filling, NEW c \in Core, protect_segment(c)
    PROVE  OneUse'
<1>1. PICK t \in Frame : Protects(c, t)
  BY ProtectEffect, ZenonT(60)
<1>2. L4Tables' = L4Tables /\ LowerTables' = LowerTables /\ FreeSet' = FreeSet
  BY <1>1 DEF Protects, L4Tables, LowerTables, FreeSet
<1>3. ASSUME NEW u \in LowerTables, NEW p \in Page
      PROVE  /\ pt'[u][p] # None => pt[u][p] # None
             /\ pt'[u][p] # None => pt'[u][p].frame = pt[u][p].frame
  <2>1. u \in Frame
    BY TablesAreFrames, Zenon DEF Control
  <2>2. u # t => pt'[u] = pt[u]
    BY <1>1, <2>1, Zenon DEF Protects, MemoryTyped
  <2> QED  BY <1>1, <2>2, Zenon DEF Protects
<1>4. UNCHANGED <<free, l4, table>>
  BY <1>1, Zenon DEF Protects
<1>5. \A u \in LowerTables, p \in Page : pt'[u][p] # None =>
          /\ pt'[u][p].frame \notin FreeSet /\ pt'[u][p].frame \notin L4Tables
          /\ pt'[u][p].frame \notin LowerTables
  BY <1>3, Zenon DEF OneUse
<1>6. \A u, v \in LowerTables, p, q \in Page :
          pt'[u][p] # None /\ pt'[v][q] # None /\ pt'[u][p].frame = pt'[v][q].frame => u = v /\ p = q
  BY <1>3 DEF OneUse
<1> QED
  BY <1>2, <1>4, <1>5, <1>6 DEF OneUse

\* Every step keeps OneUse
LEMMA OneUseStep ==
    ASSUME Control, MemoryTyped, OneUse, Filling, [Next]_vars
    PROVE  OneUse'
<1>1. ASSUME NEW c \in Core, NEW pages, Maps(c, pages), UNCHANGED table PROVE OneUse'
  <2>1. Region(c) \in Slot
    BY Zenon DEF Region, Slot, KernelSlot
  <2> QED
    BY <1>1, <2>1, ActiveTable, MapKeepsOneUse, Zenon DEF Maps, Control
<1>2. ASSUME UNCHANGED <<l4, pt, table>>, UNCHANGED free \/ free' = <<>> PROVE OneUse'
  <2>1. L4Tables' = L4Tables /\ LowerTables' = LowerTables
    BY <1>2 DEF L4Tables, LowerTables
  <2>2. FreeSet' \subseteq FreeSet
    BY <1>2 DEF FreeSet
  <2>3. \A i, j \in DOMAIN free' : free'[i] = free'[j] => i = j
    BY <1>2 DEF OneUse
  <2> QED  BY <1>2, <2>1, <2>2, <2>3 DEF OneUse
<1> QED
  BY <1>1, <1>2, CreateKeepsOneUse, ProtectKeepsOneUse, MemoryCases, Zenon

\* A mapping overwrites no L4 entry and unmaps no page
LEMMA MapsKeep ==
    ASSUME Control, MemoryTyped, OneUse, NEW c \in Core, NEW pages, Maps(c, pages)
    PROVE  /\ \A u \in L4Tables, r \in Slot : l4[u][r] # None => l4'[u][r] = l4[u][r]
           /\ \A u \in L4Tables, r \in Slot \ {Region(c)} : l4'[u][r] = l4[u][r]
           /\ \A u \in LowerTables, p \in Page : pt[u][p] # None => pt'[u][p] # None
<1>1. PICK w \in BOOLEAN, x \in BOOLEAN, t \in Frame : MapsInto(c, Region(c), pages, w, x, t)
  BY Zenon DEF Maps
<1>2. L4Tables \subseteq Frame /\ LowerTables \subseteq Frame /\ Region(c) \in Slot
  BY TablesAreFrames, Zenon DEF Control, Region, Slot, KernelSlot
<1>3. cr3[c] \in L4Tables
  BY <1>2, ActiveTable, Zenon DEF Control
<1>4. /\ \A u \in L4Tables, r \in Slot : l4[u][r] # None => l4'[u][r] = l4[u][r]
      /\ \A u \in L4Tables, r \in Slot \ {Region(c)} : l4'[u][r] = l4[u][r]
  <2>1. \A u \in L4Tables, r \in Slot :
          l4'[u][r] = l4[u][r] \/ (r = Region(c) /\ l4[u][r] = None)
    BY <1>1, <1>2, <1>3, MapsL4
  <2> QED  BY <2>1, Zenon
<1>5. ASSUME NEW u \in LowerTables, NEW p \in Page, pt[u][p] # None PROVE pt'[u][p] # None
  <2>1. CASE u # t
    <3>1. pt'[u] = pt[u]
      BY <1>1, <1>2, <2>1, Zenon DEF MapsInto, MemoryTyped
    <3> QED  BY <1>5, <3>1, Zenon
  <2>2. CASE u = t
    <3>1. t \notin FreeSet
      BY <2>2, Zenon DEF OneUse
    <3>2. LowerTable(c, Region(c)) # None
      BY <1>1, <3>1, FrameNumbers, Zenon DEF MapsInto
    <3>3. None \notin Entry
      BY NoneIsNoEntry, Zenon
    <3> QED  BY <1>1, <1>5, <2>2, <3>2, <3>3 DEF MapsInto
  <2> QED  BY <2>1, <2>2, Zenon
<1> QED
  BY <1>4, <1>5, Zenon

\* No step replaces a table or unmaps a page
LEMMA MappedStays ==
    ASSUME Control, MemoryTyped, OneUse, Filling, [Next]_vars
    PROVE  /\ \A a \in App : table[a] # None => table'[a] = table[a]
           /\ \A u \in L4Tables, r \in Slot : l4[u][r] # None => l4'[u][r] = l4[u][r]
           /\ \A u \in LowerTables, p \in Page : pt[u][p] # None => pt'[u][p] # None
<1> DEFINE Stays == /\ \A a \in App : table[a] # None => table'[a] = table[a]
                    /\ \A u \in L4Tables, r \in Slot : l4[u][r] # None => l4'[u][r] = l4[u][r]
                    /\ \A u \in LowerTables, p \in Page : pt[u][p] # None => pt'[u][p] # None
<1>1. ASSUME NEW c \in Core, NEW pages, Maps(c, pages), UNCHANGED table PROVE Stays
  BY <1>1, MapsKeep, Zenon
<1>2. ASSUME NEW c \in Core, create_user_page_table(c) PROVE Stays
  BY <1>2, CreateEffect, Zenon DEF Creates
<1>3. ASSUME NEW c \in Core, protect_segment(c) PROVE Stays
  <2>1. PICK t \in Frame : Protects(c, t)
    BY <1>3, ProtectEffect, Zenon
  <2>2. ASSUME NEW u \in LowerTables, NEW p \in Page, pt[u][p] # None PROVE pt'[u][p] # None
    <3>1. u \in Frame
      BY TablesAreFrames, Zenon DEF Control
    <3>2. u # t => pt'[u] = pt[u]
      BY <2>1, <3>1, Zenon DEF Protects, MemoryTyped
    <3>3. None \notin Entry
      BY NoneIsNoEntry, Zenon
    <3> QED  BY <2>1, <2>2, <3>2, <3>3, ZenonT(60) DEF Protects
  <2> QED  BY <2>1, <2>2, Zenon DEF Protects
<1>4. ASSUME UNCHANGED <<l4, pt, table>> PROVE Stays
  BY <1>4, Zenon
<1> HIDE DEF Stays
<1>5. Stays
  BY <1>1, <1>2, <1>3, <1>4, MemoryCases, Zenon
<1> QED
  BY <1>5, Zenon DEF Stays

\* Only grow_kernel_heap grows the kernel heap
LEMMA KernelHeapGrows ==
    ASSUME [Next]_vars
    PROVE  kheap' = kheap \/ \E c \in Core : grow_kernel_heap(c)
<1>1. ASSUME NEW c \in Core,
             \/ create_user_page_table(c) \/ map_segment(c) \/ fill_segment(c)
             \/ protect_segment(c) \/ allocate_stack(c) \/ switch_to_kernel_page_table(c)
             \/ switch_to_user_page_table(c) \/ switch_stack_and_execute(c)
             \/ StartGrowUser(c) \/ grow_user_heap(c)
             \/ user_main(c) \/ abort(c) \/ leave_application(c)
             \/ StartGrowKernel(c) \/ Panic(c)
             \/ \E a \in App : StartPrepare(c, a) \/ StartRun(c, a) \/ StartDrop(c, a)
      PROVE  kheap' = kheap
  BY <1>1, Zenon
  DEF create_user_page_table, map_segment, fill_segment, protect_segment, allocate_stack,
      switch_to_kernel_page_table, switch_to_user_page_table, switch_stack_and_execute,
      StartGrowUser, grow_user_heap, user_main, abort, leave_application, StartGrowKernel,
      Panic, StartPrepare, StartRun, StartDrop
<1>2. CASE UNCHANGED vars
  BY <1>2, Zenon DEF vars
<1> QED
  BY <1>1, <1>2, StepCases, Zenon

\* Every step keeps KernelHalf: a page of the kernel heap is mapped in the one table
\* that all L4 tables share, so no table has to be told
LEMMA KernelHalfStep ==
    ASSUME Control, MemoryTyped, OneUse, Filling, KernelHalf, [Next]_vars
    PROVE  KernelHalf'
<1> DEFINE H == BootTable["heap"]
<1>0. /\ H \in Frame /\ H # None /\ BootTable["stacks"] # None /\ H = 1
      /\ {"heap", "stacks"} \subseteq Slot /\ {"heap", "stacks"} \subseteq KernelSlot
  BY FrameNumbers, Zenon DEF BootTable, Slot, KernelSlot
<1> HIDE DEF H
<1>1. Kernel \in L4Tables /\ H \in LowerTables
  <2>1. Kernel \in L4Tables
    BY Zenon DEF L4Tables
  <2> QED  BY <1>0, <2>1, TablesAreFrames, Zenon DEF KernelHalf, Control, H
<1>2. ASSUME NEW u \in L4Tables' PROVE l4'[u]["heap"] = H /\ l4'[u]["stacks"] = BootTable["stacks"]
  <2>1. CASE u \in L4Tables
    BY <1>0, <2>1, MappedStays, Zenon DEF KernelHalf, H
  <2>2. CASE u \notin L4Tables
    <3>1. UNCHANGED table => L4Tables' = L4Tables
      BY Zenon DEF L4Tables
    <3>2. \A c \in Core : protect_segment(c) => UNCHANGED table
      BY Zenon DEF protect_segment, appvars
    <3>3. \E c \in Core : create_user_page_table(c)
      BY <2>2, <3>1, <3>2, MemoryCases, Zenon
    <3>4. PICK c \in Core, f \in Frame : Creates(c, f)
      BY <3>3, CreateEffect, Zenon
    <3> QED  BY <1>0, <1>1, <2>2, <3>4, Zenon DEF Creates, KernelHalf, H
  <2> QED  BY <2>1, <2>2, Zenon
<1>3. \A p \in Page : pt[H][p] # None => pt'[H][p] # None
  BY <1>1, MappedStays, Zenon
<1>4. /\ kheap' <= Len(KernelHeapPages)
      /\ \A i \in 1 .. kheap' : pt'[H][KernelHeapPages[i]] # None
  <2>0. /\ kheap \in Nat /\ kheap <= Len(KernelHeapPages)
        /\ \A i \in 1 .. kheap : KernelHeapPages[i] \in Page /\ pt[H][KernelHeapPages[i]] # None
    BY OtherPages DEF KernelHalf, H, Control, Typed
  <2>1. CASE kheap' = kheap
    BY <1>3, <2>0, <2>1, Zenon
  <2>2. ASSUME NEW c \in Core, grow_kernel_heap(c)
        PROVE  /\ kheap' <= Len(KernelHeapPages)
               /\ \A i \in 1 .. kheap' : pt'[H][KernelHeapPages[i]] # None
    <3>1. /\ pc[c] = "grow_kernel" /\ kheap' = kheap + 1 /\ kheap < Len(KernelHeapPages)
      BY <2>2, Zenon DEF grow_kernel_heap, Control, Ranges
    <3>2. Maps(c, <<KernelHeapPages[kheap + 1]>>) /\ Region(c) = "heap"
      <4>1. Maps(c, Wanted(c))
        BY <2>2, MappingSteps, Zenon
      <4> QED  BY <3>1, <4>1, Zenon DEF Wanted, Region
    <3>3. PICK w \in BOOLEAN, x \in BOOLEAN, t \in Frame :
             MapsInto(c, "heap", <<KernelHeapPages[kheap + 1]>>, w, x, t)
      BY <3>2, Zenon DEF Maps
    <3>4. LowerTable(c, "heap") = H
      BY <1>0, ActiveTable, Zenon DEF Control, KernelHalf, LowerTable, H
    <3>5. t = H
      BY <1>0, <3>3, <3>4, Zenon DEF MapsInto
    <3>6. pt'[H][KernelHeapPages[kheap + 1]] \in Entry
      BY <3>3, <3>5 DEF MapsInto, PagesOf
    <3>7. None \notin Entry
      BY NoneIsNoEntry, Zenon
    <3> QED  BY <1>3, <2>0, <3>1, <3>6, <3>7
  <2> QED  BY <2>1, <2>2, KernelHeapGrows, Zenon
<1> QED
  BY <1>2, <1>4, Zenon DEF KernelHalf, H

\* Every step keeps Filling: map_segment maps the whole segment or panics, and no
\* other core unmaps a page of it
LEMMA FillingStep ==
    ASSUME Control, MemoryTyped, OneUse, Filling, [Next]_vars
    PROVE  Filling'
<1>1. ASSUME NEW a \in App, NEW i \in DOMAIN Segments, table[a] # None, HasSegment(a, i)
      PROVE  HasSegment(a, i)'
  <2>1. table[a] \in L4Tables /\ "user" \in Slot
    BY <1>1, Zenon DEF L4Tables, Slot
  <2>2. UserTable(a) # None /\ UserTable(a) \in LowerTables
    BY <1>1, <2>1, TablesAreFrames, Zenon DEF Control, HasSegment, UserTable
  <2>3. UserTable(a)' = UserTable(a)
    BY <1>1, <2>1, <2>2, MappedStays, ZenonT(60) DEF UserTable
  <2> QED
    BY <1>1, <2>2, <2>3, MappedStays, PagesOfSegments, Zenon DEF HasSegment
<1>2. ASSUME NEW d \in Core, pc[d] \in {"fill", "protect"}, cur'[d] = cur[d], seg'[d] = seg[d]
      PROVE  HasSegment(cur[d], seg[d])'
  <2>1. /\ cur[d] \in App /\ seg[d] \in DOMAIN Segments /\ table[cur[d]] # None
    BY <1>2, FrameNumbers DEF Control, Typed, Ownership, Ranges, Spaces, OwnTable, Preparing
  <2>2. PICK a \in App, i \in DOMAIN Segments : a = cur[d] /\ i = seg[d]
    BY <2>1, Zenon
  <2>3. HasSegment(a, i)'
    BY <1>1, <1>2, <2>1, <2>2, Zenon DEF Filling
  <2> QED  BY <1>2, <2>2, <2>3, Zenon
<1>3. ASSUME NEW c \in Core, map_segment(c) PROVE HasSegment(cur[c], seg[c])'
  <2>1. pc[c] = "map" /\ Maps(c, Wanted(c)) /\ UNCHANGED <<table, cr3, cur, seg>>
    BY <1>3, MappingSteps, Zenon DEF map_segment
  <2>2. PICK w \in BOOLEAN, x \in BOOLEAN, t \in Frame :
           MapsInto(c, "user", Segments[seg[c]].pages, w, x, t)
    BY <2>1, Zenon DEF Maps, Wanted, Region
  <2>3. cr3[c] = table[cur[c]] /\ cr3[c] \in Frame
    BY <2>1, Zenon DEF Control, Typed, Spaces, OwnTable
  <2>4. UserTable(cur[c])' = t
    <3>1. \/ l4[cr3[c]]["user"] = t /\ UNCHANGED l4
          \/ l4' = [l4 EXCEPT ![cr3[c]]["user"] = t]
      BY <2>2, Zenon DEF MapsInto, LowerTable
    <3>2. l4[cr3[c]] \in [Slot -> Frame \cup {None}] /\ "user" \in Slot
      BY <2>3, Zenon DEF MemoryTyped, Slot
    <3>3. l4'[cr3[c]]["user"] = t
      BY <2>3, <3>1, <3>2, Zenon DEF MemoryTyped
    <3>4. table'[cur'[c]] = cr3[c] /\ cur'[c] = cur[c]
      BY <2>1, <2>3, Zenon
    <3> QED  BY <3>3, <3>4, Zenon DEF UserTable
  <2>5. \A p \in PagesOf(Segments[seg[c]].pages) : pt'[t][p] # None
    BY <2>2, NoneIsNoEntry, Zenon DEF MapsInto
  <2> QED  BY <2>1, <2>4, <2>5, FrameNumbers, Zenon DEF HasSegment
<1>4. ASSUME NEW c \in Core, StepOf(c), pc'[c] \in {"fill", "protect"}
      PROVE  \/ pc[c] \in {"fill", "protect"} /\ cur'[c] = cur[c] /\ seg'[c] = seg[c]
             \/ map_segment(c)
  <2>1. CASE fill_segment(c)
    BY <2>1, Zenon DEF fill_segment
  <2>2. CASE ~fill_segment(c) /\ ~map_segment(c)
    <3>1. \E l \in {"create", "map", "stack", "to_kernel", "kernel", "execute", "to_user", "user",
                    "grow_user", "abort", "leave", "grow_kernel", "panic"} :
             pc' = [pc EXCEPT ![c] = l]
      <4>1. protect_segment(c) => \E l \in {"map", "stack"} : pc' = [pc EXCEPT ![c] = l]
        BY Zenon DEF protect_segment, Goto
      <4>2. switch_to_user_page_table(c) =>
               \E l \in {"execute", "to_kernel"} : pc' = [pc EXCEPT ![c] = l]
        BY Zenon DEF switch_to_user_page_table, Goto
      <4> QED  BY <1>4, <2>2, <4>1, <4>2, Zenon
          DEF StepOf, create_user_page_table, allocate_stack, switch_to_kernel_page_table,
              switch_stack_and_execute, StartGrowUser, grow_user_heap, user_main, abort,
              leave_application, StartGrowKernel, grow_kernel_heap, Panic, StartPrepare,
              StartRun, StartDrop, Goto
    <3> QED  BY <1>4, <3>1, Zenon DEF Control, Typed
  <2> QED  BY <2>1, <2>2, Zenon
<1>5. CASE UNCHANGED vars
  BY <1>2, <1>5, Zenon DEF vars, Filling
<1>6. ASSUME NEW c \in Core, StepOf(c), NEW d \in Core, pc'[d] \in {"fill", "protect"}
      PROVE  HasSegment(cur[d], seg[d])'
  BY <1>2, <1>3, <1>4, <1>6, OneCore, Zenon DEF Control
<1> QED
  BY <1>5, <1>6, StepCases, Zenon DEF Filling, StepOf
--------------------------------------------------------------------------------
\* The invariant of the page tables
MInv == MemoryTyped /\ OneUse /\ Filling /\ KernelHalf

\* It holds for the tables the boot code made
LEMMA MemoryInit ==
    ASSUME Init
    PROVE  MInv
<1>1. \A u : u \in L4Tables <=> u = 0
  <2>1. \A a \in App : table[a] = None
    BY Zenon DEF Init
  <2> QED  BY <2>1, Zenon DEF L4Tables, Kernel
<1>2. /\ l4 = [f \in Frame |-> IF f = 0 THEN BootTable ELSE [s \in Slot |-> f]]
      /\ pt = [f \in Frame |-> [p \in Page |-> None]]
      /\ table = [a \in App |-> None]
  BY Zenon DEF Init, Kernel
<1>3. PICK n \in Frames : n \in Nat /\ free = [i \in 1..n |-> i + 3]
  BY LoaderAssumption, Zenon DEF Init
<1>4. /\ BootTable \in [Slot -> {1, 2, 3}]
      /\ BootTable["heap"] = 1 /\ BootTable["stacks"] = 2 /\ BootTable["user"] = 3
  BY DEF BootTable, Slot, KernelSlot
<1>5. MemoryTyped
  <2>1. l4 \in [Frame -> [Slot -> Frame \cup {None}]]
    BY <1>2, <1>4, FrameNumbers, Zenon
  <2>2. pt \in [Frame -> [Page -> Entry \cup {None}]]
    BY <1>2, Zenon
  <2> QED  BY <2>1, <2>2, Zenon DEF MemoryTyped
<1>6. l4[0] = BootTable
  BY <1>2, FrameNumbers, Zenon
<1>7. \A u \in LowerTables : u \in {1, 2, 3}
  <2> TAKE u \in LowerTables
  <2>1. PICK v \in L4Tables, r \in Slot : u = l4[v][r]
    BY SMT DEF LowerTables
  <2> QED  BY <1>1, <1>4, <1>6, <2>1, Zenon
<1>8. \A f \in FreeSet : f \in Nat /\ f > 3
  BY <1>3 DEF FreeSet
<1>9. OneUse
  <2>1. \A i, j \in DOMAIN free : free[i] = free[j] => i = j
    BY <1>3
  <2>2. /\ \A t \in L4Tables : t \notin FreeSet /\ t \notin LowerTables
        /\ \A t \in LowerTables : t \notin FreeSet
    BY <1>1, <1>7, <1>8
  <2>3. \A t \in LowerTables, p \in Page : pt[t][p] = None
    BY <1>2, <1>7, FrameNumbers, Zenon
  <2>4. \A t, u \in L4Tables, r, s \in Slot : l4[t][r] = l4[u][s] => r = s /\ t = u
    BY <1>1, <1>4, <1>6 DEF Slot, KernelSlot
  <2>5. \A a \in App : table[a] = None
    BY <1>2, Zenon
  <2> QED  BY <2>1, <2>2, <2>3, <2>4, <2>5 DEF OneUse
<1>10. Filling
  BY Zenon DEF Init, Filling
<1>11. KernelHalf
  <2>1. kheap = 0 /\ 0 <= Len(KernelHeapPages)
    BY OtherPages DEF Init
  <2> QED  BY <1>1, <1>6, <2>1 DEF KernelHalf
<1> QED
  BY <1>5, <1>9, <1>10, <1>11, Zenon DEF MInv

\* Control and the invariant of the page tables always hold, for every number of
\* frames, cores and applications.
THEOREM MemoryInvariant == Spec => [](Control /\ MInv)
<1>1. Init => Control /\ Registers /\ MInv
  BY ControlInit, MemoryInit, Zenon
<1>2. Control /\ Registers /\ MInv /\ [Next]_vars => (Control /\ Registers /\ MInv)'
  BY ControlStep, MemoryTypedStep, OneUseStep, FillingStep, KernelHalfStep, Zenon DEF MInv
<1> QED
  BY <1>1, <1>2, PTL DEF Spec

\* FrameHasOneUse for every number of frames, cores and applications: map_ram and
\* create_user_page_table never hand out a frame that is in use.
THEOREM FrameHasOneUseTheorem == Spec => []FrameHasOneUse
  BY MemoryInvariant, OneUseMeans, PTL DEF MInv

\* KernelHalfShared for every number of frames, cores and applications: the kernel
\* finds the same heap and stacks under every table, however the heap grew meanwhile.
THEOREM KernelHalfSharedTheorem == Spec => []KernelHalfShared
<1>1. Control /\ MInv => KernelHalfShared
  <2> SUFFICES ASSUME Control, MInv, NEW c \in Core, NEW i \in 1 .. kheap
               PROVE  LET t == l4[cr3[c]]["heap"]
                      IN  /\ t # None
                          /\ pt[t][KernelHeapPages[i]] # None
                          /\ pt[t][KernelHeapPages[i]] = pt[l4[Kernel]["heap"]][KernelHeapPages[i]]
    BY Zenon DEF KernelHalfShared
  <2>1. cr3[c] \in L4Tables /\ Kernel \in L4Tables
    BY ActiveTable, Zenon DEF Control, MInv, L4Tables, Slot, KernelSlot
  <2>2. l4[cr3[c]]["heap"] = BootTable["heap"] /\ l4[Kernel]["heap"] = BootTable["heap"]
    BY <2>1, Zenon DEF MInv, KernelHalf
  <2>3. BootTable["heap"] # None
    BY FrameNumbers, Zenon DEF BootTable
  <2> QED  BY <2>2, <2>3, Zenon DEF MInv, KernelHalf
<1> QED
  BY <1>1, MemoryInvariant, PTL

\* What a step may never do: give an application another table, replace a lower table,
\* or unmap a page; unmap of memory.rs is for the trampoline page of the boot.
NothingUnmapped ==
    /\ \A a \in App : table[a] # None => table'[a] = table[a]
    /\ \A t \in L4Tables, s \in Slot : l4[t][s] # None => l4'[t][s] = l4[t][s]
    /\ \A t \in LowerTables, p \in Page : pt[t][p] # None => pt'[t][p] # None

\* No step of the loader unmaps anything, drop of ApplicationResources included, for
\* every number of frames, cores and applications.
THEOREM NothingUnmappedTheorem == Spec => [][NothingUnmapped]_vars
<1>1. Control /\ MInv /\ [Next]_vars => [NothingUnmapped]_vars
  BY MappedStays, Zenon DEF MInv, NothingUnmapped
<1> QED
  BY <1>1, MemoryInvariant, PTL DEF Spec
--------------------------------------------------------------------------------
\* The entry of application a's table for page p of its region
Img(a, p) ==
    IF table[a] = None THEN None
    ELSE IF UserTable(a) = None THEN None ELSE pt[UserTable(a)][p]

\* What a mapping changes in the image of an application: its own new pages, with
\* frames that were free
LEMMA ImgMaps ==
    ASSUME Control, MInv, NEW c \in Core, NEW pages \in Seq(Page), Maps(c, pages),
           UNCHANGED table, pc[c] \in {"map", "stack", "grow_user", "grow_kernel"},
           NEW b \in App
    PROVE  /\ \A p \in Page : pc[c] = "grow_kernel" \/ b # cur[c] \/ p \notin PagesOf(pages) =>
                 Img(b, p)' = Img(b, p)
           /\ pc[c] # "grow_kernel" /\ b = cur[c] => \A p \in PagesOf(pages) :
                 /\ Img(b, p)' \in Entry /\ Img(b, p)'.frame \in FreeSet
                 /\ Img(b, p)'.exec => pc[c] = "map"
<1>1. PICK w \in BOOLEAN, x \in BOOLEAN, t \in Frame :
         (x => pc[c] = "map") /\ MapsInto(c, Region(c), pages, w, x, t)
  BY Zenon DEF Maps
<1>2. /\ Control /\ MemoryTyped /\ OneUse /\ Typed /\ Region(c) \in Slot
      /\ pc[c] = "grow_kernel" <=> Region(c) # "user"
      /\ "user" \in Slot /\ "user" \notin KernelSlot
  BY Zenon DEF MInv, Control, Region, Slot, KernelSlot
<1>3. cr3[c] \in L4Tables /\ cr3[c] \in Frame
  BY <1>2, ActiveTable, Zenon DEF Control
<1>4. pc[c] # "grow_kernel" => cr3[c] = table[cur[c]] /\ cur[c] \in App
  BY LoaderAssumption, Zenon DEF Control, Typed, Spaces, Ownership, OwnTable, Inside, Preparing
<1> DEFINE T == table[b]
           u == l4[T]["user"]
<1>5. CASE T = None
  <2>1. \A p : Img(b, p)' = Img(b, p)
    BY <1>5, Zenon DEF Img
  <2>2. pc[c] # "grow_kernel" => b # cur[c]
    BY <1>3, <1>4, <1>5, FrameNumbers, Zenon
  <2> QED  BY <2>1, <2>2, Zenon
<1>6. CASE T # None
  <2>1. T \in L4Tables /\ T \in Frame
    BY <1>2, <1>6, TablesAreFrames, Zenon DEF L4Tables
  <2>2. /\ \A p : Img(b, p) = IF u = None THEN None ELSE pt[u][p]
        /\ \A p : Img(b, p)' = IF l4'[T]["user"] = None THEN None ELSE pt'[l4'[T]["user"]][p]
    BY <1>6, Zenon DEF Img, UserTable
  <2>3. None # t
    BY FrameNumbers, Zenon
  <2>4. CASE T = cr3[c] /\ Region(c) = "user"
    <3>1. b = cur[c]
      BY <1>2, <1>4, <1>6, <2>4, Zenon DEF OneUse
    <3>2. l4'[T]["user"] = t
      BY <1>1, <1>2, <1>3, <2>3, <2>4 DEF MapsInto, LowerTable, MemoryTyped
    <3>3. \A p \in Page \ PagesOf(pages) : Img(b, p)' = Img(b, p)
      BY <1>1, <2>2, <2>3, <2>4, <3>2 DEF MapsInto, LowerTable
    <3>4. \A p \in PagesOf(pages) : Img(b, p)' = pt'[t][p]
      BY <2>2, <2>3, <3>2, Zenon
    <3>5. \A p \in PagesOf(pages) :
            pt'[t][p] \in Entry /\ pt'[t][p].frame \in FreeSet /\ pt'[t][p].exec = x
      BY <1>1, Zenon DEF MapsInto
    <3> QED  BY <1>1, <1>2, <2>4, <3>1, <3>3, <3>4, <3>5, Zenon
  <2>5. CASE ~(T = cr3[c] /\ Region(c) = "user")
    <3>1. l4'[T]["user"] = u
      BY <1>1, <1>2, <1>3, <2>1, <2>5, MapsL4
    <3>2. pc[c] # "grow_kernel" => b # cur[c]
      BY <1>2, <1>4, <2>5, ZenonT(60)
    <3>3. u # None => u # t
      <4> SUFFICES ASSUME u = t PROVE FALSE
        BY Zenon
      <4>1. u \in LowerTables /\ u \notin FreeSet
        BY <1>2, <2>1, <2>3, TablesAreFrames, Zenon DEF OneUse
      <4>2. l4[cr3[c]][Region(c)] = u
        BY <1>1, <4>1, Zenon DEF MapsInto, LowerTable
      <4> QED  BY <1>2, <1>3, <2>1, <2>3, <2>5, <4>2 DEF OneUse
    <3>4. u # None => u \in Frame
      BY <1>2, <2>1 DEF MemoryTyped
    <3>5. u # None => pt'[u] = pt[u]
      BY <1>1, <1>2, <3>3, <3>4, Zenon DEF MapsInto, MemoryTyped
    <3> QED  BY <2>2, <3>1, <3>2, <3>5, ZenonT(60)
  <2> QED  BY <2>4, <2>5, Zenon
<1> QED
  BY <1>5, <1>6, Zenon

\* An entry of an image is an entry or missing
LEMMA ImgTyped ==
    ASSUME Control, MInv, NEW b \in App
    PROVE  /\ \A p \in Page : Img(b, p) \in Entry \cup {None}
           /\ table[b] # None => table[b] \in L4Tables
           /\ table[b] # None /\ UserTable(b) # None => UserTable(b) \in LowerTables
<1>1. table[b] # None => table[b] \in L4Tables /\ table[b] \in Frame
  BY Zenon DEF Control, Typed, L4Tables
<1>2. table[b] # None /\ UserTable(b) # None => UserTable(b) \in LowerTables /\ UserTable(b) \in Frame
  BY <1>1, TablesAreFrames, Zenon DEF UserTable, MInv, Control, Slot
<1> QED
  BY <1>1, <1>2, Zenon DEF Img, MInv, MemoryTyped

\* Two applications have different tables for their half
LEMMA UserTablesApart ==
    ASSUME Control, MInv, NEW a \in App, NEW b \in App, table[a] # None, table[b] # None,
           UserTable(a) # None, UserTable(a) = UserTable(b)
    PROVE  a = b
<1>1. table[a] \in L4Tables /\ table[b] \in L4Tables /\ "user" \in Slot /\ "user" \notin KernelSlot
  BY ImgTyped, Zenon DEF Slot, KernelSlot
<1>2. table[a] = table[b]
  BY <1>1, Zenon DEF UserTable, MInv, OneUse
<1> QED
  BY <1>2, Zenon DEF MInv, OneUse

\* Two pages of images, of one application or of two, have different frames
LEMMA ImagesApart ==
    ASSUME Control, MInv, NEW a \in App, NEW b \in App, NEW p \in Page, NEW q \in Page,
           Img(a, p) # None, Img(b, q) # None, Img(a, p).frame = Img(b, q).frame
    PROVE  a = b /\ p = q
<1> DEFINE t == UserTable(a)
           u == UserTable(b)
<1>1. /\ table[a] # None /\ t # None /\ Img(a, p) = pt[t][p]
      /\ table[b] # None /\ u # None /\ Img(b, q) = pt[u][q]
  BY Zenon DEF Img
<1>2. /\ t \in LowerTables /\ table[a] \in L4Tables
      /\ u \in LowerTables /\ table[b] \in L4Tables
  BY <1>1, ImgTyped, Zenon
<1>3. t = u /\ p = q
  BY <1>1, <1>2 DEF MInv, OneUse
<1> QED
  BY <1>1, <1>3, UserTablesApart, Zenon

\* What protect_segment changes in the image of an application: the flags of the
\* segment, never the frame
LEMMA ImgProtect ==
    ASSUME Control, MInv, NEW c \in Core, protect_segment(c), NEW b \in App
    PROVE  LET range == PagesOf(Segments[seg[c]].pages)
           IN  /\ \A p \in Page : b # cur[c] \/ p \notin range => Img(b, p)' = Img(b, p)
               /\ b = cur[c] => \A p \in range :
                    /\ Img(b, p) # None /\ Img(b, p)' \in Entry
                    /\ Img(b, p)'.frame = Img(b, p).frame
                    /\ Img(b, p)'.write = SegWrite(Segments[seg[c]])
                    /\ Img(b, p)'.exec = SegExec(Segments[seg[c]])
<1> DEFINE range == PagesOf(Segments[seg[c]].pages)
<1>1. PICK t \in Frame : Protects(c, t)
  BY ProtectEffect, Zenon DEF MInv
<1>2. /\ table' = table /\ l4' = l4 /\ t = UserTable(cur[c])
      /\ pt' = [pt EXCEPT ![t] = pt'[t]]
      /\ \A p \in Page \ range : pt'[t][p] = pt[t][p]
      /\ \A p \in range :
          /\ pt[t][p] # None /\ pt'[t][p] \in Entry /\ pt'[t][p].frame = pt[t][p].frame
          /\ pt'[t][p].write = SegWrite(Segments[seg[c]])
          /\ pt'[t][p].exec = SegExec(Segments[seg[c]])
  BY <1>1, Zenon DEF Protects
<1> HIDE DEF range
<1>3. /\ cur[c] \in App /\ table[cur[c]] # None /\ t # None
  <2>1. pc[c] = "protect"
    BY Zenon DEF protect_segment
  <2>2. cur[c] # None
    BY <2>1, Zenon DEF Control, Ownership, Preparing
  <2>3. cr3[c] = table[cur[c]]
    BY <2>1, Zenon DEF Control, Spaces, OwnTable
  <2>4. cr3[c] \in Frame /\ cur[c] \in App \cup {None}
    BY Zenon DEF Control, Typed
  <2> QED  BY <2>2, <2>3, <2>4, FrameNumbers, Zenon
<1>4. /\ \A p : Img(b, p) = IF table[b] = None THEN None
                           ELSE IF UserTable(b) = None THEN None ELSE pt[UserTable(b)][p]
      /\ \A p : Img(b, p)' = IF table[b] = None THEN None
                           ELSE IF UserTable(b) = None THEN None ELSE pt'[UserTable(b)][p]
  BY <1>2, ZenonT(60) DEF Img, UserTable
<1>5. CASE b = cur[c]
  BY <1>2, <1>3, <1>4, <1>5 DEF range
<1>6. CASE b # cur[c]
  <2>1. table[b] # None /\ UserTable(b) # None => UserTable(b) # t
    BY <1>2, <1>3, <1>6, UserTablesApart, Zenon
  <2>2. table[b] # None /\ UserTable(b) # None => UserTable(b) \in Frame
    BY ImgTyped, TablesAreFrames, Zenon DEF MInv, Control
  <2>3. table[b] # None /\ UserTable(b) # None => pt'[UserTable(b)] = pt[UserTable(b)]
    BY <1>2, <2>1, <2>2, Zenon DEF MInv, MemoryTyped
  <2> QED  BY <1>4, <1>6, <2>3, Zenon DEF range
<1> QED
  BY <1>5, <1>6, Zenon

\* A new L4 table changes no image
LEMMA ImgSame ==
    ASSUME Control, MInv, NEW b \in App,
           \/ \E c \in Core : create_user_page_table(c)
           \/ UNCHANGED <<l4, pt, table>>
    PROVE  \A p : Img(b, p)' = Img(b, p)
<1>1. CASE UNCHANGED <<l4, pt, table>>
  BY <1>1, Zenon DEF Img, UserTable
<1>2. ASSUME NEW c \in Core, create_user_page_table(c) PROVE \A p : Img(b, p)' = Img(b, p)
  <2>1. PICK f \in Frame : Creates(c, f)
    BY <1>2, CreateEffect, Zenon DEF MInv
  <2>2. CASE b = cur[c]
    <3>1. table[b] = None /\ table'[b] = f /\ l4'[f]["user"] = None
      BY <2>1, <2>2, Zenon DEF Creates, Slot, KernelSlot
    <3> QED  BY <3>1, Zenon DEF Img, UserTable
  <2>3. CASE b # cur[c]
    <3>1. table'[b] = table[b] /\ pt' = pt
      BY <2>1, <2>3, Zenon DEF Creates
    <3>2. table[b] # None => l4'[table[b]]["user"] = l4[table[b]]["user"]
      BY <2>1, ImgTyped DEF Creates, Slot
    <3> QED  BY <3>1, <3>2, Zenon DEF Img, UserTable
  <2> QED  BY <2>2, <2>3, Zenon
<1> QED
  BY <1>1, <1>2, Zenon
================================================================================
