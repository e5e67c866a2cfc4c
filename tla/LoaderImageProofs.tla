---------------------------- MODULE LoaderImageProofs ----------------------------
(***************************************************************************)
(* What an application finds in its address space, for every number of        *)
(* cores and applications.  Images follows the segments of an application      *)
(* from map_segment to protect_segment and shows PreparedImage; Counting       *)
(* follows COUNTER, a static of the test program, and the exit code from       *)
(* fill_segment through every run and shows ExitCodes.  Both rest on the       *)
(* frames of two images being different, which is FrameHasOneUse.             *)
(***************************************************************************)
EXTENDS LoaderMemoryProofs

\* Segment i is mapped in the table of application a with the flags it asks for
Loaded(a, i) == \A p \in PagesOf(Segments[i].pages) :
                   Img(a, p) # None /\ Img(a, p).write = Segments[i].write
\* No page of application a outside Q is both writable and executable
WX(a, Q) == \A p \in Page \ Q : Img(a, p) # None => ~(Img(a, p).write /\ Img(a, p).exec)
\* All segments and the stack are there, and nothing is writable and executable
Complete(a) == /\ \A i \in DOMAIN Segments : Loaded(a, i)
               /\ \A p \in PagesOf(StackPages) : Img(a, p) # None
               /\ WX(a, {})

\* How much of the image is there while core c prepares an application.  The pages of
\* the segment being filled are writable whatever their flags.
CoreImage(c) ==
    /\ pc[c] \in {"map", "fill", "protect"} =>
          \A i \in DOMAIN Segments : i < seg[c] => Loaded(cur[c], i)
    /\ pc[c] = "map" => WX(cur[c], {})
    /\ pc[c] \in {"fill", "protect"} => WX(cur[c], PagesOf(Segments[seg[c]].pages))
    /\ pc[c] = "stack" => (\A i \in DOMAIN Segments : Loaded(cur[c], i)) /\ WX(cur[c], {})
    /\ pc[c] = "to_kernel" /\ status[cur[c]] = "loading" => Complete(cur[c])
\* The invariant of the images
Images ==
    /\ \A c \in Core : CoreImage(c)
    /\ \A a \in App : status[a] \in {"ready", "running"} => Complete(a)

\* The frame that holds COUNTER of application a, its value, and the exit code that
\* the next run of the application must have
CounterFrame(a) == Img(a, CounterPage).frame
Count(a) == data[CounterFrame(a)]
Code(a) == IF exits[a] = <<>> THEN 0 ELSE 42

\* COUNTER is 0 once its segment is filled; while the application runs it is the number
\* of earlier runs until main increments it; rax holds the exit code on the way back.
CoreCount(c) ==
    /\ pc[c] \in {"map", "fill", "protect"} => \A i \in DOMAIN Segments :
          (i < seg[c] \/ (i = seg[c] /\ pc[c] = "protect")) /\ CounterPage \in PagesOf(Segments[i].pages)
             => Count(cur[c]) = 0
    /\ pc[c] = "stack" => Count(cur[c]) = 0
    /\ pc[c] = "to_kernel" /\ status[cur[c]] = "loading" => Count(cur[c]) = 0
    /\ pc[c] \in {"to_user", "execute", "user", "grow_user"} /\ status[cur[c]] = "running" =>
          Count(cur[c]) = Len(exits[cur[c]])
    /\ pc[c] \in {"abort", "leave", "to_kernel"} /\ status[cur[c]] = "running" =>
          Count(cur[c]) = Len(exits[cur[c]]) + 1
    /\ pc[c] = "abort" => exits[cur[c]] # <<>>
    /\ pc[c] \in {"leave", "to_kernel"} /\ status[cur[c]] = "running" =>
          cpu[c].reg["rax"] = Code(cur[c])
\* The invariant of COUNTER and of the exit codes
Counting ==
    /\ data \in [Frame -> Nat] /\ exits \in [App -> Seq(Int)]
    /\ \A c \in Core : CoreCount(c)
    /\ \A a \in App : /\ status[a] \in {"none", "loading"} => exits[a] = <<>>
                      /\ status[a] = "ready" => Count(a) = Len(exits[a])
    /\ ExitCodes
--------------------------------------------------------------------------------
\* What is said of an image depends on nothing but its entries
LEMMA SameImage ==
    ASSUME NEW b \in App, \A p \in Page : Img(b, p)' = Img(b, p)
    PROVE  /\ \A i \in DOMAIN Segments : Loaded(b, i)' <=> Loaded(b, i)
           /\ \A Q : WX(b, Q)' <=> WX(b, Q)
           /\ Complete(b)' <=> Complete(b)
<1>1. ASSUME NEW i \in DOMAIN Segments PROVE Loaded(b, i)' <=> Loaded(b, i)
  BY PagesOfSegments, Zenon DEF Loaded
<1>2. ASSUME NEW Q PROVE WX(b, Q)' <=> WX(b, Q)
  BY Zenon DEF WX
<1>3. \A p \in PagesOf(StackPages) : Img(b, p)' = Img(b, p)
  BY OtherPages, Zenon
<1> QED
  BY <1>1, <1>2, <1>3, Zenon DEF Complete

\* A core changes no image but that of the application it works for
LEMMA OtherImages ==
    ASSUME Control, MInv, NEW c \in Core, StepOf(c), NEW b \in App, b # cur[c]
    PROVE  \A p \in Page : Img(b, p)' = Img(b, p)
<1>1. ASSUME NEW pages \in Seq(Page), Maps(c, pages), UNCHANGED table,
             pc[c] \in {"map", "stack", "grow_user", "grow_kernel"}
      PROVE  \A p \in Page : Img(b, p)' = Img(b, p)
  BY <1>1, ImgMaps, Zenon
<1>2. ASSUME protect_segment(c) PROVE \A p \in Page : Img(b, p)' = Img(b, p)
  BY <1>2, ImgProtect, Zenon
<1>3. ASSUME create_user_page_table(c) \/ UNCHANGED <<l4, pt, table>>
      PROVE  \A p \in Page : Img(b, p)' = Img(b, p)
  BY <1>3, ImgSame, Zenon
<1> HIDE DEF Img, Maps
<1> QED
  BY <1>1, <1>2, <1>3, MemoryStep, Zenon DEF MInv

\* What core c has built of the image survives the mapping of further pages
LEMMA OwnMap ==
    ASSUME Control, MInv, NEW c \in Core, NEW a \in App, a = cur[c], NEW pages \in Seq(Page),
           Maps(c, pages), UNCHANGED table, pc[c] \in {"map", "stack", "grow_user"}
    PROVE  /\ \A i \in DOMAIN Segments :
                 Loaded(a, i) /\ PagesOf(Segments[i].pages) \cap PagesOf(pages) = {} => Loaded(a, i)'
           /\ \A p \in Page : Img(a, p) # None => Img(a, p)' # None
           /\ \A p \in PagesOf(pages) : Img(a, p)' # None
           /\ \A Q : Q = PagesOf(pages) => (WX(a, {}) => WX(a, Q)')
           /\ pc[c] # "map" /\ WX(a, {}) => WX(a, {})'
<1>1. \A p \in Page : p \notin PagesOf(pages) => Img(a, p)' = Img(a, p)
  BY ImgMaps, Zenon
<1>2. \A p \in PagesOf(pages) : /\ Img(a, p)' \in Entry
                                /\ Img(a, p)'.exec => pc[c] = "map"
  BY ImgMaps, Zenon
<1>3. \A p \in PagesOf(pages) : Img(a, p)' # None
  BY <1>2, NoneIsNoEntry, Zenon
<1>4. ASSUME NEW i \in DOMAIN Segments, Loaded(a, i),
             PagesOf(Segments[i].pages) \cap PagesOf(pages) = {}
      PROVE  Loaded(a, i)'
  <2>1. \A p \in PagesOf(Segments[i].pages) : p \in Page /\ p \notin PagesOf(pages)
    BY <1>4, PagesOfSegments, Zenon
  <2> QED  BY <1>1, <1>4, <2>1, Zenon DEF Loaded
<1>5. WX(a, {}) => WX(a, PagesOf(pages))'
  BY <1>1, Zenon DEF WX
<1>6. pc[c] # "map" /\ WX(a, {}) => WX(a, {})'
  BY <1>1, <1>2, Zenon DEF WX
<1> QED
  BY <1>1, <1>3, <1>4, <1>5, <1>6, Zenon

\* A complete image stays complete: heap pages are added while the program runs, and
\* they are never executable
LEMMA CompleteStays ==
    ASSUME Control, MInv, NEW c \in Core, StepOf(c), NEW b \in App, Complete(b),
           status[b] \in {"ready", "running"} \/ (pc[c] = "to_kernel" /\ b = cur[c])
    PROVE  Complete(b)'
<1>1. CASE b # cur[c]
  BY <1>1, OtherImages, SameImage, Zenon
<1>2. CASE b = cur[c]
  <2>1. pc[c] \notin {"create", "map", "fill", "protect", "stack"}
    BY <1>2, Zenon DEF Control, Ownership, Preparing
  <2>2. ASSUME NEW pages \in Seq(Page), pc[c] \in {"map", "stack", "grow_user", "grow_kernel"},
               PagesOf(pages) \subseteq PagesOf(Wanted(c)), Maps(c, pages), UNCHANGED table
        PROVE  Complete(b)'
    <3>1. pc[c] # "grow_kernel"
      BY <1>2, LoaderAssumption, Zenon DEF Control, Ownership, InKernel
    <3>2. pc[c] = "grow_user" /\ PagesOf(pages) \subseteq PagesOf(HeapPages)
      <4>1. pc[c] = "grow_user"
        BY <2>1, <2>2, <3>1, Zenon
      <4>2. heap[cld[c]] \in Nat /\ heap[cld[c]] < Len(HeapPages)
        BY <4>1, LoaderAssumption DEF Control, Ranges, Typed, CoreData, Ownership, Inside
      <4>3. PagesOf(<<HeapPages[heap[cld[c]] + 1]>>) \subseteq PagesOf(HeapPages)
        BY <4>2, PagesAssumption DEF PagesOf
      <4> QED  BY <2>2, <4>1, <4>3, Zenon DEF Wanted
    <3>3. \A i \in DOMAIN Segments : Loaded(b, i)'
      BY <1>2, <2>2, <3>2, OwnMap, PagesApart, ZenonT(60) DEF Complete
    <3>4. \A p \in PagesOf(StackPages) : Img(b, p)' # None
      BY <1>2, <2>2, <3>2, OwnMap, OtherPages, Zenon DEF Complete
    <3>5. WX(b, {})'
      BY <1>2, <2>2, <3>2, OwnMap, Zenon DEF Complete
    <3> QED  BY <3>3, <3>4, <3>5, Zenon DEF Complete
  <2>3. ~create_user_page_table(c) /\ ~protect_segment(c)
    BY <2>1, Zenon DEF create_user_page_table, protect_segment
  <2>4. ASSUME UNCHANGED <<l4, pt, table>> PROVE Complete(b)'
    BY <2>4, ImgSame, SameImage, Zenon
  <2> QED
    BY <2>2, <2>3, <2>4, MemoryStep, Zenon DEF MInv
<1> QED
  BY <1>1, <1>2, Zenon

\* A step of core c does not disturb an image another core is building
LEMMA OtherCoresImages ==
    ASSUME Control, MInv, Images, NEW c \in Core, StepOf(c), NEW d \in Core, d # c
    PROVE  CoreImage(d)'
<1>1. pc'[d] = pc[d] /\ cur'[d] = cur[d] /\ seg'[d] = seg[d]
  BY OneCore, Zenon DEF Control
<1>2. CASE pc[d] \notin {"map", "fill", "protect", "stack", "to_kernel"}
  BY <1>1, <1>2, Zenon DEF CoreImage
<1>3. CASE pc[d] \in {"map", "fill", "protect", "stack", "to_kernel"}
  <2>1. /\ cur[d] \in App /\ cur[d] # cur[c] /\ status[cur[d]] # "none"
    BY <1>3, LoaderAssumption, Zenon DEF Control, Typed, Ownership, Preparing
  <2>2. PICK b, Q : b \in App /\ b = cur[d] /\ Q = PagesOf(Segments[seg[d]].pages)
    BY <2>1, Zenon
  <2>3. /\ \A i \in DOMAIN Segments : Loaded(b, i)' <=> Loaded(b, i)
        /\ WX(b, {})' <=> WX(b, {})
        /\ WX(b, Q)' <=> WX(b, Q)
        /\ Complete(b)' <=> Complete(b)
    BY <2>1, <2>2, OtherImages, SameImage, Zenon
  <2>4. status'[b] = "loading" => status[b] = "loading"
    BY <2>1, <2>2, StatusStep, Zenon
  <2>5. CoreImage(d)
    BY Zenon DEF Images
  <2> HIDE DEF Loaded, WX, Complete
  <2> QED  BY <1>1, <2>2, <2>3, <2>4, <2>5, Zenon DEF CoreImage
<1> QED
  BY <1>2, <1>3, Zenon

\* A step of core c brings its own image where the next label expects it
LEMMA OwnImage ==
    ASSUME Control, MInv, Images, NEW c \in Core, StepOf(c), pc = [d \in Core |-> pc[d]]
    PROVE  CoreImage(c)'
<1> DEFINE a == cur[c]
           range == PagesOf(Segments[seg[c]].pages)
<1>0. CoreImage(c) /\ Len(Segments) \in Nat /\ DOMAIN Segments = 1 .. Len(Segments)
  BY PagesAssumption DEF Images
<1>1. CASE create_user_page_table(c)
  <2>1. pc'[c] = "map" /\ seg'[c] = 1 /\ cur'[c] = cur[c] /\ cur[c] \in App /\ table[cur[c]] = None
    BY <1>1, ZenonT(60) DEF create_user_page_table, Goto, Control, Typed, Ownership, Spaces, Preparing
  <2>2. PICK b \in App : b = cur[c]
    BY <2>1, Zenon
  <2>3. \A p : Img(b, p)' = None
    BY <1>1, <2>1, <2>2, ImgSame, Zenon DEF Img
  <2>4. WX(b, {})'
    BY <2>3, Zenon DEF WX
  <2> QED  BY <1>0, <2>1, <2>2, <2>4 DEF CoreImage
<1>2. CASE map_segment(c)
  <2>1. /\ pc[c] = "map" /\ pc'[c] = "fill" /\ seg'[c] = seg[c] /\ cur'[c] = cur[c]
        /\ cur[c] \in App /\ seg[c] \in DOMAIN Segments /\ UNCHANGED table
    BY <1>2, LoaderAssumption, Zenon
    DEF map_segment, Goto, Control, Typed, Ownership, Preparing, Ranges, appvars
  <2>2. PICK b, Q : b \in App /\ b = cur[c] /\ Q = range
    BY <2>1, Zenon
  <2>3. Maps(c, Segments[seg[c]].pages) /\ Segments[seg[c]].pages \in Seq(Page)
    BY <1>2, <2>1, MappingSteps, PagesOfSegments, Zenon DEF Wanted, MInv
  <2>4. ASSUME NEW i \in DOMAIN Segments, i < seg[c] PROVE Loaded(b, i)'
    <3>1. Loaded(b, i) /\ i # seg[c]
      BY <1>0, <2>1, <2>2, <2>4 DEF CoreImage
    <3>2. PagesOf(Segments[i].pages) \cap range = {}
      BY <2>1, <3>1, PagesApart, Zenon
    <3> QED  BY <2>1, <2>2, <2>3, <3>1, <3>2, OwnMap, Zenon
  <2>5. WX(b, Q)'
    BY <1>0, <2>1, <2>2, <2>3, OwnMap, Zenon DEF CoreImage
  <2> QED  BY <2>1, <2>2, <2>4, <2>5, Zenon DEF CoreImage
<1>3. CASE fill_segment(c)
  <2>1. /\ pc[c] = "fill" /\ pc'[c] = "protect" /\ seg'[c] = seg[c] /\ cur'[c] = cur[c]
        /\ cur[c] \in App /\ UNCHANGED <<l4, pt, table>>
    BY <1>3, LoaderAssumption, Zenon
    DEF fill_segment, Goto, Control, Typed, Ownership, Preparing, appvars, memvars
  <2>2. PICK b, Q : b \in App /\ b = cur[c] /\ Q = range
    BY <2>1, Zenon
  <2>3. /\ \A i \in DOMAIN Segments : Loaded(b, i)' <=> Loaded(b, i)
        /\ WX(b, Q)' <=> WX(b, Q)
    <3>1. \A p \in Page : Img(b, p)' = Img(b, p)
      BY <2>1, <2>2, ImgSame, Zenon
    <3> QED  BY <2>2, <3>1, SameImage, Zenon
  <2> HIDE DEF Loaded, WX, Complete
  <2> QED  BY <1>0, <2>1, <2>2, <2>3, Zenon DEF CoreImage
<1>4. CASE protect_segment(c)
  <2>1. /\ pc[c] = "protect" /\ cur'[c] = cur[c] /\ cur[c] \in App /\ seg[c] \in DOMAIN Segments
        /\ \/ pc'[c] = "map" /\ seg'[c] = seg[c] + 1
           \/ pc'[c] = "stack" /\ seg[c] = Len(Segments)
    BY <1>0, <1>4, LoaderAssumption
    DEF protect_segment, Goto, Control, Typed, Ownership, Preparing, Ranges, appvars
  <2>2. PICK b \in App : b = cur[c]
    BY <2>1, Zenon
  <2>3. /\ \A p \in Page : p \notin range => Img(b, p)' = Img(b, p)
        /\ \A p \in range : /\ Img(b, p)' \in Entry
                             /\ Img(b, p)'.write = SegWrite(Segments[seg[c]])
                             /\ Img(b, p)'.exec = SegExec(Segments[seg[c]])
    BY <1>4, <2>2, ImgProtect, ZenonT(60)
  <2>4. WX(b, {})'
    <3>1. WX(b, range)
      BY <1>0, <2>1, <2>2, Zenon DEF CoreImage
    <3>2. \A p \in range : ~(Img(b, p)'.write /\ Img(b, p)'.exec)
      BY <2>3, Zenon DEF SegWrite, SegExec
    <3> QED  BY <2>3, <3>1, <3>2, Zenon DEF WX
  <2>5. ASSUME NEW i \in DOMAIN Segments, i <= seg[c] PROVE Loaded(b, i)'
    <3>1. CASE i = seg[c]
      BY <2>3, <3>1, NoneIsNoEntry, Zenon DEF Loaded, SegWrite
    <3>2. CASE i < seg[c]
      <4>1. Loaded(b, i) /\ i # seg[c]
        BY <1>0, <2>1, <2>2, <3>2 DEF CoreImage
      <4>2. \A p \in PagesOf(Segments[i].pages) : p \in Page /\ p \notin range
        BY <2>1, <4>1, PagesApart, PagesOfSegments, Zenon
      <4> QED  BY <2>3, <4>1, <4>2, Zenon DEF Loaded
    <3> QED  BY <1>0, <2>1, <2>5, <3>1, <3>2
  <2> HIDE DEF Loaded, WX, Complete
  <2> QED  BY <1>0, <2>1, <2>2, <2>4, <2>5 DEF CoreImage
<1>5. CASE allocate_stack(c)
  <2>1. /\ pc[c] = "stack" /\ pc'[c] = "to_kernel" /\ cur'[c] = cur[c]
        /\ cur[c] \in App /\ UNCHANGED table
    BY <1>5, LoaderAssumption, Zenon
    DEF allocate_stack, Goto, Control, Typed, Ownership, Preparing, appvars
  <2>2. PICK b \in App : b = cur[c]
    BY <2>1, Zenon
  <2>3. Maps(c, StackPages) /\ StackPages \in Seq(Page)
    <3>1. Maps(c, Wanted(c))
      BY <1>5, MappingSteps, Zenon DEF MInv
    <3> QED  BY <2>1, <3>1, OtherPages, Zenon DEF Wanted
  <2>4. (\A i \in DOMAIN Segments : Loaded(b, i)) /\ WX(b, {})
    BY <1>0, <2>1, <2>2, Zenon DEF CoreImage
  <2>5. \A i \in DOMAIN Segments : Loaded(b, i)'
    BY <2>1, <2>2, <2>3, <2>4, OwnMap, PagesApart
  <2>6. WX(b, {})' /\ \A p \in PagesOf(StackPages) : Img(b, p)' # None
    BY <2>1, <2>2, <2>3, <2>4, OwnMap, Zenon
  <2>7. Complete(b)'
    BY <2>5, <2>6, Zenon DEF Complete
  <2> HIDE DEF Loaded, WX, Complete
  <2> QED  BY <2>1, <2>2, <2>7, Zenon DEF CoreImage
<1>6. CASE /\ ~create_user_page_table(c) /\ ~map_segment(c) /\ ~fill_segment(c)
           /\ ~protect_segment(c) /\ ~allocate_stack(c)
  <2>1. CASE switch_to_user_page_table(c) \/ leave_application(c)
    <3>1. /\ pc'[c] \in {"execute", "to_kernel"} /\ UNCHANGED <<status, cur>>
          /\ status[cur[c]] # "loading"
      BY <2>1, Zenon DEF switch_to_user_page_table, leave_application, Goto, Control, Ownership, appvars, Inside
    <3> QED  BY <3>1, Zenon DEF CoreImage
  <2>2. CASE ~switch_to_user_page_table(c) /\ ~leave_application(c)
    <3>1. \E l \in {"create", "kernel", "to_user", "user", "grow_user", "abort", "leave",
                    "grow_kernel", "panic"} : pc' = [pc EXCEPT ![c] = l]
      BY <1>6, <2>2, Zenon
      DEF StepOf, switch_to_kernel_page_table, switch_stack_and_execute, StartGrowUser,
          grow_user_heap, user_main, abort, StartGrowKernel, grow_kernel_heap, Panic,
          StartPrepare, StartRun, StartDrop, Goto
    <3>2. pc'[c] \notin {"map", "fill", "protect", "stack", "to_kernel"}
      BY <3>1, Zenon
    <3> QED  BY <3>2, Zenon DEF CoreImage
  <2> QED  BY <2>1, <2>2, Zenon
<1> QED
  BY <1>1, <1>2, <1>3, <1>4, <1>5, <1>6, Zenon

\* Every step keeps Images
LEMMA ImagesStep ==
    ASSUME Control, MInv, Images, [Next]_vars
    PROVE  Images'
<1>1. ASSUME NEW c \in Core, StepOf(c) PROVE Images'
  <2>1. \A d \in Core : CoreImage(d)'
    BY <1>1, OwnImage, OtherCoresImages, Zenon DEF Control, Typed
  <2>2. ASSUME NEW b \in App, status'[b] \in {"ready", "running"} PROVE Complete(b)'
    <3>1. CASE status'[b] = status[b]
      BY <1>1, <2>2, <3>1, CompleteStays, Zenon DEF Images
    <3>2. CASE status[b] = "ready"
      BY <1>1, <3>2, CompleteStays, Zenon DEF Images
    <3>3. CASE switch_to_kernel_page_table(c) /\ b = cur[c]
      <4>1. pc[c] = "to_kernel" /\ status[b] \in {"loading", "running"}
        BY <2>2, <3>3, Zenon DEF switch_to_kernel_page_table, Control, Typed, Ownership
      <4>2. Complete(b)
        BY <3>3, <4>1, Zenon DEF Images, CoreImage
      <4> QED  BY <1>1, <3>3, <4>1, <4>2, CompleteStays, Zenon
    <3> QED  BY <1>1, <2>2, <3>1, <3>2, <3>3, StatusStep, Zenon
  <2> QED  BY <2>1, <2>2, Zenon DEF Images
<1>2. CASE UNCHANGED vars
  <2>1. UNCHANGED <<l4, pt, table, pc, cur, seg, status>>
    BY <1>2, Zenon DEF vars, memvars, appvars
  <2>2. \A b, p : Img(b, p)' = Img(b, p)
    BY <2>1, Zenon DEF Img, UserTable
  <2>3. /\ \A b, i : Loaded(b, i)' <=> Loaded(b, i)
        /\ \A b, Q : WX(b, Q)' <=> WX(b, Q)
    BY <2>2, Zenon DEF Loaded, WX
  <2>4. \A b : Complete(b)' <=> Complete(b)
    BY <2>2, <2>3, Zenon DEF Complete
  <2> HIDE DEF Complete, Loaded, WX
  <2>5. ASSUME NEW c \in Core PROVE CoreImage(c)'
    <3>1. PICK b, Q : b = cur[c] /\ Q = PagesOf(Segments[seg[c]].pages)
      BY Zenon
    <3>2. CoreImage(c)
      BY Zenon DEF Images
    <3> QED  BY <2>1, <2>3, <2>4, <3>1, <3>2, Zenon DEF CoreImage
  <2> QED  BY <2>1, <2>4, <2>5, Zenon DEF Images
<1> QED
  BY <1>1, <1>2, StepCases, Zenon DEF StepOf

\* PreparedImage for every number of cores and applications, and every list of program
\* headers: a prepared application has all its segments with their flags, its stack,
\* and no page that is both writable and executable.
THEOREM PreparedImageTheorem == Spec => []PreparedImage
<1>1. Init => Images
  BY Zenon DEF Init, Images, CoreImage
<1>2. Control /\ MInv /\ Images => PreparedImage
  <2> SUFFICES ASSUME Control, MInv, Images, NEW a \in App, status[a] \in {"ready", "running"}
               PROVE  LET image == pt[l4[table[a]]["user"]]
                      IN  /\ \A p \in Page : image[p] # None => ~(image[p].write /\ image[p].exec)
                          /\ \A i \in DOMAIN Segments : \A j \in DOMAIN Segments[i].pages :
                                LET e == image[Segments[i].pages[j]]
                                IN  e # None /\ e.write = Segments[i].write
                          /\ \A i \in DOMAIN StackPages : image[StackPages[i]] # None
    BY Zenon DEF PreparedImage
  <2>1. Complete(a)
    BY Zenon DEF Images
  <2>2. /\ \A i \in DOMAIN Segments : \A j \in DOMAIN Segments[i].pages :
               Segments[i].pages[j] \in PagesOf(Segments[i].pages)
        /\ \A i \in DOMAIN StackPages : StackPages[i] \in PagesOf(StackPages)
    BY Zenon DEF PagesOf
  <2>3. PICK k \in DOMAIN StackPages : Img(a, StackPages[k]) # None
    BY <2>1, <2>2, PagesAssumption DEF Complete
  <2>4. \A p : Img(a, p) = pt[l4[table[a]]["user"]][p]
    BY <2>3, Zenon DEF Img, UserTable
  <2>5. \A i \in DOMAIN Segments : Loaded(a, i)
    BY <2>1, Zenon DEF Complete
  <2>6. \A p \in PagesOf(StackPages) : Img(a, p) # None
    BY <2>1, Zenon DEF Complete
  <2>7. \A p \in Page : Img(a, p) # None => ~(Img(a, p).write /\ Img(a, p).exec)
    BY <2>1, Zenon DEF Complete, WX
  <2>8. \A i \in DOMAIN Segments : \A j \in DOMAIN Segments[i].pages :
           LET e == Img(a, Segments[i].pages[j]) IN e # None /\ e.write = Segments[i].write
    BY <2>2, <2>5, Zenon DEF Loaded
  <2> QED
    BY <2>2, <2>4, <2>6, <2>7, <2>8, Zenon
<1>3. (Control /\ MInv) /\ Images /\ [Next]_vars => Images'
  BY ImagesStep, Zenon
<1> QED
  BY <1>1, <1>2, <1>3, MemoryInvariant, PTL DEF Spec
--------------------------------------------------------------------------------
\* COUNTER lies in a segment
LEMMA CounterSegment ==
    CounterPage \in Page /\ \E k \in DOMAIN Segments : CounterPage \in PagesOf(Segments[k].pages)
  BY ImageAssumption, PagesOfSegments, Zenon

\* The page of COUNTER is there
HasCounter(a) == Img(a, CounterPage) # None

\* The page of COUNTER is mapped once its segment is
LEMMA CounterMapped ==
    ASSUME Control, MInv, Images, NEW a \in App
    PROVE  /\ status[a] \in {"ready", "running"} => HasCounter(a)
           /\ \A c \in Core, i \in DOMAIN Segments :
                 /\ a = cur[c] /\ CounterPage \in PagesOf(Segments[i].pages)
                 /\ \/ pc[c] \in {"map", "fill", "protect"} /\ i < seg[c]
                    \/ pc[c] \in {"fill", "protect"} /\ i = seg[c]
                    \/ pc[c] = "stack"
                    \/ pc[c] = "to_kernel" /\ status[a] = "loading"
                 => HasCounter(a)
<1>1. status[a] \in {"ready", "running"} => HasCounter(a)
  BY CounterSegment, Zenon DEF Images, Complete, Loaded, HasCounter
<1>2. ASSUME NEW c \in Core, NEW i \in DOMAIN Segments, a = cur[c],
             CounterPage \in PagesOf(Segments[i].pages),
             \/ pc[c] \in {"map", "fill", "protect"} /\ i < seg[c]
             \/ pc[c] = "stack"
             \/ pc[c] = "to_kernel" /\ status[a] = "loading"
      PROVE  HasCounter(a)
  <2>1. Loaded(a, i)
    BY <1>2, Zenon DEF Images, CoreImage, Complete
  <2> QED  BY <1>2, <2>1, Zenon DEF Loaded, HasCounter
<1>3. ASSUME NEW c \in Core, NEW i \in DOMAIN Segments, a = cur[c],
             CounterPage \in PagesOf(Segments[i].pages),
             pc[c] \in {"fill", "protect"} /\ i = seg[c]
      PROVE  HasCounter(a)
  <2>1. HasSegment(a, i) /\ table[a] # None
    BY <1>3, FrameNumbers DEF MInv, Filling, Control, Typed, Spaces, OwnTable
  <2> QED  BY <1>3, <2>1, Zenon DEF HasSegment, HasCounter, Img
<1> QED
  BY <1>1, <1>2, <1>3, Zenon

\* The page of COUNTER keeps its frame once it is mapped
LEMMA CounterStays ==
    ASSUME Control, MInv, NEW c \in Core, StepOf(c), NEW b \in App, HasCounter(b),
           b # cur[c] \/ pc[c] # "map" \/ CounterPage \notin PagesOf(Segments[seg[c]].pages)
    PROVE  CounterFrame(b)' = CounterFrame(b)
<1>0. CounterPage \in Page
  BY CounterSegment, Zenon
<1>1. ASSUME NEW pages \in Seq(Page), pc[c] \in {"map", "stack", "grow_user", "grow_kernel"},
             PagesOf(pages) \subseteq PagesOf(Wanted(c)), Maps(c, pages), UNCHANGED table
      PROVE  CounterFrame(b)' = CounterFrame(b)
  <2>1. b = cur[c] /\ pc[c] # "grow_kernel" => CounterPage \notin PagesOf(pages)
    <3>1. CASE pc[c] = "map"
      BY <1>1, <3>1, Zenon DEF Wanted
    <3>2. CASE pc[c] = "stack"
      <4>1. PagesOf(pages) \subseteq PagesOf(StackPages)
        BY <1>1, <3>2, Zenon DEF Wanted
      <4> QED  BY <4>1, CounterSegment, PagesApart, Zenon
    <3>3. CASE pc[c] = "grow_user"
      <4>1. heap[cld[c]] \in Nat /\ heap[cld[c]] < Len(HeapPages)
        BY <3>3, LoaderAssumption DEF Control, Ranges, Typed, CoreData, Ownership, Inside
      <4>2. PagesOf(<<HeapPages[heap[cld[c]] + 1]>>) \subseteq PagesOf(HeapPages)
        BY <4>1, PagesAssumption DEF PagesOf
      <4>3. PagesOf(pages) \subseteq PagesOf(HeapPages)
        BY <1>1, <3>3, <4>2, Zenon DEF Wanted
      <4> QED  BY <4>3, CounterSegment, PagesApart, Zenon
    <3> QED  BY <1>1, <3>1, <3>2, <3>3, Zenon
  <2> QED  BY <1>0, <1>1, <2>1, ImgMaps, Zenon DEF CounterFrame
<1>2. ASSUME protect_segment(c) PROVE CounterFrame(b)' = CounterFrame(b)
  BY <1>0, <1>2, ImgProtect, Zenon DEF CounterFrame
<1>3. ASSUME create_user_page_table(c) \/ UNCHANGED <<l4, pt, table>>
      PROVE  CounterFrame(b)' = CounterFrame(b)
  BY <1>3, ImgSame, Zenon DEF CounterFrame
<1> QED
  BY <1>1, <1>2, <1>3, MemoryStep, Zenon DEF MInv

\* What core c translates is the image of the application it works on
LEMMA TranslatesOwn ==
    ASSUME Control, MInv, Images, NEW c \in Core, pc[c] \in {"fill", "user"}, NEW p \in Page,
           Img(cur[c], p) # None
    PROVE  cur[c] \in App /\ Translate(c, p) = Img(cur[c], p).frame
<1>1. cur[c] \in App /\ cr3[c] = table[cur[c]]
  BY Zenon DEF Control, Typed, Ownership, Spaces, OwnTable, Preparing, Inside
<1>2. Img(cur[c], p) = pt[l4[table[cur[c]]]["user"]][p]
  BY Zenon DEF Img, UserTable
<1> QED
  BY <1>1, <1>2, Zenon DEF Translate

\* COUNTER of application b keeps its value unless its own core fills its segment or
\* runs main: no other core writes to its frame
LEMMA CountStays ==
    ASSUME Control, MInv, Images, data \in [Frame -> Nat], NEW c \in Core, StepOf(c),
           NEW b \in App, HasCounter(b),
           \/ b # cur[c]
           \/ pc[c] \notin {"map", "fill", "user"}
           \/ pc[c] \in {"map", "fill"} /\ CounterPage \notin PagesOf(Segments[seg[c]].pages)
           \/ pc[c] = "user" /\ UNCHANGED data
    PROVE  Count(b)' = Count(b)
<1>0. CounterPage \in Page
  BY CounterSegment, Zenon
<1>1. CounterFrame(b)' = CounterFrame(b) /\ CounterFrame(b) \in Frame
  <2>1. Img(b, CounterPage) \in Entry
    BY <1>0, ImgTyped, Zenon DEF HasCounter, MInv
  <2>2. CounterFrame(b) \in Frame
    BY <2>1, Zenon DEF CounterFrame, Entry
  <2> QED  BY <2>2, CounterStays, Zenon
<1>2. ASSUME fill_segment(c), b # cur[c] \/ CounterPage \notin PagesOf(Segments[seg[c]].pages)
      PROVE  data'[CounterFrame(b)] = data[CounterFrame(b)]
  <2>1. pc[c] = "fill" /\ seg[c] \in DOMAIN Segments
    BY <1>2, FrameNumbers, Zenon DEF fill_segment, Control, Ranges, Typed
  <2>2. HasSegment(cur[c], seg[c]) /\ cur[c] \in App /\ table[cur[c]] # None
    BY <2>1, FrameNumbers DEF MInv, Filling, Control, Typed, Ownership, Preparing, Spaces, OwnTable
  <2>3. ASSUME NEW p \in PagesOf(Segments[seg[c]].pages)
        PROVE  Translate(c, p) # CounterFrame(b)
    <3>1. p \in Page /\ Img(cur[c], p) # None
      BY <2>1, <2>2, PagesOfSegments, Zenon DEF HasSegment, Img
    <3>2. Translate(c, p) = Img(cur[c], p).frame
      BY <2>1, <3>1, TranslatesOwn, Zenon
    <3>3. ASSUME Translate(c, p) = CounterFrame(b) PROVE FALSE
      <4>1. Img(cur[c], p).frame = Img(b, CounterPage).frame /\ Img(b, CounterPage) # None
        BY <3>2, <3>3, Zenon DEF CounterFrame, HasCounter
      <4>2. cur[c] = b /\ p = CounterPage
        BY <1>0, <2>2, <3>1, <4>1, ImagesApart, Zenon
      <4> QED  BY <1>2, <4>2, Zenon
    <3> QED  BY <3>3, Zenon
  <2>4. CounterFrame(b) \notin {Translate(c, p) : p \in PagesOf(Segments[seg[c]].pages)}
    BY <2>3, Zenon
  <2> QED  BY <1>1, <1>2, <2>4, Zenon DEF fill_segment
<1>3. ASSUME user_main(c), b # cur[c]
      PROVE  data'[CounterFrame(b)] = data[CounterFrame(b)]
  <2>1. pc[c] = "user" /\ cur[c] \in App /\ status[cur[c]] = "running"
    BY <1>3, Zenon DEF user_main, Control, Typed, Ownership, Inside
  <2>2. Img(cur[c], CounterPage) # None
    BY <2>1, CounterMapped, Zenon DEF HasCounter
  <2>3. Translate(c, CounterPage) # CounterFrame(b)
    <3>1. ASSUME Translate(c, CounterPage) = CounterFrame(b) PROVE FALSE
      <4>1. Translate(c, CounterPage) = Img(cur[c], CounterPage).frame
        BY <1>0, <2>1, <2>2, TranslatesOwn, Zenon
      <4>2. Img(cur[c], CounterPage).frame = Img(b, CounterPage).frame /\ Img(b, CounterPage) # None
        BY <3>1, <4>1, Zenon DEF CounterFrame, HasCounter
      <4> QED  BY <1>0, <1>3, <2>1, <2>2, <4>2, ImagesApart, Zenon
    <3> QED  BY <3>1, Zenon
  <2> QED  BY <1>1, <1>3, <2>3, Zenon DEF user_main
<1>4. data'[CounterFrame(b)] = data[CounterFrame(b)]
  BY <1>2, <1>3, OnlyRunsWrite, Zenon DEF fill_segment, user_main
<1> QED
  BY <1>1, <1>4, Zenon DEF Count

\* A step of core c does not disturb COUNTER of an application another core runs
LEMMA OtherCoresCount ==
    ASSUME Control, MInv, Images, Registers, Counting, NEW c \in Core, StepOf(c),
           NEW d \in Core, d # c, UNCHANGED cpu[d]
    PROVE  CoreCount(d)'
<1>1. pc'[d] = pc[d] /\ cur'[d] = cur[d] /\ seg'[d] = seg[d]
  BY OneCore, Zenon DEF Control
<1>2. CASE pc[d] \notin {"map", "fill", "protect", "stack", "to_kernel", "to_user", "execute"} \cup Inside
  BY <1>1, <1>2, Zenon DEF CoreCount, Inside
<1>3. CASE pc[d] \in {"map", "fill", "protect", "stack", "to_kernel", "to_user", "execute"} \cup Inside
  <2>1. /\ cur[d] \in App /\ cur[d] # cur[c] /\ status[cur[d]] \notin {"none", "ready"}
    BY <1>3, LoaderAssumption, Zenon DEF Control, Typed, Ownership, Preparing, Inside
  <2>2. PICK b \in App : b = cur[d]
    BY <2>1, Zenon
  <2>3. status'[b] = status[b]
    BY <2>1, <2>2, StatusStep, Zenon
  <2>4. exits'[b] = exits[b]
    BY <2>1, <2>2, ExitsStep, Zenon DEF Counting
  <2>5. HasCounter(b) => Count(b)' = Count(b)
    BY <2>1, <2>2, CountStays, Zenon DEF Counting
  <2>6. Code(b)' = Code(b)
    BY <2>4, Zenon DEF Code
  <2>7. CoreCount(d)
    BY Zenon DEF Counting
  <2>8. /\ status[b] = "running" => HasCounter(b)
        /\ pc[d] = "stack" \/ (pc[d] = "to_kernel" /\ status[b] = "loading") => HasCounter(b)
    BY <2>2, CounterMapped, CounterSegment, Zenon
  <2>9. ASSUME pc[d] \in {"map", "fill", "protect"}, NEW i \in DOMAIN Segments,
               i < seg[d] \/ (i = seg[d] /\ pc[d] = "protect"), CounterPage \in PagesOf(Segments[i].pages)
        PROVE  HasCounter(b)
    BY <2>2, <2>9, CounterMapped, Zenon
  <2> HIDE DEF Count, Code, HasCounter
  <2> QED  BY <1>1, <2>2, <2>3, <2>4, <2>5, <2>6, <2>7, <2>8, <2>9, ZenonT(60) DEF CoreCount
<1> QED
  BY <1>2, <1>3, Zenon

\* Between prepare_application and its end a core works for one application
LEMMA OwnWork ==
    ASSUME Control, NEW c \in Core,
           \/ create_user_page_table(c) \/ map_segment(c) \/ fill_segment(c) \/ protect_segment(c)
           \/ allocate_stack(c) \/ switch_to_user_page_table(c) \/ switch_stack_and_execute(c)
           \/ StartGrowUser(c) \/ grow_user_heap(c) \/ user_main(c) \/ abort(c) \/ leave_application(c)
    PROVE  /\ UNCHANGED <<cur, status, exits>> /\ cur[c] \in App
           /\ pc[c] \in Inside => status[cur[c]] = "running"
  BY Zenon
  DEF create_user_page_table, map_segment, fill_segment, protect_segment, allocate_stack, appvars,
      switch_to_user_page_table, switch_stack_and_execute, StartGrowUser, grow_user_heap,
      user_main, abort, leave_application, Control, Typed, Ownership, Preparing, Inside

\* COUNTER keeps its value in the steps that neither fill its segment nor run main
LEMMA OwnCountStays ==
    ASSUME Control, MInv, Images, data \in [Frame -> Nat], NEW c \in Core, StepOf(c),
           NEW b \in App, b = cur[c], pc[c] \notin {"map", "fill"}, pc[c] = "user" => UNCHANGED data,
           pc[c] = "stack" \/ status[b] = "running"
    PROVE  Count(b)' = Count(b)
<1>1. HasCounter(b)
  BY CounterMapped, CounterSegment, Zenon
<1> QED
  BY <1>1, CountStays, Zenon

\* While the segments are loaded COUNTER is 0 as soon as its own segment is filled
LEMMA FillsCount ==
    ASSUME Control, MInv, Images, Counting, NEW c \in Core, StepOf(c), NEW b \in App, b = cur[c],
           cur'[c] = b, map_segment(c) \/ fill_segment(c)
    PROVE  CoreCount(c)'
<1>1. /\ seg' = seg /\ seg[c] \in DOMAIN Segments /\ DOMAIN Segments \subseteq Int
      /\ map_segment(c) => pc[c] = "map" /\ pc'[c] = "fill"
      /\ fill_segment(c) => pc[c] = "fill" /\ pc'[c] = "protect"
  <2>1. pc[c] \in {"map", "fill"} /\ pc = [d \in Core |-> pc[d]]
    BY Zenon DEF map_segment, fill_segment, Control, Typed
  <2>2. seg[c] \in DOMAIN Segments /\ DOMAIN Segments \subseteq Int
    BY <2>1, PagesAssumption DEF Control, Ranges
  <2> QED  BY <2>1, <2>2, Zenon DEF map_segment, fill_segment, Goto
<1>2. data \in [Frame -> Nat] /\ CoreCount(c)
  BY Zenon DEF Counting
<1>3. ASSUME NEW i \in DOMAIN Segments, i < seg[c], CounterPage \in PagesOf(Segments[i].pages)
      PROVE  Count(b)' = 0
  <2>1. CounterPage \notin PagesOf(Segments[seg[c]].pages)
    <3>1. i # seg[c]
      BY <1>1, <1>3
    <3> QED  BY <1>1, <1>3, <3>1, PagesApart, Zenon
  <2>2. HasCounter(b)
    BY <1>1, <1>3, CounterMapped, Zenon
  <2>3. Count(b)' = Count(b)
    BY <1>1, <1>2, <2>1, <2>2, CountStays, Zenon
  <2>4. Count(b) = 0
    BY <1>1, <1>2, <1>3, Zenon DEF CoreCount
  <2> QED  BY <2>3, <2>4, Zenon
<1>4. ASSUME fill_segment(c), CounterPage \in PagesOf(Segments[seg[c]].pages)
      PROVE  Count(b)' = 0
  <2>1. HasCounter(b)
    BY <1>1, <1>4, CounterMapped, Zenon
  <2>2. Translate(c, CounterPage) = CounterFrame(b)
    BY <1>1, <1>4, <2>1, TranslatesOwn, CounterSegment, Zenon DEF HasCounter, CounterFrame
  <2>3. CounterFrame(b)' = CounterFrame(b) /\ CounterFrame(b) \in Frame
    <3>1. Img(b, CounterPage) \in Entry
      BY <2>1, ImgTyped, CounterSegment, Zenon DEF HasCounter
    <3>2. CounterFrame(b) \in Frame
      BY <3>1, Zenon DEF CounterFrame, Entry
    <3> QED  BY <1>1, <1>4, <2>1, <3>2, CounterStays, Zenon
  <2>4. data'[CounterFrame(b)] = 0
    BY <1>4, <2>2, <2>3, Zenon DEF fill_segment
  <2> QED  BY <2>3, <2>4, Zenon DEF Count
<1> HIDE DEF Count, Code, HasCounter
<1> QED
  BY <1>1, <1>3, <1>4, Zenon DEF CoreCount

\* protect_segment goes on to the next segment or, after the last, to the stack
LEMMA ProtectsCount ==
    ASSUME Control, MInv, Images, Counting, NEW c \in Core, StepOf(c), NEW b \in App, b = cur[c],
           cur'[c] = b, protect_segment(c)
    PROVE  CoreCount(c)'
<1>1. data \in [Frame -> Nat] /\ CoreCount(c)
  BY Zenon DEF Counting
<1>2. DOMAIN Segments = 1 .. Len(Segments) /\ seg[c] \in Nat /\ Len(Segments) \in Nat
  BY PagesAssumption DEF Control, Typed
<1>3. /\ pc[c] = "protect"
      /\ \/ pc'[c] = "map" /\ seg'[c] = seg[c] + 1
         \/ pc'[c] = "stack" /\ seg[c] >= Len(Segments)
  BY <1>2 DEF protect_segment, Goto, Control, Typed
<1>4. ASSUME NEW i \in DOMAIN Segments, i <= seg[c], CounterPage \in PagesOf(Segments[i].pages)
      PROVE  Count(b)' = 0
  <2>1. i < seg[c] \/ i = seg[c]
    BY <1>2, <1>4
  <2>2. HasCounter(b)
    BY <1>3, <1>4, <2>1, CounterMapped, Zenon
  <2>3. Count(b)' = Count(b)
    BY <1>1, <1>3, <2>2, CountStays, Zenon
  <2>4. Count(b) = 0
    BY <1>1, <1>3, <1>4, <2>1, Zenon DEF CoreCount
  <2> QED  BY <2>3, <2>4, Zenon
<1>5. pc'[c] = "stack" => Count(b)' = 0
  <2>1. PICK k \in DOMAIN Segments : CounterPage \in PagesOf(Segments[k].pages)
    BY CounterSegment, Zenon
  <2>2. pc'[c] = "stack" => k <= seg[c]
    BY <1>2, <1>3
  <2> QED  BY <1>4, <2>1, <2>2, Zenon
<1>6. \A i \in DOMAIN Segments : i < seg[c] + 1 => i <= seg[c]
  BY <1>2
<1> HIDE DEF Count, Code, HasCounter
<1> QED
  BY <1>3, <1>4, <1>5, <1>6, Zenon DEF CoreCount

\* The other steps of prepare_application, and the steps around main
LEMMA QuietCount ==
    ASSUME Control, MInv, Images, Counting, NEW c \in Core, StepOf(c), NEW b \in App, b = cur[c],
           cur'[c] = b, status' = status, exits' = exits,
           \/ create_user_page_table(c) \/ allocate_stack(c) \/ switch_to_user_page_table(c)
           \/ switch_stack_and_execute(c) \/ StartGrowUser(c) \/ grow_user_heap(c)
    PROVE  CoreCount(c)'
<1>1. data \in [Frame -> Nat] /\ CoreCount(c) /\ pc = [d \in Core |-> pc[d]] /\ seg = [d \in Core |-> seg[d]]
  BY Zenon DEF Counting, Control, Typed
<1>2. CASE create_user_page_table(c)
  <2>1. pc'[c] = "map" /\ seg'[c] = 1
    BY <1>1, <1>2, Zenon DEF create_user_page_table, Goto
  <2>2. \A i \in DOMAIN Segments : ~(i < 1)
    BY PagesAssumption
  <2> HIDE DEF Count, Code
  <2> QED  BY <2>1, <2>2, Zenon DEF CoreCount
<1>3. CASE allocate_stack(c)
  <2>1. pc[c] = "stack" /\ pc'[c] = "to_kernel" /\ status[b] = "loading"
    BY <1>1, <1>3, Zenon DEF allocate_stack, Goto, Control, Ownership, Preparing
  <2>2. Count(b)' = Count(b)
    BY <1>1, <2>1, OwnCountStays, Zenon
  <2> HIDE DEF Count, Code
  <2> QED  BY <1>1, <2>1, <2>2, Zenon DEF CoreCount
<1>4. CASE switch_to_user_page_table(c) \/ switch_stack_and_execute(c)
  <2>1. /\ pc[c] \in {"to_user", "execute"} /\ status[b] \in {"running", "dropping"}
        /\ pc'[c] = "execute" \/ pc'[c] = "user" \/ (pc'[c] = "to_kernel" /\ status[b] # "running")
    BY <1>1, <1>4, Zenon
    DEF switch_to_user_page_table, switch_stack_and_execute, Goto, Control, Ownership, Inside
  <2>2. status[b] = "running" => Count(b)' = Count(b)
    BY <1>1, <2>1, OwnCountStays, Zenon
  <2> HIDE DEF Count, Code
  <2> QED  BY <1>1, <2>1, <2>2, Zenon DEF CoreCount
<1>5. CASE StartGrowUser(c) \/ grow_user_heap(c)
  <2>1. /\ pc[c] \in {"user", "grow_user"} /\ pc'[c] \in {"user", "grow_user"} /\ UNCHANGED data
        /\ status[b] = "running"
    BY <1>1, <1>5, Zenon DEF StartGrowUser, grow_user_heap, Goto, Control, Ownership, Inside
  <2>2. Count(b)' = Count(b)
    BY <1>1, <2>1, OwnCountStays, Zenon
  <2> HIDE DEF Count, Code
  <2> QED  BY <1>1, <2>1, <2>2, Zenon DEF CoreCount
<1> QED
  BY <1>2, <1>3, <1>4, <1>5, Zenon

\* main increments COUNTER, returns 0 the first time, and later aborts
LEMMA MainCounts ==
    ASSUME Control, MInv, Images, Registers, Counting, NEW c \in Core, StepOf(c), NEW b \in App,
           b = cur[c], cur'[c] = b, status' = status, exits' = exits, status[b] = "running", user_main(c)
    PROVE  CoreCount(c)'
<1>1. /\ data \in [Frame -> Nat] /\ exits[b] \in Seq(Int) /\ CoreCount(c) /\ pc[c] = "user"
      /\ pc = [d \in Core |-> pc[d]] /\ cpu = [d \in Core |-> cpu[d]] /\ HasCounter(b)
  <2>1. HasCounter(b)
    BY CounterMapped, Zenon
  <2> QED  BY <2>1, Zenon DEF Counting, Control, Typed, Registers, user_main
<1>2. Translate(c, CounterPage) = CounterFrame(b)
  BY <1>1, TranslatesOwn, CounterSegment, Zenon DEF HasCounter, CounterFrame
<1>3. CounterFrame(b)' = CounterFrame(b) /\ CounterFrame(b) \in Frame
  <2>1. Img(b, CounterPage) \in Entry
    BY <1>1, ImgTyped, CounterSegment, Zenon DEF HasCounter
  <2>2. CounterFrame(b) \in Frame
    BY <2>1, Zenon DEF CounterFrame, Entry
  <2> QED  BY <1>1, <2>2, CounterStays, Zenon
<1>4. Count(b)' = Count(b) + 1
  BY <1>1, <1>2, <1>3, Zenon DEF user_main, Count
<1>5. Count(b) = Len(exits[b])
  BY <1>1, Zenon DEF CoreCount
<1>6. CASE Count(b) # 0
  <2>1. pc'[c] = "abort"
    BY <1>1, <1>2, <1>6, Zenon DEF user_main, Count, Goto
  <2>2. exits[b] # <<>>
    BY <1>1, <1>5, <1>6, Zenon
  <2> HIDE DEF Count, Code
  <2> QED  BY <1>4, <1>5, <2>1, <2>2, Zenon DEF CoreCount
<1>7. CASE Count(b) = 0
  <2>1. pc'[c] = "leave" /\ cpu'[c] = save_instruction_pointer_returns(cpu[c], 0, Used)
    BY <1>1, <1>2, <1>7, Zenon DEF user_main, Count, Goto
  <2>2. PICK m \in Machine : /\ HasRoom(m) /\ Restored(Caller, m, m.reg["rax"])
                             /\ cpu[c] = execute(m, entry_point)
    BY <1>1, Zenon DEF Registers, Entered, Inside
  <2>3. cpu'[c].reg["rax"] = 0
    <3>1. cpu'[c] = save_instruction_pointer_returns(execute(m, entry_point), 0, Used)
      BY <2>1, <2>2, Zenon
    <3>2. 0 \in Int
      OBVIOUS
    <3> QED  BY <2>2, <3>1, <3>2, WayOut, Zenon
  <2>4. exits[b] = <<>>
    <3>1. \A s \in Seq(Int) : Len(s) = 0 => s = <<>>
      OBVIOUS
    <3> QED  BY <1>1, <1>5, <1>7, <3>1, Zenon
  <2>5. Code(b)' = 0
    BY <2>4, Zenon DEF Code
  <2> HIDE DEF Count, Code
  <2> QED  BY <1>4, <1>5, <2>1, <2>3, <2>5, Zenon DEF CoreCount
<1> QED
  BY <1>6, <1>7, Zenon

\* abort leaves 42 and the rest of the way back keeps what rax holds
LEMMA LeavesCount ==
    ASSUME Control, MInv, Images, Registers, Counting, NEW c \in Core, StepOf(c), NEW b \in App,
           b = cur[c], cur'[c] = b, status' = status, exits' = exits, status[b] = "running",
           abort(c) \/ leave_application(c)
    PROVE  CoreCount(c)'
<1>1. /\ data \in [Frame -> Nat] /\ CoreCount(c) /\ pc[c] \in {"abort", "leave"}
      /\ pc = [d \in Core |-> pc[d]] /\ cpu = [d \in Core |-> cpu[d]]
  BY Zenon DEF Counting, Control, Typed, Registers, abort, leave_application
<1>2. Count(b)' = Count(b)
  BY <1>1, OwnCountStays, Zenon
<1>3. CASE abort(c)
  <2>1. pc[c] = "abort" /\ pc'[c] = "leave" /\ cpu'[c] = abort_jumps(cpu[c], 42, Used)
    BY <1>1, <1>3, Zenon DEF abort, Goto
  <2>2. PICK m \in Machine : /\ HasRoom(m) /\ Restored(Caller, m, m.reg["rax"])
                             /\ cpu[c] = execute(m, entry_point)
    BY <2>1, Zenon DEF Registers, Entered, Inside
  <2>3. cpu'[c].reg["rax"] = 42
    <3>1. cpu'[c] = abort_jumps(execute(m, entry_point), 42, Used)
      BY <2>1, <2>2, Zenon
    <3>2. 42 \in Int
      OBVIOUS
    <3> QED  BY <2>2, <3>1, <3>2, WayOut, ZenonT(60)
  <2>4. Code(b)' = 42
    BY <1>1, <2>1, Zenon DEF CoreCount, Code
  <2> HIDE DEF Count, Code
  <2> QED  BY <1>1, <1>2, <2>1, <2>3, <2>4, Zenon DEF CoreCount
<1>4. CASE leave_application(c)
  <2>1. pc[c] = "leave" /\ pc'[c] = "to_kernel" /\ cpu'[c] = resume(cpu[c])
    BY <1>1, <1>4, Zenon DEF leave_application, Goto
  <2>2. cpu'[c].reg["rax"] = cpu[c].reg["rax"]
    BY <2>1, Zenon DEF Registers, Leaving, Restored, Inside
  <2>3. Code(b)' = Code(b)
    BY Zenon DEF Code
  <2> HIDE DEF Count, Code
  <2> QED  BY <1>1, <1>2, <2>1, <2>2, <2>3, Zenon DEF CoreCount
<1> QED
  BY <1>3, <1>4, Zenon

\* A step of core c changes COUNTER and the registers as the next label expects
LEMMA OwnCount ==
    ASSUME Control, MInv, Images, Registers, Counting, NEW c \in Core, StepOf(c)
    PROVE  CoreCount(c)'
<1>1. CASE \/ switch_to_kernel_page_table(c) \/ StartGrowKernel(c) \/ grow_kernel_heap(c) \/ Panic(c)
           \/ \E a \in App : StartPrepare(c, a)
  <2>0. pc = [d \in Core |-> pc[d]]
    BY Zenon DEF Control, Typed
  <2>1. pc'[c] \in {"kernel", "grow_kernel", "panic", "create"}
    BY <1>1, <2>0, Zenon
    DEF switch_to_kernel_page_table, StartGrowKernel, grow_kernel_heap, Panic, StartPrepare, Goto
  <2> QED  BY <2>1, Zenon DEF CoreCount
<1>2. ASSUME NEW a \in App, StartRun(c, a) \/ StartDrop(c, a) PROVE CoreCount(c)'
  <2>1. /\ pc'[c] = "to_user" /\ cur'[c] = a /\ status[a] = "ready" /\ UNCHANGED <<exits, data>>
        /\ pc[c] = "kernel"
    BY <1>2, Zenon DEF StartRun, StartDrop, Goto, Control, Typed
  <2>2. Count(a)' = Count(a) /\ Count(a) = Len(exits[a])
    BY <2>1, CountStays, CounterMapped, Zenon DEF Counting
  <2> HIDE DEF Count, Code
  <2> QED  BY <2>1, <2>2, Zenon DEF CoreCount
<1>3. ASSUME \/ create_user_page_table(c) \/ map_segment(c) \/ fill_segment(c) \/ protect_segment(c)
             \/ allocate_stack(c) \/ switch_to_user_page_table(c) \/ switch_stack_and_execute(c)
             \/ StartGrowUser(c) \/ grow_user_heap(c) \/ user_main(c) \/ abort(c) \/ leave_application(c)
      PROVE  CoreCount(c)'
  <2>1. /\ UNCHANGED <<cur, status, exits>> /\ cur[c] \in App
        /\ pc[c] \in Inside => status[cur[c]] = "running"
    BY <1>3, OwnWork, Zenon
  <2>2. PICK b \in App : b = cur[c] /\ cur'[c] = b /\ UNCHANGED <<status, exits>>
    BY <2>1, Zenon
  <2>3. user_main(c) \/ abort(c) \/ leave_application(c) => status[b] = "running"
    BY <2>1, <2>2, Zenon DEF user_main, abort, leave_application, Inside
  <2> QED
    BY <1>3, <2>2, <2>3, FillsCount, ProtectsCount, QuietCount, MainCounts, LeavesCount, ZenonT(60)
<1> QED
  BY <1>1, <1>2, <1>3, Zenon DEF StepOf

\* Between two runs COUNTER holds the number of runs, and every run left its code
LEMMA StatusCount ==
    ASSUME Control, MInv, Images, Registers, Counting, NEW c \in Core, StepOf(c)
    PROVE  /\ exits' \in [App -> Seq(Int)] /\ ExitCodes'
           /\ \A a \in App : /\ status'[a] \in {"none", "loading"} => exits'[a] = <<>>
                             /\ status'[a] = "ready" => Count(a)' = Len(exits'[a])
<1>0. /\ status = [a \in App |-> status[a]] /\ exits \in [App -> Seq(Int)] /\ CoreCount(c)
      /\ data \in [Frame -> Nat] /\ ExitCodes
  BY Zenon DEF Control, Typed, Counting
<1>1. ASSUME switch_to_kernel_page_table(c), status[cur[c]] = "running", cur[c] \in App,
             exits' = [exits EXCEPT ![cur[c]] = Append(exits[cur[c]], cpu[c].reg["rax"])]
      PROVE  /\ exits' \in [App -> Seq(Int)] /\ ExitCodes'
             /\ Len(exits'[cur[c]]) = Len(exits[cur[c]]) + 1
  <2>1. cpu[c].reg["rax"] = Code(cur[c]) /\ Code(cur[c]) \in Int
    BY <1>0, <1>1 DEF CoreCount, switch_to_kernel_page_table, Code
  <2>2. PICK s \in Seq(Int), code \in Int :
           /\ s = exits[cur[c]] /\ code = Code(cur[c])
           /\ exits' = [exits EXCEPT ![cur[c]] = Append(s, code)]
    BY <1>0, <1>1, <2>1, Zenon
  <2>3. \A i \in DOMAIN s : s[i] = IF i = 1 THEN 0 ELSE 42
    BY <1>0, <1>1, <2>2 DEF ExitCodes
  <2>4. code = IF Len(s) = 0 THEN 0 ELSE 42
    BY <2>2 DEF Code
  <2>5. /\ Append(s, code) \in Seq(Int) /\ Len(Append(s, code)) = Len(s) + 1
        /\ \A i \in DOMAIN Append(s, code) : Append(s, code)[i] = IF i = 1 THEN 0 ELSE 42
    BY <2>3, <2>4
  <2>6. exits' \in [App -> Seq(Int)] /\ Len(exits'[cur[c]]) = Len(exits[cur[c]]) + 1
    BY <1>0, <1>1, <2>2, <2>5, ZenonT(60)
  <2>7. \A a \in App : exits'[a] = IF a = cur[c] THEN Append(s, code) ELSE exits[a]
    BY <1>0, <2>2, Zenon
  <2>8. ExitCodes'
    <3>1. ASSUME NEW a \in App, NEW i \in DOMAIN exits'[a]
          PROVE  exits'[a][i] = IF i = 1 THEN 0 ELSE 42
      <4>1. CASE a = cur[c]
        BY <2>5, <2>7, <3>1, <4>1, ZenonT(60)
      <4>2. CASE a # cur[c]
        BY <1>0, <2>7, <3>1, <4>2 DEF ExitCodes
      <4> QED  BY <4>1, <4>2, Zenon
    <3> QED  BY <3>1, Zenon DEF ExitCodes
  <2> QED  BY <2>6, <2>8, Zenon
<1>2. exits' \in [App -> Seq(Int)] /\ ExitCodes'
  BY <1>0, <1>1, ExitsStep DEF ExitCodes
<1>3. ASSUME NEW a \in App, status'[a] \in {"none", "loading"} PROVE exits'[a] = <<>>
  <2>1. status[a] \in {"none", "loading"} /\ (a = cur[c] => ~switch_to_kernel_page_table(c))
    BY <1>0, <1>3, StatusStep, Zenon DEF switch_to_kernel_page_table
  <2>2. exits'[a] = exits[a]
    BY <1>0, <2>1, ExitsStep, Zenon
  <2> QED  BY <2>1, <2>2, Zenon DEF Counting
<1>4. ASSUME NEW a \in App, status'[a] = "ready" PROVE Count(a)' = Len(exits'[a])
  <2>1. CASE status[a] = "ready"
    <3>1. a # cur[c] \/ pc[c] \notin {"map", "fill", "user"}
      BY <2>1, Zenon DEF Control, Ownership, Preparing, Inside
    <3>2. Count(a)' = Count(a)
      BY <1>0, <2>1, <3>1, CounterMapped, CountStays, Zenon
    <3>3. exits'[a] = exits[a]
      BY <1>0, <2>1, ExitsStep, ZenonT(60)
    <3> QED  BY <2>1, <3>2, <3>3, ZenonT(60) DEF Counting
  <2>2. CASE status[a] # "ready"
    <3>1. a = cur[c] /\ switch_to_kernel_page_table(c)
      BY <1>4, <2>2, StatusStep, Zenon
    <3>2. pc[c] = "to_kernel" /\ status[a] \in {"loading", "running"}
      BY <1>0, <1>4, <3>1, Zenon DEF switch_to_kernel_page_table, Control, Ownership
    <3>3. HasCounter(a)
      BY <3>1, <3>2, CounterMapped, CounterSegment, Zenon
    <3>4. Count(a)' = Count(a)
      BY <1>0, <3>2, <3>3, CountStays, Zenon
    <3>5. CASE status[a] = "running"
      <4>1. exits' = [exits EXCEPT ![cur[c]] = Append(exits[cur[c]], cpu[c].reg["rax"])]
        BY <3>1, <3>5, Zenon DEF switch_to_kernel_page_table
      <4> HIDE DEF Count
      <4> QED  BY <1>0, <1>1, <3>1, <3>2, <3>4, <3>5, <4>1, ZenonT(60) DEF CoreCount
    <3>6. CASE status[a] = "loading"
      <4>1. exits'[a] = exits[a] /\ exits[a] = <<>>
        BY <3>1, <3>6, Zenon DEF switch_to_kernel_page_table, Counting
      <4> HIDE DEF Count
      <4> QED  BY <1>0, <3>1, <3>2, <3>4, <3>6, <4>1 DEF CoreCount
    <3> QED  BY <3>2, <3>5, <3>6, Zenon
  <2> QED  BY <2>1, <2>2, Zenon
<1> QED
  BY <1>2, <1>3, <1>4, Zenon

\* Every step keeps Counting
LEMMA CountingStep ==
    ASSUME Control, MInv, Images, Registers, Counting, [Next]_vars
    PROVE  Counting'
<1>1. CASE UNCHANGED vars
  <2>1. /\ UNCHANGED <<pc, cur, seg, status, exits, cpu, data, l4, pt, table>>
    BY <1>1, Zenon DEF vars, memvars, appvars
  <2>2. \A a : Count(a)' = Count(a) /\ Code(a)' = Code(a)
    BY <2>1, Zenon DEF Count, CounterFrame, Img, UserTable, Code
  <2>3. \A c \in Core : CoreCount(c)' <=> CoreCount(c)
    <3> HIDE DEF Count, Code
    <3> QED  BY <2>1, <2>2 DEF CoreCount
  <2>4. ExitCodes' <=> ExitCodes
    BY <2>1, ZenonT(60) DEF ExitCodes
  <2> HIDE DEF Count, Code, CoreCount, ExitCodes
  <2> QED  BY <2>1, <2>2, <2>3, <2>4, Zenon DEF Counting
<1>2. ASSUME NEW c \in Core, StepOf(c) PROVE Counting'
  <2>0. data \in [Frame -> Nat] /\ exits \in [App -> Seq(Int)] /\ cpu = [d \in Core |-> cpu[d]]
    BY Zenon DEF Counting, Registers
  <2>1. data' \in [Frame -> Nat]
    <3>1. fill_segment(c) => data' \in [Frame -> Nat]
      BY <2>0 DEF fill_segment
    <3>2. user_main(c) => data' \in [Frame -> Nat]
      <4>1. user_main(c) => \E f : data' = [data EXCEPT ![f] = data[f] + 1]
        BY Zenon DEF user_main
      <4> QED  BY <2>0, <4>1
    <3> QED  BY <1>2, <2>0, <3>1, <3>2, OnlyRunsWrite, Zenon
  <2>2. \A d \in Core : d # c => UNCHANGED cpu[d]
    BY <1>2, <2>0, ZenonT(60)
    DEF StepOf, create_user_page_table, map_segment, fill_segment, protect_segment, allocate_stack,
        switch_to_kernel_page_table, switch_to_user_page_table, switch_stack_and_execute,
        StartGrowUser, grow_user_heap, user_main, abort, leave_application, StartGrowKernel,
        grow_kernel_heap, Panic, StartPrepare, StartRun, StartDrop
  <2>3. \A d \in Core : CoreCount(d)'
    BY <1>2, <2>2, OtherCoresCount, OwnCount, Zenon
  <2>4. /\ exits' \in [App -> Seq(Int)] /\ ExitCodes'
        /\ \A a \in App : /\ status'[a] \in {"none", "loading"} => exits'[a] = <<>>
                          /\ status'[a] = "ready" => Count(a)' = Len(exits'[a])
    BY <1>2, StatusCount, Zenon
  <2> HIDE DEF CoreCount, Count, ExitCodes
  <2> QED  BY <2>1, <2>3, <2>4, Zenon DEF Counting
<1> QED
  BY <1>1, <1>2, Zenon DEF Next, StepOf

\* ExitCodes for every number of cores and applications: the first run of an
\* application exits with 0 and every later one with 42, whatever other applications
\* run on other cores meanwhile.
THEOREM ExitCodesTheorem == Spec => []ExitCodes
<1>1. Init => Counting
  <2> SUFFICES ASSUME Init PROVE Counting
    BY Zenon
  <2>1. data \in [Frame -> Nat] /\ exits = [a \in App |-> <<>>] /\ exits \in [App -> Seq(Int)]
    BY LoaderAssumption DEF Init, Garbage
  <2>2. \A c \in Core : CoreCount(c)
    BY Zenon DEF Init, CoreCount
  <2>3. \A a \in App : exits[a] = <<>> /\ status[a] = "none"
    BY Zenon DEF Init
  <2>4. ExitCodes
    BY <2>3 DEF ExitCodes
  <2> QED  BY <2>1, <2>2, <2>3, <2>4, Zenon DEF Counting
<1>2. Init => Registers
  BY ControlInit, Zenon
<1>3. Control /\ Registers /\ [Next]_vars => Registers'
  BY RegistersStep, Zenon DEF Control
<1>4. Control /\ MInv /\ Images /\ Registers /\ Counting /\ [Next]_vars => Counting'
  BY CountingStep, Zenon
<1>5. Control /\ MInv /\ Images /\ [Next]_vars => Images'
  BY ImagesStep, Zenon
<1>6. Init => Images
  BY Zenon DEF Init, Images, CoreImage
<1>7. Counting => ExitCodes
  BY Zenon DEF Counting
<1> QED
  BY <1>1, <1>2, <1>3, <1>4, <1>5, <1>6, <1>7, MemoryInvariant, PTL DEF Spec
================================================================================
