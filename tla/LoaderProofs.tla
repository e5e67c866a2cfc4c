------------------------------ MODULE LoaderProofs ------------------------------
(***************************************************************************)
(* Control of the loader: which core works for which application, under      *)
(* which page table, and what its registers hold.  The inductive invariant   *)
(* is Control /\ Registers.  Control follows cr3, running_application_data    *)
(* and the status of the applications through prepare_application, run and   *)
(* drop; Registers carries what SwitchRestores shows of the assembly from     *)
(* switch_stack_and_execute to the instruction after its call.               *)
(***************************************************************************)
EXTENDS Loader, TLAPS

\* The words that the application must leave alone: they are not in its memory, except
\* the return address of save_instruction_pointer, which lies above its own frames
Untouched(m) == Pushed(m) \cup {saved_stack_pointer, abort_addr, new_rsp - 1}

\* What execute leaves in memory: the caller's registers, and the way back
LEMMA ExecuteSaves ==
    ASSUME NEW m \in Machine, NEW e \in Int, HasRoom(m)
    PROVE  LET mem == execute(m, e).mem
               sp == m.reg["rsp"]
           IN  /\ mem[sp - 1] = m.reg["r12"] /\ mem[sp - 2] = m.reg["r13"]
               /\ mem[sp - 3] = m.reg["rbx"] /\ mem[sp - 4] = m.reg["rbp"]
               /\ mem[sp - 5] = m.reg["r14"] /\ mem[sp - 6] = m.reg["r15"]
               /\ mem[saved_stack_pointer] = sp - 6
               /\ mem[abort_addr] = after_call /\ mem[new_rsp - 1] = after_call
<1> DEFINE sp == m.reg["rsp"]
<1>1. sp \in Int /\ m.mem \in [Addr -> Int]
  BY Zenon DEF Machine, Reg, Preserved
<1>2. \A i \in 1..6 : sp - i \in Addr
                      /\ sp - i \notin {saved_stack_pointer, abort_addr, new_rsp - 1, new_rsp - 2}
  BY Zenon DEF HasRoom, Pushed
<1>3. \A b \in {saved_stack_pointer, abort_addr, new_rsp - 1, new_rsp - 2} :
         /\ sp - 1 # b /\ sp - 2 # b /\ sp - 3 # b /\ sp - 4 # b /\ sp - 5 # b /\ sp - 6 # b
  <2>1. Pushed(m) = {sp - 1, sp - 2, sp - 3, sp - 4, sp - 5, sp - 6}
    BY <1>1 DEF Pushed
  <2> QED
    BY <2>1, Zenon DEF HasRoom
<1> DEFINE mem == execute(m, e).mem
<1>4. \A a \in Addr : mem[a] = CASE a = sp - 1 -> m.reg["r12"]
                                 [] a = sp - 2 -> m.reg["r13"]
                                 [] a = sp - 3 -> m.reg["rbx"]
                                 [] a = sp - 4 -> m.reg["rbp"]
                                 [] a = sp - 5 -> m.reg["r14"]
                                 [] a = sp - 6 -> m.reg["r15"]
                                 [] a = saved_stack_pointer -> sp - 6
                                 [] a \in {abort_addr, new_rsp - 1} -> after_call
                                 [] a = new_rsp - 2 -> in_sip
                                 [] OTHER -> m.mem[a]
  BY Zenon DEF execute
<1> HIDE DEF mem
<1>5. /\ mem[sp - 1] = m.reg["r12"] /\ mem[sp - 2] = m.reg["r13"]
      /\ mem[sp - 3] = m.reg["rbx"] /\ mem[sp - 4] = m.reg["rbp"]
      /\ mem[sp - 5] = m.reg["r14"] /\ mem[sp - 6] = m.reg["r15"]
  BY <1>1, <1>2, <1>4
<1>6. mem[saved_stack_pointer] = sp - 6 /\ mem[abort_addr] = after_call
  BY <1>3, <1>4, SwitchAssumption, Zenon
<1>7. mem[new_rsp - 1] = after_call
  BY <1>3, <1>4, SwitchAssumption
<1> QED
  BY <1>5, <1>6, <1>7, Zenon DEF mem

\* The program returns, or calls abort, after it has used its memory and its registers
\* at will: execution continues after "call {sip}", and the caller of
\* switch_stack_and_execute gets the exit code and its registers and stack back.
THEOREM SwitchRestores ==
    ASSUME NEW m \in Machine, NEW e \in Int, HasRoom(m),
           NEW regs \in [Reg -> Int], NEW exit_code \in Int,
           NEW mem \in [Addr -> Int],
           \A a \in Untouched(m) : mem[a] = execute(m, e).mem[a]
    PROVE  LET user == [execute(m, e) EXCEPT !.mem = mem]
               returned == save_instruction_pointer_returns(user, exit_code, regs)
               aborted == abort_jumps(user, exit_code, regs)
           IN  /\ returned.reg["rip"] = after_call /\ aborted.reg["rip"] = after_call
               /\ resume(returned) \in Machine /\ Restored(m, resume(returned), exit_code)
               /\ resume(aborted) \in Machine /\ Restored(m, resume(aborted), exit_code)
<1> DEFINE sp == m.reg["rsp"]
           user == [execute(m, e) EXCEPT !.mem = mem]
           returned == save_instruction_pointer_returns(user, exit_code, regs)
           aborted == abort_jumps(user, exit_code, regs)
<1>1. /\ mem[sp - 1] = m.reg["r12"] /\ mem[sp - 2] = m.reg["r13"]
      /\ mem[sp - 3] = m.reg["rbx"] /\ mem[sp - 4] = m.reg["rbp"]
      /\ mem[sp - 5] = m.reg["r14"] /\ mem[sp - 6] = m.reg["r15"]
      /\ mem[saved_stack_pointer] = sp - 6
      /\ mem[abort_addr] = after_call /\ mem[new_rsp - 1] = after_call
  BY ExecuteSaves DEF Untouched, Pushed
<1>2. /\ user.mem = mem /\ user.reg["r15"] = saved_stack_pointer
      /\ user.reg["rsp"] = new_rsp - 2
  BY Zenon DEF execute, Machine, Reg, Preserved, Scratch
<1>3. user \in Machine
  BY SwitchAssumption, Zenon DEF execute, Machine, Reg, Preserved, Scratch
<1> HIDE DEF user
<1>4. user.mem[abort_addr] \in Int /\ user.mem[user.reg["rsp"] + 1] = after_call
  BY <1>1, <1>2, SwitchAssumption
<1>5. /\ returned \in Machine /\ returned.mem = mem
      /\ returned.reg["rip"] = after_call /\ returned.reg["rax"] = exit_code
      /\ returned.reg["rdx"] = saved_stack_pointer
  BY <1>2, <1>3, <1>4, SwitchAssumption
  DEF save_instruction_pointer_returns, Machine, Reg, Scratch, Preserved
<1>6. /\ aborted \in Machine /\ aborted.mem = mem
      /\ aborted.reg["rip"] = after_call /\ aborted.reg["rax"] = exit_code
      /\ aborted.reg["rdx"] = saved_stack_pointer
  BY <1>1, <1>2, <1>3, <1>4, SwitchAssumption, Zenon
  DEF abort_jumps, Machine, Reg, Scratch, Preserved
<1>7. ASSUME NEW out \in Machine, out.mem = mem, out.reg["rax"] = exit_code,
             out.reg["rdx"] = saved_stack_pointer
      PROVE  resume(out) \in Machine /\ Restored(m, resume(out), exit_code)
  <2>1. sp \in Int
    BY Zenon DEF Machine, Reg, Preserved
  <2>2. /\ out.mem[sp - 6] = m.reg["r15"] /\ out.mem[sp - 6 + 1] = m.reg["r14"]
        /\ out.mem[sp - 6 + 2] = m.reg["rbp"] /\ out.mem[sp - 6 + 3] = m.reg["rbx"]
        /\ out.mem[sp - 6 + 4] = m.reg["r13"] /\ out.mem[sp - 6 + 5] = m.reg["r12"]
        /\ sp - 6 + 6 = sp /\ out.mem[out.reg["rdx"]] = sp - 6
    BY <1>1, <1>7, <2>1
  <2>3. Restored(m, resume(out), exit_code)
    BY <1>7, <2>2 DEF resume, Restored, Machine, Reg, Scratch, Preserved
  <2>4. resume(out) \in Machine
    <3> DEFINE regs2 == resume(out).reg
    <3>1. resume(out) = [out EXCEPT !.reg = regs2]
      BY Zenon DEF resume, Machine
    <3>2. /\ regs2 = [r \in Reg |-> regs2[r]]
          /\ \A r \in Reg \ Preserved : regs2[r] = out.reg[r]
      BY Zenon DEF resume, Machine, Reg, Scratch, Preserved
    <3>3. \A r \in Preserved : regs2[r] = m.reg[r]
      BY <2>3, Zenon DEF Restored
    <3> HIDE DEF regs2
    <3>4. \A r \in Reg : regs2[r] \in Int
      BY <3>2, <3>3, Zenon DEF Machine, Reg
    <3>5. regs2 \in [Reg -> Int]
      BY <3>2, <3>4, Zenon
    <3> QED
      BY <3>1, <3>5, Zenon DEF Machine
  <2> QED
    BY <2>3, <2>4, Zenon
<1> QED
  BY <1>5, <1>6, <1>7, Zenon DEF user

--------------------------------------------------------------------------------

\* The labels of a core in kernel code, in prepare_application, inside an application
\* and wherever the table of the application is the active one
InKernel == {"kernel", "grow_kernel"}
Preparing == {"create", "map", "fill", "protect", "stack"}
Inside == {"user", "grow_user", "abort", "leave"}
OwnTable == {"map", "fill", "protect", "stack", "to_kernel", "execute"} \cup Inside
Label == InKernel \cup Preparing \cup OwnTable \cup {"to_user", "panic"}
Status == {"none", "loading", "ready", "running", "dropping", "dropped"}
Entry == [frame : Frame, write : BOOLEAN, exec : BOOLEAN]

\* The type of the variables that control the loader
Typed ==
    /\ pc \in [Core -> Label] /\ cur \in [Core -> App \cup {None}]
    /\ cr3 \in [Core -> Frame] /\ cld \in [Core -> App \cup {None}]
    /\ owner \in [App -> Core \cup {None}] /\ status \in [App -> Status]
    /\ table \in [App -> Frame \cup {None}] /\ free \in Seq(Frame)
    /\ seg \in [Core -> Nat] /\ heap \in [App -> Nat] /\ kheap \in Nat

\* A core works for an application it owns, whose status tells how far it is
Ownership ==
    /\ \A c \in Core :
          /\ pc[c] \in InKernel => cur[c] = None
          /\ cur[c] # None => owner[cur[c]] = c
          /\ pc[c] \in Preparing => cur[c] # None /\ status[cur[c]] = "loading"
          /\ pc[c] = "to_kernel" =>
                cur[c] # None /\ status[cur[c]] \in {"loading", "running", "dropping"}
          /\ pc[c] = "to_user" => cur[c] # None /\ status[cur[c]] \in {"running", "dropping"}
          /\ pc[c] \in Inside \cup {"execute"} => cur[c] # None /\ status[cur[c]] = "running"
    /\ \A a \in App : status[a] = "none" => owner[a] = None

\* CR3 holds the table of the application from create_user_page_table, or
\* switch_to_user_page_table, until switch_to_kernel_page_table
Spaces ==
    /\ \A a \in App : /\ status[a] = "none" => table[a] = None
                      /\ status[a] \in {"ready", "running", "dropping"} => table[a] # None
    /\ \A c \in Core :
          /\ pc[c] \in InKernel \cup {"create", "to_user"} => cr3[c] = Kernel
          /\ pc[c] = "create" => table[cur[c]] = None
          /\ pc[c] \in OwnTable => cr3[c] = table[cur[c]]
          /\ cr3[c] = Kernel \/ (cur[c] # None /\ cr3[c] = table[cur[c]])

\* running_application_data is set from switch_stack_and_execute until it returns
CoreData ==
    \A c \in Core : /\ pc[c] \in Inside => cld[c] = cur[c]
                    /\ cld[c] # None => cld[c] = cur[c]
                    /\ pc[c] \notin Inside \cup {"panic"} => cld[c] = None

\* The loop over the segments stays in the program headers, and a heap grows only
\* while its range lasts
Ranges ==
    /\ \A c \in Core :
          /\ pc[c] \in {"map", "fill", "protect"} => seg[c] \in DOMAIN Segments
          /\ pc[c] = "grow_user" => heap[cld[c]] < Len(HeapPages)
          /\ pc[c] = "grow_kernel" => kheap < Len(KernelHeapPages)
    /\ \A c, d \in Core : pc[c] = "grow_kernel" /\ pc[d] = "grow_kernel" => c = d

\* The invariant of control
Control == Typed /\ Ownership /\ Spaces /\ CoreData /\ Ranges

\* The core entered the application with a stack and registers the kernel prepared:
\* the registers are those switch_stack_and_execute leaves to the entry point
Entered(c) ==
    \E m \in Machine : /\ HasRoom(m) /\ Restored(Caller, m, m.reg["rax"])
                       /\ cpu[c] = execute(m, entry_point)
\* The core is about to pop what switch_stack_and_execute pushed, and gets the
\* caller's registers and the exit code by doing so
Leaving(c) == /\ cpu[c].reg["rip"] = after_call
              /\ resume(cpu[c]) \in Machine
              /\ Restored(Caller, resume(cpu[c]), cpu[c].reg["rax"])
\* The invariant of the registers: outside an application they are the caller's
Registers ==
    /\ cpu = [c \in Core |-> cpu[c]]
    /\ \A c \in Core :
          /\ pc[c] \notin Inside \cup {"panic"} =>
                cpu[c] \in Machine /\ Restored(Caller, cpu[c], cpu[c].reg["rax"])
          /\ pc[c] \in Inside \ {"leave"} => Entered(c)
          /\ pc[c] = "leave" => Leaving(c)

--------------------------------------------------------------------------------
\* The pages of a program header are pages of the model, at least one
LEMMA PagesOfSegments ==
    ASSUME NEW i \in DOMAIN Segments
    PROVE  /\ Segments[i].pages \in Seq(Page) /\ Segments[i].pages # <<>>
           /\ PagesOf(Segments[i].pages) \subseteq Page
<1>0. Segments[i] \in Segment
  BY PagesAssumption
<1>1. Segments[i].pages \in Seq(Nat) /\ Segments[i].pages # <<>>
  BY <1>0, Zenon DEF Segment
<1>2. PagesOf(Segments[i].pages) \subseteq Page
  <2>1. PagesOf(Segments[i].pages) \subseteq SegmentPages
    BY Zenon DEF SegmentPages
  <2> QED  BY <2>1, Zenon DEF Page
<1>3. \A j \in DOMAIN Segments[i].pages : Segments[i].pages[j] \in Page
  BY <1>2, Zenon DEF PagesOf
<1> QED
  BY <1>1, <1>2, <1>3

\* So are the pages of the stack and of the two heaps
LEMMA OtherPages ==
    /\ StackPages \in Seq(Page) /\ StackPages # <<>> /\ PagesOf(StackPages) \subseteq Page
    /\ HeapPages \in Seq(Page) /\ PagesOf(HeapPages) \subseteq Page
    /\ KernelHeapPages \in Seq(Page) /\ PagesOf(KernelHeapPages) \subseteq Page
<1>1. /\ StackPages \in Seq(Nat) /\ StackPages # <<>>
      /\ HeapPages \in Seq(Nat) /\ KernelHeapPages \in Seq(Nat)
  BY PagesAssumption, Zenon
<1>2. /\ PagesOf(StackPages) \subseteq Page /\ PagesOf(HeapPages) \subseteq Page
      /\ PagesOf(KernelHeapPages) \subseteq Page
  BY Zenon DEF Page
<1>3. /\ \A j \in DOMAIN StackPages : StackPages[j] \in Page
      /\ \A j \in DOMAIN HeapPages : HeapPages[j] \in Page
      /\ \A j \in DOMAIN KernelHeapPages : KernelHeapPages[j] \in Page
  BY <1>2, Zenon DEF PagesOf
<1> QED
  BY <1>1, <1>2, <1>3

\* Frames are numbers, the four frames of the boot tables among them
LEMMA FrameNumbers ==
    Frame \subseteq Nat /\ {0, 1, 2, 3} \subseteq Frame /\ None \notin Frame
<1>1. ASSUME NEW f \in Frame PROVE f \in Nat
  <2>1. PICK n \in Frames : f \in 0 .. n + 3
    BY Zenon DEF Frame
  <2> QED
    BY <2>1, LoaderAssumption
<1>2. PICK n \in Frames : n \in Nat
  BY LoaderAssumption, Zenon
<1>3. 0 .. n + 3 \subseteq Frame
  BY Zenon DEF Frame
<1>4. {0, 1, 2, 3} \subseteq Frame
  BY <1>2, <1>3
<1> QED
  BY <1>1, <1>4, LoaderAssumption, Zenon

\* What map_ram leaves on the free list when it succeeds
LEMMA FreeTyped ==
    ASSUME free \in Seq(Frame), NEW c \in Core, NEW slot \in Slot, NEW pages \in Seq(Page),
           NEW w, NEW x, MapPages(c, slot, pages, w, x)
    PROVE  free' \in Seq(Frame)
  BY DEF MapPages, FramesNeeded

\* What map_ram leaves on the free list when it runs out of frames
LEMMA FreeTypedFails ==
    ASSUME free \in Seq(Frame), NEW c \in Core, NEW slot \in Slot, NEW pages \in Seq(Page),
           NEW w, NEW x, map_ram_fails(c, slot, pages, w, x)
    PROVE  free' \in Seq(Frame)
<1> DEFINE tables == FramesNeeded(c, slot, pages) - Len(pages)
           before == SubSeq(pages, 1, Len(free) - tables)
<1>1. tables \in {0, 1} /\ ~(Len(free) >= Len(pages) + tables)
  BY DEF FramesNeeded, Enough, map_ram_fails
<1>2. before \in Seq(Page)
  <2> HIDE DEF tables
  <2> QED  BY <1>1
<1>3. CASE MapPages(c, slot, before, w, x)
  BY <1>2, <1>3, FreeTyped, Zenon
<1>4. CASE free' = <<>>
  BY <1>4
<1> QED
  BY <1>3, <1>4, Zenon DEF map_ram_fails
--------------------------------------------------------------------------------
\* The disjuncts of Next, one core and at most one application each
LEMMA StepCases ==
    ASSUME [Next]_vars
    PROVE  \/ \E c \in Core :
                \/ create_user_page_table(c) \/ map_segment(c) \/ fill_segment(c)
                \/ protect_segment(c) \/ allocate_stack(c) \/ switch_to_kernel_page_table(c)
                \/ switch_to_user_page_table(c) \/ switch_stack_and_execute(c)
                \/ StartGrowUser(c) \/ grow_user_heap(c)
                \/ user_main(c) \/ abort(c) \/ leave_application(c)
                \/ StartGrowKernel(c) \/ grow_kernel_heap(c) \/ Panic(c)
           \/ \E c \in Core, a \in App : StartPrepare(c, a) \/ StartRun(c, a) \/ StartDrop(c, a)
           \/ UNCHANGED vars
  BY Zenon DEF Next

\* A counter that is incremented stays a natural number
LEMMA Counts ==
    ASSUME NEW S, NEW f \in [S -> Nat], NEW x \in S
    PROVE  [f EXCEPT ![x] = @ + 1] \in [S -> Nat]
  OBVIOUS

\* Every step keeps the types
LEMMA TypedStep ==
    ASSUME Typed, Ownership, Spaces, CoreData, Ranges, [Next]_vars
    PROVE  Typed'
<1> USE FrameNumbers DEF Typed, Goto, memvars, appvars, Label, Status, InKernel, Preparing,
                         OwnTable, Inside, Kernel
<1>1. ASSUME NEW c \in Core, create_user_page_table(c) PROVE Typed'
  BY <1>1 DEF create_user_page_table, Ownership
<1>2. ASSUME NEW c \in Core, map_segment(c) PROVE Typed'
  <2>1. free' \in Seq(Frame)
    BY <1>2, FreeTyped, PagesOfSegments, Zenon DEF map_segment, map_ram, Ranges, Slot
  <2> QED  BY <1>2, <2>1, Zenon DEF map_segment
<1>3. ASSUME NEW c \in Core, fill_segment(c) PROVE Typed'
  BY <1>3, Zenon DEF fill_segment
<1>4. ASSUME NEW c \in Core, protect_segment(c) PROVE Typed'
  <2>1. pc' \in [Core -> Label] /\ seg' \in [Core -> Nat]
    <3>1. \/ seg' = [seg EXCEPT ![c] = @ + 1] /\ pc' = [pc EXCEPT ![c] = "map"]
          \/ seg' = seg /\ pc' = [pc EXCEPT ![c] = "stack"]
      BY <1>4, Zenon DEF protect_segment
    <3>2. [seg EXCEPT ![c] = @ + 1] \in [Core -> Nat]
      BY Counts, Zenon
    <3> QED  BY <3>1, <3>2, Zenon
  <2> QED  BY <1>4, <2>1, Zenon DEF protect_segment
<1>5. ASSUME NEW c \in Core, allocate_stack(c) PROVE Typed'
  <2>1. free' \in Seq(Frame)
    BY <1>5, FreeTyped, OtherPages, Zenon DEF allocate_stack, map_ram, Slot
  <2> QED  BY <1>5, <2>1, Zenon DEF allocate_stack
<1>6. ASSUME NEW c \in Core, switch_to_kernel_page_table(c) PROVE Typed'
  BY <1>6, Zenon DEF switch_to_kernel_page_table, Ownership
<1>7. ASSUME NEW c \in Core, switch_to_user_page_table(c) PROVE Typed'
  BY <1>7 DEF switch_to_user_page_table, Ownership, Spaces
<1>8. ASSUME NEW c \in Core, switch_stack_and_execute(c) PROVE Typed'
  BY <1>8, Zenon DEF switch_stack_and_execute
<1>9. ASSUME NEW c \in Core, StartGrowUser(c) PROVE Typed'
  BY <1>9, Zenon DEF StartGrowUser
<1>10. ASSUME NEW c \in Core, grow_user_heap(c) PROVE Typed'
  <2>1. <<HeapPages[heap[cld[c]] + 1]>> \in Seq(Page)
    BY <1>10, OtherPages DEF grow_user_heap, Ranges, CoreData, Ownership
  <2>2. free' \in Seq(Frame)
    BY <1>10, <2>1, FreeTyped, Zenon DEF grow_user_heap, map_ram, Slot
  <2>3. heap' \in [App -> Nat] /\ pc' \in [Core -> Label]
    <3>1. heap' = [heap EXCEPT ![cld[c]] = @ + 1] /\ pc' = [pc EXCEPT ![c] = "user"]
      BY <1>10, Zenon DEF grow_user_heap
    <3>2. cld[c] \in App
      BY <1>10, Zenon DEF grow_user_heap, CoreData, Ownership
    <3> QED  BY <3>1, <3>2, Counts, Zenon
  <2> QED  BY <1>10, <2>2, <2>3, Zenon DEF grow_user_heap
<1>11. ASSUME NEW c \in Core, user_main(c) PROVE Typed'
  BY <1>11, Zenon DEF user_main
<1>12. ASSUME NEW c \in Core, abort(c) PROVE Typed'
  BY <1>12, Zenon DEF abort
<1>13. ASSUME NEW c \in Core, leave_application(c) PROVE Typed'
  BY <1>13, Zenon DEF leave_application
<1>14. ASSUME NEW c \in Core, StartGrowKernel(c) PROVE Typed'
  BY <1>14, Zenon DEF StartGrowKernel
<1>15. ASSUME NEW c \in Core, grow_kernel_heap(c) PROVE Typed'
  <2>1. <<KernelHeapPages[kheap + 1]>> \in Seq(Page)
    BY <1>15, OtherPages DEF grow_kernel_heap, Ranges
  <2>2. free' \in Seq(Frame)
    BY <1>15, <2>1, FreeTyped, Zenon DEF grow_kernel_heap, map_ram, Slot, KernelSlot
  <2> QED  BY <1>15, <2>2 DEF grow_kernel_heap
<1>16. ASSUME NEW c \in Core, Panic(c) PROVE Typed'
  <2>1. free' \in Seq(Frame)
    <3>1. pc[c] = "grow_user" => <<HeapPages[heap[cld[c]] + 1]>> \in Seq(Page)
      BY OtherPages DEF Ranges, CoreData, Ownership
    <3>2. pc[c] = "grow_kernel" => <<KernelHeapPages[kheap + 1]>> \in Seq(Page)
      BY OtherPages DEF Ranges
    <3> QED  BY <1>16, <3>1, <3>2, FreeTypedFails, PagesOfSegments, OtherPages, Zenon
             DEF Panic, Ranges, Slot, KernelSlot
  <2> QED  BY <1>16, <2>1, Zenon DEF Panic
<1>17. ASSUME NEW c \in Core, NEW a \in App, StartPrepare(c, a) \/ StartRun(c, a) \/ StartDrop(c, a)
       PROVE  Typed'
  <2>1. CASE StartPrepare(c, a)  BY <2>1, Zenon DEF StartPrepare
  <2>2. CASE StartRun(c, a)  BY <2>2, Zenon DEF StartRun
  <2>3. CASE StartDrop(c, a)  BY <2>3, Zenon DEF StartDrop
  <2> QED  BY <1>17, <2>1, <2>2, <2>3, Zenon
<1>18. CASE UNCHANGED vars  BY <1>18, Zenon DEF vars
<1> HIDE FrameNumbers DEF Typed
<1> QED
  BY <1>1, <1>2, <1>3, <1>4, <1>5, <1>6, <1>7, <1>8, <1>9, <1>10, <1>11, <1>12, <1>13, <1>14,
     <1>15, <1>16, <1>17, <1>18, StepCases, ZenonT(60)

\* Core c goes from one of the labels from to one of the labels to
Moves(c, from, to) ==
    pc[c] \in from /\ pc'[c] \in to /\ \A d \in Core \ {c} : pc'[d] = pc[d]

\* the steps that leave alone which core works for which application, and in which table
Quiet(c) ==
    \/ map_segment(c) \/ fill_segment(c) \/ protect_segment(c) \/ allocate_stack(c)
    \/ StartGrowUser(c) \/ grow_user_heap(c) \/ user_main(c) \/ abort(c)
    \/ StartGrowKernel(c) \/ grow_kernel_heap(c) \/ Panic(c)

\* The labels those steps lead from and to
LEMMA QuietMoves ==
    ASSUME Typed, NEW c \in Core, Quiet(c)
    PROVE  /\ \/ Moves(c, {"map"}, {"fill"}) \/ Moves(c, {"fill"}, {"protect"})
              \/ Moves(c, {"protect"}, {"map", "stack"}) \/ Moves(c, {"stack"}, {"to_kernel"})
              \/ Moves(c, {"user"}, {"grow_user", "abort", "leave"})
              \/ Moves(c, {"grow_user"}, {"user"}) \/ Moves(c, {"abort"}, {"leave"})
              \/ Moves(c, {"kernel"}, {"grow_kernel"}) \/ Moves(c, {"grow_kernel"}, {"kernel"})
              \/ Moves(c, {"create", "map", "stack", "grow_user", "grow_kernel"}, {"panic"})
           /\ UNCHANGED <<cur, owner, status, table, cr3, cld>>
<1>0. pc = [d \in Core |-> pc[d]]
  BY Zenon DEF Typed
<1> USE <1>0 DEF Moves, Goto, appvars
<1>1. CASE map_segment(c)  BY <1>1, Zenon DEF map_segment
<1>2. CASE fill_segment(c)  BY <1>2, Zenon DEF fill_segment
<1>3. CASE protect_segment(c)  BY <1>3, Zenon DEF protect_segment
<1>4. CASE allocate_stack(c)  BY <1>4, Zenon DEF allocate_stack
<1>5. CASE StartGrowUser(c)  BY <1>5, Zenon DEF StartGrowUser
<1>6. CASE grow_user_heap(c)  BY <1>6, Zenon DEF grow_user_heap
<1>7. CASE user_main(c)  BY <1>7, Zenon DEF user_main
<1>8. CASE abort(c)  BY <1>8, Zenon DEF abort
<1>9. CASE StartGrowKernel(c)  BY <1>9, Zenon DEF StartGrowKernel
<1>10. CASE grow_kernel_heap(c)  BY <1>10, Zenon DEF grow_kernel_heap
<1>11. CASE Panic(c)  BY <1>11, Zenon DEF Panic
<1> HIDE <1>0 DEF Moves, Goto, appvars
<1> QED
  BY <1>1, <1>2, <1>3, <1>4, <1>5, <1>6, <1>7, <1>8, <1>9, <1>10, <1>11, Zenon DEF Quiet

\* A core they lead to a kind of label comes from a label of the same kind
LEMMA QuietLabels ==
    ASSUME Typed, NEW c \in Core, Quiet(c)
    PROVE  /\ UNCHANGED <<cur, owner, status, table, cr3, cld>>
           /\ \A d \in Core :
                 /\ pc'[d] \in InKernel => pc[d] \in InKernel
                 /\ pc'[d] \in Preparing => pc[d] \in Preparing
                 /\ pc'[d] = "create" => pc[d] = "create"
                 /\ pc'[d] = "to_kernel" => pc[d] \in (Preparing \cap OwnTable) \cup {"to_kernel"}
                 /\ pc'[d] = "to_user" => pc[d] = "to_user"
                 /\ pc'[d] = "execute" => pc[d] = "execute"
                 /\ pc'[d] \in Inside => pc[d] \in Inside
                 /\ pc'[d] \in OwnTable => pc[d] \in OwnTable
                 /\ pc'[d] \notin Inside \cup {"panic"} => pc[d] \notin Inside \cup {"panic"}
<1>1. UNCHANGED <<cur, owner, status, table, cr3, cld>> /\ \A d \in Core \ {c} : pc'[d] = pc[d]
  BY QuietMoves, Zenon DEF Moves
<1>2. \/ pc[c] \in Preparing \cap OwnTable
         /\ pc'[c] \in (Preparing \cap OwnTable) \cup {"to_kernel", "panic"}
      \/ pc[c] = "create" /\ pc'[c] = "panic"
      \/ pc[c] \in Inside /\ pc'[c] \in Inside \cup {"panic"}
      \/ pc[c] \in InKernel /\ pc'[c] \in InKernel \cup {"panic"}
  BY QuietMoves, Zenon DEF Moves, InKernel, Preparing, Inside, OwnTable
<1> QED
  BY <1>1, <1>2, ZenonT(60) DEF InKernel, Preparing, Inside, OwnTable

\* Every step keeps Ownership: a core takes only an application that is its own or
\* that nobody has prepared yet
LEMMA OwnershipStep ==
    ASSUME Typed, Ownership, [Next]_vars
    PROVE  Ownership'
<1>0. None \notin App /\ None \notin Core
  BY LoaderAssumption, Zenon
<1> USE <1>0 DEF Typed, Ownership, InKernel, Preparing, Inside
<1>1. ASSUME NEW c \in Core, Quiet(c) PROVE Ownership'
  BY <1>1, QuietLabels
<1>2. ASSUME NEW c \in Core, create_user_page_table(c) PROVE Ownership'
  BY <1>2, Zenon DEF create_user_page_table, Goto
<1>3. ASSUME NEW c \in Core, switch_to_kernel_page_table(c) PROVE Ownership'
  BY <1>3, ZenonT(60) DEF switch_to_kernel_page_table, Goto
<1>4. ASSUME NEW c \in Core, switch_to_user_page_table(c) PROVE Ownership'
  BY <1>4, Zenon DEF switch_to_user_page_table, Goto, appvars
<1>5. ASSUME NEW c \in Core, switch_stack_and_execute(c) \/ leave_application(c)
      PROVE  Ownership'
  BY <1>5 DEF switch_stack_and_execute, leave_application, Goto, appvars
<1>6. ASSUME NEW c \in Core, NEW a \in App, StartPrepare(c, a) PROVE Ownership'
  BY <1>6 DEF StartPrepare, Goto
<1>7. ASSUME NEW c \in Core, NEW a \in App, StartRun(c, a) \/ StartDrop(c, a) PROVE Ownership'
  BY <1>7 DEF StartRun, StartDrop, Goto
<1>8. CASE UNCHANGED vars  BY <1>8, Zenon DEF vars, appvars
<1> HIDE <1>0 DEF Typed, Ownership
<1> QED
  BY <1>1, <1>2, <1>3, <1>4, <1>5, <1>6, <1>7, <1>8, StepCases, Zenon DEF Quiet

\* Every step keeps Spaces: the actions that write CR3 write the table that the
\* next label expects
LEMMA SpacesStep ==
    ASSUME Typed, Ownership, Spaces, [Next]_vars
    PROVE  Spaces'
<1>0. None \notin App /\ None \notin Core /\ None \notin Frame
  BY LoaderAssumption, FrameNumbers, Zenon
<1> USE <1>0 DEF Typed, Ownership, Spaces, InKernel, Preparing, Inside, OwnTable
<1>1. ASSUME NEW c \in Core, Quiet(c) PROVE Spaces'
  BY <1>1, QuietLabels
<1>2. ASSUME NEW c \in Core, create_user_page_table(c) PROVE Spaces'
  BY <1>2 DEF create_user_page_table, Goto
<1>3. ASSUME NEW c \in Core, switch_to_kernel_page_table(c) PROVE Spaces'
  BY <1>3 DEF switch_to_kernel_page_table, Goto
<1>4. ASSUME NEW c \in Core, switch_to_user_page_table(c) PROVE Spaces'
  BY <1>4, ZenonT(60) DEF switch_to_user_page_table, Goto, appvars
<1>5. ASSUME NEW c \in Core, switch_stack_and_execute(c) \/ leave_application(c)
      PROVE  Spaces'
  BY <1>5 DEF switch_stack_and_execute, leave_application, Goto, appvars
<1>6. ASSUME NEW c \in Core, NEW a \in App, StartPrepare(c, a) PROVE Spaces'
  BY <1>6, ZenonT(60) DEF StartPrepare, Goto
<1>7. ASSUME NEW c \in Core, NEW a \in App, StartRun(c, a) \/ StartDrop(c, a) PROVE Spaces'
  BY <1>7 DEF StartRun, StartDrop, Goto
<1>8. CASE UNCHANGED vars  BY <1>8, Zenon DEF vars, appvars
<1> HIDE <1>0 DEF Typed, Ownership, Spaces
<1> QED
  BY <1>1, <1>2, <1>3, <1>4, <1>5, <1>6, <1>7, <1>8, StepCases, Zenon DEF Quiet

\* Every step keeps CoreData: leave_application resets what
\* switch_stack_and_execute set
LEMMA CoreDataStep ==
    ASSUME Typed, Ownership, CoreData, [Next]_vars
    PROVE  CoreData'
<1>0. None \notin App
  BY LoaderAssumption, Zenon
<1> USE <1>0 DEF Typed, Ownership, CoreData, InKernel, Preparing, Inside
<1>1. ASSUME NEW c \in Core, Quiet(c) PROVE CoreData'
  BY <1>1, QuietLabels, Zenon
<1>2. ASSUME NEW c \in Core, create_user_page_table(c) PROVE CoreData'
  BY <1>2, Zenon DEF create_user_page_table, Goto
<1>3. ASSUME NEW c \in Core, switch_to_kernel_page_table(c) PROVE CoreData'
  BY <1>3, Zenon DEF switch_to_kernel_page_table, Goto
<1>4. ASSUME NEW c \in Core, switch_to_user_page_table(c) PROVE CoreData'
  BY <1>4, Zenon DEF switch_to_user_page_table, Goto
<1>5. ASSUME NEW c \in Core, switch_stack_and_execute(c) \/ leave_application(c)
      PROVE  CoreData'
  <2>1. CASE switch_stack_and_execute(c)  BY <2>1, Zenon DEF switch_stack_and_execute, Goto
  <2>2. CASE leave_application(c)  BY <2>2, Zenon DEF leave_application, Goto
  <2> QED  BY <1>5, <2>1, <2>2, Zenon
<1>6. ASSUME NEW c \in Core, NEW a \in App, StartPrepare(c, a) \/ StartRun(c, a) \/ StartDrop(c, a)
      PROVE  CoreData'
  <2>1. /\ Moves(c, {"kernel"}, {"create", "to_user"})
        /\ cur' = [cur EXCEPT ![c] = a] /\ UNCHANGED cld
    BY <1>6, Zenon DEF StartPrepare, StartRun, StartDrop, Goto, Moves
  <2> QED  BY <2>1, Zenon DEF Moves
<1>7. CASE UNCHANGED vars  BY <1>7, Zenon DEF vars
<1> HIDE <1>0 DEF Typed, Ownership, CoreData
<1> QED
  BY <1>1, <1>2, <1>3, <1>4, <1>5, <1>6, <1>7, StepCases, Zenon DEF Quiet

\* Every step keeps Ranges: protect_segment goes to the next segment only when there
\* is one, and the lock of the kernel heap lets one core grow it
LEMMA RangesStep ==
    ASSUME Typed, Ownership, CoreData, Ranges, [Next]_vars
    PROVE  Ranges'
<1>0. None \notin App /\ Len(Segments) \in Nat \ {0} /\ DOMAIN Segments = 1 .. Len(Segments)
  BY LoaderAssumption, PagesAssumption
<1> USE <1>0 DEF Typed, Ownership, CoreData, Ranges, InKernel, Preparing, Inside, Goto, appvars
<1>1. ASSUME NEW c \in Core, map_segment(c) \/ fill_segment(c) \/ allocate_stack(c) PROVE Ranges'
  <2>1. /\ Moves(c, {"map", "fill"}, {"fill", "protect"}) \/ Moves(c, {"stack"}, {"to_kernel"})
        /\ UNCHANGED <<seg, heap, kheap, cld>>
    BY <1>1, ZenonT(60) DEF map_segment, fill_segment, allocate_stack, Moves
  <2> QED  BY <2>1 DEF Moves
<1>2. ASSUME NEW c \in Core, protect_segment(c) PROVE Ranges'
  BY <1>2 DEF protect_segment
<1>3. ASSUME NEW c \in Core, StartGrowUser(c) PROVE Ranges'
  BY <1>3, Zenon DEF StartGrowUser
<1>4. ASSUME NEW c \in Core, grow_user_heap(c) PROVE Ranges'
  BY <1>4 DEF grow_user_heap
<1>5. ASSUME NEW c \in Core, user_main(c) \/ abort(c) PROVE Ranges'
  BY <1>5 DEF user_main, abort
<1>6. ASSUME NEW c \in Core, StartGrowKernel(c) PROVE Ranges'
  BY <1>6, Zenon DEF StartGrowKernel
<1>7. ASSUME NEW c \in Core, grow_kernel_heap(c) PROVE Ranges'
  BY <1>7, Zenon DEF grow_kernel_heap
<1>8. ASSUME NEW c \in Core, Panic(c) PROVE Ranges'
  BY <1>8, Zenon DEF Panic
<1>9. ASSUME NEW c \in Core, create_user_page_table(c) PROVE Ranges'
  BY <1>9 DEF create_user_page_table
<1>10. ASSUME NEW c \in Core, switch_to_kernel_page_table(c) \/ switch_to_user_page_table(c)
       PROVE  Ranges'
  <2>1. /\ Moves(c, {"to_kernel", "to_user"}, {"kernel", "execute", "to_kernel"})
        /\ UNCHANGED <<seg, heap, kheap, cld>>
    BY <1>10, Zenon DEF switch_to_kernel_page_table, switch_to_user_page_table, Moves
  <2> QED  BY <2>1 DEF Moves
<1>11. ASSUME NEW c \in Core, switch_stack_and_execute(c) \/ leave_application(c)
      PROVE  Ranges'
  BY <1>11 DEF switch_stack_and_execute, leave_application
<1>12. ASSUME NEW c \in Core, NEW a \in App, StartPrepare(c, a) \/ StartRun(c, a) \/ StartDrop(c, a)
      PROVE  Ranges'
  BY <1>12 DEF StartPrepare, StartRun, StartDrop
<1>13. CASE UNCHANGED vars  BY <1>13, Zenon DEF vars
<1> HIDE <1>0 DEF Typed, Ownership, CoreData, Ranges
<1> QED
  BY <1>1, <1>2, <1>3, <1>4, <1>5, <1>6, <1>7, <1>8, <1>9, <1>10, <1>11, <1>12, <1>13,
     StepCases, ZenonT(60)

\* From the entry point both ways out of an application, the return of its main and
\* abort, lead to the instruction after the call with the exit code in rax and the
\* registers that must survive a call as the caller left them
LEMMA WayOut ==
    ASSUME NEW m \in Machine, HasRoom(m), Restored(Caller, m, m.reg["rax"]),
           NEW code \in Int, NEW out,
           \/ out = save_instruction_pointer_returns(execute(m, entry_point), code, Used)
           \/ out = abort_jumps(execute(m, entry_point), code, Used)
    PROVE  /\ out.reg["rip"] = after_call /\ out.reg["rax"] = code
           /\ resume(out) \in Machine /\ Restored(Caller, resume(out), code)
<1> DEFINE user == execute(m, entry_point)
<1>1. user.mem \in [Addr -> Int]
  <2>1. m.reg \in [Reg -> Int] /\ m.mem \in [Addr -> Int]
    BY Zenon DEF Machine
  <2>2. /\ m.reg["r12"] \in Int /\ m.reg["r13"] \in Int /\ m.reg["rbx"] \in Int
        /\ m.reg["rbp"] \in Int /\ m.reg["r14"] \in Int /\ m.reg["r15"] \in Int
        /\ m.reg["rsp"] - 6 \in Int
    BY <2>1 DEF Reg, Preserved
  <2>3. after_call \in Int /\ in_sip \in Int
    BY SwitchAssumption, Zenon
  <2> QED
    BY <2>1, <2>2, <2>3, Zenon DEF execute
<1>2. [user EXCEPT !.mem = user.mem] = user
  BY Zenon DEF execute
<1>3. Used \in [Reg -> Int] /\ entry_point \in Int
  <2>1. MaxRuns \in Nat /\ entry_point \in Int
    BY LoaderAssumption, Zenon
  <2>2. Garbage \in Int
    BY <2>1 DEF Garbage
  <2> QED  BY <2>1, <2>2, Zenon DEF Used
<1>4. /\ save_instruction_pointer_returns(user, code, Used).reg["rax"] = code
      /\ abort_jumps(user, code, Used).reg["rax"] = code
  BY Zenon DEF save_instruction_pointer_returns, abort_jumps, execute, Reg, Scratch, Preserved
<1> HIDE DEF user
<1>5. LET returned == save_instruction_pointer_returns(user, code, Used)
          aborted == abort_jumps(user, code, Used)
      IN  /\ returned.reg["rip"] = after_call /\ aborted.reg["rip"] = after_call
          /\ resume(returned) \in Machine /\ Restored(m, resume(returned), code)
          /\ resume(aborted) \in Machine /\ Restored(m, resume(aborted), code)
  BY <1>1, <1>2, <1>3, SwitchRestores DEF user
<1>6. \A after : Restored(m, after, code) => Restored(Caller, after, code)
  BY Zenon DEF Restored
<1> QED
  BY <1>4, <1>5, <1>6, Zenon DEF user

\* Where the registers of a core stay as they are, the core stays on its side of the call
LEMMA RegistersStay ==
    ASSUME Registers, UNCHANGED cpu, NEW c \in Core,
           \A d \in Core \ {c} : pc'[d] = pc[d],
           \/ pc[c] \in Inside \ {"leave"} /\ pc'[c] \in Inside \ {"leave"}
           \/ pc[c] \notin Inside \cup {"panic"} /\ pc'[c] \notin Inside
           \/ pc'[c] = "panic"
    PROVE  Registers'
<1>1. \A d \in Core : (Entered(d))' = Entered(d) /\ (Leaving(d))' = Leaving(d)
  BY Zenon DEF Entered, Leaving
<1> QED
  BY <1>1 DEF Registers, Inside

\* Every step keeps Registers: the registers change only when an application is
\* entered, when it leaves by either way and when the kernel gets them back
LEMMA RegistersStep ==
    ASSUME Typed, Ownership, Registers, [Next]_vars
    PROVE  Registers'
<1>0. pc = [c \in Core |-> pc[c]] /\ cpu = [c \in Core |-> cpu[c]]
  BY Zenon DEF Typed, Registers
<1>1. ASSUME NEW c \in Core, user_main(c) \/ abort(c), pc'[c] = "leave"
      PROVE  Registers'
  <2>1. /\ pc[c] \in Inside \ {"leave"} /\ pc' = [pc EXCEPT ![c] = "leave"]
        /\ \E code \in Int :
              \/ cpu' = [cpu EXCEPT ![c] = save_instruction_pointer_returns(cpu[c], code, Used)]
              \/ cpu' = [cpu EXCEPT ![c] = abort_jumps(cpu[c], code, Used)]
    BY <1>0, <1>1 DEF user_main, abort, Goto, Inside
  <2>2. PICK m \in Machine : /\ HasRoom(m) /\ Restored(Caller, m, m.reg["rax"])
                             /\ cpu[c] = execute(m, entry_point)
    BY <2>1, Zenon DEF Registers, Entered
  <2>3. (Leaving(c))'
    BY <1>0, <2>1, <2>2, WayOut DEF Leaving
  <2>4. \A d \in Core \ {c} : cpu'[d] = cpu[d] /\ pc'[d] = pc[d]
    BY <1>0, <2>1, Zenon
  <2>5. \A d \in Core \ {c} : (Entered(d))' = Entered(d) /\ (Leaving(d))' = Leaving(d)
    BY <2>4, Zenon DEF Entered, Leaving
  <2>6. cpu' = [d \in Core |-> cpu'[d]] /\ pc'[c] = "leave"
    BY <1>0, <2>1, Zenon
  <2> QED
    BY <2>3, <2>4, <2>5, <2>6 DEF Registers, Inside
<1>2. ASSUME NEW c \in Core, switch_stack_and_execute(c) PROVE Registers'
  <2>1. /\ pc[c] = "execute" /\ pc' = [pc EXCEPT ![c] = "user"]
        /\ cpu' = [cpu EXCEPT ![c] = execute(cpu[c], entry_point)]
    BY <1>2, Zenon DEF switch_stack_and_execute, Goto
  <2>2. cpu[c] \in Machine /\ Restored(Caller, cpu[c], cpu[c].reg["rax"])
    BY <2>1, Zenon DEF Registers, Inside
  <2>3. HasRoom(cpu[c])
    BY <2>2, LoaderAssumption, Zenon DEF Restored, HasRoom, Pushed, Preserved
  <2>4. (Entered(c))'
    BY <1>0, <2>1, <2>2, <2>3, Zenon DEF Entered
  <2>5. \A d \in Core \ {c} : cpu'[d] = cpu[d] /\ pc'[d] = pc[d]
    BY <1>0, <2>1, Zenon
  <2>6. \A d \in Core \ {c} : (Entered(d))' = Entered(d) /\ (Leaving(d))' = Leaving(d)
    BY <2>5, Zenon DEF Entered, Leaving
  <2>7. cpu' = [d \in Core |-> cpu'[d]] /\ pc'[c] = "user"
    BY <1>0, <2>1, Zenon
  <2> QED
    BY <2>4, <2>5, <2>6, <2>7 DEF Registers, Inside
<1>3. ASSUME NEW c \in Core, leave_application(c) PROVE Registers'
  <2>1. /\ pc[c] = "leave" /\ pc' = [pc EXCEPT ![c] = "to_kernel"]
        /\ cpu' = [cpu EXCEPT ![c] = resume(cpu[c])]
    BY <1>3, Zenon DEF leave_application, Goto
  <2>2. /\ resume(cpu[c]) \in Machine
        /\ Restored(Caller, resume(cpu[c]), resume(cpu[c]).reg["rax"])
    BY <2>1, Zenon DEF Registers, Leaving, Inside, Restored
  <2>3. \A d \in Core \ {c} : cpu'[d] = cpu[d] /\ pc'[d] = pc[d]
    BY <1>0, <2>1, Zenon
  <2>4. \A d \in Core \ {c} : (Entered(d))' = Entered(d) /\ (Leaving(d))' = Leaving(d)
    BY <2>3, Zenon DEF Entered, Leaving
  <2>5. /\ cpu' = [d \in Core |-> cpu'[d]] /\ pc'[c] = "to_kernel"
        /\ cpu'[c] = resume(cpu[c])
    BY <1>0, <2>1, Zenon
  <2> QED
    BY <2>2, <2>3, <2>4, <2>5, Zenon DEF Registers, Inside
<1>4. ASSUME NEW c \in Core, Quiet(c), ~(user_main(c) \/ abort(c)) \/ pc'[c] # "leave"
      PROVE  Registers'
  <2>1. UNCHANGED cpu /\ pc'[c] # "leave"
    <3>1. CASE user_main(c) \/ abort(c)
      BY <1>0, <1>4, <3>1, Zenon DEF user_main, abort, Goto
    <3>2. CASE ~(user_main(c) \/ abort(c))
      <4>1. /\ UNCHANGED cpu
            /\ \E l \in Label \ {"leave"} : pc' = [pc EXCEPT ![c] = l]
        BY <1>4, <3>2, Zenon
        DEF Quiet, map_segment, fill_segment, protect_segment, allocate_stack, StartGrowUser,
            grow_user_heap, StartGrowKernel, grow_kernel_heap, Panic, Goto, Label, InKernel,
            Preparing, OwnTable, Inside
      <4> QED  BY <1>0, <4>1, Zenon
    <3> QED  BY <3>1, <3>2, Zenon
  <2>2. /\ \A d \in Core \ {c} : pc'[d] = pc[d]
        /\ \/ pc[c] \in Inside \ {"leave"} /\ pc'[c] \in Inside \ {"leave"}
           \/ pc[c] \notin Inside \cup {"panic"} /\ pc'[c] \notin Inside
           \/ pc'[c] = "panic"
    BY <1>4, <2>1, QuietMoves, Zenon DEF Moves, Inside
  <2> QED
    BY <2>1, <2>2, RegistersStay, Zenon
<1>5. ASSUME NEW c \in Core,
             \/ create_user_page_table(c) \/ switch_to_kernel_page_table(c)
             \/ switch_to_user_page_table(c)
             \/ \E a \in App : StartPrepare(c, a) \/ StartRun(c, a) \/ StartDrop(c, a)
      PROVE  Registers'
  <2>1. /\ Moves(c, {"create", "to_kernel", "to_user", "kernel"},
                    {"map", "kernel", "execute", "to_kernel", "create", "to_user"})
        /\ UNCHANGED cpu
    <3>1. CASE create_user_page_table(c)
      BY <1>0, <3>1, Zenon DEF create_user_page_table, Goto, Moves
    <3>2. CASE switch_to_kernel_page_table(c) \/ switch_to_user_page_table(c)
      BY <1>0, <3>2, Zenon DEF switch_to_kernel_page_table, switch_to_user_page_table, Goto, Moves
    <3>3. CASE \E a \in App : StartPrepare(c, a) \/ StartRun(c, a) \/ StartDrop(c, a)
      BY <1>0, <3>3, Zenon DEF StartPrepare, StartRun, StartDrop, Goto, Moves
    <3> QED  BY <1>5, <3>1, <3>2, <3>3, Zenon
  <2> QED
    BY <2>1, RegistersStay, Zenon DEF Moves, Inside
<1>6. CASE UNCHANGED vars
  <2>1. \A d \in Core : (Entered(d))' = Entered(d) /\ (Leaving(d))' = Leaving(d)
    BY <1>6, Zenon DEF vars, Entered, Leaving
  <2> QED  BY <1>6, <2>1, Zenon DEF vars, Registers
<1> QED
  BY <1>1, <1>2, <1>3, <1>4, <1>5, <1>6, StepCases, Zenon DEF Quiet

--------------------------------------------------------------------------------
\* After boot every core is in kernel code with the caller's registers
LEMMA ControlInit ==
    ASSUME Init
    PROVE  Control /\ Registers
<1>1. Typed
  <2>1. PICK n \in Frames : free = [i \in 1..n |-> i + 3]
    BY Zenon DEF Init
  <2>2. 0 .. n + 3 \subseteq Frame
    BY Zenon DEF Frame
  <2>3. free \in Seq(Frame)
    BY <2>1, <2>2, LoaderAssumption
  <2> QED
    BY <2>3, FrameNumbers, Zenon DEF Init, Typed, Label, InKernel, Status, Kernel
<1>2. Ownership /\ Spaces /\ CoreData /\ Ranges
  BY Zenon DEF Init, Ownership, Spaces, CoreData, Ranges, InKernel, Preparing, OwnTable, Inside
<1>3. Registers
  BY LoaderAssumption, Zenon DEF Init, Registers, Inside, Restored
<1> QED
  BY <1>1, <1>2, <1>3, Zenon DEF Control

\* Control and Registers are inductive together
LEMMA ControlStep ==
    ASSUME Control, Registers, [Next]_vars
    PROVE  Control' /\ Registers'
  BY Zenon, TypedStep, OwnershipStep, SpacesStep, CoreDataStep, RangesStep, RegistersStep
  DEF Control

\* RunsInOwnAddressSpace for every number of cores and applications: a core executes
\* an application under that application's table and with its own data set to it.
THEOREM RunsInOwnAddressSpaceTheorem == Spec => []RunsInOwnAddressSpace
<1>1. Control => RunsInOwnAddressSpace
  BY LoaderAssumption
  DEF Control, RunsInOwnAddressSpace, Typed, Ownership, Spaces, CoreData, InKernel, Preparing,
      OwnTable, Inside
<1>2. (Control /\ Registers) /\ [Next]_vars => (Control /\ Registers)'
  BY ControlStep, Zenon
<1> QED
  BY <1>1, <1>2, ControlInit, PTL DEF Spec

\* RunReturnsToCaller for every number of cores and applications: whichever way an
\* application leaves, run goes on after the call with the registers it had.
THEOREM RunReturnsToCallerTheorem == Spec => []RunReturnsToCaller
<1>1. Registers => RunReturnsToCaller
  <2>1. ASSUME NEW c \in Core, Entered(c) PROVE cpu[c].mem[abort_addr] = after_call
    BY <2>1, ExecuteSaves, LoaderAssumption, Zenon DEF Entered
  <2> QED
    BY <2>1, Zenon DEF Registers, RunReturnsToCaller, Leaving, Inside
<1>2. (Control /\ Registers) /\ [Next]_vars => (Control /\ Registers)'
  BY ControlStep, Zenon
<1> QED
  BY <1>1, <1>2, ControlInit, PTL DEF Spec
--------------------------------------------------------------------------------
\* A step of core c
StepOf(c) ==
    \/ create_user_page_table(c) \/ map_segment(c) \/ fill_segment(c)
    \/ protect_segment(c) \/ allocate_stack(c) \/ switch_to_kernel_page_table(c)
    \/ switch_to_user_page_table(c) \/ switch_stack_and_execute(c)
    \/ StartGrowUser(c) \/ grow_user_heap(c)
    \/ user_main(c) \/ abort(c) \/ leave_application(c)
    \/ StartGrowKernel(c) \/ grow_kernel_heap(c) \/ Panic(c)
    \/ \E a \in App : StartPrepare(c, a) \/ StartRun(c, a) \/ StartDrop(c, a)

\* A step of core c changes the control of core c alone
LEMMA OneCore ==
    ASSUME Typed, NEW c \in Core, StepOf(c)
    PROVE  \A d \in Core \ {c} : pc'[d] = pc[d] /\ cur'[d] = cur[d] /\ seg'[d] = seg[d]
<1>1. \E l : pc' = [pc EXCEPT ![c] = l]
  BY Zenon
  DEF StepOf, create_user_page_table, map_segment, fill_segment, protect_segment, allocate_stack,
      switch_to_kernel_page_table, switch_to_user_page_table, switch_stack_and_execute,
      StartGrowUser, grow_user_heap, user_main, abort, leave_application, StartGrowKernel,
      grow_kernel_heap, Panic, StartPrepare, StartRun, StartDrop, Goto
<1>2. UNCHANGED cur \/ \E l : cur' = [cur EXCEPT ![c] = l]
  BY Zenon
  DEF StepOf, create_user_page_table, map_segment, fill_segment, protect_segment, allocate_stack,
      switch_to_kernel_page_table, switch_to_user_page_table, switch_stack_and_execute,
      StartGrowUser, grow_user_heap, user_main, abort, leave_application, StartGrowKernel,
      grow_kernel_heap, Panic, StartPrepare, StartRun, StartDrop
<1>3. UNCHANGED seg \/ \E l : seg' = [seg EXCEPT ![c] = l]
  <2>1. protect_segment(c) => UNCHANGED seg \/ seg' = [seg EXCEPT ![c] = seg[c] + 1]
    BY Zenon DEF protect_segment
  <2> QED  BY <2>1, Zenon
  DEF StepOf, create_user_page_table, map_segment, fill_segment, allocate_stack,
      switch_to_kernel_page_table, switch_to_user_page_table, switch_stack_and_execute,
      StartGrowUser, grow_user_heap, user_main, abort, leave_application, StartGrowKernel,
      grow_kernel_heap, Panic, StartPrepare, StartRun, StartDrop
<1> QED
  BY <1>1, <1>2, <1>3, Zenon DEF Typed

\* The steps that change the status of an application
LEMMA StatusStep ==
    ASSUME Control, NEW c \in Core, StepOf(c), NEW b \in App, status'[b] # status[b]
    PROVE  \/ b = cur[c] /\ switch_to_kernel_page_table(c)
           \/ status[b] = "none" /\ status'[b] = "loading" /\ StartPrepare(c, b)
           \/ status[b] = "ready" /\ status'[b] = "running" /\ StartRun(c, b)
           \/ status[b] = "ready" /\ status'[b] = "dropping" /\ StartDrop(c, b)
<1>0. status = [a \in App |-> status[a]]
  BY Zenon DEF Control, Typed
<1>1. \/ switch_to_kernel_page_table(c)
      \/ \E a \in App : StartPrepare(c, a) \/ StartRun(c, a) \/ StartDrop(c, a)
  BY Zenon
  DEF StepOf, create_user_page_table, map_segment, fill_segment, protect_segment, allocate_stack,
      switch_to_user_page_table, switch_stack_and_execute,
      StartGrowUser, grow_user_heap, user_main, abort, leave_application, StartGrowKernel,
      grow_kernel_heap, Panic, appvars
<1>2. CASE switch_to_kernel_page_table(c)
  BY <1>0, <1>2, Zenon DEF switch_to_kernel_page_table
<1>3. ASSUME NEW a \in App, StartPrepare(c, a)
      PROVE  b = a /\ status[b] = "none" /\ status'[b] = "loading"
  BY <1>0, <1>3, Zenon DEF StartPrepare
<1>4. ASSUME NEW a \in App, StartRun(c, a)
      PROVE  b = a /\ status[b] = "ready" /\ status'[b] = "running"
  BY <1>0, <1>4, Zenon DEF StartRun
<1>5. ASSUME NEW a \in App, StartDrop(c, a)
      PROVE  b = a /\ status[b] = "ready" /\ status'[b] = "dropping"
  BY <1>0, <1>5, Zenon DEF StartDrop
<1> QED
  BY <1>1, <1>2, <1>3, <1>4, <1>5, Zenon

\* The frames are written by fill_segment and by the program alone
LEMMA OnlyRunsWrite ==
    ASSUME NEW c \in Core, StepOf(c)
    PROVE  fill_segment(c) \/ user_main(c) \/ UNCHANGED data
  BY Zenon
  DEF StepOf, create_user_page_table, map_segment, protect_segment, allocate_stack,
      switch_to_kernel_page_table, switch_to_user_page_table, switch_stack_and_execute,
      StartGrowUser, grow_user_heap, abort, leave_application, StartGrowKernel,
      grow_kernel_heap, Panic, StartPrepare, StartRun, StartDrop

\* An exit code is recorded when run switches back to the kernel's table
LEMMA ExitsStep ==
    ASSUME Control, exits \in [App -> Seq(Int)], NEW c \in Core, StepOf(c)
    PROVE  \/ UNCHANGED exits
           \/ /\ switch_to_kernel_page_table(c) /\ cur[c] \in App /\ status[cur[c]] = "running"
              /\ exits' = [exits EXCEPT ![cur[c]] = Append(exits[cur[c]], cpu[c].reg["rax"])]
<1>1. switch_to_kernel_page_table(c) \/ UNCHANGED exits
  BY Zenon
  DEF StepOf, create_user_page_table, map_segment, fill_segment, protect_segment, allocate_stack,
      switch_to_user_page_table, switch_stack_and_execute, appvars,
      StartGrowUser, grow_user_heap, user_main, abort, leave_application, StartGrowKernel,
      grow_kernel_heap, Panic, StartPrepare, StartRun, StartDrop
<1>2. switch_to_kernel_page_table(c) => cur[c] \in App
  BY Zenon DEF switch_to_kernel_page_table, Control, Typed, Ownership
<1> QED
  BY <1>1, <1>2, Zenon DEF switch_to_kernel_page_table

--------------------------------------------------------------------------------
\* The segments, the stack and the heap of an application are disjoint
LEMMA PagesApart ==
    /\ \A i, j \in DOMAIN Segments :
          i # j => PagesOf(Segments[i].pages) \cap PagesOf(Segments[j].pages) = {}
    /\ \A i \in DOMAIN Segments : \A Q :
          Q \subseteq PagesOf(StackPages) \/ Q \subseteq PagesOf(HeapPages) =>
             PagesOf(Segments[i].pages) \cap Q = {}
  BY ImageAssumption, Zenon

\* A missing entry is not an entry
LEMMA NoneIsNoEntry == None \notin Entry
  BY LoaderAssumption, FrameNumbers, Zenon DEF Entry

\* The type of the page tables
MemoryTyped ==
    /\ l4 \in [Frame -> [Slot -> Frame \cup {None}]]
    /\ pt \in [Frame -> [Page -> Entry \cup {None}]]

\* The effect of mapping pages with frames of the free list: t is the lower table of the
\* region, which is there or is made of one more frame
MapsInto(c, slot, pages, w, x, t) ==
    /\ \/ LowerTable(c, slot) = t /\ UNCHANGED l4
       \/ /\ LowerTable(c, slot) = None /\ t \in FreeSet \ FreeSet'
          /\ l4' = [l4 EXCEPT ![cr3[c]][slot] = t]
    /\ FreeSet' \subseteq FreeSet
    /\ \A i, j \in DOMAIN free' : free'[i] = free'[j] => i = j
    /\ pt' = [pt EXCEPT ![t] = pt'[t]] /\ pt'[t] \in [Page -> Entry \cup {None}]
    /\ \A p \in Page \ PagesOf(pages) :
          pt'[t][p] = IF LowerTable(c, slot) = None THEN None ELSE pt[t][p]
    /\ \A p \in PagesOf(pages) :
          /\ pt'[t][p] \in Entry /\ pt'[t][p].write = w /\ pt'[t][p].exec = x
          /\ pt'[t][p].frame \in FreeSet \ FreeSet' /\ pt'[t][p].frame # t
    /\ \A p, q \in PagesOf(pages) : pt'[t][p].frame = pt'[t][q].frame => p = q

\* the i-th page gets frame number Place(missing, i) of the free list
Place(missing, i) == IF missing /\ i > 1 THEN i + 1 ELSE i

\* Different pages get different frames, none of them the new table's
LEMMA Places ==
    ASSUME NEW missing \in BOOLEAN, NEW k \in Nat \ {0}, NEW n, n = IF missing THEN k + 1 ELSE k
    PROVE  /\ \A i \in 1 .. k : Place(missing, i) \in 1 .. n
           /\ \A i \in 1 .. k : missing => Place(missing, i) # 2
           /\ \A i, j \in 1 .. k : Place(missing, i) = Place(missing, j) => i = j
           /\ missing => 2 \in 1 .. n
  BY DEF Place

\* The frames taken from the front of the free list are free before and not after
LEMMA TakesFrames ==
    ASSUME free \in Seq(Frame), \A i, j \in DOMAIN free : free[i] = free[j] => i = j,
           NEW n \in 0 .. Len(free), free' = SubSeq(free, n + 1, Len(free))
    PROVE  /\ \A i \in 1 .. n : free[i] \in FreeSet /\ free[i] \notin FreeSet'
           /\ FreeSet' \subseteq FreeSet
           /\ \A i, j \in DOMAIN free' : free'[i] = free'[j] => i = j
<1>0. /\ DOMAIN free = 1 .. Len(free) /\ Len(free) \in Nat
      /\ DOMAIN free' = 1 .. Len(free) - n
      /\ \A i \in 1 .. Len(free) - n : free'[i] = free[i + n]
  OBVIOUS
<1>1. /\ \A i, j \in DOMAIN free' : free'[i] = free'[j] => i = j
      /\ \A i \in DOMAIN free' : \E j \in DOMAIN free : j > n /\ free'[i] = free[j]
  <2>1. \A i \in 1 .. Len(free) - n : i + n \in 1 .. Len(free) /\ i + n > n
    BY <1>0
  <2>2. \A i, j \in 1 .. Len(free) - n : i + n = j + n => i = j
    BY <1>0
  <2>3. ASSUME NEW i \in DOMAIN free', NEW j \in DOMAIN free', free'[i] = free'[j]
        PROVE  i = j
    <3>1. i \in 1 .. Len(free) - n /\ j \in 1 .. Len(free) - n /\ free[i + n] = free[j + n]
      BY <1>0, <2>3, Zenon
    <3>2. i + n \in DOMAIN free /\ j + n \in DOMAIN free
      BY <1>0, <2>1, <3>1, Zenon
    <3> QED  BY <2>2, <3>1, <3>2, Zenon
  <2>4. ASSUME NEW i \in DOMAIN free' PROVE \E j \in DOMAIN free : j > n /\ free'[i] = free[j]
    BY <1>0, <2>1, Zenon
  <2> QED  BY <2>3, <2>4, Zenon
<1>2. \A i \in 1 .. n : i \in DOMAIN free /\ \A j \in DOMAIN free : j > n => j # i
  OBVIOUS
<1> HIDE DEF FreeSet
<1>3. ASSUME NEW i \in 1 .. n PROVE free[i] \notin FreeSet'
  <2> SUFFICES ASSUME free[i] \in FreeSet' PROVE FALSE
    BY Zenon
  <2>1. PICK j \in DOMAIN free' : free'[j] = free[i]
    BY Zenon DEF FreeSet
  <2>2. PICK h \in DOMAIN free : h > n /\ free'[j] = free[h]
    BY <1>1, Zenon
  <2> QED  BY <1>2, <2>1, <2>2, Zenon
<1>4. ASSUME NEW i \in 1 .. n PROVE free[i] \in FreeSet
  BY <1>2, Zenon DEF FreeSet
<1>5. ASSUME NEW f \in FreeSet' PROVE f \in FreeSet
  <2>1. PICK j \in DOMAIN free' : free'[j] = f
    BY Zenon DEF FreeSet
  <2>2. PICK h \in DOMAIN free : f = free[h]
    BY <1>1, <2>1, Zenon
  <2> QED  BY <2>2, Zenon DEF FreeSet
<1> QED
  BY <1>1, <1>3, <1>4, <1>5, Zenon

\* MapPages has the effect MapsInto: every page of the range gets a frame of the free
\* list and nothing else is touched
LEMMA MapPagesEffect ==
    ASSUME free \in Seq(Frame), MemoryTyped, \A i, j \in DOMAIN free : free[i] = free[j] => i = j,
           NEW c \in Core, cr3[c] \in Frame, NEW slot \in Slot, NEW pages \in Seq(Page),
           pages # <<>>, LowerTable(c, slot) \notin FreeSet,
           NEW w \in BOOLEAN, NEW x \in BOOLEAN,
           Enough(c, slot, pages), MapPages(c, slot, pages, w, x)
    PROVE  \E t \in Frame : MapsInto(c, slot, pages, w, x, t)
<1> DEFINE missing == LowerTable(c, slot) = None
           t == IF missing THEN free[2] ELSE LowerTable(c, slot)
           n == FramesNeeded(c, slot, pages)
           place(p) == CHOOSE i \in DOMAIN pages : pages[i] = p
           frame(p) == free[Place(missing, place(p))]
<1>1. /\ Len(pages) \in Nat \ {0} /\ DOMAIN pages = 1 .. Len(pages)
      /\ n = IF missing THEN Len(pages) + 1 ELSE Len(pages)
      /\ n \in 0 .. Len(free) /\ free' = SubSeq(free, n + 1, Len(free))
  BY DEF Enough, FramesNeeded, MapPages
<1>2. /\ l4' = [l4 EXCEPT ![cr3[c]][slot] = t]
      /\ pt' = [pt EXCEPT ![t] = [p \in Page |->
                    IF p \in PagesOf(pages)
                    THEN [frame |-> frame(p), write |-> w, exec |-> x]
                    ELSE IF missing THEN None ELSE pt[t][p]]]
  BY Zenon DEF MapPages, Place
<1>3. ASSUME NEW p \in PagesOf(pages)
      PROVE  place(p) \in 1 .. Len(pages) /\ pages[place(p)] = p
  BY <1>1, Zenon DEF PagesOf
<1> HIDE DEF n, place
<1>4. /\ \A i \in 1 .. n : free[i] \in FreeSet /\ free[i] \notin FreeSet'
      /\ FreeSet' \subseteq FreeSet
      /\ \A i, j \in DOMAIN free' : free'[i] = free'[j] => i = j
  BY <1>1, TakesFrames, Zenon
<1>5. /\ \A i \in 1 .. Len(pages) : Place(missing, i) \in 1 .. n
      /\ \A i \in 1 .. Len(pages) : missing => Place(missing, i) # 2
      /\ \A i, j \in 1 .. Len(pages) : Place(missing, i) = Place(missing, j) => i = j
      /\ missing => 2 \in 1 .. n
  <2>1. missing \in BOOLEAN
    BY Zenon
  <2> HIDE DEF missing
  <2> QED  BY <1>1, <2>1, Places, Zenon
<1>6. \A i \in 1 .. n : i \in DOMAIN free /\ free[i] \in Frame
  <2>1. n \in 0 .. Len(free)
    BY <1>1, Zenon
  <2> QED  BY <2>1
<1>7. LowerTable(c, slot) \in Frame \cup {None} /\ t \in Frame
  BY <1>5, <1>6 DEF LowerTable, MemoryTyped
<1>8. \/ LowerTable(c, slot) = t /\ ~missing
      \/ missing /\ t = free[2] /\ t \in FreeSet \ FreeSet'
  BY <1>4, <1>5, Zenon
<1>9. ~missing => l4' = l4
  <2> HAVE ~missing
  <2>1. t = l4[cr3[c]][slot]
    BY Zenon DEF LowerTable
  <2> QED  BY <1>2, <2>1, Zenon DEF MemoryTyped
<1> HIDE DEF t
<1>10. ASSUME NEW p \in PagesOf(pages)
       PROVE  /\ frame(p) \in FreeSet /\ frame(p) \notin FreeSet' /\ frame(p) \in Frame
              /\ frame(p) # t
  <2>1. Place(missing, place(p)) \in 1 .. n
    BY <1>3, <1>5, Zenon
  <2>2. frame(p) \in FreeSet /\ frame(p) \notin FreeSet' /\ frame(p) \in Frame
    BY <1>4, <1>6, <2>1, ZenonT(60)
  <2>3. missing => frame(p) # free[2]
    BY <1>3, <1>5, <1>6, <2>1
  <2> QED  BY <1>8, <2>2, <2>3, Zenon
<1>11. ASSUME NEW p \in PagesOf(pages), NEW q \in PagesOf(pages), frame(p) = frame(q)
       PROVE  p = q
  <2>1. Place(missing, place(p)) = Place(missing, place(q))
    BY <1>3, <1>5, <1>6, <1>11, Zenon
  <2> QED  BY <1>3, <1>5, <2>1
<1>12. PagesOf(pages) \subseteq Page
  BY DEF PagesOf
<1> HIDE DEF frame, missing
<1>13. /\ pt'[t] = [p \in Page |->
                    IF p \in PagesOf(pages)
                    THEN [frame |-> frame(p), write |-> w, exec |-> x]
                    ELSE IF missing THEN None ELSE pt[t][p]]
       /\ pt' = [pt EXCEPT ![t] = pt'[t]]
  BY <1>2, <1>7, Zenon DEF MemoryTyped
<1>14. /\ \A p \in Page \ PagesOf(pages) : pt'[t][p] = IF missing THEN None ELSE pt[t][p]
       /\ \A p \in PagesOf(pages) : pt'[t][p] = [frame |-> frame(p), write |-> w, exec |-> x]
       /\ pt'[t] = [p \in Page |-> pt'[t][p]]
  BY <1>12, <1>13, Zenon
<1>15. ASSUME NEW p \in PagesOf(pages)
       PROVE  /\ pt'[t][p] \in Entry /\ pt'[t][p].frame = frame(p)
              /\ pt'[t][p].write = w /\ pt'[t][p].exec = x
  <2>1. pt'[t][p] = [frame |-> frame(p), write |-> w, exec |-> x] /\ frame(p) \in Frame
    BY <1>10, <1>14, Zenon
  <2> HIDE DEF Frame
  <2> QED  BY <2>1 DEF Entry
<1>16. pt[t] \in [Page -> Entry \cup {None}]
  BY <1>7, Zenon DEF MemoryTyped
<1>17. \A p \in Page \ PagesOf(pages) : pt'[t][p] \in Entry \cup {None}
  BY <1>14, <1>16, Zenon
<1>18. pt'[t] \in [Page -> Entry \cup {None}]
  BY <1>14, <1>15, <1>17, Zenon
<1>19. /\ \/ LowerTable(c, slot) = t /\ UNCHANGED l4
          \/ /\ LowerTable(c, slot) = None /\ t \in FreeSet \ FreeSet'
             /\ l4' = [l4 EXCEPT ![cr3[c]][slot] = t]
       /\ \A p \in Page \ PagesOf(pages) :
          pt'[t][p] = IF LowerTable(c, slot) = None THEN None ELSE pt[t][p]
  BY <1>2, <1>8, <1>9, <1>14, Zenon DEF missing
<1>20. \A p \in PagesOf(pages) :
          /\ pt'[t][p] \in Entry /\ pt'[t][p].write = w /\ pt'[t][p].exec = x
          /\ pt'[t][p].frame \in FreeSet \ FreeSet' /\ pt'[t][p].frame # t
  BY <1>10, <1>15, Zenon
<1>21. \A p, q \in PagesOf(pages) : pt'[t][p].frame = pt'[t][q].frame => p = q
  BY <1>11, <1>15, ZenonT(60)
<1>22. MapsInto(c, slot, pages, w, x, t)
  BY <1>4, <1>13, <1>18, <1>19, <1>20, <1>21, Zenon DEF MapsInto
<1> QED
  BY <1>7, <1>22, Zenon
================================================================================
