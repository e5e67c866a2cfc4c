# A TLA+ model of Steelmind OS

Steelmind OS is a small x86_64 multicore kernel in Rust. This directory holds
TLA+ modules that model its state machines, TLC configurations that check them
on small instances, and TLAPS proofs for the frame allocator, the core barrier, the
start of the cores and `main` on them, the loader with its address spaces and the switch into an
application and back, the windows of the cores, and the double buffer with the panic
output. `PROJECT.json` maps every definition to the source lines it models and lists
runs, mutants, hazards and theorems.

## The system

| Part | Source | Module |
|---|---|---|
| Physical frame allocator: an intrusive linked list of free frames | `memory.rs` | `FrameAllocator`, abstract: `FramePool` |
| Building that list from the boot loader's memory map | `memory.rs` | `MemoryMap` |
| Address spaces, application loader | `memory.rs`, `loader.rs`, `common_main.rs` (`app_test`), `user_app/src/test.rs` | `Loader` |
| Entering and leaving an application: stacks and registers | `loader.rs` (assembly) | `ContextSwitch`, used by `Loader` |
| Kernel and user heap, growing on demand | `allocator.rs` | `HeapGrowth` |
| Start of the application processors (APs), timer calibration, PIT | `smp.rs`, `main.rs`, `apic.rs`, `pit.rs`, `ap.asm` | `SmpBoot` |
| `main` after the boot: barriers, `timer_test`, the timers and their interrupts | `common_main.rs`, `apic.rs`, `interrupts.rs` | `KernelMain`, on top of `SmpBoot` |
| Core barrier | `smp.rs` on `spin::Barrier` | `SpinBarrier`, abstract: `Rendezvous` |
| Ram disk: written by the build tool, checked and read by the kernel | `bootimage/src/main.rs`, `ram_disk.rs` | `RamDisk` |
| Text terminal on a window of the screen | `terminal_out.rs` | `Terminal` |
| Placement of the windows of the cores | `terminal_out.rs`, `common_main.rs` | `Windows` |
| Writers at work in those windows | `terminal_out.rs`, `common_main.rs` | `Screen`, composing `Windows` and `Terminal` |
| Double buffer, frame loop, panic output | `terminal_out.rs`, `common_main.rs`, `main.rs` | `Display` |
| All locks taken while others are held; logging; panics with locks held | `logging.rs`, `allocator.rs`, `memory.rs`, `serial.rs`, `terminal_out.rs`, `tester.rs`, `user_app/src/os_functions.rs` | `KernelLocks` |
| UART registers, interrupt tables, ELF parsing, build tool | rest | not modelled, see below |

How they meet: the boot processor (BSP) builds the free list (`MemoryMap` hands
over to `FrameAllocator`: property `HandsOverFreeList` is the state in which
`FrameAllocator` starts), maps AP stacks, starts the APs, and all cores meet in
the barrier before `main` (`SmpBoot` uses the abstract `Rendezvous`, which
`SpinBarrier` is shown and proved to implement). In `main` the cores run
applications (`Loader`, which enters and leaves them by `ContextSwitch`), test their
timers with the speeds the boot measured (`KernelMain` continues `SmpBoot`), then
divide the screen (`Windows`), write to their windows (`Terminal`, both together in
`Screen`) and let core 0 copy the back buffer to the screen (`Display`). The locks
they take on the way are the subject of `KernelLocks`.
Locks are the fair ticket locks of the `spin` crate (`Cargo.toml` selects them).

## Modules and code

**FrameAllocator.** `node[f]` is the `FreeNode` stored *in* frame `f`,
`free_memory_head` and the two counters are the fields of
`BootInfoFrameAllocator`. `allocate_frame`, `deallocate_frame` are its methods;
`allocate_frame_none` is the refused request; `Overwrite` lets the holder of a
frame overwrite the node left in it. `allocated`, `rank` and `result` are
auxiliary. `FramePool` is the promise: a set from which frames come and to which
they return.

**MemoryMap.** One step per iteration of `initialize_free_memory`, over every
choice of one or two regions and a ram disk, in units smaller than a page. The
ram disk starts on a page boundary, which is how the boot loader maps it; the code
computes its pages from the length alone and would miss the last one otherwise.

**Loader.** `MEMORY` is held for the whole of a mapping operation, so that is one
step; between the steps of `prepare_application` it is free. An L4 table has a
slot per region, leading to one table that stands for the three lower levels.
Out of memory is `Panic`: part of the range is mapped, the lock stays held and
every other core that needs it stops. `user_main` is the test program, which
counts its runs in a static variable. `cpu[c]` holds the registers and the words of
memory that `ContextSwitch` is about; `switch_stack_and_execute`, `user_main`,
`abort` and `leave_application` change them by its operators.

**ContextSwitch.** Each operator is the effect of a straight piece of code:
`execute` goes from the prologue of `switch_stack_and_execute` to the first
instruction of the program, `save_instruction_pointer_returns` and `abort_jumps` are
the two ways out, `resume` pops and returns. The compiler is assumed to save
`r12` and `r13`, which the assembly names as operands, and to keep nothing in a
register that a call may change: the assembly declares no clobbers. A program that
returns keeps the calling convention; one that aborts leaves anything in any register.
`execute` does not follow the registers that only carry operands into the assembly
(`rcx`, `r8`, `r12`): nobody reads them later.

**HeapGrowth.** `rescue` is the closure of `allocator.rs`; the buddy allocator
(splitting, merging) is external and modelled from its use.

**SmpBoot.** Program counters of BSP and APs through `kernel_main`, `init_smp`,
`startup_aps`, the trampoline and `ap_entry_fn`. `pit::set` is three port
writes (mode, low byte, high byte), each a step, because the BSP uses the PIT without
the lock the APs take. A startup command may fail to wake a core. The cores that
answer startup commands are assumed to be those ACPI lists, by which stacks and
barrier are sized.
`CORE_LOCAL[c].ticks` records whose count the PIT ran when `c` calibrated. A timer that
does not count at all makes `init_timer` panic with the lock held (`init_timer_expect`).

**KernelMain.** Extends `SmpBoot`: the program counters go on through `main`.
`timer_test`, `start_timer` (arithmetic and checks), `start_timer_write` (vector
masked, then unmasked) are steps of a core; `timer_fires` is its APIC timer and
`timer_interrupt` the handler with its callback, which may come between any two
steps. A core calibrated over its own delay has the speed `TicksPerSecond`, another
any of `Mismeasured`, one too low and one too high for `start_timer`. Times are in
hundredths of a second.

**SpinBarrier / Rendezvous.** Count and generation of `spin::Barrier` under its
lock, with the local generation of each waiting core.

**RamDisk.** `Image` of the build tool writes words of `WordSize` digits in base
`Base`; then at most `MaxFaults` digits change; then `assert_soundness` and
`get_file_slice` run on the result. The checksum detects a change of one digit.

**Terminal.** What each method of `TerminalWriter` does to the cursor, to the pixels
inked since the current line began (`now`) and to those left from earlier lines
(`old`), as operators on a writer.

**Windows.** `WindowInfo::new`, `from_placement` and the placement of
`get_window_info_for_core`, for every core of every number of APs.

**Display.** Every lock is a queue. A window is two rows, drawn and copied one at
a time. The panic handler runs with the locks its core holds. Contents are kept
for the windows in `Kept` (those for which a property speaks about tearing). Between
its test of `NEW_FRAME_REQUESTED` and `hlt` core 0 is at a label of its own, where an
interrupt sets the flag and does not keep it from falling asleep.

**Screen.** The actions of `Windows`, and one writer that works in the window it gets:
`TERM` from when core 1 moves it, or the `local_writer` of any other core. Whose
writer is followed is chosen at the start, so what is shown holds for each. Windows
have room for a line and a character of every font (`ScreenAssumption`); smaller ones
are outside the model.

**KernelLocks.** A function is the sequence of its lock operations (`log`, `rescue`,
`set_window_info`, `panic_handler`, ...), a call is the callee's sequence inside the
caller's, and `code[c]` is what core `c` has still to do. Cores call what `main` and the
functions below it call, in any order. `panic` replaces the code of a core that
runs, at any point and with any locks held, by the panic handler. Locks that are
only ever held alone (`ACPI`, the reading half of `SERIAL`) are left out.

## Runs

| Run | Bounds | Shows |
|---|---|---|
| `frame_allocator` | 3 frames, any overwriting | the list is exactly the free frames (`ListIsFreeFrames`, `ListRanked`), counters are exact (`UtilizationExact`), refinement of `FramePool` (`ImplementsPool`) |
| `memory_map` | pages of 3 units, 13 units of memory, up to 2 regions | no unusable or ram disk frame is listed, none is lost, the list is linked |
| `loader` | 2 cores, 2 applications of 2 segments prepared by either core, 2 runs each, 7 or 13 free frames | a frame has one use, the kernel half is shared, programs run in their own address space, exit codes 0 and then 42, no page both writable and executable, `run` gives its caller the registers back (`RunReturnsToCaller`) |
| `heap_growth` | pages of 4 words, heap of 64, 4 live blocks | blocks tile the heap, pages are mapped once, one growth is enough |
| `barrier` | 4 cores, 6 calls | nobody passes early, all get through, refinement of `Rendezvous` |
| `smp_boot` (module `KernelMain`) | 2 APs, 2 stack pages, 2 polls, 2 interrupts waited for in `timer_test` (the code: 5), 3 speeds | own guarded stacks, nobody left behind, `main` finds all cores ready, interrupts find their counter (`CallbackFindsCounter`); the boot ends unless the PIT is shared, at worst with the panic of `init_smp` or of a core whose timer does not count; calibrated cores get through `timer_test` (`TimerTestEnds`) |
| `smp_boot_calibration` (module `SmpBoot`) | same, boot only | **violated:** an AP may calibrate with the BSP's delay |
| `ram_disk` | 3 files of up to 2 digits, 1 fault | an accepted image reads back as written; an undamaged one is refused only if sparse |
| `screen` | 3 widths, 2 heights, up to 9 APs, fonts 2 and 3, 2 pictures | windows are disjoint, and on the screen unless the number of APs is a multiple of 4; no writer draws where another may (`DrawsOwnPixels`), lines do not mix (`NoStaleInk`) |
| `windows_asserted` (module `Windows`) | 4 widths, 4 heights, up to 9 APs | **violated:** a window below the screen passes the assertions |
| `display` | 3 cores, up to 2 panics | locked output is not torn; every panic is printed, and what is on the screen while no push is under way stays there (a push that was past its check of the flag may still take a message away); without panics copies of the screen complete for ever |
| `kernel_locks` | 3 cores and 1 panic, or 2 and 2 | without a panic nobody waits for ever (`NoCircularWait`), a panic message is printed (`PanicIsShown`), the panic handler ends (`PanicHandlerEnds`) |

Why the bounds are enough to be interesting: three frames give a list with a
head, a middle and an end; a page of three units has every misalignment; two
APs race for index, lock and PIT, while the BSP is the third party; six barrier
calls reuse each generation several times; an application takes six frames and a
seventh for its heap, so with 13 frames two run at once and the last growth
fails, and with 7 every operation meets the end of memory; three cores give
every role `main` distinguishes (core 0, the one that writes under
`lock_back_buffer`, the one that uses `TERM` and ends as the remaining cores do);
64 words are sixteen pages, reached by repeated doubling; nine APs pass two
multiples of four; the resolutions give windows of one line and of several, so
that text wraps in both, and widths and heights that divide evenly and that do
not; in `timer_test` the second interrupt is the one that needs the first to have
been ended; three cores make every cycle of two or three that wait for one another,
and longer ones are excluded by the order in which the functions nest their locks:
`OUT_CONTIGUOUS`, a program's heap, `INNER_KERNEL_ALLOC`, `MEMORY`,
`SERIAL_WRITE_LOCK`, `TERM`, then `SERIAL` or `BACK_BUFFER_LOCK` and `SWAP_LOCK`. `loader` and `kernel_locks` use
symmetry of cores and of applications: no definition tells their members apart,
and their properties are all invariants.

Deadlock is checked where the model never stops (allocator).
The others stop: all barrier calls are made, a boot ends or a core panics, a window
is refused, an image is read, a core waits for a lock that is never released.

`RescueSuffices` and `RefusesOnlySparse` name the exception the code has: a first
request on an empty heap whose alignment exceeds a page and twice its size
still fails, and an image with many tiny files is refused by the bound on their
number. So do three others. `NoCircularWait` excepts a program that panics while it
prints: its panic handler prints too and waits for the `OUT_CONTIGUOUS` it holds
(no lock of the kernel is held then). `PanicIsShown` excepts panics with the serial
port locked, because the window of `EMERGENCY_PANIC_TERM`, made on first use,
prints to it. `PanicHandlerEnds` excepts panics with a lock of the log or of the
screen held, for which `log::error!` waits for ever; what it does claim is that
running out of memory with the heap and `MEMORY` locked, or a failed test that holds
`MEMORY`, still gets to the end (`exit_qemu` in the test build). `TimerTestEnds`
speaks of calibrated cores: with a speed measured over another core's delay
`start_timer` may fail, the core panics and all others stay in the barrier.

### Fairness

Safety runs have none. `barrier`: each core keeps executing inside
`sync_cores_barrier`. `smp_boot`: each core keeps executing, a running PIT
count expires, a periodic timer keeps firing and its interrupt is taken, since
`main` runs with interrupts on. `display`: each core keeps executing and the timer of core 0 is
periodic; waiting for a ticket lock needs no more, because tickets are served
in order. Panics, typed characters and lost startup commands are never assumed
to happen. All fairness is weak.

### Findings

- `terminal_out.rs:96` compares the lower edge of a window with the *width* of the
  screen; with eight APs the last window lies below a screen that is wider than high
  (`windows_asserted`).
- `smp.rs:138` waits with the PIT without `AP_TIMER_INIT_LOCK`; an AP that is already
  calibrating measures the wrong delay (`smp_boot_calibration`).

The same race has a second consequence: when it falls between the two count bytes,
the PIT (as its data sheet describes mode 0) stops at a first byte and waits for
another, and both cores poll for ever. `BootEndsUnlessPitShared` therefore carries
its condition; without it TLC finds this behaviour.

## Proofs

**FrameAllocatorProofs**, for every finite sequence `Usable` of distinct frames
(`UsableAssumption`) and a `None` that is no number (`NoneAssumption`). "The list
reaches exactly the free frames" speaks of reachability and is not inductive in
a first-order way, so the auxiliary variable `rank` numbers the listed frames from
the end: `ListRanked` says that the head has rank `free_frames`, that each node
names its own frame and leads to rank minus one, and that exactly the
allocated frames have rank 0. With the types and
`free_frames + Cardinality(allocated) = total_frames` it is inductive (`IInv`).
`Overwrite` preserves it since it touches only rank 0. From it follow `TypeCorrect`,
`ListStaysRanked`, `UtilizationIsExact` and `ListImplementsPool` (refinement, one step
per action).

**SpinBarrierProofs**, for any finite non-empty set of cores and any `MaxSyncs`.
`GenerationsAgree` relates count, generation and the position of each core: the
count is the number of cores waiting in the current generation, and a core that waits
with an old generation has been let through. With the types it is inductive.
`CountsWaiters`, `BarrierSeparates` (`NobodyPassesEarly`) and
`BarrierImplementsRendezvous` follow.

**SmpBootProofs**, for any finite set of APs, any stack size and time-out, and any loss
of startup commands (`BootAssumption`: the BSP is none of the APs, and `None` is no
core, number or core local data; `MainAssumption`: the measured speed suits the intervals,
and `None` is neither a function nor a counter). Four theorems are about `Spec` of
`SmpBoot`, which ends with the cores in `main`. Each property depends on where the cores
are, so `IInv` ties the state to the program counters, in conjuncts that are shown one
at a time:

- `Quiet`, `Mapped`: no AP runs before the INIT command, and the stacks are mapped by then;
- `Drawing`, `Indices`: an AP has an index from `setup` on, and as many different ones
  below `AP_CORE_COUNTER` are drawn as it says;
- `HasData`, `Numbered`: core local data precedes the calibration, which completes it, and
  `cpu_index` follows from the index;
- `Delays`, `Locking`, `Measured`: a calibrating core holds `AP_TIMER_INIT_LOCK`, hence
  nobody but the BSP writes to the PIT behind its mode byte;
- `Counted`, `Barriers`: `AP_STARTUP_DONE_COUNTER` counts the APs in `ap_entry_fn` or
  later, and nobody passes the first barrier before all have come to it.

`StacksAreOwnAndGuarded` adds the arithmetic of the stack areas (`Strides`).
`PageZeroOutlivesTrampoline` follows because a counter that has reached the number of
APs counts all of them. `BootIsComplete` needs a counting argument: as many different
indices as there are APs leave no number out. `CalibrationIsExclusive` is a conjunct
of `IInv`.

The last part is about `MainSpec` of `KernelMain`, as the run `smp_boot` is. `IInv` is stated so
that a core in `main`, wherever it is there, leaves it alone (`MainKeepsBoot`): hence
`BootOutlivesMain`, the four properties in a system that goes on. `Paced` says how many
barriers a core is past at each place of `main`; without it a core might come to `timer_test`
a second time and empty the vector under a running timer. `Armed` says that the timer of a
core is silent until the counter is pushed, and that the function is stored before the
timer is unmasked. `MainInv`, all of these together, is inductive, and
`CallbackFindsCounterTheorem` follows for interrupts at any time, with timers of any
measured speed.

**LoaderProofs**, **LoaderMemoryProofs**, **LoaderImageProofs**, each on top of the one
before, for any sets of cores and applications, any list of segments, stack and heap
pages, any number of free frames and any `MaxRuns`. The assumptions: `None` is no
frame, core, application or table entry (`LoaderAssumption`); there is a segment and a
stack page, and segments have pages (`PagesAssumption`); segments, stack and heap of a
program do not overlap, and its static `COUNTER` lies in a segment
(`ImageAssumption`, what the linker and the constants of the kernel give; otherwise
`map_to` would report a page as already mapped). A core that runs out of memory
anywhere, and keeps `MEMORY` locked, is part of all of it.

*Registers and control.* `ExecuteSaves` says what `execute` leaves in memory; with it
`SwitchRestores` shows, for any place of stacks and core local data that keeps them
apart (`SwitchAssumption`, `HasRoom`), that both ways out go on behind `call {sip}` and
that `resume` gives the caller the exit code and its registers back, for every content of
the registers, provided the program left the words of `Untouched` alone: what was
pushed on the kernel stack, the two fields of the core local data and the return
address above its own frames. `Control` ties the variables of the loader to where the
cores are: who owns an application and how far it is (`Ownership`), which table is
active (`Spaces`), when `running_application_data` is set (`CoreData`), that loops and
heaps stay in their ranges (`Ranges`). `RunsInOwnAddressSpaceTheorem` follows.
`RunReturnsToCallerTheorem` needs more than it states (`Registers`): that a core inside
an application has just what `execute` leaves of a caller's machine, and that one on its
way out gets the caller's machine by `resume`; `SwitchRestores` is the step from the one
to the other.

*Page tables.* Every step that maps is first reduced to its effect (`MapsInto`: new
pages get frames that were free and are not any more, a missing lower table one more;
`Protects` and `Creates` for the other two). `MInv` is inductive together with
`Control`: `OneUse` is `FrameHasOneUse` element by element; `Filling` says that the pages
whose flags `protect_segment` changes are mapped, without which it might take an
absent entry for a frame; `KernelHalf` that every L4 table leads to the tables of the
boot in the kernel's half, which is why a page one core maps for the kernel heap is
there for all cores. `FrameHasOneUseTheorem`, `KernelHalfSharedTheorem` and the action
property `NothingUnmappedTheorem` follow.

*Images.* Because no two applications share a table of the user's half
(`ImagesApart`, from `OneUse`), a step changes the image of at most the application its
core works for. `Images` follows the segments through `map_segment`, `fill_segment` and
`protect_segment`: those before `seg[c]` are loaded with their flags, the current one may
be writable and executable. It gives `PreparedImageTheorem`. `Counting` follows
`COUNTER`: 0 once its segment is filled, the number of runs before `user_main` counts
and one more after, with the exit code in `rax` on the way back. It gives
`ExitCodesTheorem`; the counter of one application and the memory another fills or writes
are in different frames by `FrameHasOneUse`.

**DisplayProofs**, for one AP or more and any number of panics, at the labels of
`panic` (the middle of every drawing, and the allocation of the back buffer), with
contents kept for either window (`DisplayAssumption`). The steps of the model are first reduced
to a few effects on queues, buffers and labels (`Shape`), and the invariant is proved
from those. A lock is a queue in which a core may wait behind
itself, so the invariant speaks of the first ticket of a queue and of a second one of
the same core (`First`, `Again`). `Locking` says which locks a core has at a label. The
heart is `BackRows`: when the window of `TERM` is torn in the back buffer, the core to
blame still has `TERM`, be it because it is about to draw the lower row or because it
panicked in between and now waits for itself; so core 0 does not get to copy.
`FrontRows` says that what core 0 has copied so far still is what the back buffer has.
`NoTearingTheorem` follows. `PanicStaysTheorem` needs only that a message on the screen,
or a core on its way to print one, means that `PANICKED_STOP_PRINTING` is set (`Told`).

**WindowsProofs**, for every set of resolutions and any number of cores. `IInv` says
that a core that has a window has the one of its cell of the grid, and that `TERM` has
the whole screen or cell 0. The rest is arithmetic: the edges of the cells are
monotone because integer division is (`DivMonotone`), two cells differ in row or
column (`CellIndex`), so they are apart (`CellsDisjoint`), and the last row ends on
the screen if the number of APs is not a multiple of four (`LastCell`), where the screen
is not higher than wide: on a higher one the assertion may panic. From it
follow `WindowsStayDisjoint` and `WindowsStayOnScreen`.

Only model-checked:

- all liveness (`EveryoneGetsThrough`, `BootEndsUnlessPitShared`, `TimerTestEnds`,
  `PanicReported`, `FramesKeepComing`), which is beyond the prover;
- what is defined by recursion, or is computed by a fold or a filter over a sequence and
  so needs induction over data: `ListIsFreeFrames` (a walk along the list; its provable
  form is `ListRanked`), `MemoryMap` (the frames that a loop over all regions lists),
  `HeapGrowth` (the buddy allocator), `RamDisk` (words and checksums), `Screen` and
  `Terminal` (text drawn character by character);
- `KernelLocks`: its properties follow chains of waiting cores to their end, by a
  recursive function over sequences of lock operations.

## Not modelled

- The registers of the UART and the polling of its status: pure I/O, and what the
  device answers when is nothing the code bounds. The locks around it are in
  `KernelLocks`; that reader and writer clear each other's error bits is a hazard
  with a note.
- IDT, GDT, TSS and PIC: tables and writes made once. Exceptions are panics in
  `KernelLocks`, the timer interrupt is in `KernelMain`.
- A second panic inside the panic callback; `stop_timer`, which nobody calls.
- ACPI parsing (reduced to the number of APs), the bits of interrupt commands, PAT and
  frame buffer caching: hardware configuration without later state.
- ELF parsing, glyphs, colours, log levels, the build tool's process handling.
- Kernel tests: straight code that calls what is modelled and reports.
- `allocator_fail_test` and the parts of `main` that are commented out.
