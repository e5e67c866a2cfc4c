------------------------------- MODULE KernelMain -------------------------------
(***************************************************************************)
(* What follows the boot on every core: main of common_main.rs up to the     *)
(* frame loop of core 0 and the writers of the others, with timer_test in    *)
(* the middle.  Each core has a local APIC timer (start_timer of apic.rs)    *)
(* whose interrupt calls the function in the core's local data.              *)
(*                                                                          *)
(* Interrupts are on from before the first barrier and an interrupt strikes  *)
(* between any two steps of its core.  The handler runs with interrupts off  *)
(* and touches nothing but its own core's data: it is one step.              *)
(***************************************************************************)
EXTENDS SmpBoot, Sequences

CONSTANTS
    TicksPerSecond, \* what init_timer measures over its own delay
    Mismeasured,    \* what it may measure over a delay another core cut into
    MaxU32,         \* u32::MAX
    Rounds          \* the interrupts timer_test waits for

\* the speed suits the shortest and the longest interval, in hundredths of a second; None
\* is neither a function nor a counter
ASSUME MainAssumption ==
    /\ TicksPerSecond \in Nat /\ Mismeasured \subseteq Nat \ {0}
    /\ MaxU32 \in Nat /\ Rounds \in Nat \ {0}
    /\ None \notin {"timer_interrupt", "new_frame"} /\ None \notin {<<n>> : n \in 0 .. Rounds}
    /\ (TicksPerSecond * 3) \div 100 >= 1
    /\ (TicksPerSecond * 20 * (ap_count + 1)) \div 100 <= MaxU32

VARIABLES
    apic,   \* the timer: masked or periodic, and is its interrupt requested or in service?
    apic_timer_interrupt_function,
    stuff   \* of the core local data: None, or the counters pushed

main_vars == <<apic, apic_timer_interrupt_function, stuff>>
all_vars == <<vars, main_vars>>

MainInit ==
    /\ Init
    /\ apic = [c \in Core |-> [lvt |-> "masked", requested |-> FALSE, in_service |-> FALSE]]
    /\ apic_timer_interrupt_function = [c \in Core |-> None]
    /\ stuff = [c \in Core |-> None]

boot_unchanged == UNCHANGED <<start, CORE_LOCAL, AP_TIMER_INIT_LOCK, pit>>
--------------------------------------------------------------------------------
\* app_test first: the applications of module Loader
main(c) ==
    /\ pc[c] = "main" /\ Goto(c, "sync")
    /\ boot_unchanged /\ UNCHANGED <<ret, sync, main_vars>>

AfterSync(c) ==
    CASE passed[c] \in {2, 4} -> "sync"
      [] passed[c] = 3 -> "stuff"
      [] passed[c] = 5 -> IF CORE_LOCAL[c].cpu_index = 0 THEN "start_timer" ELSE "writer"

\* sync_cores_barrier, twice before timer_test and twice after it
main_sync(c) ==
    /\ \/ pc[c] = "sync" /\ Barrier!Arrive(c) /\ Goto(c, "in_sync") /\ UNCHANGED ret
       \/ /\ \/ pc[c] = "in_sync" /\ Barrier!Pass(c)
             \/ pc[c] = "sync" /\ Barrier!ArriveAndPass(c)
          /\ Goto(c, AfterSync(c))
          /\ ret' = [ret EXCEPT ![c] = IF passed[c] = 5 THEN "frames" ELSE @]
    /\ boot_unchanged /\ UNCHANGED main_vars

\* Mutant: the counter is pushed when the timer already runs
timer_test_late(c) ==
    /\ \/ pc[c] = "stuff" /\ stuff' = [stuff EXCEPT ![c] = <<>>] /\ Goto(c, "start_timer")
          /\ ret' = [ret EXCEPT ![c] = "push"]
       \/ pc[c] = "push" /\ stuff' = [stuff EXCEPT ![c] = Append(@, 0)] /\ Goto(c, "wait")
          /\ UNCHANGED ret
       \/ pc[c] = "wait" /\ stuff[c][1] >= Rounds /\ Goto(c, "sync") /\ UNCHANGED <<stuff, ret>>
    /\ boot_unchanged /\ UNCHANGED <<sync, apic, apic_timer_interrupt_function>>

\* an empty Vec, a counter in it, the timer, and the loop that reads the counter
timer_test(c) ==
    /\ \/ pc[c] = "stuff" /\ stuff' = [stuff EXCEPT ![c] = <<>>] /\ Goto(c, "push")
          /\ UNCHANGED ret
       \/ pc[c] = "push" /\ stuff' = [stuff EXCEPT ![c] = Append(@, 0)] /\ Goto(c, "start_timer")
          /\ ret' = [ret EXCEPT ![c] = "wait"]
       \/ pc[c] = "wait" /\ stuff[c][1] >= Rounds /\ Goto(c, "sync") /\ UNCHANGED <<stuff, ret>>
    /\ boot_unchanged /\ UNCHANGED <<sync, apic, apic_timer_interrupt_function>>
--------------------------------------------------------------------------------
\* start_timer, which core 0 calls a second time before its frame loop

apic_timer_ticks_per_second(c) ==
    IF CORE_LOCAL[c].ticks = {c} THEN {TicksPerSecond} ELSE Mismeasured

interval(c) == IF ret[c] = "frames" THEN 3 ELSE 20 * (CORE_LOCAL[c].cpu_index + 1)

\* The function is in place before try_into and the assertion on the ticks may fail; the
\* callers unwrap the result.
start_timer(c) ==
    /\ pc[c] = "start_timer"
    /\ apic_timer_interrupt_function' =
          [apic_timer_interrupt_function EXCEPT
              ![c] = IF ret[c] = "frames" THEN "new_frame" ELSE "timer_interrupt"]
    /\ \E ticks_per_second \in apic_timer_ticks_per_second(c) :
          LET ticks_in_interval == (ticks_per_second * interval(c)) \div 100
          IN  Goto(c, IF ticks_in_interval \in 1 .. MaxU32 THEN "mask" ELSE "panic")
    /\ boot_unchanged /\ UNCHANGED <<ret, sync, apic, stuff>>

\* The vector is masked, then unmasked as periodic.  The divider and the initial count
\* follow, of which nothing depends here: a count may already be running.
start_timer_write(c) ==
    /\ \/ pc[c] = "mask" /\ apic' = [apic EXCEPT ![c].lvt = "masked"] /\ Goto(c, "unmask")
       \/ pc[c] = "unmask" /\ apic' = [apic EXCEPT ![c].lvt = "periodic"] /\ Goto(c, ret[c])
    /\ boot_unchanged /\ UNCHANGED <<ret, sync, apic_timer_interrupt_function, stuff>>

\* A count reaches zero: the one of start_timer, or the one init_timer left running.
\* A request that is still pending is not made twice.
timer_fires(c) ==
    /\ apic[c].lvt = "periodic" /\ ~apic[c].requested
    /\ apic' = [apic EXCEPT ![c].requested = TRUE]
    /\ UNCHANGED <<vars, apic_timer_interrupt_function, stuff>>

\* The callback of core 0's second timer asks for a frame (module Display); the one of
\* common_main.rs increments the counter, or panics for want of one.  The counter stops
\* at Rounds here.
callback_panics(c) ==
    apic_timer_interrupt_function[c] = "timer_interrupt" /\ stuff[c] \in {None, <<>>}

callback(c) ==
    stuff' = IF apic_timer_interrupt_function[c] = "timer_interrupt" /\ stuff[c][1] < Rounds
             THEN [stuff EXCEPT ![c] = <<@[1] + 1>>]
             ELSE stuff

\* Mutant: without signal_end_of_interrupt
timer_interrupt_no_eoi(c) ==
    /\ apic[c].requested /\ ~apic[c].in_service /\ ~callback_panics(c)
    /\ apic' = [apic EXCEPT ![c].requested = FALSE, ![c].in_service = TRUE]
    /\ callback(c)
    /\ UNCHANGED <<vars, apic_timer_interrupt_function>>

\* the callback, then the end of the interrupt
timer_interrupt(c) ==
    /\ apic[c].requested /\ ~apic[c].in_service
    /\ apic' = [apic EXCEPT ![c].requested = FALSE, ![c].in_service = callback_panics(c)]
    /\ IF callback_panics(c)
       THEN Goto(c, "panic") /\ UNCHANGED stuff
       ELSE callback(c) /\ UNCHANGED pc
    /\ boot_unchanged /\ UNCHANGED <<ret, sync, apic_timer_interrupt_function>>
--------------------------------------------------------------------------------
MainStep(c) ==
    main(c) \/ main_sync(c) \/ timer_test(c)
    \/ start_timer(c) \/ start_timer_write(c)

MainNext ==
    \/ Next /\ UNCHANGED main_vars
    \/ \E c \in Core : MainStep(c) \/ timer_fires(c) \/ timer_interrupt(c)

BootStep(c) == (IF c = BSP THEN BspStep \/ Step(BSP) ELSE ApStep(c) \/ Step(c)) /\ UNCHANGED main_vars

\* the cores keep executing, with interrupts on, and the PIT and the timers keep counting
MainSpec ==
    /\ MainInit /\ [][MainNext]_all_vars
    /\ WF_all_vars(pit_expire /\ UNCHANGED main_vars)
    /\ \A c \in Core : WF_all_vars(BootStep(c) \/ MainStep(c))
    /\ \A c \in Core : WF_all_vars(timer_fires(c)) /\ WF_all_vars(timer_interrupt(c))
--------------------------------------------------------------------------------
\* Whenever an interrupt of a core's timer may come, a function is there to be called,
\* and while that is timer_interrupt the counter it unwraps is there: neither a count
\* left running by init_timer nor a request made before core 0 starts its timer anew
\* finds less.
CallbackFindsCounter ==
    \A c \in Core :
        apic[c].requested \/ apic[c].lvt = "periodic" =>
            apic_timer_interrupt_function[c] # None /\ ~callback_panics(c)

Calibrated == \A c \in Core : passed[c] >= 2 /\ CORE_LOCAL[c].ticks = {c}

\* A machine that has booted with every timer calibrated over its own delay gets through
\* timer_test and its four barriers, to core 0's frame loop and the writers of the
\* others.  (A core with a wrong speed may fail in start_timer, and the others then
\* wait for it in the barrier.)
TimerTestEnds ==
    Calibrated ~> (pc[BSP] = "frames" /\ \A c \in AP : pc[c] = "writer")
================================================================================
