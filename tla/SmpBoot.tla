-------------------------------- MODULE SmpBoot --------------------------------
(***************************************************************************)
(* From apic::create on the bootstrap processor (BSP) to main on all cores: *)
(* kernel_main, init_smp, startup_aps, the trampoline ap.asm, ap_entry_fn,  *)
(* the calibration of the APIC timers against the one PIT of the machine,   *)
(* and the two barriers that end the boot.                                  *)
(*                                                                          *)
(* The startup IPIs may be lost.  The PIT is channel 2 of an 8254 in mode 0: *)
(* the mode byte and the first count byte stop it with its output low, the  *)
(* second count byte starts it.                                             *)
(***************************************************************************)
EXTENDS Integers, FiniteSets

CONSTANTS BSP, AP,     \* the cores; ACPI lists every AP that answers the IPIs
          StackPages,  \* KERNEL_STACK_SIZE in pages
          TimeOut,     \* polls of AP_STARTUP_DONE_COUNTER before init_smp gives up
          None

Core == AP \cup {BSP}
ap_count == Cardinality(AP)

ASSUME BootAssumption ==
    /\ IsFiniteSet(AP) /\ BSP \notin AP /\ None \notin Core \cup Nat
    /\ None \notin [cpu_index : Nat, ticks : SUBSET Core]
    /\ StackPages \in Nat \ {0} /\ TimeOut \in Nat \ {0}

VARIABLES
    pc, ret,                  \* next step of each core; where its pit::delay returns to
    AP_CORE_COUNTER, AP_STARTUP_DONE_COUNTER, time_out,
    null_page,                \* is page 0, which holds the trampoline, mapped?
    stack_pages,              \* pages mapped from KERNEL_AP_STACKS on, numbered from 0
    ap_index,                 \* the index an AP drew from AP_CORE_COUNTER
    CORE_LOCAL,               \* None, or cpu_index and the calibration of each core
    AP_TIMER_INIT_LOCK, pit,
    arrived, passed           \* sync_cores_barrier

start == <<AP_CORE_COUNTER, AP_STARTUP_DONE_COUNTER, time_out, null_page, stack_pages, ap_index>>
timer == <<ret, CORE_LOCAL, AP_TIMER_INIT_LOCK, pit>>
sync == <<arrived, passed>>
vars == <<pc, start, timer, sync>>

Barrier == INSTANCE Rendezvous

Init ==
    /\ pc = [c \in Core |-> IF c = BSP THEN "create" ELSE "off"]
    /\ ret = [c \in Core |-> None]
    /\ AP_CORE_COUNTER = 0 /\ AP_STARTUP_DONE_COUNTER = 0 /\ time_out = TimeOut
    /\ null_page = FALSE /\ stack_pages = {}
    /\ ap_index = [c \in AP |-> None]
    /\ CORE_LOCAL = [c \in Core |-> None]
    /\ AP_TIMER_INIT_LOCK = None
    /\ pit = [low |-> None, high |-> None, half |-> FALSE, counting |-> FALSE, out |-> FALSE]
    /\ Barrier!Init

Goto(c, label) == pc' = [pc EXCEPT ![c] = label]
--------------------------------------------------------------------------------
\* pit::delay, one step per port write; a count byte is known by its writer.

DelayThen(c, label) == Goto(c, "mode") /\ ret' = [ret EXCEPT ![c] = label]
InDelay(c) == pc[c] \in {"mode", "low", "high", "poll"}

pit_mode(c) ==
    /\ pc[c] = "mode" /\ Goto(c, "low")
    /\ pit' = [pit EXCEPT !.half = FALSE, !.counting = FALSE, !.out = FALSE]
    /\ UNCHANGED <<start, ret, CORE_LOCAL, AP_TIMER_INIT_LOCK, sync>>

set_data(c) ==
    pit' = IF pit.half
           THEN [pit EXCEPT !.high = c, !.half = FALSE, !.counting = TRUE]
           ELSE [pit EXCEPT !.low = c, !.half = TRUE, !.counting = FALSE, !.out = FALSE]

pit_count(c) ==
    /\ \/ pc[c] = "low" /\ Goto(c, "high")
       \/ pc[c] = "high" /\ Goto(c, "poll")
    /\ set_data(c)
    /\ UNCHANGED <<start, ret, CORE_LOCAL, AP_TIMER_INIT_LOCK, sync>>

\* the count runs out
pit_expire ==
    /\ pit.counting
    /\ pit' = [pit EXCEPT !.counting = FALSE, !.out = TRUE]
    /\ UNCHANGED <<pc, start, ret, CORE_LOCAL, AP_TIMER_INIT_LOCK, sync>>

wait_for_timeout(c) ==
    /\ pc[c] = "poll" /\ pit.out /\ ret[c] # "calibrated"
    /\ Goto(c, ret[c])
    /\ UNCHANGED <<start, timer, sync>>
--------------------------------------------------------------------------------
\* apic::init: the local timer runs for one PIT delay, whose length is told by the
\* cores that wrote the count that ran out.

\* Mutant: calibration without the lock
init_timer_lock_free(c) ==
    /\ pc[c] = "apic_init"
    /\ AP_TIMER_INIT_LOCK' = c
    /\ DelayThen(c, "calibrated")
    /\ UNCHANGED <<start, CORE_LOCAL, pit, sync>>

init_timer_lock(c) ==
    /\ pc[c] = "apic_init" /\ AP_TIMER_INIT_LOCK = None
    /\ AP_TIMER_INIT_LOCK' = c
    /\ DelayThen(c, "calibrated")
    /\ UNCHANGED <<start, CORE_LOCAL, pit, sync>>

\* Mutant: the lock is never released
init_timer_measure_keeps_lock(c) ==
    /\ pc[c] = "poll" /\ pit.out /\ ret[c] = "calibrated"
    /\ CORE_LOCAL' = [CORE_LOCAL EXCEPT ![c].ticks = {pit.low, pit.high}]
    /\ Goto(c, IF c = BSP THEN "init_smp" ELSE "enable")
    /\ UNCHANGED <<start, ret, AP_TIMER_INIT_LOCK, pit, sync>>

init_timer_measure(c) ==
    /\ pc[c] = "poll" /\ pit.out /\ ret[c] = "calibrated"
    /\ CORE_LOCAL' = [CORE_LOCAL EXCEPT ![c].ticks = {pit.low, pit.high}]
    /\ AP_TIMER_INIT_LOCK' = None
    /\ Goto(c, IF c = BSP THEN "init_smp" ELSE "enable")
    /\ UNCHANGED <<start, ret, pit, sync>>

\* A timer that has not counted at all: expect panics with the lock held.
init_timer_expect(c) ==
    /\ pc[c] = "poll" /\ pit.out /\ ret[c] = "calibrated"
    /\ Goto(c, "no_timer")
    /\ UNCHANGED <<start, timer, sync>>

initialize_own_core_local_data(c, index) ==
    CORE_LOCAL' = [CORE_LOCAL EXCEPT ![c] = [cpu_index |-> index, ticks |-> {}]]
--------------------------------------------------------------------------------
\* The bootstrap processor

kernel_main_create ==
    /\ pc[BSP] = "create" /\ Goto(BSP, "apic_init")
    /\ initialize_own_core_local_data(BSP, 0)
    /\ UNCHANGED <<start, ret, AP_TIMER_INIT_LOCK, pit, sync>>

stack_stride == StackPages + 1

\* a guard page below the pages of each stack
allocate_stacks ==
    stack_pages' = UNION {i * stack_stride + 1 .. i * stack_stride + StackPages : i \in 0 .. ap_count - 1}

\* init_smp up to the INIT command of startup_aps
init_smp_map ==
    /\ pc[BSP] = "init_smp"
    /\ allocate_stacks
    /\ null_page' = TRUE
    /\ pc' = [c \in Core |-> IF c = BSP THEN "mode" ELSE "wait_for_sipi"]
    /\ ret' = [ret EXCEPT ![BSP] = "sipi_1"]
    /\ UNCHANGED <<AP_CORE_COUNTER, AP_STARTUP_DONE_COUNTER, time_out, ap_index,
                   CORE_LOCAL, AP_TIMER_INIT_LOCK, pit, sync>>

\* a startup command wakes the cores it reaches; a core that runs ignores it
Startup(next) ==
    \E woken \in SUBSET {c \in AP : pc[c] = "wait_for_sipi"} :
        pc' = [c \in Core |-> IF c = BSP THEN next
                              ELSE IF c \in woken THEN "real_mode" ELSE pc[c]]

startup_aps_1 ==
    /\ pc[BSP] = "sipi_1" /\ Startup("mode")
    /\ ret' = [ret EXCEPT ![BSP] = "sipi_2"]
    /\ UNCHANGED <<start, CORE_LOCAL, AP_TIMER_INIT_LOCK, pit, sync>>

startup_aps_2 ==
    /\ pc[BSP] = "sipi_2" /\ Startup("wait_for_aps")
    /\ UNCHANGED <<start, timer, sync>>

\* Mutant: waits for the counter the trampoline increments
StillWaiting_core_counter == AP_CORE_COUNTER < ap_count /\ time_out > 0

StillWaiting == AP_STARTUP_DONE_COUNTER < ap_count /\ time_out > 0

init_smp_poll ==
    /\ pc[BSP] = "wait_for_aps" /\ StillWaiting
    /\ time_out' = time_out - 1
    /\ UNCHANGED <<pc, AP_CORE_COUNTER, AP_STARTUP_DONE_COUNTER, null_page, stack_pages,
                   ap_index, timer, sync>>

init_smp_unmap ==
    /\ pc[BSP] = "wait_for_aps" /\ ~StillWaiting
    /\ null_page' = FALSE
    /\ Goto(BSP, IF time_out = 0 THEN "panic" ELSE "enable")
    /\ UNCHANGED <<AP_CORE_COUNTER, AP_STARTUP_DONE_COUNTER, time_out, stack_pages,
                   ap_index, timer, sync>>
--------------------------------------------------------------------------------
\* An application processor in the trampoline, which page 0 must hold once paging is on

real_mode(c) ==
    /\ pc[c] = "real_mode" /\ null_page /\ Goto(c, "setup")
    /\ UNCHANGED <<start, timer, sync>>

\* Mutant: the increment is lost, as without the lock prefix
setup_lost_update(c) ==
    /\ pc[c] = "setup" /\ null_page /\ Goto(c, "jmp_entry")
    /\ ap_index' = [ap_index EXCEPT ![c] = AP_CORE_COUNTER]
    /\ UNCHANGED <<AP_CORE_COUNTER, AP_STARTUP_DONE_COUNTER, time_out, null_page,
                   stack_pages, timer, sync>>

setup(c) ==
    /\ pc[c] = "setup" /\ null_page /\ Goto(c, "jmp_entry")
    /\ ap_index' = [ap_index EXCEPT ![c] = AP_CORE_COUNTER]
    /\ AP_CORE_COUNTER' = AP_CORE_COUNTER + 1
    /\ UNCHANGED <<AP_STARTUP_DONE_COUNTER, time_out, null_page, stack_pages, timer, sync>>

jmp_entry(c) ==
    /\ pc[c] = "jmp_entry" /\ null_page /\ Goto(c, "ap_entry_fn")
    /\ UNCHANGED <<start, timer, sync>>

\* no IDT is loaded yet: a page fault resets the machine
triple_fault(c) ==
    /\ pc[c] \in {"real_mode", "setup", "jmp_entry"} /\ ~null_page /\ Goto(c, "fault")
    /\ UNCHANGED <<start, timer, sync>>

ap_entry_fn(c) ==
    /\ pc[c] = "ap_entry_fn" /\ Goto(c, "core_local_data")
    /\ AP_STARTUP_DONE_COUNTER' = AP_STARTUP_DONE_COUNTER + 1
    /\ UNCHANGED <<AP_CORE_COUNTER, time_out, null_page, stack_pages, ap_index, timer, sync>>

ap_core_local_data(c) ==
    /\ pc[c] = "core_local_data" /\ Goto(c, "apic_init")
    /\ initialize_own_core_local_data(c, ap_index[c] + 1)
    /\ UNCHANGED <<start, ret, AP_TIMER_INIT_LOCK, pit, sync>>
--------------------------------------------------------------------------------
\* Both kinds of core: interrupts on, then two barriers

\* Mutant: no barrier before main
enable_without_barrier(c) ==
    /\ pc[c] = "enable" /\ Goto(c, "main")
    /\ UNCHANGED <<start, timer, sync>>

enable(c) ==
    /\ pc[c] = "enable" /\ Goto(c, "barrier")
    /\ UNCHANGED <<start, timer, sync>>

sync_arrive(c) ==
    /\ pc[c] = "barrier" /\ Goto(c, "in_barrier")
    /\ Barrier!Arrive(c)
    /\ UNCHANGED <<start, timer>>

Past(c) == Goto(c, IF passed[c] = 0 THEN "barrier" ELSE "main")

sync_pass(c) ==
    /\ \/ pc[c] = "in_barrier" /\ Barrier!Pass(c)
       \/ pc[c] = "barrier" /\ Barrier!ArriveAndPass(c)
    /\ Past(c)
    /\ UNCHANGED <<start, timer>>

Step(c) ==
    \/ pit_mode(c) \/ pit_count(c) \/ wait_for_timeout(c)
    \/ init_timer_lock(c) \/ init_timer_measure(c) \/ init_timer_expect(c)
    \/ enable(c) \/ sync_arrive(c) \/ sync_pass(c)

ApStep(c) ==
    \/ real_mode(c) \/ setup(c) \/ jmp_entry(c) \/ triple_fault(c)
    \/ ap_entry_fn(c) \/ ap_core_local_data(c)

BspStep ==
    \/ kernel_main_create \/ init_smp_map \/ startup_aps_1 \/ startup_aps_2
    \/ init_smp_poll \/ init_smp_unmap

Next ==
    \/ BspStep \/ pit_expire
    \/ \E c \in Core : Step(c)
    \/ \E c \in AP : ApStep(c)

Spec == Init /\ [][Next]_vars

\* the cores keep executing and the PIT keeps counting
FairSpec ==
    /\ Spec
    /\ WF_vars(pit_expire)
    /\ WF_vars(BspStep \/ Step(BSP))
    /\ \A c \in AP : WF_vars(ApStep(c) \/ Step(c))
--------------------------------------------------------------------------------
Trampoline == {"real_mode", "setup", "jmp_entry"}
\* The page that holds the stack pointer the trampoline computes: KERNEL_AP_STACKS
\* + stack_stride - 1 + index * stack_stride, in pages
StackTop(c) == ap_index[c] * stack_stride + stack_stride - 1
Stack(c) == StackTop(c) - StackPages + 1 .. StackTop(c)

\* Whatever the order in which the APs reach the counter, each runs on pages that
\* allocate_stacks mapped, that no other AP uses, and below which a guard page lies.
OwnGuardedStack ==
    \A c \in AP : ap_index[c] # None =>
        /\ Stack(c) \subseteq stack_pages
        /\ StackTop(c) - StackPages \notin stack_pages
        /\ \A d \in AP \ {c} : ap_index[d] # None => Stack(c) \cap Stack(d) = {}

\* init_smp unmaps page 0 only once every AP is out of the trampoline, or after
\* giving up: no AP loses its code from under it in a boot that succeeds, and none
\* is left asleep.
AllApsStarted ==
    (pc[BSP] \in {"enable", "barrier", "in_barrier"} \/ passed[BSP] >= 2) =>
        \A c \in AP : pc[c] \notin Trampoline \cup {"off", "wait_for_sipi", "fault", "ap_entry_fn"}

\* A core in main may rely on every other: all have their core local data, with
\* cpu_index a numbering of the cores from 0, and a calibrated timer.
MainFindsAllReady ==
    (\E c \in Core : pc[c] = "main" \/ passed[c] >= 2) =>
        /\ \A c \in Core : CORE_LOCAL[c] # None /\ CORE_LOCAL[c].ticks # {}
        /\ {CORE_LOCAL[c].cpu_index : c \in Core} = 0 .. ap_count

\* AP_TIMER_INIT_LOCK keeps the calibrations apart: a core measures its own delay,
\* disturbed at most by the BSP's delay between the two startup commands.
OnlyStartupDisturbsCalibration ==
    \A c \in Core : CORE_LOCAL[c] # None => CORE_LOCAL[c].ticks \subseteq {c, BSP}

\* What init_timer takes for granted when it multiplies ticks_in_50ms by 20: the
\* delay it waited for is the one it asked the PIT for.
CalibratesOwnDelay ==
    \A c \in Core : CORE_LOCAL[c] # None => CORE_LOCAL[c].ticks \subseteq {c}

TimerDead == \E c \in Core : pc[c] = "no_timer"
BootOver == pc[BSP] = "panic" \/ TimerDead \/ \A c \in Core : passed[c] >= 2

\* The boot ends: with all cores in main, with the panic of a timed-out init_smp, or
\* with the panic of a core whose timer does not count.
BootEnds == <>BootOver

PitShared == \E c, d \in Core : c # d /\ InDelay(c) /\ InDelay(d)

\* init_smp either gets all cores into main or gives up by its time-out, unless a core
\* panics over its timer, and whenever no two cores are in pit::delay at the same time;
\* if they are, a PIT that was left with half a count may stop for ever.
BootEndsUnlessPitShared == []~PitShared => BootEnds
================================================================================
