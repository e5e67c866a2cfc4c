----------------------------- MODULE SmpBootProofs -----------------------------
(***************************************************************************)
(* The safety properties of SmpBoot and KernelMain for any number of        *)
(* application processors and any stack size, whichever startup commands    *)
(* get lost.                                                                *)
(*                                                                          *)
(* None of the properties is inductive: each depends on where the cores     *)
(* are.  The lemmas of the first part say between which labels a step of    *)
(* the boot moves which core; the second part takes the conjuncts of the    *)
(* inductive invariant IInv one at a time; the third derives the properties *)
(* from it.  The last part goes on through main with its timers.            *)
(***************************************************************************)
EXTENDS KernelMain, FiniteSetTheorems, TLAPS

PitCore == Core \cup {None}
LocalData == [cpu_index : Nat, ticks : SUBSET Core]

\* where pit::delay and start_timer return to
Returns == {None, "calibrated", "sipi_1", "sipi_2", "wait", "frames"}

Typed ==
    /\ pc = [c \in Core |-> pc[c]]
    /\ ret \in [Core -> Returns]
    /\ AP_CORE_COUNTER \in Nat /\ AP_STARTUP_DONE_COUNTER \in Nat /\ time_out \in Nat
    /\ ap_index \in [AP -> Nat \cup {None}]
    /\ CORE_LOCAL \in [Core -> LocalData \cup {None}]
    /\ pit \in [low : PitCore, high : PitCore, half : BOOLEAN, counting : BOOLEAN, out : BOOLEAN]
    /\ arrived \in [Core -> Nat] /\ passed \in [Core -> Nat]

\* The BSP has not yet sent the INIT command: no AP has done anything
Calibrating(c) == InDelay(c) /\ ret[c] = "calibrated"
Early == pc[BSP] \in {"create", "apic_init", "init_smp"} \/ Calibrating(BSP)
Quiet == Early => \A c \in AP : pc[c] = "off"

\* Only a calibration and the BSP between its commands wait for the PIT
Delays ==
    /\ \A c \in AP : InDelay(c) => ret[c] = "calibrated"
    /\ InDelay(BSP) => ret[BSP] \in {"calibrated", "sipi_1", "sipi_2"}

\* what allocate_stacks maps
AllStacks == UNION {i * stack_stride + 1 .. i * stack_stride + StackPages : i \in 0 .. ap_count - 1}
Mapped == (\E c \in AP : pc[c] # "off") => stack_pages = AllStacks

\* Where an AP has no index yet, and where it is not yet counted as started
Undrawn == {"off", "wait_for_sipi", "real_mode", "setup"}
Unstarted == Undrawn \cup {"jmp_entry", "ap_entry_fn", "fault"}

Drawn == {c \in AP : ap_index[c] # None}
Drawing ==
    \A c \in AP : /\ pc[c] \in Undrawn => ap_index[c] = None /\ CORE_LOCAL[c] = None
                  /\ pc[c] \notin Undrawn \cup {"fault"} => ap_index[c] # None
Indices ==
    /\ Cardinality(Drawn) = AP_CORE_COUNTER
    /\ \A c \in Drawn : ap_index[c] < AP_CORE_COUNTER
    /\ \A c, d \in Drawn : c # d => ap_index[c] # ap_index[d]

\* The core local data is there when the calibration begins, and complete after it
\* unless the measurement has failed
Uncalibrated == Unstarted \cup {"create", "core_local_data", "apic_init", "no_timer"}
Ready(c) == CORE_LOCAL[c] \in LocalData /\ CORE_LOCAL[c].ticks # {}
HasData ==
    \A c \in Core :
        /\ pc[c] = "apic_init" \/ Calibrating(c) => CORE_LOCAL[c] \in LocalData
        /\ pc[c] \notin Uncalibrated /\ ~Calibrating(c) => Ready(c)

\* cpu_index: 0 for the BSP, from 1 on in the order of the draws for the APs
Numbered ==
    /\ CORE_LOCAL[BSP] \in LocalData => CORE_LOCAL[BSP].cpu_index = 0
    /\ \A c \in AP : CORE_LOCAL[c] \in LocalData =>
           ap_index[c] \in Nat /\ CORE_LOCAL[c].cpu_index = ap_index[c] + 1

\* who calibrates holds the lock
Locking == \A c \in Core : Calibrating(c) => AP_TIMER_INIT_LOCK = c

\* What a calibrating core finds in the PIT after its own mode byte
Measured ==
    \A c \in Core : Calibrating(c) /\ pc[c] # "mode" =>
        /\ pit.half => pit.low \in {c, BSP}
        /\ pit.counting \/ pit.out => pit.low \in {c, BSP} /\ pit.high \in {c, BSP}

\* where a core is from main on, and where the BSP is once the wait of init_smp has succeeded
InMain == {"main", "sync", "in_sync", "stuff", "push", "start_timer", "mask", "unmask", "wait",
           "frames", "writer"}
Late == {"enable", "barrier", "in_barrier"} \cup InMain

\* the APs that AP_STARTUP_DONE_COUNTER counts
Started == {c \in AP : pc[c] \notin Unstarted}
Counted ==
    /\ Cardinality(Started) = AP_STARTUP_DONE_COUNTER
    /\ pc[BSP] \in Late \/ passed[BSP] > 0 => Started = AP

\* nobody is past the first barrier before all have come to it
Barriers ==
    /\ \A c \in Core : arrived[c] > 0 => pc[c] \in {"barrier", "in_barrier", "panic"} \cup InMain
    /\ \A c \in Core : pc[c] \in InMain \/ passed[c] > 0 => \A d \in Core : arrived[d] > 0

\* The BSP is none of the APs, and None is neither a core, an index nor core local data.
LEMMA Cores ==
    /\ BSP \in Core /\ AP \subseteq Core /\ BSP \notin AP
    /\ None \notin Core /\ None \notin Nat /\ None \notin LocalData
BY BootAssumption, Zenon DEF Core, LocalData

\* The state before kernel_main is typed.
LEMMA TypedInit == Init => Typed
<1> SUFFICES ASSUME Init PROVE Typed  BY Zenon
<1>1. pit \in [low : PitCore, high : PitCore, half : BOOLEAN, counting : BOOLEAN, out : BOOLEAN]
  BY Zenon DEF Init, PitCore
<1>2. arrived \in [Core -> Nat] /\ passed \in [Core -> Nat]  BY Zenon DEF Init, Barrier!Init
<1> QED  BY <1>1, <1>2, BootAssumption, Cores, Zenon DEF Init, Typed, Returns

\* Every step keeps the state typed; the counts of a measurement have writers because
\* the calibrating core wrote one, and an index is drawn before it is used.
LEMMA TypedStep ==
    ASSUME Typed, Delays, Drawing, HasData, Measured, [Next]_vars
    PROVE  Typed'
<1> USE Cores DEF Typed, Returns, Goto, start, timer, sync
<1>1. CASE kernel_main_create
  BY <1>1, Zenon DEF kernel_main_create, initialize_own_core_local_data, LocalData
<1>2. CASE init_smp_map
  BY <1>2, Zenon DEF init_smp_map
<1>3. CASE startup_aps_1
  BY <1>3, Zenon DEF startup_aps_1, Startup
<1>4. CASE startup_aps_2
  BY <1>4, Zenon DEF startup_aps_2, Startup
<1>5. CASE init_smp_poll
  BY <1>5 DEF init_smp_poll, StillWaiting
<1>6. CASE init_smp_unmap
  BY <1>6, Zenon DEF init_smp_unmap
<1>7. CASE pit_expire
  BY <1>7, Zenon DEF pit_expire
<1>8. ASSUME NEW c \in Core, pit_mode(c) PROVE Typed'
  BY <1>8, Zenon DEF pit_mode
<1>9. ASSUME NEW c \in Core, pit_count(c) PROVE Typed'
  BY <1>9, Zenon DEF pit_count, set_data, PitCore
<1>10. ASSUME NEW c \in Core, wait_for_timeout(c) PROVE Typed'
  BY <1>10, Zenon DEF wait_for_timeout, Core, Delays, InDelay
<1>11. ASSUME NEW c \in Core, init_timer_lock(c) PROVE Typed'
  BY <1>11, Zenon DEF init_timer_lock, DelayThen
<1>12. ASSUME NEW c \in Core, init_timer_measure(c) PROVE Typed'
  <2>1. CORE_LOCAL[c] \in LocalData /\ {pit.low, pit.high} \subseteq Core
    BY <1>12 DEF init_timer_measure, HasData, Measured, Calibrating, InDelay
  <2>2. [CORE_LOCAL[c] EXCEPT !.ticks = {pit.low, pit.high}] \in LocalData
    BY <2>1, Zenon DEF LocalData
  <2> QED  BY <1>12, <2>2, Zenon DEF init_timer_measure
<1>13. ASSUME NEW c \in Core, enable(c) \/ sync_arrive(c) \/ sync_pass(c) PROVE Typed'
  BY <1>13 DEF enable, sync_arrive, sync_pass, Past, Barrier!Arrive, Barrier!Pass,
               Barrier!ArriveAndPass
<1>14. ASSUME NEW c \in AP,
              real_mode(c) \/ setup(c) \/ jmp_entry(c) \/ triple_fault(c) \/ ap_entry_fn(c)
       PROVE  Typed'
  BY <1>14 DEF real_mode, setup, jmp_entry, triple_fault, ap_entry_fn
<1>15. ASSUME NEW c \in AP, ap_core_local_data(c) PROVE Typed'
  <2>0. ap_index[c] # None
    BY <1>15, Zenon DEF ap_core_local_data, Drawing, Undrawn
  <2>1. ap_index[c] + 1 \in Nat  BY <2>0
  <2>2. [cpu_index |-> ap_index[c] + 1, ticks |-> {}] \in LocalData  BY <2>1, Zenon DEF LocalData
  <2> QED  BY <1>15, <2>2, Zenon DEF ap_core_local_data, initialize_own_core_local_data
<1>16. ASSUME NEW c \in Core, init_timer_expect(c) PROVE Typed'
  BY <1>16, Zenon DEF init_timer_expect
<1>17. CASE UNCHANGED vars
  BY <1>17, Zenon DEF vars
<1> QED
  BY Zenon, <1>1, <1>2, <1>3, <1>4, <1>5, <1>6, <1>7, <1>8, <1>9, <1>10, <1>11, <1>12, <1>13,
     <1>14, <1>15, <1>16, <1>17 DEF Next, BspStep, Step, ApStep

--------------------------------------------------------------------------------
\* What the steps do to the program counters

PcTyped ==
    /\ pc = [c \in Core |-> pc[c]]
    /\ ret \in [Core -> Returns]

\* c goes from a label of one set to one of another
Moves(c, from, to) ==
    pc[c] \in from /\ pc'[c] \in to /\ \A d \in Core \ {c} : pc'[d] = pc[d]

\* a step on the PIT, or the panic after it
PitStep(c) == pit_mode(c) \/ pit_count(c) \/ init_timer_expect(c)

\* pit::delay writes its three bytes in order and touches nothing but the PIT; a failed
\* measurement ends the core behind it and touches nothing.
LEMMA PitMoves ==
    ASSUME PcTyped, NEW c \in Core, PitStep(c)
    PROVE  /\ Moves(c, {"mode", "low", "high", "poll"}, {"low", "high", "poll", "no_timer"})
           /\ UNCHANGED <<start, ret, CORE_LOCAL, AP_TIMER_INIT_LOCK, sync>>
BY Zenon DEF PcTyped, Moves, PitStep, pit_mode, pit_count, init_timer_expect, Goto, timer

\* Only the BSP, between its startup commands, returns from a delay that measures nothing.
LEMMA TimeoutMoves ==
    ASSUME PcTyped, Delays, NEW c \in Core, wait_for_timeout(c)
    PROVE  /\ c = BSP /\ ret[BSP] # "calibrated"
           /\ Moves(BSP, {"poll"}, {"sipi_1", "sipi_2"})
           /\ UNCHANGED <<start, timer, sync>>
BY Cores, Zenon DEF PcTyped, Delays, InDelay, Moves, wait_for_timeout, Goto, Core

\* init_timer takes the free AP_TIMER_INIT_LOCK before it enters pit::delay.
LEMMA LockMoves ==
    ASSUME PcTyped, NEW c \in Core, init_timer_lock(c)
    PROVE  /\ Moves(c, {"apic_init"}, {"mode"})
           /\ ret' = [ret EXCEPT ![c] = "calibrated"]
           /\ AP_TIMER_INIT_LOCK = None /\ AP_TIMER_INIT_LOCK' = c
           /\ UNCHANGED <<start, CORE_LOCAL, pit, sync>>
BY Zenon DEF PcTyped, Moves, init_timer_lock, DelayThen, Goto

\* init_timer stores the count of its own core and releases the lock.
LEMMA MeasureMoves ==
    ASSUME PcTyped, NEW c \in Core, init_timer_measure(c)
    PROVE  /\ Moves(c, {"poll"}, IF c = BSP THEN {"init_smp"} ELSE {"enable"})
           /\ ret[c] = "calibrated" /\ pit.out
           /\ CORE_LOCAL' = [CORE_LOCAL EXCEPT ![c].ticks = {pit.low, pit.high}]
           /\ AP_TIMER_INIT_LOCK' = None
           /\ UNCHANGED <<start, ret, pit, sync>>
BY Zenon DEF PcTyped, Moves, init_timer_measure, Goto

\* A core past its initialisation only goes from barrier to barrier.
LEMMA SyncMoves ==
    ASSUME PcTyped, NEW c \in Core, enable(c) \/ sync_arrive(c) \/ sync_pass(c)
    PROVE  /\ Moves(c, {"enable", "barrier", "in_barrier"}, {"barrier", "in_barrier", "main"})
           /\ UNCHANGED <<start, timer>>
BY Zenon DEF PcTyped, Moves, enable, sync_arrive, sync_pass, Past, Goto

\* A startup command moves the BSP on and wakes nothing but sleeping APs.
LEMMA StartupMoves ==
    ASSUME PcTyped, startup_aps_1 \/ startup_aps_2
    PROVE  /\ pc[BSP] \in {"sipi_1", "sipi_2"}
           /\ pc'[BSP] \in {"mode", "wait_for_aps"}
           /\ \A c \in AP : pc'[c] # pc[c] => pc[c] = "wait_for_sipi" /\ pc'[c] = "real_mode"
           /\ ret' = [ret EXCEPT ![BSP] = IF pc'[BSP] = "mode" THEN "sipi_2" ELSE @]
           /\ UNCHANGED <<start, CORE_LOCAL, AP_TIMER_INIT_LOCK, pit, sync>>
<1>1. CASE startup_aps_1
  <2>1. PICK woken \in SUBSET {c \in AP : pc[c] = "wait_for_sipi"} :
          pc' = [c \in Core |-> IF c = BSP THEN "mode"
                                ELSE IF c \in woken THEN "real_mode" ELSE pc[c]]
    BY <1>1, Zenon DEF startup_aps_1, Startup
  <2> QED  BY <1>1, <2>1, Cores, Zenon DEF startup_aps_1, PcTyped
<1>2. CASE startup_aps_2
  <2>1. PICK woken \in SUBSET {c \in AP : pc[c] = "wait_for_sipi"} :
          pc' = [c \in Core |-> IF c = BSP THEN "wait_for_aps"
                                ELSE IF c \in woken THEN "real_mode" ELSE pc[c]]
    BY <1>2, Zenon DEF startup_aps_2, Startup
  <2> QED  BY <1>2, <2>1, Cores, Zenon DEF startup_aps_2, PcTyped, timer
<1> QED  BY <1>1, <1>2, Zenon

\* kernel_main and the wait of init_smp move the BSP alone; it goes on to enable its
\* interrupts only when the wait ended before the time-out.
LEMMA BspMoves ==
    ASSUME PcTyped, kernel_main_create \/ init_smp_poll \/ init_smp_unmap
    PROVE  /\ \/ /\ Moves(BSP, {"create"}, {"apic_init"})
                 /\ CORE_LOCAL' = [CORE_LOCAL EXCEPT ![BSP] = [cpu_index |-> 0, ticks |-> {}]]
              \/ /\ Moves(BSP, {"wait_for_aps"}, {"wait_for_aps", "panic"})
                 /\ UNCHANGED CORE_LOCAL
              \/ /\ Moves(BSP, {"wait_for_aps"}, {"enable"})
                 /\ ~StillWaiting /\ time_out # 0
                 /\ UNCHANGED CORE_LOCAL
           /\ UNCHANGED <<ret, AP_TIMER_INIT_LOCK, pit, sync, stack_pages, ap_index,
                          AP_CORE_COUNTER, AP_STARTUP_DONE_COUNTER>>
<1> USE Cores DEF PcTyped, Moves, Goto, start, timer
<1>1. CASE kernel_main_create  BY <1>1, Zenon DEF kernel_main_create, initialize_own_core_local_data
<1>2. CASE init_smp_poll  BY <1>2, Zenon DEF init_smp_poll
<1>3. CASE init_smp_unmap  BY <1>3, Zenon DEF init_smp_unmap
<1> QED  BY <1>1, <1>2, <1>3, Zenon

\* Each step of ap.asm and ap_entry_fn moves one AP along its one path.
LEMMA ApMoves ==
    ASSUME PcTyped, NEW c \in AP, ApStep(c)
    PROVE  /\ \/ /\ \/ Moves(c, {"real_mode"}, {"setup"})
                    \/ Moves(c, {"jmp_entry"}, {"ap_entry_fn"})
                    \/ Moves(c, {"real_mode", "setup", "jmp_entry"}, {"fault"})
                 /\ UNCHANGED <<ap_index, AP_CORE_COUNTER, AP_STARTUP_DONE_COUNTER, CORE_LOCAL>>
              \/ /\ Moves(c, {"setup"}, {"jmp_entry"})
                 /\ ap_index' = [ap_index EXCEPT ![c] = AP_CORE_COUNTER]
                 /\ AP_CORE_COUNTER' = AP_CORE_COUNTER + 1
                 /\ UNCHANGED <<AP_STARTUP_DONE_COUNTER, CORE_LOCAL>>
              \/ /\ Moves(c, {"ap_entry_fn"}, {"core_local_data"})
                 /\ AP_STARTUP_DONE_COUNTER' = AP_STARTUP_DONE_COUNTER + 1
                 /\ UNCHANGED <<ap_index, AP_CORE_COUNTER, CORE_LOCAL>>
              \/ /\ Moves(c, {"core_local_data"}, {"apic_init"})
                 /\ CORE_LOCAL' = [CORE_LOCAL EXCEPT ![c] = [cpu_index |-> ap_index[c] + 1, ticks |-> {}]]
                 /\ UNCHANGED <<ap_index, AP_CORE_COUNTER, AP_STARTUP_DONE_COUNTER>>
           /\ UNCHANGED <<ret, AP_TIMER_INIT_LOCK, pit, sync, stack_pages>>
<1> USE Cores DEF PcTyped, Moves, Goto, start, timer
<1>1. CASE real_mode(c) \/ jmp_entry(c) \/ triple_fault(c)
  BY <1>1, Zenon DEF real_mode, jmp_entry, triple_fault
<1>2. CASE setup(c)  BY <1>2, Zenon DEF setup
<1>3. CASE ap_entry_fn(c)  BY <1>3, Zenon DEF ap_entry_fn
<1>4. CASE ap_core_local_data(c)  BY <1>4, Zenon DEF ap_core_local_data, initialize_own_core_local_data
<1> QED  BY <1>1, <1>2, <1>3, <1>4, Zenon DEF ApStep

\* init_smp maps the stacks before any AP can be woken.
LEMMA InitMoves ==
    ASSUME PcTyped, init_smp_map
    PROVE  /\ pc[BSP] = "init_smp" /\ pc'[BSP] = "mode"
           /\ \A c \in AP : pc'[c] = "wait_for_sipi"
           /\ ret' = [ret EXCEPT ![BSP] = "sipi_1"]
           /\ stack_pages' = AllStacks
           /\ UNCHANGED <<AP_CORE_COUNTER, AP_STARTUP_DONE_COUNTER, ap_index,
                          CORE_LOCAL, AP_TIMER_INIT_LOCK, pit, sync>>
BY Cores, Zenon DEF PcTyped, init_smp_map, allocate_stacks, AllStacks

\* Every step of Next is one of those, the expiry of the PIT, or leaves all as it is.
LEMMA StepCases ==
    ASSUME [Next]_vars
    PROVE  \/ init_smp_map
           \/ startup_aps_1 \/ startup_aps_2
           \/ kernel_main_create \/ init_smp_poll \/ init_smp_unmap
           \/ pit_expire
           \/ \E c \in Core : PitStep(c)
           \/ \E c \in Core : wait_for_timeout(c)
           \/ \E c \in Core : init_timer_lock(c)
           \/ \E c \in Core : init_timer_measure(c)
           \/ \E c \in Core : enable(c) \/ sync_arrive(c) \/ sync_pass(c)
           \/ \E c \in AP : ApStep(c)
           \/ UNCHANGED vars
BY Zenon DEF Next, BspStep, Step, PitStep
--------------------------------------------------------------------------------
\* No AP runs before the INIT command, and each delay knows where it returns to.
LEMMA QuietStep ==
    ASSUME PcTyped, Quiet, Delays, [Next]_vars
    PROVE  Quiet' /\ Delays'
<1> USE Cores DEF PcTyped, Quiet, Delays, Early, Calibrating, InDelay, Moves, Core, start, timer
<1>1. CASE init_smp_map  BY <1>1, InitMoves, Zenon
<1>2. CASE startup_aps_1 \/ startup_aps_2  BY <1>2, StartupMoves, Zenon
<1>3. CASE kernel_main_create \/ init_smp_poll \/ init_smp_unmap  BY <1>3, BspMoves, Zenon
<1>4. CASE pit_expire  BY <1>4, Zenon DEF pit_expire
<1>5. ASSUME NEW c \in Core, PitStep(c) PROVE Quiet' /\ Delays'
  BY <1>5, PitMoves, ZenonT(60)
<1>6. ASSUME NEW c \in Core, wait_for_timeout(c) PROVE Quiet' /\ Delays'
  BY <1>6, TimeoutMoves, Zenon
<1>7. ASSUME NEW c \in Core, init_timer_lock(c) PROVE Quiet' /\ Delays'
  <2>1. /\ pc[c] = "apic_init" /\ pc'[c] = "mode" /\ \A d \in Core \ {c} : pc'[d] = pc[d]
        /\ ret'[c] = "calibrated" /\ \A d \in Core \ {c} : ret'[d] = ret[d]
    BY <1>7, LockMoves, Zenon
  <2>2. CASE c = BSP  BY <2>1, <2>2, Zenon
  <2>3. CASE c # BSP  BY <2>1, <2>3, Zenon
  <2> QED  BY <2>2, <2>3, Zenon
<1>8. ASSUME NEW c \in Core, init_timer_measure(c) PROVE Quiet' /\ Delays'
  BY <1>8, MeasureMoves, ZenonT(60)
<1>9. ASSUME NEW c \in Core, enable(c) \/ sync_arrive(c) \/ sync_pass(c) PROVE Quiet' /\ Delays'
  BY <1>9, SyncMoves, Zenon
<1>10. ASSUME NEW c \in AP, ApStep(c) PROVE Quiet' /\ Delays'
  BY <1>10, ApMoves, Zenon
<1>11. CASE UNCHANGED vars  BY <1>11, Zenon DEF vars
<1> QED  BY <1>1, <1>2, <1>3, <1>4, <1>5, <1>6, <1>7, <1>8, <1>9, <1>10, <1>11, StepCases, Zenon

\* A core that calibrates holds AP_TIMER_INIT_LOCK.
LEMMA LockingStep ==
    ASSUME PcTyped, Delays, Locking, [Next]_vars
    PROVE  Locking'
<1> SUFFICES ASSUME NEW d \in Core, Calibrating(d)' PROVE AP_TIMER_INIT_LOCK' = d
  BY Zenon DEF Locking
<1>0. Calibrating(d) => AP_TIMER_INIT_LOCK = d  BY Zenon DEF Locking
<1> USE <1>0 DEF PcTyped, Calibrating, InDelay, Moves
<1>1. CASE init_smp_map  BY <1>1, InitMoves, Zenon DEF Core
<1>2. CASE startup_aps_1 \/ startup_aps_2  BY <1>2, StartupMoves, Cores, Zenon DEF Core
<1>3. CASE kernel_main_create \/ init_smp_poll \/ init_smp_unmap  BY <1>3, BspMoves, Cores, Zenon
<1>4. CASE pit_expire  BY <1>4, Zenon DEF pit_expire
<1>5. ASSUME NEW c \in Core, PitStep(c) PROVE AP_TIMER_INIT_LOCK' = d
  BY <1>5, PitMoves, Zenon
<1>6. ASSUME NEW c \in Core, wait_for_timeout(c) PROVE AP_TIMER_INIT_LOCK' = d
  BY <1>6, TimeoutMoves, Cores, Zenon DEF timer
<1>7. ASSUME NEW c \in Core, init_timer_lock(c) PROVE AP_TIMER_INIT_LOCK' = d
  BY <1>7, LockMoves, Cores
<1>8. ASSUME NEW c \in Core, init_timer_measure(c) PROVE AP_TIMER_INIT_LOCK' = d
  BY <1>8, MeasureMoves, Zenon DEF Locking
<1>9. ASSUME NEW c \in Core, enable(c) \/ sync_arrive(c) \/ sync_pass(c)
      PROVE  AP_TIMER_INIT_LOCK' = d
  BY <1>9, SyncMoves, Zenon DEF timer
<1>10. ASSUME NEW c \in AP, ApStep(c) PROVE AP_TIMER_INIT_LOCK' = d
  BY <1>10, ApMoves, Cores, Zenon
<1>11. CASE UNCHANGED vars  BY <1>11, Zenon DEF vars, timer
<1> QED  BY <1>1, <1>2, <1>3, <1>4, <1>5, <1>6, <1>7, <1>8, <1>9, <1>10, <1>11, StepCases, Zenon

\* The stacks stay mapped once the APs may run.
LEMMA MappedStep ==
    ASSUME PcTyped, Quiet, Delays, Mapped, [Next]_vars
    PROVE  Mapped'
<1>0. AllStacks' = AllStacks  BY Zenon DEF AllStacks
<1> USE <1>0, Cores DEF PcTyped, Mapped, Moves, Core, start
<1>1. CASE init_smp_map  BY <1>1, InitMoves, Zenon
<1>2. CASE startup_aps_1 \/ startup_aps_2  BY <1>2, StartupMoves, Zenon
<1>3. CASE kernel_main_create \/ init_smp_poll \/ init_smp_unmap  BY <1>3, BspMoves, Zenon
<1>4. CASE pit_expire  BY <1>4, Zenon DEF pit_expire
<1>5. ASSUME NEW c \in Core, PitStep(c) PROVE Mapped'
  BY <1>5, PitMoves, Zenon
<1>6. ASSUME NEW c \in Core, wait_for_timeout(c) PROVE Mapped'
  BY <1>6, TimeoutMoves, Zenon
<1>7. ASSUME NEW c \in Core, init_timer_lock(c) PROVE Mapped'
  BY <1>7, LockMoves, Zenon
<1>8. ASSUME NEW c \in Core, init_timer_measure(c) PROVE Mapped'
  BY <1>8, MeasureMoves, Zenon
<1>9. ASSUME NEW c \in Core, enable(c) \/ sync_arrive(c) \/ sync_pass(c) PROVE Mapped'
  BY <1>9, SyncMoves, Zenon
<1>10. ASSUME NEW c \in AP, ApStep(c) PROVE Mapped'
  BY <1>10, ApMoves, Zenon
<1>11. CASE UNCHANGED vars  BY <1>11, Zenon DEF vars
<1> QED  BY <1>1, <1>2, <1>3, <1>4, <1>5, <1>6, <1>7, <1>8, <1>9, <1>10, <1>11, StepCases, Zenon

\* An AP has its index from setup on, and none before.
LEMMA DrawingStep ==
    ASSUME Typed, Quiet, Delays, Drawing, [Next]_vars
    PROVE  Drawing'
<1> DEFINE Draws(c) == /\ pc[c] \in Undrawn => ap_index[c] = None /\ CORE_LOCAL[c] = None
                       /\ pc[c] \notin Undrawn \cup {"fault"} => ap_index[c] # None
<1> SUFFICES ASSUME NEW d \in AP PROVE Draws(d)'  BY Zenon DEF Drawing
<1>0. PcTyped /\ Draws(d) /\ d \in Core /\ d # BSP  BY Cores, Zenon DEF Typed, PcTyped, Drawing
<1> USE <1>0 DEF Moves, Undrawn, start
<1>1. CASE init_smp_map  BY <1>1, InitMoves, Zenon DEF Quiet, Early
<1>2. CASE startup_aps_1 \/ startup_aps_2  BY <1>2, StartupMoves, Zenon
<1>3. CASE kernel_main_create \/ init_smp_poll \/ init_smp_unmap  BY <1>3, BspMoves, Cores, Zenon DEF Typed
<1>4. CASE pit_expire  BY <1>4, Zenon DEF pit_expire
<1>5. ASSUME NEW c \in Core, PitStep(c) PROVE Draws(d)'
  BY <1>5, PitMoves, Zenon
<1>6. ASSUME NEW c \in Core, wait_for_timeout(c) PROVE Draws(d)'
  BY <1>6, TimeoutMoves, Zenon DEF timer
<1>7. ASSUME NEW c \in Core, init_timer_lock(c) PROVE Draws(d)'
  BY <1>7, LockMoves, Zenon
<1>8. ASSUME NEW c \in Core, init_timer_measure(c) PROVE Draws(d)'
  BY <1>8, MeasureMoves, Zenon DEF Typed
<1>9. ASSUME NEW c \in Core, enable(c) \/ sync_arrive(c) \/ sync_pass(c) PROVE Draws(d)'
  BY <1>9, SyncMoves, Zenon DEF timer
<1>10. ASSUME NEW c \in AP, ApStep(c) PROVE Draws(d)'
  <2>1. CASE c = d
    <3>1. AP_CORE_COUNTER # None  BY Cores, Zenon DEF Typed
    <3>2. pc[d] = "setup" /\ ap_index' = [ap_index EXCEPT ![c] = AP_CORE_COUNTER] =>
            ap_index'[d] # None
      BY <2>1, <3>1, Zenon DEF Typed
    <3> QED  BY <1>10, <2>1, <3>2, ApMoves, Zenon
  <2>2. CASE c # d  BY <1>10, <2>2, ApMoves, Zenon DEF Typed
  <2> QED  BY <2>1, <2>2, Zenon
<1>11. CASE UNCHANGED vars  BY <1>11, Zenon DEF vars, timer
<1> QED  BY <1>1, <1>2, <1>3, <1>4, <1>5, <1>6, <1>7, <1>8, <1>9, <1>10, <1>11, StepCases, Zenon

\* While a core calibrates nobody but the BSP writes to the PIT behind its mode byte:
\* any other writer would calibrate too, and need the lock.
LEMMA MeasuredStep ==
    ASSUME Typed, Delays, Locking, Measured, [Next]_vars
    PROVE  Measured'
<1> DEFINE Measures(c) == Calibrating(c) /\ pc[c] # "mode" =>
                 /\ pit.half => pit.low \in {c, BSP}
                 /\ pit.counting \/ pit.out => pit.low \in {c, BSP} /\ pit.high \in {c, BSP}
<1> SUFFICES ASSUME NEW d \in Core PROVE Measures(d)'  BY Zenon DEF Measured
<1>0. PcTyped /\ Measures(d)  BY Zenon DEF Typed, PcTyped, Measured
<1> USE <1>0 DEF Moves, Calibrating, InDelay
<1>1. CASE init_smp_map  BY <1>1, InitMoves, Cores, Zenon DEF Core, PcTyped
<1>2. CASE startup_aps_1 \/ startup_aps_2  BY <1>2, StartupMoves, Cores, Zenon DEF Core, PcTyped
<1>3. CASE kernel_main_create \/ init_smp_poll \/ init_smp_unmap  BY <1>3, BspMoves, Cores, Zenon
<1>4. CASE pit_expire  BY <1>4, Zenon DEF pit_expire, Typed
<1>5. ASSUME NEW c \in Core, PitStep(c) PROVE Measures(d)'
  <2>1. Moves(c, {"mode", "low", "high", "poll"}, {"low", "high", "poll", "no_timer"}) /\ ret' = ret
    BY <1>5, PitMoves, Zenon
  <2>2. Calibrating(c) => c = AP_TIMER_INIT_LOCK  BY Zenon DEF Locking
  <2>3. Calibrating(d) => d = AP_TIMER_INIT_LOCK  BY Zenon DEF Locking
  <2>4. InDelay(c)  BY <2>1, Zenon
  <2>5. c \in AP => Calibrating(c)  BY <2>4, Zenon DEF Delays
  <2>6. Calibrating(d) => c \in {d, BSP}  BY <2>2, <2>3, <2>5, Zenon DEF Core
  <2>7. Calibrating(d)' => Calibrating(d)  BY <2>1, Zenon
  <2>8. CASE pit_mode(c)  BY <2>1, <2>6, <2>7, <2>8, Zenon DEF pit_mode, Typed
  <2>9. CASE pit_count(c)
    <3>1. CASE pit.half  BY <2>1, <2>6, <2>7, <2>9, <3>1, Zenon DEF pit_count, set_data, Typed
    <3>2. CASE ~pit.half  BY <2>1, <2>6, <2>7, <2>9, <3>2, Zenon DEF pit_count, set_data, Typed
    <3> QED  BY <3>1, <3>2, Zenon
  <2>10. CASE init_timer_expect(c)
    BY <2>1, <2>7, <2>10, Zenon DEF init_timer_expect, PcTyped, Goto, timer
  <2> QED  BY <1>5, <2>8, <2>9, <2>10, Zenon DEF PitStep
<1>6. ASSUME NEW c \in Core, wait_for_timeout(c) PROVE Measures(d)'
  BY <1>6, TimeoutMoves, Cores, Zenon DEF timer
<1>7. ASSUME NEW c \in Core, init_timer_lock(c) PROVE Measures(d)'
  BY <1>7, LockMoves, Zenon DEF PcTyped
<1>8. ASSUME NEW c \in Core, init_timer_measure(c) PROVE Measures(d)'
  BY <1>8, MeasureMoves, Zenon
<1>9. ASSUME NEW c \in Core, enable(c) \/ sync_arrive(c) \/ sync_pass(c) PROVE Measures(d)'
  BY <1>9, SyncMoves, Zenon DEF timer
<1>10. ASSUME NEW c \in AP, ApStep(c) PROVE Measures(d)'
  BY <1>10, ApMoves, Cores, Zenon
<1>11. CASE UNCHANGED vars  BY <1>11, Zenon DEF vars, timer
<1> QED  BY <1>1, <1>2, <1>3, <1>4, <1>5, <1>6, <1>7, <1>8, <1>9, <1>10, <1>11, StepCases, Zenon

\* A measurement keeps cpu_index and is disturbed by none but the BSP.
LEMMA MeasureData ==
    ASSUME Typed, HasData, Measured, NEW c \in Core, init_timer_measure(c)
    PROVE  /\ CORE_LOCAL[c] \in LocalData /\ CORE_LOCAL'[c] \in LocalData
           /\ CORE_LOCAL'[c].cpu_index = CORE_LOCAL[c].cpu_index
           /\ CORE_LOCAL'[c].ticks # {} /\ CORE_LOCAL'[c].ticks \subseteq {c, BSP}
           /\ \A d \in Core \ {c} : CORE_LOCAL'[d] = CORE_LOCAL[d]
<1>1. /\ CORE_LOCAL[c] \in LocalData
      /\ pit.low \in {c, BSP} /\ pit.high \in {c, BSP}
  BY Zenon DEF init_timer_measure, HasData, Measured, Calibrating, InDelay
<1>2. [CORE_LOCAL[c] EXCEPT !.ticks = {pit.low, pit.high}] \in LocalData
  BY <1>1, Cores, Zenon DEF LocalData
<1>3. CORE_LOCAL' = [CORE_LOCAL EXCEPT ![c] = [CORE_LOCAL[c] EXCEPT !.ticks = {pit.low, pit.high}]]
  BY Zenon DEF init_timer_measure
<1>4. CORE_LOCAL'[c] = [CORE_LOCAL[c] EXCEPT !.ticks = {pit.low, pit.high}]
  BY <1>3, Zenon DEF Typed
<1>5. /\ CORE_LOCAL'[c].ticks = {pit.low, pit.high}
      /\ CORE_LOCAL'[c].cpu_index = CORE_LOCAL[c].cpu_index
  BY <1>1, <1>4, Zenon DEF LocalData
<1>6. \A d \in Core \ {c} : CORE_LOCAL'[d] = CORE_LOCAL[d]
  BY <1>3, Zenon DEF Typed
<1> QED  BY <1>1, <1>2, <1>4, <1>5, <1>6, Zenon

\* a step creates the core local data of d
Sets(d, index) ==
    /\ index \in Nat
    /\ CORE_LOCAL'[d] = [cpu_index |-> index, ticks |-> {}]

\* What a step may do to the core local data of a core: nothing, create it, or
\* complete it with a measurement.
LEMMA DataStep ==
    ASSUME Typed, Delays, Drawing, HasData, Measured, [Next]_vars, NEW d \in Core
    PROVE  \/ CORE_LOCAL'[d] = CORE_LOCAL[d]
           \/ d = BSP /\ pc[d] = "create" /\ Sets(d, 0)
           \/ /\ d \in AP /\ pc[d] = "core_local_data"
              /\ ap_index[d] \in Nat /\ Sets(d, ap_index[d] + 1)
           \/ /\ CORE_LOCAL[d] \in LocalData /\ CORE_LOCAL'[d] \in LocalData
              /\ CORE_LOCAL'[d].cpu_index = CORE_LOCAL[d].cpu_index
              /\ CORE_LOCAL'[d].ticks # {} /\ CORE_LOCAL'[d].ticks \subseteq {d, BSP}
<1>0. PcTyped  BY Zenon DEF Typed, PcTyped
<1>1. CASE kernel_main_create
  BY <1>1, Cores, Zenon DEF kernel_main_create, initialize_own_core_local_data, Sets, Typed
<1>2. CASE init_smp_map  BY <1>0, <1>2, InitMoves, Zenon
<1>3. CASE startup_aps_1 \/ startup_aps_2  BY <1>0, <1>3, StartupMoves, Zenon
<1>4. CASE init_smp_poll \/ init_smp_unmap  BY <1>4, Zenon DEF init_smp_poll, init_smp_unmap, timer
<1>5. CASE pit_expire  BY <1>5, Zenon DEF pit_expire
<1>6. CASE \E c \in Core : PitStep(c)  BY <1>0, <1>6, PitMoves, Zenon
<1>7. CASE \E c \in Core : wait_for_timeout(c)  BY <1>0, <1>7, TimeoutMoves, Zenon DEF timer
<1>8. CASE \E c \in Core : init_timer_lock(c)  BY <1>0, <1>8, LockMoves, Zenon
<1>9. CASE \E c \in Core : init_timer_measure(c)  BY Zenon, <1>9, MeasureData
<1>10. CASE \E c \in Core : enable(c) \/ sync_arrive(c) \/ sync_pass(c)
  BY <1>0, <1>10, SyncMoves, Zenon DEF timer
<1>11. ASSUME NEW c \in AP, ApStep(c), CORE_LOCAL'[d] # CORE_LOCAL[d]
       PROVE  /\ d \in AP /\ pc[d] = "core_local_data"
              /\ ap_index[d] \in Nat /\ Sets(d, ap_index[d] + 1)
  <2>1. /\ pc[c] = "core_local_data"
        /\ CORE_LOCAL' = [CORE_LOCAL EXCEPT ![c] = [cpu_index |-> ap_index[c] + 1, ticks |-> {}]]
    BY <1>0, <1>11, ApMoves, Zenon DEF Moves
  <2>2. c = d  BY <1>11, <2>1, Zenon DEF Typed
  <2>3. ap_index[c] # None  BY <2>1, Zenon DEF Drawing, Undrawn
  <2>4. ap_index[c] \in Nat  BY <2>3, Zenon DEF Typed
  <2>5. CORE_LOCAL'[c] = [cpu_index |-> ap_index[c] + 1, ticks |-> {}]  BY <2>1, <2>2, Zenon DEF Typed
  <2> QED  BY <2>1, <2>2, <2>4, <2>5 DEF Sets
<1>12. CASE UNCHANGED vars  BY <1>12, Zenon DEF vars, timer
<1> QED
  BY <1>1, <1>2, <1>3, <1>4, <1>5, <1>6, <1>7, <1>8, <1>9, <1>10, <1>11, <1>12, StepCases, Zenon

\* Fresh core local data has its index and no measurement.
LEMMA SetsData ==
    ASSUME NEW d, NEW i, Sets(d, i)
    PROVE  /\ CORE_LOCAL'[d] \in LocalData
           /\ CORE_LOCAL'[d].cpu_index = i /\ CORE_LOCAL'[d].ticks = {}
BY DEF Sets, LocalData

\* No step stores a measurement that another AP disturbed.
LEMMA DisturbedStep ==
    ASSUME Typed, Delays, Drawing, HasData, Measured, OnlyStartupDisturbsCalibration, [Next]_vars
    PROVE  OnlyStartupDisturbsCalibration'
<1> SUFFICES ASSUME NEW d \in Core, CORE_LOCAL'[d] # None
             PROVE  CORE_LOCAL'[d].ticks \subseteq {d, BSP}
  BY Zenon DEF OnlyStartupDisturbsCalibration
<1> QED  BY Zenon, DataStep, SetsData DEF OnlyStartupDisturbsCalibration

\* AP_CORE_COUNTER and the indices change together, in setup.
LEMMA CounterStep ==
    ASSUME Typed, Delays, [Next]_vars
    PROVE  \/ UNCHANGED <<ap_index, AP_CORE_COUNTER>>
           \/ \E d \in AP : /\ pc[d] = "setup"
                            /\ ap_index' = [ap_index EXCEPT ![d] = AP_CORE_COUNTER]
                            /\ AP_CORE_COUNTER' = AP_CORE_COUNTER + 1
<1>0. PcTyped  BY Zenon DEF Typed, PcTyped
<1>1. CASE init_smp_map  BY <1>0, <1>1, InitMoves, Zenon
<1>2. CASE startup_aps_1 \/ startup_aps_2  BY <1>0, <1>2, StartupMoves, Zenon DEF start
<1>3. CASE kernel_main_create \/ init_smp_poll \/ init_smp_unmap  BY <1>0, <1>3, BspMoves, Zenon
<1>4. CASE pit_expire  BY <1>4, Zenon DEF pit_expire, start
<1>5. CASE \E c \in Core : PitStep(c)  BY <1>0, <1>5, PitMoves, Zenon DEF start
<1>6. CASE \E c \in Core : wait_for_timeout(c)  BY <1>0, <1>6, TimeoutMoves, Zenon DEF start
<1>7. CASE \E c \in Core : init_timer_lock(c)  BY <1>0, <1>7, LockMoves, Zenon DEF start
<1>8. CASE \E c \in Core : init_timer_measure(c)  BY <1>0, <1>8, MeasureMoves, Zenon DEF start
<1>9. CASE \E c \in Core : enable(c) \/ sync_arrive(c) \/ sync_pass(c)
  BY <1>0, <1>9, SyncMoves, Zenon DEF start
<1>10. CASE \E c \in AP : ApStep(c)  BY <1>0, <1>10, ApMoves, Zenon DEF Moves
<1>11. CASE UNCHANGED vars  BY <1>11, Zenon DEF vars, start
<1> QED  BY <1>1, <1>2, <1>3, <1>4, <1>5, <1>6, <1>7, <1>8, <1>9, <1>10, <1>11, StepCases, Zenon

\* An AP keeps the index it has drawn.
LEMMA IndexStep ==
    ASSUME Typed, Delays, [Next]_vars, NEW d \in AP
    PROVE  pc[d] = "setup" \/ ap_index'[d] = ap_index[d]
BY CounterStep, Zenon DEF Typed

\* cpu_index is 0 on the BSP and one more than the drawn index on an AP.
LEMMA NumberedStep ==
    ASSUME Typed, Delays, Drawing, HasData, Measured, Numbered, [Next]_vars
    PROVE  Numbered'
<1>1. ASSUME CORE_LOCAL'[BSP] \in LocalData PROVE CORE_LOCAL'[BSP].cpu_index = 0
  BY Zenon, <1>1, DataStep, SetsData, Cores DEF Numbered
<1>2. ASSUME NEW d \in AP, CORE_LOCAL'[d] \in LocalData
      PROVE  ap_index'[d] \in Nat /\ CORE_LOCAL'[d].cpu_index = ap_index'[d] + 1
  <2>0. d \in Core /\ d # BSP  BY Cores, Zenon
  <2>1. ap_index[d] \in Nat /\ CORE_LOCAL'[d].cpu_index = ap_index[d] + 1
    BY Zenon, <1>2, <2>0, DataStep, SetsData DEF Numbered
  <2>2. pc[d] # "setup"  BY <2>1, Cores, Zenon DEF Drawing, Undrawn
  <2> QED  BY <2>1, <2>2, IndexStep, Zenon
<1> QED  BY <1>1, <1>2, Zenon DEF Numbered, LocalData

\* A core calibrates with core local data in place, and is calibrated afterwards.
LEMMA HasDataStep ==
    ASSUME Typed, Delays, Drawing, HasData, Measured, [Next]_vars
    PROVE  HasData'
<1> DEFINE Has(c) == /\ pc[c] = "apic_init" \/ Calibrating(c) => CORE_LOCAL[c] \in LocalData
                     /\ pc[c] \notin Uncalibrated /\ ~Calibrating(c) => Ready(c)
<1> SUFFICES ASSUME NEW d \in Core PROVE Has(d)'  BY Zenon DEF HasData
<1>0. PcTyped /\ Has(d) /\ LocalData' = LocalData  BY Zenon DEF Typed, PcTyped, HasData, LocalData
<1> USE <1>0, Cores DEF Moves, Calibrating, InDelay, Uncalibrated, Unstarted, Undrawn, Ready
<1>1. CASE init_smp_map  BY <1>1, InitMoves, Zenon DEF Core, PcTyped
<1>2. CASE startup_aps_1 \/ startup_aps_2  BY <1>2, StartupMoves, Zenon DEF Core, PcTyped
<1>3. CASE kernel_main_create \/ init_smp_poll \/ init_smp_unmap
  <2>1. CASE d = BSP
    <3>1. [cpu_index |-> 0, ticks |-> {}] \in LocalData  BY Zenon DEF LocalData
    <3> QED  BY <1>3, <2>1, <3>1, BspMoves, Zenon DEF Typed
  <2>2. CASE d # BSP  BY <1>3, <2>2, BspMoves, Zenon DEF Typed
  <2> QED  BY <2>1, <2>2, Zenon
<1>4. CASE pit_expire  BY <1>4, Zenon DEF pit_expire
<1>5. ASSUME NEW c \in Core, PitStep(c) PROVE Has(d)'
  BY <1>5, PitMoves, Zenon
<1>6. ASSUME NEW c \in Core, wait_for_timeout(c) PROVE Has(d)'
  BY <1>6, TimeoutMoves, Zenon DEF timer
<1>7. ASSUME NEW c \in Core, init_timer_lock(c) PROVE Has(d)'
  BY <1>7, LockMoves, Zenon DEF PcTyped
<1>8. ASSUME NEW c \in Core, init_timer_measure(c) PROVE Has(d)'
  <2>1. CASE c = d  BY Zenon, <1>8, <2>1, MeasureMoves, MeasureData
  <2>2. CASE c # d  BY <1>8, <2>2, MeasureMoves, MeasureData
  <2> QED  BY <2>1, <2>2, Zenon
<1>9. ASSUME NEW c \in Core, enable(c) \/ sync_arrive(c) \/ sync_pass(c) PROVE Has(d)'
  BY <1>9, SyncMoves, Zenon DEF timer
<1>10. ASSUME NEW c \in AP, ApStep(c) PROVE Has(d)'
  <2>1. CASE c = d
    <3>1. pc[d] = "core_local_data" => ap_index[d] \in Nat  BY <1>10, <2>1, Zenon DEF Drawing, Typed
    <3>2. ap_index[d] \in Nat => [cpu_index |-> ap_index[d] + 1, ticks |-> {}] \in LocalData
      BY DEF LocalData
    <3>3. CORE_LOCAL' = [CORE_LOCAL EXCEPT ![c] = [cpu_index |-> ap_index[c] + 1, ticks |-> {}]]
            => CORE_LOCAL'[d] = [cpu_index |-> ap_index[d] + 1, ticks |-> {}]
      BY <2>1, Zenon DEF Typed
    <3>4. /\ pc'[d] \in Unstarted \cup {"core_local_data", "apic_init"}
          /\ pc'[d] = "apic_init" => CORE_LOCAL'[d] \in LocalData
      BY <1>10, <2>1, <3>1, <3>2, <3>3, ApMoves, Zenon
    <3> QED  BY <3>4, Zenon
  <2>2. CASE c # d
    <3>1. pc'[d] = pc[d] /\ ret' = ret  BY <1>10, <2>2, ApMoves, Zenon
    <3>2. \/ CORE_LOCAL' = CORE_LOCAL
          \/ CORE_LOCAL' = [CORE_LOCAL EXCEPT ![c] = [cpu_index |-> ap_index[c] + 1, ticks |-> {}]]
      BY <1>10, ApMoves, Zenon
    <3>3. CORE_LOCAL'[d] = CORE_LOCAL[d]  BY <2>2, <3>2, Zenon DEF Typed
    <3> QED  BY <3>1, <3>3, Zenon
  <2> QED  BY <2>1, <2>2, Zenon
<1>11. CASE UNCHANGED vars  BY <1>11, Zenon DEF vars, timer
<1> QED  BY <1>1, <1>2, <1>3, <1>4, <1>5, <1>6, <1>7, <1>8, <1>9, <1>10, <1>11, StepCases, Zenon

\* As many indices are drawn as AP_CORE_COUNTER says, all below it, no two the same.
LEMMA IndicesStep ==
    ASSUME Typed, Delays, Drawing, Indices, [Next]_vars
    PROVE  Indices'
<1>1. CASE UNCHANGED <<ap_index, AP_CORE_COUNTER>>
  <2>1. Drawn' = Drawn  BY <1>1, Zenon DEF Drawn
  <2> QED  BY <1>1, <2>1, Zenon DEF Indices
<1>2. ASSUME NEW d \in AP, pc[d] = "setup",
             ap_index' = [ap_index EXCEPT ![d] = AP_CORE_COUNTER],
             AP_CORE_COUNTER' = AP_CORE_COUNTER + 1
      PROVE  Indices'
  <2>1. AP_CORE_COUNTER \in Nat /\ AP_CORE_COUNTER # None  BY Cores, Zenon DEF Typed
  <2>2. d \notin Drawn  BY <1>2, Zenon DEF Drawing, Undrawn, Drawn
  <2>3. Drawn' = Drawn \cup {d}  BY <1>2, <2>1, Zenon DEF Drawn, Typed
  <2>4. IsFiniteSet(Drawn)  BY BootAssumption, FS_Subset, Zenon DEF Drawn
  <2>5. Cardinality(Drawn') = AP_CORE_COUNTER'
    BY <1>2, <2>2, <2>3, <2>4, FS_AddElement, Zenon DEF Indices
  <2>6. ap_index'[d] = AP_CORE_COUNTER /\ \A c \in Drawn : ap_index'[c] = ap_index[c]
    BY <1>2, <2>2, Zenon DEF Typed, Drawn
  <2>7. \A c \in Drawn : ap_index[c] \in Nat  BY Zenon DEF Drawn, Typed
  <2>8. \A c \in Drawn' : ap_index'[c] < AP_CORE_COUNTER'
    BY <1>2, <2>1, <2>3, <2>6, <2>7 DEF Indices
  <2>9. \A c, e \in Drawn' : c # e => ap_index'[c] # ap_index'[e]
    BY <2>1, <2>3, <2>6, <2>7 DEF Indices
  <2> QED  BY <2>5, <2>8, <2>9, Zenon DEF Indices
<1> QED  BY <1>1, <1>2, CounterStep, Zenon

\* AP_STARTUP_DONE_COUNTER counts the APs that have entered ap_entry_fn.
LEMMA StartedStep ==
    ASSUME Typed, Quiet, Delays, [Next]_vars
    PROVE  \/ Started' = Started /\ UNCHANGED AP_STARTUP_DONE_COUNTER
           \/ \E d \in AP : /\ d \notin Started /\ Started' = Started \cup {d}
                            /\ AP_STARTUP_DONE_COUNTER' = AP_STARTUP_DONE_COUNTER + 1
<1> DEFINE Same == /\ \A d \in AP : pc'[d] \in Unstarted <=> pc[d] \in Unstarted
                   /\ UNCHANGED AP_STARTUP_DONE_COUNTER
<1>0. PcTyped  BY Zenon DEF Typed, PcTyped
<1>s. ASSUME Same PROVE Started' = Started /\ UNCHANGED AP_STARTUP_DONE_COUNTER
  BY <1>s, Zenon DEF Started
<1> USE <1>0, Cores DEF Moves, Unstarted, Undrawn
<1>1. CASE init_smp_map
  <2>1. Same  BY <1>1, InitMoves, Zenon DEF Quiet, Early
  <2> QED  BY <2>1, <1>s, Zenon
<1>2. CASE startup_aps_1 \/ startup_aps_2
  <2>1. Same  BY <1>2, StartupMoves, Zenon DEF start
  <2> QED  BY <2>1, <1>s, Zenon
<1>3. CASE kernel_main_create \/ init_smp_poll \/ init_smp_unmap
  <2>1. Same  BY <1>3, BspMoves, Zenon
  <2> QED  BY <2>1, <1>s, Zenon
<1>4. CASE pit_expire
  <2>1. Same  BY <1>4, Zenon DEF pit_expire, start
  <2> QED  BY <2>1, <1>s, Zenon
<1>5. ASSUME NEW c \in Core, PitStep(c) PROVE Same
  BY <1>5, PitMoves, Zenon DEF start
<1>6. ASSUME NEW c \in Core, wait_for_timeout(c) PROVE Same
  BY <1>6, TimeoutMoves, Zenon DEF start
<1>7. ASSUME NEW c \in Core, init_timer_lock(c) PROVE Same
  BY <1>7, LockMoves, Zenon DEF start
<1>8. ASSUME NEW c \in Core, init_timer_measure(c) PROVE Same
  BY <1>8, MeasureMoves, Zenon DEF start
<1>9. ASSUME NEW c \in Core, enable(c) \/ sync_arrive(c) \/ sync_pass(c) PROVE Same
  BY <1>9, SyncMoves, Zenon DEF start
<1>10. ASSUME NEW c \in AP, ApStep(c)
       PROVE  Same \/ /\ c \notin Started /\ Started' = Started \cup {c}
                      /\ AP_STARTUP_DONE_COUNTER' = AP_STARTUP_DONE_COUNTER + 1
  <2>1. CASE Moves(c, {"ap_entry_fn"}, {"core_local_data"})
    <3>1. AP_STARTUP_DONE_COUNTER' = AP_STARTUP_DONE_COUNTER + 1  BY <1>10, <2>1, ApMoves, Zenon
    <3>2. c \notin Started /\ Started' = Started \cup {c}  BY <2>1, Zenon DEF Started
    <3> QED  BY <3>1, <3>2, Zenon
  <2>2. CASE ~Moves(c, {"ap_entry_fn"}, {"core_local_data"})
    <3>1. UNCHANGED AP_STARTUP_DONE_COUNTER  BY <1>10, <2>2, ApMoves, Zenon
    <3>2. /\ \A d \in AP \ {c} : pc'[d] = pc[d]
          /\ pc'[c] \in Unstarted <=> pc[c] \in Unstarted
      BY <1>10, <2>2, ApMoves, Zenon
    <3> QED  BY <3>1, <3>2, Zenon
  <2> QED  BY <2>1, <2>2, Zenon
<1>11. CASE UNCHANGED vars
  <2>1. Same  BY <1>11, Zenon DEF vars, start
  <2> QED  BY <2>1, <1>s, Zenon
<1> HIDE DEF Same
<1> QED
  BY <1>s, <1>1, <1>2, <1>3, <1>4, <1>5, <1>6, <1>7, <1>8, <1>9, <1>10, <1>11, StepCases, Zenon

\* The BSP gets behind the wait of init_smp only by the counter, and past a barrier only
\* from there.
LEMMA LateStep ==
    ASSUME Typed, Quiet, Delays, [Next]_vars, pc'[BSP] \in Late \/ passed'[BSP] > 0
    PROVE  \/ pc[BSP] \in Late \/ passed[BSP] > 0
           \/ ~StillWaiting /\ time_out # 0
<1>0. PcTyped  BY Zenon DEF Typed, PcTyped
<1> USE <1>0, Cores DEF Moves, Late, InMain, sync
<1>1. CASE init_smp_map  BY <1>1, InitMoves, Zenon
<1>2. CASE startup_aps_1 \/ startup_aps_2  BY <1>2, StartupMoves, Zenon
<1>3. CASE kernel_main_create \/ init_smp_poll \/ init_smp_unmap  BY <1>3, BspMoves, Zenon
<1>4. CASE pit_expire  BY <1>4, Zenon DEF pit_expire
<1>5. CASE \E c \in Core : PitStep(c)  BY <1>5, PitMoves, Zenon
<1>6. CASE \E c \in Core : wait_for_timeout(c)  BY <1>6, TimeoutMoves, Zenon
<1>7. CASE \E c \in Core : init_timer_lock(c)  BY <1>7, LockMoves, Zenon
<1>8. CASE \E c \in Core : init_timer_measure(c)  BY <1>8, MeasureMoves, Zenon
<1>9. ASSUME NEW c \in Core, enable(c) \/ sync_arrive(c) \/ sync_pass(c)
      PROVE  pc[BSP] \in Late \/ passed[BSP] > 0
  <2>1. CASE c = BSP  BY <1>9, <2>1, SyncMoves, Zenon
  <2>2. CASE c # BSP
    <3>1. passed'[BSP] = passed[BSP]
      BY <1>9, <2>2, Zenon DEF enable, sync_arrive, sync_pass, Barrier!Arrive, Barrier!Pass,
                               Barrier!ArriveAndPass, Typed
    <3> QED  BY <1>9, <2>2, <3>1, SyncMoves, Zenon
  <2> QED  BY <2>1, <2>2, Zenon
<1>10. CASE \E c \in AP : ApStep(c)  BY <1>10, ApMoves, Zenon
<1>11. CASE UNCHANGED vars  BY <1>11, Zenon DEF vars
<1> QED  BY <1>1, <1>2, <1>3, <1>4, <1>5, <1>6, <1>7, <1>8, <1>9, <1>10, <1>11, StepCases, Zenon

\* A BSP behind the wait of init_smp has seen all APs start.
LEMMA CountedStep ==
    ASSUME Typed, Quiet, Delays, Counted, [Next]_vars
    PROVE  Counted'
<1>1. Started \subseteq AP /\ IsFiniteSet(Started) /\ Started' \subseteq AP
  BY BootAssumption, FS_Subset, Zenon DEF Started
<1>2. Cardinality(Started') = AP_STARTUP_DONE_COUNTER' /\ Started \subseteq Started'
  BY <1>1, StartedStep, FS_AddElement, Zenon DEF Counted
<1>3. ASSUME pc'[BSP] \in Late \/ passed'[BSP] > 0 PROVE Started' = AP
  <2>1. CASE pc[BSP] \in Late \/ passed[BSP] > 0  BY <1>1, <1>2, <2>1, Zenon DEF Counted
  <2>2. CASE ~StillWaiting /\ time_out # 0
    <3>1. AP_STARTUP_DONE_COUNTER >= ap_count
      <4>1. ap_count \in Nat  BY BootAssumption, FS_CardinalityType, Zenon DEF ap_count
      <4> QED  BY <2>2, <4>1 DEF StillWaiting, Typed
    <3>2. Cardinality(Started) = Cardinality(AP)
      <4>1. Cardinality(Started) <= Cardinality(AP)  BY <1>1, BootAssumption, FS_Subset, Zenon
      <4>2. Cardinality(AP) \in Nat /\ Cardinality(Started) \in Nat
        BY <1>1, BootAssumption, FS_CardinalityType, Zenon
      <4> QED  BY <3>1, <4>1, <4>2 DEF Counted, ap_count
    <3>3. Started = AP  BY <1>1, <3>2, BootAssumption, FS_Subset, Zenon
    <3> QED  BY <1>1, <1>2, <3>3, Zenon
  <2> QED  BY <1>3, <2>1, <2>2, LateStep, Zenon
<1> QED  BY <1>2, <1>3, Zenon DEF Counted

\* A core is past a barrier only when every core has come to the first one.
LEMMA BarriersStep ==
    ASSUME Typed, Quiet, Delays, Barriers, [Next]_vars
    PROVE  Barriers'
<1> DEFINE Entered == {"barrier", "in_barrier", "panic"} \cup InMain
           Still == /\ UNCHANGED <<arrived, passed>>
                    /\ \A d \in Core : pc[d] \in Entered => pc'[d] \in Entered
                    /\ \A d \in Core : pc'[d] \in InMain => pc[d] \in InMain
<1>0. PcTyped  BY Zenon DEF Typed, PcTyped
<1>s. ASSUME Still PROVE Barriers'
  BY <1>s, Zenon DEF Barriers
<1> USE <1>0, Cores DEF Moves, Core, sync, InMain
<1>1. ASSUME init_smp_map PROVE Still  BY <1>1, InitMoves, Zenon DEF Quiet, Early
<1>2. ASSUME startup_aps_1 \/ startup_aps_2 PROVE Still  BY <1>2, StartupMoves, Zenon
<1>3. ASSUME kernel_main_create \/ init_smp_poll \/ init_smp_unmap PROVE Still  BY <1>3, BspMoves, Zenon
<1>4. ASSUME pit_expire PROVE Still  BY <1>4, Zenon DEF pit_expire
<1>5. ASSUME NEW c \in Core, PitStep(c) PROVE Still
  BY <1>5, PitMoves, Zenon
<1>6. ASSUME NEW c \in Core, wait_for_timeout(c) PROVE Still
  BY <1>6, TimeoutMoves, Zenon
<1>7. ASSUME NEW c \in Core, init_timer_lock(c) PROVE Still
  BY <1>7, LockMoves, Zenon
<1>8. ASSUME NEW c \in Core, init_timer_measure(c) PROVE Still
  BY <1>8, MeasureMoves, Zenon
<1>9. ASSUME NEW c \in Core, enable(c) PROVE Still
  BY <1>9, Zenon DEF enable, Goto, PcTyped
<1>10. ASSUME NEW c \in Core, sync_arrive(c) \/ sync_pass(c) PROVE Barriers'
  <2>1. /\ pc'[c] \in Entered
        /\ \A d \in Core \ {c} : pc'[d] = pc[d]
    BY <1>10, SyncMoves, Zenon
  <2>2. CASE sync_arrive(c)
    <3>1. /\ pc'[c] = "in_barrier"
          /\ arrived' = [arrived EXCEPT ![c] = @ + 1] /\ UNCHANGED passed
      BY <2>2, Zenon DEF sync_arrive, Barrier!Arrive, Goto, PcTyped
    <3>2. /\ \A d \in Core : arrived[d] > 0 => arrived'[d] > 0
          /\ \A d \in Core : d # c => arrived'[d] = arrived[d]
      BY <3>1 DEF Typed
    <3> QED  BY <2>1, <3>1, <3>2, Zenon DEF Barriers
  <2>3. CASE sync_pass(c)
    <3>1. /\ \A d \in Core : arrived'[d] > 0
          /\ \A d \in Core : d # c => arrived'[d] = arrived[d]
      <4>1. CASE Barrier!Pass(c)  BY <4>1 DEF Barrier!Pass, Typed
      <4>2. CASE Barrier!ArriveAndPass(c)  BY <4>2 DEF Barrier!ArriveAndPass, Typed
      <4> QED  BY <2>3, <4>1, <4>2, Zenon DEF sync_pass
    <3> QED  BY <2>1, <3>1, Zenon DEF Barriers
  <2> QED  BY <1>10, <2>2, <2>3, Zenon
<1>11. ASSUME NEW c \in AP, ApStep(c) PROVE Still
  BY <1>11, ApMoves, Zenon
<1>12. ASSUME UNCHANGED vars PROVE Still  BY <1>12, Zenon DEF vars
<1> HIDE <1>0, Cores DEF Still, Moves, Core, sync, InMain
<1> QED
  BY <1>s, <1>1, <1>2, <1>3, <1>4, <1>5, <1>6, <1>7, <1>8, <1>9, <1>10, <1>11, <1>12, StepCases, Zenon
--------------------------------------------------------------------------------
\* the inductive invariant
IInv ==
    /\ Typed /\ Quiet /\ Delays /\ Mapped /\ Drawing /\ Indices /\ HasData /\ Numbered
    /\ Locking /\ Measured /\ Counted /\ Barriers /\ OnlyStartupDisturbsCalibration

\* The inductive invariant holds before kernel_main.
LEMMA IInvInit == Init => IInv
<1> SUFFICES ASSUME Init PROVE IInv  BY Zenon
<1>1. Typed  BY TypedInit, Zenon
<1>2. /\ \A c \in AP : pc[c] = "off" /\ c # BSP /\ c \in Core
      /\ pc[BSP] = "create"
      /\ \A c \in Core : pc[c] \in {"create", "off"} /\ CORE_LOCAL[c] = None
      /\ \A c \in AP : ap_index[c] = None
      /\ AP_CORE_COUNTER = 0 /\ AP_STARTUP_DONE_COUNTER = 0
  BY Cores, Zenon DEF Init
<1>3. \A c \in Core : ~(arrived[c] > 0) /\ ~(passed[c] > 0)
  <2>1. arrived = [c \in Core |-> 0] /\ passed = [c \in Core |-> 0]  BY Zenon DEF Init, Barrier!Init
  <2> QED  BY <2>1
<1>4. Quiet /\ Delays /\ Mapped  BY <1>2, Zenon DEF Quiet, Delays, Mapped, InDelay
<1>5. Drawing  BY <1>2, Zenon DEF Drawing, Undrawn
<1>6. Drawn = {} /\ Started = {}  BY <1>2, Zenon DEF Drawn, Started, Unstarted, Undrawn
<1>7. Indices /\ Counted
  BY <1>2, <1>3, <1>6, Cores, FS_EmptySet, Zenon DEF Indices, Counted, Late, InMain
<1>8. HasData /\ Locking /\ Measured
  BY <1>2, Zenon DEF HasData, Locking, Measured, Calibrating, InDelay, Uncalibrated, Unstarted, Undrawn
<1>9. Numbered  BY <1>2, Cores, Zenon DEF Numbered
<1>10. Barriers  BY <1>2, <1>3, Zenon DEF Barriers, InMain
<1>11. OnlyStartupDisturbsCalibration  BY <1>2, Zenon DEF OnlyStartupDisturbsCalibration
<1> QED  BY <1>1, <1>4, <1>5, <1>7, <1>8, <1>9, <1>10, <1>11, Zenon DEF IInv

\* Every step of every core keeps the inductive invariant.
LEMMA IInvStep == IInv /\ [Next]_vars => IInv'
<1> SUFFICES ASSUME IInv, [Next]_vars PROVE IInv'  BY Zenon
<1>0. PcTyped  BY Zenon DEF IInv, Typed, PcTyped
<1>1. Typed'  BY TypedStep, Zenon DEF IInv
<1>2. Quiet' /\ Delays'  BY <1>0, QuietStep, Zenon DEF IInv
<1>3. Mapped'  BY <1>0, MappedStep, Zenon DEF IInv
<1>4. Drawing' /\ Indices'  BY Zenon, DrawingStep, IndicesStep DEF IInv
<1>5. HasData' /\ Numbered'  BY Zenon, HasDataStep, NumberedStep DEF IInv
<1>6. Locking' /\ Measured'  BY <1>0, LockingStep, MeasuredStep, Zenon DEF IInv
<1>7. Counted' /\ Barriers'  BY CountedStep, BarriersStep, Zenon DEF IInv
<1>8. OnlyStartupDisturbsCalibration'  BY Zenon, DisturbedStep DEF IInv
<1> QED  BY <1>1, <1>2, <1>3, <1>4, <1>5, <1>6, <1>7, <1>8, Zenon DEF IInv

\* The inductive invariant of the boot, for any number of APs, any order of their steps
\* and any loss of startup commands.
THEOREM Invariance == Spec => []IInv
BY IInvInit, IInvStep, PTL DEF Spec
--------------------------------------------------------------------------------
\* the pages of the i-th stack
Block(i) == i * stack_stride + 1 .. i * stack_stride + StackPages

\* The stack areas of two indices are at least one stride apart.
LEMMA Strides ==
    ASSUME NEW i \in Nat, NEW j \in Nat, i < j
    PROVE  i * stack_stride \in Nat /\ i * stack_stride + stack_stride <= j * stack_stride
<1>1. stack_stride \in Nat  BY BootAssumption DEF stack_stride
<1>2. PICK k \in Nat : j = i + 1 + k
  <2>1. j - i - 1 \in Nat /\ j = i + 1 + (j - i - 1)  OBVIOUS
  <2> QED  BY <2>1, Zenon
<1>3. j * stack_stride = i * stack_stride + stack_stride + k * stack_stride
  BY <1>1, <1>2
<1>4. k * stack_stride \in Nat /\ i * stack_stride \in Nat  BY <1>1
<1> QED  BY <1>1, <1>3, <1>4

\* Distinct indices below the number of APs select distinct mapped blocks, each with an
\* unmapped page below it.
LEMMA StacksOK == IInv => OwnGuardedStack
<1> SUFFICES ASSUME IInv, NEW c \in AP, ap_index[c] # None
             PROVE  /\ Stack(c) \subseteq stack_pages
                    /\ StackTop(c) - StackPages \notin stack_pages
                    /\ \A d \in AP \ {c} : ap_index[d] # None => Stack(c) \cap Stack(d) = {}
  BY Zenon DEF OwnGuardedStack
<1>1. ap_count \in Nat /\ StackPages \in Nat /\ StackPages > 0 /\ stack_stride = StackPages + 1
  BY BootAssumption, FS_CardinalityType DEF ap_count, stack_stride
<1>2. ASSUME NEW d \in AP, ap_index[d] # None
      PROVE  /\ ap_index[d] \in Nat /\ ap_index[d] * stack_stride \in Nat
             /\ StackTop(d) - StackPages = ap_index[d] * stack_stride
             /\ Stack(d) = Block(ap_index[d])
  <2>1. ap_index[d] \in Nat  BY <1>2, Zenon DEF IInv, Typed
  <2>2. ap_index[d] * stack_stride \in Nat  BY <1>1, <2>1
  <2>3. StackTop(d) = ap_index[d] * stack_stride + StackPages
    BY <1>1, <2>2 DEF StackTop
  <2> HIDE DEF StackTop
  <2>4. StackTop(d) - StackPages = ap_index[d] * stack_stride
    BY <1>1, <2>2, <2>3
  <2>5. Stack(d) = Block(ap_index[d])
    BY <2>3, <2>4, Zenon DEF Stack, Block
  <2> QED  BY <2>1, <2>2, <2>4, <2>5, Zenon
<1>3. stack_pages = UNION {Block(i) : i \in 0 .. ap_count - 1}
  <2>1. pc[c] # "off"  BY Zenon DEF IInv, Drawing, Undrawn
  <2>2. stack_pages = AllStacks  BY <2>1, Zenon DEF IInv, Mapped
  <2> QED  BY <2>2, Zenon DEF AllStacks, Block
<1>4. ap_index[c] \in 0 .. ap_count - 1
  <2>1. c \in Drawn  BY Zenon DEF Drawn
  <2>2. ap_index[c] < AP_CORE_COUNTER /\ AP_CORE_COUNTER \in Nat  BY <2>1, Zenon DEF IInv, Indices, Typed
  <2>3. Drawn \subseteq AP  BY Zenon DEF Drawn
  <2>4. AP_CORE_COUNTER <= ap_count
    BY <2>3, BootAssumption, FS_Subset, Zenon DEF IInv, Indices, ap_count
  <2> QED  BY <1>1, <1>2, <2>2, <2>4
<1>5. Stack(c) \subseteq stack_pages  BY <1>2, <1>3, <1>4, Zenon
<1>6. StackTop(c) - StackPages \notin stack_pages
  <2>1. SUFFICES ASSUME NEW i \in 0 .. ap_count - 1, ap_index[c] * stack_stride \in Block(i)
                 PROVE  FALSE
    BY <1>2, <1>3, Zenon
  <2>2. i \in Nat /\ i * stack_stride \in Nat  BY <1>1
  <2>3. CASE i < ap_index[c]
    <3>1. i * stack_stride + stack_stride <= ap_index[c] * stack_stride  BY <1>2, <2>2, <2>3, Strides, Zenon
    <3> QED  BY <1>1, <1>2, <2>1, <2>2, <3>1 DEF Block
  <2>4. CASE ap_index[c] < i
    <3>1. ap_index[c] * stack_stride + stack_stride <= i * stack_stride  BY <1>2, <2>2, <2>4, Strides, Zenon
    <3> QED  BY <1>1, <1>2, <2>1, <2>2, <3>1 DEF Block
  <2>5. CASE i = ap_index[c]  BY <1>2, <2>1, <2>5 DEF Block
  <2> QED  BY <1>2, <2>2, <2>3, <2>4, <2>5
<1>7. ASSUME NEW d \in AP \ {c}, ap_index[d] # None PROVE Stack(c) \cap Stack(d) = {}
  <2>1. ap_index[c] # ap_index[d]  BY <1>7, Zenon DEF IInv, Indices, Drawn
  <2>2. ASSUME NEW i \in Nat, NEW j \in Nat, i < j PROVE Block(i) \cap Block(j) = {}
    <3>1. i * stack_stride \in Nat /\ j * stack_stride \in Nat  BY <1>1
    <3>2. i * stack_stride + stack_stride <= j * stack_stride  BY <2>2, Strides, Zenon
    <3> QED  BY <1>1, <3>1, <3>2 DEF Block
  <2>3. ap_index[c] < ap_index[d] \/ ap_index[d] < ap_index[c]  BY <1>2, <1>7, <2>1
  <2>4. Block(ap_index[c]) \cap Block(ap_index[d]) = {}  BY <1>2, <1>7, <2>2, <2>3, Zenon
  <2> QED  BY <1>2, <1>7, <2>4, Zenon
<1> QED  BY <1>5, <1>6, <1>7, Zenon

\* Once the BSP has enabled its interrupts the counter has vouched for every AP.
LEMMA StartedOK == IInv => AllApsStarted
<1> SUFFICES ASSUME IInv, pc[BSP] \in {"enable", "barrier", "in_barrier"} \/ passed[BSP] >= 2,
                    NEW c \in AP
             PROVE  pc[c] \notin Trampoline \cup {"off", "wait_for_sipi", "fault", "ap_entry_fn"}
  BY Zenon DEF AllApsStarted
<1>1. passed[BSP] >= 2 => passed[BSP] > 0  BY Cores DEF IInv, Typed
<1>2. Started = AP  BY <1>1, Zenon DEF IInv, Counted, Late
<1> QED  BY <1>2, Zenon DEF Started, Unstarted, Undrawn, Trampoline

\* Behind the first barrier all cores are calibrated; their indices, as many as there
\* are APs and all different, leave no number out.
LEMMA ReadyOK == IInv => MainFindsAllReady
<1> SUFFICES ASSUME IInv, NEW b \in Core, pc[b] = "main" \/ passed[b] >= 2
             PROVE  /\ \A c \in Core : CORE_LOCAL[c] # None /\ CORE_LOCAL[c].ticks # {}
                    /\ {CORE_LOCAL[c].cpu_index : c \in Core} = 0 .. ap_count
  BY Zenon DEF MainFindsAllReady
<1>0. Typed /\ Indices /\ Numbered  BY Zenon DEF IInv
<1>1. \A c \in Core : arrived[c] > 0  BY DEF IInv, Barriers, Typed, InMain
<1>2. \A c \in Core : pc[c] \in {"barrier", "in_barrier", "panic"} \cup InMain  BY <1>1, Zenon DEF IInv, Barriers
<1>3. \A c \in Core : Ready(c)
  BY <1>2, Zenon DEF IInv, HasData, Uncalibrated, Unstarted, Undrawn, Calibrating, InDelay, InMain
<1>4. \A c \in Core : CORE_LOCAL[c] # None /\ CORE_LOCAL[c].ticks # {}
  BY <1>3, Cores, Zenon DEF Ready
<1>5. CORE_LOCAL[BSP].cpu_index = 0  BY <1>0, <1>3, Cores, Zenon DEF Numbered, Ready
<1>6. \A c \in AP : ap_index[c] \in Nat /\ CORE_LOCAL[c].cpu_index = ap_index[c] + 1
  BY <1>0, <1>3, Cores, Zenon DEF Numbered, Ready
<1>7. Drawn = AP  BY <1>6, Cores, Zenon DEF Drawn
<1>8. ap_count \in Nat /\ AP_CORE_COUNTER = ap_count
  BY <1>0, <1>7, BootAssumption, FS_CardinalityType, Zenon DEF Indices, ap_count
<1>9. DEFINE T == 0 .. ap_count - 1
<1>10. ap_index \in Injection(AP, T)
  <2>1. \A c \in AP : ap_index[c] \in T  BY <1>0, <1>6, <1>7, <1>8 DEF Indices
  <2>2. ap_index \in [AP -> T]  BY <1>0, <2>1, Zenon DEF Typed
  <2>3. \A c, d \in AP : ap_index[c] = ap_index[d] => c = d  BY <1>0, <1>7, Zenon DEF Indices
  <2> QED  BY <2>2, <2>3, Zenon DEF Injection, IsInjective
<1>11. IsFiniteSet(T) /\ Cardinality(T) = Cardinality(AP)
  <2>1. /\ IsFiniteSet(T)
        /\ Cardinality(T) = IF 0 > ap_count - 1 THEN 0 ELSE (ap_count - 1) - 0 + 1
    BY <1>8, FS_Interval
  <2> HIDE DEF T
  <2>2. Cardinality(T) = ap_count  BY <1>8, <2>1
  <2> QED  BY <2>1, <2>2, Zenon DEF ap_count
<1>12. ap_index \in Surjection(AP, T)  BY <1>10, <1>11, FS_Injection, Zenon
<1>13. \A i \in T : \E c \in AP : ap_index[c] = i  BY <1>12, Zenon DEF Surjection
<1>14. \A c \in AP : ap_index[c] \in T  BY <1>10, Zenon DEF Injection
<1>15. \A n \in 0 .. ap_count : \E c \in Core : CORE_LOCAL[c].cpu_index = n
  <2> TAKE n \in 0 .. ap_count
  <2>1. CASE n = 0  BY <1>5, <2>1, Cores, Zenon
  <2>2. CASE n # 0
    <3>1. n - 1 \in T /\ (n - 1) + 1 = n  BY <1>8, <2>2
    <3>2. PICK c \in AP : ap_index[c] = n - 1  BY <1>13, <3>1, Zenon
    <3> QED  BY <1>6, <3>1, <3>2, Cores, Zenon
  <2> QED  BY <2>1, <2>2, Zenon
<1>16. \A c \in Core : CORE_LOCAL[c].cpu_index \in 0 .. ap_count
  BY <1>5, <1>6, <1>8, <1>14 DEF Core
<1> QED  BY <1>4, <1>15, <1>16, ZenonT(60)

\* The trampoline of ap.asm gives each AP a stack that allocate_stacks mapped, that no
\* other AP uses and below which a guard page lies, for any number of APs and any stack size.
THEOREM StacksAreOwnAndGuarded == Spec => []OwnGuardedStack
BY Invariance, StacksOK, PTL

\* init_smp never goes on from its wait while an AP is asleep or in the trampoline it
\* unmaps.
THEOREM PageZeroOutlivesTrampoline == Spec => []AllApsStarted
BY Invariance, StartedOK, PTL

\* A core in main finds all cores numbered without gaps, with core local data and a
\* calibrated timer.
THEOREM BootIsComplete == Spec => []MainFindsAllReady
BY Invariance, ReadyOK, PTL

\* AP_TIMER_INIT_LOCK keeps every AP but the measuring one away from the PIT.
THEOREM CalibrationIsExclusive == Spec => []OnlyStartupDisturbsCalibration
<1>1. IInv => OnlyStartupDisturbsCalibration  BY Zenon DEF IInv
<1> QED  BY Invariance, <1>1, PTL
--------------------------------------------------------------------------------
\* main and its timer

MainTyped ==
    /\ apic \in [Core -> [lvt : {"masked", "periodic"}, requested : BOOLEAN, in_service : BOOLEAN]]
    /\ apic_timer_interrupt_function = [c \in Core |-> apic_timer_interrupt_function[c]]
    /\ stuff = [c \in Core |-> stuff[c]]

Counter == {<<n>> : n \in 0 .. Rounds}

\* how many barriers a core is past tells which part of main it is in
Pace(c) ==
    /\ pc[c] \notin InMain \cup {"barrier", "in_barrier", "panic"} => passed[c] = 0
    /\ pc[c] \in {"barrier", "in_barrier"} => passed[c] \in {0, 1}
    /\ pc[c] = "main" => passed[c] = 2
    /\ pc[c] \in {"sync", "in_sync"} => passed[c] \in 2 .. 5
    /\ pc[c] \in {"stuff", "push", "wait"} => passed[c] = 4
    /\ pc[c] \in {"start_timer", "mask", "unmask"} =>
           \/ ret[c] = "wait" /\ passed[c] = 4
           \/ ret[c] = "frames" /\ passed[c] = 6
Paced == \A c \in Core : Pace(c)

\* no interrupt of the timer can come
Silent(c) ==
    /\ apic_timer_interrupt_function[c] = None
    /\ apic[c].lvt = "masked" /\ ~apic[c].requested

\* The timer of a core is silent until timer_test has pushed the counter
Arm(c) ==
    /\ passed[c] \in 0 .. 3 \/ pc[c] \in {"stuff", "push"} => Silent(c)
    /\ pc[c] = "push" => stuff[c] = <<>>
    /\ pc[c] = "start_timer" /\ ret[c] = "wait" => stuff[c] \in Counter
    /\ pc[c] \in {"mask", "unmask"} => apic_timer_interrupt_function[c] # None
    /\ apic_timer_interrupt_function[c] = "timer_interrupt" => stuff[c] \in Counter
    /\ apic[c].requested \/ apic[c].lvt = "periodic" => apic_timer_interrupt_function[c] # None
Armed == \A c \in Core : Arm(c)

MainInv == IInv /\ MainTyped /\ Paced /\ Armed

\* What a step of the boot does to a core: nothing, a step on its way to the barriers, or
\* the barriers.
LEMMA BootMoves ==
    ASSUME IInv, [Next]_vars, NEW d \in Core
    PROVE  \/ UNCHANGED <<pc[d], ret[d], passed[d]>>
           \/ /\ pc[d] \notin InMain \cup {"barrier", "in_barrier", "panic"}
              /\ pc'[d] \notin InMain \cup {"in_barrier"}
              /\ UNCHANGED passed[d]
           \/ /\ pc[d] = "barrier" /\ pc'[d] = "in_barrier"
              /\ UNCHANGED passed[d]
           \/ /\ pc[d] \in {"barrier", "in_barrier"}
              /\ pc'[d] = IF passed[d] = 0 THEN "barrier" ELSE "main"
              /\ passed'[d] = passed[d] + 1
<1>0. PcTyped /\ Quiet /\ Delays /\ passed \in [Core -> Nat] /\ (d = BSP \/ d \in AP)
  BY Zenon DEF IInv, Typed, PcTyped, Core
<1> USE <1>0, Cores DEF PcTyped, Moves, InMain, start, timer, sync
<1>1. CASE init_smp_map  BY <1>1, InitMoves, Zenon DEF Quiet, Early
<1>2. CASE startup_aps_1 \/ startup_aps_2  BY <1>2, StartupMoves, Zenon
<1>3. CASE kernel_main_create \/ init_smp_poll \/ init_smp_unmap  BY <1>3, BspMoves, Zenon
<1>4. CASE pit_expire  BY <1>4, Zenon DEF pit_expire
<1>5. CASE \E c \in Core : PitStep(c)  BY <1>5, PitMoves, Zenon
<1>6. CASE \E c \in Core : wait_for_timeout(c)  BY <1>6, TimeoutMoves, Zenon
<1>7. CASE \E c \in Core : init_timer_lock(c)  BY <1>7, LockMoves, Zenon
<1>8. CASE \E c \in Core : init_timer_measure(c)  BY <1>8, MeasureMoves, Zenon
<1>9. CASE \E c \in Core : enable(c)  BY <1>9, Zenon DEF enable, Goto
<1>10. CASE \E c \in Core : sync_arrive(c)
  BY <1>10, Zenon DEF sync_arrive, Barrier!Arrive, Goto
<1>11. CASE \E c \in Core : sync_pass(c)
  <2>1. PICK c \in Core : sync_pass(c)  BY <1>11, Zenon
  <2>2. /\ pc[c] \in {"barrier", "in_barrier"} /\ Past(c) /\ ret' = ret
        /\ passed' = [passed EXCEPT ![c] = @ + 1]
    BY <2>1, Zenon DEF sync_pass, Barrier!Pass, Barrier!ArriveAndPass
  <2>3. CASE c = d
    <3>1. pc'[d] = IF passed[d] = 0 THEN "barrier" ELSE "main"  BY <2>2, <2>3, Zenon DEF Past, Goto
    <3> QED  BY <2>2, <2>3, <3>1, Zenon
  <2>4. CASE c # d  BY <2>2, <2>4, Zenon DEF Past, Goto
  <2> QED  BY <2>3, <2>4, Zenon
<1>12. CASE \E c \in AP : ApStep(c)  BY <1>12, ApMoves, Zenon
<1>13. CASE UNCHANGED vars  BY <1>13, Zenon DEF vars
<1> HIDE DEF InMain
<1> QED
  BY <1>1, <1>2, <1>3, <1>4, <1>5, <1>6, <1>7, <1>8, <1>9, <1>10, <1>11, <1>12, <1>13, StepCases, Zenon

\* No step of the boot brings a core past more barriers than its place tells, or wakes a timer.
LEMMA BootPaced ==
    ASSUME IInv, Paced, Armed, [Next]_vars, UNCHANGED main_vars
    PROVE  Paced' /\ Armed'
<1> SUFFICES ASSUME NEW d \in Core PROVE Pace(d)' /\ Arm(d)'  BY Zenon DEF Paced, Armed
<1>0. Pace(d) /\ Arm(d) /\ passed[d] \in Nat  BY Zenon DEF Paced, Armed, IInv, Typed
<1>1. /\ UNCHANGED <<apic, apic_timer_interrupt_function, stuff>> /\ Counter' = Counter
  BY Zenon DEF main_vars, Counter
<1> USE <1>0, <1>1 DEF Pace, Arm, Silent, InMain
<1>2. CASE UNCHANGED <<pc[d], ret[d], passed[d]>>  BY <1>2, ZenonT(60)
<1>3. CASE /\ pc[d] \notin InMain \cup {"barrier", "in_barrier", "panic"}
           /\ pc'[d] \notin InMain \cup {"in_barrier"}
           /\ UNCHANGED passed[d]
  BY <1>3, Zenon
<1>4. CASE pc[d] = "barrier" /\ pc'[d] = "in_barrier" /\ UNCHANGED passed[d]
  BY <1>4, Zenon
<1>5. CASE /\ pc[d] \in {"barrier", "in_barrier"}
           /\ pc'[d] = IF passed[d] = 0 THEN "barrier" ELSE "main"
           /\ passed'[d] = passed[d] + 1
  <2>0. passed[d] \in {0, 1}  BY <1>5, Zenon
  <2>1. \/ passed[d] = 0 /\ passed'[d] = 1 /\ pc'[d] = "barrier"
        \/ passed[d] = 1 /\ passed'[d] = 2 /\ pc'[d] = "main"
    <3> HIDE <1>0, <1>1 DEF Pace, Arm, Silent, InMain
    <3> QED  BY <1>5, <2>0
  <2>2. 0 \in 0 .. 3 /\ 1 \in 0 .. 3 /\ 2 \in 0 .. 3  OBVIOUS
  <2> QED  BY <2>1, <2>2, Zenon
<1> HIDE DEF Pace, Arm, Silent, InMain
<1> QED  BY <1>2, <1>3, <1>4, <1>5, BootMoves, Zenon
\* What a step of main may do to the variables of the boot
MainOnly(c) ==
    /\ pc[c] \in InMain
    /\ \E l \in InMain \cup {"panic"} : pc' = [pc EXCEPT ![c] = l]
    /\ \E r \in {ret[c], "wait", "frames"} : ret' = [ret EXCEPT ![c] = r]
    /\ \E n \in {arrived[c], arrived[c] + 1} : arrived' = [arrived EXCEPT ![c] = n]
    /\ \E n \in {passed[c], passed[c] + 1} : passed' = [passed EXCEPT ![c] = n]
    /\ boot_unchanged

\* A core in main leaves what the boot established as it is.
LEMMA MainKeepsBoot ==
    ASSUME IInv, NEW c \in Core, MainOnly(c)
    PROVE  IInv'
<1>0. /\ Typed /\ Quiet /\ Delays /\ Mapped /\ Drawing /\ Indices /\ HasData /\ Numbered
      /\ Locking /\ Measured /\ Counted /\ Barriers /\ OnlyStartupDisturbsCalibration
  BY Zenon DEF IInv
<1>1. /\ UNCHANGED <<AP_CORE_COUNTER, AP_STARTUP_DONE_COUNTER, time_out, null_page, stack_pages>>
      /\ UNCHANGED <<ap_index, CORE_LOCAL, AP_TIMER_INIT_LOCK, pit>>
  BY Zenon DEF MainOnly, boot_unchanged, start
<1>2. /\ pc[c] \in InMain /\ pc'[c] \in InMain \cup {"panic"}
      /\ \A d \in Core \ {c} : pc'[d] = pc[d]
      /\ pc' = [d \in Core |-> pc'[d]]
  BY <1>0, Zenon DEF MainOnly, Typed
<1>3. ret' \in [Core -> Returns] /\ \A d \in Core \ {c} : ret'[d] = ret[d]
  <2>1. PICK r \in {ret[c], "wait", "frames"} : ret' = [ret EXCEPT ![c] = r]  BY Zenon DEF MainOnly
  <2>2. ret \in [Core -> Returns]  BY <1>0, Zenon DEF Typed
  <2>3. r \in Returns  BY <2>1, <2>2, Zenon DEF Returns
  <2> QED  BY <2>1, <2>2, <2>3, Zenon
<1>4. /\ arrived' \in [Core -> Nat] /\ \A d \in Core \ {c} : arrived'[d] = arrived[d]
      /\ arrived[c] > 0 => arrived'[c] > 0
  <2>1. PICK n \in {arrived[c], arrived[c] + 1} : arrived' = [arrived EXCEPT ![c] = n]
    BY Zenon DEF MainOnly
  <2>2. arrived[c] \in Nat /\ arrived \in [Core -> Nat]  BY <1>0, Zenon DEF Typed
  <2>3. n \in Nat /\ (arrived[c] > 0 => n > 0)  BY <2>1, <2>2
  <2> QED  BY <2>1, <2>2, <2>3, Zenon
<1>5. passed' \in [Core -> Nat] /\ \A d \in Core \ {c} : passed'[d] = passed[d]
  <2>1. PICK n \in {passed[c], passed[c] + 1} : passed' = [passed EXCEPT ![c] = n]
    BY Zenon DEF MainOnly
  <2>2. passed[c] \in Nat /\ passed \in [Core -> Nat]  BY <1>0, Zenon DEF Typed
  <2>3. n \in Nat  BY <2>1, <2>2
  <2> QED  BY <2>1, <2>2, <2>3, Zenon
<1>6. Typed'
  <2>1. Returns' = Returns /\ LocalData' = LocalData /\ PitCore' = PitCore
    BY Zenon DEF Returns, LocalData, PitCore
  <2> QED  BY <1>0, <1>1, <1>2, <1>3, <1>4, <1>5, <2>1, Zenon DEF Typed
<1>7. /\ \A d \in Core : InDelay(d)' <=> InDelay(d) /\ d # c
      /\ ~InDelay(c)
      /\ \A d \in Core : Calibrating(d)' <=> Calibrating(d)
  BY <1>2, <1>3, Zenon DEF InDelay, Calibrating, InMain
<1>8. Quiet' /\ Delays'
  BY <1>0, <1>2, <1>3, <1>7, Cores, Zenon DEF Quiet, Delays, Early, InMain, Core
<1>9. Mapped'
  <2>1. AllStacks' = AllStacks  BY Zenon DEF AllStacks
  <2> QED  BY <1>0, <1>1, <1>2, <2>1, Cores, Zenon DEF Mapped, InMain
<1>10. Drawing'  BY <1>0, <1>1, <1>2, Cores, Zenon DEF Drawing, Undrawn, InMain
<1>11. Indices' /\ Numbered' /\ OnlyStartupDisturbsCalibration'
  <2>1. Drawn' = Drawn /\ LocalData' = LocalData  BY <1>1, Zenon DEF Drawn, LocalData
  <2> QED  BY <1>0, <1>1, <2>1, Zenon DEF Indices, Numbered, OnlyStartupDisturbsCalibration
<1>12. HasData'
  <2> SUFFICES ASSUME NEW d \in Core
               PROVE  /\ pc'[d] = "apic_init" \/ Calibrating(d)' => CORE_LOCAL[d] \in LocalData
                      /\ pc'[d] \notin Uncalibrated /\ ~Calibrating(d)' => Ready(d)
    BY <1>1, Zenon DEF HasData, Ready, LocalData, Uncalibrated, Unstarted, Undrawn
  <2>1. CASE d = c
    <3>1. pc[c] \notin Uncalibrated /\ ~Calibrating(c)
      BY <1>2, <1>7, Zenon DEF Uncalibrated, Unstarted, Undrawn, InMain, Calibrating
    <3>2. Ready(c)  BY <1>0, <3>1, Zenon DEF HasData
    <3> QED  BY <2>1, <3>2, Zenon DEF Ready
  <2>2. CASE d # c  BY <1>0, <1>2, <1>7, <2>2, Zenon DEF HasData
  <2> QED  BY <2>1, <2>2, Zenon
<1>13. Locking'  BY <1>0, <1>1, <1>7, Zenon DEF Locking
<1>14. Measured'
  <2>1. \A d \in Core : Calibrating(d) => pc'[d] = pc[d]  BY <1>2, <1>7, Zenon DEF Calibrating
  <2> QED  BY <1>0, <1>1, <1>7, <2>1, Zenon DEF Measured
<1>15. Counted'
  <2>1. Started' = Started  BY <1>2, Cores, Zenon DEF Started, Unstarted, Undrawn, InMain
  <2>2. pc'[BSP] \in Late \/ passed'[BSP] > 0 => pc[BSP] \in Late \/ passed[BSP] > 0
    BY <1>2, <1>5, Cores, Zenon DEF Late
  <2> QED  BY <1>0, <1>1, <2>1, <2>2, Zenon DEF Counted
<1>16. Barriers'
  <2>1. \A d \in Core : arrived[d] > 0 => arrived'[d] > 0  BY <1>4, Zenon
  <2>2. \A d \in Core : arrived[d] > 0  BY <1>0, <1>2, Zenon DEF Barriers
  <2>3. \A d \in Core : pc'[d] \in {"barrier", "in_barrier", "panic"} \cup InMain
    BY <1>0, <1>2, <2>2, Zenon DEF Barriers
  <2> QED  BY <2>1, <2>2, <2>3, Zenon DEF Barriers
<1> QED
  BY <1>6, <1>8, <1>9, <1>10, <1>11, <1>12, <1>13, <1>14, <1>15, <1>16, Zenon DEF IInv
\* Between two steps of main at the same core nothing changes for the others.
LEMMA OthersKeep ==
    ASSUME IInv, MainTyped, Paced, Armed, NEW c \in Core, MainOnly(c), MainTyped',
           \A d \in Core \ {c} : UNCHANGED <<apic[d], apic_timer_interrupt_function[d], stuff[d]>>,
           Pace(c)', Arm(c)'
    PROVE  Paced' /\ Armed'
<1> SUFFICES ASSUME NEW d \in Core, d # c PROVE Pace(d)' /\ Arm(d)'
  BY Zenon DEF Paced, Armed
<1>1. UNCHANGED <<pc[d], ret[d], passed[d]>>
  BY Zenon DEF MainOnly, IInv, Typed
<1>2. Pace(d) /\ Arm(d)  BY Zenon DEF Paced, Armed
<1>3. Pace(d)'  BY <1>1, <1>2, Zenon DEF Pace
<1>4. Counter' = Counter  BY Zenon DEF Counter
<1>5. UNCHANGED <<apic[d], apic_timer_interrupt_function[d], stuff[d]>>  BY Zenon
<1>6. Arm(d)'  BY <1>1, <1>2, <1>4, <1>5, Zenon DEF Arm, Silent
<1> QED  BY <1>3, <1>6, Zenon

\* The barriers of main: the core goes where the number of barriers it is past sends it.
LEMMA SyncKeeps ==
    ASSUME MainInv, NEW c \in Core, main(c) \/ main_sync(c)
    PROVE  MainOnly(c) /\ Pace(c)' /\ Arm(c)'
<1>0. /\ pc = [d \in Core |-> pc[d]] /\ ret \in [Core -> Returns]
      /\ arrived \in [Core -> Nat] /\ passed \in [Core -> Nat]
      /\ Pace(c) /\ Arm(c)
  BY Zenon DEF MainInv, IInv, Typed, Paced, Armed
<1>1. UNCHANGED <<apic, apic_timer_interrupt_function, stuff>> /\ boot_unchanged /\ Counter' = Counter
  BY Zenon DEF main, main_sync, main_vars, Counter
<1>2. 2 \in 2 .. 5 /\ 2 \in 0 .. 3 /\ 3 \in 0 .. 3 /\ 3 \in 2 .. 5 /\ 5 \in 2 .. 5 /\ 5 \notin 0 .. 3
      /\ 4 \notin 0 .. 3 /\ 6 \notin 0 .. 3
  OBVIOUS
<1>3. CASE main(c)
  <2>1. pc[c] = "main" /\ pc' = [pc EXCEPT ![c] = "sync"] /\ UNCHANGED <<ret, arrived, passed>>
    BY <1>3, Zenon DEF main, Goto, sync
  <2>2. MainOnly(c)
    <3>1. /\ ret' = [ret EXCEPT ![c] = ret[c]] /\ arrived' = [arrived EXCEPT ![c] = arrived[c]]
          /\ passed' = [passed EXCEPT ![c] = passed[c]]
      BY <1>0, <2>1, Zenon
    <3> QED  BY <1>1, <2>1, <3>1, Zenon DEF MainOnly, InMain
  <2>3. pc'[c] = "sync" /\ passed[c] = 2 /\ UNCHANGED <<ret[c], passed[c]>>
    BY <1>0, <2>1, Zenon DEF Pace
  <2>4. Pace(c)'  BY <1>2, <2>3, Zenon DEF Pace, InMain
  <2>5. Arm(c)'  BY <1>0, <1>1, <1>2, <2>3, Zenon DEF Arm, Silent
  <2> QED  BY <2>2, <2>4, <2>5, Zenon
<1>4. CASE pc[c] = "sync" /\ Barrier!Arrive(c) /\ Goto(c, "in_sync") /\ UNCHANGED ret
  <2>1. pc' = [pc EXCEPT ![c] = "in_sync"] /\ arrived' = [arrived EXCEPT ![c] = arrived[c] + 1]
        /\ UNCHANGED <<ret, passed>>
    BY <1>4, Zenon DEF Barrier!Arrive, Goto
  <2>2. MainOnly(c)
    <3>1. ret' = [ret EXCEPT ![c] = ret[c]] /\ passed' = [passed EXCEPT ![c] = passed[c]]
      BY <1>0, <2>1, Zenon
    <3> QED  BY <1>1, <1>4, <2>1, <3>1, Zenon DEF MainOnly, InMain
  <2>3. pc'[c] = "in_sync" /\ passed[c] \in 2 .. 5 /\ UNCHANGED <<ret[c], passed[c]>>
    BY <1>0, <1>4, <2>1, Zenon DEF Pace
  <2>4. Pace(c)'  BY <2>3, Zenon DEF Pace, InMain
  <2>5. Arm(c)'  BY <1>0, <1>1, <2>3, Zenon DEF Arm, Silent
  <2> QED  BY <2>2, <2>4, <2>5, Zenon
<1>5. CASE /\ \/ pc[c] = "in_sync" /\ Barrier!Pass(c)
              \/ pc[c] = "sync" /\ Barrier!ArriveAndPass(c)
           /\ Goto(c, AfterSync(c))
           /\ ret' = [ret EXCEPT ![c] = IF passed[c] = 5 THEN "frames" ELSE @]
  <2>1. /\ pc[c] \in {"sync", "in_sync"}
        /\ pc' = [pc EXCEPT ![c] = AfterSync(c)]
        /\ passed' = [passed EXCEPT ![c] = passed[c] + 1]
        /\ arrived' = [arrived EXCEPT ![c] = arrived[c] + 1] \/ arrived' = arrived
    BY <1>5, Zenon DEF Barrier!Pass, Barrier!ArriveAndPass, Goto
  <2>2. passed[c] \in 2 .. 5  BY <1>0, <2>1, Zenon DEF Pace
  <2>3. passed[c] \in {2, 3, 4, 5}  BY <2>2
  <2>4. 2 + 1 = 3 /\ 3 + 1 = 4 /\ 4 + 1 = 5 /\ 5 + 1 = 6  OBVIOUS
  <2>5. 2 # 3 /\ 2 # 4 /\ 2 # 5 /\ 3 # 4 /\ 3 # 5 /\ 4 # 5  OBVIOUS
  <2>6. /\ pc'[c] = AfterSync(c) /\ passed'[c] = passed[c] + 1
        /\ ret'[c] = IF passed[c] = 5 THEN "frames" ELSE ret[c]
    BY <1>0, <1>5, <2>1, Zenon
  <2>7. /\ passed[c] \in {2, 4} => AfterSync(c) = "sync"
        /\ passed[c] = 3 => AfterSync(c) = "stuff"
        /\ passed[c] = 5 => AfterSync(c) \in {"start_timer", "writer"}
    BY <2>3, <2>5, Zenon DEF AfterSync
  <2>8. MainOnly(c)
    <3>1. arrived' = arrived => arrived' = [arrived EXCEPT ![c] = arrived[c]]  BY <1>0, Zenon
    <3>2. \E r \in {ret[c], "wait", "frames"} : ret' = [ret EXCEPT ![c] = r]  BY <1>5, Zenon
    <3>3. AfterSync(c) \in InMain  BY <2>3, <2>7, Zenon DEF InMain
    <3>4. pc[c] \in InMain  BY <2>1, Zenon DEF InMain
    <3> QED  BY <1>1, <2>1, <3>1, <3>2, <3>3, <3>4, Zenon DEF MainOnly
  <2>9. CASE passed[c] = 2
    <3>1. pc'[c] = "sync" /\ passed'[c] = 3 /\ ret'[c] = ret[c]  BY <2>4, <2>5, <2>6, <2>7, <2>9, Zenon
    <3>2. Pace(c)'  BY <1>2, <3>1, Zenon DEF Pace, InMain
    <3>3. Arm(c)'  BY <1>0, <1>1, <1>2, <2>9, <3>1, Zenon DEF Arm, Silent
    <3> QED  BY <2>8, <3>2, <3>3, Zenon
  <2>10. CASE passed[c] = 3
    <3>1. pc'[c] = "stuff" /\ passed'[c] = 4 /\ ret'[c] = ret[c]  BY <2>4, <2>5, <2>6, <2>7, <2>10, Zenon
    <3>2. Pace(c)'  BY <3>1, Zenon DEF Pace, InMain
    <3>3. Arm(c)'  BY <1>0, <1>1, <1>2, <2>10, <3>1, Zenon DEF Arm, Silent
    <3> QED  BY <2>8, <3>2, <3>3, Zenon
  <2>11. CASE passed[c] = 4
    <3>1. pc'[c] = "sync" /\ passed'[c] = 5 /\ ret'[c] = ret[c]  BY <2>4, <2>5, <2>6, <2>7, <2>11, Zenon
    <3>2. Pace(c)'  BY <1>2, <3>1, Zenon DEF Pace, InMain
    <3>3. Arm(c)'  BY <1>0, <1>1, <1>2, <2>11, <3>1, Zenon DEF Arm, Silent
    <3> QED  BY <2>8, <3>2, <3>3, Zenon
  <2>12. CASE passed[c] = 5
    <3>1. pc'[c] \in {"start_timer", "writer"} /\ passed'[c] = 6 /\ ret'[c] = "frames"
      BY <2>4, <2>5, <2>6, <2>7, <2>12, Zenon
    <3>2. Pace(c)'  BY <3>1, Zenon DEF Pace, InMain
    <3>3. Arm(c)'  BY <1>0, <1>1, <1>2, <3>1, Zenon DEF Arm, Silent
    <3> QED  BY <2>8, <3>2, <3>3, Zenon
  <2> QED  BY <2>3, <2>9, <2>10, <2>11, <2>12, Zenon
<1> QED  BY <1>3, <1>4, <1>5, Zenon DEF main_sync
\* None is neither a function nor a counter.
LEMMA NoneIsApart ==
    /\ None # "timer_interrupt" /\ None # "new_frame" /\ None \notin Counter /\ <<>> \notin Counter
<1>1. \A n : <<n>> # <<>>  OBVIOUS
<1> QED  BY <1>1, MainAssumption, Zenon DEF Counter

\* what a step may not touch but at its own core
OwnTimer(c) ==
    \A d \in Core \ {c} : UNCHANGED <<apic[d], apic_timer_interrupt_function[d], stuff[d]>>

\* timer_test empties the vector and pushes the counter while the timer is silent.
LEMMA TestKeeps ==
    ASSUME MainInv, NEW c \in Core, timer_test(c)
    PROVE  MainOnly(c) /\ OwnTimer(c) /\ MainTyped' /\ Pace(c)' /\ Arm(c)'
<1>0. /\ pc = [d \in Core |-> pc[d]] /\ ret \in [Core -> Returns]
      /\ arrived \in [Core -> Nat] /\ passed \in [Core -> Nat]
      /\ Pace(c) /\ Arm(c) /\ stuff = [d \in Core |-> stuff[d]]
  BY Zenon DEF MainInv, MainTyped, IInv, Typed, Paced, Armed
<1>1. /\ UNCHANGED <<apic, apic_timer_interrupt_function, arrived, passed>> /\ boot_unchanged
      /\ Counter' = Counter
  BY Zenon DEF timer_test, sync, Counter
<1>2. arrived' = [arrived EXCEPT ![c] = arrived[c]] /\ passed' = [passed EXCEPT ![c] = passed[c]]
  BY <1>0, <1>1, Zenon
<1>3. CASE pc[c] = "stuff" /\ stuff' = [stuff EXCEPT ![c] = <<>>] /\ Goto(c, "push") /\ UNCHANGED ret
  <2>1. pc' = [pc EXCEPT ![c] = "push"] /\ ret' = [ret EXCEPT ![c] = ret[c]]
    BY <1>0, <1>3, Zenon DEF Goto
  <2>2. MainOnly(c)  BY <1>1, <1>2, <1>3, <2>1, Zenon DEF MainOnly, InMain
  <2>3. pc'[c] = "push" /\ stuff'[c] = <<>> /\ \A d \in Core \ {c} : stuff'[d] = stuff[d]
    BY <1>0, <1>3, <2>1, Zenon
  <2>4. OwnTimer(c)  BY <1>1, <2>3, Zenon DEF OwnTimer
  <2>5. MainTyped'  BY <1>0, <1>1, <1>3, Zenon DEF MainInv, MainTyped
  <2>6. Pace(c)'  BY <1>0, <1>1, <1>3, <2>3, Zenon DEF Pace, InMain
  <2>7. Silent(c)'  BY <1>0, <1>1, <1>3, Zenon DEF Arm, Silent
  <2>8. Arm(c)'  BY <2>3, <2>7, NoneIsApart, Zenon DEF Arm, Silent
  <2> QED  BY <2>2, <2>4, <2>5, <2>6, <2>8, Zenon
<1>4. CASE /\ pc[c] = "push" /\ stuff' = [stuff EXCEPT ![c] = Append(@, 0)] /\ Goto(c, "start_timer")
           /\ ret' = [ret EXCEPT ![c] = "wait"]
  <2>1. pc' = [pc EXCEPT ![c] = "start_timer"]  BY <1>4, Zenon DEF Goto
  <2>2. MainOnly(c)  BY <1>1, <1>2, <1>4, <2>1, Zenon DEF MainOnly, InMain
  <2>3. /\ pc'[c] = "start_timer" /\ ret'[c] = "wait" /\ stuff'[c] = Append(<<>>, 0)
        /\ \A d \in Core \ {c} : stuff'[d] = stuff[d]
    BY <1>0, <1>4, <2>1, Zenon DEF Arm
  <2>4. OwnTimer(c)  BY <1>1, <2>3, Zenon DEF OwnTimer
  <2>5. MainTyped'  BY <1>0, <1>1, <1>4, Zenon DEF MainInv, MainTyped
  <2>6. Pace(c)'  BY <1>0, <1>1, <1>4, <2>3, Zenon DEF Pace, InMain
  <2>7. Silent(c)'  BY <1>0, <1>1, <1>4, Zenon DEF Arm, Silent
  <2>8. stuff'[c] \in Counter
    <3>1. Append(<<>>, 0) = <<0>>  OBVIOUS
    <3>2. 0 \in 0 .. Rounds  BY MainAssumption
    <3> QED  BY <2>3, <3>1, <3>2, Zenon DEF Counter
  <2>9. Arm(c)'  BY <1>1, <2>3, <2>7, <2>8, Zenon DEF Arm, Silent
  <2> QED  BY <2>2, <2>4, <2>5, <2>6, <2>9, Zenon
<1>5. CASE pc[c] = "wait" /\ Goto(c, "sync") /\ UNCHANGED <<stuff, ret>>
  <2>1. pc' = [pc EXCEPT ![c] = "sync"] /\ ret' = [ret EXCEPT ![c] = ret[c]]
    BY <1>0, <1>5, Zenon DEF Goto
  <2>2. MainOnly(c)  BY <1>1, <1>2, <1>5, <2>1, Zenon DEF MainOnly, InMain
  <2>3. pc'[c] = "sync"  BY <1>0, <2>1, Zenon
  <2>4. OwnTimer(c)  BY <1>1, <1>5, Zenon DEF OwnTimer
  <2>5. MainTyped'  BY <1>1, <1>5, Zenon DEF MainInv, MainTyped
  <2>6. Pace(c)'
    <3>1. 4 \in 2 .. 5  OBVIOUS
    <3> QED  BY <1>0, <1>1, <1>5, <2>3, <3>1, Zenon DEF Pace, InMain
  <2>7. Arm(c)'  BY <1>0, <1>1, <1>5, <2>3, Zenon DEF Arm, Silent
  <2> QED  BY <2>2, <2>4, <2>5, <2>6, <2>7, Zenon
<1> QED  BY <1>3, <1>4, <1>5, Zenon DEF timer_test

\* start_timer stores the function before it touches the timer, and is called with the
\* counter in place or with a function that needs none.
LEMMA TimerKeeps ==
    ASSUME MainInv, NEW c \in Core, start_timer(c) \/ start_timer_write(c)
    PROVE  MainOnly(c) /\ OwnTimer(c) /\ MainTyped' /\ Pace(c)' /\ Arm(c)'
<1>0. /\ pc = [d \in Core |-> pc[d]] /\ ret \in [Core -> Returns]
      /\ arrived \in [Core -> Nat] /\ passed \in [Core -> Nat]
      /\ Pace(c) /\ Arm(c) /\ MainTyped
  BY Zenon DEF MainInv, IInv, Typed, Paced, Armed
<1>1. UNCHANGED <<ret, arrived, passed, stuff>> /\ boot_unchanged /\ Counter' = Counter
  BY Zenon DEF start_timer, start_timer_write, sync, Counter
<1>2. /\ arrived' = [arrived EXCEPT ![c] = arrived[c]] /\ passed' = [passed EXCEPT ![c] = passed[c]]
      /\ ret' = [ret EXCEPT ![c] = ret[c]]
  BY <1>0, <1>1, Zenon
<1>3. 4 \notin 0 .. 3 /\ 6 \notin 0 .. 3  OBVIOUS
<1>4. CASE start_timer(c)
  <2>1. /\ pc[c] = "start_timer" /\ UNCHANGED apic
        /\ apic_timer_interrupt_function' = [apic_timer_interrupt_function EXCEPT
              ![c] = IF ret[c] = "frames" THEN "new_frame" ELSE "timer_interrupt"]
    BY <1>4, Zenon DEF start_timer
  <2>2. PICK l \in {"mask", "panic"} : pc' = [pc EXCEPT ![c] = l]
    BY <1>4, Zenon DEF start_timer, Goto
  <2>3. MainOnly(c)
    <3>1. pc[c] \in InMain /\ l \in InMain \cup {"panic"}  BY <2>1, <2>2, Zenon DEF InMain
    <3> QED  BY <1>1, <1>2, <2>2, <3>1, Zenon DEF MainOnly
  <2>4. /\ pc'[c] \in {"mask", "panic"}
        /\ apic_timer_interrupt_function'[c] =
              IF ret[c] = "frames" THEN "new_frame" ELSE "timer_interrupt"
        /\ \A d \in Core \ {c} : apic_timer_interrupt_function'[d] = apic_timer_interrupt_function[d]
    BY <1>0, <2>1, <2>2, Zenon DEF MainTyped
  <2>5. OwnTimer(c)  BY <1>1, <2>1, <2>4, Zenon DEF OwnTimer
  <2>6. MainTyped'  BY <1>0, <1>1, <2>1, Zenon DEF MainTyped
  <2>7. Pace(c)'  BY <1>0, <1>1, <2>1, <2>4, Zenon DEF Pace, InMain
  <2>8. apic_timer_interrupt_function'[c] # None  BY <2>4, NoneIsApart, Zenon
  <2>9. apic_timer_interrupt_function'[c] = "timer_interrupt" => stuff'[c] \in Counter
    <3>1. ret[c] = "wait" => stuff[c] \in Counter  BY <1>0, <2>1, Zenon DEF Arm
    <3>2. ret[c] = "wait" \/ ret[c] = "frames"  BY <1>0, <2>1, Zenon DEF Pace
    <3>3. ret[c] = "frames" => apic_timer_interrupt_function'[c] = "new_frame"  BY <2>4, Zenon
    <3> QED  BY <1>1, <3>1, <3>2, <3>3, Zenon
  <2>10. passed'[c] \notin 0 .. 3  BY <1>0, <1>1, <1>3, <2>1, Zenon DEF Pace
  <2>11. Arm(c)'  BY <1>1, <2>4, <2>8, <2>9, <2>10, Zenon DEF Arm
  <2> QED  BY <2>3, <2>5, <2>6, <2>7, <2>11, Zenon
<1>5. ASSUME NEW l, NEW lvt \in {"masked", "periodic"}, l \in {"unmask", ret[c]},
             l = "unmask" \/ pc[c] = "unmask",
             pc[c] \in {"mask", "unmask"}, apic' = [apic EXCEPT ![c].lvt = lvt],
             pc' = [pc EXCEPT ![c] = l], UNCHANGED apic_timer_interrupt_function
      PROVE  MainOnly(c) /\ OwnTimer(c) /\ MainTyped' /\ Pace(c)' /\ Arm(c)'
  <2>1. /\ \/ ret[c] = "wait" /\ passed[c] = 4
           \/ ret[c] = "frames" /\ passed[c] = 6
        /\ apic_timer_interrupt_function[c] # None
    BY <1>0, <1>5, Zenon DEF Pace, Arm
  <2>2. MainOnly(c)
    <3>1. pc[c] \in InMain /\ l \in InMain \cup {"panic"}  BY <1>5, <2>1, Zenon DEF InMain
    <3> QED  BY <1>1, <1>2, <1>5, <3>1, Zenon DEF MainOnly
  <2>3. pc'[c] = l  BY <1>0, <1>5, Zenon
  <2>4. apic' = [apic EXCEPT ![c] = [apic[c] EXCEPT !.lvt = lvt]]  BY <1>5, Zenon
  <2>5. [apic[c] EXCEPT !.lvt = lvt] \in
            [lvt : {"masked", "periodic"}, requested : BOOLEAN, in_service : BOOLEAN]
    BY <1>0, <1>5, Zenon DEF MainTyped
  <2>6. MainTyped' /\ \A d \in Core \ {c} : apic'[d] = apic[d]
    BY <1>0, <1>1, <1>5, <2>4, <2>5, Zenon DEF MainTyped
  <2>7. OwnTimer(c)  BY <1>1, <1>5, <2>6, Zenon DEF OwnTimer
  <2>8. Pace(c)'  BY <1>1, <1>5, <2>1, <2>3, Zenon DEF Pace, InMain
  <2>9. passed'[c] \notin 0 .. 3  BY <1>1, <1>3, <2>1, Zenon
  <2>10. apic_timer_interrupt_function'[c] = "timer_interrupt" => stuff'[c] \in Counter
    BY <1>0, <1>1, <1>5, Zenon DEF Arm
  <2>11. Arm(c)'  BY <1>1, <1>5, <2>1, <2>3, <2>9, <2>10, Zenon DEF Arm
  <2> QED  BY <2>2, <2>6, <2>7, <2>8, <2>11, Zenon
<1>6. CASE start_timer_write(c)  BY <1>5, <1>6, Zenon DEF start_timer_write, Goto
<1> QED  BY <1>4, <1>6, Zenon
\* An interrupt comes only when the function is there, with the counter if it needs one;
\* it changes nothing but the timer and the counter of its core.
LEMMA InterruptKeeps ==
    ASSUME MainInv, NEW c \in Core, timer_fires(c) \/ timer_interrupt(c)
    PROVE  UNCHANGED vars /\ MainTyped' /\ Paced' /\ Armed'
<1>0. /\ Paced /\ Armed /\ MainTyped /\ Pace(c) /\ Arm(c)
      /\ apic[c] \in [lvt : {"masked", "periodic"}, requested : BOOLEAN, in_service : BOOLEAN]
  BY Zenon DEF MainInv, Paced, Armed, MainTyped
<1>1. apic_timer_interrupt_function[c] # None /\ ~callback_panics(c)
  <2>1. apic[c].requested \/ apic[c].lvt = "periodic"  BY Zenon DEF timer_fires, timer_interrupt
  <2>2. apic_timer_interrupt_function[c] # None  BY <1>0, <2>1, Zenon DEF Arm
  <2> QED  BY <1>0, <2>2, NoneIsApart, Zenon DEF Arm, callback_panics
<1>2. UNCHANGED vars /\ UNCHANGED apic_timer_interrupt_function
  <2>1. CASE timer_fires(c)  BY <2>1, Zenon DEF timer_fires
  <2>2. CASE timer_interrupt(c)
    BY <1>1, <2>2, Zenon DEF timer_interrupt, boot_unchanged, vars, start, timer, sync
  <2> QED  BY <2>1, <2>2, Zenon
<1>3. UNCHANGED <<pc, ret, passed>>  BY <1>2, Zenon DEF vars, timer, sync
<1>4. \E a \in [lvt : {apic[c].lvt}, requested : BOOLEAN, in_service : BOOLEAN] :
          apic' = [apic EXCEPT ![c] = a]
  <2>1. CASE timer_fires(c)
    <3>1. apic' = [apic EXCEPT ![c] = [apic[c] EXCEPT !.requested = TRUE]]
      BY <2>1, Zenon DEF timer_fires
    <3>2. [apic[c] EXCEPT !.requested = TRUE] \in
              [lvt : {apic[c].lvt}, requested : BOOLEAN, in_service : BOOLEAN]
      BY <1>0, Zenon
    <3> QED  BY <3>1, <3>2, Zenon
  <2>2. CASE timer_interrupt(c)
    <3>1. apic' = [apic EXCEPT ![c] = [apic[c] EXCEPT !.requested = FALSE,
                                                       !.in_service = callback_panics(c)]]
      BY <1>0, <2>2, Zenon DEF timer_interrupt, MainTyped
    <3>2. callback_panics(c) \in BOOLEAN  BY Zenon DEF callback_panics
    <3>3. [apic[c] EXCEPT !.requested = FALSE, !.in_service = callback_panics(c)] \in
              [lvt : {apic[c].lvt}, requested : BOOLEAN, in_service : BOOLEAN]
      BY <1>0, <3>2, Zenon
    <3> QED  BY <3>1, <3>3, Zenon
  <2> QED  BY <2>1, <2>2, Zenon
<1>5. PICK a \in [lvt : {apic[c].lvt}, requested : BOOLEAN, in_service : BOOLEAN] :
          apic' = [apic EXCEPT ![c] = a]
  BY <1>4, Zenon
<1>6. /\ stuff' = [d \in Core |-> stuff'[d]]
      /\ \A d \in Core \ {c} : stuff'[d] = stuff[d]
      /\ stuff[c] \in Counter => stuff'[c] \in Counter
      /\ apic_timer_interrupt_function[c] # "timer_interrupt" => stuff' = stuff
  <2>1. CASE stuff' = stuff  BY <1>0, <2>1, Zenon DEF MainTyped
  <2>2. CASE /\ apic_timer_interrupt_function[c] = "timer_interrupt" /\ stuff[c][1] < Rounds
             /\ stuff' = [stuff EXCEPT ![c] = <<@[1] + 1>>]
    <3>1. PICK n \in 0 .. Rounds : stuff[c] = <<n>>  BY <1>0, <2>2, Zenon DEF Arm, Counter
    <3>2. <<n>>[1] = n  OBVIOUS
    <3>3. n + 1 \in 0 .. Rounds  BY <2>2, <3>1, <3>2, MainAssumption
    <3>4. stuff'[c] = <<n + 1>>  BY <1>0, <2>2, <3>1, <3>2, Zenon DEF MainTyped
    <3>5. stuff'[c] \in Counter  BY <3>3, <3>4, Zenon DEF Counter
    <3> QED  BY <1>0, <2>2, <3>5, Zenon DEF MainTyped
  <2>3. CASE timer_fires(c)  BY <2>1, <2>3, Zenon DEF timer_fires
  <2>4. CASE timer_interrupt(c)  BY <1>1, <2>1, <2>2, <2>4, Zenon DEF timer_interrupt, callback
  <2> QED  BY <2>3, <2>4, Zenon
<1>7. MainTyped' /\ apic'[c] = a /\ \A d \in Core \ {c} : apic'[d] = apic[d]
  <2>1. a \in [lvt : {"masked", "periodic"}, requested : BOOLEAN, in_service : BOOLEAN]
    BY <1>0, <1>5, Zenon
  <2> QED  BY <1>0, <1>2, <1>5, <1>6, <2>1, Zenon DEF MainTyped
<1>8. Paced'  BY <1>0, <1>3, Zenon DEF Paced, Pace
<1>9. Arm(c)'
  <2>1. ~Silent(c)  BY <1>1, Zenon DEF Silent
  <2>2. passed[c] \notin 0 .. 3 /\ pc[c] \notin {"stuff", "push"}  BY <1>0, <2>1, Zenon DEF Arm
  <2>3. Counter' = Counter  BY Zenon DEF Counter
  <2>4. pc'[c] = pc[c] /\ ret'[c] = ret[c] /\ passed'[c] = passed[c]
        /\ apic_timer_interrupt_function'[c] = apic_timer_interrupt_function[c]
    BY <1>2, <1>3, Zenon
  <2> QED  BY <1>0, <1>1, <1>6, <2>2, <2>3, <2>4, Zenon DEF Arm
<1>10. Armed'
  <2> SUFFICES ASSUME NEW d \in Core, d # c PROVE Arm(d)'  BY <1>9, Zenon DEF Armed
  <2>1. Arm(d) /\ Counter' = Counter  BY <1>0, Zenon DEF Armed, Counter
  <2>2. UNCHANGED <<apic[d], apic_timer_interrupt_function[d], stuff[d], pc[d], ret[d], passed[d]>>
    BY <1>2, <1>3, <1>6, <1>7, Zenon
  <2> QED  BY <2>1, <2>2, Zenon DEF Arm, Silent
<1> QED  BY <1>2, <1>7, <1>8, <1>10, Zenon

\* The inductive invariant holds before kernel_main.
LEMMA MainInvInit == MainInit => MainInv
<1> SUFFICES ASSUME MainInit PROVE MainInv  BY Zenon
<1>1. Init /\ IInv  BY IInvInit, Zenon DEF MainInit
<1>2. MainTyped  BY Zenon DEF MainInit, MainTyped
<1>3. \A c \in Core : /\ pc[c] \in {"create", "off"} /\ passed[c] = 0
                      /\ apic[c].lvt = "masked" /\ ~apic[c].requested
                      /\ apic_timer_interrupt_function[c] = None
  BY <1>1, Zenon DEF MainInit, Init, Barrier!Init
<1>4. Paced  BY <1>3, Zenon DEF Paced, Pace, InMain
<1>5. Armed  BY <1>3, NoneIsApart, Zenon DEF Armed, Arm, Silent
<1> QED  BY <1>1, <1>2, <1>4, <1>5, Zenon DEF MainInv

\* Every step of the boot, of main and of the timers keeps the inductive invariant.
LEMMA MainInvStep == MainInv /\ [MainNext]_all_vars => MainInv'
<1> SUFFICES ASSUME MainInv, [MainNext]_all_vars PROVE MainInv'  BY Zenon
<1>1. ASSUME [Next]_vars, UNCHANGED main_vars PROVE MainInv'
  <2>1. IInv'  BY <1>1, IInvStep, Zenon DEF MainInv
  <2>2. Paced' /\ Armed'  BY <1>1, BootPaced, Zenon DEF MainInv
  <2>3. MainTyped'  BY <1>1, Zenon DEF MainInv, MainTyped, main_vars
  <2> QED  BY <2>1, <2>2, <2>3, Zenon DEF MainInv
<1>2. ASSUME NEW c \in Core, MainOnly(c), OwnTimer(c), MainTyped', Pace(c)', Arm(c)' PROVE MainInv'
  <2>1. IInv'  BY <1>2, MainKeepsBoot, Zenon DEF MainInv
  <2>2. Paced' /\ Armed'  BY <1>2, OthersKeep, Zenon DEF MainInv, OwnTimer
  <2> QED  BY <1>2, <2>1, <2>2, Zenon DEF MainInv
<1>3. ASSUME NEW c \in Core, main(c) \/ main_sync(c) PROVE MainInv'
  <2>1. UNCHANGED main_vars  BY <1>3, Zenon DEF main, main_sync
  <2>2. OwnTimer(c)  BY <2>1, Zenon DEF main_vars, OwnTimer
  <2>3. MainTyped'  BY <2>1, Zenon DEF MainInv, MainTyped, main_vars
  <2> QED  BY <1>2, <1>3, <2>2, <2>3, SyncKeeps, Zenon
<1>4. ASSUME NEW c \in Core, timer_test(c) PROVE MainInv'  BY <1>2, <1>4, TestKeeps, Zenon
<1>5. ASSUME NEW c \in Core, start_timer(c) \/ start_timer_write(c) PROVE MainInv'
  BY <1>2, <1>5, TimerKeeps, Zenon
<1>6. ASSUME NEW c \in Core, timer_fires(c) \/ timer_interrupt(c) PROVE MainInv'
  <2>1. UNCHANGED vars /\ MainTyped' /\ Paced' /\ Armed'  BY <1>6, InterruptKeeps, Zenon
  <2>2. IInv'  BY <2>1, IInvStep, Zenon DEF MainInv
  <2> QED  BY <2>1, <2>2, Zenon DEF MainInv
<1>7. CASE UNCHANGED all_vars  BY <1>1, <1>7, Zenon DEF all_vars
<1> QED  BY <1>1, <1>3, <1>4, <1>5, <1>6, <1>7, Zenon DEF MainNext, MainStep

\* The inductive invariant of the boot and of main together.
THEOREM MainInvariance == MainSpec => []MainInv
BY MainInvInit, MainInvStep, PTL DEF MainSpec

\* Whatever the interleaving of the cores and their timers, an interrupt of a timer finds
\* its function, and timer_interrupt the counter it unwraps.
THEOREM CallbackFindsCounterTheorem == MainSpec => []CallbackFindsCounter
<1>1. MainInv => CallbackFindsCounter
  BY NoneIsApart, Zenon DEF MainInv, Armed, Arm, CallbackFindsCounter, callback_panics
<1> QED  BY MainInvariance, <1>1, PTL

\* What the boot establishes stays true while main runs on the cores, with the barriers,
\* the timers and the panics of main.
THEOREM BootOutlivesMain ==
    MainSpec => [](/\ OwnGuardedStack /\ AllApsStarted
                   /\ MainFindsAllReady /\ OnlyStartupDisturbsCalibration)
<1>1. MainInv => /\ OwnGuardedStack /\ AllApsStarted
                 /\ MainFindsAllReady /\ OnlyStartupDisturbsCalibration
  BY StacksOK, StartedOK, ReadyOK, Zenon DEF MainInv, IInv
<1> QED  BY MainInvariance, <1>1, PTL
================================================================================
