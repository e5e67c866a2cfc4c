------------------------------ MODULE KernelLocks ------------------------------
(***************************************************************************)
(* The locks of the kernel once all cores are in main.  Almost everything    *)
(* logs, also with locks held: the heap logs and maps memory while it is     *)
(* locked, Memory logs while it is locked, the panic handler logs whatever   *)
(* the core was doing.                                                       *)
(*                                                                          *)
(* A function is the sequence of the instructions that matter for locks, a   *)
(* call is its sequence in the caller's, and code[c] is what core c has      *)
(* still to execute.  All locks are ticket locks (spin with use_ticket_mutex *)
(* in Cargo.toml): first come, first served, and not reentrant.              *)
(***************************************************************************)
EXTENDS Naturals, Sequences, FiniteSets, Functions

CONSTANTS Core,
          MaxPanics, \* bound on the cores that panic, by the number of cores
          None

ASSUME LocksAssumption ==
    IsFiniteSet(Core) /\ Core # {} /\ None \notin Core
    /\ MaxPanics \in [1 .. Cardinality(Core) -> Nat]

SERIAL_WRITE_LOCK == <<"SERIAL_WRITE_LOCK">>
SERIAL == <<"SERIAL.1">>
TERM == <<"TERM">>
MEMORY == <<"MEMORY">>
INNER_KERNEL_ALLOC == <<"INNER_KERNEL_ALLOC">>
BACK_BUFFER_LOCK == <<"BACK_BUFFER_LOCK">>
SWAP_LOCK == <<"SWAP_LOCK">>
PANIC_PRINT_LOCK == <<"PANIC_PRINT_LOCK">>
EMERGENCY_PANIC_TERM == <<"EMERGENCY_PANIC_TERM">>
OUT_CONTIGUOUS(c) == <<"OUT_CONTIGUOUS", c>>  \* of the program that core c runs
heap(c) == <<"heap", c>>                      \* of its ApplicationResources

KernelLock == {SERIAL_WRITE_LOCK, SERIAL, TERM, MEMORY, INNER_KERNEL_ALLOC,
               BACK_BUFFER_LOCK, SWAP_LOCK, PANIC_PRINT_LOCK, EMERGENCY_PANIC_TERM}
Lock == KernelLock \cup {OUT_CONTIGUOUS(c) : c \in Core} \cup {heap(c) : c \in Core}

VARIABLES
    online,        \* the cores of the machine, all of them in main
    code,          \* the instructions each core has still to execute
    holder, queue, \* who holds a lock, and who waits for it, in this order
    DOUBLE_BUFFER, \* is it set?
    emergency,     \* is EMERGENCY_PANIC_TERM initialized?
    panicked,      \* the cores that panicked
    held_at,       \* ... the locks each held then
    shown          \* ... and those whose message is printed

vars == <<online, code, holder, queue, DOUBLE_BUFFER, emergency, panicked, held_at, shown>>

Init ==
    /\ online \in SUBSET Core \ {{}}
    /\ code = [c \in Core |-> <<>>]
    /\ holder = [l \in Lock |-> None] /\ queue = [l \in Lock |-> <<>>]
    /\ DOUBLE_BUFFER = FALSE /\ emergency = FALSE
    /\ panicked = {} /\ held_at = [c \in Core |-> {}] /\ shown = {}
--------------------------------------------------------------------------------
\* Functions

Do(op) == <<[op |-> op, lock |-> None]>>
Locked(l, body) == <<[op |-> "lock", lock |-> l]>> \o body \o <<[op |-> "unlock", lock |-> l]>>

_print_serial == Locked(SERIAL, <<>>)
Stdout_acquire(body) == Locked(TERM, body)

\* both log levels are Trace; the pieces of the record are one _print_serial
log == Locked(SERIAL_WRITE_LOCK, _print_serial) \o Stdout_acquire(<<>>)

\* Mutant: the text is made on the heap
log_memory_utilization_allocates == Locked(MEMORY, Locked(INNER_KERNEL_ALLOC, <<>>) \o log)

log_memory_utilization == Locked(MEMORY, log)

\* alloc, dealloc and realloc of the heap inside KernelAllocatorWrapper, which logs before;
\* the rescue function logs, maps pages and logs again with MEMORY locked
rescue == log \o Locked(MEMORY, log)
alloc(grows) == Locked(INNER_KERNEL_ALLOC, IF grows THEN rescue ELSE <<>>)

\* println of a program, whose buffer may need memory
user_alloc(c) == Locked(heap(c), rescue)
_print_fmt_contiguous(c, grows) ==
    Locked(OUT_CONTIGUOUS(c), (IF grows THEN user_alloc(c) ELSE <<>>) \o Stdout_acquire(<<>>))

\* WindowInfo::from_placement and new print to the serial port on their way
from_placement == _print_serial
set_window_info == Locked(TERM, from_placement)

\* what is left of switch_to_double_buffer after it has logged and allocated
switch_to_double_buffer == Locked(TERM, <<>>) \o Do("double_buffer")

push_to_frame_buffer == Locked(TERM, Locked(BACK_BUFFER_LOCK, Locked(SWAP_LOCK, <<>>)))
lock_back_buffer == Locked(BACK_BUFFER_LOCK, <<>>)

\* the panic handler; which terminal panic_print takes is decided when it runs
panic_print == Locked(PANIC_PRINT_LOCK, Do("choose"))

\* Mutants: the log comes first; the handler also logs how much memory is in use
panic_logs_first == log \o panic_print \o Do("end")
panic_logs_memory == panic_print \o log_memory_utilization \o Do("end")

panic_handler == panic_print \o log \o Do("end")
Emergency ==
    (IF emergency THEN <<>> ELSE from_placement \o Do("emergency"))
    \o Locked(EMERGENCY_PANIC_TERM, Do("print"))
--------------------------------------------------------------------------------
Instruction(c, op) == code[c] # <<>> /\ Head(code[c]).op = op
Proceed(c) == code' = [code EXCEPT ![c] = Tail(@)]

\* the instruction of a core that waits is the lock operation that made it wait
Waiting(c) == Instruction(c, "lock") /\ c \in Range(queue[Head(code[c]).lock])
Held(c) == {l \in Lock : holder[l] = c}
\* one core, with index 0, switches; its code ends with the instruction that does
Switching == \E c \in Core : code[c] # <<>> /\ code[c][Len(code[c])].op = "double_buffer"

\* What main and the functions it calls do, in any order; a function that holds no lock
\* from one part to the next (print_logo, prepare_application) is so many calls
Calls(c) ==
    {log, log_memory_utilization, from_placement, set_window_info}
    \cup {alloc(grows) : grows \in BOOLEAN}
    \cup {_print_fmt_contiguous(c, grows) : grows \in BOOLEAN}
    \cup {lock_back_buffer}
    \cup {f \in {push_to_frame_buffer} : DOUBLE_BUFFER /\ panicked = {}}
    \cup {f \in {switch_to_double_buffer} : ~DOUBLE_BUFFER /\ ~Switching}

\* the first instruction of f takes a lock
acquire(c, f) ==
    /\ LET l == Head(f).lock
       IN  IF holder[l] = None
           THEN holder' = [holder EXCEPT ![l] = c] /\ code' = [code EXCEPT ![c] = Tail(f)]
                /\ UNCHANGED queue
           ELSE queue' = [queue EXCEPT ![l] = Append(@, c)] /\ code' = [code EXCEPT ![c] = f]
                /\ UNCHANGED holder
    /\ UNCHANGED <<online, DOUBLE_BUFFER, emergency, panicked, held_at, shown>>

Call(c) == code[c] = <<>> /\ \E f \in Calls(c) : acquire(c, f)
lock(c) == Instruction(c, "lock") /\ ~Waiting(c) /\ acquire(c, code[c])

\* the panic handler of a program prints; it may have been called while printing
user_panic(c) ==
    /\ c \notin panicked /\ holder[OUT_CONTIGUOUS(c)] = c
    /\ holder[heap(c)] = None /\ holder[TERM] # c /\ ~Waiting(c)
    /\ acquire(c, _print_fmt_contiguous(c, FALSE))

\* the next in the queue notices that it is its turn
unlock(c) ==
    /\ Instruction(c, "unlock")
    /\ LET l == Head(code[c]).lock
       IN  IF queue[l] = <<>>
           THEN holder' = [holder EXCEPT ![l] = None] /\ Proceed(c) /\ UNCHANGED queue
           ELSE LET next == Head(queue[l])
                IN  /\ holder' = [holder EXCEPT ![l] = next]
                    /\ queue' = [queue EXCEPT ![l] = Tail(@)]
                    /\ code' = [code EXCEPT ![c] = Tail(@), ![next] = Tail(@)]
    /\ UNCHANGED <<online, DOUBLE_BUFFER, emergency, panicked, held_at, shown>>

set_double_buffer(c) ==
    /\ Instruction(c, "double_buffer") /\ Proceed(c)
    /\ DOUBLE_BUFFER' = TRUE
    /\ UNCHANGED <<online, holder, queue, emergency, panicked, held_at, shown>>

\* An exception, whose handler panics, a failed assertion or "Out of memory" strikes
\* code that runs, with whatever locks it holds
panic(c) ==
    /\ ~Waiting(c) /\ c \notin panicked /\ Cardinality(panicked) < MaxPanics[Cardinality(online)]
    /\ panicked' = panicked \cup {c}
    /\ held_at' = [held_at EXCEPT ![c] = Held(c)]
    /\ code' = [code EXCEPT ![c] = panic_handler]
    /\ UNCHANGED <<online, holder, queue, DOUBLE_BUFFER, emergency, shown>>

\* With a double buffer the front buffer is used, after waiting for SWAP_LOCK for a
\* limited time; else TERM if it is free
panic_choose(c) ==
    /\ Instruction(c, "choose")
    /\ LET rest == Tail(code[c])
           With(l, body) == /\ holder[l] = None
                            /\ holder' = [holder EXCEPT ![l] = c]
                            /\ code' = [code EXCEPT ![c] = Tail(Locked(l, body)) \o rest]
           Without(l) == /\ holder[l] # None /\ UNCHANGED holder
                         /\ code' = [code EXCEPT ![c] = Emergency \o rest]
       IN  IF DOUBLE_BUFFER THEN With(SWAP_LOCK, Emergency) \/ Without(SWAP_LOCK)
           ELSE With(TERM, Do("print")) \/ Without(TERM)
    /\ UNCHANGED <<online, queue, DOUBLE_BUFFER, emergency, panicked, held_at, shown>>

emergency_initialized(c) ==
    /\ Instruction(c, "emergency") /\ Proceed(c)
    /\ emergency' = TRUE
    /\ UNCHANGED <<online, holder, queue, DOUBLE_BUFFER, panicked, held_at, shown>>

panic_callback(c) ==
    /\ Instruction(c, "print") /\ Proceed(c)
    /\ shown' = shown \cup {c}
    /\ UNCHANGED <<online, holder, queue, DOUBLE_BUFFER, emergency, panicked, held_at>>

Next == \E c \in online :
    \/ Call(c) \/ user_panic(c) \/ lock(c) \/ unlock(c) \/ set_double_buffer(c)
    \/ panic(c) \/ panic_choose(c) \/ emergency_initialized(c) \/ panic_callback(c)

Spec == Init /\ [][Next]_vars
--------------------------------------------------------------------------------
\* whom a core waits for in the end
WaitsFor(c) == IF Waiting(c) THEN holder[Head(code[c]).lock] ELSE c
Last(c) == LET chain[n \in 0 .. Cardinality(Core)] == IF n = 0 THEN c ELSE WaitsFor(chain[n - 1])
           IN  chain[Cardinality(Core)]
Ended(c) == Instruction(c, "end")
Stuck(c) == Waiting(Last(c)) \/ Ended(Last(c))

\* The locks are taken in an order that all cores keep, although nearly everything logs
\* while it holds other locks: as long as no core panics, whoever waits for a lock
\* waits in the end for a core that runs.  The exception is a program that panics
\* while it prints and waits for its own OUT_CONTIGUOUS; it holds no lock of the kernel.
NoCircularWait ==
    panicked = {} =>
        \A c \in Core : Stuck(c) =>
            Waiting(c) /\ WaitsFor(c) = c /\ Held(c) \cap KernelLock = {}

\* panic_print avoids the locks that may be held: the message of a panic is
\* printed whatever the panicking core and all others held, and with several cores
\* panicking at once, unless SERIAL was held (the window of EMERGENCY_PANIC_TERM
\* prints to the serial port when it is made).
PanicIsShown ==
    (\A d \in panicked : SERIAL \notin held_at[d]) =>
        \A c \in panicked \ shown : ~Stuck(c)

\* The handler gets past log::error!, so that a test run ends with exit_qemu(Failed),
\* whenever no core panicked with a lock of the log or of the screen held.  In
\* particular it does when memory runs out with the heap and MEMORY locked, and when
\* a test fails with MEMORY locked.
PanicHandlerEnds ==
    (\A d \in panicked : held_at[d] \cap {SERIAL_WRITE_LOCK, SERIAL, TERM,
                                           BACK_BUFFER_LOCK, SWAP_LOCK} = {}) =>
        \A c \in panicked : Stuck(c) => Ended(c)
================================================================================
