-------------------------------- MODULE Display --------------------------------
(***************************************************************************)
(* The second half of main (common_main.rs) with the double buffer and the   *)
(* panic path of terminal_out.rs.  Core 0 switches to the double buffer and  *)
(* copies the back buffer to the screen at every timer interrupt; the other  *)
(* cores write to windows of their own, core 1 under lock_back_buffer, core  *)
(* 2 through TERM as well, the rest without a lock.  Any core may panic      *)
(* while it writes.                                                          *)
(*                                                                          *)
(* A window is two rows, drawn and copied one at a time; a row is a bit that *)
(* every drawing flips, so that a window is torn when its rows differ.       *)
(* Locks are ticket locks: the first core of a queue has the lock.           *)
(***************************************************************************)
EXTENDS Naturals, Sequences, FiniteSets

CONSTANTS ap_count,
          MaxPanics,  \* bound on the cores that panic
          Kept        \* the windows whose contents are kept

ASSUME DisplayAssumption == ap_count \in Nat \ {0} /\ MaxPanics \in Nat /\ Kept \subseteq {0, 1}

Core == 0..ap_count
Win == Core                     \* window w is that of core w, window 0 that of TERM
Lock == {"TERM", "BACK_BUFFER_LOCK", "SWAP_LOCK", "PANIC_PRINT_LOCK"}

VARIABLES
    pc, held,               \* held: the queue of each lock
    PANICKED_STOP_PRINTING, DOUBLE_BUFFER, REFRESH_COUNTER, NEW_FRAME_REQUESTED,
    term_win,               \* the windows TERM's window covers
    term_base,              \* where TERM draws: "front" or "back"
    back, front,            \* the two rows of each kept window; those of cores from
                            \* 2 on are drawn without a lock and may always be torn
    row,                    \* rows core 0 has copied
    barrier,                \* cores that arrived at barrier!(ap_count)
    panicked,               \* cores that panicked
    printed, shown,         \* panic messages printed, and those on the screen
    locked_lines            \* auxiliary: core 1 was in its loop when the screen was copied

bufs == <<term_win, term_base, back>>
flags == <<PANICKED_STOP_PRINTING, DOUBLE_BUFFER, REFRESH_COUNTER, NEW_FRAME_REQUESTED>>
msgs == <<panicked, printed, shown>>
vars == <<pc, held, flags, bufs, front, row, barrier, msgs, locked_lines>>

Init ==
    /\ pc = [c \in Core |-> IF c = 0 THEN "switch" ELSE "to_double_buffer"]
    /\ held = [l \in Lock |-> <<>>]
    /\ PANICKED_STOP_PRINTING = FALSE /\ DOUBLE_BUFFER = "none"
    /\ REFRESH_COUNTER = 0 /\ NEW_FRAME_REQUESTED = TRUE
    /\ term_win = Win /\ term_base = "front"
    /\ back = [w \in Kept |-> <<0, 0>>] /\ front = [w \in Kept |-> <<0, 0>>]
    /\ row = 0 /\ barrier = {}
    /\ panicked = {} /\ printed = {} /\ shown = {} /\ locked_lines = FALSE
--------------------------------------------------------------------------------
At(c, label) == pc[c] = label
Goto(c, label) == pc' = [pc EXCEPT ![c] = label]
\* the last ticket of the core is served; one that waits for a lock it already has
\* (a panic with TERM locked, then log::error!) waits for ever
Has(c, l) == /\ held[l] # <<>> /\ Head(held[l]) = c
             /\ \A i \in 2..Len(held[l]) : held[l][i] # c
Released(c, ls) == [l \in Lock |-> IF l \in ls /\ Has(c, l) THEN Tail(held[l]) ELSE held[l]]

\* lock(): take a ticket; the step after waits until it is served
Ticket(c, from, l, to) ==
    /\ At(c, from)
    /\ held' = [held EXCEPT ![l] = Append(@, c)]
    /\ Goto(c, to)
    /\ UNCHANGED <<flags, bufs, front, row, barrier, msgs, locked_lines>>

Upper(buf, ws) == [w \in Kept |-> IF w \in ws THEN <<1 - buf[w][1], buf[w][2]>> ELSE buf[w]]
Lower(buf, ws) == [w \in Kept |-> IF w \in ws THEN <<buf[w][1], buf[w][1]>> ELSE buf[w]]

\* the two halves of drawing in a core's own window, which is in the back buffer
DrawUpper(c, from, to) ==
    /\ At(c, from) /\ Goto(c, to)
    /\ back' = Upper(back, {c})
    /\ UNCHANGED <<held, flags, term_win, term_base, front, row, barrier, msgs, locked_lines>>
DrawLower(c, from, to, ls) ==
    /\ At(c, from) /\ Goto(c, to)
    /\ back' = Lower(back, {c})
    /\ held' = Released(c, ls)
    /\ UNCHANGED <<flags, term_win, term_base, front, row, barrier, msgs, locked_lines>>

\* Stdout::print and print_pixels draw nothing after a panic
TermUpper(c, from, to, after) ==
    /\ At(c, from) /\ Has(c, "TERM")
    /\ IF PANICKED_STOP_PRINTING
       THEN Goto(c, after) /\ held' = Released(c, {"TERM"}) /\ UNCHANGED <<back, front>>
       ELSE /\ Goto(c, to) /\ UNCHANGED held
            /\ back' = IF term_base = "back" THEN Upper(back, term_win) ELSE back
            /\ front' = IF term_base = "front" THEN Upper(front, term_win) ELSE front
    /\ UNCHANGED <<flags, term_win, term_base, row, barrier, msgs, locked_lines>>
TermLower(c, from, after) ==
    /\ At(c, from) /\ Goto(c, after)
    /\ back' = IF term_base = "back" THEN Lower(back, term_win) ELSE back
    /\ front' = IF term_base = "front" THEN Lower(front, term_win) ELSE front
    /\ held' = Released(c, {"TERM"})
    /\ UNCHANGED <<flags, term_win, term_base, row, barrier, msgs, locked_lines>>

\* Stdout::acquire, print, drop
Stdout(c, start, upper, lower, after) ==
    \/ Ticket(c, start, "TERM", upper)
    \/ TermUpper(c, upper, lower, after)
    \/ TermLower(c, lower, after)
--------------------------------------------------------------------------------
(* core 0: switch_to_double_buffer, then the frame loop *)
switch_call_once ==
    /\ At(0, "switch") /\ Goto(0, "trace")
    /\ DOUBLE_BUFFER' = "busy"
    /\ UNCHANGED <<held, PANICKED_STOP_PRINTING, REFRESH_COUNTER, NEW_FRAME_REQUESTED, bufs,
                   front, row, barrier, msgs, locked_lines>>

\* log::trace! inside call_once, log::info! after it
log ==
    \/ Stdout(0, "trace", "trace_upper", "trace_lower", "switch_term")
    \/ Stdout(0, "info", "info_upper", "info_lower", "wait")

switch_term ==
    \/ Ticket(0, "switch_term", "TERM", "switch_base")
    \/ /\ At(0, "switch_base") /\ Has(0, "TERM") /\ Goto(0, "switch_done")
       /\ term_base' = "back"
       /\ held' = Released(0, {"TERM"})
       /\ UNCHANGED <<flags, term_win, back, front, row, barrier, msgs, locked_lines>>

\* call_once stores the value the closure returned
switch_done ==
    /\ At(0, "switch_done") /\ Goto(0, "info")
    /\ DOUBLE_BUFFER' = "set"
    /\ UNCHANGED <<held, PANICKED_STOP_PRINTING, REFRESH_COUNTER, NEW_FRAME_REQUESTED, bufs,
                   front, row, barrier, msgs, locked_lines>>

\* where core 0 takes interrupts; they are held back while it copies
Interruptible == {"wait", "before_hlt", "hlt", "push", "push_term", "push_back", "push_swap"}

\* Mutant: no interrupt while the last request has not been taken up
timer_interrupt_unless_requested ==
    /\ pc[0] \in Interruptible /\ ~NEW_FRAME_REQUESTED
    /\ Goto(0, IF At(0, "hlt") THEN "wait" ELSE pc[0])
    /\ NEW_FRAME_REQUESTED' = TRUE
    /\ UNCHANGED <<held, PANICKED_STOP_PRINTING, DOUBLE_BUFFER, REFRESH_COUNTER, bufs,
                   front, row, barrier, msgs, locked_lines>>

\* the periodic timer of core 0; it ends hlt, but not a hlt that is still to come
timer_interrupt ==
    /\ pc[0] \in Interruptible
    /\ Goto(0, IF At(0, "hlt") THEN "wait" ELSE pc[0])
    /\ NEW_FRAME_REQUESTED' = TRUE
    /\ UNCHANGED <<held, PANICKED_STOP_PRINTING, DOUBLE_BUFFER, REFRESH_COUNTER, bufs,
                   front, row, barrier, msgs, locked_lines>>

\* REFRESH_COUNTER is only compared with 2 and counts no further here
wait_for_frame ==
    /\ At(0, "wait") /\ Goto(0, IF NEW_FRAME_REQUESTED THEN "push" ELSE "before_hlt")
    /\ NEW_FRAME_REQUESTED' = FALSE
    /\ REFRESH_COUNTER' = IF NEW_FRAME_REQUESTED /\ REFRESH_COUNTER < 2
                          THEN REFRESH_COUNTER + 1 ELSE REFRESH_COUNTER
    /\ UNCHANGED <<held, PANICKED_STOP_PRINTING, DOUBLE_BUFFER, bufs, front, row, barrier,
                   msgs, locked_lines>>

\* the core sleeps, whatever an interrupt has set since the test
hlt ==
    /\ At(0, "before_hlt") /\ Goto(0, "hlt")
    /\ UNCHANGED <<held, flags, bufs, front, row, barrier, msgs, locked_lines>>

\* Mutant: push_to_frame_buffer does not look at PANICKED_STOP_PRINTING
push_check_unchecked ==
    /\ At(0, "push")
    /\ Goto(0, "push_term")
    /\ UNCHANGED <<held, flags, bufs, front, row, barrier, msgs, locked_lines>>

push_check ==
    /\ At(0, "push")
    /\ Goto(0, IF PANICKED_STOP_PRINTING THEN "wait" ELSE "push_term")
    /\ UNCHANGED <<held, flags, bufs, front, row, barrier, msgs, locked_lines>>

\* Mutant: the back buffer is copied without BACK_BUFFER_LOCK
push_locks_term_only ==
    \/ Ticket(0, "push_term", "TERM", "push_back")
    \/ Has(0, "TERM") /\ Ticket(0, "push_back", "SWAP_LOCK", "copy")

push_locks ==
    \/ Ticket(0, "push_term", "TERM", "push_back")
    \/ Has(0, "TERM") /\ Ticket(0, "push_back", "BACK_BUFFER_LOCK", "push_swap")
    \/ Has(0, "BACK_BUFFER_LOCK") /\ Ticket(0, "push_swap", "SWAP_LOCK", "copy")

\* copy one row of all windows; a row takes the panic messages in it away
push_copy ==
    /\ At(0, "copy") /\ Has(0, "SWAP_LOCK") /\ row < 2
    /\ front' = [w \in Kept |-> [front[w] EXCEPT ![row + 1] = back[w][row + 1]]]
    /\ row' = row + 1
    /\ shown' = {}
    /\ locked_lines' = IF row = 0 THEN pc[1] \in {"line", "line_upper", "line_lower"}
                       ELSE locked_lines
    /\ UNCHANGED <<pc, held, flags, bufs, barrier, panicked, printed>>

\* Mutant: the guard of BACK_BUFFER_LOCK is leaked
push_done_keeps_back ==
    /\ At(0, "copy") /\ row = 2 /\ Goto(0, "wait")
    /\ row' = 0
    /\ held' = Released(0, {"TERM", "SWAP_LOCK"})
    /\ UNCHANGED <<flags, bufs, front, barrier, msgs, locked_lines>>

push_done ==
    /\ At(0, "copy") /\ row = 2 /\ Goto(0, "wait")
    /\ row' = 0
    /\ held' = Released(0, {"TERM", "BACK_BUFFER_LOCK", "SWAP_LOCK"})
    /\ UNCHANGED <<flags, bufs, front, barrier, msgs, locked_lines>>

bsp_main == \/ switch_call_once \/ log \/ switch_term \/ switch_done
            \/ wait_for_frame \/ hlt \/ push_check \/ push_locks \/ push_copy \/ push_done
--------------------------------------------------------------------------------
(* the other cores *)
Draw(c, upper, lower, after) == DrawUpper(c, upper, lower) \/ DrawLower(c, lower, after, {})

set_to_double_buffer(c) ==
    /\ At(c, "to_double_buffer") /\ DOUBLE_BUFFER = "set" /\ Goto(c, "clear")
    /\ UNCHANGED <<held, flags, bufs, front, row, barrier, msgs, locked_lines>>

wait_refresh(c) ==
    /\ At(c, "refresh") /\ REFRESH_COUNTER >= 2
    /\ Goto(c, IF c = 1 THEN "set_window" ELSE "barrier")
    /\ UNCHANGED <<held, flags, bufs, front, row, barrier, msgs, locked_lines>>

\* core 1 gives TERM the window of core 0 and clears it
set_window_info(c) ==
    \/ Ticket(c, "set_window", "TERM", "set_window_upper")
    \/ /\ At(c, "set_window_upper") /\ Has(c, "TERM") /\ Goto(c, "set_window_lower")
       /\ term_win' = {0}
       /\ back' = Upper(back, {0})
       /\ UNCHANGED <<held, flags, term_base, front, row, barrier, msgs, locked_lines>>
    \/ TermLower(c, "set_window_lower", "barrier")

barrier_arrive(c) ==
    /\ At(c, "barrier") /\ Goto(c, "at_barrier")
    /\ barrier' = barrier \cup {c}
    /\ UNCHANGED <<held, flags, bufs, front, row, msgs, locked_lines>>

barrier_leave(c) ==
    /\ At(c, "at_barrier") /\ barrier = 1..ap_count /\ Goto(c, "clear_again")
    /\ UNCHANGED <<held, flags, bufs, front, row, barrier, msgs, locked_lines>>

\* core 1: lines under lock_back_buffer
lock_back_buffer(c) ==
    \/ Ticket(c, "line", "BACK_BUFFER_LOCK", "line_upper")
    \/ Has(c, "BACK_BUFFER_LOCK") /\ DrawUpper(c, "line_upper", "line_lower")
    \/ DrawLower(c, "line_lower", "line", {"BACK_BUFFER_LOCK"})

\* core 2: a line, and the logo through Stdout
print_logo(c) ==
    \/ Draw(c, "hello", "hello_lower", "logo")
    \/ Stdout(c, "logo", "logo_upper", "logo_lower", "echo")

\* the remaining cores, and then core 2: lines without a lock, the echo of serial input
print_unlocked(c) == Draw(c, "echo", "echo_lower", "echo")

ap_main(c) ==
    \/ set_to_double_buffer(c)
    \/ Draw(c, "clear", "clear_lower", "refresh")
    \/ wait_refresh(c) \/ set_window_info(c) \/ barrier_arrive(c) \/ barrier_leave(c)
    \/ Draw(c, "clear_again", "clear_again_lower",
            IF c = 1 THEN "line" ELSE IF c = 2 THEN "hello" ELSE "echo")
    \/ lock_back_buffer(c) \/ print_logo(c)
--------------------------------------------------------------------------------
(* the panic handler; the locks a core has stay locked *)

\* a core panics while it draws, or when the back buffer cannot be allocated
panic(c) ==
    /\ Cardinality(panicked) < MaxPanics
    /\ pc[c] \in {"trace_lower", "switch_term", "info_lower", "clear_lower", "set_window_lower",
                  "clear_again_lower", "line_lower", "hello_lower", "logo_lower", "echo_lower"}
    /\ panicked' = panicked \cup {c}
    /\ Goto(c, "panic")
    /\ UNCHANGED <<held, flags, bufs, front, row, barrier, printed, shown, locked_lines>>

panic_flag(c) ==
    /\ At(c, "panic") /\ Goto(c, "panic_lock")
    /\ PANICKED_STOP_PRINTING' = TRUE
    /\ UNCHANGED <<held, DOUBLE_BUFFER, REFRESH_COUNTER, NEW_FRAME_REQUESTED, bufs, front, row,
                   barrier, msgs, locked_lines>>

\* Mutant: a panicking core waits for TERM
panic_choose_waits(c) ==
    /\ At(c, "panic_choose") /\ Has(c, "PANIC_PRINT_LOCK")
    /\ \/ DOUBLE_BUFFER = "set" /\ Goto(c, "panic_swap") /\ UNCHANGED held
       \/ /\ DOUBLE_BUFFER # "set" /\ held["TERM"] = <<>> /\ Goto(c, "panic_term")
          /\ held' = [held EXCEPT !["TERM"] = <<c>>]
    /\ UNCHANGED <<flags, bufs, front, row, barrier, msgs, locked_lines>>

\* panic_print: the front buffer if there are two, else TERM if it is free, else the
\* emergency terminal, whose own lock is free under PANIC_PRINT_LOCK
panic_choose(c) ==
    /\ At(c, "panic_choose") /\ Has(c, "PANIC_PRINT_LOCK")
    /\ \/ DOUBLE_BUFFER = "set" /\ Goto(c, "panic_swap") /\ UNCHANGED held
       \/ /\ DOUBLE_BUFFER # "set" /\ held["TERM"] = <<>> /\ Goto(c, "panic_term")
          /\ held' = [held EXCEPT !["TERM"] = <<c>>]
       \/ /\ DOUBLE_BUFFER # "set" /\ held["TERM"] # <<>> /\ Goto(c, "panic_emergency")
          /\ UNCHANGED held
    /\ UNCHANGED <<flags, bufs, front, row, barrier, msgs, locked_lines>>

\* try_lock until the time-out
panic_swap(c) ==
    /\ At(c, "panic_swap") /\ Goto(c, "panic_emergency")
    /\ \/ held["SWAP_LOCK"] = <<>> /\ held' = [held EXCEPT !["SWAP_LOCK"] = <<c>>]
       \/ held["SWAP_LOCK"] # <<>> /\ UNCHANGED held
    /\ UNCHANGED <<flags, bufs, front, row, barrier, msgs, locked_lines>>

\* the callback prints the message, on the screen or where TERM draws
panic_print(c) ==
    /\ pc[c] \in {"panic_term", "panic_emergency"}
    /\ printed' = printed \cup {c}
    /\ shown' = IF At(c, "panic_term") /\ term_base = "back" THEN shown ELSE shown \cup {c}
    /\ held' = Released(c, {"SWAP_LOCK", "PANIC_PRINT_LOCK"} \cup
                           (IF At(c, "panic_term") THEN {"TERM"} ELSE {}))
    /\ Goto(c, "panic_log")
    /\ UNCHANGED <<flags, bufs, front, row, barrier, panicked, locked_lines>>

\* log::error!, which prints nothing to the screen any more; then loop {}
panic_log(c) ==
    \/ Ticket(c, "panic_log", "TERM", "panic_log_print")
    \/ /\ At(c, "panic_log_print") /\ Has(c, "TERM") /\ Goto(c, "halted")
       /\ held' = Released(c, {"TERM"})
       /\ UNCHANGED <<flags, bufs, front, row, barrier, msgs, locked_lines>>

panic_handler(c) ==
    \/ panic_flag(c) \/ Ticket(c, "panic_lock", "PANIC_PRINT_LOCK", "panic_choose")
    \/ panic_choose(c) \/ panic_swap(c) \/ panic_print(c) \/ panic_log(c)
--------------------------------------------------------------------------------
Run(c) == (IF c = 0 THEN bsp_main ELSE ap_main(c)) \/ panic_handler(c)

Next == \/ timer_interrupt
        \/ \E c \in Core : Run(c) \/ panic(c)
        \/ \E c \in 1..ap_count : print_unlocked(c)

Spec == Init /\ [][Next]_vars

\* Every core runs, and the timer is periodic; nobody has to type on the serial line.
FairSpec == Spec /\ WF_vars(timer_interrupt) /\ \A c \in Core : WF_vars(Run(c))
--------------------------------------------------------------------------------
Torn(buf, w) == buf[w][1] # buf[w][2]

\* "Lock terminal to prevent tearing from main out", "Lock back buffer to prevent
\* tearing from other cores (opt in)": between two pushes the screen never shows half
\* of an output of TERM, nor half of a line core 1 wrote under lock_back_buffer.
NoTearing ==
    DOUBLE_BUFFER = "set" /\ row = 0 =>
        \A w \in Kept : w = 0 \/ locked_lines => ~Torn(front, w)

\* the states in which core 0 is in push_to_frame_buffer, past its check of the flag
InPush == {"push_term", "push_back", "push_swap", "copy"}

\* Panic messages that are on the screen while no push is under way stay there (a
\* push takes all of them away): no later push_to_frame_buffer gets past
\* PANICKED_STOP_PRINTING, though core 0 goes on with its frame loop.
PanicStaysOnScreen ==
    []((shown # {} /\ pc[0] \notin InPush) => [](shown # {}))

\* A core that panics gets its message printed, whatever it and the other cores hold
\* of the locks of this module, also if they panicked themselves.
PanicReported == \A c \in Core : (c \in panicked) ~> (c \in printed)

\* Without panics all cores get through the start of main, and core 0 begins and
\* completes a copy of the screen again and again: although core 1 takes
\* BACK_BUFFER_LOCK over and over, and although core 0 may fall asleep in hlt with a
\* frame requested since its test of NEW_FRAME_REQUESTED.
FramesKeepComing ==
    [](panicked = {}) => []<>(row = 0) /\ []<>(row = 2) /\ <>(barrier = 1..ap_count)
================================================================================
