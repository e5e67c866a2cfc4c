------------------------------ MODULE DisplayProofs ------------------------------
(***************************************************************************)
(* The screen never shows half an output, and a panic message stays on it,    *)
(* for every number of cores and of panics.                                   *)
(*                                                                           *)
(* Every action is first reduced to its effect on the queues, the buffers and *)
(* the labels (Shape, lemma ShapeStep); the invariant Inv is then proved from *)
(* the effects.  The heart of it: BackRows says who is to blame when the      *)
(* terminal's window is torn in the back buffer, a core that has TERM first   *)
(* and has not drawn the lower row, or never will because it panicked, and    *)
(* FrontRows that the rows core 0 has copied still are what the back buffer   *)
(* has, since it holds TERM and BACK_BUFFER_LOCK while it copies.             *)
(***************************************************************************)
EXTENDS Display, TLAPS

\* Core 0 before DOUBLE_BUFFER is set, and after it
Early == {"switch", "trace", "trace_upper", "trace_lower", "switch_term", "switch_base",
          "switch_done"}
Late == {"info", "info_upper", "info_lower", "wait", "before_hlt", "hlt", "push", "push_term",
         "push_back", "push_swap", "copy"}
\* A core that has drawn the upper row through TERM and not the lower one
Half == {"trace_lower", "info_lower", "set_window_lower", "logo_lower"}
\* Core 1 once it has given TERM the window of core 0
Narrow == {"set_window_lower", "barrier", "at_barrier", "clear_again", "clear_again_lower",
           "line", "line_upper", "line_lower"}
\* A panicked core that has kept whatever locks it had, up to log::error!
Lost == {"panic", "panic_lock", "panic_choose", "panic_swap", "panic_emergency", "panic_log",
         "panic_log_print"}

\* The first ticket of the queue is one of core c, and a later one is
First(c, l) == held[l] # <<>> /\ held[l][1] = c
Again(c, l) == \E i \in 2 .. Len(held[l]) : held[l][i] = c

\* The two rows of a window
Rows == {0, 1} \X {0, 1}
\* The types of the variables the proof needs
Typed ==
    /\ pc = [c \in Core |-> pc[c]] /\ held \in [Lock -> Seq(Core)]
    /\ back \in [Kept -> Rows] /\ front \in [Kept -> Rows] /\ row \in {0, 1, 2}
    /\ locked_lines \in BOOLEAN /\ term_base \in {"front", "back"}

\* No other core leaves to_double_buffer before DOUBLE_BUFFER is set, from then on TERM
\* draws in the back buffer, before that on the screen
Phases ==
    /\ pc[0] \in Early => DOUBLE_BUFFER # "set"
    /\ pc[0] \in Late => DOUBLE_BUFFER = "set"
    /\ DOUBLE_BUFFER # "set" =>
          ~locked_lines /\ \A c \in 1..ap_count : pc[c] = "to_double_buffer"
    /\ DOUBLE_BUFFER = "set" \/ pc[0] = "switch_done" => term_base = "back"
    /\ pc[0] \in Early \ {"switch_done"} => term_base = "front"
    /\ row # 0 => pc[0] = "copy"

\* TERM always covers window 0, and nothing else once core 1 has given it that window
TermWindow == 0 \in term_win /\ (pc[1] \in Narrow => term_win = {0})

\* The locks a core has at a label: TERM while half an output is drawn, while the back
\* buffer is copied and in the panic handler's print through TERM, BACK_BUFFER_LOCK
\* while half a line of core 1 is drawn and while the back buffer is copied
Locking ==
    /\ \A c \in Core : pc[c] \in Half \cup {"push_swap", "copy", "panic_term"} => Has(c, "TERM")
    /\ \A c \in Core : pc[c] \in {"line_lower", "copy"} => Has(c, "BACK_BUFFER_LOCK")

\* Core c has TERM and half an output drawn, or it panicked with TERM locked: its
\* log::error! then queues behind itself and waits for ever
Unfinished(c) ==
    /\ First(c, "TERM")
    /\ pc[c] \in Half \/ (pc[c] \in Lost /\ (pc[c] = "panic_log_print" => Again(c, "TERM")))
\* Window 0 is torn in the back buffer only through a core that still has TERM, the
\* window of core 1 never between two of its locked lines
BackRows ==
    /\ 0 \in Kept /\ Torn(back, 0) => term_base = "back" /\ \E c \in Core : Unfinished(c)
    /\ 1 \in Kept /\ pc[1] \in {"line", "line_upper"} => ~Torn(back, 1)

\* The windows a copy must not show torn: that of TERM, and that of core 1 in its loop
Tearless(w) == w = 0 \/ locked_lines
\* While core 0 copies, core 1 does not get past lock_back_buffer and the copied rows
\* are those of the back buffer; before the switch, core 0 alone draws on the screen;
\* and the screen is not torn between two pushes
FrontRows ==
    /\ pc[0] = "copy" /\ row # 0 /\ locked_lines => pc[1] \in {"line", "line_upper"}
    /\ pc[0] = "copy" => \A w \in Kept : Tearless(w) =>
          (row # 0 => front[w][1] = back[w][1]) /\ (row = 2 => front[w][2] = back[w][2])
    /\ pc[0] \in Early \ {"trace_lower"} /\ 0 \in Kept => ~Torn(front, 0)
    /\ NoTearing

\* A panicked core past the store to PANICKED_STOP_PRINTING
Flagged == {"panic_lock", "panic_choose", "panic_swap", "panic_emergency", "panic_term", "panic_log",
            "panic_log_print"}
\* A panic message is on the screen only after PANICKED_STOP_PRINTING was set
Told == /\ shown # {} => PANICKED_STOP_PRINTING
        /\ \A c \in Core : pc[c] \in Flagged => PANICKED_STOP_PRINTING
--------------------------------------------------------------------------------
\* Core d goes from one of the labels from to one of the labels to
Moves(d, from, to) ==
    /\ pc[d] \in from /\ pc'[d] \in to /\ \A c \in Core \ {d} : pc'[c] = pc[c]
    /\ pc' = [c \in Core |-> pc'[c]]

\* What a step of core d may do to the queue of lock l
QueueStep(d, l) ==
    \/ held'[l] = held[l] \/ held'[l] = Append(held[l], d)
    \/ Has(d, l) /\ held'[l] = Tail(held[l])

Queues(d) == held' = [l \in Lock |-> held'[l]] /\ \A l \in Lock : QueueStep(d, l)

\* Core 0 in its frame loop, before it has two of the locks of a push
Idle == {"wait", "before_hlt", "hlt", "push", "push_term", "push_back"}

\* Steps that draw nothing
QuietBsp ==
    \/ Moves(0, {"switch"}, {"trace"}) /\ DOUBLE_BUFFER' # "set"
    \/ Moves(0, {"switch_done"}, {"info"}) /\ DOUBLE_BUFFER' = "set"
    \/ /\ UNCHANGED DOUBLE_BUFFER
       /\ \/ Moves(0, {"trace", "trace_upper", "switch_term"}, {"trace_upper", "switch_term", "switch_base"})
          \/ Moves(0, {"info", "info_upper", "push_swap"} \cup Idle, {"info_upper"} \cup Idle)
          \/ Moves(0, {"push_swap"}, {"push_swap"}) /\ held' = held
          \/ Moves(0, {"push_back"}, {"push_swap"}) /\ Has(0, "TERM") /\ held'["TERM"] = held["TERM"]
          \/ /\ Moves(0, {"push_swap"}, {"copy"}) /\ Has(0, "BACK_BUFFER_LOCK")
             /\ \A l \in {"TERM", "BACK_BUFFER_LOCK"} : held'[l] = held[l]
QuietAp(d) ==
    /\ d # 0 /\ UNCHANGED DOUBLE_BUFFER
    /\ \/ Moves(d, {"to_double_buffer"}, {"clear"}) /\ DOUBLE_BUFFER = "set"
       \/ Moves(d, {"refresh"}, {"set_window"}) \/ (d # 1 /\ Moves(d, {"refresh"}, {"barrier"}))
       \/ Moves(d, {"barrier"}, {"at_barrier"}) \/ Moves(d, {"at_barrier"}, {"clear_again"})
       \/ Moves(d, {"set_window"}, {"set_window_upper"}) \/ Moves(d, {"line"}, {"line_upper"})
       \/ Moves(d, {"logo", "logo_upper"}, {"logo_upper", "echo"})
QuietPanic(d) ==
    /\ UNCHANGED DOUBLE_BUFFER
    /\ \/ Moves(d, Half \cup {"switch_term", "clear_lower", "clear_again_lower", "line_lower",
                               "hello_lower", "echo_lower"}, {"panic"}) /\ held' = held
       \/ /\ Moves(d, Lost \ {"panic_log", "panic_log_print"}, Lost \ {"panic", "panic_log_print"})
          /\ held'["TERM"] = held["TERM"]
       \/ Moves(d, {"panic_log"}, {"panic_log_print"}) /\ held'["TERM"] = Append(held["TERM"], d)
       \/ Moves(d, {"panic_log_print"}, {"halted"}) /\ Has(d, "TERM")
       \/ Moves(d, {"panic_choose"}, {"panic_term"}) /\ held["TERM"] = <<>> /\ held'["TERM"] = <<d>>
       \/ Moves(d, {"panic_term"}, {"panic_log"})
Quiet(d) ==
    /\ UNCHANGED <<bufs, front, row, locked_lines>>
    /\ (d = 0 /\ QuietBsp) \/ QuietAp(d) \/ QuietPanic(d)

\* Drawing through TERM, the upper row and the lower one
DrawsTermUpper(d) ==
    /\ UNCHANGED <<term_win, term_base, row, locked_lines, DOUBLE_BUFFER>>
    /\ Has(d, "TERM") /\ held' = held
    /\ \/ d = 0 /\ Moves(0, {"trace_upper"}, {"trace_lower"})
       \/ d = 0 /\ Moves(0, {"info_upper"}, {"info_lower"})
       \/ d # 0 /\ Moves(d, {"logo_upper"}, {"logo_lower"})
    /\ back' = IF term_base = "back" THEN Upper(back, term_win) ELSE back
    /\ front' = IF term_base = "front" THEN Upper(front, term_win) ELSE front
DrawsTermLower(d) ==
    /\ UNCHANGED <<term_win, term_base, row, locked_lines, DOUBLE_BUFFER>>
    /\ \/ d = 0 /\ Moves(0, {"trace_lower"}, {"switch_term"})
       \/ d = 0 /\ Moves(0, {"info_lower"}, {"wait"})
       \/ d # 0 /\ Moves(d, {"set_window_lower"}, {"barrier"})
       \/ d # 0 /\ Moves(d, {"logo_lower"}, {"echo"})
    /\ back' = IF term_base = "back" THEN Lower(back, term_win) ELSE back
    /\ front' = IF term_base = "front" THEN Lower(front, term_win) ELSE front
SetsWindow(d) ==
    /\ UNCHANGED <<term_base, front, row, locked_lines, DOUBLE_BUFFER>>
    /\ Has(d, "TERM") /\ held' = held
    /\ d # 0 /\ Moves(d, {"set_window_upper"}, {"set_window_lower"})
    /\ term_win' = {0} /\ back' = Upper(back, {0})

\* Drawing in the core's own window
DrawsOwnUpper(d) ==
    /\ UNCHANGED <<term_win, term_base, front, row, locked_lines, DOUBLE_BUFFER>>
    /\ d # 0 /\ held' = held
    /\ \/ Moves(d, {"clear"}, {"clear_lower"}) \/ Moves(d, {"clear_again"}, {"clear_again_lower"})
       \/ Moves(d, {"line_upper"}, {"line_lower"}) /\ Has(d, "BACK_BUFFER_LOCK")
       \/ Moves(d, {"hello", "echo"}, {"hello_lower", "echo_lower"})
    /\ back' = Upper(back, {d})
DrawsOwnLower(d) ==
    /\ UNCHANGED <<term_win, term_base, front, row, locked_lines, DOUBLE_BUFFER>>
    /\ d # 0 /\ held'["TERM"] = held["TERM"]
    /\ \/ Moves(d, {"clear_lower"}, {"refresh"})
       \/ Moves(d, {"clear_again_lower", "line_lower", "hello_lower", "echo_lower"},
                   {"hello", "logo", "echo"})
       \/ Moves(d, {"clear_again_lower", "line_lower"}, {"line"})
    /\ back' = Lower(back, {d})

\* switch_to_double_buffer redirects TERM
Switches ==
    /\ UNCHANGED <<term_win, back, front, row, locked_lines, DOUBLE_BUFFER>>
    /\ Has(0, "TERM") /\ Moves(0, {"switch_base"}, {"switch_done"}) /\ term_base' = "back"
\* push_to_frame_buffer copies one row, and gives back its locks after the second
Copies ==
    /\ UNCHANGED <<bufs, held, pc, DOUBLE_BUFFER>> /\ pc[0] = "copy" /\ row < 2 /\ row' = row + 1
    /\ front' = [w \in Kept |-> [front[w] EXCEPT ![row + 1] = back[w][row + 1]]]
    /\ locked_lines' = IF row = 0 THEN pc[1] \in {"line", "line_upper", "line_lower"} ELSE locked_lines
Finishes ==
    /\ UNCHANGED <<bufs, front, locked_lines, DOUBLE_BUFFER>> /\ row = 2 /\ row' = 0
    /\ Moves(0, {"copy"}, {"wait"})

\* A step of core d
Shape(d) ==
    /\ Queues(d)
    /\ \/ Quiet(d) \/ DrawsTermUpper(d) \/ DrawsTermLower(d) \/ SetsWindow(d)
       \/ DrawsOwnUpper(d) \/ DrawsOwnLower(d)
       \/ d = 0 /\ (Switches \/ Copies \/ Finishes)
--------------------------------------------------------------------------------
\* lock(), try_lock() and dropping guards change each queue by one ticket at most
LEMMA QueueSteps ==
    ASSUME Typed, NEW c \in Core, NEW k \in Lock, NEW ls,
           \/ held' = held \/ held' = [held EXCEPT ![k] = Append(held[k], c)]
           \/ held' = Released(c, ls)
           \/ held[k] = <<>> /\ held' = [held EXCEPT ![k] = <<c>>]
    PROVE  Queues(c)
<1>1. CASE held' = held
  BY <1>1, Zenon DEF Queues, QueueStep, Typed
<1>2. CASE held' = [held EXCEPT ![k] = Append(held[k], c)]
  BY <1>2, Zenon DEF Queues, QueueStep, Typed
<1>3. CASE held' = Released(c, ls)
  BY <1>3, Zenon DEF Queues, QueueStep, Released, Typed
<1>4. CASE held[k] = <<>> /\ held' = [held EXCEPT ![k] = <<c>>]
  <2>1. held'[k] = <<c>> /\ \A l \in Lock \ {k} : held'[l] = held[l]
    BY <1>4, Zenon DEF Typed
  <2>2. held' = [l \in Lock |-> held'[l]]
    BY <1>4, Zenon DEF Typed
  <2>3. <<c>> = Append(held[k], c)
    BY <1>4
  <2> QED  BY <2>1, <2>2, <2>3, Zenon DEF Queues, QueueStep
<1> QED
  BY <1>1, <1>2, <1>3, <1>4, Zenon

\* Goto changes the label of the core that runs and no other
LEMMA GotoMoves ==
    ASSUME Typed, NEW c \in Core, NEW from, pc[c] = from, NEW to, Goto(c, to)
    PROVE  pc'[c] = to /\ Moves(c, {from}, {to})
  BY Zenon DEF Typed, Goto, Moves

\* The effect of taking a ticket (lock)
LEMMA Tickets ==
    ASSUME Typed, NEW c \in Core, NEW from, NEW k \in Lock, NEW to, Ticket(c, from, k, to)
    PROVE  /\ Moves(c, {from}, {to}) /\ Queues(c)
           /\ UNCHANGED <<bufs, front, row, locked_lines, DOUBLE_BUFFER>>
           /\ held'[k] = Append(held[k], c) /\ \A l \in Lock \ {k} : held'[l] = held[l]
<1>1. held' = [held EXCEPT ![k] = Append(held[k], c)]
  BY Zenon DEF Ticket
<1>2. Moves(c, {from}, {to})
  BY GotoMoves, Zenon DEF Ticket, At
<1>3. Queues(c)
  BY <1>1, QueueSteps, Zenon
<1> QED
  BY <1>1, <1>2, <1>3, Zenon DEF Ticket, flags, Typed

\* The effect of the first half of Stdout::print: nothing after a panic, else the upper
\* row where TERM draws
LEMMA TermUppers ==
    ASSUME Typed, NEW c \in Core, NEW from, NEW to, NEW after, TermUpper(c, from, to, after)
    PROVE  /\ Queues(c)
           /\ \/ Moves(c, {from}, {after}) /\ UNCHANGED <<bufs, front, row, locked_lines, DOUBLE_BUFFER>>
              \/ /\ Moves(c, {from}, {to}) /\ Has(c, "TERM") /\ held' = held
                 /\ UNCHANGED <<term_win, term_base, row, locked_lines, DOUBLE_BUFFER>>
                 /\ back' = IF term_base = "back" THEN Upper(back, term_win) ELSE back
                 /\ front' = IF term_base = "front" THEN Upper(front, term_win) ELSE front
<1>0. "TERM" \in Lock
  BY Zenon DEF Lock
<1>1. pc[c] = from /\ Has(c, "TERM") /\ UNCHANGED <<term_win, term_base, row, locked_lines, DOUBLE_BUFFER>>
  BY Zenon DEF TermUpper, At, flags
<1>2. CASE PANICKED_STOP_PRINTING
  <2>1. Goto(c, after) /\ held' = Released(c, {"TERM"}) /\ UNCHANGED <<back, front>>
    BY <1>2, Zenon DEF TermUpper
  <2>2. Queues(c)
    BY <1>0, <2>1, QueueSteps, Zenon
  <2>3. Moves(c, {from}, {after})
    BY <1>1, <2>1, GotoMoves, Zenon
  <2> QED  BY <1>1, <2>1, <2>2, <2>3, Zenon DEF bufs
<1>3. CASE ~PANICKED_STOP_PRINTING
  <2>1. /\ Goto(c, to) /\ held' = held
        /\ back' = IF term_base = "back" THEN Upper(back, term_win) ELSE back
        /\ front' = IF term_base = "front" THEN Upper(front, term_win) ELSE front
    BY <1>3, Zenon DEF TermUpper
  <2>2. Queues(c)
    BY <1>0, <2>1, QueueSteps, Zenon
  <2>3. Moves(c, {from}, {to})
    BY <1>1, <2>1, GotoMoves, Zenon
  <2> QED  BY <1>1, <2>1, <2>2, <2>3, Zenon
<1> QED
  BY <1>2, <1>3, Zenon

\* The effect of the second half of Stdout::print
LEMMA TermLowers ==
    ASSUME Typed, NEW c \in Core, NEW from, NEW after, TermLower(c, from, after)
    PROVE  /\ Queues(c)
           /\ Moves(c, {from}, {after})
           /\ UNCHANGED <<term_win, term_base, row, locked_lines, DOUBLE_BUFFER>>
           /\ back' = IF term_base = "back" THEN Lower(back, term_win) ELSE back
           /\ front' = IF term_base = "front" THEN Lower(front, term_win) ELSE front
<1>0. "TERM" \in Lock /\ held' = Released(c, {"TERM"}) /\ pc[c] = from /\ Goto(c, after)
  BY Zenon DEF Lock, TermLower, At
<1>1. Queues(c) /\ Moves(c, {from}, {after})
  BY <1>0, QueueSteps, GotoMoves, Zenon
<1> QED
  BY <1>1, Zenon DEF TermLower, flags

\* The effect of the first half of drawing in a core's own window
LEMMA DrawUppers ==
    ASSUME Typed, NEW c \in Core, NEW from, NEW to, DrawUpper(c, from, to)
    PROVE  /\ Queues(c)
           /\ Moves(c, {from}, {to}) /\ held' = held /\ back' = Upper(back, {c})
           /\ UNCHANGED <<term_win, term_base, front, row, locked_lines, DOUBLE_BUFFER>>
<1>0. "TERM" \in Lock /\ held' = held /\ pc[c] = from /\ Goto(c, to)
  BY Zenon DEF Lock, DrawUpper, At
<1>1. Queues(c) /\ Moves(c, {from}, {to})
  BY <1>0, QueueSteps, GotoMoves, Zenon
<1> QED
  BY <1>0, <1>1, Zenon DEF DrawUpper, flags

\* The effect of the second half of drawing in a core's own window, which never gives
\* TERM back
LEMMA DrawLowers ==
    ASSUME Typed, NEW c \in Core, NEW from, NEW to, NEW ls, "TERM" \notin ls, DrawLower(c, from, to, ls)
    PROVE  /\ Queues(c)
           /\ Moves(c, {from}, {to}) /\ held'["TERM"] = held["TERM"] /\ back' = Lower(back, {c})
           /\ UNCHANGED <<term_win, term_base, front, row, locked_lines, DOUBLE_BUFFER>>
<1>0. "TERM" \in Lock /\ held' = Released(c, ls) /\ pc[c] = from /\ Goto(c, to)
  BY Zenon DEF Lock, DrawLower, At
<1>1. Queues(c) /\ Moves(c, {from}, {to})
  BY <1>0, QueueSteps, GotoMoves, Zenon
<1>2. held'["TERM"] = held["TERM"]
  BY <1>0, Zenon DEF Released
<1> QED
  BY <1>1, <1>2, Zenon DEF DrawLower, flags
--------------------------------------------------------------------------------
\* Cores 0 and 1 exist (main needs an application processor to draw), the others are
\* the application processors
LEMMA Cores ==
    /\ 0 \in Core /\ 1 \in Core /\ \A c : c \in 1..ap_count <=> c \in Core /\ c # 0
    /\ \A l \in {"TERM", "BACK_BUFFER_LOCK", "SWAP_LOCK", "PANIC_PRINT_LOCK"} : l \in Lock
  BY DisplayAssumption DEF Core, Lock

\* The timer interrupt, wait_for_frame, hlt and the check of PANICKED_STOP_PRINTING draw
\* nothing and change no queue
LEMMA TimerShape ==
    ASSUME Typed, timer_interrupt \/ wait_for_frame \/ hlt \/ push_check
    PROVE  Shape(0)
<1>1. /\ UNCHANGED <<bufs, front, row, locked_lines, DOUBLE_BUFFER, held>>
      /\ \/ pc[0] = "push_swap" /\ Goto(0, "push_swap")
         \/ pc[0] \in Idle /\ \E to \in Idle : Goto(0, to)
  BY Zenon DEF timer_interrupt, wait_for_frame, hlt, push_check, Interruptible, Idle, At, flags
<1>2. \/ Moves(0, {"push_swap"}, {"push_swap"})
      \/ Moves(0, {"info", "info_upper", "push_swap"} \cup Idle, {"info_upper"} \cup Idle)
  BY <1>1, Cores, GotoMoves, Zenon DEF Moves
<1>3. Queues(0)
  BY <1>1, Cores, QueueSteps, Zenon
<1> QED
  BY <1>1, <1>2, <1>3, Zenon DEF Shape, Quiet, QuietBsp, Idle

\* Every step of core 0 in main has one of the effects
LEMMA BspShape ==
    ASSUME Typed, bsp_main
    PROVE  Shape(0)
<1>0. 0 \in Core /\ "TERM" \in Lock
  BY Cores, Zenon
<1>1. ASSUME switch_call_once \/ switch_done PROVE Shape(0)
  <2>1. /\ held' = held /\ UNCHANGED <<bufs, front, row, locked_lines>>
        /\ \/ pc[0] = "switch" /\ Goto(0, "trace") /\ DOUBLE_BUFFER' = "busy"
           \/ pc[0] = "switch_done" /\ Goto(0, "info") /\ DOUBLE_BUFFER' = "set"
    BY <1>1, Zenon DEF switch_call_once, switch_done, At
  <2>2. \/ Moves(0, {"switch"}, {"trace"}) /\ DOUBLE_BUFFER' # "set"
        \/ Moves(0, {"switch_done"}, {"info"}) /\ DOUBLE_BUFFER' = "set"
    BY <1>0, <2>1, GotoMoves, Zenon
  <2>3. Queues(0)
    BY <1>0, <2>1, QueueSteps, Zenon
  <2> QED  BY <2>1, <2>2, <2>3, Zenon DEF Shape, Quiet, QuietBsp, Idle
<1>2. ASSUME log PROVE Shape(0)
  <2>1. CASE Ticket(0, "trace", "TERM", "trace_upper") \/ Ticket(0, "info", "TERM", "info_upper")
    <3>1. /\ Queues(0)
          /\ UNCHANGED <<bufs, front, row, locked_lines, DOUBLE_BUFFER>>
          /\ Moves(0, {"trace"}, {"trace_upper"}) \/ Moves(0, {"info"}, {"info_upper"})
      BY <1>0, <2>1, Tickets, Zenon
    <3> QED  BY <3>1, Zenon DEF Shape, Quiet, QuietBsp, Idle, Moves
  <2>2. CASE \/ TermUpper(0, "trace_upper", "trace_lower", "switch_term")
             \/ TermUpper(0, "info_upper", "info_lower", "wait")
    <3>1. /\ Queues(0)
          /\ \/ /\ UNCHANGED <<bufs, front, row, locked_lines, DOUBLE_BUFFER>>
                /\ Moves(0, {"trace_upper"}, {"switch_term"}) \/ Moves(0, {"info_upper"}, {"wait"})
             \/ /\ Moves(0, {"trace_upper"}, {"trace_lower"}) \/ Moves(0, {"info_upper"}, {"info_lower"})
                /\ Has(0, "TERM") /\ held' = held
                /\ UNCHANGED <<term_win, term_base, row, locked_lines, DOUBLE_BUFFER>>
                /\ back' = IF term_base = "back" THEN Upper(back, term_win) ELSE back
                /\ front' = IF term_base = "front" THEN Upper(front, term_win) ELSE front
      BY <1>0, <2>2, TermUppers, Zenon
    <3> QED  BY <3>1, Zenon DEF Shape, Quiet, QuietBsp, Idle, DrawsTermUpper, Moves
  <2>3. CASE TermLower(0, "trace_lower", "switch_term") \/ TermLower(0, "info_lower", "wait")
    <3>1. /\ Queues(0)
          /\ Moves(0, {"trace_lower"}, {"switch_term"}) \/ Moves(0, {"info_lower"}, {"wait"})
          /\ UNCHANGED <<term_win, term_base, row, locked_lines, DOUBLE_BUFFER>>
          /\ back' = IF term_base = "back" THEN Lower(back, term_win) ELSE back
          /\ front' = IF term_base = "front" THEN Lower(front, term_win) ELSE front
      BY <1>0, <2>3, TermLowers, Zenon
    <3> QED  BY <3>1, Zenon DEF Shape, DrawsTermLower
  <2> QED  BY <1>2, <2>1, <2>2, <2>3, Zenon DEF log, Stdout
<1>3. ASSUME switch_term PROVE Shape(0)
  <2>1. CASE Ticket(0, "switch_term", "TERM", "switch_base")
    <3>1. /\ Queues(0)
          /\ UNCHANGED <<bufs, front, row, locked_lines, DOUBLE_BUFFER>>
          /\ Moves(0, {"switch_term"}, {"switch_base"})
      BY <1>0, <2>1, Tickets, Zenon
    <3> QED  BY <3>1, Zenon DEF Shape, Quiet, QuietBsp, Idle, Moves
  <2>2. CASE ~Ticket(0, "switch_term", "TERM", "switch_base")
    <3>1. /\ pc[0] = "switch_base" /\ Goto(0, "switch_done") /\ held' = Released(0, {"TERM"})
          /\ UNCHANGED <<term_win, back, front, row, locked_lines, DOUBLE_BUFFER>>
          /\ Has(0, "TERM") /\ term_base' = "back"
      BY <1>3, <2>2, Zenon DEF switch_term, At, flags
    <3>2. Queues(0) /\ Moves(0, {"switch_base"}, {"switch_done"})
      BY <1>0, <3>1, QueueSteps, GotoMoves, Zenon
    <3> QED  BY <3>1, <3>2, Zenon DEF Shape, Switches
  <2> QED  BY <2>1, <2>2, Zenon
<1>4. ASSUME push_locks PROVE Shape(0)
  <2>1. CASE Ticket(0, "push_term", "TERM", "push_back")
    <3>1. /\ Queues(0)
          /\ UNCHANGED <<bufs, front, row, locked_lines, DOUBLE_BUFFER>>
          /\ Moves(0, {"push_term"}, {"push_back"})
      BY <1>0, <2>1, Tickets, Zenon
    <3> QED  BY <3>1, Zenon DEF Shape, Quiet, QuietBsp, Idle, Moves
  <2>2. CASE Has(0, "TERM") /\ Ticket(0, "push_back", "BACK_BUFFER_LOCK", "push_swap")
    <3>1. /\ Queues(0)
          /\ UNCHANGED <<bufs, front, row, locked_lines, DOUBLE_BUFFER>>
          /\ Moves(0, {"push_back"}, {"push_swap"}) /\ held'["TERM"] = held["TERM"]
      BY <2>2, Cores, Tickets, Zenon
    <3> QED  BY <2>2, <3>1, Zenon DEF Shape, Quiet, QuietBsp, Idle
  <2>3. CASE Has(0, "BACK_BUFFER_LOCK") /\ Ticket(0, "push_swap", "SWAP_LOCK", "copy")
    <3>1. /\ Queues(0)
          /\ UNCHANGED <<bufs, front, row, locked_lines, DOUBLE_BUFFER>>
          /\ Moves(0, {"push_swap"}, {"copy"})
          /\ \A l \in {"TERM", "BACK_BUFFER_LOCK"} : held'[l] = held[l]
      BY <2>3, Cores, Tickets, ZenonT(60)
    <3> QED  BY <2>3, <3>1, Zenon DEF Shape, Quiet, QuietBsp, Idle
  <2> QED  BY <1>4, <2>1, <2>2, <2>3, Zenon DEF push_locks
<1>5. ASSUME push_copy PROVE Shape(0)
  <2>1. Queues(0)
    BY <1>5, Zenon DEF push_copy, Queues, QueueStep, Typed
  <2> QED  BY <1>5, <2>1, Zenon DEF push_copy, Shape, Copies, At, flags
<1>6. ASSUME push_done PROVE Shape(0)
  <2>1. /\ pc[0] = "copy" /\ row = 2 /\ Goto(0, "wait") /\ row' = 0
        /\ held' = Released(0, {"TERM", "BACK_BUFFER_LOCK", "SWAP_LOCK"})
        /\ UNCHANGED <<bufs, front, locked_lines, DOUBLE_BUFFER>>
    BY <1>6, Zenon DEF push_done, At, flags
  <2>2. Queues(0) /\ Moves(0, {"copy"}, {"wait"})
    BY <1>0, <2>1, QueueSteps, GotoMoves, Zenon
  <2> QED  BY <2>1, <2>2, Zenon DEF Shape, Finishes
<1> QED
  BY <1>1, <1>2, <1>3, <1>4, <1>5, <1>6, TimerShape, Zenon DEF bsp_main

\* Every step of another core in main has one of the effects
LEMMA ApShape ==
    ASSUME Typed, NEW d \in Core, d # 0, ap_main(d) \/ print_unlocked(d)
    PROVE  Shape(d)
<1>0. "TERM" \in Lock /\ "BACK_BUFFER_LOCK" \in Lock
  BY Cores, Zenon
<1>1. ASSUME set_to_double_buffer(d) \/ wait_refresh(d) \/ barrier_arrive(d) \/ barrier_leave(d)
      PROVE  Shape(d)
  <2>1. /\ held' = held /\ UNCHANGED <<bufs, front, row, locked_lines, DOUBLE_BUFFER>>
        /\ \/ pc[d] = "to_double_buffer" /\ Goto(d, "clear") /\ DOUBLE_BUFFER = "set"
           \/ pc[d] = "refresh" /\ Goto(d, "set_window")
           \/ pc[d] = "refresh" /\ Goto(d, "barrier") /\ d # 1
           \/ pc[d] = "barrier" /\ Goto(d, "at_barrier")
           \/ pc[d] = "at_barrier" /\ Goto(d, "clear_again")
    BY <1>1, Zenon DEF set_to_double_buffer, wait_refresh, barrier_arrive, barrier_leave, At, flags
  <2>2. Queues(d)
    BY <2>1, <1>0, QueueSteps, Zenon
  <2>3. \A from, to : pc[d] = from /\ Goto(d, to) => Moves(d, {from}, {to})
    BY GotoMoves, Zenon
  <2>4. QuietAp(d)
    BY <2>1, <2>3, Zenon DEF QuietAp
  <2> QED  BY <2>1, <2>2, <2>4, Zenon DEF Shape, Quiet
<1>2. ASSUME NEW from, NEW to, DrawUpper(d, from, to),
             \/ <<from, to>> \in {<<"clear", "clear_lower">>, <<"clear_again", "clear_again_lower">>,
                                  <<"hello", "hello_lower">>, <<"echo", "echo_lower">>}
             \/ from = "line_upper" /\ to = "line_lower" /\ Has(d, "BACK_BUFFER_LOCK")
      PROVE  Shape(d)
  <2>1. /\ Queues(d)
        /\ Moves(d, {from}, {to}) /\ held' = held /\ back' = Upper(back, {d})
        /\ UNCHANGED <<term_win, term_base, front, row, locked_lines, DOUBLE_BUFFER>>
    BY Zenon, <1>2, DrawUppers
  <2>2. \/ Moves(d, {"clear"}, {"clear_lower"}) \/ Moves(d, {"clear_again"}, {"clear_again_lower"})
        \/ Moves(d, {"line_upper"}, {"line_lower"}) /\ Has(d, "BACK_BUFFER_LOCK")
        \/ Moves(d, {"hello", "echo"}, {"hello_lower", "echo_lower"})
    BY <1>2, <2>1, Zenon DEF Moves
  <2> QED  BY <2>1, <2>2, Zenon DEF Shape, DrawsOwnUpper
<1>3. ASSUME NEW from, NEW to, NEW ls, DrawLower(d, from, to, ls), "TERM" \notin ls,
             <<from, to>> \in {<<"clear_lower", "refresh">>, <<"clear_again_lower", "line">>,
                 <<"clear_again_lower", "hello">>, <<"clear_again_lower", "echo">>,
                 <<"line_lower", "line">>, <<"hello_lower", "logo">>, <<"echo_lower", "echo">>}
      PROVE  Shape(d)
  <2>1. /\ Queues(d)
        /\ Moves(d, {from}, {to}) /\ held'["TERM"] = held["TERM"] /\ back' = Lower(back, {d})
        /\ UNCHANGED <<term_win, term_base, front, row, locked_lines, DOUBLE_BUFFER>>
    BY Zenon, <1>3, DrawLowers
  <2>2. \/ Moves(d, {"clear_lower"}, {"refresh"})
        \/ Moves(d, {"clear_again_lower", "line_lower", "hello_lower", "echo_lower"},
                    {"hello", "logo", "echo"})
        \/ Moves(d, {"clear_again_lower", "line_lower"}, {"line"})
    BY <1>3, <2>1, Zenon DEF Moves
  <2> QED  BY <2>1, <2>2, Zenon DEF Shape, DrawsOwnLower
<1>4. ASSUME \/ Ticket(d, "set_window", "TERM", "set_window_upper")
             \/ Ticket(d, "logo", "TERM", "logo_upper")
             \/ Ticket(d, "line", "BACK_BUFFER_LOCK", "line_upper")
      PROVE  Shape(d)
  <2>1. /\ Queues(d)
        /\ UNCHANGED <<bufs, front, row, locked_lines, DOUBLE_BUFFER>>
        /\ \/ Moves(d, {"set_window"}, {"set_window_upper"}) \/ Moves(d, {"logo"}, {"logo_upper"})
           \/ Moves(d, {"line"}, {"line_upper"})
    BY <1>0, <1>4, Tickets, Zenon
  <2> QED  BY <2>1, Zenon DEF Shape, Quiet, QuietAp, Moves
<1>5. ASSUME set_window_info(d) PROVE Shape(d)
  <2>1. CASE TermLower(d, "set_window_lower", "barrier")
    <3>1. /\ Queues(d)
          /\ Moves(d, {"set_window_lower"}, {"barrier"})
          /\ UNCHANGED <<term_win, term_base, row, locked_lines, DOUBLE_BUFFER>>
          /\ back' = IF term_base = "back" THEN Lower(back, term_win) ELSE back
          /\ front' = IF term_base = "front" THEN Lower(front, term_win) ELSE front
      BY <2>1, TermLowers, Zenon
    <3> QED  BY <3>1, Zenon DEF Shape, DrawsTermLower
  <2>2. CASE At(d, "set_window_upper") /\ Has(d, "TERM") /\ Goto(d, "set_window_lower")
             /\ term_win' = {0} /\ back' = Upper(back, {0})
             /\ UNCHANGED <<held, flags, term_base, front, row, barrier, msgs, locked_lines>>
    <3>1. Queues(d) /\ Moves(d, {"set_window_upper"}, {"set_window_lower"})
      BY <1>0, <2>2, QueueSteps, GotoMoves, Zenon DEF At
    <3> QED  BY <2>2, <3>1, Zenon DEF Shape, SetsWindow, flags
  <2> QED  BY <1>4, <1>5, <2>1, <2>2, Zenon DEF set_window_info
<1>6. ASSUME Stdout(d, "logo", "logo_upper", "logo_lower", "echo") PROVE Shape(d)
  <2>1. CASE TermUpper(d, "logo_upper", "logo_lower", "echo")
    <3>1. /\ Queues(d)
          /\ \/ /\ UNCHANGED <<bufs, front, row, locked_lines, DOUBLE_BUFFER>>
                /\ Moves(d, {"logo_upper"}, {"echo"})
             \/ /\ Moves(d, {"logo_upper"}, {"logo_lower"})
                /\ Has(d, "TERM") /\ held' = held
                /\ UNCHANGED <<term_win, term_base, row, locked_lines, DOUBLE_BUFFER>>
                /\ back' = IF term_base = "back" THEN Upper(back, term_win) ELSE back
                /\ front' = IF term_base = "front" THEN Upper(front, term_win) ELSE front
      BY <2>1, TermUppers, Zenon
    <3> QED  BY <3>1, Zenon DEF Shape, Quiet, QuietAp, DrawsTermUpper, Moves
  <2>2. CASE TermLower(d, "logo_lower", "echo")
    <3>1. /\ Queues(d)
          /\ Moves(d, {"logo_lower"}, {"echo"})
          /\ UNCHANGED <<term_win, term_base, row, locked_lines, DOUBLE_BUFFER>>
          /\ back' = IF term_base = "back" THEN Lower(back, term_win) ELSE back
          /\ front' = IF term_base = "front" THEN Lower(front, term_win) ELSE front
      BY <2>2, TermLowers, Zenon
    <3> QED  BY <3>1, Zenon DEF Shape, DrawsTermLower
  <2> QED  BY <1>4, <1>6, <2>1, <2>2, Zenon DEF Stdout
<1>7. "TERM" \notin {} /\ "TERM" \notin {"BACK_BUFFER_LOCK"}
  BY Zenon
<1>8. ASSUME \/ Draw(d, "clear", "clear_lower", "refresh") \/ Draw(d, "echo", "echo_lower", "echo")
             \/ Draw(d, "clear_again", "clear_again_lower",
                     IF d = 1 THEN "line" ELSE IF d = 2 THEN "hello" ELSE "echo")
             \/ Draw(d, "hello", "hello_lower", "logo")
      PROVE  Shape(d)
  <2>1. \/ \E from, to : DrawUpper(d, from, to) /\
             <<from, to>> \in {<<"clear", "clear_lower">>, <<"clear_again", "clear_again_lower">>,
                              <<"hello", "hello_lower">>, <<"echo", "echo_lower">>}
        \/ \E from, to : DrawLower(d, from, to, {}) /\
             <<from, to>> \in {<<"clear_lower", "refresh">>, <<"clear_again_lower", "line">>,
                 <<"clear_again_lower", "hello">>, <<"clear_again_lower", "echo">>,
                 <<"line_lower", "line">>, <<"hello_lower", "logo">>, <<"echo_lower", "echo">>}
    BY <1>8, Zenon DEF Draw
  <2> QED  BY <1>2, <1>3, <1>7, <2>1, Zenon
<1>9. ASSUME lock_back_buffer(d) PROVE Shape(d)
  <2>1. CASE Has(d, "BACK_BUFFER_LOCK") /\ DrawUpper(d, "line_upper", "line_lower")
    BY <2>1, <1>2, Zenon
  <2>2. CASE DrawLower(d, "line_lower", "line", {"BACK_BUFFER_LOCK"})
    BY <2>2, <1>3, <1>7, Zenon
  <2> QED  BY <1>9, <1>4, <2>1, <2>2, Zenon DEF lock_back_buffer
<1> QED
  BY <1>1, <1>5, <1>6, <1>8, <1>9, Zenon DEF ap_main, print_unlocked, print_logo

\* Every step of the panic handler has one of the effects, and keeps the locks the core
\* had when it panicked
LEMMA PanicShape ==
    ASSUME Typed, NEW d \in Core, panic(d) \/ panic_handler(d)
    PROVE  Shape(d)
<1>0. \A l \in {"TERM", "SWAP_LOCK", "PANIC_PRINT_LOCK"} : l \in Lock
  BY Cores, Zenon
<1>1. UNCHANGED <<bufs, front, row, locked_lines, DOUBLE_BUFFER>>
  BY Zenon DEF panic, panic_handler, panic_flag, panic_choose, panic_swap, panic_print, panic_log,
         Ticket, flags
<1>2. \A from, to : pc[d] = from /\ Goto(d, to) => Moves(d, {from}, {to})
  BY GotoMoves, Zenon
<1>3. \A ls : held' = Released(d, ls) => Queues(d)
  BY <1>0, QueueSteps, Zenon
<1>4. \A k \in Lock : held[k] = <<>> /\ held' = [held EXCEPT ![k] = <<d>>]
                      => Queues(d)
  BY QueueSteps, Zenon
<1>5. held' = held => Queues(d)
  BY Zenon DEF Queues, QueueStep, Typed
<1>6. ASSUME panic(d) PROVE Shape(d)
  <2>1. Goto(d, "panic") /\ held' = held
        /\ pc[d] \in Half \cup {"switch_term", "clear_lower", "clear_again_lower", "line_lower",
                               "hello_lower", "echo_lower"}
    BY <1>6, Zenon DEF panic, Half
  <2>2. Moves(d, Half \cup {"switch_term", "clear_lower", "clear_again_lower", "line_lower",
                               "hello_lower", "echo_lower"}, {"panic"})
    BY <1>2, <2>1, Zenon DEF Moves
  <2> QED  BY <1>1, <1>5, <2>1, <2>2, Zenon DEF Shape, Quiet, QuietPanic
<1>7. ASSUME NEW from, NEW to, Moves(d, {from}, {to}), held'["TERM"] = held["TERM"],
             Queues(d),
             from \in {"panic", "panic_lock", "panic_choose", "panic_swap", "panic_emergency"},
             to \in {"panic_lock", "panic_choose", "panic_swap", "panic_emergency", "panic_log"}
      PROVE  Shape(d)
  <2>1. Moves(d, Lost \ {"panic_log", "panic_log_print"}, Lost \ {"panic", "panic_log_print"})
    BY <1>7, Zenon DEF Moves, Lost
  <2> QED  BY <1>1, <1>7, <2>1, Zenon DEF Shape, Quiet, QuietPanic
<1>8. ASSUME panic_flag(d) PROVE Shape(d)
  <2>1. pc[d] = "panic" /\ Goto(d, "panic_lock") /\ held' = held
    BY <1>8, Zenon DEF panic_flag, At
  <2> QED  BY <2>1, <1>2, <1>5, <1>7, Zenon
<1>9. ASSUME Ticket(d, "panic_lock", "PANIC_PRINT_LOCK", "panic_choose") PROVE Shape(d)
  <2>1. /\ Moves(d, {"panic_lock"}, {"panic_choose"}) /\ Queues(d)
        /\ held'["TERM"] = held["TERM"]
    BY <1>9, Cores, Tickets, ZenonT(60)
  <2> QED  BY <2>1, <1>7, Zenon
<1>10. ASSUME panic_choose(d) PROVE Shape(d)
  <2>1. /\ pc[d] = "panic_choose"
        /\ \/ held' = held /\ (Goto(d, "panic_swap") \/ Goto(d, "panic_emergency"))
           \/ /\ held["TERM"] = <<>> /\ Goto(d, "panic_term")
              /\ held' = [held EXCEPT !["TERM"] = <<d>>]
    BY <1>10, Zenon DEF panic_choose, At
  <2>2. CASE held' = held /\ (Goto(d, "panic_swap") \/ Goto(d, "panic_emergency"))
    BY <2>1, <2>2, <1>2, <1>5, <1>7, Zenon
  <2>3. CASE /\ held["TERM"] = <<>> /\ Goto(d, "panic_term")
             /\ held' = [held EXCEPT !["TERM"] = <<d>>]
    <3>1. held'["TERM"] = <<d>>
      BY <2>3, <1>0, Zenon DEF Typed
    <3>2. Queues(d)
      BY <2>3, <1>0, <1>4, Zenon
    <3>3. Moves(d, {"panic_choose"}, {"panic_term"})
      BY <2>1, <2>3, <1>2, Zenon
    <3> QED  BY <1>1, <2>3, <3>1, <3>2, <3>3, Zenon DEF Shape, Quiet, QuietPanic
  <2> QED  BY <2>1, <2>2, <2>3, Zenon
<1>11. ASSUME panic_swap(d) PROVE Shape(d)
  <2>1. /\ pc[d] = "panic_swap" /\ Goto(d, "panic_emergency")
        /\ \/ held["SWAP_LOCK"] = <<>> /\ held' = [held EXCEPT !["SWAP_LOCK"] = <<d>>]
           \/ held' = held
    BY <1>11, Zenon DEF panic_swap, At
  <2>2. held'["TERM"] = held["TERM"]
    BY <2>1, <1>0, Zenon DEF Typed
  <2>3. Queues(d) /\ Moves(d, {"panic_swap"}, {"panic_emergency"})
    BY <2>1, <1>0, <1>2, <1>4, <1>5, Zenon
  <2> QED  BY <2>2, <2>3, <1>7, Zenon
<1>12. ASSUME panic_print(d) PROVE Shape(d)
  <2>1. CASE pc[d] = "panic_term"
    <3>1. Goto(d, "panic_log") /\ \E ls : held' = Released(d, ls)
      BY <1>12, Zenon DEF panic_print
    <3>2. Queues(d) /\ Moves(d, {"panic_term"}, {"panic_log"})
      BY <2>1, <3>1, <1>2, <1>3, Zenon
    <3> QED  BY <1>1, <3>2, Zenon DEF Shape, Quiet, QuietPanic
  <2>2. CASE pc[d] = "panic_emergency"
    <3>1. Goto(d, "panic_log") /\ held' = Released(d, {"SWAP_LOCK", "PANIC_PRINT_LOCK"} \cup {})
      BY <1>12, <2>2, Zenon DEF panic_print, At
    <3>2. Queues(d) /\ Moves(d, {"panic_emergency"}, {"panic_log"})
      BY <2>2, <3>1, <1>2, <1>3, Zenon
    <3>3. held'["TERM"] = held["TERM"]
      BY <3>1, <1>0, Zenon DEF Released
    <3> QED  BY <3>2, <3>3, <1>7, Zenon
  <2> QED  BY <1>12, <2>1, <2>2, Zenon DEF panic_print
<1>13. ASSUME panic_log(d) PROVE Shape(d)
  <2>1. CASE Ticket(d, "panic_log", "TERM", "panic_log_print")
    <3>1. /\ Moves(d, {"panic_log"}, {"panic_log_print"}) /\ Queues(d)
          /\ held'["TERM"] = Append(held["TERM"], d)
      BY <2>1, Cores, Tickets, Zenon
    <3> QED  BY <1>1, <3>1, Zenon DEF Shape, Quiet, QuietPanic
  <2>2. CASE At(d, "panic_log_print") /\ Has(d, "TERM") /\ Goto(d, "halted")
             /\ held' = Released(d, {"TERM"})
    <3>1. Queues(d) /\ Moves(d, {"panic_log_print"}, {"halted"})
      BY <2>2, <1>2, <1>3, Zenon DEF At
    <3> QED  BY <1>1, <2>2, <3>1, Zenon DEF Shape, Quiet, QuietPanic
  <2> QED  BY <1>13, <2>1, <2>2, Zenon DEF panic_log
<1> QED
  BY <1>6, <1>8, <1>9, <1>10, <1>11, <1>12, <1>13, Zenon DEF panic_handler

\* Every step of the system has one of the effects
LEMMA ShapeStep ==
    ASSUME Typed, Next
    PROVE  \E d \in Core : Shape(d)
<1>1. CASE timer_interrupt
  BY <1>1, Cores, TimerShape, Zenon
<1>2. ASSUME NEW d \in Core, Run(d) \/ panic(d) PROVE Shape(d)
  BY <1>2, BspShape, ApShape, PanicShape, Zenon DEF Run
<1>3. ASSUME NEW d \in 1..ap_count, print_unlocked(d) PROVE d \in Core /\ Shape(d)
  BY <1>3, Cores, ApShape, Zenon
<1> QED
  BY <1>1, <1>2, <1>3, Zenon DEF Next
--------------------------------------------------------------------------------
\* A step of core d changes no label but that of d
LEMMA OneMoves ==
    ASSUME NEW d \in Core, Shape(d)
    PROVE  (\E from, to : Moves(d, from, to)) \/ pc' = pc
  BY Zenon DEF Shape, Quiet, QuietBsp, Idle, QuietAp, QuietPanic, DrawsTermUpper, DrawsTermLower, SetsWindow,
         DrawsOwnUpper, DrawsOwnLower, Switches, Copies, Finishes

\* A step of core d leaves the label of any other core alone
LEMMA OthersMove ==
    ASSUME NEW d \in Core, Shape(d), NEW c \in Core, c # d
    PROVE  pc'[c] = pc[c]
  BY OneMoves, Zenon DEF Moves

\* A core has a lock when its ticket is served and it waits for no second one
LEMMA HasFirst ==
    ASSUME Typed, NEW l \in Lock, NEW c
    PROVE  Has(c, l) <=> First(c, l) /\ ~Again(c, l)
  BY DEF Typed, Has, First, Again

\* No core can take a lock from another: the ticket lock serves the queue in order
LEMMA OthersQueue ==
    ASSUME Typed, NEW c \in Core, NEW d \in Core, c # d, NEW l \in Lock, QueueStep(d, l)
    PROVE  /\ First(c, l) => First(c, l)'
           /\ Has(c, l) => Has(c, l)'
           /\ First(c, l) /\ Again(c, l) => Again(c, l)'
<1>1. held[l] \in Seq(Core)
  BY Zenon DEF Typed
<1>2. CASE held'[l] = held[l]
  BY <1>2, Zenon DEF First, Has, Again
<1>3. CASE held'[l] = Append(held[l], d)
  <2>1. /\ Len(held'[l]) = Len(held[l]) + 1 /\ held'[l][Len(held[l]) + 1] = d
        /\ \A i \in 1..Len(held[l]) : held'[l][i] = held[l][i]
    BY <1>1, <1>3
  <2>2. held[l] # <<>> => Len(held[l]) >= 1 /\ Head(held[l]) = held[l][1]
    BY <1>1
  <2>3. held'[l] # <<>> /\ Head(held'[l]) = held'[l][1] /\ Len(held[l]) \in Nat
    <3>1. held'[l] \in Seq(Core) /\ Len(held[l]) \in Nat
      BY <1>1, <1>3
    <3>2. Len(held'[l]) # 0
      BY <2>1, <3>1
    <3>3. held'[l] # <<>>
      BY <3>1, <3>2
    <3> QED  BY <3>1, <3>3
  <2>4. First(c, l) => First(c, l)'
    BY <2>1, <2>2, <2>3 DEF First
  <2>5. Again(c, l) => Again(c, l)'
    <3> SUFFICES ASSUME Again(c, l) PROVE Again(c, l)'
      BY Zenon
    <3>1. PICK i \in 2 .. Len(held[l]) : held[l][i] = c
      BY Zenon DEF Again
    <3>2. i \in 1 .. Len(held[l]) /\ i \in 2 .. Len(held'[l])
      BY <2>1, <2>3
    <3> QED  BY <2>1, <3>1, <3>2, Zenon DEF Again
  <2>6. Has(c, l) => Has(c, l)'
    BY <2>1, <2>2, <2>3 DEF Has
  <2> QED  BY <2>4, <2>5, <2>6, Zenon
<1>4. CASE Has(d, l)
  BY <1>1, <1>4 DEF First, Has
<1> QED
  BY <1>2, <1>3, <1>4, Zenon DEF QueueStep

\* At most one core has a lock
LEMMA OneHolder ==
    ASSUME Typed, NEW l \in Lock, NEW c, NEW d, First(c, l) \/ Has(c, l), First(d, l) \/ Has(d, l)
    PROVE  c = d
  BY HasFirst DEF First

\* Drawing a row leaves a window two rows of bits
LEMMA Drawing ==
    ASSUME NEW buf \in [Kept -> Rows], NEW ws
    PROVE  Upper(buf, ws) \in [Kept -> Rows] /\ Lower(buf, ws) \in [Kept -> Rows]
  BY DEF Upper, Lower, Rows

\* After its second half a drawing is complete
LEMMA LowerMends ==
    ASSUME NEW buf, NEW ws, NEW w \in Kept, w \in ws
    PROVE  ~Torn(Lower(buf, ws), w)
  BY Zenon DEF Lower, Torn

\* Drawing in some windows leaves the others alone
LEMMA DrawsElsewhere ==
    ASSUME NEW buf, NEW ws, NEW w \in Kept, w \notin ws
    PROVE  Upper(buf, ws)[w] = buf[w] /\ Lower(buf, ws)[w] = buf[w]
  BY Zenon DEF Upper, Lower

\* The types are preserved
LEMMA TypedStep ==
    ASSUME Typed, NEW d \in Core, Shape(d)
    PROVE  Typed'
<1>1. held' \in [Lock -> Seq(Core)]
  <2>1. \A l \in Lock : held'[l] \in Seq(Core)
    <3> SUFFICES ASSUME NEW l \in Lock PROVE held'[l] \in Seq(Core)
      BY Zenon
    <3>1. QueueStep(d, l) /\ held[l] \in Seq(Core)
      BY Zenon DEF Shape, Queues, Typed
    <3>2. Has(d, l) => held[l] # <<>>
      BY Zenon DEF Has
    <3>3. Append(held[l], d) \in Seq(Core)
      BY <3>1
    <3>4. Has(d, l) => Tail(held[l]) \in Seq(Core)
      BY <3>1, <3>2
    <3> QED  BY <3>1, <3>3, <3>4, Zenon DEF QueueStep
  <2> QED  BY <2>1, Zenon DEF Shape, Queues
<1>2. pc' = [c \in Core |-> pc'[c]]
  BY OneMoves, Zenon DEF Moves, Typed
<1>3. back' \in [Kept -> Rows] /\ term_base' \in {"front", "back"} /\ locked_lines' \in BOOLEAN
  <2>1. \/ back' = back \/ \E ws : back' = Upper(back, ws) \/ back' = Lower(back, ws)
    BY Zenon DEF Shape, Quiet, bufs, DrawsTermUpper, DrawsTermLower, SetsWindow,
           DrawsOwnUpper, DrawsOwnLower, Switches, Copies, Finishes
  <2>2. back' \in [Kept -> Rows]
    BY <2>1, Drawing DEF Typed
  <2>3. term_base' = term_base \/ term_base' = "back"
    BY Zenon DEF Shape, Quiet, bufs, DrawsTermUpper, DrawsTermLower, SetsWindow,
           DrawsOwnUpper, DrawsOwnLower, Switches, Copies, Finishes
  <2>4. locked_lines' = locked_lines \/ locked_lines' = (pc[1] \in {"line", "line_upper", "line_lower"})
    BY Zenon DEF Shape, Quiet, bufs, DrawsTermUpper, DrawsTermLower, SetsWindow,
           DrawsOwnUpper, DrawsOwnLower, Switches, Copies, Finishes
  <2>5. (pc[1] \in {"line", "line_upper", "line_lower"}) \in BOOLEAN
    OBVIOUS
  <2>6. locked_lines' \in BOOLEAN
    BY <2>4, <2>5, Zenon DEF Typed
  <2> QED  BY <2>2, <2>3, <2>6, Zenon DEF Typed
<1>4. front' \in [Kept -> Rows] /\ row' \in {0, 1, 2}
  <2>1. \/ Copies
        \/ /\ row' = row \/ row' = 0
           /\ front' = front \/ \E ws : front' = Upper(front, ws) \/ front' = Lower(front, ws)
    BY Zenon DEF Shape, Quiet, bufs, DrawsTermUpper, DrawsTermLower, SetsWindow,
           DrawsOwnUpper, DrawsOwnLower, Switches, Finishes
  <2>2. CASE Copies
    <3>1. row \in {0, 1} /\ row' = row + 1
      BY <2>2 DEF Copies, Typed
    <3>2. ASSUME NEW w \in Kept
          PROVE  [front[w] EXCEPT ![row + 1] = back[w][row + 1]] \in Rows
      <4>1. front[w] \in Rows /\ back[w] \in Rows
        BY Zenon DEF Typed
      <4>2. PICK f1 \in {0, 1}, f2 \in {0, 1} : front[w] = <<f1, f2>>
        BY <4>1 DEF Rows
      <4>3. PICK b1 \in {0, 1}, b2 \in {0, 1} : back[w] = <<b1, b2>>
        BY <4>1 DEF Rows
      <4>4. CASE row = 0
        <5>1. [front[w] EXCEPT ![row + 1] = back[w][row + 1]] = <<b1, f2>>
          BY <4>2, <4>3, <4>4
        <5> QED  BY <5>1, Zenon DEF Rows
      <4>5. CASE row = 1
        <5>1. [front[w] EXCEPT ![row + 1] = back[w][row + 1]] = <<f1, b2>>
          BY <4>2, <4>3, <4>5
        <5> QED  BY <5>1, Zenon DEF Rows
      <4> QED  BY <3>1, <4>4, <4>5, Zenon
    <3> QED  BY <2>2, <3>1, <3>2 DEF Copies
  <2> QED  BY <2>1, <2>2, Drawing DEF Typed
<1> QED
  BY <1>1, <1>2, <1>3, <1>4, Zenon DEF Typed
--------------------------------------------------------------------------------
\* The other cores run only after the switch, so that they never draw on the screen
LEMMA ApSteps ==
    ASSUME Phases, NEW d \in Core, d # 0, Shape(d)
    PROVE  /\ DOUBLE_BUFFER = "set" /\ term_base = "back" /\ pc'[0] = pc[0]
           /\ UNCHANGED <<DOUBLE_BUFFER, term_base, row, locked_lines>>
           /\ front' = front
<1>1. /\ UNCHANGED <<DOUBLE_BUFFER, term_base, row, locked_lines>>
      /\ pc[d] # "to_double_buffer" \/ DOUBLE_BUFFER = "set"
  BY Zenon DEF Shape, Quiet, bufs, QuietAp, QuietPanic, DrawsTermUpper, DrawsTermLower, SetsWindow,
         DrawsOwnUpper, DrawsOwnLower, Moves, Half, Lost
<1>2. DOUBLE_BUFFER = "set" /\ term_base = "back"
  BY <1>1, Cores, Zenon DEF Phases
<1>3. pc'[0] = pc[0]
  BY Cores, OthersMove, Zenon
<1>4. front' = front
  BY <1>2, Zenon DEF Shape, Quiet, DrawsTermUpper, DrawsTermLower, SetsWindow, DrawsOwnUpper, DrawsOwnLower
<1> QED
  BY <1>1, <1>2, <1>3, <1>4, Zenon

\* Phases is preserved
LEMMA PhasesStep ==
    ASSUME Typed, Phases, NEW d \in Core, Shape(d)
    PROVE  Phases'
<1>1. CASE d # 0
  BY <1>1, ApSteps, Zenon DEF Phases
<1>2. CASE d = 0
  <2>1. \A c \in 1..ap_count : pc'[c] = pc[c]
    BY <1>2, Cores, OthersMove, Zenon
  <2>2. CASE Quiet(0)
    <3>1. UNCHANGED <<term_base, row, locked_lines>> /\ (QuietBsp \/ QuietPanic(0))
      BY <2>2, Zenon DEF Quiet, QuietAp, bufs
    <3>2. CASE QuietBsp
      BY <2>1, <3>1, <3>2, Zenon DEF QuietBsp, Idle, Moves, Phases, Early, Late
    <3>3. CASE QuietPanic(0)
      BY <2>1, <3>1, <3>3, Zenon DEF QuietPanic, Moves, Phases, Early, Late, Lost, Half
    <3> QED  BY <3>1, <3>2, <3>3, Zenon
  <2>3. CASE DrawsTermUpper(0) \/ DrawsTermLower(0)
    BY <2>1, <2>3 DEF DrawsTermUpper, DrawsTermLower, Moves, Phases, Early, Late
  <2>4. CASE Switches \/ Finishes
    BY <2>1, <2>4 DEF Switches, Finishes, bufs, Moves, Phases, Early, Late
  <2>5. CASE Copies
    BY <2>5, Zenon DEF Copies, bufs, Phases, Late
  <2> QED  BY <1>2, <2>2, <2>3, <2>4, <2>5, Zenon DEF Shape, SetsWindow, DrawsOwnUpper, DrawsOwnLower
<1> QED
  BY <1>1, <1>2, Zenon

\* TermWindow is preserved: only set_window_info changes the window of TERM
LEMMA TermWindowStep ==
    ASSUME Typed, TermWindow, NEW d \in Core, Shape(d)
    PROVE  TermWindow'
<1>1. CASE SetsWindow(d)
  BY <1>1, Zenon DEF SetsWindow, TermWindow
<1>2. CASE ~SetsWindow(d)
  <2>1. term_win' = term_win
    BY <1>2, Zenon DEF Shape, Quiet, bufs, DrawsTermUpper, DrawsTermLower, DrawsOwnUpper, DrawsOwnLower,
           Switches, Copies, Finishes
  <2>2. CASE d = 1
    <3>1. pc'[1] \in Narrow => pc[1] \in Narrow
      BY <1>2, <2>2 DEF Shape, Quiet, QuietAp, QuietPanic, DrawsTermUpper, DrawsTermLower,
             DrawsOwnUpper, DrawsOwnLower, Moves, Narrow, Lost, Half
    <3> QED  BY <2>1, <3>1, Zenon DEF TermWindow
  <2>3. CASE d # 1
    <3>1. pc'[1] = pc[1]
      BY <2>3, Cores, OthersMove, Zenon
    <3> QED  BY <2>1, <3>1, Zenon DEF TermWindow
  <2> QED  BY <2>2, <2>3, Zenon
<1> QED
  BY <1>1, <1>2, Zenon

\* Locking is preserved: the locks are taken before these labels and kept through them
LEMMA LockingStep ==
    ASSUME Typed, Locking, NEW d \in Core, Shape(d)
    PROVE  Locking'
<1>0. "TERM" \in Lock /\ "BACK_BUFFER_LOCK" \in Lock
  BY Cores, Zenon
<1>1. ASSUME NEW c \in Core, c # d
      PROVE  /\ pc'[c] = pc[c] /\ (Has(c, "TERM") => Has(c, "TERM")')
             /\ Has(c, "BACK_BUFFER_LOCK") => Has(c, "BACK_BUFFER_LOCK")'
  <2>1. pc'[c] = pc[c]
    BY <1>1, OthersMove, Zenon
  <2>2. QueueStep(d, "TERM") /\ QueueStep(d, "BACK_BUFFER_LOCK")
    BY <1>0, Zenon DEF Shape, Queues
  <2> QED  BY <1>0, <1>1, <2>1, <2>2, OthersQueue, Zenon
<1>2. /\ pc'[d] \in Half \cup {"push_swap", "copy", "panic_term"} => Has(d, "TERM")'
      /\ pc'[d] \in {"line_lower", "copy"} => Has(d, "BACK_BUFFER_LOCK")'
  <2>1. \A l : Has(d, l) /\ held'[l] = held[l] => Has(d, l)'
    BY Zenon DEF Has
  <2>2. CASE Quiet(d)
    <3>1. CASE d = 0 /\ QuietBsp
      BY <2>1, <3>1, Zenon DEF QuietBsp, Idle, Moves, Half, Locking
    <3>2. CASE QuietAp(d)
      BY <3>2, Zenon DEF QuietAp, Moves, Half
    <3>3. CASE QuietPanic(d)
      <4>1. held'["TERM"] = <<d>> => Has(d, "TERM")'
        BY DEF Has
      <4> QED  BY <3>3, <4>1, Zenon DEF QuietPanic, Moves, Half, Lost
    <3> QED  BY <2>2, <3>1, <3>2, <3>3, Zenon DEF Quiet
  <2>3. CASE DrawsTermUpper(d) \/ SetsWindow(d) \/ DrawsOwnUpper(d)
    BY <2>1, <2>3, Zenon DEF DrawsTermUpper, SetsWindow, DrawsOwnUpper, Moves, Half
  <2>4. CASE DrawsTermLower(d) \/ DrawsOwnLower(d) \/ (d = 0 /\ (Switches \/ Finishes))
    BY <2>4, Zenon DEF DrawsTermLower, DrawsOwnLower, Switches, Finishes, Moves, Half
  <2>5. CASE d = 0 /\ Copies
    BY <2>1, <2>5, Zenon DEF Copies, Locking
  <2> QED  BY <2>2, <2>3, <2>4, <2>5, Zenon DEF Shape
<1> QED
  BY <1>1, <1>2, Zenon DEF Locking
--------------------------------------------------------------------------------
\* A core that left an output unfinished in TERM keeps TERM until it finishes it; one
\* that panicked keeps it for ever, whether or not its panic handler gets to log::error!
LEMMA UnfinishedStays ==
    ASSUME Typed, Locking, NEW d \in Core, Shape(d), NEW c \in Core, Unfinished(c),
           ~DrawsTermUpper(d), ~DrawsTermLower(d), ~SetsWindow(d)
    PROVE  Unfinished(c)'
<1>0. "TERM" \in Lock /\ QueueStep(d, "TERM")
  BY Cores, Zenon DEF Shape, Queues
<1>1. CASE c # d
  <2>1. pc'[c] = pc[c]
    BY <1>1, OthersMove, Zenon
  <2>2. First(c, "TERM")' /\ (Again(c, "TERM") => Again(c, "TERM")')
    BY <1>0, <1>1, OthersQueue, Zenon DEF Unfinished
  <2> QED  BY <2>1, <2>2, Zenon DEF Unfinished
<1>2. CASE c = d
  <2>1. First(d, "TERM") /\ pc[d] \in Half \cup Lost
    BY <1>2, Zenon DEF Unfinished
  <2>2. QuietPanic(d)
    BY <2>1, Zenon DEF Shape, Quiet, QuietBsp, Idle, QuietAp, DrawsOwnUpper, DrawsOwnLower, Switches, Copies,
           Finishes, Moves, Half, Lost
  <2>3. held'["TERM"] = held["TERM"] => First(d, "TERM")'
    BY <2>1, Zenon DEF First
  <2>4. CASE held'["TERM"] = held["TERM"] /\ pc'[d] \in Lost \ {"panic_log_print"}
    BY <1>2, <2>3, <2>4, Zenon DEF Unfinished
  <2>5. CASE Moves(d, {"panic_log"}, {"panic_log_print"}) /\ held'["TERM"] = Append(held["TERM"], d)
    <3>1. held["TERM"] \in Seq(Core) /\ held["TERM"] # <<>> /\ held["TERM"][1] = d
      BY <1>0, <2>1, Zenon DEF Typed, First
    <3>2. /\ Len(held["TERM"]) \in Nat \ {0} /\ Len(held'["TERM"]) = Len(held["TERM"]) + 1
          /\ held'["TERM"][1] = d /\ held'["TERM"][Len(held["TERM"]) + 1] = d
      BY <2>5, <3>1
    <3>3. held'["TERM"] \in Seq(Core)
      BY <2>5, <3>1
    <3>4. held'["TERM"] # <<>>
      BY <3>2, <3>3
    <3>5. Again(d, "TERM")'
      BY <3>2 DEF Again
    <3> QED  BY <1>2, <2>5, <3>2, <3>4, <3>5, Zenon DEF Unfinished, First, Moves, Lost
  <2>6. CASE Moves(d, {"panic_log_print"}, {"halted"}) /\ Has(d, "TERM")
    <3>1. Again(d, "TERM")
      BY <1>2, <2>6, Zenon DEF Unfinished, Moves, Half, Lost
    <3> QED  BY <1>0, <2>6, <3>1, HasFirst, Zenon
  <2>7. CASE held["TERM"] = <<>>
    BY <2>1, <2>7, Zenon DEF First
  <2>8. CASE Moves(d, {"panic_term"}, {"panic_log"})
    BY <2>1, <2>8, Zenon DEF Moves, Half, Lost
  <2> QED  BY <2>2, <2>4, <2>5, <2>6, <2>7, <2>8, Zenon DEF QuietPanic, Moves, Lost
<1> QED
  BY <1>1, <1>2, Zenon

\* BackRows is preserved
LEMMA BackRowsStep ==
    ASSUME Typed, Phases, TermWindow, Locking, BackRows, NEW d \in Core, Shape(d)
    PROVE  BackRows'
<1>0. /\ "TERM" \in Lock /\ 0 \in Core /\ 1 \in Core /\ 0 \in term_win
      /\ back \in [Kept -> Rows] /\ term_base \in {"front", "back"}
  BY Cores, Zenon DEF Typed, TermWindow
<1>1. ASSUME 0 \in Kept, Torn(back', 0)
      PROVE  term_base' = "back" /\ \E c \in Core : Unfinished(c)'
  <2>1. CASE DrawsTermUpper(d) \/ SetsWindow(d)
    <3>1. CASE term_base = "front"
      <4>1. back' = back /\ term_base' = term_base
        BY <2>1, <3>1, ApSteps, Zenon DEF DrawsTermUpper, SetsWindow
      <4> QED  BY <1>1, <3>1, <4>1, Zenon DEF BackRows
    <3>2. CASE term_base = "back"
      <4>1. First(d, "TERM")' /\ pc'[d] \in Half /\ term_base' = term_base
        BY <1>0, <2>1, HasFirst, Zenon DEF DrawsTermUpper, SetsWindow, Moves, Half, First
      <4> QED  BY <3>2, <4>1, Zenon DEF Unfinished
    <3> QED  BY <1>0, <3>1, <3>2, Zenon
  <2>2. CASE DrawsTermLower(d)
    <3>1. CASE term_base = "front"
      <4>1. back' = back /\ term_base' = term_base
        BY <2>2, <3>1, Zenon DEF DrawsTermLower
      <4> QED  BY <1>1, <3>1, <4>1, Zenon DEF BackRows
    <3>2. CASE term_base = "back"
      <4>1. back' = Lower(back, term_win)
        BY <2>2, <3>2, Zenon DEF DrawsTermLower
      <4>2. ~Torn(Lower(back, term_win), 0)
        BY <1>0, <1>1, LowerMends, Zenon
      <4> QED  BY <1>1, <4>1, <4>2, Zenon
    <3> QED  BY <1>0, <3>1, <3>2, Zenon
  <2>3. CASE ~DrawsTermUpper(d) /\ ~DrawsTermLower(d) /\ ~SetsWindow(d)
    <3>1. back'[0] = back[0] /\ (term_base' = term_base \/ term_base' = "back")
      <4>1. CASE Quiet(d) \/ Switches \/ Copies \/ Finishes
        BY <4>1, Zenon DEF Quiet, bufs, Switches, Copies, Finishes
      <4>2. CASE DrawsOwnUpper(d) \/ DrawsOwnLower(d)
        <5>1. /\ d # 0 /\ term_base' = term_base
              /\ back' = Upper(back, {d}) \/ back' = Lower(back, {d})
          BY <4>2, Zenon DEF DrawsOwnUpper, DrawsOwnLower
        <5>2. Upper(back, {d})[0] = back[0] /\ Lower(back, {d})[0] = back[0]
          BY Zenon, <1>1, <5>1, DrawsElsewhere
        <5> QED  BY <5>1, <5>2, Zenon
      <4> QED  BY <2>3, <4>1, <4>2, Zenon DEF Shape
    <3>2. PICK c \in Core : Unfinished(c) /\ term_base = "back"
      BY <1>1, <3>1, Zenon DEF BackRows, Torn
    <3> QED  BY <2>3, <3>1, <3>2, UnfinishedStays, Zenon
  <2> QED  BY <2>1, <2>2, <2>3, Zenon
<1>2. ASSUME 1 \in Kept, pc'[1] \in {"line", "line_upper"}
      PROVE  ~Torn(back', 1)
  <2>1. CASE d = 1
    <3>1. CASE DrawsOwnLower(1)
      <4>1. back' = Lower(back, {1})
        BY <3>1, Zenon DEF DrawsOwnLower
      <4>2. ~Torn(Lower(back, {1}), 1)
        BY <1>2, LowerMends, Zenon
      <4> QED  BY <4>1, <4>2, Zenon
    <3>2. CASE ~DrawsOwnLower(1)
      <4>1. pc[1] = "line" /\ back' = back
        BY <1>2, <2>1, <3>2 DEF Shape, Quiet, bufs, QuietAp, QuietPanic, DrawsTermUpper,
               DrawsTermLower, SetsWindow, DrawsOwnUpper, Moves, Half, Lost
      <4> QED  BY <1>2, <4>1, ZenonT(60) DEF BackRows
    <3> QED  BY <3>1, <3>2, Zenon
  <2>2. CASE d # 1
    <3>1. pc[1] \in {"line", "line_upper"}
      BY <1>0, <1>2, <2>2, OthersMove, Zenon
    <3>2. term_win = {0}
      BY <3>1, Zenon DEF TermWindow, Narrow
    <3>3. \E ws \in {{0}, {d}} : back' \in {back, Upper(back, ws), Lower(back, ws)}
      BY <3>2, Zenon DEF Shape, Quiet, bufs, DrawsTermUpper, DrawsTermLower, SetsWindow, DrawsOwnUpper,
             DrawsOwnLower, Switches, Copies, Finishes
    <3>4. back'[1] = back[1]
      <4>1. PICK ws \in {{0}, {d}} : back' \in {back, Upper(back, ws), Lower(back, ws)}
        BY <3>3, Zenon
      <4>2. Upper(back, ws)[1] = back[1] /\ Lower(back, ws)[1] = back[1]
        BY <1>2, <2>2, <4>1, DrawsElsewhere
      <4> QED  BY <4>1, <4>2, Zenon
    <3> QED  BY <1>2, <3>1, <3>4, Zenon DEF BackRows, Torn
  <2> QED  BY <2>1, <2>2, Zenon
<1> QED
  BY <1>1, <1>2, Zenon DEF BackRows, Torn
--------------------------------------------------------------------------------
\* The inductive invariant
Inv == Typed /\ Phases /\ TermWindow /\ Locking /\ BackRows /\ FrontRows

\* While core 0 copies no other core has TERM or BACK_BUFFER_LOCK
LEMMA CopyHolds ==
    ASSUME Inv, pc[0] = "copy", NEW d \in Core, d # 0
    PROVE  ~Has(d, "TERM") /\ ~Has(d, "BACK_BUFFER_LOCK") /\ ~First(d, "TERM")
<1>1. Has(0, "TERM") /\ Has(0, "BACK_BUFFER_LOCK") /\ "TERM" \in Lock /\ "BACK_BUFFER_LOCK" \in Lock
  BY Cores, Zenon DEF Inv, Locking
<1> QED
  BY <1>1, OneHolder, Zenon DEF Inv

\* While core 0 copies no other core draws in a window that must not be torn
LEMMA CopyUndisturbed ==
    ASSUME Inv, pc[0] = "copy", NEW d \in Core, d # 0, Shape(d)
    PROVE  /\ row # 0 /\ locked_lines => pc'[1] \in {"line", "line_upper"}
           /\ row # 0 => \A w \in Kept : Tearless(w) => back'[w] = back[w]
<1>1. ~Has(d, "TERM") /\ ~Has(d, "BACK_BUFFER_LOCK")
  BY CopyHolds, Zenon
<1>2. pc[d] \notin Half
  BY <1>1, Zenon DEF Inv, Locking
<1>3. ~DrawsTermUpper(d) /\ ~SetsWindow(d) /\ ~DrawsTermLower(d)
  BY <1>1, <1>2, Zenon DEF DrawsTermUpper, SetsWindow, DrawsTermLower, Moves, Half
<1>4. ASSUME row # 0, locked_lines
      PROVE  pc'[1] \in {"line", "line_upper"}
  <2>1. pc[1] \in {"line", "line_upper"}
    BY <1>4, Zenon DEF Inv, FrontRows
  <2>2. CASE d = 1
    BY <1>1, <1>3, <2>1, <2>2, Zenon DEF Shape, Quiet, QuietAp, QuietPanic, DrawsOwnUpper, DrawsOwnLower,
           Moves, Half, Lost
  <2> QED  BY <2>1, <2>2, Cores, OthersMove, Zenon
<1>5. ASSUME row # 0, NEW w \in Kept, Tearless(w)
      PROVE  back'[w] = back[w]
  <2>1. CASE Quiet(d)
    BY <2>1, Zenon DEF Quiet, bufs
  <2>2. CASE DrawsOwnUpper(d) \/ DrawsOwnLower(d)
    <3>1. w # d
      <4>1. CASE w = 0
        BY <4>1, Zenon
      <4>2. CASE locked_lines /\ w = d
        <5>1. w = 1 /\ pc[1] \in {"line", "line_upper"}
          BY Zenon, <1>5, <4>2, DisplayAssumption DEF Inv, FrontRows
        <5> QED  BY <1>1, <2>2, <4>2, <5>1, Zenon DEF DrawsOwnUpper, DrawsOwnLower, Moves
      <4> QED  BY <1>5, <4>1, <4>2, Zenon DEF Tearless
    <3>2. Upper(back, {d})[w] = back[w] /\ Lower(back, {d})[w] = back[w]
      BY Zenon, <3>1, DrawsElsewhere
    <3> QED  BY <2>2, <3>2, Zenon DEF DrawsOwnUpper, DrawsOwnLower
  <2> QED  BY <1>3, <2>1, <2>2, Zenon DEF Shape
<1> QED
  BY <1>4, <1>5, Zenon

\* FrontRows is preserved by the other cores
LEMMA FrontRowsAp ==
    ASSUME Inv, NEW d \in Core, d # 0, Shape(d)
    PROVE  FrontRows'
<1>1. /\ DOUBLE_BUFFER = "set" /\ pc'[0] = pc[0] /\ front' = front
      /\ UNCHANGED <<DOUBLE_BUFFER, row, locked_lines>>
  BY ApSteps, Zenon DEF Inv
<1>2. pc[0] \notin Early
  BY <1>1, Zenon DEF Inv, Phases
<1>3. NoTearing'
  BY <1>1, Zenon DEF Inv, FrontRows, NoTearing, Torn
<1>4. pc'[0] = "copy" /\ row' # 0 /\ locked_lines' => pc'[1] \in {"line", "line_upper"}
  BY <1>1, CopyUndisturbed, Zenon
<1>5. ASSUME pc'[0] = "copy", NEW w \in Kept, Tearless(w)'
      PROVE  (row' # 0 => front'[w][1] = back'[w][1]) /\ (row' = 2 => front'[w][2] = back'[w][2])
  <2>1. Tearless(w) /\ pc[0] = "copy"
    BY <1>1, <1>5, Zenon DEF Tearless
  <2>2. row # 0 => back'[w] = back[w]
    BY <2>1, CopyUndisturbed, Zenon
  <2>3. (row # 0 => front[w][1] = back[w][1]) /\ (row = 2 => front[w][2] = back[w][2])
    BY <2>1, Zenon DEF Inv, FrontRows
  <2> QED  BY <1>1, <2>2, <2>3
<1> QED
  BY <1>1, <1>2, <1>3, <1>4, <1>5, Zenon DEF FrontRows

\* FrontRows is preserved by copying a row
LEMMA FrontRowsCopy ==
    ASSUME Inv, Copies
    PROVE  FrontRows'
<1>1. /\ pc[0] = "copy" /\ pc' = pc /\ back' = back /\ DOUBLE_BUFFER' = DOUBLE_BUFFER
      /\ row \in {0, 1} /\ row' = row + 1 /\ pc[0] \notin Early
      /\ front \in [Kept -> Rows] /\ back \in [Kept -> Rows]
  BY DEF Copies, bufs, Inv, Typed, Early
<1>2. locked_lines' => pc[1] \in {"line", "line_upper"}
  <2>1. CASE row = 0
    <3>1. pc[1] # "line_lower"
      BY <1>1, Cores, CopyHolds, Zenon DEF Inv, Locking
    <3> QED  BY <2>1, <3>1, Zenon DEF Copies
  <2>2. CASE row = 1
    BY <1>1, <2>2, Zenon DEF Copies, Inv, FrontRows
  <2> QED  BY <1>1, <2>1, <2>2, Zenon
<1>3. ASSUME NEW w \in Kept, Tearless(w)'
      PROVE  front'[w][1] = back[w][1] /\ (row' = 2 => front'[w][2] = back[w][2])
  <2>1. front'[w] = [front[w] EXCEPT ![row + 1] = back[w][row + 1]]
    BY Zenon DEF Copies
  <2>2. PICK f1 \in {0, 1}, f2 \in {0, 1} : front[w] = <<f1, f2>>
    BY <1>1 DEF Rows
  <2>3. CASE row = 0
    BY <1>1, <2>1, <2>2, <2>3
  <2>4. CASE row = 1
    <3>1. front[w][1] = back[w][1]
      BY <1>1, <1>3, <2>4 DEF Copies, Tearless, Inv, FrontRows
    <3> QED  BY <2>1, <2>2, <2>4, <3>1
  <2> QED  BY <1>1, <2>3, <2>4, Zenon
<1>4. NoTearing'
  BY <1>1 DEF NoTearing
<1> QED
  BY <1>1, <1>2, <1>3, <1>4, Zenon DEF FrontRows

\* FrontRows is preserved by the end of a push: the back buffer was not torn
LEMMA FrontRowsPushed ==
    ASSUME Inv, Finishes
    PROVE  FrontRows'
<1>1. /\ pc[0] = "copy" /\ row = 2 /\ row' = 0 /\ pc'[0] = "wait"
      /\ UNCHANGED <<front, back, locked_lines>>
  BY Zenon DEF Finishes, Moves, bufs
<1>2. ASSUME NEW w \in Kept, Tearless(w)
      PROVE  ~Torn(front, w)
  <2>1. front[w][1] = back[w][1] /\ front[w][2] = back[w][2]
    BY <1>1, <1>2 DEF Inv, FrontRows
  <2>2. CASE w = 0
    <3>1. ASSUME NEW c \in Core PROVE ~Unfinished(c)
      BY <1>1, CopyHolds, Zenon DEF Unfinished, Half, Lost
    <3> QED  BY <2>1, <2>2, <3>1, Zenon DEF Inv, BackRows, Torn
  <2>3. CASE w # 0
    <3>1. w = 1 /\ pc[1] \in {"line", "line_upper"}
      BY <1>1, <1>2, <2>3, DisplayAssumption DEF Tearless, Inv, FrontRows
    <3> QED  BY <2>1, <3>1, Zenon DEF Inv, BackRows, Torn
  <2> QED  BY <2>2, <2>3, Zenon
<1>3. NoTearing'
  BY <1>1, <1>2, Zenon DEF NoTearing, Tearless, Torn
<1> QED
  BY <1>1, <1>3, Zenon DEF FrontRows, Early

\* FrontRows is preserved by the other steps of core 0: log::trace! on the screen is
\* complete before the switch, and after it core 0 draws in the back buffer
LEMMA FrontRowsBsp ==
    ASSUME Inv, Shape(0), ~Copies, ~Finishes
    PROVE  FrontRows'
<1>0. front \in [Kept -> Rows] /\ term_base \in {"front", "back"} /\ 0 \in Core
      /\ 0 \in term_win
  BY Cores, Zenon DEF Inv, Typed, TermWindow
<1>1. row' = row /\ locked_lines' = locked_lines /\ pc[0] # "copy" /\ row = 0
  <2>1. row' = row /\ locked_lines' = locked_lines /\ pc[0] # "copy"
    BY Zenon DEF Shape, Quiet, QuietBsp, Idle, QuietAp, QuietPanic, DrawsTermUpper, DrawsTermLower, SetsWindow,
           DrawsOwnUpper, DrawsOwnLower, Switches, Moves, Half, Lost
  <2> QED  BY <2>1, Zenon DEF Inv, Phases
<1>2. ASSUME pc'[0] \in Early \ {"trace_lower"}, 0 \in Kept
      PROVE  ~Torn(front', 0)
  <2>1. CASE DrawsTermLower(0)
    <3>1. pc[0] = "trace_lower"
      BY <1>2, <2>1, Zenon DEF DrawsTermLower, Moves, Early
    <3>2. front' = Lower(front, term_win)
      BY <2>1, <3>1, Zenon DEF DrawsTermLower, Inv, Phases, Early
    <3>3. ~Torn(Lower(front, term_win), 0)
      BY <1>0, <1>2, LowerMends, Zenon
    <3> QED  BY <3>2, <3>3, Zenon
  <2>2. CASE ~DrawsTermLower(0)
    <3>1. front' = front /\ pc[0] \in Early \ {"trace_lower"}
      BY <1>2, <2>2, Zenon DEF Shape, Quiet, QuietBsp, Idle, QuietAp, QuietPanic, DrawsTermUpper, SetsWindow,
             DrawsOwnUpper, DrawsOwnLower, Switches, Copies, Finishes, Moves, Half, Lost, Early
    <3> QED  BY <1>2, <3>1, Zenon DEF Inv, FrontRows
  <2> QED  BY <2>1, <2>2, Zenon
<1>3. ASSUME DOUBLE_BUFFER' = "set", NEW w \in Kept, Tearless(w)'
      PROVE  ~Torn(front', w)
  <2>1. CASE DOUBLE_BUFFER = "set"
    <3>1. term_base = "back"
      BY <2>1, Zenon DEF Inv, Phases
    <3>2. front' = front
      BY <3>1, Zenon DEF Shape, Quiet, DrawsTermUpper, DrawsTermLower, SetsWindow,
             DrawsOwnUpper, DrawsOwnLower, Switches, Copies, Finishes
    <3> QED  BY <1>1, <1>3, <2>1, <3>2, Zenon DEF Inv, FrontRows, NoTearing, Tearless
  <2>2. CASE DOUBLE_BUFFER # "set"
    <3>1. Quiet(0) /\ pc[0] = "switch_done"
      BY <1>3, <2>2, Zenon DEF Shape, Quiet, QuietBsp, Idle, QuietAp, QuietPanic, DrawsTermUpper, DrawsTermLower,
             SetsWindow, DrawsOwnUpper, DrawsOwnLower, Switches, Copies, Finishes, Moves
    <3>2. front' = front /\ w = 0
      BY <1>1, <1>3, <2>2, <3>1 DEF Quiet, Tearless, Inv, Phases
    <3> QED  BY <3>1, <3>2, Zenon DEF Inv, FrontRows, Early
  <2> QED  BY <2>1, <2>2, Zenon
<1>4. NoTearing'
  BY <1>3, Zenon DEF NoTearing, Tearless, Torn
<1> QED
  BY <1>1, <1>2, <1>4 DEF FrontRows, Torn

\* The invariant holds when main reaches switch_to_double_buffer
LEMMA InvInit == Init => Inv
<1> SUFFICES ASSUME Init PROVE Inv
  BY Zenon
<1>1. Typed
  <2>1. pc = [c \in Core |-> pc[c]]
    BY Zenon DEF Init
  <2>2. held \in [Lock -> Seq(Core)]
    BY DEF Init
  <2>3. back \in [Kept -> Rows] /\ front \in [Kept -> Rows]
    BY Zenon DEF Init, Rows
  <2> QED  BY <2>1, <2>2, <2>3, Zenon DEF Init, Typed
<1>2. Phases /\ TermWindow
  BY Cores, Zenon DEF Init, Phases, TermWindow, Early, Late, Narrow, Win
<1>3. Locking
  BY Zenon DEF Init, Locking, Half
<1>4. BackRows
  BY Cores, Zenon DEF Init, BackRows, Torn
<1>5. FrontRows
  BY Cores, Zenon DEF Init, FrontRows, Torn, NoTearing
<1> QED
  BY <1>1, <1>2, <1>3, <1>4, <1>5, Zenon DEF Inv

\* The invariant is preserved by every step
LEMMA InvStep == Inv /\ [Next]_vars => Inv'
<1> SUFFICES ASSUME Inv, [Next]_vars PROVE Inv'
  BY Zenon
<1>1. CASE Next
  <2>1. PICK d \in Core : Shape(d)
    BY <1>1, ShapeStep, Zenon DEF Inv
  <2>2. FrontRows'
    BY <2>1, FrontRowsAp, FrontRowsCopy, FrontRowsPushed, FrontRowsBsp, Zenon
  <2> QED  BY <2>1, <2>2, TypedStep, PhasesStep, TermWindowStep, LockingStep, BackRowsStep, Zenon DEF Inv
<1>2. CASE UNCHANGED vars
  <2>1. UNCHANGED <<pc, held, DOUBLE_BUFFER, term_win, term_base, back, front, row, locked_lines>>
    BY <1>2, Zenon DEF vars, flags, bufs
  <2>2. Typed' /\ Phases' /\ TermWindow'
    BY <2>1, Zenon DEF Inv, Typed, Phases, TermWindow
  <2>3. Locking'
    BY <2>1, Zenon DEF Inv, Locking, Has
  <2>4. BackRows'
    BY <2>1, Zenon DEF Inv, BackRows, Unfinished, First, Again, Torn
  <2>5. FrontRows'
    BY <2>1, Zenon DEF Inv, FrontRows, Tearless, NoTearing, Torn
  <2> QED  BY <2>2, <2>3, <2>4, <2>5, Zenon DEF Inv
<1> QED
  BY <1>1, <1>2, Zenon

\* "Lock terminal to prevent tearing from main out", "Lock back buffer to prevent tearing
\* from other cores (opt in)": between two pushes the screen never shows half of an
\* output of TERM, nor half of a line core 1 wrote under lock_back_buffer, whichever
\* cores panic, and with whatever locks.
THEOREM NoTearingTheorem == Spec => []NoTearing
<1>1. Inv => NoTearing
  BY Zenon DEF Inv, FrontRows
<1> QED
  BY <1>1, InvInit, InvStep, PTL DEF Spec
--------------------------------------------------------------------------------
\* PANICKED_STOP_PRINTING is never reset and set before a panic prints; with it set,
\* core 0 does not get into push_to_frame_buffer; only a push takes messages away
LEMMA FlagSteps ==
    ASSUME Typed, Next
    PROVE  /\ PANICKED_STOP_PRINTING => PANICKED_STOP_PRINTING'
           /\ pc[0] \notin InPush /\ PANICKED_STOP_PRINTING => pc'[0] \notin InPush
           /\ shown' # {} => shown # {} \/ \E c \in Core : pc[c] \in Flagged
           /\ pc[0] \notin InPush /\ shown # {} => shown' # {}
           /\ \A c \in Core : pc'[c] \in Flagged => pc[c] \in Flagged \/ PANICKED_STOP_PRINTING'
<1> DEFINE Off(d, to) == Goto(d, to) /\ to \notin Flagged
                         /\ (d = 0 /\ to \in InPush => pc[0] \in InPush \/ ~PANICKED_STOP_PRINTING)
<1> DEFINE Plain(d) == /\ UNCHANGED PANICKED_STOP_PRINTING
                       /\ \/ shown' = shown /\ \E to : Off(d, to)
                          \/ d = 0 /\ pc' = pc /\ pc[0] = "copy" /\ shown' = {}
<1> DEFINE Panics(d) ==
      \/ pc[d] = "panic" /\ Goto(d, "panic_lock") /\ PANICKED_STOP_PRINTING' /\ shown' = shown
      \/ /\ pc[d] \in Flagged /\ UNCHANGED PANICKED_STOP_PRINTING
         /\ \E to \in Flagged \cup {"halted"} : Goto(d, to)
         /\ shown' = shown \/ shown' = shown \cup {d}
<1>1. timer_interrupt => Plain(0)
  BY DEF timer_interrupt, Interruptible, At, InPush, Flagged, msgs
<1>2. bsp_main => Plain(0)
  <2>1. switch_call_once \/ switch_done \/ wait_for_frame \/ hlt \/ push_check => Plain(0)
    BY DEF switch_call_once, switch_done, wait_for_frame, hlt, push_check, At, InPush, Flagged, msgs, flags
  <2>2. log \/ switch_term => Plain(0)
    BY DEF log, switch_term, Stdout, Ticket, TermUpper, TermLower, At, InPush, Flagged, msgs, flags
  <2>3. push_locks \/ push_done => Plain(0)
    BY Zenon DEF push_locks, push_done, Ticket, At, InPush, Flagged, msgs, flags
  <2>4. push_copy => Plain(0)
    BY Zenon DEF push_copy, At, msgs, flags
  <2> QED  BY <2>1, <2>2, <2>3, <2>4, Zenon DEF bsp_main
<1>3. ASSUME NEW d \in Core, d # 0 PROVE ap_main(d) \/ print_unlocked(d) => Plain(d)
  <2>1. \/ set_to_double_buffer(d) \/ wait_refresh(d) \/ barrier_arrive(d) \/ barrier_leave(d)
        => Plain(d)
    BY <1>3, Zenon DEF set_to_double_buffer, wait_refresh, barrier_arrive, barrier_leave,
           Flagged, msgs, flags
  <2>2. set_window_info(d) => Plain(d)
    BY <1>3, Zenon DEF set_window_info, Ticket, TermLower, Flagged, msgs, flags
  <2>3. ASSUME NEW up, NEW lo, NEW after, Draw(d, up, lo, after), lo \notin Flagged, after \notin Flagged
        PROVE  Plain(d)
    BY <1>3, <2>3, Zenon DEF Draw, DrawUpper, DrawLower, msgs, flags
  <2>4. lock_back_buffer(d) => Plain(d)
    BY <1>3, Zenon DEF lock_back_buffer, Ticket, DrawUpper, DrawLower, Flagged, msgs, flags
  <2>5. Stdout(d, "logo", "logo_upper", "logo_lower", "echo") => Plain(d)
    BY <1>3, Zenon DEF Stdout, Ticket, TermUpper, TermLower, Flagged, msgs, flags
  <2>6. \A to \in {"clear_lower", "refresh", "clear_again_lower", "line", "hello", "echo",
                   "hello_lower", "logo", "echo_lower"} : to \notin Flagged
    BY Zenon DEF Flagged
  <2>7. (IF d = 1 THEN "line" ELSE IF d = 2 THEN "hello" ELSE "echo") \in {"line", "hello", "echo"}
    BY Zenon
  <2> HIDE DEF Plain
  <2>8. Draw(d, "clear_again", "clear_again_lower",
             IF d = 1 THEN "line" ELSE IF d = 2 THEN "hello" ELSE "echo") => Plain(d)
    BY <2>3, <2>6, <2>7, Zenon
  <2>9. /\ Draw(d, "clear", "clear_lower", "refresh") => Plain(d)
        /\ Draw(d, "hello", "hello_lower", "logo") => Plain(d)
        /\ Draw(d, "echo", "echo_lower", "echo") => Plain(d)
    BY <2>3, <2>6, Zenon
  <2> QED  BY <2>1, <2>2, <2>4, <2>5, <2>8, <2>9, Zenon DEF ap_main, print_unlocked, print_logo
<1>4. ASSUME NEW d \in Core PROVE panic(d) => Plain(d)
  BY DEF panic, InPush, Flagged, flags
<1>5. ASSUME NEW d \in Core PROVE panic_handler(d) => Panics(d)
  <2>1. panic_flag(d) => Panics(d)
    BY Zenon DEF panic_flag, At, msgs
  <2>2. ASSUME NEW from \in Flagged, NEW to \in Flagged \cup {"halted"}, pc[d] = from, Goto(d, to),
               UNCHANGED PANICKED_STOP_PRINTING, shown' = shown \/ shown' = shown \cup {d}
        PROVE  Panics(d)
    BY <2>2, Zenon
  <2> HIDE DEF Panics
  <2>3. {"panic_lock", "panic_choose", "panic_swap", "panic_emergency", "panic_term", "panic_log",
         "panic_log_print"} \subseteq Flagged
    BY Zenon DEF Flagged
  <2>4. panic_swap(d) => Panics(d)
    BY <2>2, <2>3, Zenon DEF panic_swap, At, msgs, flags
  <2>5. panic_print(d) => Panics(d)
    BY <2>2, <2>3, Zenon DEF panic_print, msgs, flags
  <2>6. panic_choose(d) => Panics(d)
    BY <2>2, <2>3, Zenon DEF panic_choose, At, msgs, flags
  <2>7. panic_log(d) => Panics(d)
    BY <2>2, <2>3, Zenon DEF panic_log, Ticket, At, msgs, flags
  <2>8. Ticket(d, "panic_lock", "PANIC_PRINT_LOCK", "panic_choose") => Panics(d)
    BY <2>2, <2>3, Zenon DEF Ticket, At, msgs, flags
  <2> QED  BY <2>1, <2>4, <2>5, <2>6, <2>7, <2>8, Zenon DEF panic_handler
<1>6. \E d \in Core : Plain(d) \/ Panics(d)
  <2> HIDE DEF Plain, Panics
  <2> QED  BY <1>1, <1>2, <1>3, <1>4, <1>5, Cores, Zenon DEF Next, Run
<1>7. PICK d \in Core : Plain(d) \/ Panics(d)
  BY <1>6, Zenon
<1>8. \A to : Goto(d, to) => pc'[d] = to /\ \A c \in Core \ {d} : pc'[c] = pc[c]
  BY Zenon DEF Goto, Typed
<1>9. CASE Plain(d)
  BY <1>8, <1>9, Cores, Zenon DEF InPush
<1>10. CASE Panics(d)
  <2>1. shown # {} => shown' # {}
    BY <1>10, Zenon
  <2>2. shown' # {} => shown # {} \/ pc[d] \in Flagged
    BY <1>10, Zenon
  <2>3. pc[0] \notin InPush => pc'[0] \notin InPush
    BY <1>8, <1>10, Cores DEF InPush, Flagged
  <2>4. \A c \in Core : pc'[c] \in Flagged => pc[c] \in Flagged \/ PANICKED_STOP_PRINTING'
    BY <1>8, <1>10, Zenon
  <2> QED  BY <1>10, <2>1, <2>2, <2>3, <2>4
<1> QED
  BY <1>7, <1>9, <1>10, Zenon

\* PANICKED_STOP_PRINTING is set before any panic message is on the screen
LEMMA ToldAlways == Spec => []Told
<1>1. Init => Typed /\ Told
  BY InvInit, Cores, Zenon DEF Inv, Init, Told, Flagged
<1>2. Typed /\ Told /\ [Next]_vars => (Typed /\ Told)'
  <2> SUFFICES ASSUME Typed, Told, [Next]_vars PROVE Typed' /\ Told'
    BY Zenon
  <2>1. CASE Next
    <3>1. Typed'
      BY <2>1, ShapeStep, TypedStep, Zenon
    <3>2. Told'
      <4>1. shown' # {} => PANICKED_STOP_PRINTING'
        BY <2>1, FlagSteps, Zenon DEF Told
      <4>2. ASSUME NEW c \in Core, pc'[c] \in Flagged PROVE PANICKED_STOP_PRINTING'
        BY <2>1, <4>2, FlagSteps, Zenon DEF Told
      <4> QED  BY <4>1, <4>2, Zenon DEF Told
    <3> QED  BY <3>1, <3>2, Zenon
  <2>2. CASE UNCHANGED vars
    <3>1. UNCHANGED <<pc, held, PANICKED_STOP_PRINTING, shown, term_base, back, front, row, locked_lines>>
      BY <2>2, Zenon DEF vars, flags, bufs, msgs
    <3> QED  BY <3>1, Zenon DEF Typed, Told
  <2> QED  BY <2>1, <2>2, Zenon
<1> QED
  BY <1>1, <1>2, PTL DEF Spec

\* Panic messages that are on the screen while no push is under way stay there: core 0
\* goes on with its frame loop, but push_to_frame_buffer returns at its check of
\* PANICKED_STOP_PRINTING.
THEOREM PanicStaysTheorem == Spec => PanicStaysOnScreen
<1> DEFINE J == shown # {} /\ pc[0] \notin InPush /\ PANICKED_STOP_PRINTING
<1>1. Typed /\ J /\ [Next]_vars => J'
  <2> SUFFICES ASSUME Typed, J, [Next]_vars PROVE J'
    BY Zenon
  <2>1. CASE Next
    BY <2>1, FlagSteps, Zenon
  <2>2. CASE UNCHANGED vars
    BY <2>2, Zenon DEF vars, flags, msgs
  <2> QED  BY <2>1, <2>2, Zenon
<1>2. Told /\ (shown # {} /\ pc[0] \notin InPush) => J
  BY Zenon DEF Told
<1>3. J => shown # {}
  BY Zenon
<1>4. Inv => Typed
  BY Zenon DEF Inv
<1>5. Spec => []Inv
  BY InvInit, InvStep, PTL DEF Spec
<1> HIDE DEF J
<1> QED
  BY <1>1, <1>2, <1>3, <1>4, <1>5, ToldAlways, PTL DEF Spec, PanicStaysOnScreen
================================================================================
