--------------------------------- MODULE Screen ---------------------------------
(***************************************************************************)
(* A writer at work on the divided screen: module Windows places the         *)
(* windows, module Terminal says what a TerminalWriter draws.  One writer is *)
(* followed: TERM, from when core 1 gives it the window of core 0 and wipes   *)
(* what it had on the full screen, or the local_writer of one of the other   *)
(* cores.  They print once all cores have passed the barrier of main.        *)
(***************************************************************************)
EXTENDS Windows, Terminal

CONSTANT Size16  \* the font of the local_writers

\* the smallest window has room for a line and for a character of every font
ASSUME ScreenAssumption ==
    /\ Size16 \in Font
    /\ \A w \in Width, f \in Font : CharWidth[f] <= w \div 4
    /\ \A h \in Height, f \in Font : f <= h \div y_div(MaxAps)

VARIABLES core,   \* whose writer it is: 0 for TERM
          writer  \* None, or the writer

screen_vars == <<vars, core, writer>>

ScreenInit ==
    /\ Init
    /\ core \in 0 .. ap_count
    /\ writer = None

TermMoved == term = get_window_info_for_core(0, ap_count)

\* the local_writer of an AP is cleared with its font
local_writer(id) ==
    /\ main_new(id)
    /\ writer' = IF id = core /\ window'[id] # Panic
                 THEN clear(TerminalWriter_new(window'[id]), Size16) ELSE writer
    /\ UNCHANGED core

move_term ==
    /\ main_set_term
    /\ writer' = IF core = 0
                 THEN set_window_info(TerminalWriter_new(term), term', InitialFont) ELSE writer
    /\ UNCHANGED core

\* Mutant: the local_writers do not wait for one another
MayPrint_without_barrier == writer # None

\* barrier!(ap_count) is behind all APs, and core 1 has moved TERM before it
MayPrint ==
    writer # None /\ TermMoved /\ \A id \in 1..ap_count : window[id] \notin {None, Panic}

write_char ==
    /\ MayPrint
    /\ writer' \in {newline(writer), carriage_return(writer), tab(writer), write_raw_char(writer)}
    /\ UNCHANGED <<vars, core>>

\* print_logo prints to TERM
print_logo ==
    /\ MayPrint /\ core = 0
    /\ \E p \in Picture : writer' = print_pixels(writer, p)
    /\ UNCHANGED <<vars, core>>

clear_window ==
    /\ MayPrint
    /\ \E f \in Font : writer' = clear(writer, f)
    /\ UNCHANGED <<vars, core>>

ScreenNext ==
    (\E id \in 1..ap_count : local_writer(id)) \/ move_term
    \/ write_char \/ print_logo \/ clear_window

ScreenSpec == ScreenInit /\ [][ScreenNext]_screen_vars
--------------------------------------------------------------------------------
Ink == {<<writer.info.x + p[1], writer.info.y + p[2]>> : p \in writer.now \cup writer.old}
Pixels(w) == (w.x .. w.x + w.width - 1) \X (w.y .. w.y + w.height - 1)

\* write_pixel only checks the end of the buffer, so nothing but the cursor keeps a
\* writer inside its window: whatever is printed, in whatever order, no pixel is drawn
\* outside it, and none that another writer draws at the same time without a common
\* lock: not in another core's window, nor where TERM is, which has the whole screen
\* until core 1 has moved it.  (A local_writer is cleared before; that leaves no ink.)
DrawsOwnPixels ==
    writer # None =>
        /\ Ink \subseteq Pixels(writer.info)
        /\ \A id \in Writers \ {core} : Ink \cap Pixels(window[id]) = {}
        /\ core # 0 => Ink \cap Pixels(term) = {}

\* Text goes around in the window and never mixes: on the line of the cursor, and
\* on the one below it, nothing is left of earlier lines.
NoStaleInk ==
    writer # None =>
        \A p \in writer.old : p[2] < writer.y_pos \/ p[2] >= writer.y_pos + 2 * writer.font_height
================================================================================
