-------------------------------- MODULE Windows --------------------------------
(***************************************************************************)
(* How the screen is divided: WindowInfo of terminal_out.rs and              *)
(* get_window_info_for_core of common_main.rs.  Every core but core 0 takes  *)
(* a window of its own and then writes to it without any lock, so that the   *)
(* windows of two cores must not overlap.                                    *)
(***************************************************************************)
EXTENDS Integers, FiniteSets

CONSTANTS Width, Height, \* the sizes the frame buffer may have
          MaxAps,        \* bound on the number of APs
          None, Panic

ASSUME WindowsAssumption ==
    /\ Width \subseteq Nat \ {0} /\ Height \subseteq Nat \ {0} /\ MaxAps \in Nat \ {0}
    /\ Panic \notin [x : Nat, y : Nat, width : Nat, height : Nat]

VARIABLES fb_info,  \* width and height of the frame buffer
          ap_count,
          term,     \* the window of TERM
          window    \* the window of the local_writer of each core

vars == <<fb_info, ap_count, term, window>>

\* Mutant: the size is computed without the place, and rounded up
from_placement_ignores_index(p) ==
    [x |-> (p.x_index * fb_info.width) \div p.x_div,
     y |-> (p.y_index * fb_info.height) \div p.y_div,
     width |-> (p.x_size * fb_info.width + p.x_div - 1) \div p.x_div,
     height |-> (p.y_size * fb_info.height) \div p.y_div]

\* a window spans from the pixel its first cell starts at to the one its last ends at
from_placement(p) ==
    LET start_pixel_x == (p.x_index * fb_info.width) \div p.x_div
        stop_pixel_x == ((p.x_index + p.x_size) * fb_info.width) \div p.x_div
        start_pixel_y == (p.y_index * fb_info.height) \div p.y_div
        stop_pixel_y == ((p.y_index + p.y_size) * fb_info.height) \div p.y_div
    IN  [x |-> start_pixel_x, y |-> start_pixel_y,
         width |-> stop_pixel_x - start_pixel_x, height |-> stop_pixel_y - start_pixel_y]

\* the assertions of WindowInfo::new; the second compares with the width, too
WindowInfo_new(w) ==
    IF w.x + w.width <= fb_info.width /\ w.y + w.height <= fb_info.width
    THEN w ELSE Panic

FULL_SCREEN_PLACEMENT == [x_div |-> 1, y_div |-> 1, x_index |-> 0, y_index |-> 0,
                          x_size |-> 1, y_size |-> 1]

\* Mutant: rounded down, so that a last row that is not full has no place
y_div_rounded_down(count) == IF count < 4 THEN 1 ELSE count \div 4

y_div(count) == (count + 4 - 1) \div 4

get_window_info_for_core(id, count) ==
    WindowInfo_new(from_placement([x_div |-> 4, y_div |-> y_div(count),
                        x_index |-> id % 4, y_index |-> id \div 4,
                        x_size |-> 1, y_size |-> 1]))

Init ==
    /\ fb_info \in [width : Width, height : Height]
    /\ ap_count \in 1..MaxAps
    /\ term = WindowInfo_new(from_placement(FULL_SCREEN_PLACEMENT))
    /\ window = [id \in 1..ap_count |-> None]

\* an AP makes its local_writer
main_new(id) ==
    /\ term # Panic /\ window[id] = None
    /\ window' = [window EXCEPT ![id] = get_window_info_for_core(id, ap_count)]
    /\ UNCHANGED <<fb_info, ap_count, term>>

\* core 1 moves TERM to the window of core 0
main_set_term ==
    /\ window[1] \notin {None, Panic}
    /\ term = WindowInfo_new(from_placement(FULL_SCREEN_PLACEMENT))
    /\ term' = get_window_info_for_core(0, ap_count)
    /\ UNCHANGED <<fb_info, ap_count, window>>

Next == (\E id \in 1..ap_count : main_new(id)) \/ main_set_term

Spec == Init /\ [][Next]_vars
--------------------------------------------------------------------------------
Writers == {id \in 1..ap_count : window[id] \notin {None, Panic}}
Overlap(v, w) == /\ v.x < w.x + w.width /\ w.x < v.x + v.width
                 /\ v.y < w.y + w.height /\ w.y < v.y + v.height
OnScreen(w) == w.x + w.width <= fb_info.width /\ w.y + w.height <= fb_info.height

\* No pixel belongs to two cores: the windows of local_writers, which are written
\* without a lock, are disjoint for every resolution and number of cores, and once
\* TERM has moved they are disjoint from its window, too.
WindowsDisjoint ==
    /\ \A i, j \in Writers : i # j => ~Overlap(window[i], window[j])
    /\ term # Panic /\ term # WindowInfo_new(from_placement(FULL_SCREEN_PLACEMENT)) =>
          \A i \in Writers : ~Overlap(window[i], term)

\* On a screen that is not higher than wide, every core of a machine whose number of
\* APs is not a multiple of 4 gets a window, and it is on the screen.
OnScreenUnlessMultipleOf4 ==
    fb_info.height <= fb_info.width /\ ap_count % 4 # 0 =>
        /\ term # Panic /\ OnScreen(term)
        /\ \A id \in 1..ap_count : window[id] # None => window[id] # Panic /\ OnScreen(window[id])

\* What the assertions of WindowInfo::new are there for: a window that passes them
\* lies on the screen.
AssertedOnScreen == \A id \in Writers : OnScreen(window[id])
================================================================================
