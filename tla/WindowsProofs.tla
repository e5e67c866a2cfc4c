----------------------------- MODULE WindowsProofs -----------------------------
(***************************************************************************)
(* The windows of the cores are disjoint for every size of the screen and    *)
(* every number of cores.  The invariant says that a core has either no      *)
(* window or the one of its cell, which from_placement computes by rounding   *)
(* the cell's edges down; neighbouring cells round a common edge to the same  *)
(* pixel, and rounding keeps the order of edges.                             *)
(***************************************************************************)
EXTENDS Windows, TLAPS

\* Rounding down keeps the order: the edge of a cell that is not to the right of
\* another is not to the right of it after the division of from_placement.
LEMMA DivMonotone ==
    ASSUME NEW m \in Nat, NEW n \in Nat, NEW d \in Nat \ {0}, m <= n
    PROVE  m \div d \in Nat /\ n \div d \in Nat /\ m \div d <= n \div d
<1> DEFINE p == m \div d
           q == n \div d
<1>1. p \in Nat /\ q \in Nat
  OBVIOUS
<1>2. d * p <= m /\ n < d * q + d
  OBVIOUS
<1>3. ASSUME q + 1 <= p PROVE FALSE
  <2>1. PICK k \in Nat : p = q + 1 + k
    <3>1. p - (q + 1) \in Nat  BY <1>1, <1>3
    <3> HIDE DEF p, q
    <3> QED  BY <3>1, <1>1
  <2> HIDE DEF p, q
  <2>2. d * p = d * q + d + d * k
    BY <2>1, <1>1
  <2>3. d * k \in Nat /\ d * p \in Nat /\ d * q \in Nat
    BY <2>1, <1>1
  <2> QED  BY <2>2, <2>3, <1>2
<1> QED  BY <1>1, <1>3

\* A cell ends where the next one starts, or before: the stop pixel of cell a is at
\* most the start pixel of any later cell b.
LEMMA CellsInOrder ==
    ASSUME NEW a \in Nat, NEW b \in Nat, a < b, NEW size \in Nat, NEW d \in Nat \ {0}
    PROVE  /\ ((a + 1) * size) \div d <= (b * size) \div d
           /\ (a * size) \div d \in Nat /\ ((a + 1) * size) \div d \in Nat
           /\ (b * size) \div d \in Nat
<1>1. PICK k \in Nat : b = a + 1 + k
  <2>1. b - (a + 1) \in Nat  OBVIOUS
  <2> QED  BY <2>1
<1>2. b * size = (a + 1) * size + k * size
  BY <1>1
<1>3. (a + 1) * size \in Nat /\ k * size \in Nat /\ a * size \in Nat
  BY <1>1
<1>4. (a + 1) * size <= b * size /\ b * size \in Nat
  BY <1>2, <1>3
<1> HIDE <1>1
<1> QED  BY <1>3, <1>4, DivMonotone

Cell(id) == get_window_info_for_core(id, ap_count)
FullScreen == WindowInfo_new(from_placement(FULL_SCREEN_PLACEMENT))

\* the edges of a cell, rounded down
Left(id) == ((id % 4) * fb_info.width) \div 4
Right(id) == (((id % 4) + 1) * fb_info.width) \div 4
Top(id) == ((id \div 4) * fb_info.height) \div y_div(ap_count)
Bottom(id) == (((id \div 4) + 1) * fb_info.height) \div y_div(ap_count)

Typed == fb_info \in [width : Nat, height : Nat] /\ ap_count \in Nat \ {0}

\* The cell of a core has a column and a row, and there is at least one row.
LEMMA CellIndex ==
    ASSUME Typed, NEW id \in Nat
    PROVE  /\ y_div(ap_count) \in Nat \ {0} /\ id % 4 \in Nat /\ id \div 4 \in Nat
           /\ fb_info.width \in Nat /\ fb_info.height \in Nat
BY DEF y_div, Typed

\* The edges are pixels.
LEMMA EdgesNat ==
    ASSUME Typed, NEW id \in Nat
    PROVE  Left(id) \in Nat /\ Right(id) \in Nat /\ Top(id) \in Nat /\ Bottom(id) \in Nat
<1>1. Left(id) \in Nat /\ Right(id) \in Nat
  <2>1. id % 4 < (id % 4) + 1 /\ (id % 4) + 1 \in Nat  BY CellIndex
  <2>2. \A d \in Nat \ {0} : /\ ((id % 4) * fb_info.width) \div d \in Nat
                             /\ (((id % 4) + 1) * fb_info.width) \div d \in Nat
    BY <2>1, CellIndex, CellsInOrder, Zenon
  <2> QED  BY <2>2 DEF Left, Right
<1>2. Top(id) \in Nat /\ Bottom(id) \in Nat
  <2>1. id \div 4 < (id \div 4) + 1 /\ (id \div 4) + 1 \in Nat  BY CellIndex
  <2> QED  BY <2>1, CellIndex, CellsInOrder, Zenon DEF Top, Bottom
<1> QED  BY <1>1, <1>2, Zenon

\* What get_window_info_for_core returns when it does not panic: the span between two
\* edges in each direction.
LEMMA CellEdges ==
    ASSUME Typed, NEW id \in Nat, Cell(id) # Panic
    PROVE  Cell(id) = [x |-> Left(id), y |-> Top(id),
                       width |-> Right(id) - Left(id), height |-> Bottom(id) - Top(id)]
<1> DEFINE p == [x_div |-> 4, y_div |-> y_div(ap_count), x_index |-> id % 4,
                 y_index |-> id \div 4, x_size |-> 1, y_size |-> 1]
<1>1. Cell(id) = from_placement(p)
  BY Zenon DEF Cell, get_window_info_for_core, WindowInfo_new
<1> QED  BY <1>1, Zenon DEF from_placement, Left, Right, Top, Bottom

\* Of two cells one ends where the other starts, or before, in some direction.
LEMMA EdgesInOrder ==
    ASSUME Typed, NEW i \in Nat, NEW j \in Nat, i # j
    PROVE  Right(i) <= Left(j) \/ Right(j) <= Left(i) \/ Bottom(i) <= Top(j) \/ Bottom(j) <= Top(i)
<1>1. \/ i % 4 < j % 4 \/ j % 4 < i % 4
      \/ i \div 4 < j \div 4 \/ j \div 4 < i \div 4
  OBVIOUS
<1>2. CASE i % 4 < j % 4
  <2>1. \A d \in Nat \ {0} :
          (((i % 4) + 1) * fb_info.width) \div d <= ((j % 4) * fb_info.width) \div d
    BY <1>2, CellIndex, CellsInOrder, Zenon
  <2> QED  BY <2>1 DEF Left, Right
<1>3. CASE j % 4 < i % 4
  <2>1. \A d \in Nat \ {0} :
          (((j % 4) + 1) * fb_info.width) \div d <= ((i % 4) * fb_info.width) \div d
    BY <1>3, CellIndex, CellsInOrder, Zenon
  <2> QED  BY <2>1 DEF Left, Right
<1>4. CASE i \div 4 < j \div 4
  <2>1. (((i \div 4) + 1) * fb_info.height) \div y_div(ap_count) <= ((j \div 4) * fb_info.height) \div y_div(ap_count)
    BY <1>4, CellIndex, CellsInOrder, Zenon
  <2> QED  BY <2>1, Zenon DEF Top, Bottom
<1>5. CASE j \div 4 < i \div 4
  <2>1. (((j \div 4) + 1) * fb_info.height) \div y_div(ap_count) <= ((i \div 4) * fb_info.height) \div y_div(ap_count)
    BY <1>5, CellIndex, CellsInOrder, Zenon
  <2> QED  BY <2>1, Zenon DEF Top, Bottom
<1> QED  BY <1>1, <1>2, <1>3, <1>4, <1>5, Zenon

\* No pixel is in the cells of two cores.
LEMMA CellsDisjoint ==
    ASSUME Typed, NEW i \in Nat, NEW j \in Nat, i # j, Cell(i) # Panic, Cell(j) # Panic
    PROVE  ~Overlap(Cell(i), Cell(j))
<1>1. /\ Cell(i) = [x |-> Left(i), y |-> Top(i),
                     width |-> Right(i) - Left(i), height |-> Bottom(i) - Top(i)]
      /\ Cell(j) = [x |-> Left(j), y |-> Top(j),
                     width |-> Right(j) - Left(j), height |-> Bottom(j) - Top(j)]
  BY CellEdges, Zenon
<1>2. /\ Left(i) \in Nat /\ Right(i) \in Nat /\ Top(i) \in Nat /\ Bottom(i) \in Nat
      /\ Left(j) \in Nat /\ Right(j) \in Nat /\ Top(j) \in Nat /\ Bottom(j) \in Nat
  BY EdgesNat, Zenon
<1>3. Right(i) <= Left(j) \/ Right(j) <= Left(i) \/ Bottom(i) <= Top(j) \/ Bottom(j) <= Top(i)
  BY EdgesInOrder, Zenon
<1> QED  BY <1>1, <1>2, <1>3 DEF Overlap

\* Whoever has a window has the one of its cell, and TERM the whole screen or cell 0.
IInv ==
    /\ Typed
    /\ term \in {FullScreen, Cell(0)}
    /\ DOMAIN window = 1..ap_count
    /\ \A id \in 1..ap_count : window[id] \in {None, Cell(id)}

\* Every step gives a core the window of its cell, or TERM cell 0.
LEMMA Placed == Spec => []IInv
<1>1. Init => IInv
  <2> SUFFICES ASSUME Init PROVE IInv  BY Zenon
  <2>1. Typed
    <3>1. ap_count \in Nat \ {0}
      BY WindowsAssumption DEF Init
    <3>2. fb_info \in [width : Nat, height : Nat]
      <4>1. PICK w \in Width, h \in Height : fb_info = [width |-> w, height |-> h]
        BY Zenon DEF Init
      <4>2. w \in Nat /\ h \in Nat  BY <4>1, WindowsAssumption, Zenon
      <4> QED  BY <4>1, <4>2, Zenon
    <3> QED  BY <3>1, <3>2, Zenon DEF Typed
  <2>2. term = FullScreen /\ window = [id \in 1..ap_count |-> None]
    BY Zenon DEF Init, FullScreen
  <2> QED  BY <2>1, <2>2, Zenon DEF IInv
<1>2. IInv /\ [Next]_vars => IInv'
  <2> SUFFICES ASSUME IInv, [Next]_vars PROVE IInv'  BY Zenon
  <2>1. fb_info' = fb_info /\ ap_count' = ap_count
    BY Zenon DEF Next, vars, main_new, main_set_term
  <2>2. Typed' /\ FullScreen' = FullScreen /\ \A id : Cell(id)' = Cell(id)
    <3>1. Typed'  BY <2>1, Zenon DEF IInv, Typed
    <3>2. FullScreen' = FullScreen
      BY <2>1, Zenon DEF FullScreen, FULL_SCREEN_PLACEMENT, WindowInfo_new, from_placement
    <3>3. ASSUME NEW id PROVE Cell(id)' = Cell(id)
      BY <2>1, Zenon DEF Cell, get_window_info_for_core, y_div, WindowInfo_new, from_placement
    <3> QED  BY <3>1, <3>2, <3>3, Zenon
  <2>3. CASE \E id \in 1..ap_count : main_new(id)
    <3>1. PICK id \in 1..ap_count : main_new(id)  BY <2>3, Zenon
    <3>2. window' = [window EXCEPT ![id] = Cell(id)] /\ term' = term
      BY <3>1, Zenon DEF main_new, Cell
    <3> QED  BY <2>1, <2>2, <3>2, Zenon DEF IInv
  <2>4. CASE main_set_term
    <3>1. term' = Cell(0) /\ window' = window
      BY <2>4, Zenon DEF main_set_term, Cell
    <3> QED  BY <2>1, <2>2, <3>1, Zenon DEF IInv
  <2>5. CASE UNCHANGED vars
    BY <2>1, <2>2, <2>5, Zenon DEF IInv, vars
  <2> QED  BY <2>3, <2>4, <2>5, Zenon DEF Next
<1> QED  BY <1>1, <1>2, PTL DEF Spec

\* For every resolution and every number of cores no pixel belongs to two windows
\* that get_window_info_for_core hands out, TERM's included once core 1 has moved it.
THEOREM WindowsStayDisjoint == Spec => []WindowsDisjoint
<1>1. IInv => WindowsDisjoint
  <2> SUFFICES ASSUME IInv PROVE WindowsDisjoint  BY Zenon
  <2>1. \A i \in Writers : i \in Nat /\ i # 0 /\ window[i] = Cell(i) /\ Cell(i) # Panic
    BY DEF IInv, Writers
  <2>2. \A i, j \in Writers : i # j => ~Overlap(window[i], window[j])
    BY Zenon, <2>1, CellsDisjoint DEF IInv
  <2>3. ASSUME term # Panic, term # FullScreen, NEW i \in Writers PROVE ~Overlap(window[i], term)
    <3>1. term = Cell(0)  BY <2>3, Zenon DEF IInv
    <3> QED  BY Zenon, <3>1, <2>1, <2>3, CellsDisjoint DEF IInv
  <2> QED  BY <2>2, <2>3, Zenon DEF WindowsDisjoint, FullScreen
<1> QED  BY <1>1, Placed, PTL
--------------------------------------------------------------------------------
\* A cell among the first d of d ends on the screen.
LEMMA LastCell ==
    ASSUME NEW a \in Nat, NEW d \in Nat \ {0}, a < d, NEW size \in Nat
    PROVE  ((a + 1) * size) \div d <= size
<1>1. ((a + 1) * size) \div d <= (d * size) \div d
  BY CellsInOrder, Zenon
<1>2. (d * size) \div d = size
  OBVIOUS
<1> QED  BY <1>1, <1>2, Zenon

\* Unless the number of APs is a multiple of 4, y_div leaves a row for the last core.
LEMMA EdgesOnScreen ==
    ASSUME Typed, ap_count % 4 # 0, NEW id \in 0..ap_count
    PROVE  Right(id) <= fb_info.width /\ Bottom(id) <= fb_info.height
<1>1. id \in Nat /\ id % 4 < 4 /\ id \div 4 < y_div(ap_count)
  BY DEF Typed, y_div
<1>2. Right(id) <= fb_info.width
  <2>1. \A d \in Nat \ {0} : id % 4 < d => (((id % 4) + 1) * fb_info.width) \div d <= fb_info.width
    BY <1>1, CellIndex, LastCell, Zenon
  <2> QED  BY <1>1, <2>1 DEF Right
<1>3. Bottom(id) <= fb_info.height
  BY <1>1, CellIndex, LastCell, Zenon DEF Bottom
<1> QED  BY <1>2, <1>3, Zenon

\* The left edge of a cell is not to the right of its right edge, nor the top below the
\* bottom.
LEMMA EdgesOrdered ==
    ASSUME Typed, NEW id \in Nat
    PROVE  Left(id) <= Right(id) /\ Top(id) <= Bottom(id)
<1>1. \A k \in Nat, size \in Nat :
         k * size \in Nat /\ (k + 1) * size \in Nat /\ k * size <= (k + 1) * size
  OBVIOUS
<1>2. \A d \in Nat \ {0} :
         ((id % 4) * fb_info.width) \div d <= (((id % 4) + 1) * fb_info.width) \div d
  BY Zenon, <1>1, CellIndex, DivMonotone
<1>3. ((id \div 4) * fb_info.height) \div y_div(ap_count)
         <= (((id \div 4) + 1) * fb_info.height) \div y_div(ap_count)
  BY Zenon, <1>1, CellIndex, DivMonotone
<1> QED  BY <1>2, <1>3 DEF Left, Right, Top, Bottom

\* Such a cell passes the assertions of WindowInfo::new and is on the screen.
LEMMA CellOnScreen ==
    ASSUME Typed, fb_info.height <= fb_info.width, ap_count % 4 # 0, NEW id \in 0..ap_count
    PROVE  Cell(id) # Panic /\ OnScreen(Cell(id))
<1> DEFINE p == [x_div |-> 4, y_div |-> y_div(ap_count), x_index |-> id % 4,
                 y_index |-> id \div 4, x_size |-> 1, y_size |-> 1]
           w == [x |-> Left(id), y |-> Top(id),
                 width |-> Right(id) - Left(id), height |-> Bottom(id) - Top(id)]
<1>1. id \in Nat
  BY DEF Typed
<1>2. from_placement(p) = w
  BY Zenon DEF from_placement, Left, Right, Top, Bottom
<1>3. w \in [x : Nat, y : Nat, width : Nat, height : Nat]
  BY <1>1, EdgesNat, EdgesOrdered
<1>4. w.x + w.width <= fb_info.width /\ w.y + w.height <= fb_info.height
  BY <1>1, EdgesNat, EdgesOnScreen
<1>5. w.y + w.height <= fb_info.width
  BY <1>3, <1>4 DEF Typed
<1>6. Cell(id) = w
  BY <1>2, <1>4, <1>5, Zenon DEF Cell, get_window_info_for_core, WindowInfo_new
<1> QED  BY <1>3, <1>4, <1>6, WindowsAssumption, Zenon DEF OnScreen

\* The whole screen is a window of the screen.
LEMMA FullOnScreen ==
    ASSUME Typed, fb_info.height <= fb_info.width
    PROVE  FullScreen # Panic /\ OnScreen(FullScreen)
<1>1. from_placement(FULL_SCREEN_PLACEMENT)
        = [x |-> 0, y |-> 0, width |-> fb_info.width, height |-> fb_info.height]
  BY DEF from_placement, FULL_SCREEN_PLACEMENT, Typed
<1>2. FullScreen = [x |-> 0, y |-> 0, width |-> fb_info.width, height |-> fb_info.height]
  BY <1>1 DEF FullScreen, WindowInfo_new, Typed
<1> QED  BY <1>2, WindowsAssumption DEF OnScreen, Typed

\* On a screen that is not higher than wide, get_window_info_for_core gives every core
\* a window on the screen, for every number of APs that is not a multiple of 4.
THEOREM WindowsStayOnScreen == Spec => []OnScreenUnlessMultipleOf4
<1>1. IInv => OnScreenUnlessMultipleOf4
  <2> SUFFICES ASSUME IInv, fb_info.height <= fb_info.width, ap_count % 4 # 0
               PROVE  /\ term # Panic /\ OnScreen(term)
                      /\ \A id \in 1..ap_count :
                            window[id] # None => window[id] # Panic /\ OnScreen(window[id])
    BY Zenon DEF OnScreenUnlessMultipleOf4
  <2>1. Typed /\ 0 \in 0..ap_count /\ 1..ap_count \subseteq 0..ap_count
    BY DEF IInv, Typed
  <2>2. term # Panic /\ OnScreen(term)
    BY <2>1, CellOnScreen, FullOnScreen, Zenon DEF IInv
  <2>3. \A id \in 1..ap_count : window[id] # None => window[id] # Panic /\ OnScreen(window[id])
    BY <2>1, CellOnScreen, Zenon DEF IInv
  <2> QED  BY <2>2, <2>3, Zenon
<1> QED  BY <1>1, Placed, PTL
================================================================================
