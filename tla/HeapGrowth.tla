------------------------------- MODULE HeapGrowth -------------------------------
(***************************************************************************)
(* The kernel heap and the application heaps of allocator.rs: a buddy       *)
(* allocator (external) that calls the rescue closure when a request does   *)
(* not fit, and tries once more after it.  The closure maps the pages after *)
(* the heap and adds them to it.                                            *)
(*                                                                          *)
(* Addresses count machine words from the start of the heap, which is       *)
(* aligned to more than any request.  The heap's lock is held from the first *)
(* try to the second, so a request is one step.                             *)
(***************************************************************************)
EXTENDS Integers, FiniteSets, FiniteSetsExt

CONSTANTS PageOrder, \* a page has 2^PageOrder words
          MaxOrder,  \* bound: the heap grows to at most 2^MaxOrder words
          MaxUsed,   \* bound on the blocks in use at a time
          Layout     \* the requests: size, and align a power of two

ASSUME HeapAssumption ==
    /\ PageOrder \in Nat /\ MaxOrder \in Nat /\ MaxUsed \in Nat
    /\ \A l \in Layout : l.size > 0 /\ \E k \in 0 .. MaxOrder : l.align = 2 ^ k

VARIABLES total,  \* stats_total_bytes
          free,   \* the free lists: <<address, order>> of every free block
          used,   \* the blocks handed out, with the layout they were asked for
          mapped, \* how often each page of the heap has been mapped
          null    \* the last request that got a null pointer, with the size the
                  \* heap had before it

vars == <<total, free, used, mapped, null>>

PageSize == 2 ^ PageOrder
Order == 0 .. MaxOrder
next_power_of_two(n) == Min({2 ^ k : k \in {k \in 0 .. MaxOrder + 4 : 2 ^ k >= n}})
log2(n) == CHOOSE k \in 0 .. MaxOrder + 4 : 2 ^ k = n
align_up(a, align) == ((a + align - 1) \div align) * align
--------------------------------------------------------------------------------
\* The buddy allocator

ClassOf(layout) == log2(Max({next_power_of_two(layout.size), layout.align}))

\* the free blocks alloc may take: those of the smallest order that is large enough
Fitting(f, class) ==
    LET large == {b \in f : b[2] >= class}
    IN  {b \in large : \A d \in large : b[2] <= d[2]}

\* splitting block b down to class leaves the upper half of every order in between
Remainders(b, class) == {<<b[1] + 2 ^ (j - 1), j - 1>> : j \in class + 1 .. b[2]}

Buddy(a, k) == IF (a \div 2 ^ k) % 2 = 0 THEN a + 2 ^ k ELSE a - 2 ^ k

RECURSIVE Merge(_, _, _)
Merge(f, a, k) ==
    IF k < MaxOrder /\ <<Buddy(a, k), k>> \in f
    THEN Merge(f \ {<<Buddy(a, k), k>>}, Min({a, Buddy(a, k)}), k + 1)
    ELSE f \cup {<<a, k>>}

\* add_to_heap cuts a range into the largest naturally aligned blocks
RECURSIVE Blocks(_, _)
Blocks(from, end) ==
    IF from >= end THEN {}
    ELSE LET k == Max({k \in Order : from % 2 ^ k = 0 /\ from + 2 ^ k <= end})
         IN  {<<from, k>>} \cup Blocks(from + 2 ^ k, end)
--------------------------------------------------------------------------------
\* The rescue closure: how far the heap grows for a request

\* Mutant: the padding up to the requested alignment is forgotten
NewTotal_ignores_align(layout) ==
    LET min_size_to_add == next_power_of_two(layout.size)
    IN  Max({next_power_of_two(min_size_to_add + total), min_size_to_add * 2})

NewTotal(layout) ==
    LET min_size_to_add == next_power_of_two(align_up(total, layout.align) - total + layout.size)
    IN  Max({next_power_of_two(min_size_to_add + total), min_size_to_add * 2})

\* Mutant: starts at the page of the heap's last word
PageRange_overlapping(layout) ==
    Max({total - 1, 0}) \div PageSize .. (NewTotal(layout) - 1) \div PageSize

\* page_range: the pages that contain the first and the last added word
PageRange(layout) == total \div PageSize .. (NewTotal(layout) - 1) \div PageSize

Fits(layout) == Fitting(free, ClassOf(layout)) # {}
CanGrow(layout) == NewTotal(layout) <= 2 ^ MaxOrder

\* Mutant: the last mapped page is not added
Grown_without_last_page(layout) ==
    free \cup Blocks(Min(PageRange(layout)) * PageSize, Max(PageRange(layout)) * PageSize)

Grown(layout) ==
    free \cup Blocks(Min(PageRange(layout)) * PageSize, (Max(PageRange(layout)) + 1) * PageSize)

rescue(layout) ==
    /\ mapped' = [p \in DOMAIN mapped |-> IF p \in PageRange(layout) THEN mapped[p] + 1 ELSE mapped[p]]
    /\ total' = total + Cardinality(PageRange(layout)) * PageSize

Take(f, layout) ==
    /\ Cardinality(used) < MaxUsed
    /\ \E b \in Fitting(f, ClassOf(layout)) :
        /\ free' = (f \ {b}) \cup Remainders(b, ClassOf(layout))
        /\ used' = used \cup {[addr |-> b[1], order |-> ClassOf(layout), layout |-> layout]}

Init ==
    /\ total = 0 /\ free = {} /\ used = {}
    /\ mapped = [p \in 0 .. (2 ^ MaxOrder) \div PageSize - 1 |-> 0]
    /\ null = {}

alloc(layout) ==
    /\ Fits(layout)
    /\ Take(free, layout)
    /\ UNCHANGED <<total, mapped, null>>

alloc_rescued(layout) ==
    /\ ~Fits(layout) /\ CanGrow(layout)
    /\ rescue(layout)
    /\ Take(Grown(layout), layout)
    /\ UNCHANGED null

\* the second try fails too: a null pointer
alloc_null(layout) ==
    /\ ~Fits(layout) /\ CanGrow(layout)
    /\ Fitting(Grown(layout), ClassOf(layout)) = {}
    /\ rescue(layout)
    /\ free' = Grown(layout)
    /\ null' = {[layout |-> layout, before |-> total]}
    /\ UNCHANGED used

dealloc(b) ==
    /\ b \in used
    /\ free' = Merge(free, b.addr, b.order)
    /\ used' = used \ {b}
    /\ UNCHANGED <<total, mapped, null>>

Next ==
    \/ \E l \in Layout : alloc(l) \/ alloc_rescued(l) \/ alloc_null(l)
    \/ \E b \in used : dealloc(b)

Spec == Init /\ [][Next]_vars
--------------------------------------------------------------------------------
Words(a, k) == a .. a + 2 ^ k - 1
AllBlocks == free \cup {<<b.addr, b.order>> : b \in used}

\* Free and used blocks tile the heap, whatever the order of growing, splitting and
\* merging: no word is handed out twice and none is lost.
BlocksTileHeap ==
    /\ UNION {Words(b[1], b[2]) : b \in AllBlocks} = 0 .. total - 1
    /\ MapThenSumSet(LAMBDA b : 2 ^ b[2], free)
         + MapThenSumSet(LAMBDA b : 2 ^ b.order, used) = total

\* The pages of the heap, and no others, are mapped, each exactly once: a growth
\* never meets PageAlreadyMapped, although it derives its start from the heap's
\* statistics and rounds its end up to a whole page.
HeapPagesMappedOnce ==
    \A p \in DOMAIN mapped : mapped[p] = IF p < total \div PageSize THEN 1 ELSE 0

\* One call of the closure is enough: a request fails only if it is the heap's first
\* and its alignment exceeds both a page and twice its size.
RescueSuffices ==
    \A n \in null : /\ n.before = 0
                    /\ n.layout.align > PageSize
                    /\ n.layout.align > 2 * next_power_of_two(n.layout.size)
================================================================================
