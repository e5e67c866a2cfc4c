-------------------------------- MODULE MCLoader --------------------------------
(* The program has an executable segment of one page and a data segment of two that
   asks to be writable and executable.  Cores and applications are interchangeable. *)
EXTENDS Loader, TLC

MCSegments == << [pages |-> <<1>>, write |-> FALSE, exec |-> TRUE],
                 [pages |-> <<2, 3>>, write |-> TRUE, exec |-> TRUE] >>
MCStackPages == <<4>>
MCHeapPages == <<5>>
MCKernelHeapPages == <<6>>

\* The fields of RunningApplicationCLD are words 1 and 2, the application's stack ends
\* at 6 and the kernel stack at 13; the registers of the caller differ.
MCAddr == 1..13
MCCaller ==
    [reg |-> [r \in Reg |-> CASE r = "rsp" -> 13 [] r = "rbx" -> 21 [] r = "rbp" -> 22
                              [] r = "r12" -> 23 [] r = "r13" -> 24 [] r = "r14" -> 25
                              [] r = "r15" -> 26 [] OTHER -> 0],
     mem |-> [a \in MCAddr |-> 0]]

Symmetry == Permutations(Core) \cup Permutations(App)
================================================================================
