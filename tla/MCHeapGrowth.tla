------------------------------ MODULE MCHeapGrowth ------------------------------
(***************************************************************************)
(* A page of 4 words and requests below, at and above a page, of odd sizes  *)
(* and with alignments up to four pages.                                    *)
(***************************************************************************)
EXTENDS HeapGrowth

MCLayout == {[size |-> 1, align |-> 1], [size |-> 3, align |-> 2],
             [size |-> 5, align |-> 1], [size |-> 1, align |-> 16]}
================================================================================
