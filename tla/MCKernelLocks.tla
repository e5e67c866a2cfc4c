----------------------------- MODULE MCKernelLocks -----------------------------
(* Any core may call any function, so the cores are interchangeable.  Two of two  *)
(* cores panic, or one of three.                                                  *)
EXTENDS KernelLocks, TLC

Symmetry == Permutations(Core)
Panics == <<1, 2, 1>>
================================================================================
