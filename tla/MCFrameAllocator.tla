--------------------------- MODULE MCFrameAllocator ---------------------------
(* Three frames in an order that is not the numeric one. *)
EXTENDS FrameAllocator

MCUsable == <<7, 2, 9>>
================================================================================
