------------------------------- MODULE FramePool -------------------------------
(***************************************************************************)
(* What the physical frame allocator promises its callers, without the     *)
(* free list that implements it: a pool of frames of which some are handed  *)
(* out.  A request is refused only when every frame of the pool is out, and *)
(* a granted frame is one that nobody holds.                                *)
(***************************************************************************)
CONSTANTS Pool, \* the frames the allocator manages
          None  \* the answer to a request that cannot be met

VARIABLES out,    \* the frames handed out and not given back
          result  \* the answer to the most recent request

vars == <<out, result>>

Init == out = {} /\ result = None

Grant == \E f \in Pool \ out : out' = out \cup {f} /\ result' = f

Refuse == out = Pool /\ result' = None /\ UNCHANGED out

GiveBack == \E f \in out : out' = out \ {f} /\ UNCHANGED result

Next == Grant \/ Refuse \/ GiveBack

Spec == Init /\ [][Next]_vars
================================================================================
