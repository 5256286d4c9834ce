----------------------------- MODULE ObjectPool -----------------------------
(* What an object allocator promises: an object has one owner at a time,   *)
(* only its owner's free takes it back, and each call is counted.          *)
EXTENDS Naturals

VARIABLES
  live,   \* objects that have an owner
  out     \* how many objects are out

vars == <<live, out>>

Init     == live = {} /\ out = 0
Alloc(o) == o \notin live /\ live' = live \cup {o} /\ out' = out + 1
Free(o)  == o \in live /\ live' = live \ {o} /\ out' = out - 1
Next     == (\E o \in live' : Alloc(o)) \/ (\E o \in live : Free(o))
Spec     == Init /\ [][Next]_vars
=============================================================================
