----------------------------- MODULE PageAlloc -----------------------------
(* What the physical allocator promises: blocks out of a fixed set of      *)
(* aligned ones, made of usable pages, given to one owner at a time.       *)
EXTENDS Naturals

CONSTANT Aligned     \* the sets of pages that form a block

VARIABLES usable, owned

vars == <<usable, owned>>

Init == owned = {}

Alloc(b) ==
  /\ b \subseteq usable
  /\ \A c \in owned : b \cap c = {}
  /\ owned' = owned \cup {b}
  /\ UNCHANGED usable

Free(b) == b \in owned /\ owned' = owned \ {b} /\ UNCHANGED usable

Next == \E b \in Aligned : Alloc(b) \/ Free(b)

Spec == Init /\ [][Next]_vars
=============================================================================
