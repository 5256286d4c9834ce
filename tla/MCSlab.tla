------------------------------- MODULE MCSlab -------------------------------
(* Small instance of Slab for TLC, in words of four bytes: a header of six *)
(* and nodes of one, as in slab.c.  Blocks of memory are interchangeable.  *)
EXTENDS Slab, TLC
CONSTANTS p, q, r

\* Objects that need rounding, that need a larger slab than a page, and whose
\* alignment is larger than a page; 2 or 3 to a slab.
Sizes == {<<2, 1>>, <<2, 2>>, <<3, 2>>, <<5, 4>>, <<7, 8>>, <<32, 32>>}

Pages == Permutations(Blocks)
=============================================================================
