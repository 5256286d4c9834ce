------------------------------ MODULE MCMemory ------------------------------
(* Memory of eight pages of three units, the first of them the low memory. *)
EXTENDS Memory

Seg(s, e) == [start |-> s, end |-> e, available |-> TRUE]
Bad(s, e) == [start |-> s, end |-> e, available |-> FALSE]

Info(m, k) == [has_map |-> TRUE, info_end |-> 1, mmap_end |-> LOW,
               mmap |-> m, kernel |-> k]
AtLow == [start |-> LOW, end |-> LOW + 4]

\* The kernel anywhere in one segment of all memory and more, of every size
\* that needs one or two pages.
AnyKernel ==
  {Info(<<Seg(0, MAX_PAGE_SIZE + 5)>>, [start |-> s, end |-> s + k]) :
     s \in {LOW, LOW + 1, LOW + 2, LOW + 9, MAX_PAGE_SIZE - 2}, k \in 1..4}

\* One available segment with limits anywhere around the limits of pages.
AnySegment ==
  {Info(<<Bad(0, s), Seg(s, e), Bad(MAX_PAGE_SIZE + 3, MAX_PAGE_SIZE + 6)>>, AtLow) :
     s \in 0..(2 * PAGE), e \in (4 * PAGE)..(MAX_PAGE_SIZE + 1)}

\* Segments that touch, overlap or leave a hole, and too many of them.
Mixed ==
  {Info(<<Seg(0, 10), Seg(10, 27)>>, AtLow),
   Info(<<Seg(1, 23), Seg(4, 14)>>, AtLow),
   Info(<<Seg(15, 24), Bad(14, 15), Seg(2, 14)>>, AtLow),
   Info(<<Seg(3, 6), Seg(9, 12), Seg(15, 24)>>, AtLow)}

\* Boot data that init_memory does not accept.
Wrong ==
  LET good == Info(<<Seg(0, MAX_PAGE_SIZE)>>, AtLow)
  IN  {[good EXCEPT !.has_map = FALSE], [good EXCEPT !.info_end = LOW + 1],
       [good EXCEPT !.mmap_end = LOW + 1]}

Infos == AnyKernel \cup AnySegment \cup Mixed \cup Wrong
=============================================================================
