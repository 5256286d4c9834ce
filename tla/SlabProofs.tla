------------------------------ MODULE SlabProofs ------------------------------
(***************************************************************************)
(* The slab allocator is right for every size, alignment and page size,    *)
(* and any number of slabs.  First the layout: the assertion of            *)
(* calculate_slab never fails, and the objects handed out lie in their     *)
(* slabs, aligned and apart.  Then the chains of free objects and the list *)
(* of partial slabs: no object is given out twice or lost, no assertion    *)
(* fails, and the allocator implements a pool of objects.                  *)
(***************************************************************************)
EXTENDS Slab, RingProofs

-----------------------------------------------------------------------------
(* Arithmetic of multiples.                                                *)

(* A remainder is zero exactly for the multiples.                          *)
LEMMA Multiples ==
  ASSUME NEW x \in Nat, NEW d \in Nat \ {0}
  PROVE  x % d = 0 <=> \E k \in Nat : x = k * d
<1>1. ASSUME x % d = 0 PROVE \E k \in Nat : x = k * d
  <2>1. x \div d \in Nat /\ x = (x \div d) * d
    BY <1>1, SMT
  <2> QED BY <2>1
<1>2. ASSUME NEW k \in Nat, x = k * d PROVE x % d = 0
  BY <1>2, SMT
<1> QED BY <1>1, <1>2

(* Sums, differences and products of multiples are multiples.              *)
LEMMA MultiplesClosed ==
  ASSUME NEW x \in Nat, NEW y \in Nat, NEW d \in Nat \ {0}, x % d = 0, y % d = 0
  PROVE  /\ (x + y) % d = 0
         /\ y <= x => (x - y) % d = 0
         /\ \A k \in Nat : (k * x) % d = 0
<1>1. PICK j \in Nat : x = j * d
  BY Multiples
<1>2. PICK k \in Nat : y = k * d
  BY Multiples
<1>3. (x + y) % d = 0
  <2>1. x + y = (j + k) * d /\ j + k \in Nat /\ x + y \in Nat
    BY <1>1, <1>2, SMT
  <2> QED BY <2>1, Multiples
<1>4. ASSUME y <= x PROVE (x - y) % d = 0
  <2>1. x - y = (j - k) * d /\ j - k \in Nat /\ x - y \in Nat
    BY <1>1, <1>2, <1>4, SMT
  <2> QED BY <2>1, Multiples
<1>5. ASSUME NEW n \in Nat PROVE (n * x) % d = 0
  <2>1. n * x = (n * j) * d /\ n * j \in Nat /\ n * x \in Nat
    BY <1>1, SMT
  <2> QED BY <2>1, Multiples
<1> QED BY <1>3, <1>4, <1>5

(* align_by gives a multiple that is not smaller.                          *)
LEMMA AlignUp ==
  ASSUME NEW x \in Nat, NEW d \in Nat \ {0}
  PROVE  /\ align_by(x, d) \in Nat
         /\ align_by(x, d) % d = 0
         /\ x <= align_by(x, d)
<1> DEFINE n == (x + d - 1) \div d
<1>1. n \in Nat /\ x <= n * d
  BY SMT
<1>2. n * d \in Nat /\ align_by(x, d) = n * d
  BY <1>1, SMT DEF align_by
<1> QED BY <1>1, <1>2, Multiples

(* align_by gives no more than any multiple that is large enough.          *)
LEMMA AlignLeast ==
  ASSUME NEW x \in Nat, NEW d \in Nat \ {0}, NEW y \in Nat,
         y % d = 0, x <= y
  PROVE  align_by(x, d) <= y
<1>1. PICK k \in Nat : y = k * d
  BY Multiples
<1> DEFINE n == (x + d - 1) \div d
<1>2. n \in Nat /\ n * d <= x + d - 1
  BY SMT
<1>3. n * d < (k + 1) * d
  BY <1>1, <1>2, SMT
<1>4. n < k + 1
  <2> HIDE DEF n
  <2>1. SUFFICES ASSUME n >= k + 1 PROVE FALSE
    BY <1>2, SMT
  <2>2. n * d >= (k + 1) * d
    BY <1>2, <2>1, SMT
  <2> QED BY <1>2, <1>3, <2>2, SMT
<1>5. n * d <= k * d
  <2> HIDE DEF n
  <2>1. n <= k
    BY <1>2, <1>4, SMT
  <2> QED BY <1>2, <2>1, SMT
<1> QED BY <1>1, <1>5 DEF align_by

(* Objects of the size w at different places of a row lie apart.           *)
LEMMA RowsApart ==
  ASSUME NEW w \in Nat, NEW i \in Nat, NEW j \in Nat, i < j
  PROVE  w * i + w <= w * j
<1>1. w * j - (w * i + w) = w * (j - (i + 1))
  BY SMT
<1>2. w * (j - (i + 1)) >= 0
  <2>1. j - (i + 1) \in Nat
    BY SMT
  <2> QED BY <2>1, SMT
<1>3. w * i \in Int /\ w * j \in Int
  BY SMT
<1> QED BY <1>1, <1>2, <1>3, SMT

(* The place of an object is found back from its offset.                   *)
LEMMA QuotientOfProduct ==
  ASSUME NEW w \in Nat \ {0}, NEW i \in Nat
  PROVE  (w * i) \div w = i
  BY SMT

-----------------------------------------------------------------------------
(* The inductive invariant.                                                *)

Typed ==
  /\ request \in Requests
  /\ a \in [item_size : Nat \ {0}, slab_nodes_start : Nat,
            slab_alloc_mem : Nat, slab_nodes : Nat,
            partials : Blocks \cup {NULL}, fulls_cnt : Int]
  /\ phase \in {"sizing", "ready", "assert", "oom"}

(* What the loop of calculate_slab keeps.                                  *)
Sized ==
  /\ size <= a.item_size
  /\ a.item_size % align = 0
  /\ a.slab_alloc_mem % align = 0

(* What its formulas establish.                                            *)
LaidOut ==
  phase # "sizing" =>
    /\ a.slab_nodes >= MIN_SLAB_NODES
    /\ a.slab_nodes_start % align = 0
    /\ HEADER + a.slab_nodes * NODE <= a.slab_nodes_start
    /\ a.slab_nodes_start + a.slab_nodes * a.item_size <= a.slab_alloc_mem

Header == [prev_slab : Blocks \cup {NULL}, next_slab : Blocks \cup {NULL},
           first_free : Ids \cup {None}, allocated : Int,
           nodes : [Ids -> Ids \cup {None}] \cup {<<>>}]

(* A block that is no slab has no free object.                             *)
Shape(h) == h \in Header /\ (h.nodes = <<>> => h.first_free = None)

Shapes ==
  /\ slab = [s \in Blocks |-> slab[s]]
  /\ \A s \in Blocks : Shape(slab[s])
  /\ phase = "sizing" => slab = [s \in Blocks |-> Unused]

(* The objects that are out are places of the row.                         *)
Places ==
  /\ phase = "sizing" => live = {}
  /\ \A o \in live : \E s \in Blocks, id \in Ids : o = <<s, Offset(id)>>

IInv == Typed /\ Sized /\ LaidOut /\ Shapes /\ Places

-----------------------------------------------------------------------------
(* The parameters of slab_allocator_init are positive.                     *)
LEMMA RequestPositive ==
  ASSUME request \in Requests
  PROVE  size \in Nat \ {0} /\ align \in Nat \ {0}
  BY SlabConstants DEF size, align

(* The first part of calculate_slab establishes the invariant.             *)
LEMMA InitHolds == Init => IInv
<1> SUFFICES ASSUME Init PROVE IInv
  OBVIOUS
<1> USE DEF Init
<1>1. size \in Nat \ {0} /\ align \in Nat \ {0} /\ PAGE_SIZE \in Nat \ {0}
  BY RequestPositive, SlabConstants
<1>2. /\ a.item_size \in Nat \ {0} /\ size <= a.item_size
      /\ a.item_size % align = 0
  <2>1. a.item_size = align_by(size, align)
    OBVIOUS
  <2> QED BY <1>1, <2>1, AlignUp, SMT
<1>3. a.slab_alloc_mem \in Nat /\ a.slab_alloc_mem % align = 0
  <2>1. a.slab_alloc_mem = IF PAGE_SIZE < align THEN align ELSE PAGE_SIZE
    OBVIOUS
  <2>2. PAGE_SIZE % align = 0 \/ align % PAGE_SIZE = 0
    BY PowersOfTwo DEF align
  <2>3. CASE PAGE_SIZE < align
    BY <1>1, <2>1, <2>3, SMT
  <2>4. CASE ~(PAGE_SIZE < align) /\ PAGE_SIZE % align = 0
    BY <1>1, <2>1, <2>4
  <2>5. CASE ~(PAGE_SIZE < align) /\ align % PAGE_SIZE = 0
    <3>1. align = PAGE_SIZE
      BY <1>1, <2>5, SMT
    <3> QED BY <1>1, <2>1, <3>1, SMT
  <2> QED BY <2>2, <2>3, <2>4, <2>5
<1>4. Typed
  BY <1>2, <1>3 DEF Typed
<1>5. Sized
  BY <1>2, <1>3 DEF Sized
<1>6. LaidOut /\ Places
  BY DEF LaidOut, Places
<1>7. Shapes
  BY DEF Shapes, Shape, Header, Unused, None
<1> QED BY <1>4, <1>5, <1>6, <1>7 DEF IInv

(* The formulas of calculate_slab, for any slab that is large enough.      *)
LEMMA LayoutFormula ==
  ASSUME Typed, Sized, a.slab_alloc_mem >= min_mem,
         NEW nodes, nodes = (a.slab_alloc_mem - HEADER) \div per_node,
         NEW nodes_start, nodes_start = align_by(HEADER + nodes * NODE, align)
  PROVE  /\ nodes \in Nat /\ nodes_start \in Nat
         /\ nodes >= MIN_SLAB_NODES
         /\ nodes_start % align = 0
         /\ HEADER + nodes * NODE <= nodes_start
         /\ nodes_start + nodes * a.item_size <= a.slab_alloc_mem
<1> DEFINE mem == a.slab_alloc_mem
           item == a.item_size
<1>1. /\ HEADER \in Nat \ {0} /\ NODE \in Nat \ {0} /\ MIN_SLAB_NODES \in Nat \ {0}
      /\ align \in Nat \ {0} /\ mem \in Nat /\ item \in Nat \ {0}
  BY RequestPositive, SlabConstants DEF Typed
<1>2. per_node \in Nat \ {0} /\ per_node = item + NODE
  BY <1>1, SMT DEF per_node
<1>3. mem - HEADER \in Nat /\ per_node * MIN_SLAB_NODES <= mem - HEADER
  <2>1. per_node * MIN_SLAB_NODES \in Nat
    BY <1>1, <1>2, SMT
  <2> QED BY <1>1, <2>1, SMT DEF min_mem
<1>4. nodes \in Nat /\ nodes * per_node <= mem - HEADER
  BY <1>2, <1>3, SMT
<1>5. nodes >= MIN_SLAB_NODES
  <2>1. SUFFICES ASSUME nodes + 1 <= MIN_SLAB_NODES PROVE FALSE
    BY <1>1, <1>4, SMT
  <2>2. mem - HEADER < (nodes + 1) * per_node
    BY <1>2, <1>3, SMT
  <2>3. (nodes + 1) * per_node <= MIN_SLAB_NODES * per_node
    BY <1>1, <1>2, <1>4, <2>1, SMT
  <2>4. MIN_SLAB_NODES * per_node = per_node * MIN_SLAB_NODES
    BY <1>1, <1>2, SMT
  <2> HIDE DEF mem
  <2>5. (nodes + 1) * per_node \in Int /\ per_node * MIN_SLAB_NODES \in Int
    BY <1>1, <1>2, <1>4, SMT
  <2> QED BY <1>3, <2>2, <2>3, <2>4, <2>5, SMT
<1>6. HEADER + nodes * NODE \in Nat /\ nodes * item \in Nat
  BY <1>1, <1>4, SMT
<1>7. nodes * per_node = nodes * item + nodes * NODE
  BY <1>1, <1>2, <1>4, SMT
<1>8. mem - nodes * item \in Nat /\ HEADER + nodes * NODE <= mem - nodes * item
  BY <1>1, <1>4, <1>6, <1>7, SMT
<1>9. (mem - nodes * item) % align = 0
  <2>1. (nodes * item) % align = 0
    BY <1>1, <1>4, MultiplesClosed DEF Sized
  <2>2. nodes * item <= mem
    BY <1>1, <1>6, <1>8, SMT
  <2> HIDE DEF mem, item
  <2>3. mem % align = 0
    BY DEF Sized, mem
  <2> QED BY <1>1, <1>6, <2>1, <2>2, <2>3, MultiplesClosed
<1>10. /\ nodes_start \in Nat /\ nodes_start % align = 0
       /\ HEADER + nodes * NODE <= nodes_start
  BY <1>1, <1>6, AlignUp
<1>11. nodes_start <= mem - nodes * item
  BY <1>1, <1>6, <1>8, <1>9, AlignLeast
<1>12. nodes_start + nodes * item <= mem
  BY <1>1, <1>6, <1>10, <1>11, SMT
<1> QED BY <1>4, <1>5, <1>10, <1>12

-----------------------------------------------------------------------------
(* Steps of slab_allocator_init.                                           *)

(* A larger slab keeps its alignment.                                      *)
LEMMA DoubleKeeps ==
  ASSUME IInv, Double
  PROVE  IInv'
<1> USE DEF Double
<1>1. a.slab_alloc_mem \in Nat /\ align \in Nat \ {0} /\ a.slab_alloc_mem % align = 0
  BY RequestPositive DEF IInv, Typed, Sized
<1>2. 2 * a.slab_alloc_mem \in Nat /\ (2 * a.slab_alloc_mem) % align = 0
  BY <1>1, MultiplesClosed, SMT
<1>3. Typed'
  BY <1>2 DEF IInv, Typed
<1>4. Sized'
  BY <1>2 DEF IInv, Typed, Sized, size, align
<1>5. LaidOut' /\ Places'
  BY DEF IInv, LaidOut, Places
<1>6. Ids' = Ids
  BY DEF IInv, Typed, Ids
<1>7. Shapes'
  BY <1>6 DEF IInv, Shapes, Shape, Header
<1> QED BY <1>3, <1>4, <1>5, <1>7 DEF IInv

(* The assertion is met, and the slab is laid out.                         *)
LEMMA LayOutKeeps ==
  ASSUME IInv, LayOut
  PROVE  IInv'
<1> DEFINE nodes == (a.slab_alloc_mem - HEADER) \div per_node
           nodes_start == align_by(HEADER + nodes * NODE, align)
<1>1. /\ nodes \in Nat /\ nodes_start \in Nat
      /\ nodes >= MIN_SLAB_NODES
      /\ nodes_start % align = 0
      /\ HEADER + nodes * NODE <= nodes_start
      /\ nodes_start + nodes * a.item_size <= a.slab_alloc_mem
  BY LayoutFormula DEF IInv, LayOut
<1>2. /\ a' = [a EXCEPT !.slab_nodes = nodes, !.slab_nodes_start = nodes_start]
      /\ phase = "sizing" /\ phase' = "ready"
      /\ UNCHANGED <<request, slab, live>>
  BY <1>1 DEF LayOut
<1> HIDE DEF nodes, nodes_start
<1>3. /\ a'.slab_nodes = nodes /\ a'.slab_nodes_start = nodes_start
      /\ a'.item_size = a.item_size /\ a'.slab_alloc_mem = a.slab_alloc_mem
  BY <1>2 DEF IInv, Typed
<1>4. Typed'
  BY <1>1, <1>2 DEF IInv, Typed
<1>5. Sized'
  BY <1>2, <1>3 DEF IInv, Sized, size, align
<1>6. LaidOut'
  BY <1>1, <1>2, <1>3 DEF LaidOut, align
<1>7. Places'
  BY <1>2 DEF IInv, Places
<1>8. slab' = [s \in Blocks |-> Unused]
  BY <1>2 DEF IInv, Shapes
<1>9. Shapes'
  BY <1>2, <1>8 DEF Shapes, Shape, Header, Unused, None
<1> QED BY <1>4, <1>5, <1>6, <1>7, <1>9 DEF IInv

-----------------------------------------------------------------------------
(* Calls.                                                                  *)

(* The layout stays as it is in every call.                                *)
LEMMA CallsKeepLayout ==
  ASSUME IInv, phase = "ready", phase' \in {"ready", "assert", "oom"},
         request' = request,
         NEW first \in Blocks \cup {NULL}, NEW fulls \in Int,
         a' = [a EXCEPT !.partials = first, !.fulls_cnt = fulls]
  PROVE  /\ Typed' /\ Sized' /\ LaidOut'
         /\ Ids' = Ids
         /\ \A id \in Ids : Offset(id)' = Offset(id)
<1>1. /\ a'.slab_nodes = a.slab_nodes /\ a'.slab_nodes_start = a.slab_nodes_start
      /\ a'.item_size = a.item_size /\ a'.slab_alloc_mem = a.slab_alloc_mem
  BY DEF IInv, Typed
<1>2. Typed'
  BY DEF IInv, Typed
<1>3. Sized' /\ LaidOut'
  BY <1>1 DEF IInv, Sized, LaidOut, size, align
<1> QED BY <1>1, <1>2, <1>3 DEF Ids, Offset

(* The chain of objects: a slab that is created has one, and taking and    *)
(* putting back an object keep it.                                         *)
LEMMA CreatedShape ==
  ASSUME IInv, phase = "ready"
  PROVE  Shape(Created) /\ Created.nodes # <<>>
<1>1. a.slab_nodes \in Nat \ {0}
  BY SlabConstants, SMT DEF IInv, Typed, LaidOut
<1>2. 0 \in Ids /\ \A i \in Ids : i + 1 < a.slab_nodes => i + 1 \in Ids
  BY <1>1, SMT DEF Ids
<1> DEFINE chain == [i \in Ids |-> IF i + 1 < a.slab_nodes THEN i + 1 ELSE None]
<1>3. chain \in [Ids -> Ids \cup {None}]
  BY <1>2
<1>4. chain # <<>>
  <2>1. DOMAIN chain = Ids
    OBVIOUS
  <2>2. 0 \notin DOMAIN <<>>
    OBVIOUS
  <2> QED BY <1>2, <2>1, <2>2
<1>5. Created = [Unused EXCEPT !.first_free = 0, !.nodes = chain]
  BY DEF Created
<1> HIDE DEF chain
<1>6. Created = [prev_slab |-> NULL, next_slab |-> NULL, first_free |-> 0,
                 allocated |-> 0, nodes |-> chain]
  BY <1>5 DEF Unused
<1> QED BY <1>2, <1>3, <1>4, <1>6 DEF Shape, Header

(* A header with another chain is a header.                                *)
LEMMA ObjectsShape ==
  ASSUME NEW h \in Header, NEW n \in Int, NEW first \in Ids \cup {None},
         NEW nodes \in [Ids -> Ids \cup {None}], nodes # <<>>,
         NEW g, g = [prev_slab |-> h.prev_slab, next_slab |-> h.next_slab,
                     first_free |-> first, allocated |-> n, nodes |-> nodes]
  PROVE  Shape(g)
<1>1. h.prev_slab \in Blocks \cup {NULL} /\ h.next_slab \in Blocks \cup {NULL}
  BY DEF Header
<1>2. g \in Header
  BY <1>1 DEF Header
<1> QED BY <1>2 DEF Shape

(* slab_alloc keeps the shape of a header.                                 *)
LEMMA TakeShape ==
  ASSUME NEW h, Shape(h), h.first_free # None
  PROVE  Shape(Take(h)) /\ h.first_free \in Ids
<1>1. h \in Header /\ h.nodes # <<>> /\ h.first_free \in Ids
  BY DEF Shape, Header
<1>2. h.nodes \in [Ids -> Ids \cup {None}]
  BY <1>1 DEF Header
<1> DEFINE nodes == [h.nodes EXCEPT ![h.first_free] = h.first_free]
<1>3. nodes \in [Ids -> Ids \cup {None}] /\ h.nodes[h.first_free] \in Ids \cup {None}
  BY <1>1, <1>2
<1>4. nodes # <<>>
  <2>1. DOMAIN nodes = Ids /\ Ids # {}
    BY <1>1, <1>2
  <2>2. DOMAIN <<>> = {}
    OBVIOUS
  <2> QED BY <2>1, <2>2
<1>5. Take(h) = [prev_slab |-> h.prev_slab, next_slab |-> h.next_slab,
                 first_free |-> h.nodes[h.first_free],
                 allocated |-> h.allocated + 1, nodes |-> nodes]
  <2> DEFINE k1 == [h EXCEPT !.allocated = h.allocated + 1]
             k2 == [k1 EXCEPT !.first_free = h.nodes[h.first_free]]
             k3 == [k2 EXCEPT !.nodes[h.first_free] = h.first_free]
  <2>1. Take(h) = k3
    BY Zenon DEF Take
  <2>2. k1 = [prev_slab |-> h.prev_slab, next_slab |-> h.next_slab,
              first_free |-> h.first_free, allocated |-> h.allocated + 1,
              nodes |-> h.nodes]
    BY <1>1 DEF Header
  <2> HIDE DEF k1
  <2>3. k2 = [prev_slab |-> h.prev_slab, next_slab |-> h.next_slab,
              first_free |-> h.nodes[h.first_free],
              allocated |-> h.allocated + 1, nodes |-> h.nodes]
    BY <2>2
  <2> HIDE DEF k2
  <2> QED BY <2>1, <2>3
<1>6. h.allocated + 1 \in Int
  BY <1>1 DEF Header
<1> HIDE DEF nodes
<1> QED BY <1>1, <1>3, <1>4, <1>5, <1>6, ObjectsShape

(* slab_free keeps the shape of a header.                                  *)
LEMMA PutShape ==
  ASSUME NEW h, Shape(h), h.nodes # <<>>, NEW id \in Ids
  PROVE  Shape(Put(h, id))
<1>1. h \in Header /\ h.nodes \in [Ids -> Ids \cup {None}]
  BY DEF Shape, Header
<1> DEFINE nodes == [h.nodes EXCEPT ![id] = h.first_free]
<1>2. nodes \in [Ids -> Ids \cup {None}]
  BY <1>1 DEF Header
<1>3. nodes # <<>>
  <2>1. DOMAIN nodes = Ids /\ Ids # {}
    BY <1>1
  <2>2. DOMAIN <<>> = {}
    OBVIOUS
  <2> QED BY <2>1, <2>2
<1>4. Put(h, id) = [prev_slab |-> h.prev_slab, next_slab |-> h.next_slab,
                    first_free |-> id, allocated |-> h.allocated - 1,
                    nodes |-> nodes]
  <2> DEFINE k1 == [h EXCEPT !.nodes[id] = h.first_free]
             k2 == [k1 EXCEPT !.first_free = id]
             k3 == [k2 EXCEPT !.allocated = k2.allocated - 1]
  <2>1. Put(h, id) = k3
    BY Zenon DEF Put
  <2>2. k1 = [prev_slab |-> h.prev_slab, next_slab |-> h.next_slab,
              first_free |-> h.first_free, allocated |-> h.allocated,
              nodes |-> nodes]
    BY <1>1 DEF Header
  <2> HIDE DEF k1, nodes
  <2>3. k2 = [prev_slab |-> h.prev_slab, next_slab |-> h.next_slab,
              first_free |-> id, allocated |-> h.allocated, nodes |-> nodes]
    BY <2>2
  <2> HIDE DEF k2
  <2> QED BY <2>1, <2>3
<1>5. h.allocated - 1 \in Int
  BY <1>1 DEF Header
<1> HIDE DEF nodes
<1> QED BY <1>1, <1>2, <1>3, <1>4, <1>5, ObjectsShape

(* Moving a slab in the list touches no chain.                             *)
LEMMA LinkShape ==
  ASSUME NEW h, Shape(h), NEW x \in Blocks \cup {NULL}, NEW y \in Blocks \cup {NULL}
  PROVE  Shape(Linked(h, x, y)) /\ Linked(h, x, y).nodes = h.nodes
<1>1. Linked(h, x, y) =
        [prev_slab |-> x, next_slab |-> y, first_free |-> h.first_free,
         allocated |-> h.allocated, nodes |-> h.nodes]
  <2> DEFINE k == [h EXCEPT !.prev_slab = x]
  <2>1. Linked(h, x, y) = [k EXCEPT !.next_slab = y]
    BY Zenon DEF Linked
  <2>2. k = [prev_slab |-> x, next_slab |-> h.next_slab, nodes |-> h.nodes,
             first_free |-> h.first_free, allocated |-> h.allocated]
    BY DEF Shape, Header
  <2> HIDE DEF k
  <2> QED BY <2>1, <2>2
<1> QED BY <1>1 DEF Shape, Header

(* The next state, from the new headers and the new objects.               *)
LEMMA ShapesNext ==
  ASSUME Ids' = Ids, phase' # "sizing",
         slab' = [s \in Blocks |-> slab'[s]],
         \A s \in Blocks : Shape(slab'[s])
  PROVE  Shapes'
  BY DEF Shapes, Shape, Header

(* Objects that were out before stay places of the row, and a new one is   *)
(* one.                                                                    *)
LEMMA PlacesNext ==
  ASSUME IInv, phase' # "sizing", Ids' = Ids,
         \A id \in Ids : Offset(id)' = Offset(id),
         \A o \in live' :
           o \in live \/ \E s \in Blocks, id \in Ids : o = <<s, Offset(id)>>
  PROVE  Places'
<1> SUFFICES ASSUME NEW o \in live'
             PROVE  \E s \in Blocks, id \in Ids' : o = <<s, Offset(id)'>>
  BY DEF Places
<1>1. PICK s \in Blocks, id \in Ids : o = <<s, Offset(id)>>
  BY DEF IInv, Places
<1> QED BY <1>1

(* A call that dies changes nothing else.                                  *)
LEMMA DiesKeeps ==
  ASSUME IInv, phase = "ready", NEW why \in {"assert", "oom"}, Dies(why)
  PROVE  IInv'
<1>1. phase' = why /\ UNCHANGED <<request, a, slab, live>>
  BY DEF Dies
<1>2. Typed' /\ Sized' /\ LaidOut'
  BY <1>1 DEF IInv, Typed, Sized, LaidOut, size, align
<1>3. Ids' = Ids /\ \A id \in Ids : Offset(id)' = Offset(id)
  BY <1>1 DEF Ids, Offset
<1>4. Shapes'
  BY <1>1, <1>3, ShapesNext DEF IInv, Shapes
<1>5. Places'
  BY <1>1, <1>3, PlacesNext
<1> QED BY <1>2, <1>4, <1>5 DEF IInv

(* An allocation from a partial or a new slab keeps the invariant.         *)
LEMMA AllocFromKeeps ==
  ASSUME IInv, phase = "ready", NEW s \in Blocks, NEW h, Shape(h), AllocFrom(s, h)
  PROVE  IInv'
<1> DEFINE taken == Take(h)
           next  == h.next_slab
           fails == \/ h.first_free = None
                    \/ LeavesPartials(taken) /\ next # NULL /\ slab[next].prev_slab # s
<1>1. CASE fails
  <2>1. Dies("assert")
    BY <1>1 DEF AllocFrom
  <2> QED BY <2>1, DiesKeeps
<1>2. CASE ~fails
  <2>1. /\ live' = live \cup {<<s, Offset(h.first_free)>>}
        /\ UNCHANGED <<request, phase>>
    BY <1>2 DEF AllocFrom
  <2>2. Shape(taken) /\ h.first_free \in Ids /\ next \in Blocks \cup {NULL}
    BY <1>2, TakeShape DEF Shape, Header
  <2>3. /\ a.fulls_cnt \in Int
        /\ \A x \in Blocks : Shape(slab[x])
        /\ slab = [x \in Blocks |-> slab[x]]
    BY DEF IInv, Typed, Shapes
  <2>4. /\ Typed' /\ Sized' /\ LaidOut' /\ Ids' = Ids
        /\ \A id \in Ids : Offset(id)' = Offset(id)
        /\ slab' = [x \in Blocks |-> slab'[x]]
        /\ \A x \in Blocks : Shape(slab'[x])
    <3>1. CASE LeavesPartials(taken)
      <4>1. /\ a' = [a EXCEPT !.partials = next, !.fulls_cnt = a.fulls_cnt + 1]
            /\ slab' = [x \in Blocks |->
                 IF x = s THEN Linked(taken, NULL, NULL)
                 ELSE IF x = next THEN Linked(slab[x], NULL, slab[x].next_slab)
                 ELSE slab[x]]
        BY <1>2, <3>1 DEF AllocFrom
      <4> HIDE DEF taken, next
      <4>2. /\ Typed' /\ Sized' /\ LaidOut' /\ Ids' = Ids
            /\ \A id \in Ids : Offset(id)' = Offset(id)
        <5>1. a.fulls_cnt + 1 \in Int /\ phase' = "ready" /\ request' = request
          BY <2>1, <2>3
        <5> DEFINE fulls == a.fulls_cnt + 1
        <5> HIDE DEF fulls
        <5>2. fulls \in Int /\ a' = [a EXCEPT !.partials = next, !.fulls_cnt = fulls]
          BY <4>1, <5>1 DEF fulls
        <5> QED BY <2>2, <5>1, <5>2, CallsKeepLayout
      <4>3. ASSUME NEW x \in Blocks PROVE Shape(slab'[x])
        <5>1. CASE x = s
          BY <2>2, <4>1, <5>1, LinkShape
        <5>2. CASE x # s /\ x = next
          <6>1. slab[x].next_slab \in Blocks \cup {NULL}
            BY <2>3 DEF Shape, Header
          <6> QED BY <2>3, <4>1, <5>2, <6>1, LinkShape
        <5>3. CASE x # s /\ x # next
          BY <2>3, <4>1, <5>3
        <5> QED BY <5>1, <5>2, <5>3
      <4> QED BY <4>1, <4>2, <4>3
    <3>2. CASE ~LeavesPartials(taken)
      <4>1. a' = [a EXCEPT !.partials = s] /\ slab' = [slab EXCEPT ![s] = taken]
        BY <1>2, <3>2 DEF AllocFrom
      <4>2. a' = [a EXCEPT !.partials = s, !.fulls_cnt = a.fulls_cnt]
        BY <4>1 DEF IInv, Typed
      <4> HIDE DEF taken, next
      <4>3. /\ Typed' /\ Sized' /\ LaidOut' /\ Ids' = Ids
            /\ \A id \in Ids : Offset(id)' = Offset(id)
        BY <2>1, <2>3, <4>2, CallsKeepLayout
      <4> QED BY <2>2, <2>3, <4>1, <4>3
    <3> QED BY <3>1, <3>2
  <2>5. Shapes'
    BY <2>1, <2>4, ShapesNext
  <2>6. Places'
    BY <2>1, <2>2, <2>4, PlacesNext
  <2> QED BY <2>4, <2>5, <2>6 DEF IInv
<1> QED BY <1>1, <1>2

(* slab_allocator_alloc keeps the invariant.                               *)
LEMMA AllocKeeps ==
  ASSUME IInv, Alloc
  PROVE  IInv'
<1>1. phase = "ready"
  BY DEF Alloc
<1>2. CASE a.partials # NULL /\ AllocFrom(a.partials, slab[a.partials])
  <2>1. a.partials \in Blocks /\ Shape(slab[a.partials])
    BY <1>2 DEF IInv, Typed, Shapes
  <2> QED BY <1>1, <1>2, <2>1, AllocFromKeeps
<1>3. CASE \E s \in Blocks \ InUse : AllocFrom(s, Created)
  BY <1>1, <1>3, CreatedShape, AllocFromKeeps
<1>4. CASE Dies("oom")
  BY <1>1, <1>4, DiesKeeps
<1> QED BY <1>2, <1>3, <1>4 DEF Alloc

(* The block and the index of an object are found back.                    *)
LEMMA IdAtOffset ==
  ASSUME IInv, NEW id \in Ids
  PROVE  IdAt(Offset(id)) = id
<1>1. a.item_size \in Nat \ {0} /\ a.slab_nodes_start \in Nat /\ id \in Nat
  BY SMT DEF IInv, Typed, Ids
<1>2. a.item_size * id \in Nat
  BY <1>1, SMT
<1>3. Offset(id) - a.slab_nodes_start = a.item_size * id
  BY <1>1, <1>2, SMT DEF Offset
<1> QED BY <1>1, <1>3, QuotientOfProduct DEF IdAt

(* A slab that gets to the front of the list keeps the headers.            *)
LEMMA FrontShape ==
  ASSUME IInv, NEW s \in Blocks, NEW hs, \A x \in Blocks : Shape(hs[x])
  PROVE  \A x \in Blocks : Shape(Front(hs, s)[x])
<1> SUFFICES ASSUME NEW x \in Blocks PROVE Shape(Front(hs, s)[x])
  OBVIOUS
<1> DEFINE prev == IF x = a.partials THEN s
                   ELSE IF x = s THEN NULL ELSE hs[x].prev_slab
           next == IF x = s THEN a.partials ELSE hs[x].next_slab
<1>1. prev \in Blocks \cup {NULL} /\ next \in Blocks \cup {NULL}
  BY DEF Shape, Header, IInv, Typed
<1>2. Front(hs, s)[x] = Linked(hs[x], prev, next)
  BY DEF Front
<1> HIDE DEF prev, next
<1> QED BY <1>1, <1>2, LinkShape

(* A slab that is given back keeps the other headers.                      *)
LEMMA UnlinkShape ==
  ASSUME NEW s \in Blocks, NEW hs, \A x \in Blocks : Shape(hs[x])
  PROVE  \A x \in Blocks : Shape(Unlink(hs, s)[x])
<1> SUFFICES ASSUME NEW x \in Blocks PROVE Shape(Unlink(hs, s)[x])
  OBVIOUS
<1> DEFINE prev == IF x = hs[s].next_slab THEN hs[s].prev_slab ELSE hs[x].prev_slab
           next == IF x = hs[s].prev_slab THEN hs[s].next_slab ELSE hs[x].next_slab
<1>1. prev \in Blocks \cup {NULL} /\ next \in Blocks \cup {NULL}
  BY DEF Shape, Header
<1>2. CASE x = s
  <2>1. Unlink(hs, s)[x] = Unused
    BY <1>2 DEF Unlink
  <2> QED BY <2>1 DEF Shape, Header, Unused
<1>3. CASE x # s
  <2>1. Unlink(hs, s)[x] = Linked(hs[x], prev, next)
    BY <1>3 DEF Unlink
  <2> HIDE DEF prev, next
  <2> QED BY <1>1, <2>1, LinkShape
<1> QED BY <1>2, <1>3

(* slab_allocator_free keeps the invariant.                                *)
LEMMA FreeKeeps ==
  ASSUME IInv, NEW o \in live, Free(o[1], o[2])
  PROVE  IInv'
<1>1. PICK s \in Blocks, id \in Ids : o = <<s, Offset(id)>>
  BY DEF IInv, Places
<1> DEFINE off   == Offset(id)
           was_full == slab[s].allocated = a.slab_nodes
           put   == [slab EXCEPT ![s] = Put(@, id)]
           hs    == IF was_full THEN Front(put, s) ELSE put
           first == IF was_full THEN s ELSE a.partials
           empty == hs[s].allocated = 0
           given_back == empty /\ hs[s].prev_slab = NULL
           fails == \/ s \notin InUse
                    \/ slab[s].nodes[id] # id \/ slab[s].allocated < 1
                    \/ was_full /\ a.partials # NULL
                       /\ slab[a.partials].prev_slab # NULL
                    \/ given_back /\ first # s
           partials == IF given_back THEN hs[s].next_slab ELSE first
           fulls    == IF was_full THEN a.fulls_cnt - 1 ELSE a.fulls_cnt
<1>2. Free(s, off) /\ IdAt(off) = id /\ phase = "ready"
  BY <1>1, IdAtOffset DEF Free
<1>3. CASE fails
  <2>1. Dies("assert")
    BY <1>2, <1>3 DEF Free
  <2> QED BY <1>2, <2>1, DiesKeeps
<1>4. CASE ~fails
  <2>1. /\ live' = live \ {<<s, off>>}
        /\ slab' = IF empty THEN Unlink(hs, s) ELSE hs
        /\ a' = [a EXCEPT !.partials = partials, !.fulls_cnt = fulls]
        /\ UNCHANGED <<request, phase>>
    BY <1>2, <1>4, SMTT(60) DEF Free
  <2>2. /\ slab = [x \in Blocks |-> slab[x]] /\ slab[s].nodes # <<>>
        /\ \A x \in Blocks : Shape(slab[x])
    BY <1>4 DEF IInv, Shapes, InUse
  <2>3. \A x \in Blocks : Shape(put[x])
    <3>1. Shape(Put(slab[s], id))
      BY <2>2, PutShape
    <3> QED BY <2>2, <3>1
  <2>4. /\ \A x \in Blocks : Shape(hs[x])
        /\ hs = [x \in Blocks |-> hs[x]]
    <3>1. \A x \in Blocks : Shape(Front(put, s)[x])
      <4> HIDE DEF put
      <4> QED BY <2>3, FrontShape
    <3>2. put = [x \in Blocks |-> put[x]]
      BY <2>2
    <3>3. Front(put, s) = [x \in Blocks |-> Front(put, s)[x]]
      BY DEF Front
    <3> HIDE DEF put
    <3> QED BY <2>3, <3>1, <3>2, <3>3
  <2>5. partials \in Blocks \cup {NULL} /\ fulls \in Int
    <3>1. a.partials \in Blocks \cup {NULL} /\ a.fulls_cnt \in Int
      BY DEF IInv, Typed
    <3>2. hs[s].next_slab \in Blocks \cup {NULL}
      <4> HIDE DEF hs
      <4> QED BY <2>4 DEF Shape, Header
    <3> HIDE DEF hs, was_full
    <3> QED BY <3>1, <3>2
  <2> HIDE DEF partials, fulls
  <2>6. /\ Typed' /\ Sized' /\ LaidOut' /\ Ids' = Ids
        /\ \A i \in Ids : Offset(i)' = Offset(i)
    <3>1. phase' = "ready" /\ request' = request
      BY <1>2, <2>1
    <3> QED BY <1>2, <2>1, <2>5, <3>1, CallsKeepLayout
  <2>7. /\ slab' = [x \in Blocks |-> slab'[x]]
        /\ \A x \in Blocks : Shape(slab'[x])
    <3> HIDE DEF hs
    <3>1. CASE empty
      <4>1. \A x \in Blocks : Shape(Unlink(hs, s)[x])
        BY <2>4, UnlinkShape
      <4>2. slab' = Unlink(hs, s)
        BY <2>1, <3>1
      <4>3. Unlink(hs, s) = [x \in Blocks |-> Unlink(hs, s)[x]]
        BY DEF Unlink
      <4> QED BY <4>1, <4>2, <4>3
    <3>2. CASE ~empty
      BY <2>1, <2>4, <3>2
    <3> QED BY <3>1, <3>2
  <2>8. Shapes'
    BY <1>2, <2>1, <2>6, <2>7, ShapesNext
  <2>9. Places'
    BY <1>2, <2>1, <2>6, PlacesNext
  <2> QED BY <2>6, <2>8, <2>9 DEF IInv
<1> QED BY <1>3, <1>4

-----------------------------------------------------------------------------
(* The invariant holds always.                                             *)

(* Every step keeps the invariant.                                         *)
LEMMA NextKeeps == IInv /\ [Next]_vars => IInv'
<1> SUFFICES ASSUME IInv, [Next]_vars PROVE IInv'
  OBVIOUS
<1>1. ASSUME UNCHANGED vars PROVE IInv'
  BY <1>1 DEF vars, IInv, Typed, Sized, LaidOut, Shapes, Shape, Header, Places,
              Ids, Offset, size, align
<1>2. CASE Double
  BY <1>2, DoubleKeeps
<1>3. CASE LayOut
  BY <1>3, LayOutKeeps
<1>4. CASE Alloc
  BY <1>4, AllocKeeps
<1>5. CASE \E o \in live : Free(o[1], o[2])
  BY <1>5, FreeKeeps
<1>6. CASE Deinit
  BY <1>1, <1>6, DiesKeeps DEF Deinit
<1>7. CASE Stopped
  BY <1>1, <1>7 DEF Stopped
<1> QED BY <1>1, <1>2, <1>3, <1>4, <1>5, <1>6, <1>7 DEF Next

(* Every object that is out is a place of the row, of a slab that was laid *)
(* out.                                                                    *)
LEMMA LiveAt ==
  ASSUME IInv, NEW o \in live
  PROVE  /\ phase # "sizing"
         /\ \E id \in Ids : o[2] = a.slab_nodes_start + a.item_size * id
<1>1. PICK s \in Blocks, id \in Ids : o = <<s, Offset(id)>>
  BY DEF IInv, Places
<1> QED BY <1>1 DEF IInv, Places, Offset

(* One object: behind the header, in the slab, aligned.                    *)
LEMMA FitsAlone ==
  ASSUME IInv, phase # "sizing", NEW id \in Ids, NEW off,
         off = a.slab_nodes_start + a.item_size * id
  PROVE  /\ off \in Nat /\ off % align = 0
         /\ HEADER + a.slab_nodes * NODE <= off
         /\ off + size <= a.slab_alloc_mem
<1> DEFINE item == a.item_size
           start == a.slab_nodes_start
           nodes == a.slab_nodes
<1>1. /\ item \in Nat \ {0} /\ start \in Nat /\ nodes \in Nat
      /\ size \in Nat \ {0} /\ align \in Nat \ {0} /\ size <= item
      /\ a.slab_alloc_mem \in Nat
      /\ HEADER + nodes * NODE <= start
      /\ start + nodes * item <= a.slab_alloc_mem
      /\ item % align = 0 /\ start % align = 0
  BY RequestPositive DEF IInv, Typed, Sized, LaidOut
<1>2. id \in Nat /\ id < nodes
  BY <1>1, SMT DEF Ids
<1> HIDE DEF item, start, nodes
<1>3. item * id \in Nat /\ item * nodes = nodes * item /\ item * nodes \in Nat
  BY <1>1, <1>2, SMT
<1>4. item * id + item <= item * nodes
  BY <1>1, <1>2, RowsApart
<1>5. (item * id) % align = 0
  <2>1. (id * item) % align = 0
    <3>1. id \in Nat /\ item \in Nat /\ align \in Nat \ {0} /\ item % align = 0
      BY <1>1, <1>2
    <3> QED BY <3>1, MultiplesClosed
  <2>2. id * item = item * id
    BY <1>1, <1>2, SMT
  <2> QED BY <2>1, <2>2
<1>6. (start + item * id) % align = 0
  BY <1>1, <1>3, <1>5, MultiplesClosed
<1>7. off = start + item * id
  BY DEF start, item
<1>8. off \in Nat /\ off + size <= a.slab_alloc_mem /\ start <= off
  BY <1>1, <1>3, <1>4, <1>7, SMT
<1>9. HEADER + nodes * NODE <= off
  <2>1. HEADER + nodes * NODE \in Int
    BY <1>1, SlabConstants, SMT
  <2> QED BY <1>1, <1>8, <2>1, SMT
<1> QED BY <1>6, <1>7, <1>8, <1>9 DEF nodes

(* Two objects of one slab share no byte.                                  *)
LEMMA FitApart ==
  ASSUME IInv, NEW i \in Ids, NEW j \in Ids, i < j,
         NEW x, x = a.slab_nodes_start + a.item_size * i,
         NEW y, y = a.slab_nodes_start + a.item_size * j
  PROVE  x + size <= y
<1>1. /\ a.item_size \in Nat \ {0} /\ a.slab_nodes_start \in Nat
      /\ size \in Nat \ {0} /\ size <= a.item_size /\ i \in Nat /\ j \in Nat
  BY RequestPositive DEF IInv, Typed, Sized, Ids
<1>2. a.item_size * i + a.item_size <= a.item_size * j
  BY <1>1, RowsApart
<1>3. a.item_size * i \in Nat /\ a.item_size * j \in Nat
  BY <1>1, SMT
<1> QED BY <1>1, <1>2, <1>3, SMT

(* The invariant has what the theorems state.                              *)
LEMMA Fits == IInv => ObjectsFit
<1> SUFFICES ASSUME IInv, NEW o \in live
             PROVE  /\ o[2] % align = 0
                    /\ HEADER + a.slab_nodes * NODE <= o[2]
                    /\ o[2] + size <= a.slab_alloc_mem
                    /\ \A u \in live : u[1] = o[1] /\ u # o =>
                         o[2] + size <= u[2] \/ u[2] + size <= o[2]
  BY DEF ObjectsFit
<1>1. PICK s \in Blocks, i \in Ids : o = <<s, Offset(i)>>
  BY DEF IInv, Places
<1>2. phase # "sizing" /\ o[2] = a.slab_nodes_start + a.item_size * i
  BY <1>1, LiveAt DEF Offset
<1>3. ASSUME NEW u \in live, u[1] = o[1], u # o
      PROVE  o[2] + size <= u[2] \/ u[2] + size <= o[2]
  <2>1. PICK r \in Blocks, j \in Ids : u = <<r, Offset(j)>>
    BY DEF IInv, Places
  <2>2. u[2] = a.slab_nodes_start + a.item_size * j /\ i # j
    BY <1>1, <1>3, <2>1 DEF Offset
  <2>3. i < j \/ j < i
    BY <2>2, SMT DEF Ids, IInv, Typed
  <2>4. i < j => o[2] + size <= u[2]
    BY <1>2, <2>2, FitApart
  <2>5. j < i => u[2] + size <= o[2]
    BY <1>2, <2>2, FitApart
  <2> QED BY <2>3, <2>4, <2>5
<1> QED BY <1>2, <1>3, FitsAlone

(* The invariant is one of the specification.                              *)
LEMMA Invariant == Spec => []IInv
<1>1. Init => IInv
  BY InitHolds
<1>2. IInv /\ [Next]_vars => IInv'
  BY NextKeeps
<1> QED BY <1>1, <1>2, PTL DEF Spec

(* The assertion at the end of calculate_slab (slab.c 66) never fails, for *)
(* every object size, alignment, page size and size of the header: the     *)
(* number of objects that its formula takes always fits.                   *)
THEOREM LayoutIsRight == Spec => []LayoutHolds
<1>1. IInv => LayoutHolds
  BY DEF IInv, Typed, LayoutHolds
<1> QED BY <1>1, Invariant, PTL

(* The objects that slab_allocator_alloc has handed out (slab.c 84-93, and *)
(* the layout of 37-71) always lie in their slabs behind the header and    *)
(* its nodes, aligned as was asked for, and no two share a byte.           *)
THEOREM ObjectsAreApart == Spec => []ObjectsFit
<1>1. IInv => ObjectsFit
  BY Fits
<1> QED BY <1>1, Invariant, PTL

-----------------------------------------------------------------------------
(* What Chain meets, for a list that ends.                                 *)

LEMMA ChainMeets ==
  ASSUME NEW N, NEW s \in Seq(N), NEW next, NEW end, end \notin N,
         \A k \in 1..Len(s) : next[s[k]] = Nth(s, k+1, end)
  PROVE  LET c == Chain(Nth(s, 1, end), next, Len(s), end)
         IN  c.met = Members(s) /\ c.ends
<1> DEFINE n     == Len(s)
           first == Nth(s, 1, end)
           at[k \in 0..n] == IF k = 0 THEN first
                             ELSE IF at[k-1] = end THEN end ELSE next[at[k-1]]
<1>1. at = ChainNode(first, next, n, end)
  BY DEF ChainNode
<1> HIDE DEF at
<1>2. \A k \in 0..n : at[k] = Nth(s, k+1, end)
  BY <1>1, ChainNodes
<1>3. Chain(first, next, n, end)
        = [met |-> {at[k] : k \in 0..(n-1)} \ {end}, ends |-> at[n] = end]
  BY DEF Chain, at
<1>4. at[n] = end
  BY <1>2 DEF Nth
<1>5. {at[k] : k \in 0..(n-1)} \ {end} = Members(s)
  <2>1. ASSUME NEW k \in 0..(n-1) PROVE at[k] = s[k+1] /\ k+1 \in 1..n
    BY <1>2 DEF Nth
  <2>2. ASSUME NEW k \in 1..n PROVE s[k] = at[k-1] /\ k-1 \in 0..(n-1) /\ s[k] # end
    <3>1. k-1 \in 0..(n-1) /\ (k-1)+1 = k /\ s[k] \in N
      OBVIOUS
    <3> QED BY <2>1, <3>1
  <2>3. {at[k] : k \in 0..(n-1)} \ {end} \subseteq Members(s)
    BY <2>1 DEF Members
  <2>4. Members(s) \subseteq {at[k] : k \in 0..(n-1)} \ {end}
    BY <2>2 DEF Members
  <2> QED BY <2>3, <2>4
<1> DEFINE c == Chain(first, next, n, end)
<1>6. c.met = Members(s) /\ c.ends
  <2>1. (at[n] = end) = TRUE
    BY <1>4
  <2>2. c = [met |-> Members(s), ends |-> TRUE]
    BY <1>3, <1>5, <2>1, Zenon
  <2> HIDE DEF c
  <2> QED BY <2>2
<1> QED BY <1>6


-----------------------------------------------------------------------------
(* The chain of free objects of one slab.                                  *)

(* f are the free objects of the header h, in the order of its chain.      *)
FreeIs(h, f) ==
  /\ f \in Seq(Ids) /\ Distinct(f)
  /\ h.first_free = Nth(f, 1, None)
  /\ \A k \in 1..Len(f) : h.nodes[f[k]] = Nth(f, k+1, None)
  /\ \A id \in Ids \ Members(f) : h.nodes[id] = id
  /\ h.allocated = a.slab_nodes - Len(f)

(* What FreeIs reads of a header.                                          *)
LEMMA FreeFrame ==
  ASSUME NEW h, NEW g, NEW f, FreeIs(h, f),
         g.first_free = h.first_free, g.nodes = h.nodes, g.allocated = h.allocated
  PROVE  FreeIs(g, f)
BY DEF FreeIs

(* The fields of the headers that the operations make.                     *)
LEMMA TakeFields ==
  ASSUME NEW h \in Header
  PROVE  /\ Take(h).allocated = h.allocated + 1
         /\ Take(h).first_free = h.nodes[h.first_free]
         /\ Take(h).nodes = [h.nodes EXCEPT ![h.first_free] = h.first_free]
         /\ Take(h).prev_slab = h.prev_slab /\ Take(h).next_slab = h.next_slab
<1> DEFINE k1 == [h EXCEPT !.allocated = h.allocated + 1]
           k2 == [k1 EXCEPT !.first_free = h.nodes[h.first_free]]
           k3 == [k2 EXCEPT !.nodes[h.first_free] = h.first_free]
<1>1. Take(h) = k3
  BY Zenon DEF Take
<1>2. k1 = [prev_slab |-> h.prev_slab, next_slab |-> h.next_slab,
            first_free |-> h.first_free, allocated |-> h.allocated + 1,
            nodes |-> h.nodes]
  BY DEF Header
<1> HIDE DEF k1
<1>3. k2 = [prev_slab |-> h.prev_slab, next_slab |-> h.next_slab,
            first_free |-> h.nodes[h.first_free],
            allocated |-> h.allocated + 1, nodes |-> h.nodes]
  BY <1>2
<1> HIDE DEF k2
<1>4. k3 = [prev_slab |-> h.prev_slab, next_slab |-> h.next_slab,
            first_free |-> h.nodes[h.first_free], allocated |-> h.allocated + 1,
            nodes |-> [h.nodes EXCEPT ![h.first_free] = h.first_free]]
  BY <1>3
<1> QED BY <1>1, <1>4

LEMMA PutFields ==
  ASSUME NEW h \in Header, NEW id
  PROVE  /\ Put(h, id).allocated = h.allocated - 1
         /\ Put(h, id).first_free = id
         /\ Put(h, id).nodes = [h.nodes EXCEPT ![id] = h.first_free]
         /\ Put(h, id).prev_slab = h.prev_slab /\ Put(h, id).next_slab = h.next_slab
<1> DEFINE k1 == [h EXCEPT !.nodes[id] = h.first_free]
           k2 == [k1 EXCEPT !.first_free = id]
           k3 == [k2 EXCEPT !.allocated = @ - 1]
<1>1. Put(h, id) = k3
  BY Zenon DEF Put
<1>2. k1 = [prev_slab |-> h.prev_slab, next_slab |-> h.next_slab,
            first_free |-> h.first_free, allocated |-> h.allocated,
            nodes |-> [h.nodes EXCEPT ![id] = h.first_free]]
  BY DEF Header
<1> HIDE DEF k1
<1>3. k2 = [prev_slab |-> h.prev_slab, next_slab |-> h.next_slab,
            first_free |-> id, allocated |-> h.allocated,
            nodes |-> [h.nodes EXCEPT ![id] = h.first_free]]
  BY <1>2
<1> HIDE DEF k2
<1>4. k3 = [prev_slab |-> h.prev_slab, next_slab |-> h.next_slab,
            first_free |-> id, allocated |-> h.allocated - 1,
            nodes |-> [h.nodes EXCEPT ![id] = h.first_free]]
  BY <1>3
<1> QED BY <1>1, <1>4

LEMMA LinkedFields ==
  ASSUME NEW h \in Header, NEW prev, NEW next
  PROVE  /\ Linked(h, prev, next).prev_slab = prev
         /\ Linked(h, prev, next).next_slab = next
         /\ Linked(h, prev, next).first_free = h.first_free
         /\ Linked(h, prev, next).allocated = h.allocated
         /\ Linked(h, prev, next).nodes = h.nodes
BY DEF Linked, Header

(* The nodes of a header in use.                                           *)
LEMMA NodesType ==
  ASSUME NEW h, Shape(h), h.nodes # <<>>
  PROVE  h \in Header /\ h.nodes \in [Ids -> Ids \cup {None}]
BY DEF Shape, Header

(* slab_create frees all objects.                                          *)
LEMMA CreatedChain ==
  ASSUME IInv, phase = "ready"
  PROVE  \E f : FreeIs(Created, f) /\ Members(f) = Ids
<1>1. a.slab_nodes \in Nat \ {0}
  BY SlabConstants, SMT DEF IInv, Typed, LaidOut
<1> DEFINE n == a.slab_nodes
           f == [k \in 1..n |-> k-1]
           chain == [i \in Ids |-> IF i + 1 < n THEN i + 1 ELSE None]
<1>2. /\ f \in Seq(Ids) /\ Len(f) = n
      /\ \A k \in 1..n : f[k] = k-1
  <2>1. f \in [1..n -> Ids]
    BY <1>1 DEF Ids
  <2>2. \A k \in 1..n : f[k] = k-1
    OBVIOUS
  <2> HIDE DEF f
  <2> QED BY <1>1, <2>1, <2>2, RowIsSeq
<1>3. /\ Created.first_free = 0 /\ Created.nodes = chain /\ Created.allocated = 0
  <2> HIDE DEF chain
  <2>1. Created = [Unused EXCEPT !.first_free = 0, !.nodes = chain]
    BY DEF Created, chain
  <2> QED BY <2>1 DEF Unused
<1> HIDE DEF f
<1>4. Distinct(f)
  BY <1>1, <1>2 DEF Distinct
<1>5. Members(f) = Ids
  <2>1. ASSUME NEW i \in Ids PROVE i+1 \in 1..n /\ f[i+1] = i
    BY <1>1, <1>2 DEF Ids
  <2>2. ASSUME NEW k \in 1..n PROVE f[k] \in Ids
    BY <1>1, <1>2 DEF Ids
  <2>3. Members(f) \subseteq Ids
    BY <1>2, <2>2 DEF Members
  <2>4. Ids \subseteq Members(f)
    BY <1>2, <2>1 DEF Members
  <2> QED BY <2>3, <2>4
<1>6. Created.first_free = Nth(f, 1, None)
  BY <1>1, <1>2, <1>3 DEF Nth
<1>7. ASSUME NEW k \in 1..n PROVE Created.nodes[f[k]] = Nth(f, k+1, None)
  <2>1. k-1 \in Ids /\ f[k] = k-1 /\ chain[k-1] = IF k < n THEN k ELSE None
    BY <1>1, <1>2 DEF Ids
  <2>2. k+1 \in 1..n <=> k < n
    BY <1>1
  <2> QED BY <1>1, <1>2, <1>3, <2>1, <2>2 DEF Nth
<1>8. Created.allocated = n - Len(f)
  BY <1>1, <1>2, <1>3
<1>9. FreeIs(Created, f)
  BY <1>2, <1>4, <1>5, <1>6, <1>7, <1>8 DEF FreeIs
<1> QED BY <1>5, <1>9

(* slab_alloc takes the first object off the chain.                        *)
LEMMA TakeChain ==
  ASSUME IInv, NEW h, Shape(h), h.nodes # <<>>, NEW f, FreeIs(h, f), Len(f) > 0
  PROVE  /\ h.first_free = f[1] /\ f[1] \in Ids /\ h.first_free # None
         /\ FreeIs(Take(h), Cut(f, 1)) /\ Members(Cut(f, 1)) = Members(f) \ {f[1]}
<1>1. /\ f \in Seq(Ids) /\ Distinct(f) /\ 1 \in 1..Len(f)
      /\ h \in Header /\ h.nodes \in [Ids -> Ids \cup {None}]
  BY NodesType DEF FreeIs
<1>2. h.first_free = f[1] /\ f[1] \in Ids /\ h.first_free # None
  BY <1>1 DEF FreeIs, Nth, Ids, None, IInv, Typed
<1> DEFINE g == Cut(f, 1)
           t == Take(h)
<1>3. /\ g \in Seq(Ids) /\ Len(g) = Len(f) - 1 /\ Distinct(g)
      /\ \A k \in 1..(Len(f) - 1) : g[k] = f[k+1]
      /\ \A k \in 1..Len(f) : Nth(g, k, None) = Nth(f, k+1, None)
      /\ Members(g) = Members(f) \ {f[1]}
  <2>1. /\ g \in Seq(Ids) /\ Len(g) = Len(f) - 1 /\ Distinct(g)
        /\ \A k \in 1..(Len(f) - 1) : g[k] = f[k+1]
    BY <1>1, CutType, DistinctCut
  <2>2. \A k \in 1..Len(f) : Nth(g, k, None) = Nth(f, k+1, None)
    BY <1>1, NthCut
  <2>3. Members(g) = Members(f) \ {f[1]}
    BY <1>1, MembersCut DEF Distinct
  <2> QED BY <2>1, <2>2, <2>3
<1>4. /\ t.first_free = h.nodes[f[1]] /\ t.allocated = h.allocated + 1
      /\ t.nodes = [h.nodes EXCEPT ![f[1]] = f[1]]
  BY <1>1, <1>2, TakeFields
<1> HIDE DEF g, t
<1>5. t.first_free = Nth(g, 1, None)
  BY <1>1, <1>3, <1>4 DEF FreeIs
<1>6. ASSUME NEW k \in 1..Len(g) PROVE t.nodes[g[k]] = Nth(g, k+1, None)
  <2>1. k+1 \in 1..Len(f) /\ g[k] = f[k+1] /\ k \in 1..(Len(f) - 1)
    BY <1>1, <1>3
  <2>2. f[k+1] # f[1] /\ f[k+1] \in Ids
    BY <1>1, <2>1 DEF Distinct
  <2>3. h.nodes[f[k+1]] = Nth(f, (k+1)+1, None)
    BY <2>1 DEF FreeIs
  <2> QED BY <1>1, <1>3, <1>4, <2>1, <2>2, <2>3
<1>7. ASSUME NEW id \in Ids \ Members(g) PROVE t.nodes[id] = id
  <2>1. id = f[1] \/ id \notin Members(f)
    BY <1>3
  <2> QED BY <1>1, <1>4, <2>1 DEF FreeIs
<1>8. t.allocated = a.slab_nodes - Len(g)
  BY <1>1, <1>3, <1>4 DEF FreeIs, IInv, Typed
<1>9. FreeIs(t, g)
  BY <1>3, <1>5, <1>6, <1>7, <1>8 DEF FreeIs
<1> QED BY <1>2, <1>3, <1>9 DEF g, t

(* slab_free puts an object before the chain.                              *)
LEMMA PutChain ==
  ASSUME IInv, NEW h, Shape(h), h.nodes # <<>>, NEW f, FreeIs(h, f),
         NEW id \in Ids \ Members(f)
  PROVE  /\ FreeIs(Put(h, id), Push(id, f))
         /\ Members(Push(id, f)) = Members(f) \cup {id}
<1>1. /\ f \in Seq(Ids) /\ Distinct(f)
      /\ h \in Header /\ h.nodes \in [Ids -> Ids \cup {None}]
  BY NodesType DEF FreeIs
<1> DEFINE g == Push(id, f)
           t == Put(h, id)
<1>2. /\ g \in Seq(Ids) /\ Len(g) = Len(f) + 1 /\ Distinct(g)
      /\ \A k \in 1..(Len(f) + 1) : g[k] = IF k = 1 THEN id ELSE f[k-1]
      /\ \A k \in Int : Nth(g, k, None) = IF k = 1 THEN id ELSE Nth(f, k-1, None)
      /\ Members(g) = Members(f) \cup {id}
  <2>1. /\ g \in Seq(Ids) /\ Len(g) = Len(f) + 1
        /\ \A k \in 1..(Len(f) + 1) : g[k] = IF k = 1 THEN id ELSE f[k-1]
    BY <1>1, PushType
  <2>2. Distinct(g) /\ Members(g) = Members(f) \cup {id}
    BY <1>1, DistinctPush, MembersPush
  <2>3. \A k \in Int : Nth(g, k, None) = IF k = 1 THEN id ELSE Nth(f, k-1, None)
    BY <1>1, NthPush
  <2> QED BY <2>1, <2>2, <2>3
<1>3. /\ t.first_free = id /\ t.allocated = h.allocated - 1
      /\ t.nodes = [h.nodes EXCEPT ![id] = h.first_free]
  BY <1>1, PutFields
<1> HIDE DEF g, t
<1>4. t.first_free = Nth(g, 1, None)
  BY <1>2, <1>3
<1>5. ASSUME NEW k \in 1..Len(g) PROVE t.nodes[g[k]] = Nth(g, k+1, None)
  <2>1. CASE k = 1
    BY <1>1, <1>2, <1>3, <2>1 DEF FreeIs
  <2>2. CASE k # 1
    <3>1. k-1 \in 1..Len(f) /\ (k-1)+1 = k /\ g[k] = f[k-1]
          /\ k+1 \in Int /\ k+1 # 1 /\ (k+1)-1 = k
      BY <1>1, <1>2, <2>2
    <3>2. f[k-1] # id /\ f[k-1] \in Ids
      BY <1>1, <3>1 DEF Members
    <3>3. h.nodes[f[k-1]] = Nth(f, k, None)
      BY <3>1 DEF FreeIs
    <3>4. Nth(g, k+1, None) = Nth(f, k, None)
      BY <1>2, <3>1
    <3> QED BY <1>1, <1>3, <3>1, <3>2, <3>3, <3>4
  <2> QED BY <2>1, <2>2
<1>6. ASSUME NEW i \in Ids \ Members(g) PROVE t.nodes[i] = i
  <2>1. i # id /\ i \notin Members(f)
    BY <1>2
  <2> QED BY <1>1, <1>3, <2>1 DEF FreeIs
<1>7. t.allocated = a.slab_nodes - Len(g)
  BY <1>1, <1>2, <1>3 DEF FreeIs, IInv, Typed
<1>8. FreeIs(t, g)
  BY <1>2, <1>4, <1>5, <1>6, <1>7 DEF FreeIs
<1> QED BY <1>2, <1>8 DEF g, t


-----------------------------------------------------------------------------
(* The list partials, in the headers hs, from first.                       *)

ListIs(hs, first, p) ==
  /\ p \in Seq(Blocks) /\ Distinct(p)
  /\ first = Nth(p, 1, NULL)
  /\ \A k \in 1..Len(p) : /\ hs[p[k]].next_slab = Nth(p, k+1, NULL)
                          /\ hs[p[k]].prev_slab = Nth(p, k-1, NULL)

NextOf(hs) == [s \in Blocks |-> hs[s].next_slab]
PrevOf(hs) == [s \in Blocks |-> hs[s].prev_slab]

LEMMA ListIsLine ==
  ASSUME NEW hs, NEW first, NEW p
  PROVE  ListIs(hs, first, p) <=> LineIs(NextOf(hs), PrevOf(hs), Blocks, NULL, first, p)
<1>1. p \in Seq(Blocks) =>
        \A k \in 1..Len(p) : /\ p[k] \in Blocks
                             /\ NextOf(hs)[p[k]] = hs[p[k]].next_slab
                             /\ PrevOf(hs)[p[k]] = hs[p[k]].prev_slab
  BY DEF NextOf, PrevOf
<1> QED BY <1>1 DEF ListIs, LineIs

LEMMA ListFrame ==
  ASSUME NEW hs, NEW hs2, NEW first, NEW p, ListIs(hs, first, p),
         \A x \in Members(p) : /\ hs2[x].next_slab = hs[x].next_slab
                               /\ hs2[x].prev_slab = hs[x].prev_slab
  PROVE  ListIs(hs2, first, p)
BY DEF ListIs, Members

(* A slab of the list is the first one if it has none before it.           *)
LEMMA FirstOfList ==
  ASSUME NEW hs, NEW first, NEW p, ListIs(hs, first, p), NEW i \in 1..Len(p)
  PROVE  /\ hs[p[i]].prev_slab = NULL <=> i = 1
         /\ i = 1 <=> first = p[i]
<1> DEFINE next == NextOf(hs)
           prev == PrevOf(hs)
<1>1. LineIs(next, prev, Blocks, NULL, first, p) /\ NULL \notin Blocks
  BY ListIsLine, SlabConstants
<1>2. p[i] \in Blocks
  BY DEF ListIs
<1> HIDE DEF next, prev
<1>3. prev[p[i]] = NULL <=> i = 1
  <2>1. ASSUME NEW N, NULL \notin N, LineIs(next, prev, N, NULL, first, p)
        PROVE  prev[p[i]] = NULL <=> i = 1
    BY <2>1, LineFirst
  <2> QED BY <1>1, <2>1
<1>4. i = 1 <=> first = p[i]
  <2>1. 1 \in 1..Len(p) /\ first = p[1] /\ \A j, k \in 1..Len(p) : p[j] = p[k] => j = k
    BY DEF ListIs, Nth, Distinct
  <2> QED BY <2>1
<1> QED BY <1>2, <1>3, <1>4 DEF prev, PrevOf

(* A slab leaves the list, from any place of it.                           *)
LEMMA ListCut ==
  ASSUME NEW hs, NEW first, NEW p, ListIs(hs, first, p), NEW i \in 1..Len(p),
         NEW s, s = p[i], NEW hs2,
         \A x \in Members(p) \ {s} :
           /\ hs2[x].prev_slab = IF x = hs[s].next_slab THEN hs[s].prev_slab
                                 ELSE hs[x].prev_slab
           /\ hs2[x].next_slab = IF x = hs[s].prev_slab THEN hs[s].next_slab
                                 ELSE hs[x].next_slab
  PROVE  ListIs(hs2, IF hs[s].prev_slab = NULL THEN hs[s].next_slab ELSE first,
                Cut(p, i))
<1> DEFINE next  == NextOf(hs)
           prev  == PrevOf(hs)
           next2 == NextOf(hs2)
           prev2 == PrevOf(hs2)
<1>1. LineIs(next, prev, Blocks, NULL, first, p) /\ NULL \notin Blocks
  BY ListIsLine, SlabConstants
<1>2. s \in Blocks /\ Members(p) \subseteq Blocks
  BY DEF ListIs, Members
<1>3. next[s] = hs[s].next_slab /\ prev[s] = hs[s].prev_slab
  BY <1>2 DEF NextOf, PrevOf
<1>4. PICK first2 : first2 = IF prev[s] = NULL THEN next[s] ELSE first
  OBVIOUS
<1>5. Removed(next2, prev2, first2, next, prev, first, NULL, s, p)
  BY <1>2, <1>3, <1>4 DEF NextOf, PrevOf, Removed
<1> HIDE DEF next, prev, next2, prev2
<1>6. LineIs(next2, prev2, Blocks, NULL, first2, Cut(p, i))
  BY <1>1, <1>5, LineCut
<1> QED BY <1>3, <1>4, <1>6, ListIsLine DEF next2, prev2

(* A slab gets to the front of the list: hs2 is hs after that.             *)
InFront(hs2, hs, first, s, p) ==
  /\ hs2[s].prev_slab = NULL /\ hs2[s].next_slab = first
  /\ \A x \in Members(p) :
       /\ hs2[x].prev_slab = IF x = first THEN s ELSE hs[x].prev_slab
       /\ hs2[x].next_slab = hs[x].next_slab

LEMMA ListPush ==
  ASSUME NEW hs, NEW first, NEW p, ListIs(hs, first, p),
         NEW s \in Blocks, s \notin Members(p),
         NEW hs2, InFront(hs2, hs, first, s, p)
  PROVE  ListIs(hs2, s, Push(s, p))
<1>1. /\ LineIs(NextOf(hs), PrevOf(hs), Blocks, NULL, first, p)
      /\ NULL \notin Blocks /\ Members(p) \subseteq Blocks
  BY ListIsLine, SlabConstants DEF ListIs, Members
<1>2. AtFront(NextOf(hs2), PrevOf(hs2), NextOf(hs), PrevOf(hs), NULL, first, s, p)
  BY <1>1 DEF AtFront, InFront, NextOf, PrevOf
<1>3. LineIs(NextOf(hs2), PrevOf(hs2), Blocks, NULL, s, Push(s, p))
  BY <1>1, <1>2, LinePush
<1> QED BY <1>3, ListIsLine

-----------------------------------------------------------------------------
(* The invariant: of the headers hs, the list from first, the count of     *)
(* full slabs and the objects lv that the clients have.                    *)

In(hs)         == {s \in Blocks : hs[s].nodes # <<>>}
Objects(s, lv) == {id \in Ids : <<s, Offset(id)>> \in lv}
FullOf(hs)     == {s \in In(hs) : hs[s].allocated = a.slab_nodes}
PartOf(hs)     == {s \in In(hs) : hs[s].allocated # a.slab_nodes}

(* The chain of a slab has the objects that no client has.                 *)
ChainOf(h, s, lv) == \E f : FreeIs(h, f) /\ Members(f) = Ids \ Objects(s, lv)
ChainsOf(hs, lv)  == \A s \in In(hs) : ChainOf(hs[s], s, lv)

SameObjects(h, g) == /\ h.nodes = g.nodes /\ h.first_free = g.first_free
                     /\ h.allocated = g.allocated

(* Objects lie in slabs, and no slab is without one.                       *)
Owned(hs, lv)  == \A o \in lv : o[1] \in In(hs)
Needed(hs, lv) == \A s \in In(hs) : Objects(s, lv) # {}

(* The list has the slabs with a free object; the full ones are counted.   *)
ListOf(hs, first)  == \E p : ListIs(hs, first, p) /\ Members(p) = PartOf(hs)
CountOf(hs, fulls) == IsFiniteSet(FullOf(hs)) /\ fulls = Cardinality(FullOf(hs))

Kept(hs, first, fulls, lv) ==
  /\ ChainsOf(hs, lv) /\ Owned(hs, lv) /\ Needed(hs, lv)
  /\ ListOf(hs, first) /\ CountOf(hs, fulls)

ChainInv ==
  /\ IInv
  /\ Kept(slab, a.partials, a.fulls_cnt, live)
  /\ phase # "assert"

(* What a call establishes of the new state, in its own terms.             *)
LEMMA KeptNext ==
  ASSUME IInv, phase = "ready", phase' \in {"ready", "oom"}, request' = request,
         NEW hs, NEW first \in Blocks \cup {NULL}, NEW fulls \in Int, NEW lv,
         a' = [a EXCEPT !.partials = first, !.fulls_cnt = fulls],
         slab' = hs, live' = lv, Kept(hs, first, fulls, lv)
  PROVE  Kept(slab, a.partials, a.fulls_cnt, live)'
<1>1. /\ a'.slab_nodes = a.slab_nodes /\ a'.partials = first /\ a'.fulls_cnt = fulls
  BY DEF IInv, Typed
<1>2. Ids' = Ids /\ \A id \in Ids : Offset(id)' = Offset(id)
  BY CallsKeepLayout
<1>3. In(slab)' = In(hs)
  BY DEF In
<1>4. FullOf(slab)' = FullOf(hs) /\ PartOf(slab)' = PartOf(hs)
  BY <1>1, <1>3 DEF FullOf, PartOf
<1>5. \A s : Objects(s, live)' = Objects(s, lv)
  BY <1>2 DEF Objects
<1>6. ASSUME NEW s \in In(hs), NEW f, FreeIs(hs[s], f) PROVE FreeIs(slab[s], f)'
  BY <1>1, <1>2, <1>6 DEF FreeIs
<1>7. ChainsOf(slab, live)'
  BY <1>2, <1>3, <1>5, <1>6 DEF Kept, ChainsOf, ChainOf
<1>8. Owned(slab, live)' /\ Needed(slab, live)'
  BY <1>3, <1>5 DEF Kept, Owned, Needed
<1>9. ListOf(slab, a.partials)'
  BY <1>1, <1>4 DEF Kept, ListOf, ListIs
<1>10. CountOf(slab, a.fulls_cnt)'
  BY <1>1, <1>4 DEF Kept, CountOf
<1> QED BY <1>7, <1>8, <1>9, <1>10 DEF Kept

(* The count of a slab is that of its objects that clients have.           *)
LEMMA CountIsRight ==
  ASSUME IInv, NEW h, NEW f, FreeIs(h, f), NEW X \in SUBSET Ids,
         Members(f) = Ids \ X
  PROVE  /\ IsFiniteSet(X) /\ h.allocated = Cardinality(X)
         /\ h.allocated = 0 <=> X = {}
         /\ h.allocated = a.slab_nodes <=> Len(f) = 0
<1> DEFINE n == a.slab_nodes
<1>1. n \in Nat
  BY DEF IInv, Typed
<1>2. IsFiniteSet(Ids) /\ Cardinality(Ids) = n
  <2>1. 0 \in Int /\ n-1 \in Int
    BY <1>1
  <2>2. IsFiniteSet(0..(n-1)) /\ Cardinality(0..(n-1)) = IF 0 > n-1 THEN 0 ELSE (n-1)-0+1
    BY <2>1, FS_Interval
  <2> QED BY <1>1, <2>2 DEF Ids
<1>3. IsFiniteSet(X) /\ Cardinality(X) \in Nat
  BY <1>2, FS_Subset, FS_CardinalityType
<1>4. Cardinality(Ids \ X) = Cardinality(Ids) - Cardinality(Ids \cap X)
  BY <1>2, FS_Difference
<1>5. Ids \cap X = X
  OBVIOUS
<1>6. f \in Seq(Ids) /\ Cardinality(Members(f)) = Len(f) /\ Len(f) \in Nat
  <2>1. f \in Seq(Ids) /\ Distinct(f)
    BY DEF FreeIs
  <2>2. Cardinality(Members(f)) = Len(f)
    BY <2>1, DistinctCount
  <2> QED BY <2>1, <2>2
<1>7. h.allocated = n - Len(f)
  BY DEF FreeIs
<1>8. Len(f) = n - Cardinality(X)
  BY <1>2, <1>4, <1>5, <1>6
<1>9. h.allocated = Cardinality(X)
  BY <1>1, <1>3, <1>7, <1>8
<1>10. Cardinality(X) = 0 <=> X = {}
  BY <1>3, FS_EmptySet
<1> QED BY <1>1, <1>3, <1>6, <1>7, <1>9, <1>10

(* An object more, and an object less.                                     *)
LEMMA ObjectsAdd ==
  ASSUME IInv, NEW lv, NEW s \in Blocks, NEW id \in Ids,
         NEW lv2, lv2 = lv \cup {<<s, Offset(id)>>}
  PROVE  /\ Objects(s, lv2) = Objects(s, lv) \cup {id}
         /\ \A x \in Blocks \ {s} : Objects(x, lv2) = Objects(x, lv)
<1>1. \A i \in Ids : Offset(i) = Offset(id) => i = id
  BY IdAtOffset
<1>2. \A i \in Ids : <<s, Offset(i)>> = <<s, Offset(id)>> <=> i = id
  BY <1>1
<1> QED BY <1>2 DEF Objects

LEMMA ObjectsRemove ==
  ASSUME IInv, NEW lv, NEW s \in Blocks, NEW id \in Ids,
         NEW lv2, lv2 = lv \ {<<s, Offset(id)>>}
  PROVE  /\ Objects(s, lv2) = Objects(s, lv) \ {id}
         /\ \A x \in Blocks \ {s} : Objects(x, lv2) = Objects(x, lv)
<1>1. \A i \in Ids : Offset(i) = Offset(id) => i = id
  BY IdAtOffset
<1>2. \A i \in Ids : <<s, Offset(i)>> = <<s, Offset(id)>> <=> i = id
  BY <1>1
<1> QED BY <1>2 DEF Objects

(* A slab whose objects stay keeps its chain.                              *)
LEMMA ChainKept ==
  ASSUME NEW h, NEW g, NEW x, NEW lv, NEW lv2, ChainOf(g, x, lv),
         SameObjects(h, g), Objects(x, lv2) = Objects(x, lv)
  PROVE  ChainOf(h, x, lv2)
<1>1. PICK f : FreeIs(g, f) /\ Members(f) = Ids \ Objects(x, lv)
  BY DEF ChainOf
<1>2. FreeIs(h, f)
  BY <1>1, FreeFrame DEF SameObjects
<1>3. Members(f) = Ids \ Objects(x, lv2)
  BY <1>1
<1> QED BY <1>2, <1>3 DEF ChainOf

(* The empty list.                                                         *)
LEMMA EmptyList ==
  ASSUME NEW p, ListIs(slab, NULL, p)
  PROVE  p = <<>> /\ Members(p) = {} /\ \A hs : ListIs(hs, NULL, p)
<1>1. p \in Seq(Blocks) /\ NULL = Nth(p, 1, NULL) /\ NULL \notin Blocks
  BY SlabConstants DEF ListIs
<1>2. Len(p) = 0
  BY <1>1 DEF Nth
<1> QED BY <1>1, <1>2 DEF ListIs, Members


-----------------------------------------------------------------------------
(* slab_allocator_alloc.                                                   *)

(* Whatever the slab, an object is taken off its chain.                    *)
LEMMA AllocChains ==
  ASSUME IInv, ChainsOf(slab, live), Owned(slab, live), Needed(slab, live),
         NEW s \in Blocks, NEW h, Shape(h), h.nodes # <<>>,
         NEW f, FreeIs(h, f), Len(f) > 0, Members(f) = Ids \ Objects(s, live),
         NEW hs, SameObjects(hs[s], Take(h)),
         \A x \in Blocks \ {s} : SameObjects(hs[x], slab[x]),
         NEW lv, lv = live \cup {<<s, Offset(h.first_free)>>}
  PROVE  /\ ChainsOf(hs, lv) /\ Owned(hs, lv) /\ Needed(hs, lv)
         /\ In(hs) = In(slab) \cup {s}
<1> DEFINE id == h.first_free
<1>1. /\ id = f[1] /\ id \in Ids /\ FreeIs(Take(h), Cut(f, 1))
      /\ Members(Cut(f, 1)) = Members(f) \ {id}
  BY TakeChain
<1>2. h \in Header /\ h.nodes \in [Ids -> Ids \cup {None}]
  BY NodesType
<1>4. hs[s].nodes # <<>>
  <2>1. hs[s].nodes = [h.nodes EXCEPT ![id] = id]
    BY <1>2, TakeFields DEF SameObjects
  <2>2. DOMAIN hs[s].nodes = Ids
    BY <1>2, <2>1
  <2>3. DOMAIN <<>> = {}
    OBVIOUS
  <2> QED BY <1>1, <2>2, <2>3
<1>5. In(hs) = In(slab) \cup {s}
  BY <1>4 DEF In, SameObjects
<1>6. /\ Objects(s, lv) = Objects(s, live) \cup {id}
      /\ \A x \in Blocks \ {s} : Objects(x, lv) = Objects(x, live)
  <2>1. id \in Ids /\ lv = live \cup {<<s, Offset(id)>>}
    BY <1>1
  <2> HIDE DEF id
  <2> QED BY <2>1, ObjectsAdd
<1>7. FreeIs(hs[s], Cut(f, 1)) /\ Members(Cut(f, 1)) = Ids \ Objects(s, lv)
  <2>1. FreeIs(hs[s], Cut(f, 1))
    BY <1>1, FreeFrame DEF SameObjects
  <2>2. Members(Cut(f, 1)) = Ids \ Objects(s, lv)
    BY <1>1, <1>6
  <2> QED BY <2>1, <2>2
<1>8. ChainsOf(hs, lv)
  <2>1. ChainOf(hs[s], s, lv)
    BY <1>7 DEF ChainOf
  <2>2. ASSUME NEW x \in In(slab) \ {s} PROVE ChainOf(hs[x], x, lv)
    <3>1. x \in Blocks \ {s} /\ ChainOf(slab[x], x, live)
      BY DEF In, ChainsOf
    <3>2. SameObjects(hs[x], slab[x]) /\ Objects(x, lv) = Objects(x, live)
      BY <1>6, <3>1
    <3> QED BY <3>1, <3>2, ChainKept
  <2> QED BY <1>5, <2>1, <2>2 DEF ChainsOf
<1>9. Owned(hs, lv)
  BY <1>5 DEF Owned
<1>10. Needed(hs, lv)
  <2>1. In(slab) \subseteq Blocks
    BY DEF In
  <2> QED BY <1>5, <1>6, <2>1 DEF Needed
<1> QED BY <1>5, <1>8, <1>9, <1>10

(* The count and the members of the list when s has been allocated from.   *)
LEMMA AllocCounts ==
  ASSUME CountOf(slab, a.fulls_cnt), NEW s \in Blocks, s \notin FullOf(slab),
         NEW hs, In(hs) = In(slab) \cup {s},
         \A x \in Blocks \ {s} : hs[x].allocated = slab[x].allocated
  PROVE  /\ hs[s].allocated = a.slab_nodes =>
              CountOf(hs, a.fulls_cnt + 1) /\ PartOf(hs) = PartOf(slab) \ {s}
         /\ hs[s].allocated # a.slab_nodes =>
              CountOf(hs, a.fulls_cnt) /\ PartOf(hs) = PartOf(slab) \cup {s}
<1>0. In(slab) \subseteq Blocks
  BY DEF In
<1>1. CASE hs[s].allocated = a.slab_nodes
  <2>1. FullOf(hs) = FullOf(slab) \cup {s}
    BY <1>0, <1>1 DEF FullOf
  <2>2. PartOf(hs) = PartOf(slab) \ {s}
    BY <1>0, <1>1 DEF PartOf
  <2>3. /\ IsFiniteSet(FullOf(slab) \cup {s})
        /\ Cardinality(FullOf(slab) \cup {s}) = Cardinality(FullOf(slab)) + 1
    BY FS_AddElement DEF CountOf
  <2> QED BY <1>1, <2>1, <2>2, <2>3 DEF CountOf
<1>2. CASE hs[s].allocated # a.slab_nodes
  <2>1. FullOf(hs) = FullOf(slab)
    BY <1>0, <1>2 DEF FullOf
  <2>2. PartOf(hs) = PartOf(slab) \cup {s}
    BY <1>0, <1>2 DEF PartOf
  <2> QED BY <1>2, <2>1, <2>2 DEF CountOf
<1> QED BY <1>1, <1>2

(* The header h that an allocation works on: of the first slab of the      *)
(* list, or of a new one when the list is empty.                           *)
LEMMA AllocHeader ==
  ASSUME ChainInv, phase = "ready", NEW s \in Blocks, NEW h,
         \/ s = a.partials /\ h = slab[s]
         \/ a.partials = NULL /\ s \notin InUse /\ h = Created
  PROVE  /\ Shape(h) /\ h.nodes # <<>> /\ s \notin FullOf(slab)
         /\ \E f : FreeIs(h, f) /\ Len(f) > 0 /\ Members(f) = Ids \ Objects(s, live)
<1>0. /\ ChainsOf(slab, live) /\ Owned(slab, live) /\ ListOf(slab, a.partials)
      /\ IInv /\ \A x \in Blocks : Shape(slab[x])
      /\ NULL \notin Blocks
  BY SlabConstants DEF ChainInv, Kept, IInv, Shapes
<1>1. CASE s = a.partials /\ h = slab[s]
  <2>1. PICK p : ListIs(slab, s, p) /\ Members(p) = PartOf(slab)
    BY <1>0, <1>1 DEF ListOf
  <2>2. s \in PartOf(slab)
    <3>1. s = Nth(p, 1, NULL)
      BY <2>1 DEF ListIs
    <3> QED BY <1>0, <2>1, <3>1 DEF Nth, Members
  <2>3. s \in In(slab) /\ h.allocated # a.slab_nodes
    BY <1>1, <2>2 DEF PartOf
  <2>4. PICK f : FreeIs(h, f) /\ Members(f) = Ids \ Objects(s, live)
    BY <1>0, <1>1, <2>3 DEF ChainsOf, ChainOf
  <2>5. Len(f) > 0
    <3>1. Objects(s, live) \in SUBSET Ids
      BY DEF Objects
    <3>2. Len(f) # 0
      BY <1>0, <2>3, <2>4, <3>1, CountIsRight
    <3>3. Len(f) \in Nat
      BY <2>4 DEF FreeIs
    <3> QED BY <3>2, <3>3
  <2> QED BY <1>0, <1>1, <2>3, <2>4, <2>5 DEF In, FullOf
<1>2. CASE a.partials = NULL /\ s \notin InUse /\ h = Created
  <2>1. Shape(h) /\ h.nodes # <<>>
    BY <1>0, <1>2, CreatedShape
  <2>2. s \notin In(slab)
    BY <1>2 DEF In, InUse
  <2>3. Objects(s, live) = {}
    BY <1>0, <2>2 DEF Owned, Objects
  <2>4. PICK f : FreeIs(h, f) /\ Members(f) = Ids
    BY <1>0, <1>2, CreatedChain
  <2>5. Len(f) > 0
    <3>1. a.slab_nodes \in Nat \ {0}
      BY <1>0, SlabConstants, SMT DEF IInv, Typed, LaidOut
    <3>2. 0 \in Members(f) /\ f \in Seq(Ids)
      BY <2>4, <3>1 DEF Ids, FreeIs
    <3> QED BY <3>2 DEF Members
  <2> QED BY <2>1, <2>2, <2>3, <2>4, <2>5 DEF FullOf
<1> QED BY <1>1, <1>2


(* slab_allocator_alloc from one slab keeps the invariant, and passes its  *)
(* assertions.                                                             *)
LEMMA AllocFromKeepsChains ==
  ASSUME ChainInv, phase = "ready", NEW s \in Blocks, NEW h, AllocFrom(s, h),
         \/ s = a.partials /\ h = slab[s]
         \/ a.partials = NULL /\ s \notin InUse /\ h = Created
  PROVE  ChainInv'
<1> DEFINE taken == Take(h)
           next  == h.next_slab
           lv    == live \cup {<<s, Offset(h.first_free)>>}
<1>0. /\ IInv /\ ChainsOf(slab, live) /\ Owned(slab, live) /\ Needed(slab, live)
      /\ CountOf(slab, a.fulls_cnt) /\ NULL \notin Blocks
      /\ a.fulls_cnt \in Int /\ \A x \in Blocks : Shape(slab[x])
  BY SlabConstants DEF ChainInv, Kept, IInv, Shapes, Typed
<1>1. /\ Shape(h) /\ h.nodes # <<>> /\ s \notin FullOf(slab) /\ h \in Header
      /\ next \in Blocks \cup {NULL}
  BY AllocHeader DEF Shape, Header
<1>2. PICK f : FreeIs(h, f) /\ Len(f) > 0 /\ Members(f) = Ids \ Objects(s, live)
  BY AllocHeader
<1>3. h.first_free # None
  BY <1>0, <1>1, <1>2, TakeChain
<1>4. PICK p : ListIs(slab, a.partials, p) /\ Members(p) = PartOf(slab)
  BY DEF ChainInv, Kept, ListOf
<1>5. \/ /\ a.partials = s /\ h = slab[s] /\ 1 \in 1..Len(p) /\ s = p[1]
         /\ h.prev_slab = NULL /\ s \in Members(p)
      \/ /\ a.partials = NULL /\ h = Created /\ s \notin In(slab)
         /\ Members(p) = {} /\ p = <<>> /\ next = NULL /\ h.prev_slab = NULL
  <2>1. CASE s = a.partials /\ h = slab[s]
    <3>1. 1 \in 1..Len(p) /\ s = p[1]
      BY <1>0, <1>4, <2>1 DEF ListIs, Nth
    <3>2. h.prev_slab = NULL
      BY <1>4, <2>1, <3>1, FirstOfList
    <3> QED BY <2>1, <3>1, <3>2 DEF Members
  <2>2. CASE a.partials = NULL /\ s \notin InUse /\ h = Created
    <3>1. Members(p) = {} /\ p = <<>>
      BY <1>4, <2>2, EmptyList
    <3>2. Created.next_slab = NULL /\ Created.prev_slab = NULL
      BY DEF Created, Unused
    <3> QED BY <2>2, <3>1, <3>2 DEF In, InUse
  <2> QED BY <2>1, <2>2
<1>6. ~(next # NULL /\ slab[next].prev_slab # s)
  <2> SUFFICES ASSUME next # NULL PROVE slab[next].prev_slab = s
    OBVIOUS
  <2>1. /\ h = slab[s] /\ 1 \in 1..Len(p) /\ s = p[1]
    BY <1>5
  <2>2. next = Nth(p, 1+1, NULL)
    BY <1>4, <2>1 DEF ListIs
  <2>3. 2 \in 1..Len(p) /\ next = p[2]
    BY <2>2 DEF Nth
  <2>4. slab[p[2]].prev_slab = Nth(p, 2-1, NULL)
    BY <1>4, <2>3 DEF ListIs
  <2> QED BY <2>1, <2>3, <2>4 DEF Nth
<1>7. /\ live' = lv
      /\ IF LeavesPartials(taken)
         THEN /\ a' = [a EXCEPT !.partials = next, !.fulls_cnt = @ + 1]
              /\ slab' = [x \in Blocks |->
                   IF x = s THEN Linked(taken, NULL, NULL)
                   ELSE IF x = next THEN Linked(slab[x], NULL, slab[x].next_slab)
                   ELSE slab[x]]
         ELSE /\ a' = [a EXCEPT !.partials = s]
              /\ slab' = [slab EXCEPT ![s] = taken]
      /\ UNCHANGED <<request, phase>>
  BY <1>3, <1>6 DEF AllocFrom
<1>8. /\ taken \in Header /\ Shape(taken)
      /\ taken.next_slab = next /\ taken.prev_slab = NULL
  BY <1>1, <1>3, <1>5, TakeShape, TakeFields DEF Shape
<1>9. IInv'
  BY <1>0, <1>1, AllocFromKeeps
<1> HIDE DEF taken, next, lv
<1>10. CASE LeavesPartials(taken)
  <2> DEFINE hs == [x \in Blocks |->
                     IF x = s THEN Linked(taken, NULL, NULL)
                     ELSE IF x = next THEN Linked(slab[x], NULL, slab[x].next_slab)
                     ELSE slab[x]]
             fulls == a.fulls_cnt + 1
  <2>1. /\ hs[s].nodes = taken.nodes /\ hs[s].first_free = taken.first_free
        /\ hs[s].allocated = taken.allocated
    BY <1>8, LinkedFields
  <2>2. ASSUME NEW x \in Blocks \ {s}
        PROVE  /\ hs[x].nodes = slab[x].nodes /\ hs[x].first_free = slab[x].first_free
               /\ hs[x].allocated = slab[x].allocated
               /\ hs[x].prev_slab = IF x = next THEN NULL ELSE slab[x].prev_slab
               /\ hs[x].next_slab = slab[x].next_slab
    <3>1. slab[x] \in Header
      BY <1>0 DEF Shape
    <3>2. CASE x = next
      <4>1. hs[x] = Linked(slab[x], NULL, slab[x].next_slab)
        BY <3>2
      <4> QED BY <3>1, <3>2, <4>1, LinkedFields
    <3>3. CASE x # next
      BY <3>3
    <3> QED BY <3>2, <3>3
  <2>3. slab' = hs /\ a' = [a EXCEPT !.partials = next, !.fulls_cnt = fulls]
        /\ fulls \in Int
    BY <1>0, <1>7, <1>10
  <2> HIDE DEF hs, fulls
  <2>4. /\ ChainsOf(hs, lv) /\ Owned(hs, lv) /\ Needed(hs, lv)
        /\ In(hs) = In(slab) \cup {s}
    <3>1. /\ SameObjects(hs[s], taken)
          /\ \A x \in Blocks \ {s} : SameObjects(hs[x], slab[x])
      BY <2>1, <2>2 DEF SameObjects
    <3> QED BY <1>0, <1>1, <1>2, <3>1, AllocChains DEF taken, lv
  <2>5. CountOf(hs, fulls) /\ PartOf(hs) = PartOf(slab) \ {s}
    <3>1. hs[s].allocated = a.slab_nodes
      BY <1>10, <2>1 DEF LeavesPartials
    <3> QED BY <1>0, <1>1, <2>2, <2>4, <3>1, AllocCounts DEF fulls
  <2>6. ListOf(hs, next)
    <3>1. CASE a.partials = s /\ h = slab[s] /\ 1 \in 1..Len(p) /\ s = p[1]
      <4> DEFINE q == Cut(p, 1)
      <4>1. p \in Seq(Blocks) /\ Distinct(p) /\ Members(p) \subseteq Blocks
        BY <1>4 DEF ListIs, PartOf, In
      <4>2. slab[s].next_slab = next /\ slab[s].prev_slab = NULL
        BY <1>5, <1>4, <3>1, FirstOfList DEF next
      <4>3. ASSUME NEW x \in Members(p) \ {s}
            PROVE  /\ hs[x].prev_slab = IF x = slab[s].next_slab
                                        THEN slab[s].prev_slab ELSE slab[x].prev_slab
                   /\ hs[x].next_slab = IF x = slab[s].prev_slab
                                        THEN slab[s].next_slab ELSE slab[x].next_slab
        BY <1>0, <2>2, <4>1, <4>2
      <4>4. ListIs(hs, IF slab[s].prev_slab = NULL THEN slab[s].next_slab
                       ELSE a.partials, q)
        BY <1>4, <3>1, <4>3, ListCut
      <4>5. Members(q) = Members(p) \ {s}
        BY <3>1, <4>1, MembersCut DEF Distinct
      <4> HIDE DEF q
      <4> QED BY <1>4, <2>5, <4>2, <4>4, <4>5 DEF ListOf
    <3>2. CASE a.partials = NULL /\ s \notin In(slab) /\ next = NULL
      <4>1. ListIs(hs, next, p) /\ Members(p) = {}
        BY <1>4, <3>2, EmptyList
      <4> QED BY <1>4, <2>5, <4>1 DEF ListOf
    <3> QED BY <1>5, <3>1, <3>2
  <2>7. Kept(hs, next, fulls, lv)
    BY <2>4, <2>5, <2>6 DEF Kept
  <2>8. Kept(slab, a.partials, a.fulls_cnt, live)'
    <3>1. phase' \in {"ready", "oom"} /\ request' = request /\ live' = lv
      BY <1>7
    <3>2. next \in Blocks \cup {NULL}
      BY <1>1 DEF next
    <3> QED BY <1>0, <2>3, <2>7, <3>1, <3>2, KeptNext
  <2> QED BY <1>7, <1>9, <2>8 DEF ChainInv
<1>11. CASE ~LeavesPartials(taken)
  <2> DEFINE hs == [slab EXCEPT ![s] = taken]
             fulls == a.fulls_cnt
  <2>1. slab = [x \in Blocks |-> slab[x]]
    BY <1>0 DEF IInv, Shapes
  <2>2. /\ hs[s] = taken
        /\ \A x \in Blocks \ {s} : hs[x] = slab[x]
    BY <2>1
  <2>3. /\ slab' = hs /\ fulls \in Int
        /\ a' = [a EXCEPT !.partials = s, !.fulls_cnt = fulls]
    BY <1>0, <1>7, <1>11 DEF IInv, Typed
  <2> HIDE DEF hs
  <2>4. /\ ChainsOf(hs, lv) /\ Owned(hs, lv) /\ Needed(hs, lv)
        /\ In(hs) = In(slab) \cup {s}
    <3>1. /\ SameObjects(hs[s], taken)
          /\ \A x \in Blocks \ {s} : SameObjects(hs[x], slab[x])
      BY <2>2 DEF SameObjects
    <3> QED BY <1>0, <1>1, <1>2, <3>1, AllocChains DEF taken, lv
  <2>5. CountOf(hs, fulls) /\ PartOf(hs) = PartOf(slab) \cup {s}
    <3>1. hs[s].allocated # a.slab_nodes
      BY <1>11, <2>2 DEF LeavesPartials
    <3> QED BY <1>0, <1>1, <2>2, <2>4, <3>1, AllocCounts
  <2>6. ListOf(hs, s)
    <3>1. CASE a.partials = s /\ h = slab[s] /\ s \in Members(p)
      <4>1. Members(p) \subseteq Blocks
        BY <1>4 DEF PartOf, In
      <4>2. \A x \in Members(p) : /\ hs[x].next_slab = slab[x].next_slab
                                  /\ hs[x].prev_slab = slab[x].prev_slab
        <5>1. slab[s].next_slab = next /\ slab[s].prev_slab = NULL
          BY <1>0, <1>4, <1>5, <3>1 DEF next
        <5> QED BY <1>8, <2>2, <4>1, <5>1
      <4>3. ListIs(hs, s, p)
        BY <1>4, <3>1, <4>2, ListFrame
      <4> QED BY <1>4, <2>5, <3>1, <4>3 DEF ListOf
    <3>2. CASE a.partials = NULL /\ s \notin In(slab) /\ next = NULL
      <4> DEFINE q == Push(s, p)
      <4>1. Members(p) = {} /\ p \in Seq(Blocks)
        BY <1>4, <3>2, EmptyList DEF ListIs
      <4>2. hs[s].prev_slab = NULL /\ hs[s].next_slab = a.partials
        BY <1>8, <2>2, <3>2
      <4>3. ListIs(hs, s, q)
        <5>1. InFront(hs, slab, a.partials, s, p)
          BY <4>1, <4>2 DEF InFront
        <5> QED BY <1>4, <4>1, <5>1, ListPush
      <4>4. Members(q) = Members(p) \cup {s}
        BY <4>1, MembersPush
      <4> HIDE DEF q
      <4> QED BY <1>4, <2>5, <4>3, <4>4 DEF ListOf
    <3> QED BY <1>5, <3>1, <3>2
  <2>7. Kept(hs, s, fulls, lv)
    BY <2>4, <2>5, <2>6 DEF Kept
  <2>8. Kept(slab, a.partials, a.fulls_cnt, live)'
    <3>1. phase' \in {"ready", "oom"} /\ request' = request /\ live' = lv
      BY <1>7
    <3> QED BY <1>0, <2>3, <2>7, <3>1, KeptNext
  <2> QED BY <1>7, <1>9, <2>8 DEF ChainInv
<1> QED BY <1>10, <1>11


-----------------------------------------------------------------------------
(* slab_allocator_free.                                                    *)

(* What the call finds: the object is out, so that it is not on the chain, *)
(* and its slab is one and has it counted.                                 *)
LEMMA FreeFinds ==
  ASSUME ChainInv, NEW s \in Blocks, NEW id \in Ids, <<s, Offset(id)>> \in live
  PROVE  /\ s \in In(slab) /\ slab[s].nodes[id] = id /\ slab[s].allocated >= 1
         /\ id \in Objects(s, live)
         /\ \E f : /\ FreeIs(slab[s], f) /\ Members(f) = Ids \ Objects(s, live)
                   /\ id \in Ids \ Members(f)
<1>1. s \in In(slab) /\ id \in Objects(s, live)
  BY DEF ChainInv, Kept, Owned, Objects
<1>2. PICK f : FreeIs(slab[s], f) /\ Members(f) = Ids \ Objects(s, live)
  BY <1>1 DEF ChainInv, Kept, ChainsOf, ChainOf
<1>3. id \in Ids \ Members(f) /\ slab[s].nodes[id] = id
  BY <1>1, <1>2 DEF FreeIs
<1>4. slab[s].allocated >= 1
  <2>1. Objects(s, live) \in SUBSET Ids /\ IInv
    BY DEF Objects, ChainInv
  <2>2. /\ IsFiniteSet(Objects(s, live))
        /\ slab[s].allocated = Cardinality(Objects(s, live))
        /\ slab[s].allocated # 0
    BY <1>1, <1>2, <2>1, CountIsRight
  <2>3. Cardinality(Objects(s, live)) \in Nat
    BY <2>2, FS_CardinalityType
  <2> QED BY <2>2, <2>3
<1> QED BY <1>1, <1>2, <1>3, <1>4

(* The object goes back on its chain; only the list and the count can be   *)
(* behind.                                                                 *)
LEMMA FreeChains ==
  ASSUME ChainInv, NEW s \in Blocks, NEW id \in Ids, <<s, Offset(id)>> \in live,
         NEW lv, lv = live \ {<<s, Offset(id)>>},
         NEW hs, SameObjects(hs[s], Put(slab[s], id)),
         \A x \in Blocks \ {s} : SameObjects(hs[x], slab[x])
  PROVE  /\ ChainsOf(hs, lv) /\ Owned(hs, lv) /\ In(hs) = In(slab)
         /\ hs[s].allocated = slab[s].allocated - 1
         /\ hs[s].allocated = 0 <=> Objects(s, lv) = {}
         /\ hs[s].allocated # a.slab_nodes
         /\ \A x \in In(hs) \ {s} : Objects(x, lv) # {}
<1>0. /\ IInv /\ ChainsOf(slab, live) /\ Owned(slab, live) /\ Needed(slab, live)
      /\ Shape(slab[s])
  BY DEF ChainInv, Kept, IInv, Shapes
<1>1. s \in In(slab) /\ id \in Objects(s, live)
  BY FreeFinds
<1>2. PICK f : /\ FreeIs(slab[s], f) /\ Members(f) = Ids \ Objects(s, live)
               /\ id \in Ids \ Members(f)
  BY FreeFinds
<1>3. /\ slab[s] \in Header /\ slab[s].nodes \in [Ids -> Ids \cup {None}]
      /\ slab[s].nodes # <<>>
  BY <1>0, <1>1, NodesType DEF In
<1> DEFINE g == Push(id, f)
<1>4. FreeIs(Put(slab[s], id), g) /\ Members(g) = Members(f) \cup {id}
  BY <1>0, <1>2, <1>3, PutChain
<1>5. /\ Objects(s, lv) = Objects(s, live) \ {id}
      /\ \A x \in Blocks \ {s} : Objects(x, lv) = Objects(x, live)
  BY <1>0, ObjectsRemove
<1>6. FreeIs(hs[s], g) /\ Members(g) = Ids \ Objects(s, lv)
  <2> HIDE DEF g
  <2>1. FreeIs(hs[s], g)
    BY <1>4, FreeFrame DEF SameObjects
  <2>2. Members(g) = Ids \ Objects(s, lv)
    BY <1>2, <1>4, <1>5
  <2> QED BY <2>1, <2>2
<1>7. In(hs) = In(slab)
  <2>1. hs[s].nodes = [slab[s].nodes EXCEPT ![id] = slab[s].first_free]
    BY <1>3, PutFields DEF SameObjects
  <2>2. DOMAIN hs[s].nodes = Ids /\ DOMAIN <<>> = {}
    BY <1>3, <2>1
  <2>3. hs[s].nodes # <<>>
    BY <2>2
  <2> QED BY <1>1, <2>3 DEF In, SameObjects
<1>8. ChainsOf(hs, lv)
  <2>1. ChainOf(hs[s], s, lv)
    BY <1>6 DEF ChainOf
  <2>2. ASSUME NEW x \in In(slab) \ {s} PROVE ChainOf(hs[x], x, lv)
    <3>1. x \in Blocks \ {s} /\ ChainOf(slab[x], x, live)
      BY <1>0 DEF In, ChainsOf
    <3>2. SameObjects(hs[x], slab[x]) /\ Objects(x, lv) = Objects(x, live)
      BY <1>5, <3>1
    <3> QED BY <3>1, <3>2, ChainKept
  <2> QED BY <1>7, <2>1, <2>2 DEF ChainsOf
<1>9. Owned(hs, lv)
  BY <1>0, <1>7 DEF Owned
<1>10. hs[s].allocated = slab[s].allocated - 1
  BY <1>3, PutFields DEF SameObjects
<1>11. /\ hs[s].allocated = 0 <=> Objects(s, lv) = {}
       /\ hs[s].allocated # a.slab_nodes
  <2>1. Objects(s, lv) \in SUBSET Ids
    BY DEF Objects
  <2>2. Len(g) # 0
    <3>1. f \in Seq(Ids)
      BY <1>2 DEF FreeIs
    <3> QED BY <3>1, PushType
  <2> HIDE DEF g
  <2> QED BY <1>0, <1>6, <2>1, <2>2, CountIsRight
<1>12. \A x \in In(hs) \ {s} : Objects(x, lv) # {}
  BY <1>0, <1>5, <1>7 DEF Needed, In
<1> QED BY <1>7, <1>8, <1>9, <1>10, <1>11, <1>12

(* The list and the count after that: a slab that was full joins the list. *)
PutBack(s, id) == [slab EXCEPT ![s] = Put(slab[s], id)]
Joined(s, id)  == IF slab[s].allocated = a.slab_nodes
                  THEN Front(PutBack(s, id), s) ELSE PutBack(s, id)

LEMMA FreeLists ==
  ASSUME ChainInv, NEW s \in Blocks, NEW id \in Ids, <<s, Offset(id)>> \in live,
         NEW hs, hs = Joined(s, id)
  PROVE  /\ a.partials # NULL => slab[a.partials].prev_slab = NULL
         /\ \A x \in Blocks : hs[x] \in Header
         /\ SameObjects(hs[s], Put(slab[s], id))
         /\ \A x \in Blocks \ {s} : SameObjects(hs[x], slab[x])
         /\ ListOf(hs, IF slab[s].allocated = a.slab_nodes THEN s ELSE a.partials)
         /\ CountOf(hs, IF slab[s].allocated = a.slab_nodes
                        THEN a.fulls_cnt - 1 ELSE a.fulls_cnt)
<1> DEFINE put == PutBack(s, id)
<1>0. /\ IInv /\ CountOf(slab, a.fulls_cnt) /\ NULL \notin Blocks
      /\ a.partials \in Blocks \cup {NULL}
      /\ \A x \in Blocks : Shape(slab[x]) /\ slab[x] \in Header
      /\ slab = [x \in Blocks |-> slab[x]]
  BY SlabConstants DEF ChainInv, Kept, IInv, Shapes, Shape, Typed
<1>1. PICK p : ListIs(slab, a.partials, p) /\ Members(p) = PartOf(slab)
  BY DEF ChainInv, Kept, ListOf
<1>2. p \in Seq(Blocks) /\ Members(p) \subseteq Blocks
  BY <1>1 DEF ListIs, PartOf, In
<1>3. s \in In(slab) /\ slab[s].nodes # <<>> /\ slab[s].allocated \in Int
  BY <1>0, FreeFinds DEF In, Header
<1>4. a.partials # NULL => slab[a.partials].prev_slab = NULL
  <2>1. a.partials # NULL => 1 \in 1..Len(p) /\ a.partials = p[1]
    BY <1>1 DEF ListIs, Nth
  <2> QED BY <1>1, <2>1, FirstOfList
<1> DEFINE t == Put(slab[s], id)
<1>5. /\ t \in Header /\ t.allocated = slab[s].allocated - 1
      /\ t.prev_slab = slab[s].prev_slab /\ t.next_slab = slab[s].next_slab
  <2>1. Shape(t)
    BY <1>0, <1>3, PutShape
  <2> QED BY <1>0, <2>1, PutFields DEF Shape
<1> HIDE DEF t
<1>6. put[s] = t /\ \A x \in Blocks \ {s} : put[x] = slab[x]
  BY <1>0 DEF t, PutBack
<1> HIDE DEF put
<1>7. \A x \in Blocks : put[x] \in Header
  BY <1>0, <1>5, <1>6
<1>8. ASSUME In(hs) = In(slab), hs[s].allocated = t.allocated,
             \A x \in Blocks \ {s} : hs[x].allocated = slab[x].allocated
      PROVE  /\ PartOf(hs) = PartOf(slab) \cup {s}
             /\ FullOf(hs) = FullOf(slab) \ {s}
             /\ s \in FullOf(slab) <=> slab[s].allocated = a.slab_nodes
             /\ slab[s].allocated # a.slab_nodes => s \in PartOf(slab)
  <2>1. hs[s].allocated # a.slab_nodes
    <3>1. PICK f : /\ FreeIs(slab[s], f) /\ Members(f) = Ids \ Objects(s, live)
                   /\ id \in Ids \ Members(f)
      BY FreeFinds
    <3>2. slab[s].allocated = a.slab_nodes - Len(f) /\ Len(f) \in Nat
          /\ a.slab_nodes \in Nat
      BY <1>0, <3>1 DEF FreeIs, IInv, Typed
    <3> QED BY <1>5, <1>8, <3>2
  <2>2. In(slab) \subseteq Blocks
    BY DEF In
  <2> QED BY <1>3, <1>8, <2>1, <2>2 DEF PartOf, FullOf
<1>9. CASE slab[s].allocated = a.slab_nodes
  <2>1. hs = Front(put, s)
    BY <1>9 DEF Joined, put
  <2>2. ASSUME NEW x \in Blocks
        PROVE  /\ hs[x].prev_slab = IF x = a.partials THEN s
                                    ELSE IF x = s THEN NULL ELSE put[x].prev_slab
               /\ hs[x].next_slab = IF x = s THEN a.partials ELSE put[x].next_slab
               /\ SameObjects(hs[x], put[x])
               /\ hs[x] \in Header
    <3> DEFINE prev == IF x = a.partials THEN s
                       ELSE IF x = s THEN NULL ELSE put[x].prev_slab
               next == IF x = s THEN a.partials ELSE put[x].next_slab
    <3>1. hs[x] = Linked(put[x], prev, next)
      BY <2>1 DEF Front
    <3>2. prev \in Blocks \cup {NULL} /\ next \in Blocks \cup {NULL}
      BY <1>0, <1>7 DEF Header
    <3> HIDE DEF prev, next
    <3>3. /\ hs[x].prev_slab = prev /\ hs[x].next_slab = next
          /\ SameObjects(hs[x], put[x])
      BY <1>7, <3>1, LinkedFields DEF SameObjects
    <3>4. hs[x] \in Header
      BY <1>7, <3>1, <3>2 DEF Linked, Header
    <3> QED BY <3>3, <3>4 DEF prev, next
  <2>3. SameObjects(hs[s], t) /\ \A x \in Blocks \ {s} : SameObjects(hs[x], slab[x])
    BY <1>6, <2>2
  <2>4. In(hs) = In(slab)
    BY <2>3, FreeChains DEF t
  <2>5. /\ PartOf(hs) = PartOf(slab) \cup {s} /\ FullOf(hs) = FullOf(slab) \ {s}
        /\ s \in FullOf(slab)
    BY <1>8, <1>9, <2>3, <2>4 DEF SameObjects
  <2>6. s \notin Members(p)
    BY <1>1, <2>5 DEF PartOf, FullOf
  <2>7. ListIs(hs, s, Push(s, p))
    <3>1. a.partials # s
      <4>1. a.partials # NULL => a.partials \in Members(p)
        BY <1>1 DEF ListIs, Nth, Members
      <4> QED BY <1>0, <2>6, <4>1
    <3>2. hs[s].prev_slab = NULL /\ hs[s].next_slab = a.partials
      BY <2>2, <3>1
    <3>3. \A x \in Members(p) :
            /\ hs[x].prev_slab = IF x = a.partials THEN s ELSE slab[x].prev_slab
            /\ hs[x].next_slab = slab[x].next_slab
      <4> TAKE x \in Members(p)
      <4>1. x \in Blocks \ {s} /\ put[x] = slab[x]
        BY <1>2, <1>6, <2>6
      <4>2. /\ hs[x].prev_slab = IF x = a.partials THEN s
                                 ELSE IF x = s THEN NULL ELSE put[x].prev_slab
            /\ hs[x].next_slab = IF x = s THEN a.partials ELSE put[x].next_slab
        BY <2>2, <4>1
      <4> QED BY <4>1, <4>2
    <3>4. InFront(hs, slab, a.partials, s, p)
      BY <3>2, <3>3 DEF InFront
    <3> QED BY <1>1, <2>6, <3>4, ListPush
  <2>8. Members(Push(s, p)) = PartOf(hs)
    <3>1. Members(Push(s, p)) = Members(p) \cup {s}
      BY <1>2, MembersPush
    <3> QED BY <1>1, <2>5, <3>1
  <2>9. ListOf(hs, s)
    BY <2>7, <2>8 DEF ListOf
  <2>10. CountOf(hs, a.fulls_cnt - 1)
    <3>1. /\ IsFiniteSet(FullOf(slab) \ {s})
          /\ Cardinality(FullOf(slab) \ {s}) = Cardinality(FullOf(slab)) - 1
      BY <1>0, <2>5, FS_RemoveElement DEF CountOf
    <3> QED BY <1>0, <2>5, <3>1 DEF CountOf
  <2> QED BY <1>4, <1>9, <2>2, <2>3, <2>9, <2>10 DEF t
<1>10. CASE slab[s].allocated # a.slab_nodes
  <2>1. hs = put
    BY <1>10 DEF Joined, put
  <2>2. SameObjects(hs[s], t) /\ \A x \in Blocks \ {s} : SameObjects(hs[x], slab[x])
    BY <1>6, <2>1 DEF SameObjects
  <2>3. In(hs) = In(slab)
    BY <2>2, FreeChains DEF t
  <2>4. /\ PartOf(hs) = PartOf(slab) \cup {s} /\ FullOf(hs) = FullOf(slab) \ {s}
        /\ s \notin FullOf(slab) /\ s \in PartOf(slab)
    BY <1>8, <1>10, <2>2, <2>3 DEF SameObjects
  <2>5. ListIs(hs, a.partials, p)
    <3>1. \A x \in Members(p) : /\ hs[x].next_slab = slab[x].next_slab
                                /\ hs[x].prev_slab = slab[x].prev_slab
      BY <1>2, <1>5, <1>6, <2>1
    <3> QED BY <1>1, <3>1, ListFrame
  <2>6. ListOf(hs, a.partials)
    BY <1>1, <2>4, <2>5 DEF ListOf
  <2>7. CountOf(hs, a.fulls_cnt)
    <3>1. FullOf(hs) = FullOf(slab)
      BY <2>4
    <3> QED BY <1>0, <3>1 DEF CountOf
  <2> QED BY <1>4, <1>7, <1>10, <2>1, <2>2, <2>6, <2>7 DEF t
<1> QED BY <1>9, <1>10


(* A slab that has become empty is given back.                             *)
LEMMA UnlinkKeeps ==
  ASSUME IInv, phase = "ready", NEW hs, \A x \in Blocks : hs[x] \in Header,
         NEW lv, ChainsOf(hs, lv), Owned(hs, lv),
         NEW first, ListOf(hs, first), NEW fulls, CountOf(hs, fulls),
         NEW s \in In(hs), hs[s].allocated = 0,
         \A o \in lv : \E x \in Blocks, i \in Ids : o = <<x, Offset(i)>>,
         Objects(s, lv) = {}, \A x \in In(hs) \ {s} : Objects(x, lv) # {}
  PROVE  /\ hs[s].prev_slab = NULL => first = s
         /\ Kept(Unlink(hs, s),
                 IF hs[s].prev_slab = NULL THEN hs[s].next_slab ELSE first, fulls, lv)
<1> DEFINE h2 == Unlink(hs, s)
           top == IF hs[s].prev_slab = NULL THEN hs[s].next_slab ELSE first
<1>0. s \in Blocks /\ a.slab_nodes \in Nat \ {0}
  BY SlabConstants, SMT DEF IInv, Typed, LaidOut, In
<1>1. PICK p : ListIs(hs, first, p) /\ Members(p) = PartOf(hs)
  BY DEF ListOf
<1>2. s \in Members(p) /\ p \in Seq(Blocks) /\ Members(p) \subseteq Blocks
      /\ Distinct(p)
  BY <1>0, <1>1 DEF PartOf, In, ListIs
<1>3. PICK i \in 1..Len(p) : s = p[i]
  BY <1>2 DEF Members
<1>4. hs[s].prev_slab = NULL => first = s
  BY <1>1, <1>3, FirstOfList
<1>5. /\ h2[s] = Unused
      /\ \A x \in Blocks \ {s} :
           /\ h2[x].prev_slab = IF x = hs[s].next_slab THEN hs[s].prev_slab
                                ELSE hs[x].prev_slab
           /\ h2[x].next_slab = IF x = hs[s].prev_slab THEN hs[s].next_slab
                                ELSE hs[x].next_slab
           /\ SameObjects(h2[x], hs[x])
  <2>1. h2[s] = Unused
    BY <1>0 DEF Unlink
  <2>2. ASSUME NEW x \in Blocks \ {s}
        PROVE  /\ h2[x].prev_slab = IF x = hs[s].next_slab THEN hs[s].prev_slab
                                    ELSE hs[x].prev_slab
               /\ h2[x].next_slab = IF x = hs[s].prev_slab THEN hs[s].next_slab
                                    ELSE hs[x].next_slab
               /\ SameObjects(h2[x], hs[x])
    <3> DEFINE prev == IF x = hs[s].next_slab THEN hs[s].prev_slab ELSE hs[x].prev_slab
               next == IF x = hs[s].prev_slab THEN hs[s].next_slab ELSE hs[x].next_slab
    <3>1. h2[x] = Linked(hs[x], prev, next)
      BY DEF Unlink
    <3> HIDE DEF prev, next, h2
    <3>2. /\ h2[x].prev_slab = prev /\ h2[x].next_slab = next
          /\ SameObjects(h2[x], hs[x])
      BY <3>1, LinkedFields DEF SameObjects
    <3> QED BY <3>2 DEF prev, next
  <2> QED BY <2>1, <2>2
<1> HIDE DEF h2
<1>6. In(h2) = In(hs) \ {s}
  <2>1. h2[s].nodes = <<>>
    BY <1>5 DEF Unused
  <2> QED BY <1>5, <2>1 DEF In, SameObjects
<1>7. PartOf(h2) = PartOf(hs) \ {s} /\ FullOf(h2) = FullOf(hs)
  BY <1>0, <1>5, <1>6 DEF PartOf, FullOf, In, SameObjects
<1>8. ChainsOf(h2, lv)
  <2> SUFFICES ASSUME NEW x \in In(h2) PROVE ChainOf(h2[x], x, lv)
    BY DEF ChainsOf
  <2>1. x \in Blocks \ {s} /\ ChainOf(hs[x], x, lv)
    BY <1>6 DEF In, ChainsOf
  <2>2. SameObjects(h2[x], hs[x])
    BY <1>5, <2>1
  <2> QED BY <2>1, <2>2, ChainKept
<1>9. Owned(h2, lv)
  <2> SUFFICES ASSUME NEW o \in lv PROVE o[1] # s
    BY <1>6 DEF Owned
  <2>1. PICK x \in Blocks, j \in Ids : o = <<x, Offset(j)>>
    OBVIOUS
  <2>2. j \in Objects(x, lv)
    BY <2>1 DEF Objects
  <2> QED BY <2>1, <2>2
<1>10. Needed(h2, lv)
  BY <1>6 DEF Needed
<1>11. ListOf(h2, top)
  <2> DEFINE q == Cut(p, i)
  <2>1. \A x \in Members(p) \ {s} :
           /\ h2[x].prev_slab = IF x = hs[s].next_slab THEN hs[s].prev_slab
                                ELSE hs[x].prev_slab
           /\ h2[x].next_slab = IF x = hs[s].prev_slab THEN hs[s].next_slab
                                ELSE hs[x].next_slab
    BY <1>2, <1>5
  <2>2. ListIs(h2, top, q)
    BY <1>1, <1>3, <2>1, ListCut
  <2>3. Members(q) = Members(p) \ {p[i]}
    BY <1>2, MembersCut DEF Distinct
  <2> HIDE DEF q, top
  <2>4. Members(q) = PartOf(h2)
    BY <1>1, <1>3, <1>7, <2>3
  <2> QED BY <2>2, <2>4 DEF ListOf
<1>12. CountOf(h2, fulls)
  BY <1>7 DEF CountOf
<1> QED BY <1>4, <1>8, <1>9, <1>10, <1>11, <1>12 DEF Kept, h2

(* slab_allocator_free keeps the invariant, and passes its assertions.     *)
LEMMA FreeKeepsChains ==
  ASSUME ChainInv, NEW o \in live, Free(o[1], o[2])
  PROVE  ChainInv'
<1>0. /\ IInv /\ Needed(slab, live) /\ phase = "ready" /\ a.fulls_cnt \in Int
      /\ a.partials \in Blocks \cup {NULL}
      /\ \A x \in live : \E s \in Blocks, i \in Ids : x = <<s, Offset(i)>>
  BY DEF ChainInv, Kept, IInv, Places, Typed, Free
<1>1. PICK s \in Blocks, id \in Ids : o = <<s, Offset(id)>>
  BY <1>0
<1> DEFINE off   == Offset(id)
           was_full == slab[s].allocated = a.slab_nodes
           put   == [slab EXCEPT ![s] = Put(@, id)]
           hs    == IF was_full THEN Front(put, s) ELSE put
           first == IF was_full THEN s ELSE a.partials
           empty == hs[s].allocated = 0
           given_back == empty /\ hs[s].prev_slab = NULL
           partials == IF given_back THEN hs[s].next_slab ELSE first
           fulls    == IF was_full THEN a.fulls_cnt - 1 ELSE a.fulls_cnt
           lv       == live \ {<<s, off>>}
           h2       == IF empty THEN Unlink(hs, s) ELSE hs
           fails == \/ s \notin InUse
                    \/ slab[s].nodes[id] # id \/ slab[s].allocated < 1
                    \/ was_full /\ a.partials # NULL
                       /\ slab[a.partials].prev_slab # NULL
                    \/ given_back /\ first # s
<1>2. Free(s, off) /\ IdAt(off) = id /\ <<s, Offset(id)>> \in live
  BY <1>0, <1>1, IdAtOffset
<1>3. IF fails THEN Dies("assert")
      ELSE /\ live' = lv /\ slab' = h2
           /\ a' = [a EXCEPT
                !.partials = partials,
                !.fulls_cnt = IF was_full THEN @ - 1 ELSE @]
           /\ UNCHANGED <<request, phase>>
  BY <1>2 DEF Free
<1>4. /\ s \in In(slab) /\ s \in InUse /\ slab[s].nodes[id] = id
      /\ ~(slab[s].allocated < 1)
  <2>1. s \in In(slab) /\ slab[s].nodes[id] = id /\ slab[s].allocated >= 1
    BY <1>2, FreeFinds
  <2>2. slab[s].allocated \in Int
    BY <1>0 DEF IInv, Shapes, Shape, Header
  <2> QED BY <2>1, <2>2 DEF In, InUse
<1>5. /\ was_full /\ a.partials # NULL => slab[a.partials].prev_slab = NULL
      /\ \A x \in Blocks : hs[x] \in Header
      /\ SameObjects(hs[s], Put(slab[s], id))
      /\ \A x \in Blocks \ {s} : SameObjects(hs[x], slab[x])
      /\ ListOf(hs, first) /\ CountOf(hs, fulls)
  <2>1. hs = Joined(s, id)
    BY DEF Joined, PutBack
  <2> HIDE DEF put, hs
  <2>3. /\ a.partials # NULL => slab[a.partials].prev_slab = NULL
        /\ \A x \in Blocks : hs[x] \in Header
        /\ SameObjects(hs[s], Put(slab[s], id))
        /\ \A x \in Blocks \ {s} : SameObjects(hs[x], slab[x])
        /\ ListOf(hs, IF slab[s].allocated = a.slab_nodes THEN s ELSE a.partials)
        /\ CountOf(hs, IF slab[s].allocated = a.slab_nodes
                       THEN a.fulls_cnt - 1 ELSE a.fulls_cnt)
    BY <1>2, <2>1, FreeLists
  <2> QED BY <2>3
<1>6. IInv'
  BY <1>0, FreeKeeps
<1> HIDE DEF hs, was_full, put
<1>7. /\ ChainsOf(hs, lv) /\ Owned(hs, lv) /\ In(hs) = In(slab)
      /\ hs[s].allocated = 0 <=> Objects(s, lv) = {}
      /\ \A x \in In(hs) \ {s} : Objects(x, lv) # {}
  BY <1>2, <1>5, FreeChains
<1>8. ~fails /\ Kept(h2, partials, fulls, lv)
  <2>1. CASE empty
    <3>1. \A x \in lv : \E r \in Blocks, i \in Ids : x = <<r, Offset(i)>>
      BY <1>0
    <3> HIDE DEF lv, fulls, first
    <3>2. /\ hs[s].prev_slab = NULL => first = s
          /\ Kept(Unlink(hs, s),
                  IF hs[s].prev_slab = NULL THEN hs[s].next_slab ELSE first, fulls, lv)
      BY <1>0, <1>4, <1>5, <1>7, <2>1, <3>1, UnlinkKeeps
    <3> QED BY <1>4, <1>5, <2>1, <3>2
  <2>2. CASE ~empty
    <3>1. Needed(hs, lv)
      BY <1>7, <2>2 DEF Needed
    <3>2. Kept(hs, first, fulls, lv)
      BY <1>5, <1>7, <3>1 DEF Kept
    <3> QED BY <1>4, <1>5, <2>2, <3>2
  <2> QED BY <2>1, <2>2
<1>9. /\ live' = lv /\ slab' = h2 /\ request' = request /\ phase' = "ready"
      /\ a' = [a EXCEPT !.partials = partials, !.fulls_cnt = fulls]
  BY <1>0, <1>3, <1>8 DEF IInv, Typed
<1>10. partials \in Blocks \cup {NULL} /\ fulls \in Int
  BY <1>0, <1>5 DEF Header
<1> HIDE DEF h2, partials, fulls, lv
<1>11. Kept(slab, a.partials, a.fulls_cnt, live)'
  BY <1>0, <1>8, <1>9, <1>10, KeptNext
<1> QED BY <1>6, <1>9, <1>11 DEF ChainInv


-----------------------------------------------------------------------------
(* The invariant holds always, and has what the runs check.                *)

(* Before the first call there is no slab, and nothing to keep.            *)
NoSlabs ==
  /\ In(slab) = {} /\ live = {}
  /\ a.partials = NULL /\ a.fulls_cnt = 0

LEMMA NoSlabsKeep == NoSlabs => Kept(slab, a.partials, a.fulls_cnt, live)
<1> SUFFICES ASSUME NoSlabs PROVE Kept(slab, a.partials, a.fulls_cnt, live)
  OBVIOUS
<1> USE DEF NoSlabs
<1>1. FullOf(slab) = {} /\ PartOf(slab) = {}
  BY DEF FullOf, PartOf
<1>2. ListIs(slab, NULL, <<>>) /\ Members(<<>>) = {}
  BY DEF ListIs, Distinct, Nth, Members
<1>3. ListOf(slab, a.partials)
  BY <1>1, <1>2 DEF ListOf
<1>4. CountOf(slab, a.fulls_cnt)
  BY <1>1, FS_EmptySet DEF CountOf
<1> QED BY <1>3, <1>4 DEF Kept, ChainsOf, Owned, Needed

AllInv == ChainInv /\ (phase = "sizing" => NoSlabs)

LEMMA InitChains == Init => AllInv
<1> SUFFICES ASSUME Init PROVE AllInv
  OBVIOUS
<1>1. IInv /\ phase = "sizing"
  BY InitHolds DEF Init
<1>2. NoSlabs
  BY DEF Init, NoSlabs, In, Unused
<1> QED BY <1>1, <1>2, NoSlabsKeep DEF AllInv, ChainInv

LEMMA NextChains == AllInv /\ [Next]_vars => AllInv'
<1> SUFFICES ASSUME AllInv, [Next]_vars PROVE AllInv'
  OBVIOUS
<1>1. ChainInv /\ IInv /\ IInv' /\ phase # "assert"
  BY NextKeeps DEF AllInv, ChainInv
<1>2. ASSUME UNCHANGED <<request, a, slab, live>>, phase' = phase \/ phase' = "oom"
      PROVE  AllInv'
  <2>1. Kept(slab, a.partials, a.fulls_cnt, live)'
    BY <1>1, <1>2 DEF ChainInv, Kept, ChainsOf, ChainOf, FreeIs, Owned, Needed,
                      ListOf, ListIs, CountOf, FullOf, PartOf, In, Objects, Ids, Offset
  <2>2. phase' = "sizing" => NoSlabs'
    BY <1>2 DEF AllInv, NoSlabs, In
  <2> QED BY <1>1, <1>2, <2>1, <2>2 DEF AllInv, ChainInv
<1>3. ASSUME NoSlabs', phase' # "assert" PROVE AllInv'
  <2>1. (NoSlabs => Kept(slab, a.partials, a.fulls_cnt, live))'
    BY NoSlabsKeep, PTL
  <2> QED BY <1>1, <1>3, <2>1 DEF AllInv, ChainInv
<1>4. CASE Double
  <2>1. NoSlabs' /\ phase' = "sizing"
    BY <1>1, <1>4 DEF Double, AllInv, NoSlabs, In, IInv, Typed
  <2> QED BY <1>3, <2>1
<1>5. CASE LayOut
  <2>1. NoSlabs /\ UNCHANGED <<slab, live>>
    BY <1>5 DEF LayOut, AllInv, Dies
  <2>2. phase' # "assert" /\ a'.partials = a.partials /\ a'.fulls_cnt = a.fulls_cnt
    BY <1>1, <1>5 DEF LayOut, Dies, IInv, Typed
  <2>3. NoSlabs'
    BY <2>1, <2>2 DEF NoSlabs, In
  <2> QED BY <1>3, <2>2, <2>3
<1>6. CASE Alloc
  <2>1. phase = "ready" /\ NULL \notin Blocks
    BY <1>6, SlabConstants DEF Alloc
  <2>2. ASSUME ChainInv', phase' = "ready" PROVE AllInv'
    BY <2>2 DEF AllInv
  <2>3. ASSUME NEW s \in Blocks, NEW h, AllocFrom(s, h),
               \/ s = a.partials /\ h = slab[s]
               \/ a.partials = NULL /\ s \notin InUse /\ h = Created
        PROVE  AllInv'
    <3>1. ChainInv'
      BY <1>1, <2>1, <2>3, AllocFromKeepsChains
    <3>2. phase' = "ready"
      BY <2>1, <2>3, <3>1 DEF AllocFrom, Dies, ChainInv
    <3> QED BY <2>2, <3>1, <3>2
  <2>4. CASE a.partials # NULL /\ AllocFrom(a.partials, slab[a.partials])
    <3>1. a.partials \in Blocks
      BY <1>1, <2>4 DEF IInv, Typed
    <3> QED BY <2>3, <2>4, <3>1
  <2>5. CASE a.partials = NULL /\ \E s \in Blocks \ InUse : AllocFrom(s, Created)
    BY <2>3, <2>5
  <2>6. CASE Dies("oom")
    BY <1>2, <2>6 DEF Dies
  <2> QED BY <1>6, <2>4, <2>5, <2>6 DEF Alloc
<1>7. ASSUME NEW o \in live, Free(o[1], o[2]) PROVE AllInv'
  <2>1. ChainInv' /\ phase = "ready"
    BY <1>1, <1>7, FreeKeepsChains DEF Free
  <2>2. phase' # "sizing"
    BY <1>7, <2>1 DEF Free, Dies
  <2> QED BY <2>1, <2>2 DEF AllInv
<1>8. CASE Deinit
  <2>1. ~(a.fulls_cnt # 0 \/ a.partials # NULL)
    <3>1. Owned(slab, live) /\ Needed(slab, live) /\ live = {}
          /\ ListOf(slab, a.partials) /\ CountOf(slab, a.fulls_cnt)
      BY <1>1, <1>8 DEF Deinit, ChainInv, Kept
    <3>2. In(slab) = {}
      BY <3>1 DEF Needed, Objects
    <3>3. FullOf(slab) = {} /\ PartOf(slab) = {}
      BY <3>2 DEF FullOf, PartOf
    <3>4. a.fulls_cnt = 0
      BY <3>1, <3>3, FS_EmptySet DEF CountOf
    <3>5. PICK p : ListIs(slab, a.partials, p) /\ Members(p) = {}
      BY <3>1, <3>3 DEF ListOf
    <3>6. a.partials = NULL
      BY <3>5 DEF ListIs, Nth, Members
    <3> QED BY <3>4, <3>6
  <2>2. UNCHANGED vars
    BY <1>8, <2>1 DEF Deinit
  <2> QED BY <1>2, <2>2 DEF vars
<1>9. CASE Stopped \/ UNCHANGED vars
  BY <1>2, <1>9 DEF Stopped, vars
<1> QED BY <1>4, <1>5, <1>6, <1>7, <1>8, <1>9 DEF Next

LEMMA ChainsInvariant == Spec => []AllInv
<1>1. Init => AllInv
  BY InitChains
<1>2. AllInv /\ [Next]_vars => AllInv'
  BY NextChains
<1> QED BY <1>1, <1>2, PTL DEF Spec

(* No assertion of slab.c fails (slab_alloc, slab_free, and the list code  *)
(* of slab_allocator_alloc and slab_allocator_free, 66-198), with any      *)
(* number of slabs and objects.                                            *)
THEOREM AssertionsHold == Spec => []NoAssertion
<1>1. AllInv => NoAssertion
  BY DEF AllInv, ChainInv, IInv, Typed, NoAssertion, LayoutHolds
<1> QED BY <1>1, ChainsInvariant, PTL

-----------------------------------------------------------------------------
(* What the invariant says, in the words of the model.                     *)

LEMMA NoneIsOutside == None \notin Ids
BY DEF None, Ids

(* An object is on the chain unless its node holds itself.                 *)
LEMMA MarkedIsOut ==
  ASSUME NEW h, NEW f, FreeIs(h, f)
  PROVE  {id \in Ids : h.nodes[id] = id} = Ids \ Members(f)
<1>1. ASSUME NEW id \in Members(f) PROVE h.nodes[id] # id
  <2>1. PICK k \in 1..Len(f) : f[k] = id
    BY DEF Members
  <2>2. h.nodes[id] = Nth(f, k+1, None) /\ id \in Ids
    BY <2>1 DEF FreeIs
  <2>3. CASE k = Len(f)
    BY <2>2, <2>3, NoneIsOutside DEF Nth
  <2>4. CASE k # Len(f)
    <3>1. k+1 \in 1..Len(f) /\ h.nodes[id] = f[k+1]
      <4>1. Len(f) \in Nat
        BY DEF FreeIs
      <4> QED BY <2>2, <2>4, <4>1 DEF Nth
    <3>2. f[k+1] # f[k]
      BY <3>1 DEF FreeIs, Distinct
    <3> QED BY <2>1, <3>1, <3>2
  <2> QED BY <2>3, <2>4
<1>2. \A id \in Ids \ Members(f) : h.nodes[id] = id
  BY DEF FreeIs
<1> QED BY <1>1, <1>2

LEMMA AllChains == ASSUME AllInv PROVE Chains
<1> SUFFICES ASSUME NEW s \in InUse
             PROVE  LET c == Chain(slab[s].first_free, slab[s].nodes,
                                   a.slab_nodes - slab[s].allocated, None)
                    IN  /\ c.ends /\ c.met = Ids \ LiveIn(s)
                        /\ LiveIn(s) = {id \in Ids : slab[s].nodes[id] = id}
                        /\ slab[s].allocated = Cardinality(LiveIn(s))
  BY DEF Chains
<1> DEFINE h == slab[s]
<1>1. s \in In(slab) /\ LiveIn(s) = Objects(s, live) /\ LiveIn(s) \in SUBSET Ids
  BY DEF InUse, In, LiveIn, Objects
<1>2. IInv /\ a.slab_nodes \in Nat
  BY DEF AllInv, ChainInv, IInv, Typed
<1>3. PICK f : FreeIs(h, f) /\ Members(f) = Ids \ Objects(s, live)
  BY <1>1 DEF AllInv, ChainInv, Kept, ChainsOf, ChainOf
<1>4. /\ f \in Seq(Ids) /\ h.first_free = Nth(f, 1, None)
      /\ \A k \in 1..Len(f) : h.nodes[f[k]] = Nth(f, k+1, None)
      /\ h.allocated = a.slab_nodes - Len(f)
  BY <1>3 DEF FreeIs
<1>5. a.slab_nodes - h.allocated = Len(f)
  BY <1>2, <1>4
<1> DEFINE c == Chain(h.first_free, h.nodes, a.slab_nodes - h.allocated, None)
<1>6. c.met = Members(f) /\ c.ends
  <2>1. LET d == Chain(Nth(f, 1, None), h.nodes, Len(f), None)
        IN  d.met = Members(f) /\ d.ends
    BY <1>4, NoneIsOutside, ChainMeets
  <2> QED BY <1>4, <1>5, <2>1
<1>7. {id \in Ids : h.nodes[id] = id} = Ids \ Members(f)
  BY <1>3, MarkedIsOut
<1>8. h.allocated = Cardinality(LiveIn(s))
  BY <1>1, <1>2, <1>3, CountIsRight
<1> HIDE DEF c, h
<1>9. LiveIn(s) = Ids \ Members(f)
  BY <1>1, <1>3
<1> QED BY <1>1, <1>3, <1>6, <1>7, <1>8, <1>9 DEF c, h

(* No object is given out twice or lost: in every slab the chain that      *)
(* slab_alloc takes from and slab_free puts on (66-120) has exactly the    *)
(* objects that no client has.                                             *)
THEOREM ChainsAreRight == Spec => []Chains
BY AllChains, ChainsInvariant, PTL

LEMMA PrevOnList ==
  ASSUME NEW hs, NEW first, NEW p, ListIs(hs, first, p), NEW s \in Members(p)
  PROVE  hs[s].prev_slab = Before(NextOf(hs), NULL, first, Members(p), s)
<1>1. LineIs(NextOf(hs), PrevOf(hs), Blocks, NULL, first, p) /\ NULL \notin Blocks
  BY ListIsLine, SlabConstants
<1>2. s \in Blocks
  BY DEF ListIs, Members
<1> QED BY <1>1, <1>2, LinePrev DEF PrevOf

LEMMA AllPartials == ASSUME AllInv PROVE Partials
<1> DEFINE full == {s \in InUse : slab[s].allocated = a.slab_nodes}
           part == InUse \ full
           next == [s \in Blocks |-> slab[s].next_slab]
           c    == Chain(a.partials, next, Cardinality(part), NULL)
<1>1. InUse = In(slab) /\ full = FullOf(slab) /\ part = PartOf(slab)
  BY DEF InUse, In, FullOf, PartOf
<1>2. PICK p : ListIs(slab, a.partials, p) /\ Members(p) = PartOf(slab)
  BY DEF AllInv, ChainInv, Kept, ListOf
<1>3. /\ p \in Seq(Blocks) /\ Distinct(p) /\ a.partials = Nth(p, 1, NULL)
      /\ \A k \in 1..Len(p) : slab[p[k]].next_slab = Nth(p, k+1, NULL)
  BY <1>2 DEF ListIs
<1>4. NULL \notin Blocks
  BY SlabConstants
<1>5. Cardinality(part) = Len(p)
  BY <1>1, <1>2, <1>3, DistinctCount
<1>6. \A k \in 1..Len(p) : next[p[k]] = Nth(p, k+1, NULL)
  BY <1>3
<1>7. c.met = part /\ c.ends
  <2> HIDE DEF next, part
  <2>1. LET d == Chain(Nth(p, 1, NULL), next, Len(p), NULL)
        IN  d.met = Members(p) /\ d.ends
    BY <1>3, <1>4, <1>6, ChainMeets
  <2> QED BY <1>1, <1>2, <1>3, <1>5, <2>1
<1>8. a.fulls_cnt = Cardinality(full)
  BY <1>1 DEF AllInv, ChainInv, Kept, CountOf
<1>9. \A s \in InUse : LiveIn(s) # {}
  BY <1>1 DEF AllInv, ChainInv, Kept, Needed, Objects, LiveIn
<1>10. ASSUME NEW s \in part
       PROVE  slab[s].prev_slab = IF s = a.partials THEN NULL
                ELSE CHOOSE r \in part \cup {NULL} : r # NULL /\ next[r] = s
  <2>1. next = NextOf(slab)
    BY DEF NextOf
  <2>2. slab[s].prev_slab = Before(next, NULL, a.partials, part, s)
    <3>1. s \in Members(p) /\ part = Members(p)
      BY <1>1, <1>2
    <3> HIDE DEF part, next
    <3> QED BY <1>2, <2>1, <3>1, PrevOnList
  <2> HIDE DEF part, next
  <2> QED BY <2>2 DEF Before
<1> HIDE DEF c
<1> QED BY <1>7, <1>8, <1>9, <1>10 DEF Partials, c

(* The list of slab_allocator_alloc and slab_allocator_free (146-198) has  *)
(* exactly the slabs with a free object, each needed, and the others are   *)
(* counted: new memory is taken only when every slab is full.              *)
THEOREM PartialsAreRight == Spec => []Partials
BY AllPartials, ChainsInvariant, PTL

-----------------------------------------------------------------------------
(* The counts of the slabs add up to the objects that clients have.        *)

\* The sum over every subset of S, as MapThenSumSet takes it.
SumStep(hs, S, sum) ==
  sum = [T \in SUBSET S |->
           IF T = {} THEN 0
           ELSE hs[CHOOSE x \in T : TRUE].allocated
                  + sum[T \ {CHOOSE x \in T : TRUE}]]

Sums(hs, S) == CHOOSE sum : SumStep(hs, S, sum)

LEMMA OutIsSum == Out = Sums(slab, InUse)[InUse]
BY DEF Out, MapThenSumSet, MapThenFoldSet, Sums, SumStep

(* No two functions satisfy the recursion.                                 *)
LEMMA OneSum ==
  ASSUME NEW hs, NEW S, IsFiniteSet(S), NEW f, NEW g,
         SumStep(hs, S, f), SumStep(hs, S, g)
  PROVE  f[S] = g[S]
<1> DEFINE N == {n \in Nat : \A T \in SUBSET S : Cardinality(T) = n => f[T] = g[T]}
<1>1. ASSUME NEW T \in SUBSET S PROVE IsFiniteSet(T) /\ Cardinality(T) \in Nat
  BY FS_Subset, FS_CardinalityType
<1>2. 0 \in N
  <2> SUFFICES ASSUME NEW T \in SUBSET S, Cardinality(T) = 0 PROVE f[T] = g[T]
    OBVIOUS
  <2>1. T = {}
    BY <1>1, FS_EmptySet
  <2> QED BY <2>1 DEF SumStep
<1>3. ASSUME NEW n \in Nat, n \in N PROVE n+1 \in N
  <2> SUFFICES ASSUME NEW T \in SUBSET S, Cardinality(T) = n+1 PROVE f[T] = g[T]
    OBVIOUS
  <2> DEFINE x == CHOOSE x \in T : TRUE
             U == T \ {x}
  <2>1. T # {}
    BY FS_EmptySet
  <2>2. x \in T
    BY <2>1
  <2>3. U \in SUBSET S /\ Cardinality(U) = n
    <3> HIDE DEF x
    <3>1. Cardinality(U) = Cardinality(T) - 1
      BY <1>1, <2>2, FS_RemoveElement
    <3> QED BY <3>1
  <2>4. f[U] = g[U]
    BY <1>3, <2>3
  <2>5. f[T] = hs[x].allocated + f[U] /\ g[T] = hs[x].allocated + g[U]
    BY <2>1 DEF SumStep
  <2> QED BY <2>4, <2>5
<1>4. Nat \subseteq N
  <2> HIDE DEF N
  <2> QED BY <1>2, <1>3, SetInduction
<1> QED BY <1>1, <1>4

\* The objects of the slabs T.
ObjectsIn(T, lv) == {o \in lv : o[1] \in T}

(* The clients have finitely many objects.                                 *)
LEMMA FinitelyMany == ASSUME AllInv PROVE IsFiniteSet(InUse) /\ IsFiniteSet(live)
<1>1. IInv /\ Owned(slab, live) /\ IsFiniteSet(FullOf(slab))
  BY DEF AllInv, ChainInv, Kept, CountOf
<1>2. IsFiniteSet(PartOf(slab))
  <2>1. PICK p : ListIs(slab, a.partials, p) /\ Members(p) = PartOf(slab)
    BY DEF AllInv, ChainInv, Kept, ListOf
  <2>2. p \in Seq(Blocks) /\ Distinct(p)
    BY <2>1 DEF ListIs
  <2> QED BY <2>1, <2>2, DistinctCount
<1>3. InUse = FullOf(slab) \cup PartOf(slab)
  BY DEF InUse, In, FullOf, PartOf
<1>4. IsFiniteSet(InUse)
  BY <1>1, <1>2, <1>3, FS_Union
<1>5. IsFiniteSet(Ids)
  <2>1. 0 \in Int /\ a.slab_nodes - 1 \in Int
    BY <1>1 DEF IInv, Typed
  <2> QED BY <2>1, FS_Interval DEF Ids
<1>6. IsFiniteSet(InUse \X Ids)
  BY <1>4, <1>5, FS_Product
<1> DEFINE g == [o \in live |-> <<o[1], IdAt(o[2])>>]
<1>7. ASSUME NEW o \in live
      PROVE  /\ g[o] \in InUse \X Ids
             /\ o = <<g[o][1], Offset(g[o][2])>>
  <2>1. PICK s \in Blocks, id \in Ids : o = <<s, Offset(id)>>
    BY <1>1 DEF IInv, Places
  <2>2. IdAt(Offset(id)) = id
    BY <1>1, IdAtOffset
  <2>3. s \in InUse
    BY <1>1, <2>1 DEF Owned, In, InUse
  <2>4. g[o] = <<s, id>>
    BY <2>1, <2>2
  <2> QED BY <2>1, <2>3, <2>4
<1>8. g \in Injection(live, InUse \X Ids)
  <2>1. g \in [live -> InUse \X Ids]
    BY <1>7
  <2>2. \A o, u \in live : g[o] = g[u] => o = u
    BY <1>7
  <2> HIDE DEF g
  <2> QED BY <2>1, <2>2 DEF Injection, IsInjective
<1> QED BY <1>4, <1>6, <1>8, FS_Injection

(* A slab's count is that of its objects.                                  *)
LEMMA SlabCount ==
  ASSUME AllInv, NEW s \in InUse
  PROVE  slab[s].allocated = Cardinality(ObjectsIn({s}, live))
<1>1. IInv /\ s \in In(slab) /\ s \in Blocks
  BY DEF AllInv, ChainInv, In, InUse
<1>2. PICK f : FreeIs(slab[s], f) /\ Members(f) = Ids \ Objects(s, live)
  BY <1>1 DEF AllInv, ChainInv, Kept, ChainsOf, ChainOf
<1> DEFINE X == Objects(s, live)
           Y == ObjectsIn({s}, live)
<1>3. IsFiniteSet(X) /\ slab[s].allocated = Cardinality(X)
  <2>1. X \in SUBSET Ids
    BY DEF Objects
  <2> QED BY <1>1, <1>2, <2>1, CountIsRight
<1> DEFINE g == [id \in X |-> <<s, Offset(id)>>]
<1>4. g \in [X -> Y] /\ \A id \in X : g[id] = <<s, Offset(id)>>
  BY DEF Objects, ObjectsIn
<1>5. ASSUME NEW i \in X, NEW j \in X, g[i] = g[j] PROVE i = j
  <2>1. Offset(i) = Offset(j) /\ i \in Ids /\ j \in Ids
    BY <1>5 DEF Objects
  <2> QED BY <1>1, <2>1, IdAtOffset
<1>6. ASSUME NEW o \in Y PROVE \E id \in X : g[id] = o
  <2>1. o \in live /\ o[1] = s
    BY DEF ObjectsIn
  <2>2. PICK id \in Ids : o = <<s, Offset(id)>>
    BY <1>1, <2>1 DEF IInv, Places
  <2>3. id \in X
    BY <2>1, <2>2 DEF Objects
  <2> QED BY <1>4, <2>2, <2>3
<1> HIDE DEF g, X, Y
<1>7. g \in Bijection(X, Y)
  BY <1>4, <1>5, <1>6 DEF Bijection, Injection, Surjection, IsInjective
<1>8. ExistsBijection(X, Y)
  BY <1>7 DEF ExistsBijection
<1> QED BY <1>3, <1>8, FS_Bijection DEF Y

LEMMA OutIsLive ==
  ASSUME AllInv
  PROVE  IsFiniteSet(live) /\ Out = Cardinality(live)
<1>1. IsFiniteSet(InUse) /\ IsFiniteSet(live)
  BY FinitelyMany
<1> DEFINE sum == [T \in SUBSET InUse |-> Cardinality(ObjectsIn(T, live))]
<1>2. ASSUME NEW T \in SUBSET InUse
      PROVE  sum[T] = IF T = {} THEN 0
                      ELSE slab[CHOOSE x \in T : TRUE].allocated
                             + sum[T \ {CHOOSE x \in T : TRUE}]
  <2>1. CASE T = {}
    <3>1. ObjectsIn(T, live) = {}
      BY <2>1 DEF ObjectsIn
    <3> QED BY <2>1, <3>1, FS_EmptySet
  <2>2. CASE T # {}
    <3> DEFINE x == CHOOSE x \in T : TRUE
               A == ObjectsIn({x}, live)
               B == ObjectsIn(T \ {x}, live)
    <3>1. x \in T
      BY <2>2
    <3> HIDE DEF x
    <3>2. ObjectsIn(T, live) = A \cup B /\ A \cap B = {}
      BY <3>1 DEF ObjectsIn
    <3>3. IsFiniteSet(A) /\ IsFiniteSet(B)
      <4>1. A \in SUBSET live /\ B \in SUBSET live
        BY DEF ObjectsIn
      <4> QED BY <1>1, <4>1, FS_Subset
    <3>4. Cardinality(A \cap B) = 0
      BY <3>2, FS_EmptySet
    <3>5. Cardinality(A \cup B) = Cardinality(A) + Cardinality(B)
      <4>1. Cardinality(A \cup B) = Cardinality(A) + Cardinality(B) - Cardinality(A \cap B)
        BY <3>3, FS_Union
      <4>2. Cardinality(A) \in Nat /\ Cardinality(B) \in Nat
        BY <3>3, FS_CardinalityType
      <4> QED BY <3>4, <4>1, <4>2
    <3>6. slab[x].allocated = Cardinality(A)
      BY <3>1, SlabCount
    <3>7. T \ {x} \in SUBSET InUse
      OBVIOUS
    <3>8. sum[T] = slab[x].allocated + sum[T \ {x}]
      BY <3>2, <3>5, <3>6, <3>7
    <3> HIDE DEF sum
    <3> QED BY <2>2, <3>8 DEF x
  <2> QED BY <2>1, <2>2
<1>3. SumStep(slab, InUse, sum)
  <2>1. sum = [T \in SUBSET InUse |-> sum[T]]
    OBVIOUS
  <2> HIDE DEF sum
  <2> QED BY <1>2, <2>1 DEF SumStep
<1>4. SumStep(slab, InUse, Sums(slab, InUse))
  <2> HIDE DEF sum
  <2> QED BY <1>3 DEF Sums
<1>5. Out = sum[InUse]
  <2> HIDE DEF sum
  <2> QED BY <1>1, <1>3, <1>4, OneSum, OutIsSum
<1>6. ObjectsIn(InUse, live) = live
  BY DEF AllInv, ChainInv, Kept, Owned, In, InUse, ObjectsIn
<1> QED BY <1>1, <1>5, <1>6

(* A call of slab_alloc or slab_free gives out or takes back one object,   *)
(* and nothing else does.                                                  *)
LEMMA CallsOwners ==
  ASSUME AllInv, [Next]_vars
  PROVE  \/ live' = live
         \/ \E o : o \notin live /\ live' = live \cup {o}
         \/ \E o \in live : live' = live \ {o}
<1>1. ChainInv
  BY DEF AllInv
<1>2. ASSUME NEW s \in Blocks, NEW h, AllocFrom(s, h), phase = "ready",
             \/ s = a.partials /\ h = slab[s]
             \/ a.partials = NULL /\ s \notin InUse /\ h = Created
      PROVE  \/ live' = live
             \/ \E o : o \notin live /\ live' = live \cup {o}
  <2>1. PICK f : FreeIs(h, f) /\ Len(f) > 0 /\ Members(f) = Ids \ Objects(s, live)
    BY <1>1, <1>2, AllocHeader
  <2>2. h.first_free \in Ids \ Objects(s, live)
    <3>1. f \in Seq(Ids) /\ h.first_free = Nth(f, 1, None)
      BY <2>1 DEF FreeIs
    <3>2. 1 \in 1..Len(f)
      BY <2>1, <3>1
    <3> QED BY <2>1, <3>1, <3>2 DEF Nth, Members
  <2>3. <<s, Offset(h.first_free)>> \notin live
    BY <2>2 DEF Objects
  <2> QED BY <1>2, <2>3 DEF AllocFrom, Dies
<1>3. CASE Alloc
  <2>1. phase = "ready" /\ a.partials \in Blocks \cup {NULL}
    BY <1>1, <1>3 DEF Alloc, ChainInv, IInv, Typed
  <2>2. CASE a.partials # NULL /\ AllocFrom(a.partials, slab[a.partials])
    BY <1>2, <2>1, <2>2
  <2>3. CASE a.partials = NULL /\ \E s \in Blocks \ InUse : AllocFrom(s, Created)
    BY <1>2, <2>1, <2>3
  <2>4. CASE Dies("oom")
    BY <2>4 DEF Dies
  <2> QED BY <1>3, <2>2, <2>3, <2>4 DEF Alloc
<1>4. ASSUME NEW o \in live, Free(o[1], o[2])
      PROVE  live' = live \/ live' = live \ {o}
  <2>1. PICK s \in Blocks, id \in Ids : o = <<s, Offset(id)>>
    BY <1>1 DEF ChainInv, IInv, Places
  <2>2. <<o[1], o[2]>> = o
    BY <2>1
  <2> QED BY <1>4, <2>2 DEF Free, Dies
<1>5. CASE Double
  BY <1>5 DEF Double
<1>6. CASE LayOut
  BY <1>6 DEF LayOut, Dies
<1>7. CASE Deinit
  BY <1>7 DEF Deinit, Dies, vars
<1>8. CASE Stopped \/ UNCHANGED vars
  BY <1>8 DEF Stopped, vars
<1> QED BY <1>3, <1>4, <1>5, <1>6, <1>7, <1>8 DEF Next

(* slab.c implements a pool: an object has one owner at a time, and the    *)
(* counts of slab_alloc and slab_free (66-120) add up to the objects that  *)
(* are out.                                                                *)
THEOREM PoolIsImplemented == Spec => ImplementsPool
<1>1. Init => O!Init
  <2> SUFFICES ASSUME Init PROVE live = {} /\ Out = 0
    BY DEF O!Init
  <2>1. live = {}
    BY DEF Init
  <2>2. AllInv
    BY InitChains
  <2> QED BY <2>1, <2>2, OutIsLive, FS_EmptySet
<1>2. AllInv /\ AllInv' /\ [Next]_vars => [O!Next]_(O!vars)
  <2> SUFFICES ASSUME AllInv, AllInv', [Next]_vars PROVE O!Next \/ UNCHANGED O!vars
    OBVIOUS
  <2>1. IsFiniteSet(live) /\ Out = Cardinality(live)
    BY OutIsLive
  <2>2. Out' = Cardinality(live')
    <3>1. (AllInv => Out = Cardinality(live))'
      BY OutIsLive, PTL
    <3> QED BY <3>1
  <2>3. CASE live' = live
    BY <2>1, <2>2, <2>3 DEF O!vars
  <2>4. ASSUME NEW o, o \notin live, live' = live \cup {o} PROVE O!Next
    <3>1. Out' = Out + 1
      BY <2>1, <2>2, <2>4, FS_AddElement
    <3> QED BY <2>4, <3>1 DEF O!Next, O!Alloc
  <2>5. ASSUME NEW o \in live, live' = live \ {o} PROVE O!Next
    <3>1. Out' = Out - 1
      BY <2>1, <2>2, <2>5, FS_RemoveElement
    <3> QED BY <2>5, <3>1 DEF O!Next, O!Free
  <2> QED BY <2>3, <2>4, <2>5, CallsOwners
<1> QED BY <1>1, <1>2, ChainsInvariant, PTL DEF Spec, ImplementsPool, O!Spec

=============================================================================
