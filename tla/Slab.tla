-------------------------------- MODULE Slab --------------------------------
(***************************************************************************)
(* One slab allocator of slab.c.  A slab is a block of physical memory: a  *)
(* header, then slab_nodes objects; node i of the header holds the next    *)
(* free object, or i itself while object i is handed out.  Slabs with a    *)
(* free object are on the doubly linked list partials, full ones are only  *)
(* counted, empty ones are given back.                                     *)
(*                                                                         *)
(* A call runs under the allocator's spin lock: it is one step.  Memory    *)
(* comes from Buddy, aligned by its size, so that an address is a block    *)
(* and an offset in it; Buddy finds the block of an object                 *)
(* (Buddy!BlockStarts) and dies when there is none left.                   *)
(***************************************************************************)
EXTENDS Integers, FiniteSets, FiniteSetsExt

CONSTANTS
  Blocks,          \* the blocks the physical allocator can give out
  Requests,        \* item_size and align of slab_allocator_init
  PAGE_SIZE,       \* 4096
  HEADER,          \* 24, sizeof(struct slab)
  NODE,            \* 4, sizeof(struct slab_node)
  MIN_SLAB_NODES,  \* 10
  NULL

ASSUME SlabConstants ==
  /\ NULL \notin Blocks
  /\ {PAGE_SIZE, HEADER, NODE, MIN_SLAB_NODES} \subseteq Nat \ {0}
  /\ Requests \subseteq (Nat \ {0}) \X (Nat \ {0})

(* slab.c 40 asserts that align is a power of two, as PAGE_SIZE is: one of *)
(* the two divides the other.                                              *)
ASSUME PowersOfTwo ==
  \A req \in Requests : PAGE_SIZE % req[2] = 0 \/ req[2] % PAGE_SIZE = 0

VARIABLES
  request,  \* the parameters of slab_allocator_init
  a,        \* struct slab_allocator
  slab,     \* the headers of the slabs
  live,     \* the objects the clients have, <<block, offset>>
  phase     \* "sizing", then "ready", or why the machine stopped

vars == <<request, a, slab, live, phase>>

size  == request[1]
align == request[2]
Ids   == 0..(a.slab_nodes - 1)
None  == -1

Unused == [prev_slab |-> NULL, next_slab |-> NULL, first_free |-> None,
           allocated |-> 0, nodes |-> <<>>]

(* slab_create: every object is free, in order.                            *)
Created ==
  [Unused EXCEPT
     !.first_free = 0,
     !.nodes = [i \in Ids |-> IF i + 1 < a.slab_nodes THEN i + 1 ELSE None]]

(* The header h at another place in the list of partial slabs.             *)
Linked(h, prev, next) == [h EXCEPT !.prev_slab = prev, !.next_slab = next]

(* The blocks that are slabs now.                                          *)
InUse == {s \in Blocks : slab[s].nodes # <<>>}

Dies(why) == phase' = why /\ UNCHANGED <<request, a, slab, live>>

-----------------------------------------------------------------------------
(* slab_allocator_init and calculate_slab.                                 *)

\* Mutant: rounds down.
align_byDown(x, d) == (x \div d) * d

align_by(x, d) == ((x + d - 1) \div d) * d

per_node == a.item_size + NODE
min_mem  == HEADER + per_node * MIN_SLAB_NODES

Init ==
  /\ request \in Requests
  /\ a = [item_size        |-> align_by(size, align),
          slab_nodes_start |-> 0,
          slab_alloc_mem   |-> IF PAGE_SIZE < align THEN align ELSE PAGE_SIZE,
          slab_nodes       |-> 0,
          partials         |-> NULL,
          fulls_cnt        |-> 0]
  /\ slab = [s \in Blocks |-> Unused]
  /\ live = {}
  /\ phase = "sizing"

(* The loop that looks for a size with room for MIN_SLAB_NODES objects.    *)
Double ==
  /\ phase = "sizing"
  /\ a.slab_alloc_mem < min_mem
  /\ a' = [a EXCEPT !.slab_alloc_mem = 2 * @]
  /\ UNCHANGED <<request, slab, live, phase>>

LayOut ==
  LET nodes       == (a.slab_alloc_mem - HEADER) \div per_node
      nodes_start == align_by(HEADER + nodes * NODE, align)
  IN  /\ phase = "sizing"
      /\ a.slab_alloc_mem >= min_mem
      /\ IF nodes_start + nodes * a.item_size <= a.slab_alloc_mem
         THEN /\ a' = [a EXCEPT !.slab_nodes = nodes,
                                !.slab_nodes_start = nodes_start]
              /\ phase' = "ready"
              /\ UNCHANGED <<request, slab, live>>
         ELSE Dies("layout")

(* Where object id lies in its slab, and back.                             *)
Offset(id) == a.slab_nodes_start + a.item_size * id
IdAt(off)  == (off - a.slab_nodes_start) \div a.item_size

-----------------------------------------------------------------------------
\* Mutant: the object stays on the chain.
TakeStays(h) ==
  [h EXCEPT !.allocated = @ + 1, !.nodes[h.first_free] = h.first_free]

(* slab_alloc: the first free object is taken off the chain.               *)
Take(h) ==
  [h EXCEPT !.allocated = @ + 1, !.first_free = h.nodes[h.first_free],
            !.nodes[h.first_free] = h.first_free]

\* Mutant: a full slab stays on partials.
LeavesPartialsNever(h) == FALSE

LeavesPartials(h) == h.allocated = a.slab_nodes

(* slab_allocator_alloc from the slab s, whose header is h.                *)
AllocFrom(s, h) ==
  LET taken == Take(h)
      next  == h.next_slab
  IN  IF \/ h.first_free = None
         \/ LeavesPartials(taken) /\ next # NULL /\ slab[next].prev_slab # s
      THEN Dies("assert")
      ELSE /\ live' = live \cup {<<s, Offset(h.first_free)>>}
           /\ IF LeavesPartials(taken)
              THEN /\ a' = [a EXCEPT !.partials = next, !.fulls_cnt = @ + 1]
                   /\ slab' = [x \in Blocks |->
                        IF x = s THEN Linked(taken, NULL, NULL)
                        ELSE IF x = next THEN Linked(slab[x], NULL, slab[x].next_slab)
                        ELSE slab[x]]
              ELSE /\ a' = [a EXCEPT !.partials = s]
                   /\ slab' = [slab EXCEPT ![s] = taken]
           /\ UNCHANGED <<request, phase>>

Alloc ==
  /\ phase = "ready"
  /\ \/ a.partials # NULL /\ AllocFrom(a.partials, slab[a.partials])
     \/ a.partials = NULL /\ \E s \in Blocks \ InUse : AllocFrom(s, Created)
     \/ a.partials = NULL /\ InUse = Blocks /\ Dies("oom")

-----------------------------------------------------------------------------
\* Mutant: the freed object is not marked free, only counted.
PutUncounted(h, id) == [h EXCEPT !.nodes[id] = h.first_free, !.first_free = id]

(* slab_free: the object becomes the first of the chain.                   *)
Put(h, id) ==
  [h EXCEPT !.nodes[id] = h.first_free, !.first_free = id,
            !.allocated = @ - 1]

(* A full slab that gets a free object goes to the front of partials.      *)
Front(hs, s) ==
  [x \in Blocks |->
     Linked(hs[x],
            IF x = a.partials THEN s ELSE IF x = s THEN NULL ELSE hs[x].prev_slab,
            IF x = s THEN a.partials ELSE hs[x].next_slab)]

\* Mutant: the predecessor of a slab that is given back keeps its pointer.
UnlinkStale(hs, s) ==
  [x \in Blocks |->
     IF x = s THEN Unused
     ELSE Linked(hs[x],
            IF x = hs[s].next_slab THEN hs[s].prev_slab ELSE hs[x].prev_slab,
            hs[x].next_slab)]

(* An empty slab is taken out of the list and given back (slab_destroy).   *)
Unlink(hs, s) ==
  [x \in Blocks |->
     IF x = s THEN Unused
     ELSE Linked(hs[x],
            IF x = hs[s].next_slab THEN hs[s].prev_slab ELSE hs[x].prev_slab,
            IF x = hs[s].prev_slab THEN hs[s].next_slab ELSE hs[x].next_slab)]

(* slab_allocator_free of the object at off in s.  The lookup of the block *)
(* asserts that it is allocated.                                           *)
Free(s, off) ==
  LET id == IdAt(off)
      was_full == slab[s].allocated = a.slab_nodes
      put   == [slab EXCEPT ![s] = Put(@, id)]
      hs    == IF was_full THEN Front(put, s) ELSE put
      first == IF was_full THEN s ELSE a.partials
      empty == hs[s].allocated = 0
      given_back == empty /\ hs[s].prev_slab = NULL
  IN  /\ phase = "ready"
      /\ IF \/ s \notin InUse
            \/ slab[s].nodes[id] # id \/ slab[s].allocated < 1
            \/ was_full /\ a.partials # NULL /\ slab[a.partials].prev_slab # NULL
            \/ given_back /\ first # s
         THEN Dies("assert")
         ELSE /\ live' = live \ {<<s, off>>}
              /\ slab' = IF empty THEN Unlink(hs, s) ELSE hs
              /\ a' = [a EXCEPT
                   !.partials  = IF given_back THEN hs[s].next_slab ELSE first,
                   !.fulls_cnt = IF was_full THEN @ - 1 ELSE @]
              /\ UNCHANGED <<request, phase>>

(* slab_allocator_deinit, called when every object has been freed.         *)
Deinit ==
  /\ phase = "ready" /\ live = {}
  /\ IF a.fulls_cnt # 0 \/ a.partials # NULL
     THEN Dies("assert") ELSE UNCHANGED vars

Stopped == phase \in {"layout", "assert", "oom"} /\ UNCHANGED vars

Next == \/ Double \/ LayOut \/ Alloc \/ Deinit \/ Stopped
        \/ \E o \in live : Free(o[1], o[2])

Spec == Init /\ [][Next]_vars

-----------------------------------------------------------------------------
(* Every object lies behind the header and inside its slab, aligned as was *)
(* asked for, and shares no byte with another object of the slab.          *)
ObjectsFit ==
  \A o \in live :
    /\ o[2] % align = 0
    /\ HEADER + a.slab_nodes * NODE <= o[2]
    /\ o[2] + size <= a.slab_alloc_mem
    /\ \A u \in live : u[1] = o[1] /\ u # o =>
         o[2] + size <= u[2] \/ u[2] + size <= o[2]

(* The n nodes met from first by next, and whether the walk ends there.    *)
Chain(first, next, n, end) ==
  LET at[k \in 0..n] == IF k = 0 THEN first
                        ELSE IF at[k-1] = end THEN end ELSE next[at[k-1]]
  IN  [met |-> {at[k] : k \in 0..(n-1)} \ {end}, ends |-> at[n] = end]

LiveIn(s) == {id \in Ids : <<s, Offset(id)>> \in live}

(* In every slab the chain of free objects holds exactly those no client   *)
(* has, and the others are marked: no object is given out twice or lost.   *)
Chains ==
  \A s \in InUse :
    LET c == Chain(slab[s].first_free, slab[s].nodes,
                   a.slab_nodes - slab[s].allocated, None)
    IN  /\ c.ends /\ c.met = Ids \ LiveIn(s)
        /\ LiveIn(s) = {id \in Ids : slab[s].nodes[id] = id}
        /\ slab[s].allocated = Cardinality(LiveIn(s))

(* partials holds exactly the slabs that have a free object, each slab     *)
(* keeps at least one live object, and the rest are counted as full: an    *)
(* allocation takes new memory only when every slab is full.               *)
Partials ==
  LET full == {s \in InUse : slab[s].allocated = a.slab_nodes}
      part == InUse \ full
      next == [s \in Blocks |-> slab[s].next_slab]
      c    == Chain(a.partials, next, Cardinality(part), NULL)
  IN  /\ c.ends /\ c.met = part
      /\ a.fulls_cnt = Cardinality(full)
      /\ \A s \in InUse : LiveIn(s) # {}
      /\ \A s \in part :
           slab[s].prev_slab = IF s = a.partials THEN NULL
             ELSE CHOOSE r \in part \cup {NULL} : r # NULL /\ next[r] = s

(* The formula of calculate_slab is right (slab.c 56-66).                  *)
LayoutHolds == phase # "layout"

(* No assertion of slab.c fails.                                           *)
NoAssertion == LayoutHolds /\ phase # "assert"

(* slab.c implements a pool of objects, and its count of the objects that  *)
(* are out is that of the clients.                                         *)
Out == MapThenSumSet(LAMBDA s : slab[s].allocated, InUse)

O == INSTANCE ObjectPool WITH out <- Out
ImplementsPool == O!Spec
=============================================================================
