------------------------------- MODULE Buddy -------------------------------
(***************************************************************************)
(* The buddy allocator of physical memory, buddy.c.                        *)
(*                                                                         *)
(* Memory from 0 on is a binary tree of blocks: block 1 is all of it,      *)
(* block i has the halves 2i and 2i+1.  Free blocks of a level form a      *)
(* doubly linked list through array indices, -1 being its end.  For a      *)
(* block handed out only its first page, a block of the last level,        *)
(* remembers the level it was taken from.                                  *)
(*                                                                         *)
(* Every call runs under phys_alloc_lock of memory.c, so it is one step.   *)
(* Callers free only what they own and ask for the start of a block only   *)
(* with an address inside a block they own.                                *)
(***************************************************************************)
EXTENDS Integers, Sequences, FiniteSets

CONSTANTS
  BUDDY_LEVELS,  \* 19: blocks of 1 GB down to pages of 4 KB
  PAGE           \* MIN_PAGE_SIZE, in units of address

ASSUME BuddyConstants ==
  /\ BUDDY_LEVELS \in Nat \ {0}
  /\ PAGE \in Nat \ {0}

LAST_LEV      == BUDDY_LEVELS - 1
Levels        == 0..LAST_LEV
Starts(lev)   == 2^lev
OnLevel(lev)  == Starts(lev)..(2 * Starts(lev) - 1)
Blocks        == 1..(2^BUDDY_LEVELS - 1)
Pages         == OnLevel(LAST_LEV)
buddy_size(lev) == PAGE * 2^(LAST_LEV - lev)
MAX_PAGE_SIZE   == buddy_size(0)
None            == -1

(* The first and all pages of a block of a level, and its address.         *)
FirstPage(lev, i) == i * 2^(LAST_LEV - lev)
PagesOf(lev, i)   == FirstPage(lev, i)..(FirstPage(lev, i + 1) - 1)
Address(lev, i)   == (i - Starts(lev)) * buddy_size(lev)
PageAt(ptr)       == ptr \div PAGE + Starts(LAST_LEV)

VARIABLES
  a,      \* struct buddy_allocator, and why the machine stopped in it
  ops     \* the operations buddy_init was called with

vars == <<a, ops>>

Dies(al, why) == [al EXCEPT !.died = why]

-----------------------------------------------------------------------------
(* The free lists.                                                         *)

add_one(al, lev, i) ==
  LET n == al.firsts[lev]
  IN  IF \/ al.free[i] \/ al.prev[i] # None \/ al.next[i] # None
         \/ n # None /\ al.prev[n] # None
      THEN Dies(al, "assert")
      ELSE [al EXCEPT !.free[i] = TRUE,
                      !.next[i] = n,
                      !.prev = [b \in Blocks |-> IF b = n THEN i ELSE @[b]],
                      !.firsts[lev] = i]

\* Mutant: the successor keeps pointing back to the removed block.
remove_oneStale(al, lev, i) ==
  LET p == al.prev[i]
      n == al.next[i]
  IN  [al EXCEPT !.free[i] = FALSE,
                 !.prev[i] = None,
                 !.next = [b \in Blocks |-> CASE b = i -> None
                                              [] b = p -> n
                                              [] OTHER -> @[b]],
                 !.firsts[lev] = IF p = None THEN n ELSE @]

remove_one(al, lev, i) ==
  LET p == al.prev[i]
      n == al.next[i]
  IN  IF \/ ~al.free[i]
         \/ p # None /\ al.next[p] # i
         \/ p = None /\ al.firsts[lev] # i
         \/ n # None /\ al.prev[n] # i
      THEN Dies(al, "assert")
      ELSE [al EXCEPT !.free[i] = FALSE,
                      !.prev = [b \in Blocks |-> CASE b = i -> None
                                                   [] b = n -> p
                                                   [] OTHER -> @[b]],
                      !.next = [b \in Blocks |-> CASE b = i -> None
                                                   [] b = p -> n
                                                   [] OTHER -> @[b]],
                      !.firsts[lev] = IF p = None THEN n ELSE @]

(* Merging two free halves into their parent, once and as far as possible. *)
Left(i) == 2 * (i \div 2)

\* Mutant: only the block itself is looked at, not its other half.
MergeableHalf(al, lev, i) == lev > 0 /\ al.free[i]

Mergeable(al, lev, i) ==
  lev > 0 /\ al.free[Left(i)] /\ al.free[Left(i) + 1]

try_merge_one(al, lev, i) ==
  IF Mergeable(al, lev, i)
  THEN add_one(remove_one(remove_one(al, lev, Left(i)), lev, Left(i) + 1),
               lev - 1, i \div 2)
  ELSE al

\* Mutant: a freed block is merged once only.
try_merge_recOnce(al, lev, i) == try_merge_one(al, lev, i)

(* One call of the recursion, on block i and its parents: more tells       *)
(* whether the calls before it have merged.                                *)
MergeUp(acc, lev, i) ==
  IF acc.more /\ Mergeable(acc.al, lev, i)
  THEN [acc EXCEPT !.al = try_merge_one(@, lev, i)]
  ELSE [acc EXCEPT !.more = FALSE]

try_merge_rec(al, lev, i) ==
  LET call[k \in 0..(lev + 1)] ==
        IF k = 0 THEN [al |-> al, more |-> TRUE]
        ELSE MergeUp(call[k-1], lev - (k-1), i \div 2^(k-1))
  IN  call[lev + 1].al

-----------------------------------------------------------------------------
(* buddy_init.                                                             *)

Least(x, y) == IF x <= y THEN x ELSE y
Up(x)       == (x + PAGE - 1) \div PAGE

\* Mutant: an available segment is extended to whole pages.
WholePagesOut(op) ==
  LET end == Least(op.end, MAX_PAGE_SIZE)
  IN  IF op.start >= end THEN <<1, 0>>
      ELSE <<op.start \div PAGE, Up(end) - 1>>

(* The pages an operation is about: an available segment is shrunk to      *)
(* whole pages, a reserved one is extended to whole pages.                 *)
WholePages(op) ==
  LET end == Least(op.end, MAX_PAGE_SIZE)
  IN  IF op.start >= end THEN <<1, 0>>
      ELSE IF op.operation = "reserve"
      THEN <<op.start \div PAGE, Up(end) - 1>>
      ELSE <<Up(op.start), end \div PAGE - 1>>

mark_one(al, op, p) ==
  CASE al.free[p] /\ op.operation = "reserve" -> remove_one(al, LAST_LEV, p)
    [] ~al.free[p] /\ op.operation = "available" -> add_one(al, LAST_LEV, p)
    [] OTHER -> al

mark_for_init(al, op) ==
  LET range == WholePages(op)
      count == IF range[2] < range[1] THEN 0 ELSE range[2] - range[1] + 1
      turn[k \in 0..count] ==
        IF k = 0 THEN al
        ELSE mark_one(turn[k-1], op, Starts(LAST_LEV) + range[1] + k - 1)
  IN  turn[count]

(* Every level from the pages up, the blocks of a level from the left.     *)
merge_level(al, lev) ==
  LET turn[k \in 0..(Starts(lev) \div 2)] ==
        IF k = 0 THEN al
        ELSE try_merge_one(turn[k-1], lev, Starts(lev) + 2 * (k-1))
  IN  turn[Starts(lev) \div 2]

merge_all(al) ==
  LET turn[k \in 0..LAST_LEV] ==
        IF k = 0 THEN al ELSE merge_level(turn[k-1], LAST_LEV + 1 - k)
  IN  turn[LAST_LEV]

(* Initially everything is unavailable.                                    *)
Unavailable ==
  [free   |-> [b \in Blocks |-> FALSE],
   prev   |-> [b \in Blocks |-> None],
   next   |-> [b \in Blocks |-> None],
   allocated_level |-> [p \in Pages |-> BUDDY_LEVELS],
   firsts |-> [lev \in Levels |-> None],
   died   |-> "no"]

mark_all(o) ==
  LET turn[k \in 0..Len(o)] ==
        IF k = 0 THEN Unavailable ELSE mark_for_init(turn[k-1], o[k])
  IN  turn[Len(o)]

buddy_init(o) == merge_all(mark_all(o))

(* The operations are those of the caller, init_memory (module Memory).    *)
Init == a = buddy_init(ops)

-----------------------------------------------------------------------------
(* The interface.                                                          *)

Running == a.died = "no"

(* The level of the smallest block that size fits in.                      *)
LevelFor(size) ==
  CHOOSE lev \in Levels :
    /\ buddy_size(lev) >= size
    /\ lev = LAST_LEV \/ buddy_size(lev + 1) < size

(* get_from_level: the block and the allocator after the splits.  The      *)
(* nearest level above that has a free block gives it; on the way down     *)
(* every right half is put back.                                           *)
Givers(al, lev) == {g \in 0..lev : al.firsts[g] # None}
Nearest(al, lev) ==
  CHOOSE g \in Givers(al, lev) : \A h \in Givers(al, lev) : h <= g

\* Mutant: the half that is handed out is put back, not the other one.
get_from_levelLeft(al, lev) ==
  LET g     == Nearest(al, lev)
      first == al.firsts[g]
      split[k \in 0..(lev - g)] ==
        IF k = 0 THEN remove_one(al, g, first)
        ELSE add_one(split[k-1], g + k, first * 2^k)
  IN  [block |-> first * 2^(lev - g), al |-> split[lev - g]]

get_from_level(al, lev) ==
  LET g     == Nearest(al, lev)
      first == al.firsts[g]
      split[k \in 0..(lev - g)] ==
        IF k = 0 THEN remove_one(al, g, first)
        ELSE add_one(split[k-1], g + k, first * 2^k + 1)
  IN  [block |-> first * 2^(lev - g), al |-> split[lev - g]]

(* buddy_alloc: with no block left it dies.                                *)
Alloc(size) ==
  /\ Running
  /\ LET lev == LevelFor(size)
         got == get_from_level(a, lev)
         page == FirstPage(lev, got.block)
     IN  a' = IF Givers(a, lev) = {} THEN Dies(a, "oom")
              ELSE IF got.al.allocated_level[page] # BUDDY_LEVELS
              THEN Dies(got.al, "assert")
              ELSE [got.al EXCEPT !.allocated_level[page] = lev]
  /\ UNCHANGED ops

(* buddy_free of the block whose first page is page.                       *)
Free(page) ==
  /\ Running
  /\ LET lev == a.allocated_level[page]
         i   == page \div 2^(LAST_LEV - lev)
         al  == add_one([a EXCEPT !.allocated_level[page] = BUDDY_LEVELS],
                        lev, i)
     IN  /\ lev < BUDDY_LEVELS
         /\ a' = IF page # FirstPage(lev, i) THEN Dies(a, "assert")
                 ELSE try_merge_rec(al, lev, i)
  /\ UNCHANGED ops

(* buddy_get_block_start: the address of the first page of the nearest     *)
(* enclosing block that starts with a page handed out; None for the        *)
(* assertions.                                                             *)
\* Mutant: the farthest enclosing block is taken.
buddy_get_block_startTop(al, ptr) ==
  LET Ancestor(lev) == PageAt(ptr) \div 2^(LAST_LEV - lev)
      Hits == {lev \in Levels : al.allocated_level[
                 FirstPage(lev, Ancestor(lev))] # BUDDY_LEVELS}
      lev  == CHOOSE l \in Hits : \A k \in Hits : l <= k
  IN  IF Hits = {} THEN None
      ELSE Address(LAST_LEV, FirstPage(lev, Ancestor(lev)))

buddy_get_block_start(al, ptr) ==
  LET Ancestor(lev) == PageAt(ptr) \div 2^(LAST_LEV - lev)
      Hits == {lev \in Levels : al.allocated_level[
                 FirstPage(lev, Ancestor(lev))] # BUDDY_LEVELS}
      lev  == CHOOSE l \in Hits : \A k \in Hits : k <= l
      page == FirstPage(lev, Ancestor(lev))
  IN  IF Hits = {} \/ al.allocated_level[page] > lev THEN None
      ELSE Address(LAST_LEV, page)

Stopped == ~Running /\ UNCHANGED vars

Next == \/ \E size \in 1..MAX_PAGE_SIZE : Alloc(size)
        \/ \E page \in Pages : Free(page)
        \/ Stopped

Spec == Init /\ [][Next]_vars

-----------------------------------------------------------------------------
(* Properties.                                                             *)

FreeBlocks == {b \in Levels \X Blocks : b[2] \in OnLevel(b[1]) /\ a.free[b[2]]}
Owned ==
  {<<a.allocated_level[p], p \div 2^(LAST_LEV - a.allocated_level[p])>> :
     p \in {q \in Pages : a.allocated_level[q] # BUDDY_LEVELS}}

(* The pages the memory map leaves to the allocator: those some available  *)
(* segment covers entirely and no later reserved segment touches.          *)
Usable ==
  LET From(p) == Address(LAST_LEV, p)
      Covers(k, p)  == /\ ops[k].operation = "available"
                       /\ ops[k].start <= From(p)
                       /\ From(p + 1) <= ops[k].end
      Touches(k, p) == /\ ops[k].operation = "reserve"
                       /\ ops[k].start < ops[k].end
                       /\ ops[k].start < From(p + 1)
                       /\ From(p) < ops[k].end
  IN  {p \in Pages :
         \E k \in DOMAIN ops :
           /\ Covers(k, p)
           /\ \A j \in DOMAIN ops : j > k => ~Touches(j, p)}

(* Every usable page lies in exactly one block, free or handed out, and no *)
(* other page in any: memory is neither lost nor given to two owners, nor  *)
(* is memory of the kernel or of a device given away.                      *)
Partition ==
  \A p \in Pages :
    Cardinality({b \in FreeBlocks \cup Owned : p \in PagesOf(b[1], b[2])}) =
      IF p \in Usable THEN 1 ELSE 0

(* The list of a level holds exactly the free blocks of the level, and can *)
(* be walked in both directions.                                           *)
FreeLists ==
  \A lev \in Levels :
    LET free == {i \in OnLevel(lev) : a.free[i]}
        n    == Cardinality(free)
        walk[k \in 0..n] ==
          IF k = 0 THEN a.firsts[lev]
          ELSE IF walk[k-1] = None THEN None ELSE a.next[walk[k-1]]
    IN  /\ {walk[k] : k \in 0..(n-1)} = free
        /\ walk[n] = None
        /\ \A i \in free : a.prev[i] =
             IF a.firsts[lev] = i THEN None
             ELSE CHOOSE j \in free \cup {None} : j # None /\ a.next[j] = i

(* A request fails only when there is no aligned run of free pages of its  *)
(* size: free halves are always merged, by buddy_init and by buddy_free.   *)
Serves ==
  Running =>
    \A lev \in Levels :
      Givers(a, lev) = {} =>
        \A i \in OnLevel(lev) :
          ~ \A p \in PagesOf(lev, i) :
              \E b \in FreeBlocks : p \in PagesOf(b[1], b[2])

(* slab_allocator_free finds the slab of an object through this: an        *)
(* address in a block handed out leads to the start of that block.         *)
BlockStarts ==
  \A b \in Owned : \A p \in PagesOf(b[1], b[2]) :
    buddy_get_block_start(a, Address(LAST_LEV, p)) = Address(b[1], b[2])

(* No assertion of buddy.c fails.                                          *)
NoAssertion == a.died # "assert"

(* buddy.c implements an allocator of disjoint blocks.                     *)
BlockSets == {PagesOf(b[1], b[2]) : b \in {c \in Levels \X Blocks : c[2] \in OnLevel(c[1])}}
OwnedSets == {PagesOf(b[1], b[2]) : b \in Owned}

P == INSTANCE PageAlloc WITH owned <- OwnedSets, usable <- Usable, Aligned <- BlockSets
ImplementsPageAlloc == P!Spec
=============================================================================
