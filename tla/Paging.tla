-------------------------------- MODULE Paging --------------------------------
(***************************************************************************)
(* init_paging of paging.c: a four level page table that maps all physical *)
(* memory at HIGH_BASE and the first KERNEL_SIZE of it at KERNEL_BASE.     *)
(* map_pages is recursive: its calls are the frames of a stack, and an     *)
(* action is the entry of a call, one turn of its loop, or its return.     *)
(*                                                                         *)
(* Tables are numbered as they are allocated; that each is a page of its   *)
(* own is the promise of the buddy allocator.  Virtual addresses are taken *)
(* after linear(), without the bits that canonical() repeats.              *)
(***************************************************************************)
EXTENDS Integers, Sequences

CONSTANTS
  ENTRIES_PER_TABLE,  \* 512
  PAGE,               \* 4096
  HIGH_BASE,          \* where physical memory is mapped
  KERNEL_BASE,        \* where the kernel is linked to
  KERNEL_SIZE,        \* 2 GB
  MemoryEnds          \* the possible values of phys_mem_end

(* Below a page, map_pages has steps of PAGE \div ENTRIES_PER_TABLE bytes   *)
(* (8), without a rest, and then of 0.                                     *)
ASSUME PagingConstants ==
  /\ {ENTRIES_PER_TABLE, PAGE} \subseteq Nat \ {0}
  /\ PAGE % ENTRIES_PER_TABLE = 0 /\ PAGE \div ENTRIES_PER_TABLE < ENTRIES_PER_TABLE
  /\ {HIGH_BASE, KERNEL_BASE, KERNEL_SIZE} \subseteq Nat
  /\ MemoryEnds \subseteq Nat \ {0}

LARGE     == PAGE * ENTRIES_PER_TABLE       \* 2 MB
PML4_STEP == LARGE * ENTRIES_PER_TABLE * ENTRIES_PER_TABLE
Entries   == 0..(ENTRIES_PER_TABLE - 1)
None      == -1

VARIABLES
  phys_mem_end,
  tables,   \* the tables in the order of their allocation, the first is pml4
  stack,    \* the active calls of map_pages, the innermost last
  stage,    \* which part of init_paging runs; "loaded" when cr3 is set
  died      \* "no", or why the machine stopped

pagingVars == <<phys_mem_end, tables, stack, stage, died>>

(* Page table entries: not present, a table, or memory of 4 KB or 2 MB.    *)
Absent      == [kind |-> "absent", phys |-> 0]
EmptyTable  == [i \in Entries |-> Absent]
Pte(k, x)   == [kind |-> k, phys |-> x]

Call(table, base_offset, base_step, lin_start, lin_end, phys_start) ==
  [table |-> table, base_offset |-> base_offset, base_step |-> base_step,
   lin_start |-> lin_start, lin_end |-> lin_end, phys_start |-> phys_start,
   i |-> None, entry_end |-> None]

Top       == stack[Len(stack)]
Pop       == SubSeq(stack, 1, Len(stack) - 1)
Dies(why) == died' = why /\ UNCHANGED <<phys_mem_end, tables, stack, stage>>

PInit ==
  /\ phys_mem_end \in MemoryEnds
  /\ tables = <<>> /\ stack = <<>> /\ stage = "start" /\ died = "no"

-----------------------------------------------------------------------------
(* init_paging.                                                            *)

MapHigh ==
  /\ stage = "start" /\ died = "no"
  /\ tables' = <<EmptyTable>>
  /\ stack' = <<Call(1, 0, PML4_STEP, HIGH_BASE, HIGH_BASE + phys_mem_end, 0)>>
  /\ stage' = "high"
  /\ UNCHANGED <<phys_mem_end, died>>

MapKernel ==
  /\ stage = "high" /\ stack = <<>>
  /\ stack' = <<Call(1, 0, PML4_STEP, KERNEL_BASE, KERNEL_BASE + KERNEL_SIZE, 0)>>
  /\ stage' = "kernel"
  /\ UNCHANGED <<phys_mem_end, tables, died>>

store_pml4 ==
  /\ stage = "kernel" /\ stack = <<>>
  /\ stage' = "loaded"
  /\ UNCHANGED <<phys_mem_end, tables, stack, died>>

-----------------------------------------------------------------------------
(* map_pages.                                                              *)

Larger(x, y) == IF x >= y THEN x ELSE y
Least(x, y)  == IF x <= y THEN x ELSE y

\* Mutant: the physical address is not moved along.
ClippedUnshifted(f) ==
  [f EXCEPT
     !.lin_start = Larger(f.lin_start, f.base_offset),
     !.lin_end   = Least(f.lin_end, f.base_offset + ENTRIES_PER_TABLE * f.base_step)]

(* The part of the wanted range that lies in the table.                    *)
Clipped(f) ==
  [f EXCEPT
     !.lin_start  = Larger(f.lin_start, f.base_offset),
     !.phys_start = @ + Larger(f.base_offset - f.lin_start, 0),
     !.lin_end    = Least(f.lin_end, f.base_offset + ENTRIES_PER_TABLE * f.base_step)]

EntryEnd(c) == (c.lin_end - c.base_offset + c.base_step - 1) \div c.base_step

(* The call up to its loop.  base_step is 0 below the parts of a page.     *)
Enter ==
  LET c     == Clipped(Top)
      start == (c.lin_start - c.base_offset) \div c.base_step
  IN  /\ died = "no" /\ stack # <<>> /\ Top.i = None
      /\ IF Top.lin_start >= Top.lin_end THEN Dies("assert")
         ELSE IF Top.base_step = 0 THEN Dies("divide")
         ELSE IF Top.base_offset % Top.base_step # 0 THEN Dies("assert")
         ELSE IF c.lin_start >= c.lin_end
         THEN stack' = Pop /\ UNCHANGED <<phys_mem_end, tables, stage, died>>
         ELSE IF ~(start < EntryEnd(c) /\ EntryEnd(c) <= ENTRIES_PER_TABLE)
         THEN Dies("assert")
         ELSE /\ stack' = Append(Pop, [c EXCEPT !.i = start,
                                                !.entry_end = EntryEnd(c)])
              /\ UNCHANGED <<phys_mem_end, tables, stage, died>>

InLoop == died = "no" /\ stack # <<>> /\ Top.i # None /\ Top.i < Top.entry_end
CurStart(f) == f.base_offset + f.i * f.base_step
CurEnd(f)   == CurStart(f) + f.base_step

(* Memory of the size of the entry can be mapped by the entry itself.      *)
Whole(f) ==
  /\ f.base_step \in {PAGE, LARGE}
  /\ f.lin_start <= CurStart(f) /\ CurEnd(f) <= f.lin_end

(* The entry and the wanted range meet (line 52).                          *)
Meets(f) == f.lin_start < CurEnd(f) /\ CurStart(f) < f.lin_end

NextEntry == Append(Pop, [Top EXCEPT !.i = @ + 1])

MapEntry ==
  LET cur_phys_start == Top.phys_start + CurStart(Top) - Top.lin_start
  IN  /\ InLoop /\ Whole(Top)
      /\ IF \/ tables[Top.table][Top.i] # Absent
            \/ cur_phys_start % Top.base_step # 0
         THEN Dies("assert")
         ELSE /\ tables' = [tables EXCEPT ![Top.table][Top.i] =
                   Pte(IF Top.base_step = PAGE THEN "page" ELSE "large",
                       cur_phys_start)]
              /\ stack' = NextEntry
              /\ UNCHANGED <<phys_mem_end, stage, died>>

NeedsTable(pte) == pte = Absent

(* Otherwise the entry leads to a table of smaller steps, a new one if it  *)
(* is not present, and the call for it follows.  An entry that maps memory *)
(* would be taken for a table.                                             *)
Descend ==
  LET pte  == tables[Top.table][Top.i]
      new  == NeedsTable(pte)
      next == IF new THEN Len(tables) + 1 ELSE pte.phys
  IN  /\ InLoop /\ ~Whole(Top)
      /\ IF ~Meets(Top) THEN Dies("assert")
         ELSE IF pte.kind \in {"page", "large"} THEN Dies("overlap")
         ELSE /\ tables' = IF new
                   THEN Append([tables EXCEPT ![Top.table][Top.i] =
                                  Pte("table", next)], EmptyTable)
                   ELSE tables
              /\ stack' = Append(NextEntry,
                   Call(next, CurStart(Top), Top.base_step \div ENTRIES_PER_TABLE,
                        Top.lin_start, Top.lin_end, Top.phys_start))
              /\ UNCHANGED <<phys_mem_end, stage, died>>

Return ==
  /\ died = "no" /\ stack # <<>> /\ Top.i # None /\ Top.i = Top.entry_end
  /\ stack' = Pop
  /\ UNCHANGED <<phys_mem_end, tables, stage, died>>

map_pages == Enter \/ MapEntry \/ Descend \/ Return

return_paging ==
  /\ stage = "loaded" /\ stage' = "returned"
  /\ UNCHANGED <<phys_mem_end, tables, stack, died>>

init_paging == MapHigh \/ MapKernel \/ store_pml4 \/ map_pages

-----------------------------------------------------------------------------
(* The processor's walk from pml4 for the linear address v: the physical   *)
(* address, or None.                                                       *)
Steps == <<PML4_STEP, LARGE * ENTRIES_PER_TABLE, LARGE, PAGE>>
Translate(v) ==
  LET At(table, lev) == tables[table][(v \div Steps[lev]) % ENTRIES_PER_TABLE]
      walk[lev \in 1..4] ==
        IF lev = 1 THEN At(1, 1)
        ELSE IF walk[lev - 1].kind = "table" THEN At(walk[lev - 1].phys, lev)
        ELSE walk[lev - 1]
  IN  CASE walk[4].kind = "page"  -> walk[4].phys + (v % PAGE)
        [] walk[4].kind = "large" -> walk[4].phys + (v % LARGE)
        [] OTHER                  -> None

(* What memory.h promises: va() and pa() move by HIGH_BASE, kernel_virt()  *)
(* and kernel_phys() by KERNEL_BASE.                                       *)
Meant(v) ==
  IF v \in HIGH_BASE..(HIGH_BASE + phys_mem_end - 1) THEN v - HIGH_BASE
  ELSE IF v \in KERNEL_BASE..(KERNEL_BASE + KERNEL_SIZE - 1) THEN v - KERNEL_BASE
  ELSE None

Aligned == phys_mem_end % PAGE = 0

(* The table that is loaded maps every address as it is meant and no other *)
(* one, wherever memory ends.                                              *)
Mapped ==
  stage = "loaded" =>
    \A v \in 0..(ENTRIES_PER_TABLE * PML4_STEP - 1) : Translate(v) = Meant(v)
=============================================================================
