-------------------------------- MODULE Memory --------------------------------
(***************************************************************************)
(* memory.c: init_memory turns what the boot loader tells about the memory *)
(* into the operations of buddy_init, and alloc_big_phys_aligned,          *)
(* free_big_phys_aligned, valloc and vfree are the calls of Buddy, each    *)
(* under its locks and so one step.                                        *)
(***************************************************************************)
EXTENDS Buddy

CONSTANTS
  BootInfos,     \* what the boot loader may leave: see boot below
  LOW,           \* 1 MB
  MAX_INIT_OPS   \* 64

(* boot is a record of                                                     *)
(*   has_map          bit 6 of mboot_info->flags                           *)
(*   info_end         the end of struct multiboot_info in memory           *)
(*   mmap_end         the end of the memory map in memory                  *)
(*   mmap             its segments: start, end, and whether available      *)
(*   kernel           text_phys_begin and bss_phys_end, as start and end   *)
BootInfo ==
  [has_map : BOOLEAN, info_end : Nat, mmap_end : Nat,
   mmap    : Seq([start : Nat, end : Nat, available : BOOLEAN]),
   kernel  : [start : Nat, end : Nat]]

ASSUME MemoryConstants ==
  /\ LOW \in Nat \ {0} /\ MAX_INIT_OPS \in Nat \ {0}
  /\ BootInfos \subseteq BootInfo
  /\ \A b \in BootInfos : b.kernel.start < b.kernel.end

VARIABLES boot, phys_mem_end, up

memVars == <<vars, boot, phys_mem_end, up>>

-----------------------------------------------------------------------------
Operation(kind, segment) ==
  [operation |-> kind, start |-> segment.start, end |-> segment.end]

(* The loop over the memory map.                                           *)
Available(b) ==
  LET found[k \in 0..Len(b.mmap)] ==
        IF k = 0 THEN <<>>
        ELSE IF b.mmap[k].available
        THEN Append(found[k-1], Operation("available", b.mmap[k]))
        ELSE found[k-1]
  IN  found[Len(b.mmap)]

\* Mutant: the reserved segments come first, so that the map overrides them.
init_opsReservedFirst(b) ==
  <<Operation("reserve", b.kernel),
    Operation("reserve", [start |-> 0, end |-> LOW])>>
  \o Available(b)

(* The array ops[]: the available segments in the order of the map, then   *)
(* the kernel and the low memory, with all that the boot loader left.      *)
init_ops(b) ==
  Available(b) \o
     <<Operation("reserve", b.kernel),
       Operation("reserve", [start |-> 0, end |-> LOW])>>

(* init_memory dies: no map, an array too small, or boot data that lies    *)
(* where the allocator gives memory away.                                  *)
Refused(b) ==
  \/ ~b.has_map
  \/ Len(init_ops(b)) > MAX_INIT_OPS
  \/ b.info_end > LOW \/ b.mmap_end > LOW

(* The end of the last segment, whether available or not.                  *)
MapEnd(b) == LET ends == {0} \cup {b.mmap[k].end : k \in DOMAIN b.mmap}
             IN  CHOOSE e \in ends : \A f \in ends : f <= e

init_memory ==
  /\ boot \in BootInfos
  /\ up = ~Refused(boot)
  /\ phys_mem_end = MapEnd(boot)
  /\ ops = IF up THEN init_ops(boot) ELSE <<>>
  /\ Init

MemNext ==
  \/ up /\ Next /\ UNCHANGED <<boot, phys_mem_end, up>>
  \/ ~up /\ UNCHANGED memVars

MemSpec == init_memory /\ [][MemNext]_memVars

-----------------------------------------------------------------------------
(* The pages the boot loader leaves to the kernel: those inside one        *)
(* available segment, above the low memory, and clear of the kernel.       *)
LeftByBoot(p) ==
  LET from == Address(LAST_LEV, p)
      to   == from + PAGE
  IN  /\ \E k \in DOMAIN boot.mmap :
           boot.mmap[k].available /\ boot.mmap[k].start <= from /\ to <= boot.mmap[k].end
      /\ from >= LOW
      /\ to <= boot.kernel.start \/ boot.kernel.end <= from

(* The allocator holds exactly this memory, in all its life: none of the   *)
(* map is forgotten, neither the kernel nor what the boot loader left is   *)
(* ever given away, and all of it lies below phys_mem_end, where           *)
(* init_paging maps it and va() reaches it.                                *)
BootMap ==
  up => \A p \in Pages :
    LET held == \E b \in FreeBlocks \cup Owned : p \in PagesOf(b[1], b[2])
    IN  /\ held <=> LeftByBoot(p)
        /\ held => Address(LAST_LEV, p) + PAGE <= phys_mem_end
=============================================================================
