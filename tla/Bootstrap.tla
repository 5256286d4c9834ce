------------------------------ MODULE Bootstrap ------------------------------
(***************************************************************************)
(* bootstrap.S: from the boot loader to the call of main() in long mode.   *)
(* Addresses in the page tables are counted in entries from bss_phys_begin,*)
(* memory in large pages.                                                  *)
(***************************************************************************)
EXTENDS VideoMem, Integers

CONSTANTS
  ENTRIES,    \* 512 entries of a table
  Machines,   \* what the code may be started on
  Messages    \* the texts, by their labels in bootstrap.S

(* The messages that are used.  None goes back to the start of its line.   *)
Labels == {"not_multiboot", "checking_cpuid", "cpuid_not_available", "checking_x86_64",
           "no_extended_cpuid", "x86_64_not_available", "setup_mapping",
           "enter_long_mode", "enable_paging", "enable_64bit_gdt"}

ASSUME BootstrapConstants ==
  /\ ENTRIES \in Nat /\ ENTRIES >= 6 /\ ENTRIES % 2 = 0
  /\ Messages \in [Labels -> Seq(STRING \ {"\r"})]

VARIABLES
  where,       \* the next part of the code; "main" when it is called
  machine,     \* [multiboot, cpuid, extended, long]
  edx, eax, ecx,
  boot_tables, \* the six pages at bss_phys_begin
  mode         \* what is switched on in the processor

bootVars == <<vga, printed, where, machine, edx, eax, ecx, boot_tables, mode>>
cpuVars  == <<machine, edx, eax, ecx, boot_tables, mode>>

Zero      == [kind |-> "zero", to |-> 0]
Table(k)  == [kind |-> "table", to |-> k]
Large(k)  == [kind |-> "large", to |-> k]

BInit ==
  /\ vga = [cells |-> [r \in 0..(ROWS - 1) |-> [k \in 0..(COLS - 1) |-> "BIOS"]],
            row |-> 0, col |-> 0]
  /\ printed = <<>>
  /\ where = "start32"
  /\ machine \in Machines
  /\ edx = 0 /\ eax = 0 /\ ecx = 0
  /\ boot_tables = [k \in 0..(6 * ENTRIES - 1) |-> Zero]
  /\ mode = {}

Puts(l, label, m) ==
  where = l /\ where' = m /\ videomem_puts(Messages[label])

start32 ==
  /\ where = "start32" /\ videomem_clrscr
  /\ where' = IF machine.multiboot THEN "check_long_mode" ELSE "not_multiboot"
  /\ UNCHANGED cpuVars

(* fail prints its message and never comes back.                           *)
fail ==
  /\ \E l \in {"not_multiboot", "cpuid_not_available", "no_extended_cpuid",
              "x86_64_not_available"} : Puts(l, l, "halt")
  /\ UNCHANGED cpuVars

check_long_mode ==
  /\ \/ Puts("check_long_mode", "checking_cpuid",
             IF machine.cpuid THEN "check_x86_64" ELSE "cpuid_not_available")
     \/ Puts("check_x86_64", "checking_x86_64",
             IF ~machine.extended THEN "no_extended_cpuid"
             ELSE IF ~machine.long THEN "x86_64_not_available"
             ELSE "setup_identity_mapping")
  /\ UNCHANGED cpuVars

\* Mutant: the two entries of the kernel's gigabytes are exchanged.
UpperTablesSwapped ==
  [k \in {0, ENTRIES \div 2, ENTRIES - 1, 2 * ENTRIES - 2, 2 * ENTRIES - 1}
         \cup ENTRIES..(ENTRIES + 3) |->
     CASE k < ENTRIES                        -> Table(1)
       [] k \in {ENTRIES, 2 * ENTRIES - 1}     -> Table(2)
       [] k \in {ENTRIES + 1, 2 * ENTRIES - 2} -> Table(3)
       [] k = ENTRIES + 2                    -> Table(4)
       [] OTHER                              -> Table(5)]

(* pml4 leads to one table of gigabytes from three places; that one leads  *)
(* to four tables of large pages, the first two of them again at its end.  *)
UpperTables ==
  [k \in {0, ENTRIES \div 2, ENTRIES - 1, 2 * ENTRIES - 2, 2 * ENTRIES - 1}
         \cup ENTRIES..(ENTRIES + 3) |->
     CASE k < ENTRIES                        -> Table(1)
       [] k \in {ENTRIES, 2 * ENTRIES - 2}     -> Table(2)
       [] k \in {ENTRIES + 1, 2 * ENTRIES - 1} -> Table(3)
       [] k = ENTRIES + 2                    -> Table(4)
       [] OTHER                              -> Table(5)]

setup_identity_mapping ==
  /\ Puts("setup_identity_mapping", "setup_mapping", "fill")
  /\ boot_tables' = [k \in DOMAIN boot_tables |->
       IF k \in DOMAIN UpperTables THEN UpperTables[k] ELSE boot_tables[k]]
  /\ edx' = 2 * ENTRIES /\ eax' = 0 /\ ecx' = 4 * ENTRIES
  /\ UNCHANGED <<machine, mode>>

(* One turn of the loop over the four tables of large pages.               *)
Fill ==
  /\ where = "fill"
  /\ boot_tables' = [boot_tables EXCEPT ![edx] = Large(eax)]
  /\ eax' = eax + 1 /\ edx' = edx + 1 /\ ecx' = ecx - 1
  /\ where' = IF ecx' = 0 THEN "load" ELSE "fill"
  /\ UNCHANGED <<vga, printed, machine, mode>>

LoadTables ==
  /\ where = "load"
  /\ mode' = mode \cup {"pae", "cr3"}
  /\ where' = "enter"
  /\ UNCHANGED <<vga, printed, machine, edx, eax, ecx, boot_tables>>

enter_long_mode ==
  /\ \/ Puts("enter", "enter_long_mode", "paging") /\ mode' = mode \cup {"lme"}
     \/ Puts("paging", "enable_paging", "gdt") /\ mode' = mode \cup {"paging"}
     \/ Puts("gdt", "enable_64bit_gdt", "start64") /\ mode' = mode \cup {"long"}
  /\ UNCHANGED <<machine, edx, eax, ecx, boot_tables>>

(* The segments of the kernel, its stack, and the call of main().          *)
start64 ==
  /\ where = "start64"
  /\ mode' = mode \cup {"stack"} /\ where' = "main"
  /\ UNCHANGED <<vga, printed, machine, edx, eax, ecx, boot_tables>>

BNext ==
  \/ start32 \/ fail \/ check_long_mode \/ setup_identity_mapping \/ Fill
  \/ LoadTables \/ enter_long_mode \/ start64

-----------------------------------------------------------------------------
(* The processor's walk to the large page for page v of linear memory.     *)
PageAt(v) ==
  LET gigabytes == boot_tables[v \div (ENTRIES * ENTRIES)]
      pages     == boot_tables[gigabytes.to * ENTRIES + ((v \div ENTRIES) % ENTRIES)]
      page      == boot_tables[pages.to * ENTRIES + (v % ENTRIES)]
  IN  IF gigabytes.kind = "table" /\ pages.kind = "table" /\ page.kind = "large"
      THEN page.to ELSE -1

(* From the clearing to the call of main() the screen is as VideoMem       *)
(* describes it (the kernel prints to its serial port only).               *)
BootScreen == where \notin {"start32", "main"} => Screen

(* From the instruction that enables paging on, the code finds itself at   *)
(* its old address, and the first gigabytes of memory lie where kernel.ld  *)
(* and memory.h expect them: everything that runs before init_paging       *)
(* relies on it, init_paging itself included.                              *)
BootTables ==
  "paging" \in mode /\ where # "main" =>
    /\ {"pae", "cr3", "lme"} \subseteq mode
    /\ \A p \in 0..(4 * ENTRIES - 1) :
         PageAt(p) = p /\ PageAt((ENTRIES \div 2) * ENTRIES * ENTRIES + p) = p
    /\ \A p \in 0..(2 * ENTRIES - 1) :
         PageAt(ENTRIES * ENTRIES * ENTRIES - 2 * ENTRIES + p) = p
=============================================================================
