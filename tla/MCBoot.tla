-------------------------------- MODULE MCBoot --------------------------------
EXTENDS Boot

CONSTANTS main_, idle_, th1, th2

\* All machines that the checks of bootstrap.S tell apart.
AllMachines == [{"multiboot", "cpuid", "extended", "long"} -> BOOLEAN]

\* Messages that fill lines, end with one and wrap around the screen.
Texts == [
  not_multiboot       |-> <<"N", "\n">>,
  cpuid_not_available |-> <<"C", "\n">>,
  no_extended_cpuid   |-> <<"E", "\n">>,
  x86_64_not_available |-> <<"X", "\n">>,
  checking_cpuid      |-> <<"a", "b", "\n">>,
  checking_x86_64     |-> <<"c", "d", "e", "f", "\n">>,
  setup_mapping       |-> <<"g", "h", "i", "j", "k", "\n">>,
  enter_long_mode     |-> <<"l", "m", "n", "o", "p", "\n">>,
  enable_paging       |-> <<"q", "\n">>,
  enable_64bit_gdt    |-> <<"r", "s", "t">>]

FourThreads == {main_, idle_, th1, th2}
FewVectors  == 0..47

\* Stubs in all quarters of a word of four digits.
Stubs == [v \in FewVectors |-> 1 + v + 29 * v * v]

\* Three entries to a table and pages of three units: the steps of paging go
\* 81, 27, 9, 3, 1, 0 (512 GB, 1 GB, 2 MB, 4 KB, 8, 0).  Memory ends within
\* the first large pages, and around the first and second table of each size.
Ends       == 1..12 \cup 26..30 \cup {54, 55} \cup 80..84 \cup {90, 91, 93}
High       == PML4_STEP
KernelSize == 2 * LARGE * ENTRIES_PER_TABLE
KernelAt   == ENTRIES_PER_TABLE * PML4_STEP - KernelSize

PitAndKeyboard == {0, 1}
=============================================================================
