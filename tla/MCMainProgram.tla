--------------------------- MODULE MCMainProgram ---------------------------
(* Small instances of MainProgram for TLC.                                 *)
EXTENDS MainProgram, TLC

CONSTANTS m, i, a, b, c

\* See Threading and the README, "Windows".
NoMutexWindows == {"sleep_unlock", "exit_unlock", "insert2"}
ButPrinting == Windows \ {"printing"}
ButExit     == Windows \ {"exit_unlock"}

\* The timer fires in the threads' own code only, never in the kernel.
InKernel == (Labels \ {"user"}) \cup {"printing"}
=============================================================================
