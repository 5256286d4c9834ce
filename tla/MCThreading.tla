---------------------------- MODULE MCThreading ----------------------------
(* Small instances of Threading for TLC.                                   *)
EXTENDS Threading

CONSTANTS m, i, a

\* Nothing is assumed about the timer.
Anywhere == {}
=============================================================================
