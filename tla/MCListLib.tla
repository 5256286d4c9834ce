----------------------------- MODULE MCListLib -----------------------------
(* Small instance of ListLib for TLC.                                      *)
EXTENDS ListLib
CONSTANTS x, y, z, g, h
=============================================================================
