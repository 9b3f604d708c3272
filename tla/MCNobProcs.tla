----------------------------- MODULE MCNobProcs -----------------------------
(* NobProcs for TLC.  Three children are enough for a list of two to be full with one to   *)
(* come, and for a chain of three; each may quit, read to the end, or write for ever.       *)
EXTENDS NobProcs
=============================================================================
