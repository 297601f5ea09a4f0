---------------------------- MODULE MCSavedFile -----------------------------
(***************************************************************************)
(* Small instances of SavedFile for TLC.                                   *)
(***************************************************************************)
EXTENDS SavedFile, TLC

CONSTANTS p1, p2, p3, p4

Swaps == Permutations(Procs)
=============================================================================
