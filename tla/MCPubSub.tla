------------------------------ MODULE MCPubSub ------------------------------
(***************************************************************************)
(* Small instances of PubSub for TLC.                                      *)
(***************************************************************************)
EXTENDS PubSub

CONSTANTS c1, c2, s1, s2, p1, p2

Swaps == Permutations(Ids) \cup Permutations(Publishers) \cup Permutations(Channels)
=============================================================================
