------------------------------- MODULE MCPitr -------------------------------
(***************************************************************************)
(* A small instance of Pitr for TLC.                                       *)
(***************************************************************************)
EXTENDS Pitr

CONSTANTS a, f, k1, k2, c1, c2, t1, t2

OneText == {<<a>>}
=============================================================================
