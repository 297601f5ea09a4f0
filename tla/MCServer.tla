------------------------------ MODULE MCServer ------------------------------
(***************************************************************************)
(* Small instances of Server for TLC.                                      *)
(***************************************************************************)
EXTENDS Server

CONSTANTS a, f, k1, k2, c1, c2

OneText == {<<a>>}
NoTtl == {None}
=============================================================================
