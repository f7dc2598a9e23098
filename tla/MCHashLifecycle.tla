--------------------------- MODULE MCHashLifecycle ---------------------------
(***************************************************************************)
(* Instantiates HashLifecycle for TLC: two contexts and five heap blocks,  *)
(* one for the device and two per context, so that every calloc can also   *)
(* return a block another context freed.                                   *)
(***************************************************************************)
EXTENDS HashLifecycle, TLC

CONSTANTS s1, s2, b1, b2, b3, b4, b5

MCSessions == {s1, s2}
MCBlocks == {b1, b2, b3, b4, b5}
MCSymmetry == Permutations(MCSessions) \cup Permutations(MCBlocks)
=============================================================================
