--------------------------- MODULE MCSperaxToken ---------------------------
(* Instances of SperaxToken for TLC.                                        *)
EXTENDS SperaxToken, TLC
Symmetry == Permutations(Accounts \ {Owner})
=============================================================================
