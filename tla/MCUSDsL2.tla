------------------------------ MODULE MCUSDsL2 ------------------------------
(* Instances of USDsL2 for TLC.                                             *)
EXTENDS USDsL2, TLC
Symmetry == Permutations(Accounts)
=============================================================================
