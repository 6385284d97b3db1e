-------------------------- MODULE MCBridgeScripts --------------------------
(***************************************************************************)
(* BridgeScripts and RollupScripts for TLC.  The two packages share        *)
(* nothing, so that a property of one holds in all interleavings with the  *)
(* other if it holds without it: a behaviour uses the scripts of one of    *)
(* them only.                                                              *)
(***************************************************************************)
EXTENDS BridgeScripts, RollupScripts, TLC

CONSTANTS ann, bob
KeyPairs == {<<ann, ann>>, <<bob, bob>>}
Symmetry == Permutations(Runs)

BothInit == Init /\ RollupInit
BothNext ==
    \/ RollupInit /\ Next /\ UNCHANGED rollupVars
    \/ Init /\ RollupNext /\ UNCHANGED vars
BothSpec == BothInit /\ [][BothNext]_<<vars, rollupVars>>
=============================================================================
