-------------------------- MODULE MCOracleStrategy --------------------------
(***************************************************************************)
(* Oracle and TwoPoolStrategy for TLC.  They share nothing, for the prices *)
(* the strategy reads are not what the rings hold, so that a property of   *)
(* one holds in all interleavings with the other if it holds without it: a *)
(* behaviour has steps of one of them only.  The strategy starts at par,   *)
(* from where CurveMoves leads to every other state of the pool.           *)
(***************************************************************************)
EXTENDS Oracle, MCTwoPoolStrategy

AtPar == StrategyInit /\ curve = MCPar
BothInit == Init /\ AtPar
BothNext ==
    \/ AtPar /\ Next /\ UNCHANGED strategyVars
    \/ Init /\ StrategyNext /\ UNCHANGED vars
BothSpec == BothInit /\ [][BothNext]_<<vars, strategyVars>>
=============================================================================
