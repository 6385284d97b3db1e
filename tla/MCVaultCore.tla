---------------------------- MODULE MCVaultCore ----------------------------
(* Instances of VaultCore for TLC: small precisions, prices around par, and *)
(* the entries of collateralsInfo an owner may write.                       *)
EXTENDS VaultCore, TLC

CONSTANTS u1, u2, dai, usdc, curve, other    \* users, collaterals, strategies

MCPower(e) == 1 + e \div 20

Works(s, pct) == [added |-> TRUE, defaultStrategyAddr |-> s, allocationAllowed |-> TRUE,
                  allocatePercentage |-> pct, buyBackSet |-> TRUE, rebaseAllowed |-> TRUE]
Idle == [added |-> TRUE, defaultStrategyAddr |-> NoStrat, allocationAllowed |-> FALSE,
         allocatePercentage |-> 0, buyBackSet |-> FALSE, rebaseAllowed |-> FALSE]

(* curve works for usdc; for dai it is a strategy that does not support it. *)
ForUsdc == [s \in Strats |-> usdc]
ForBoth == [s \in Strats |-> IF s = curve THEN usdc ELSE dai]

OneStrategy == [c \in Colls |-> {Works(curve, 80)}]
OneLeavesIt == [c \in Colls |-> IF c = usdc THEN {Works(curve, 80), Idle}
                                 ELSE {Works(curve, 80)}]
EitherStrategy == [c \in Colls |-> {Works(curve, 50), Works(other, 80)}]

Market(usdsPrice, spaPrice, collaPrice) ==
    [priceUSDs |-> usdsPrice, averageUSDs |-> 3, inOut |-> 30,
     priceSPA |-> spaPrice, priceColla |-> [c \in Colls |-> collaPrice]]
(* Above par, or redeemed faster than minted: the fees move, no price does.  *)
FlowsMove == {Market(5, 1, 5), [Market(5, 1, 5) EXCEPT !.inOut = 7]}
AtPar == {Market(4, 2, 4)}

Setting(init, in, out) ==
    [chiInit |-> init, chi_beta |-> 10, chi_gamma |-> 5, swapFee_p |-> 4,
     swapFee_theta |-> 30, swapFee_a |-> 12, feeIn |-> in, feeOut |-> out]
Fees == {Setting(6, FALSE, FALSE), Setting(6, TRUE, TRUE)}
NoFees == {Setting(6, FALSE, FALSE)}
OnlyCollateral == {Setting(8, FALSE, FALSE)}
=============================================================================
