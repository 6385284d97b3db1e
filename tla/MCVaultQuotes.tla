--------------------------- MODULE MCVaultQuotes ---------------------------
(* Instances of VaultQuotes for TLC: prices around, below and above par,    *)
(* all precisions small.                                                    *)
EXTENDS VaultQuotes

(* A power that grows with its exponent, below the cap and above it.        *)
MCPower(e) == 1 + e \div 20

MCMarkets ==
    [priceUSDs : {3, 4, 5}, averageUSDs : {1, 4}, inOut : {6, 7, 30, 40},
     priceSPA : {1, 3}, priceColla : {3, 5}]
MCSettings ==
    [chiInit : {3, 7}, chi_beta : {0, 40}, chi_gamma : {0, 5, 10}, swapFee_p : {4},
     swapFee_theta : {30}, swapFee_a : {12}, feeIn : BOOLEAN, feeOut : BOOLEAN]
=============================================================================
