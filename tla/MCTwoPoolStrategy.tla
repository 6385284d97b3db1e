------------------------- MODULE MCTwoPoolStrategy -------------------------
(* TwoPoolStrategy for TLC: the coins at par, the LP tokens grown or fallen *)
(* in value, one coin off its peg; small withdrawals fetch more per token.  *)
EXTENDS TwoPoolStrategy

CONSTANTS usdc, usdt
MCPoolCoins == <<usdc, usdt>>
MCPurse == [c \in Coins |-> IF c = usdt THEN 3 ELSE 0]
MCInitially == [slippage |-> 9, threshold |-> 0]

MCPays(s) == [k \in 0 .. MaxPTokens |-> IF k = 0 THEN 0 ELSE s[k]]
MCState(pays, virtual, price) ==
    [pays |-> [c \in Coins |-> MCPays(IF c = usdc THEN pays[1] ELSE pays[2])],
     virtual |-> virtual,
     price |-> [c \in Coins |-> IF c = usdc THEN price[1] ELSE price[2]]]
MCPar == MCState(<<<<1, 2, 3, 4, 4>>, <<1, 2, 3, 4, 4>>>>, 4, <<2, 2>>)
MCCurveStates ==
    {MCPar, MCState(<<<<0, 1, 2, 3, 3>>, <<0, 1, 2, 3, 3>>>>, 4, <<2, 2>>),
     MCState(<<<<2, 4, 6, 7, 8>>, <<1, 3, 5, 6, 7>>>>, 7, <<2, 3>>),
     MCState(<<<<1, 2, 3, 4, 4>>, <<2, 4, 5, 6, 6>>>>, 5, <<3, 2>>),
     MCState(<<<<3, 6, 8, 9, 11>>, <<1, 2, 3, 3, 4>>>>, 6, <<3, 2>>)}
=============================================================================
