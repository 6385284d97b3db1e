--------------------------- MODULE MCTokenBridge ---------------------------
(* TokenBridge for TLC: one account starts with SPA on L1.                  *)
EXTENDS TokenBridge

CONSTANTS ann, bob
AnnsStake == [u \in Users |-> IF u = ann THEN 2 ELSE 0]
OneAtATime == {<<TRUE, TRUE>>, <<FALSE, TRUE>>, <<TRUE, FALSE>>}
FirstToAnn == {<<1, ann>>}
=============================================================================
