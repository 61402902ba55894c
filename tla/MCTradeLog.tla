----------------------------- MODULE MCTradeLog -----------------------------
(* Every table of at most four rows over two days. *)
EXTENDS TradeLogCheck

MCPrices == {2, 5}
MCQuantities == {3, 5, 8}
=============================================================================
