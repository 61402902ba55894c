------------------------------ MODULE MCTrader ------------------------------
(* Two pairs: one budgeted with bollinger, one of a fixed quantity without *)
(* an entry price, whose cap a high price breaches.                        *)
EXTENDS Trader, TLC

CONSTANTS btc, sol

MCSlots == {btc, sol}
MCTracking == {btc}
MCPrices == {8, 10, 13}
MCBudget == (btc :> 60) @@ (sol :> 0)
MCQuantity == (btc :> 9) @@ (sol :> 5)
MCMaxOrder == (btc :> 60) @@ (sol :> 50)
=============================================================================
