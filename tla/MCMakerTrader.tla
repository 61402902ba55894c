--------------------------- MODULE MCMakerTrader ---------------------------
(* One pair whose strategy keeps its entry price and one whose does not. *)
EXTENDS MakerTrader, TLC

CONSTANTS btc, sol

OneSlot == {btc}
TwoSlots == {btc, sol}
MCTracking == {btc}
MCPrices == {8, 10}
OneBudget == btc :> 80
TwoBudgets == (btc :> 80) @@ (sol :> 0)
OneQuantity == btc :> 9
TwoQuantities == (btc :> 9) @@ (sol :> 9)
OneCap == btc :> 80
TwoCaps == (btc :> 80) @@ (sol :> 80)
OneWeight == btc :> 1
TwoWeights == (btc :> 1) @@ (sol :> 2)
=============================================================================
