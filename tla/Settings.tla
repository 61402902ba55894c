------------------------------ MODULE Settings ------------------------------
(***************************************************************************)
(* The configured pairs (cryptotrader/config.py, CurrencyConfig).  In      *)
(* production each pair has the one strategy its section names, so a slot  *)
(* is a pair with its strategy.                                            *)
(*                                                                         *)
(* Units: a price is in USD, a quantity in grains (see TradeLog), and an   *)
(* amount of money in USD times grains.                                    *)
(***************************************************************************)
EXTENDS TradeLog, Strategy

CONSTANTS
  Slots,       \* the configured pairs
  Tracking,    \* those whose strategy keeps its entry price (bollinger)
  Prices,      \* prices a tick or a candle can have
  Budget,      \* budget_usd of each slot, 0 for None
  Quantity,    \* quantity of each slot
  MaxOrder     \* max_order_usd of each slot

\* quantity = budget_usd / price when a budget is set
BuyQty(s, price) ==
  IF Budget[s] > 0 THEN Budget[s] \div price ELSE Quantity[s]

ASSUME SlotAssumption == Tracking \subseteq Slots

ASSUME PriceAssumption == Prices \subseteq Nat \ {0}

ASSUME ConfigAssumption ==
  /\ Budget \in [Slots -> Nat]
  /\ Quantity \in [Slots -> Nat]
  /\ MaxOrder \in [Slots -> Nat]

\* A buy is of at least 1e-8 of the base currency.
ASSUME SizeAssumption ==
  \A s \in Slots, p \in Prices : BuyQty(s, p) \in Nat /\ BuyQty(s, p) >= Lot
=============================================================================
