---------------------------- MODULE MCKrakenRest ----------------------------
(* The trading loop and the reconciler share a client, the balance panel   *)
(* has its own.                                                            *)
EXTENDS KrakenRest, TLC

MCClients == {"bot", "panel"}
MCRenewed == {"panel"}
MCCallers == {"loop", "reconciler", "panel"}
MCClientOf == ("loop" :> "bot") @@ ("reconciler" :> "bot") @@ ("panel" :> "panel")
MCPlan ==
  ("loop" :> <<"AddOrder">>) @@
  ("reconciler" :> <<"CancelOrder">>) @@
  ("panel" :> <<"Balance">>)
=============================================================================
