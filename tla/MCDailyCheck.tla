---------------------------- MODULE MCDailyCheck ----------------------------
(* A sell, a buy that covers it and one that does not. *)
EXTENDS DailyCheck

MCAmounts == {1, 2, -2}
=============================================================================
