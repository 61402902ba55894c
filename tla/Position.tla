------------------------------ MODULE Position ------------------------------
(***************************************************************************)
(* What a trade log promises, one position per slot: a position is opened  *)
(* only when none is held and closed whole, so no buy doubles it and no    *)
(* sell disposes of anything else (executor.py: "refuses the ones that     *)
(* should not be placed").  held is the coin a sell would dispose of,      *)
(* entry the price of the buy that opened it.                              *)
(***************************************************************************)
EXTENDS Integers

CONSTANTS Slots, Prices

VARIABLES held, entry

Init ==
  /\ held = [s \in Slots |-> 0]
  /\ entry = [s \in Slots |-> 0]

Open(s) ==
  /\ held[s] = 0
  /\ \E p \in Prices : entry' = [entry EXCEPT ![s] = p]
  /\ held'[s] \in Nat \ {0}
  /\ held' = [held EXCEPT ![s] = held'[s]]

Close(s) ==
  /\ held[s] > 0
  /\ held' = [held EXCEPT ![s] = 0]
  /\ entry' = [entry EXCEPT ![s] = 0]

Next == \E s \in Slots : Open(s) \/ Close(s)

Spec == Init /\ [][Next]_<<held, entry>>
=============================================================================
