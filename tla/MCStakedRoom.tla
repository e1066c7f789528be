---------------------------- MODULE MCStakedRoom ----------------------------
(***************************************************************************)
(* StakedRoom on a small instance: one wallet known under two spellings,   *)
(* another wallet, an id that is no wallet, two seats.  An entry window of *)
(* two seconds and a timer slack of one leave room for races that end      *)
(* before the window closes, within the slack and after the timer.  A fee  *)
(* of 999 wei and a rake of 5 % make the rake round.  The room may come to *)
(* an end, dropped, or lost with the process when the clock has run out.   *)
(***************************************************************************)
EXTENDS StakedRoom

CONSTANTS alice, Alice, bob, guest, walletA, walletB

MCIds == {alice, Alice, bob, guest}
MCAddrs == {walletA, walletB}
MCWallet == [id \in MCIds \ {guest} |-> IF id = bob THEN walletB ELSE walletA]
MCWords == {"CAT", "CART"}
MCCanon == [i \in MCWords |-> i]
MCPoints == [w \in MCWords |-> IF w = "CAT" THEN 1 ELSE 2]
MCRacks == {MCWords}
=============================================================================
