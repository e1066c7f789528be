------------------------------ MODULE MCDaily ------------------------------
(***************************************************************************)
(* A day of one player who writes her address in two ways, with the same   *)
(* lower-case key.  The spellings are interchangeable, and so are rounds.  *)
(***************************************************************************)
EXTENDS Daily, TLC

CONSTANTS lower, upper, key, wallet, r1, r2

MCIds == {lower, upper}
MCKeys == {key}
MCWallets == {wallet}
MCKeyOf == [i \in MCIds |-> key]
MCWalletOf == [i \in MCIds |-> wallet]
MCRounds == {r1, r2}
MCHorizon == [fails \in BOOLEAN |-> IF fails THEN 1 ELSE 2]
Symmetry == Permutations(MCIds) \cup Permutations(MCRounds)
=============================================================================
