----------------------------- MODULE MCFreeRoom -----------------------------
(***************************************************************************)
(* FreeRoom on a small instance: four clients and three seats, so that the *)
(* seats can run out under Create; two words of different worth, one of    *)
(* them sent with a blank; slices grow at lengths 0, 2 and 4, so that the  *)
(* appends of Create and of two joins can share an array, as they do in    *)
(* the code at length 3.                                                   *)
(***************************************************************************)
EXTENDS FreeRoom

CONSTANTS alice, bob, carol, dave

MCIds == {alice, bob, carol, dave}
MCWords == {"CAT", "CART"}
MCInputs == {"cat ", "CART"}
MCCanon == [i \in MCInputs |-> IF i = "cat " THEN "CAT" ELSE "CART"]
MCPoints == [w \in MCWords |-> IF w = "CAT" THEN 1 ELSE 2]
MCRacks == {MCWords}
MCCapacities == {0, 2, 4}
=============================================================================
