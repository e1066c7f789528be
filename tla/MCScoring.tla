----------------------------- MODULE MCScoring -----------------------------
(***************************************************************************)
(* Scoring on three letters: words of the list that are too short, that    *)
(* use a letter twice, that hold another character; spellings of the same  *)
(* word; racks with a letter once and twice.                               *)
(***************************************************************************)
EXTENDS Scoring

C == "C"
A == "A"
T == "T"

MCWordList == {<<A, T>>, <<C, A, T>>, <<T, A, T>>, <<T, A, C, T>>, <<A, C, T, "'">>}
MCCanon ==
  [i \in Inputs |->
     CASE i = " " -> <<>> [] i = "at" -> <<A, T>>
       [] i = "cat" -> <<C, A, T>> [] i = "CAT " -> <<C, A, T>>
       [] i = "tat" -> <<T, A, T>> [] i = "tact" -> <<T, A, C, T>>
       [] i = "tca" -> <<T, C, A>> [] i = "act'" -> <<A, C, T, "'">>]
MCRacks == {<<C, A, T>>, <<T, A, C, T>>, <<A, T, T, A>>}
=============================================================================
