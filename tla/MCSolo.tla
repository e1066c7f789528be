------------------------------- MODULE MCSolo -------------------------------
(***************************************************************************)
(* Solo on four letters, every word of three that starts with a consonant  *)
(* and a few longer ones.  Racks of 6 letters and fewer often clear their  *)
(* floor and racks of 8 seldom do.  An int has 7 bits: the queries hold    *)
(* numbers that fit and numbers that wrap around into the limits.  In the  *)
(* first 6x6 grid the only D stands beyond the 32nd cell.                   *)
(***************************************************************************)
EXTENDS Solo

A == "A"
E == "E"
C == "C"
D == "D"

MCWordList ==
  {<<c, x, y>> : c \in {C, D}, x \in Letters, y \in Letters}
  \cup {<<A, D>>, <<D, A, D, E>>, <<C, A, D, E, D>>, <<C, A, C, A, Other>>}
MCLetterOrder == [l \in Letters |-> CASE l = A -> 1 [] l = C -> 2 [] l = D -> 3 [] l = E -> 4]

Digits == {0, 3, 5, 9}
MCQueries ==
  {<<>>, <<Other>>, <<5, Other>>, <<Other, 5>>}
  \cup [1..1 -> 0..9] \cup [1..2 -> Digits] \cup [1..3 -> Digits]
MCDefaultSize == [kind \in Kinds |-> IF kind = "rack" THEN 6 ELSE 9]

\* The vowels stand in every third cell, or all in the first rows.
MCGrids ==
  [w \in 4..6 |->
     LET n == GridVowels(w * w) IN
     {[i \in 1..(w * w) |-> IF i % 3 = 2 /\ i <= 3 * n THEN (IF i % 2 = 0 THEN A ELSE E)
                            ELSE IF i = w * w THEN D ELSE C],
      [i \in 1..(w * w) |-> IF i <= n THEN (IF i % 2 = 0 THEN A ELSE E)
                            ELSE IF i % 3 = 0 THEN D ELSE C],
      [i \in 1..(w * w) |-> IF i <= n THEN E ELSE C]}]
=============================================================================
