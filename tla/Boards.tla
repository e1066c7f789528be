------------------------------- MODULE Boards -------------------------------
(***************************************************************************)
(* The boards of internal/rack and internal/grid as pure operators: how    *)
(* many vowels and words a board of a size must have, the racks that can   *)
(* be drawn, the trie of the dictionary and the search of a grid with it.  *)
(* Cells are numbered from 0, row by row, as in the code.                  *)
(***************************************************************************)
EXTENDS Lexicon, SequencesExt

CONSTANTS
  Vowels,
  LetterOrder   \* a shuffle is left out: letters stand in this order

ASSUME BoardsAssumption ==
  /\ Vowels \subseteq Letters
  /\ LetterOrder \in [Letters -> Nat]

Consonants == Letters \ Vowels

-----------------------------------------------------------------------------
(* internal/rack *)

RackMinWords(size) ==
  CASE size <= 3 -> 2 [] size = 4 -> 4 [] size = 5 -> 6
    [] size = 6 -> 10 [] size = 7 -> 14 [] OTHER -> 18

SmallerOf(m, n) == IF m < n THEN m ELSE n
LargerOf(m, n) == IF m > n THEN m ELSE n

\* Negative for a rack of one letter, so that it is drawn with two consonants.
RackVowels(size) == SmallerOf(LargerOf(size \div 3, 2), size - 2)

InOrder(s) == \A i \in 1..(Len(s) - 1) : LetterOrder[s[i]] <= LetterOrder[s[i + 1]]

DrawnFrom(bag, n) == {s \in [1..n -> bag] : InOrder(s)}

DrawRack(size) ==
  {v \o c : v \in DrawnFrom(Vowels, RackVowels(size)),
            c \in DrawnFrom(Consonants, size - RackVowels(size))}

-----------------------------------------------------------------------------
(* internal/grid: the trie.  Node 1 is the root and 0 is no node. *)

GridMinWords(cells) == CASE cells <= 16 -> 8 [] cells <= 25 -> 16 [] OTHER -> 24

GridVowels(cells) == SmallerOf(LargerOf(cells \div 3, 3), cells - 3)

NewNode == [children |-> [l \in Letters |-> 0], isWord |-> FALSE]

\* A character that is no letter ends the insertion (node 0) for good.
InsertLetter(t, l) ==
  IF t.cur = 0 \/ l \notin Letters THEN [t EXCEPT !.cur = 0]
  ELSE IF t.nodes[t.cur].children[l] # 0
    THEN [t EXCEPT !.cur = t.nodes[t.cur].children[l]]
    ELSE LET new == Len(t.nodes) + 1 IN
         [nodes |-> Append([t.nodes EXCEPT ![t.cur].children[l] = new], NewNode),
          cur |-> new]

Insert(w, nodes) ==
  LET t == FoldLeft(InsertLetter, [nodes |-> nodes, cur |-> 1], w) IN
  IF t.cur = 0 THEN t.nodes ELSE [t.nodes EXCEPT ![t.cur].isWord = TRUE]

Trie == FoldSet(Insert, <<NewNode>>, Dictionary)

-----------------------------------------------------------------------------
(* internal/grid: the search *)

\* Mutant: the mask of the used cells is an int32.
MaskBits32 == 32
MaskBits == 64

\* 1 << cell, as the set of bits that are one: none beyond the width of the mask.
Bit(cell) == IF cell < MaskBits THEN {cell} ELSE {}

Neighbours(cell, w) ==
  {c \in 0..(w * w - 1) \ {cell} : /\ (c \div w) - (cell \div w) \in -1..1
                                   /\ (c % w) - (cell % w) \in -1..1}

\* What a search from a cell finds with the letters traced so far (buf).
Solve(letters, w) ==
  LET dfs[d \in [cell : 0..(w * w - 1), node : 1..Len(Trie), used : SUBSET Nat,
                 buf : Seq(Letters)]] ==
        LET l == letters[d.cell + 1]
            next == Trie[d.node].children[l]
            word == Append(d.buf, l) IN
        IF Bit(d.cell) \cap d.used # {} \/ next = 0 THEN {}
        ELSE (IF Trie[next].isWord /\ Len(word) >= MinWordLen THEN {word} ELSE {})
             \cup UNION {dfs[[cell |-> c, node |-> next, used |-> d.used \cup Bit(d.cell),
                              buf |-> word]] : c \in Neighbours(d.cell, w)}
  IN UNION {dfs[[cell |-> start, node |-> 1, used |-> {}, buf |-> <<>>]] :
              start \in 0..(w * w - 1)}
=============================================================================
