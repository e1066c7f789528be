------------------------------ MODULE Lexicon ------------------------------
(***************************************************************************)
(* Words as sequences of letters, the dictionary of internal/dictionary    *)
(* and what can be built from a rack.  Other stands for every character    *)
(* that is no letter.                                                      *)
(***************************************************************************)
EXTENDS Integers, Sequences, FiniteSets

CONSTANTS
  Letters,
  Other,
  WordList,    \* the lines of the word list, trimmed and in upper case
  MinWordLen   \* 3 in the program: no shorter word is worth points

ASSUME LexiconAssumption ==
  /\ Other \notin Letters
  /\ WordList \subseteq Seq(Letters \cup {Other}) /\ IsFiniteSet(WordList)
  /\ MinWordLen \in Nat /\ MinWordLen > 2

LetterCount(s, l) == Cardinality({i \in DOMAIN s : s[i] = l})

\* Letter by letter, with what the letters before it have used up.
CanBuild(w, r) ==
  \A n \in DOMAIN w :
    w[n] \in Letters /\ LetterCount(SubSeq(w, 1, n), w[n]) <= LetterCount(r, w[n])

Dictionary ==
  {w \in WordList : Len(w) >= MinWordLen /\ \A n \in DOMAIN w : w[n] \in Letters}

FindWords(r) == {w \in Dictionary : CanBuild(w, r)}
=============================================================================
