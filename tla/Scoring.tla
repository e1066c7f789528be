------------------------------ MODULE Scoring ------------------------------
(***************************************************************************)
(* game.Score as the loop it is, one submitted word per step, on the words *)
(* and answers of Lexicon, and the word-by-word scoring of a race          *)
(* (Room.Submit) beside it.  Canon is what ToUpper(TrimSpace(.)) makes of  *)
(* a raw spelling; a blank one becomes the empty word.                     *)
(***************************************************************************)
EXTENDS Lexicon, Functions

CONSTANTS
  Inputs,      \* raw spellings a client submits
  Canon,
  Racks,
  MaxInputs    \* bound on the words of one submission

ASSUME ScoringAssumption ==
  /\ Canon \in [Inputs -> Seq(Letters \cup {Other})]
  /\ Racks \subseteq Seq(Letters)
  /\ MaxInputs \in Nat

VARIABLES
  rack, words,
  next,        \* index of the word the loop looks at
  seen,
  accepted, rejected, total,
  foundInRace, scoreInRace   \* the same words sent one by one in a race

scoreVars == <<rack, words, next, seen, accepted, rejected, total>>
raceVars == <<foundInRace, scoreInRace>>
vars == <<scoreVars, raceVars>>

Reasons == {"duplicate", "too_short", "not_in_rack", "not_a_word"}

\* Mutant: the linear part of the curve starts a letter late.
WordPointsFlat(n) ==
  CASE n < 3 -> 0 [] n = 3 -> 1 [] n = 4 -> 2 [] n = 5 -> 4 [] n = 6 -> 6
    [] OTHER -> 10 + (n - 8) * 4

WordPoints(n) ==
  CASE n < 3 -> 0 [] n = 3 -> 1 [] n = 4 -> 2 [] n = 5 -> 4 [] n = 6 -> 6
    [] OTHER -> 10 + (n - 7) * 4

-----------------------------------------------------------------------------
(* The scorer's own count of letters, beside that of the answer list (CanBuild) *)

\* Mutant: every letter is compared with the rack for itself.
FitsRackLetterwise(w, r) == \A n \in DOMAIN w : LetterCount(r, w[n]) > 0

FitsRack(w, r) ==
  \A n \in DOMAIN w :
    w[n] \in Letters /\ LetterCount(SubSeq(w, 1, n), w[n]) <= LetterCount(r, w[n])

-----------------------------------------------------------------------------
(* The loop *)

Init ==
  /\ rack \in Racks
  /\ words \in UNION {[1..n -> Inputs] : n \in 0..MaxInputs}
  /\ next = 1
  /\ seen = {}
  /\ accepted = <<>> /\ rejected = <<>> /\ total = 0
  /\ foundInRace = {} /\ scoreInRace = 0

Word == Canon[words[next]]

\* Mutant: the dictionary is not asked.
VerdictOfAnyWord(w, known) ==
  IF w \in known THEN "duplicate"
  ELSE IF Len(w) < MinWordLen THEN "too_short"
  ELSE IF ~FitsRack(w, rack) THEN "not_in_rack"
  ELSE ""

\* The checks in the order of the code; "" when the word passes them all.
Verdict(w, known) ==
  IF w \in known THEN "duplicate"
  ELSE IF Len(w) < MinWordLen THEN "too_short"
  ELSE IF ~FitsRack(w, rack) THEN "not_in_rack"
  ELSE IF w \notin Dictionary THEN "not_a_word"
  ELSE ""

Skip ==
  /\ Word = <<>>
  /\ UNCHANGED <<seen, accepted, rejected, total>>

Reject ==
  /\ Word # <<>>
  /\ Verdict(Word, seen) # ""
  /\ rejected' = Append(rejected, [word |-> Word, reason |-> Verdict(Word, seen)])
  /\ seen' = seen \cup {Word}
  /\ UNCHANGED <<accepted, total>>

\* Mutant: a word is remembered only when it is rejected.
AcceptUnseen ==
  /\ Word # <<>>
  /\ Verdict(Word, seen) = ""
  /\ accepted' = Append(accepted, Word)
  /\ total' = total + WordPoints(Len(Word))
  /\ UNCHANGED <<seen, rejected>>

Accept ==
  /\ Word # <<>>
  /\ Verdict(Word, seen) = ""
  /\ seen' = seen \cup {Word}
  /\ accepted' = Append(accepted, Word)
  /\ total' = total + WordPoints(Len(Word))
  /\ UNCHANGED rejected

\* Room.Submit: a word found before is not counted, any other is scored alone.
RaceAccepts == Word # <<>> /\ Word \notin foundInRace /\ Verdict(Word, {}) = ""

Race ==
  \/ /\ RaceAccepts
     /\ foundInRace' = foundInRace \cup {Word}
     /\ scoreInRace' = scoreInRace + WordPoints(Len(Word))
  \/ /\ ~RaceAccepts
     /\ UNCHANGED raceVars

Next ==
  /\ next <= Len(words)
  /\ Skip \/ Reject \/ Accept
  /\ Race
  /\ next' = next + 1
  /\ UNCHANGED <<rack, words>>

Spec == Init /\ [][Next]_vars

-----------------------------------------------------------------------------
(* Properties *)

Submitted == {Canon[words[i]] : i \in 1..(next - 1)}

TypeOK ==
  /\ rack \in Racks
  /\ next \in 1..(Len(words) + 1)
  /\ seen \subseteq Seq(Letters \cup {Other})
  /\ accepted \in Seq(Dictionary)
  /\ \A i \in DOMAIN rejected : rejected[i].reason \in Reasons
  /\ total \in Nat /\ scoreInRace \in Nat

\* What is accepted of a submission is exactly what it holds of the answers the
\* rack was generated with, whatever the order, spelling and repetition, so that
\* the scorer never disagrees with the answer list of internal/dictionary.  Answers
\* are told by the multiset of letters, and not the way the code counts them.
Answers == {w \in Dictionary : \A l \in Range(w) : LetterCount(w, l) <= LetterCount(rack, l)}

AcceptedAreAnswers ==
  /\ Range(accepted) = Submitted \cap Answers
  /\ Answers = FindWords(rack)

\* The total counts every accepted word once, on a curve that rises from the
\* shortest word on, over the step between seven letters and eight.
Worth == [w \in Dictionary |-> WordPoints(Len(w))]

TotalIsWorth ==
  /\ total = SumFunctionOnSet(Worth, Range(accepted))
  /\ \A n \in MinWordLen..12 : WordPoints(n) < WordPoints(n + 1)

\* The result accounts for every word: each distinct one has one verdict that is not
\* "duplicate", and every other occurrence is reported as a duplicate.
EveryWordHasItsVerdict ==
  LET reported == {i \in 1..(next - 1) : Canon[words[i]] # <<>>}
      fresh == {i \in DOMAIN rejected : rejected[i].reason # "duplicate"} IN
  /\ Len(accepted) + Len(rejected) = Cardinality(reported)
  /\ Len(accepted) + Cardinality(fresh) = Cardinality(Submitted \ {<<>>})

\* A daily submission and a race give the same points for the same words.
RaceAgrees == Range(accepted) = foundInRace /\ total = scoreInRace
=============================================================================
