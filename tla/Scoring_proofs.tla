--------------------------- MODULE Scoring_proofs ---------------------------
(***************************************************************************)
(* Theorems about Scoring, for every alphabet, word list, rack and length  *)
(* of a submission.                                                        *)
(*                                                                         *)
(* Counting letters up to the place one looks at and refusing the first    *)
(* that is one too many is the same as comparing the multisets: the last   *)
(* occurrence of a letter has counted all of them.  The invariant of the   *)
(* loop then says what seen, accepted, rejected and the total hold of the  *)
(* words read.                                                             *)
(***************************************************************************)
EXTENDS Scoring, Data_proofs

Spellings == Seq(Letters \cup {Other})

-----------------------------------------------------------------------------
(* Counting letters *)

\* What the scorer accepts letter by letter is what the multisets allow.
LEMMA AnswersFound ==
  ASSUME rack \in Seq(Letters)
  PROVE  Answers = FindWords(rack)
<1> SUFFICES ASSUME NEW w \in Dictionary
             PROVE  (\A l \in Range(w) : LetterCount(w, l) <= LetterCount(rack, l))
                      <=> CanBuild(w, rack)
  BY DEF Answers, FindWords
<1> DEFINE limit == [l \in Letters |-> LetterCount(rack, l)]
<1>1. \A s, l : LetterCount(s, l) = Cardinality(Places(s, l))
  BY DEF LetterCount, Places
<1>2. w \in Seq(Letters)
  <2>1. w \in Seq(Letters \cup {Other}) /\ \A n \in DOMAIN w : w[n] \in Letters
    BY LexiconAssumption DEF Dictionary
  <2> QED
    BY <2>1
<1>3. limit \in [Letters -> Nat]
  BY <1>1, PlacesFinite
<1>4. (\A n \in DOMAIN w : Cardinality(Places(SubSeq(w, 1, n), w[n])) <= limit[w[n]])
        <=> (\A l \in Letters : Cardinality(Places(w, l)) <= limit[l])
  <2> HIDE DEF limit
  <2> QED
    BY <1>2, <1>3, CountedWithin
<1>5. \A n \in DOMAIN w : w[n] \in Letters
  BY <1>2
<1>6. CanBuild(w, rack)
        <=> \A n \in DOMAIN w : Cardinality(Places(SubSeq(w, 1, n), w[n])) <= limit[w[n]]
  BY <1>1, <1>5 DEF CanBuild
<1>7. ASSUME NEW l \in Letters \ Range(w)
      PROVE  Cardinality(Places(w, l)) <= limit[l]
  <2>1. Places(w, l) = {}
    BY DEF Places, Range
  <2> QED
    BY <1>3, <2>1, FS_EmptySet
<1>8. Range(w) \subseteq Letters
  BY <1>5 DEF Range
<1>9. (\A l \in Letters : Cardinality(Places(w, l)) <= limit[l])
        <=> \A l \in Range(w) : LetterCount(w, l) <= LetterCount(rack, l)
  BY <1>1, <1>7, <1>8
<1> QED
  BY <1>4, <1>6, <1>9

-----------------------------------------------------------------------------
(* The loop *)

\* A word passes the checks if it is an answer that was not seen.
LEMMA VerdictTells ==
  ASSUME NEW w, NEW known
  PROVE  /\ Verdict(w, known) = "" <=> w \notin known /\ w \in FindWords(rack)
         /\ Verdict(w, known) = "duplicate" <=> w \in known
         /\ Verdict(w, known) \in Reasons \cup {""}
<1>1. w \in Dictionary => Len(w) >= MinWordLen
  BY DEF Dictionary
<1>2. FitsRack(w, rack) <=> CanBuild(w, rack)
  BY DEF FitsRack, CanBuild
<1> QED
  BY <1>1, <1>2, LexiconAssumption DEF Verdict, FindWords, Reasons

Reported == {i \in 1..(next - 1) : Canon[words[i]] # <<>>}
Fresh == {i \in DOMAIN rejected : rejected[i].reason # "duplicate"}

\* The parts of the state the loop only reads, and the places in it.
Reading ==
  /\ rack \in Racks
  /\ words \in Seq(Inputs)
  /\ next \in 1..(Len(words) + 1)

\* What was accepted of the words read so far, alone and in a race.
Kept ==
  /\ seen = Submitted \ {<<>>}
  /\ accepted \in Seq(Dictionary)
  /\ Range(accepted) = Submitted \cap FindWords(rack)
  /\ foundInRace = Range(accepted)
  /\ IsFiniteSet(Range(accepted))
  /\ total = SumFunctionOnSet(Worth, Range(accepted))
  /\ total \in Nat /\ scoreInRace = total

\* What was reported of them.
Accounted ==
  /\ rejected \in Seq([word : Spellings, reason : Reasons])
  /\ IsFiniteSet(Reported) /\ IsFiniteSet(seen)
  /\ Len(accepted) + Len(rejected) = Cardinality(Reported)
  /\ Len(accepted) + Cardinality(Fresh) = Cardinality(seen)

Inv == Reading /\ Kept /\ Accounted

\* Words are worth points or nothing.
LEMMA PointsAreNatural ==
  ASSUME NEW n \in Nat
  PROVE  WordPoints(n) \in Nat
BY DEF WordPoints

\* Every word of the dictionary has its worth.
LEMMA WorthIsNatural ==
  /\ Worth \in [Dictionary -> Nat]
  /\ \A w \in Dictionary : Worth[w] = WordPoints(Len(w))
<1>1. \A w \in Dictionary : Len(w) \in Nat
  BY LexiconAssumption DEF Dictionary
<1>2. \A w \in Dictionary : WordPoints(Len(w)) \in Nat
  BY <1>1, PointsAreNatural
<1> QED
  BY <1>2 DEF Worth

\* One word is appended, and one word comes in.
LEMMA AppendWord ==
  ASSUME NEW S, NEW s \in Seq(S), NEW x \in S
  PROVE  /\ Append(s, x) \in Seq(S) /\ Range(Append(s, x)) = Range(s) \cup {x}
         /\ Len(Append(s, x)) = Len(s) + 1 /\ Len(s) \in Nat
         /\ DOMAIN s = 1..Len(s) /\ DOMAIN Append(s, x) = 1..(Len(s) + 1)
         /\ \A i \in 1..Len(s) : Append(s, x)[i] = s[i]
         /\ Append(s, x)[Len(s) + 1] = x
<1>1. /\ Append(s, x) \in Seq(S) /\ Len(Append(s, x)) = Len(s) + 1 /\ Len(s) \in Nat
      /\ DOMAIN s = 1..Len(s) /\ DOMAIN Append(s, x) = 1..(Len(s) + 1)
      /\ \A i \in 1..Len(s) : Append(s, x)[i] = s[i]
      /\ Append(s, x)[Len(s) + 1] = x
  OBVIOUS
<1>2. Range(Append(s, x)) = Range(s) \cup {x}
  <2> DEFINE t == Append(s, x)
  <2>1. \A i \in 1..(Len(s) + 1) : i \in 1..Len(s) \/ i = Len(s) + 1
    BY <1>1
  <2> HIDE DEF t
  <2> QED
    BY <1>1, <2>1 DEF Range, t
<1> QED
  BY <1>1, <1>2

\* Before the first word nothing is read, kept or reported.
LEMMA InitInv == Init => Inv
<1> SUFFICES ASSUME Init PROVE Inv
  OBVIOUS
<1>1. words \in Seq(Inputs) /\ Len(words) \in Nat
  <2>1. PICK n \in 0..MaxInputs : words \in [1..n -> Inputs]
    BY DEF Init
  <2> QED
    BY <2>1, ScoringAssumption
<1>2. Reading
  BY <1>1 DEF Init, Reading
<1>3. Submitted = {} /\ Reported = {}
  BY DEF Init, Submitted, Reported
<1>4. Kept
  <2>1. Range(accepted) = {}
    BY DEF Init, Range
  <2>2. total = SumFunctionOnSet(Worth, Range(accepted))
    BY <2>1, WorthIsNatural, SumOfNone DEF Init
  <2>3. IsFiniteSet(Range(accepted))
    BY <2>1, FS_EmptySet
  <2>4. total = 0 /\ scoreInRace = 0 /\ accepted \in Seq(Dictionary)
    BY DEF Init
  <2>5. seen = Submitted \ {<<>>} /\ foundInRace = Range(accepted)
    BY <1>3, <2>1 DEF Init
  <2>6. Range(accepted) = Submitted \cap FindWords(rack)
    BY <1>3, <2>1
  <2> QED
    BY <2>2, <2>3, <2>4, <2>5, <2>6 DEF Kept
<1>5. Fresh = {}
  BY DEF Init, Fresh
<1>6. Accounted
  BY <1>3, <1>5, FS_EmptySet DEF Init, Accounted
<1> QED
  BY <1>2, <1>4, <1>6 DEF Inv

\* A step reads one word.
LEMMA StepReads ==
  ASSUME Inv, Next
  PROVE  /\ Reading' /\ Word \in Spellings /\ rack' = rack
         /\ Submitted' = Submitted \cup {Word}
         /\ Reported' = IF Word = <<>> THEN Reported ELSE Reported \cup {next}
         /\ next \notin Reported
<1> USE DEF Inv, Reading, Next
<1>1. /\ next \in 1..Len(words) /\ Len(words) \in Nat /\ next' = next + 1
      /\ words' = words /\ rack' = rack /\ words[next] \in Inputs
  OBVIOUS
<1>2. 1..(next' - 1) = 1..(next - 1) \cup {next}
  BY <1>1
<1>3. Word \in Spellings
  BY <1>1, ScoringAssumption DEF Word, Spellings
<1>4. Submitted' = Submitted \cup {Word}
  BY <1>1, <1>2 DEF Submitted, Word
<1>5. Reported' = IF Word = <<>> THEN Reported ELSE Reported \cup {next}
  BY <1>1, <1>2 DEF Reported, Word
<1> QED
  BY <1>1, <1>3, <1>4, <1>5 DEF Reported

\* A step keeps the words that count, and a race keeps the same ones.
LEMMA KeptStep ==
  ASSUME Inv, Next
  PROVE  Kept'
<1> USE DEF Inv
<1>1. /\ Submitted' = Submitted \cup {Word} /\ Word \in Spellings /\ rack' = rack
      /\ seen = Submitted \ {<<>>} /\ <<>> \notin FindWords(rack)
      /\ Range(accepted) = Submitted \cap FindWords(rack) /\ foundInRace = Range(accepted)
      /\ total \in Nat /\ scoreInRace = total /\ accepted \in Seq(Dictionary)
      /\ total = SumFunctionOnSet(Worth, Range(accepted)) /\ IsFiniteSet(Range(accepted))
  <2>1. <<>> \notin FindWords(rack)
    BY LexiconAssumption DEF FindWords, Dictionary
  <2> QED
    BY <2>1, StepReads DEF Kept
<1>2. FindWords(rack') = FindWords(rack)
  BY <1>1
<1>3. /\ Verdict(Word, seen) = "" <=> Word \notin seen /\ Word \in FindWords(rack)
      /\ Verdict(Word, {}) = "" <=> Word \in FindWords(rack)
  BY VerdictTells
<1>4. RaceAccepts <=> Word # <<>> /\ Word \notin foundInRace /\ Word \in FindWords(rack)
  BY <1>3 DEF RaceAccepts
<1>5. CASE Skip \/ Reject
  <2>1. ~RaceAccepts
    BY <1>1, <1>3, <1>4, <1>5 DEF Skip, Reject
  <2>2. UNCHANGED <<foundInRace, scoreInRace, accepted, total>>
    BY <1>5, <2>1 DEF Next, Race, raceVars, Skip, Reject
  <2>3. seen' = Submitted' \ {<<>>}
    BY <1>1, <1>5 DEF Skip, Reject
  <2>4. Submitted' \cap FindWords(rack) = Submitted \cap FindWords(rack)
    BY <1>1, <1>3, <1>5 DEF Skip, Reject
  <2> QED
    BY <1>1, <1>2, <2>2, <2>3, <2>4 DEF Kept, Range
<1>6. CASE Accept
  <2>1. /\ Word # <<>> /\ Word \notin seen /\ Word \in FindWords(rack) /\ RaceAccepts
        /\ accepted' = Append(accepted, Word) /\ seen' = seen \cup {Word}
        /\ total' = total + WordPoints(Len(Word))
    BY <1>1, <1>3, <1>4, <1>6 DEF Accept
  <2>2. /\ foundInRace' = foundInRace \cup {Word}
        /\ scoreInRace' = scoreInRace + WordPoints(Len(Word))
    BY <2>1 DEF Next, Race
  <2>3. Word \in Dictionary
    BY <2>1 DEF FindWords
  <2>4. accepted' \in Seq(Dictionary) /\ Range(accepted') = Range(accepted) \cup {Word}
    <3>1. /\ Append(accepted, Word) \in Seq(Dictionary)
          /\ Range(Append(accepted, Word)) = Range(accepted) \cup {Word}
      BY <1>1, <2>3, AppendWord
    <3> QED
      BY <2>1, <3>1
  <2>5. total' \in Nat
    <3>1. Len(Word) \in Nat
      BY <1>1 DEF Spellings
    <3>2. WordPoints(Len(Word)) \in Nat
      BY <3>1, PointsAreNatural
    <3> QED
      BY <1>1, <2>1, <3>2
  <2>6. Range(accepted)' = Range(accepted')
    BY DEF Range
  <2>7. /\ Word \in Dictionary \ Range(accepted) /\ Range(accepted) \in SUBSET Dictionary
        /\ IsFiniteSet(Range(accepted))
    BY <1>1, <2>1 DEF FindWords
  <2>8. SumFunctionOnSet(Worth, Range(accepted) \cup {Word})
          = SumFunctionOnSet(Worth, Range(accepted)) + Worth[Word]
    <3>1. Worth \in [Dictionary -> Nat]
      BY WorthIsNatural
    <3> QED
      BY <2>7, <3>1, SumAdd
  <2>9. total' = SumFunctionOnSet(Worth, Range(accepted)')
    BY <1>1, <2>1, <2>3, <2>4, <2>6, <2>8, WorthIsNatural
  <2>10. IsFiniteSet(Range(accepted)')
    BY <1>1, <2>4, <2>6, FS_AddElement
  <2> QED
    BY <1>1, <1>2, <2>1, <2>2, <2>4, <2>5, <2>6, <2>9, <2>10 DEF Kept
<1> QED
  BY <1>5, <1>6 DEF Next

\* A step reports the word it reads, and reports it as a duplicate if it was seen.
LEMMA AccountedStep ==
  ASSUME Inv, Next
  PROVE  Accounted'
<1> USE DEF Inv
<1>1. /\ Word \in Spellings /\ next \notin Reported
      /\ Reported' = IF Word = <<>> THEN Reported ELSE Reported \cup {next}
      /\ accepted \in Seq(Dictionary) /\ Len(accepted) \in Nat
      /\ rejected \in Seq([word : Spellings, reason : Reasons]) /\ Len(rejected) \in Nat
      /\ IsFiniteSet(Reported) /\ IsFiniteSet(seen) /\ IsFiniteSet(Fresh)
      /\ Len(accepted) + Len(rejected) = Cardinality(Reported)
      /\ Len(accepted) + Cardinality(Fresh) = Cardinality(seen)
  <2>1. IsFiniteSet(1..Len(rejected)) /\ Fresh \in SUBSET (1..Len(rejected))
    <3>1. DOMAIN rejected = 1..Len(rejected) /\ Len(rejected) \in Nat
      BY DEF Accounted
    <3>2. IsFiniteSet(1..Len(rejected))
      BY <3>1, FS_Interval
    <3>3. Fresh \in SUBSET (1..Len(rejected))
      BY <3>1 DEF Fresh
    <3> QED
      BY <3>2, <3>3
  <2>2. IsFiniteSet(Fresh)
    BY <2>1, FS_Subset
  <2> QED
    BY <2>2, StepReads DEF Accounted, Kept
<1>2. /\ IsFiniteSet(Reported \cup {next})
      /\ Cardinality(Reported \cup {next}) = Cardinality(Reported) + 1
      /\ IsFiniteSet(seen \cup {Word})
      /\ Cardinality(seen \cup {Word}) = IF Word \in seen THEN Cardinality(seen)
                                         ELSE Cardinality(seen) + 1
      /\ Cardinality(Reported) \in Nat /\ Cardinality(seen) \in Nat
      /\ Cardinality(Fresh) \in Nat
  BY <1>1, FS_AddElement, FS_CardinalityType
<1>3. CASE Skip
  BY <1>1, <1>3 DEF Skip, Accounted, Fresh
<1>4. CASE Accept
  <2>1. /\ Word # <<>> /\ Word \notin seen /\ Word \in Dictionary /\ seen' = seen \cup {Word}
        /\ accepted' = Append(accepted, Word) /\ rejected' = rejected
    BY <1>4, VerdictTells DEF Accept, FindWords
  <2>2. Len(accepted') = Len(accepted) + 1
    BY <1>1, <2>1
  <2>3. Fresh' = Fresh
    BY <2>1 DEF Fresh
  <2> QED
    BY <1>1, <1>2, <2>1, <2>2, <2>3 DEF Accounted
<1>5. CASE Reject
  <2> DEFINE entry == [word |-> Word, reason |-> Verdict(Word, seen)]
  <2>1. /\ Word # <<>> /\ seen' = seen \cup {Word} /\ accepted' = accepted
        /\ rejected' = Append(rejected, entry)
        /\ entry \in [word : Spellings, reason : Reasons]
        /\ entry.reason = "duplicate" <=> Word \in seen
    BY <1>1, <1>5, VerdictTells DEF Reject
  <2> HIDE DEF entry
  <2>2. /\ rejected' \in Seq([word : Spellings, reason : Reasons])
        /\ Len(rejected') = Len(rejected) + 1
        /\ DOMAIN rejected' = 1..(Len(rejected) + 1) /\ DOMAIN rejected = 1..Len(rejected)
        /\ \A i \in 1..Len(rejected) : rejected'[i] = rejected[i]
        /\ rejected'[Len(rejected) + 1] = entry
    <3> DEFINE Entry == [word : Spellings, reason : Reasons]
    <3>1. rejected \in Seq(Entry) /\ entry \in Entry
      BY <1>1, <2>1
    <3> HIDE DEF Entry
    <3>2. /\ Append(rejected, entry) \in Seq(Entry)
          /\ Len(Append(rejected, entry)) = Len(rejected) + 1
          /\ DOMAIN Append(rejected, entry) = 1..(Len(rejected) + 1)
          /\ DOMAIN rejected = 1..Len(rejected)
          /\ \A i \in 1..Len(rejected) : Append(rejected, entry)[i] = rejected[i]
          /\ Append(rejected, entry)[Len(rejected) + 1] = entry
      BY <3>1, AppendWord
    <3> QED
      BY <2>1, <3>2 DEF Entry
  <2>3. Fresh' = IF Word \in seen THEN Fresh ELSE Fresh \cup {Len(rejected) + 1}
    <3>1. 1..(Len(rejected) + 1) = 1..Len(rejected) \cup {Len(rejected) + 1}
      BY <1>1
    <3> QED
      BY <2>1, <2>2, <3>1 DEF Fresh
  <2>4. Len(rejected) + 1 \notin Fresh
    BY <1>1 DEF Fresh
  <2>5. Cardinality(Fresh') = IF Word \in seen THEN Cardinality(Fresh)
                              ELSE Cardinality(Fresh) + 1
    BY <1>1, <2>3, <2>4, FS_AddElement
  <2> QED
    BY <1>1, <1>2, <2>1, <2>2, <2>5 DEF Accounted
<1> QED
  BY <1>3, <1>4, <1>5 DEF Next

\* The invariant is inductive.
LEMMA NextInv ==
  ASSUME Inv, [Next]_vars
  PROVE  Inv'
<1>1. CASE Next
  BY <1>1, StepReads, KeptStep, AccountedStep DEF Inv
<1>2. CASE UNCHANGED vars
  <2>1. /\ UNCHANGED <<rack, words, next, seen, accepted, rejected, total>>
        /\ UNCHANGED <<foundInRace, scoreInRace>>
    BY <1>2 DEF vars, scoreVars, raceVars
  <2>2. Submitted' = Submitted /\ Reported' = Reported /\ Fresh' = Fresh
    BY <2>1 DEF Submitted, Reported, Fresh
  <2>3. FindWords(rack)' = FindWords(rack) /\ Range(accepted)' = Range(accepted)
    BY <2>1 DEF FindWords, CanBuild, Range
  <2> QED
    BY <2>1, <2>2, <2>3 DEF Inv, Reading, Kept, Accounted
<1> QED
  BY <1>1, <1>2

-----------------------------------------------------------------------------
(* The theorems *)

\* The loop keeps what it has read, kept and reported in step.
THEOREM Invariance == Spec => []Inv
<1> QED
  BY InitInv, NextInv, PTL DEF Spec

\* The variables of the scorer keep their types; only words of the dictionary are accepted.
THEOREM TypeCorrect == Spec => []TypeOK
<1>1. Inv => TypeOK
  <2> SUFFICES ASSUME Inv PROVE TypeOK
    OBVIOUS
  <2>1. seen \subseteq Seq(Letters \cup {Other})
    BY ScoringAssumption DEF Inv, Kept, Reading, Submitted
  <2>2. \A i \in DOMAIN rejected : rejected[i].reason \in Reasons
    <3> DEFINE Entry == [word : Spellings, reason : Reasons]
    <3>1. rejected \in Seq(Entry) /\ \A e \in Entry : e.reason \in Reasons
      BY DEF Inv, Accounted
    <3> HIDE DEF Entry
    <3>2. \A i \in DOMAIN rejected : rejected[i] \in Entry
      BY <3>1
    <3> QED
      BY <3>1, <3>2
  <2> QED
    BY <2>1, <2>2 DEF Inv, Reading, Kept, TypeOK
<1> QED
  BY <1>1, Invariance, PTL

\* Of a submission exactly the answers of its rack are accepted (Score, FindWords).
THEOREM AnswersAccepted == Spec => []AcceptedAreAnswers
<1>1. Inv => AcceptedAreAnswers
  <2> SUFFICES ASSUME Inv PROVE AcceptedAreAnswers
    OBVIOUS
  <2>1. Answers = FindWords(rack)
    BY AnswersFound, ScoringAssumption DEF Inv, Reading
  <2> QED
    BY <2>1 DEF Inv, Kept, AcceptedAreAnswers
<1> QED
  BY <1>1, Invariance, PTL

\* Every occurrence of a word is reported, once as what it is and then as a duplicate (Score).
THEOREM VerdictsComplete == Spec => []EveryWordHasItsVerdict
<1>1. Inv => EveryWordHasItsVerdict
  BY DEF Inv, Kept, Accounted, Reported, Fresh, EveryWordHasItsVerdict
<1> QED
  BY <1>1, Invariance, PTL

\* The points rise with the length of a word, however long it is (WordPoints).
LEMMA CurveRises ==
  \A n \in Nat : n > 1 => WordPoints(n) < WordPoints(n + 1)
BY DEF WordPoints

\* The total is what the accepted words are worth, each counted once (Score).
THEOREM TotalCounts == Spec => []TotalIsWorth
<1>1. Inv => TotalIsWorth
  BY CurveRises, LexiconAssumption DEF Inv, Kept, TotalIsWorth
<1> QED
  BY <1>1, Invariance, PTL

\* A race gives the same points as a daily for the same words (Room.Submit, Score).
THEOREM SamePoints == Spec => []RaceAgrees
<1>1. Inv => RaceAgrees
  BY DEF Inv, Kept, RaceAgrees
<1> QED
  BY <1>1, Invariance, PTL
=============================================================================
