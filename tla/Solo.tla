-------------------------------- MODULE Solo --------------------------------
(***************************************************************************)
(* The practice handlers (handleSoloRack, handleSoloGrid): the size read   *)
(* from the query, clamped, and the loop of rack.generate and              *)
(* grid.generate, one drawn board per step.  The daily rack is drawn by    *)
(* the same loop, at a size taken as it is from the environment.           *)
(***************************************************************************)
EXTENDS Boards

CONSTANTS
  Queries,      \* values of the query "size": digits and Other, <<>> when absent
  DefaultSize,  \* SOLO_RACK_SIZE and SOLO_GRID_SIZE, taken as they are
  DailySizes,   \* values of DAILY_RACK_SIZE
  Grids,        \* by width, the grids that are drawn
  MaxInt,       \* bound: the largest int, 2^63 - 1 in the program
  MaxTries      \* bound: 300 in the program

Kinds == {"rack", "grid"}

ASSUME SoloAssumption ==
  /\ Queries \subseteq Seq(0..9 \cup {Other})
  /\ DefaultSize \in [Kinds -> Int]
  /\ DailySizes \subseteq Nat \ {0}
  /\ Grids \in [4..6 -> SUBSET Seq(Letters)]
  /\ \A w \in 4..6 : \A g \in Grids[w] :
       Len(g) = w * w /\ Cardinality({i \in 1..(w * w) : g[i] \in Vowels}) = GridVowels(w * w)
  /\ MaxInt \in Nat \ {0} /\ MaxTries \in Nat \ {0}

VARIABLES
  asked,    \* the query that is being read, NoQuery when none is
  goal,     \* the board that is generated: its kind and size
  tries, best, result,
  drawn     \* history: the boards drawn for this goal

vars == <<asked, goal, tries, best, result, drawn>>

NoQuery == [kind |-> "none"]
NoGoal == [kind |-> "none", size |-> 0]
Blank == [letters |-> <<>>, words |-> {}]
Pending == [letters |-> <<>>, words |-> {<<>>}]

-----------------------------------------------------------------------------
(* The size *)

Wrap(n) == ((n + MaxInt + 1) % (2 * MaxInt + 2)) - (MaxInt + 1)

\* Mutant: the number ends where the digits end.
IntQueryPrefix(q, def) ==
  LET digits == SelectSeq(q, LAMBDA c : c # Other) IN
  IF q = <<>> THEN def ELSE FoldLeft(LAMBDA n, c : Wrap(10 * n + c), 0, digits)

IntQuery(q, def) ==
  IF q = <<>> \/ Contains(q, Other) THEN def
  ELSE FoldLeft(LAMBDA n, c : Wrap(10 * n + c), 0, q)

Clamp(kind, n) == LargerOf(4, SmallerOf(n, IF kind = "rack" THEN 8 ELSE 6))

-----------------------------------------------------------------------------
(* The loop *)

MinWords(g) == IF g.kind = "rack" THEN RackMinWords(g.size) ELSE GridMinWords(g.size * g.size)

DrawBoard(g) == IF g.kind = "rack" THEN DrawRack(g.size) ELSE Grids[g.size]

Words(g, letters) == IF g.kind = "rack" THEN FindWords(letters) ELSE Solve(letters, g.size)

Init ==
  /\ asked = NoQuery /\ goal = NoGoal
  /\ tries = 0 /\ best = Blank /\ result = Pending /\ drawn = {}

\* Requests share nothing but the dictionary, so one of them is enough.
Idle == asked = NoQuery /\ goal = NoGoal

Generate(g) ==
  /\ goal' = g
  /\ UNCHANGED <<tries, best, result, drawn>>

SoloRequest(kind) ==
  /\ Idle
  /\ \E q \in Queries : asked' = [kind |-> kind, query |-> q]
  /\ UNCHANGED <<goal, tries, best, result, drawn>>

ReadSize ==
  /\ asked # NoQuery
  /\ Generate([kind |-> asked.kind,
               size |-> Clamp(asked.kind, IntQuery(asked.query, DefaultSize[asked.kind]))])
  /\ asked' = NoQuery

DailyRequest ==
  /\ Idle
  /\ \E s \in DailySizes : Generate([kind |-> "rack", size |-> s])
  /\ UNCHANGED asked

\* Mutant: a board as good as the best takes its place, even one without a word.
BetterOrEqual(words) == Cardinality(words) >= Cardinality(best.words)

Better(words) == Cardinality(words) > Cardinality(best.words)

\* Mutant: the last board drawn is returned when the tries are used up.
OutcomeLast(board, g) ==
  IF Cardinality(board.words) >= MinWords(g) \/ tries' = MaxTries THEN board ELSE Pending

\* The early return of the loop, its end, or another round.
Outcome(board, g) ==
  IF Cardinality(board.words) >= MinWords(g) THEN board
  ELSE IF tries' = MaxTries THEN best' ELSE Pending

\* Mutant: a board without a word is not counted as a try.
CountedWithWords(words) == IF words = {} THEN tries ELSE tries + 1

Counted(words) == tries + 1

Draw ==
  /\ goal # NoGoal /\ result = Pending
  /\ \E letters \in DrawBoard(goal) :
       LET board == [letters |-> letters, words |-> Words(goal, letters)] IN
       /\ tries' = Counted(board.words)
       /\ best' = IF Better(board.words) THEN board ELSE best
       /\ result' = Outcome(board, goal)
       /\ drawn' = drawn \cup {letters}
  /\ UNCHANGED <<asked, goal>>

Next == (\E kind \in Kinds : SoloRequest(kind)) \/ ReadSize \/ DailyRequest \/ Draw

Safety == Init /\ [][Next]_vars

\* A handler runs to its end: the loop waits for nothing.
Spec == Safety /\ WF_vars(ReadSize) /\ WF_vars(Draw)

-----------------------------------------------------------------------------
(* Properties *)

Goals == [kind : {"rack"}, size : 4..8 \cup DailySizes] \cup [kind : {"grid"}, size : 4..6]

\* Reference: a rack's words told by the multiset of its letters, a grid's by the
\* paths of neighbouring cells that spell them out and visit no cell twice.
Spelled(w, letters) == \A l \in Letters : LetterCount(w, l) <= LetterCount(letters, l)

Traced(w, letters, width) ==
  LET extend(paths, l) ==
        {Append(p, c) : p \in paths, c \in {k \in 0..(width * width - 1) : letters[k + 1] = l}}
      legal(p) == /\ IsInjective(p)
                  /\ \A i \in 1..(Len(p) - 1) : p[i + 1] \in Neighbours(p[i], width)
  IN FoldLeft(LAMBDA paths, l : {p \in extend(paths, l) : legal(p)}, {<<>>}, w) # {}

Drawable == UNION {{<<g, letters>> : letters \in DrawBoard(g)} : g \in Goals}

RealWords ==
  [d \in Drawable |->
     {w \in Dictionary : IF d[1].kind = "rack" THEN Spelled(w, d[2])
                         ELSE Traced(w, d[2], d[1].size)}]

\* The words sent with a board are exactly the ones that can be played on it, on the
\* largest grid too, whose cells need more than 32 bits of the search's mask.
WordsAreReal ==
  \A board \in {best, result} \ {Blank, Pending} :
    board.words = RealWords[<<goal, board.letters>>]

\* A rack is answered whole or not at all: a size below the shortest word, which the
\* environment can set for the daily rack and for which a letter too many is drawn
\* (vowelCount is negative), gives the empty rack; any other has its number of letters,
\* a vowel and two consonants.
RacksAreWhole ==
  goal.kind = "rack" /\ result \notin {Blank, Pending} =>
    /\ Len(result.letters) = goal.size
    /\ \E i \in 1..goal.size : result.letters[i] \in Vowels
    /\ \E i, j \in 1..goal.size :
         i # j /\ {result.letters[i], result.letters[j]} \subseteq Consonants

Distance(m, n) == LargerOf(m, n) - SmallerOf(m, n)

\* Whatever stands in the query, the board has a size the program offers: the nearest
\* one to the number asked for, or to the default where the query is no number, as long
\* as that fits an int.  Past an int the number wraps around, to any of the sizes.
SizeIsServed ==
  [][asked # NoQuery =>
       LET q == asked.query
           limit == IF asked.kind = "rack" THEN 8 ELSE 6
           number == IF q = <<>> \/ Contains(q, Other) THEN DefaultSize[asked.kind]
                     ELSE FoldLeft(LAMBDA n, c : 10 * n + c, 0, q) IN
       /\ goal'.size \in 4..limit
       /\ number <= MaxInt =>
            \A s \in 4..limit : Distance(s, number) >= Distance(goal'.size, number)]_vars

\* "bounded retries; the best candidate is returned if none clears, so this always
\* terminates": every request has its answer.
GenerationEnds == goal # NoGoal /\ result = Pending ~> result # Pending

Good == INSTANCE GoodBoard WITH
  Boards <- [g \in Goals |-> DrawBoard(g)],
  Worth <- [d \in Drawable |-> Cardinality(RealWords[d])],
  Floor <- [g \in Goals |-> MinWords(g)],
  Blank <- <<>>, Pending <- <<Other>>,
  answer <- IF result = Pending THEN <<Other>> ELSE result.letters

\* The loop, which keeps one best board as it goes, answers the first board with
\* enough words, and else one that no other drawn board beats.
Generates == Good!Spec
=============================================================================
