----------------------------- MODULE GoodBoard -----------------------------
(***************************************************************************)
(* What a generator of boards promises: of the boards it draws it answers  *)
(* the first one with enough words, and, when it may draw no more, one     *)
(* that no other drawn board beats; nothing when none has a word.          *)
(***************************************************************************)
EXTENDS Naturals

CONSTANTS
  Goals, NoGoal,   \* what can be asked for
  Boards,          \* the boards that can be drawn for a goal
  Worth,           \* the number of words of a board drawn for a goal
  Floor,           \* the number of words that is enough
  MaxTries,
  Blank, Pending   \* the answer without a word, and no answer yet

VARIABLES goal, tries, drawn, answer

vars == <<goal, tries, drawn, answer>>

Init == goal = NoGoal /\ tries = 0 /\ drawn = {} /\ answer = Pending

Ask(g) ==
  /\ goal = NoGoal
  /\ goal' = g
  /\ UNCHANGED <<tries, drawn, answer>>

Best(s) ==
  {IF Worth[<<goal, b>>] = 0 THEN Blank ELSE b :
     b \in {c \in s : \A d \in s : Worth[<<goal, d>>] <= Worth[<<goal, c>>]}}

Draw(b) ==
  /\ goal # NoGoal
  /\ answer = Pending
  /\ tries' = tries + 1
  /\ drawn' = drawn \cup {b}
  /\ answer' \in IF Worth[<<goal, b>>] >= Floor[goal] THEN {b}
                 ELSE IF tries' = MaxTries THEN Best(drawn')
                 ELSE {Pending}
  /\ UNCHANGED goal

Next ==
  \/ \E g \in Goals : Ask(g)
  \/ goal # NoGoal /\ \E b \in Boards[goal] : Draw(b)

Safety == Init /\ [][Next]_vars

Spec == Safety /\ WF_vars(goal # NoGoal /\ \E b \in Boards[goal] : Draw(b))
=============================================================================
