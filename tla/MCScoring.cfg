SPECIFICATION Spec
CONSTANTS
  Letters = {"C", "A", "T"}
  Other = "'"
  WordList <- MCWordList
  Inputs = {" ", "at", "cat", "CAT ", "tat", "tact", "tca", "act'"}
  Canon <- MCCanon
  Racks <- MCRacks
  MinWordLen = 3
  MaxInputs = 4
INVARIANTS
  TypeOK
  AcceptedAreAnswers
  TotalIsWorth
  EveryWordHasItsVerdict
  RaceAgrees
CHECK_DEADLOCK FALSE
