SPECIFICATION Spec
CONSTANTS
  Letters = {"A", "E", "C", "D"}
  Vowels = {"A", "E"}
  Other = O
  MinWordLen = 3
  MaxInt = 63
  MaxTries = 3
  DailySizes = {1, 2, 3, 9}
  WordList <- MCWordList
  LetterOrder <- MCLetterOrder
  Queries <- MCQueries
  DefaultSize <- MCDefaultSize
  Grids <- MCGrids
INVARIANTS WordsAreReal RacksAreWhole
PROPERTIES SizeIsServed GenerationEnds Generates
CHECK_DEADLOCK FALSE
