SPECIFICATION Spec
CONSTANTS
  a = a
  b = b
  p = p
  q = q
  Calls <- MCCalls
  MaxDays = 2
  MaxWinners = 2
  Players <- MCPlayers
  Horizon = 3
  MaxCrashes = 1
  Fractions = {3}
  Configs <- MCConfigs
  NoCall = NoCall
  Absent = Absent
  Free = Free
INVARIANTS TypeOK DatesFallWithinRound RegisteredRoundsWereMined
  RestartKeepsRounds RegisteredDaysStay SignedWinnersEntered
PROPERTIES CallsEnd
CHECK_DEADLOCK FALSE
