SPECIFICATION Spec
CONSTANTS
  a = a
  b = b
  p = p
  q = q
  Calls <- MCCalls
  MaxDays = 2
  MaxWinners = 2
  Players <- MCPlayers
  Horizon = 3
  MaxCrashes = 1
  Fractions = {3}
  Configs <- PoolConfigs
  NoCall = NoCall
  Absent = Absent
  Free = Free
INVARIANT OpenPoolIsVisible
CHECK_DEADLOCK FALSE
