SPECIFICATION Spec
CONSTANTS
  alice = alice
  bob = bob
  carol = carol
  dave = dave
  NoId = NoId
  Ids <- MCIds
  Words <- MCWords
  Inputs <- MCInputs
  Canon <- MCCanon
  Points <- MCPoints
  Racks <- MCRacks
  Capacities <- MCCapacities
  MaxPlayers = 3
  RaceSeconds = 1
  MaxNow = 2
INVARIANT LeaderIsTopScorer
