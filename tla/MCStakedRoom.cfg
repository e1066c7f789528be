SPECIFICATION Spec
CONSTANTS
  alice = alice
  Alice = Alice
  bob = bob
  guest = guest
  walletA = walletA
  walletB = walletB
  NoId = NoId
  NoAddr = NoAddr
  Ids <- MCIds
  Addrs <- MCAddrs
  Wallet <- MCWallet
  Words <- MCWords
  Inputs <- MCWords
  Canon <- MCCanon
  Points <- MCPoints
  Racks <- MCRacks
  MaxPlayers = 2
  RaceSeconds = 1
  StakeWindow = 2
  SettleSlack = 1
  MaxNow = 5
  Fee = 999
  RakeBps = 500
INVARIANTS
  TypeOK
  SeatsArePaidFor
  PayoutMatchesPool
  LeaderIsPaid
  SettlementNotLost
PROPERTIES
  TimelyRaceSettles
  KeepsThePromise
CHECK_DEADLOCK FALSE
