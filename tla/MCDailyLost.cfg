SPECIFICATION Spec
CONSTANTS
  lower = lower
  upper = upper
  key = key
  wallet = wallet
  r1 = r1
  r2 = r2
  NoRound = NoRound
  NoRow = NoRow
  Ids <- MCIds
  Keys <- MCKeys
  Wallets <- MCWallets
  KeyOf <- MCKeyOf
  WalletOf <- MCWalletOf
  Scores = {1, 2}
  Rounds <- MCRounds
  ChainOn = TRUE
  Horizon <- MCHorizon
SYMMETRY Symmetry
PROPERTY SubmissionsSurvive
