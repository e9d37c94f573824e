SPECIFICATION RewardsSpec
CONSTANTS
  a1 = a1
  t = t
  s1 = s1
  s2 = s2
  SlotIds = {s1, s2}
  Accounts = {a1}
  NoAccount = NoAccount
  EconomicAccounts = {a1}
  MaxSupply = 10
  InitialBlockSubsidy = 4
  EpochLength = 2
  TreasuryShareBps = 2500
  MaxBasisPoints = 10000
  TreasuryAddress = a1
  GenesisEmitted = {0}
  GenesisCarry = {1}
  PayoutSets <- SmallPayouts
  GenesisParams <- GenesisDocument
  GenesisFeeShares = {0}
  ParamUpdates <- NoUpdates
  NoParams = NoParams
  escrowAccount = escrowAccount
  Escrow = escrowAccount
  GenesisBalances <- Penniless
  UserTransfers <- NoTransfers
  MinimumAccountFunding = 2
  MaxBankOutputsPerTx = 1
  MaxHeight = 5
SYMMETRY SlotSymmetry
INVARIANTS
  RewardsNeverHalt
  BooksBalance
  EpochsChain
PROPERTIES
  ClosedEpochsImmutable
  PauseFollowsLastRequest
