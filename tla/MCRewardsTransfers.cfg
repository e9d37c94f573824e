SPECIFICATION RewardsSpec
CONSTANTS
  a1 = a1
  t = t
  s1 = s1
  s2 = s2
  SlotIds = {s1}
  Accounts = {a1, t}
  NoAccount = NoAccount
  EconomicAccounts = {a1, t}
  MaxSupply = 10
  InitialBlockSubsidy = 2
  EpochLength = 2
  TreasuryShareBps = 5000
  MaxBasisPoints = 10000
  TreasuryAddress = t
  GenesisEmitted = {0}
  GenesisCarry = {0}
  PayoutSets <- SmallPayouts
  GenesisParams <- GenesisDocument
  GenesisFeeShares = {100}
  ParamUpdates <- DocumentUpdates
  NoParams = NoParams
  escrowAccount = escrowAccount
  Escrow = escrowAccount
  GenesisBalances <- SmallHoldings
  UserTransfers <- Transfers
  MinimumAccountFunding = 2
  MaxBankOutputsPerTx = 1
  MaxHeight = 5
INVARIANTS
  RewardsNeverHalt
PROPERTIES
  ParamsSwitchAtClose
