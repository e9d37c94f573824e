SPECIFICATION MiningSpec
CONSTANTS
  s1 = s1
  s2 = s2
  a1 = a1
  a2 = a2
  mod = mod
  SlotIds = {s1}
  Accounts = {a1, a2, mod}
  NoAccount = NoAccount
  EconomicAccounts = {a1, a2}
  MaxSupply = 20
  InitialBlockSubsidy = 5
  EpochLength = 2
  TreasuryShareBps = 1000
  MaxBasisPoints = 10000
  TreasuryAddress = a1
  GenesisEmitted = {0}
  GenesisCarry = {0}
  PayoutSets <- MixedPayouts
  GenesisParams <- GenesisDocument
  GenesisFeeShares = {0}
  ParamUpdates <- NoUpdates
  NoParams = NoParams
  escrowAccount = escrowAccount
  Escrow = escrowAccount
  GenesisBalances <- Penniless
  UserTransfers <- NoTransfers
  MinimumAccountFunding = 2
  MaxBankOutputsPerTx = 1
  MaxHeight = 6
  SettlementWindowEpochs = 1
  MaxChunksPerSettlement = 2
  MaxRecipientsPerChunk = 2
  PayoutFloor = 2
PROPERTIES
  WindowIsExact
  RemainderToSnapshot
