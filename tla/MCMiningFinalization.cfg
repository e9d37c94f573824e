SPECIFICATION MiningSpec
CONSTANTS
  s1 = s1
  s2 = s2
  a1 = a1
  a2 = a2
  mod = mod
  SlotIds = {s1, s2}
  Accounts = {a1, mod}
  NoAccount = NoAccount
  EconomicAccounts = {a1}
  MaxSupply = 20
  InitialBlockSubsidy = 2
  EpochLength = 1
  TreasuryShareBps = 0
  MaxBasisPoints = 10000
  TreasuryAddress = a1
  GenesisEmitted = {0}
  GenesisCarry = {0}
  PayoutSets <- OneRecipient
  GenesisParams <- GenesisDocument
  GenesisFeeShares = {0}
  ParamUpdates <- SameDocument
  NoParams = NoParams
  escrowAccount = escrowAccount
  Escrow = escrowAccount
  GenesisBalances <- Unfunded
  UserTransfers <- ToSelf
  MinimumAccountFunding = 2
  MaxBankOutputsPerTx = 1
  MaxHeight = 3
  SettlementWindowEpochs = 1
  MaxChunksPerSettlement = 2
  MaxRecipientsPerChunk = 1
  PayoutFloor = 2
SYMMETRY SlotSymmetry
INVARIANTS
  AnyoneCanFinalize
