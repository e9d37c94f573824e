SPECIFICATION Spec
CONSTANTS
  k1 = k1
  k2 = k2
  k3 = k3
  a1 = a1
  a2 = a2
  mod = mod
  m1 = m1
  m2 = m2
  p1 = p1
  p2 = p2
  Keys = {k1, k2, k3}
  NoKey = NoKey
  Accounts = {a1, a2}
  NoAccount = NoAccount
  EconomicAccounts = {a1}
  MetadataValues = {m1}
  NoMetadata = NoMetadata
  PolicyValues = {p1}
  NoPolicy = NoPolicy
  ParamCandidates <- OneDoc
  GenesisIds = {1, 2}
  GenesisHolders <- OneAuthority
  HardMaxActiveCoreSlots = 3
  HardMinCooldown = 1
  MaxSlotID = 4
  MaxSequence = 2
  MaxVersion = 2
  IntMax = 16
  MaxHeight = 3
SYMMETRY Interchange
INVARIANTS
  NeverHalts
  ConsensusIndexExact
  OperatorIndexExact
  RotationsMatchSlots
  LastAppliedMirrorsCometBFT
  LockoutHonoured
PROPERTIES
  ValidatorSetFollowsSlots
