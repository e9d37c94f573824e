SPECIFICATION FairSpec
CONSTANTS
  k1 = k1
  k2 = k2
  k3 = k3
  a1 = a1
  a2 = a2
  mod = mod
  m1 = m1
  m2 = m2
  p1 = p1
  p2 = p2
  Keys = {k1, k2}
  NoKey = NoKey
  Accounts = {a1, a2, mod}
  NoAccount = NoAccount
  EconomicAccounts = {a1, a2}
  MetadataValues = {m1}
  NoMetadata = NoMetadata
  PolicyValues = {p1, p2}
  NoPolicy = NoPolicy
  ParamCandidates <- OneDoc
  GenesisIds = {1}
  GenesisHolders <- TwoAuthorities
  HardMaxActiveCoreSlots = 3
  HardMinCooldown = 1
  MaxSlotID = 2
  MaxSequence = 1
  MaxVersion = 3
  IntMax = 31
  MaxHeight = 4
INVARIANTS
  PoliciesResolve
PROPERTIES
  HandoverByAcceptance
  RotationSettles
  PolicyHistoryStable
