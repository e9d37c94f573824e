SPECIFICATION AlgorithmsSpec
CHECK_DEADLOCK FALSE
CONSTANTS
  Caps = {1, 2, 3, 5, 8, 10, 13, 21}
  Subsidies = {0, 1, 3, 4, 9, 30}
  EpochBlocks = {0, 1, 2, 5}
  MaxBlocks = 12
  t = t
  e1 = e1
  e2 = e2
  Slots = {t, e1, e2}
  TargetSlot = t
  NoSlot = NoSlot
  BlockHashes = {0, 1}
  CandidateLists <- MCCandidateLists
  TicketHash <- MCTicketHash
  EpochStarts <- MCEpochStarts
  BeaconParams <- MCBeaconParams
  Limits <- MCLimits
  BasisPointsDenominator = 4
  AbsoluteMaxSelectionRateBps = 2
  MaxUint64 = 7
INVARIANTS
  EmissionFillsTiers
  OwnBlocksDoNotCount
  DrawIsExact
  CandidatesBeforeRandomness
