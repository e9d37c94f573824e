SPECIFICATION UpgradesSpec
CHECK_DEADLOCK FALSE
CONSTANTS
  n1 = n1
  n2 = n2
  n3 = n3
  Nodes = {n1, n2, n3}
  Power <- MCPower
  Releases <- MCReleases
  GenesisRelease = 0
  StrictRelease = 1
  GasRelease = 2
  MaxHeight = 3
  MaxFaults = 1
INVARIANTS
  SameHeightSameState
  UpgradesRunAsScheduled
PROPERTIES
  BlocksGetExecuted
