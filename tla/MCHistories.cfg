SPECIFICATION HistoriesSpec
CONSTANTS
  Lengths = {2, 3}
  GenesisLength = 2
  Values <- SomeValues
  GenesisValue <- FirstValues
  ProjectionHorizon = 1
  MaxHeight = 9
  MaxWrites = 2
  MaxAhead = 2
  MaxLost = 1
INVARIANTS
  HaltsOnlyForSelection
  HistoriesTile
  StampsHold
  LookupHonest
PROPERTIES
  HistoryStable
CHECK_DEADLOCK FALSE
