SPECIFICATION Spec
CONSTANTS
  Null = Null
  feb = feb  quarter = quarter  garbled = garbled
  Periods <- MCPeriods
  Ranges <- MCRanges
  Bad <- MCBad
  Offers <- MCOffers
  Names <- MCNames
  MaxSteps = 2
  RowsOf <- MCRowsOf
  RowCaps <- MCRowCaps
  Rooms = {0, 70}
CHECK_DEADLOCK FALSE
INVARIANTS
  LevelNextToTrend
  FiguresAreTold
  NumbersAreOnThePage
  GapsAreTold
