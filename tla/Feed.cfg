SPECIFICATION FairFeedSpec
CONSTANTS
  Targets = {1, 2}
  Lags = {0, 2}
  Moves <- Backwards
  Offsets = {0, 1}
  MaxFall = 1
  maxPaceLag = 1
  Cadence = 4
  Margin = 2
  MaxLate = 5
  MaxQueue = 3
  MaxChanges = 1
INVARIANT
  OnTime
PROPERTY
  CloseReturns
CHECK_DEADLOCK FALSE
