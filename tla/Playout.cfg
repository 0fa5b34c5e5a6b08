SPECIFICATION PlayoutSpec
CONSTANTS
  audio = audio
  video = video
  Kind = {audio, video}
  Video = video
  Second = 1
  Growth = 1
  Margin = 1
  Quiet = 1
  MinCatchUp = 1
  MaxCatchUp = 3
  Hysteresis = 2
  MinMargin = 0
  Tolerance = 0
  RecoveryWindow = 4
  Starts <- OnOrOff
  Settings <- OffOrLater
  MaxTime = 2
  Lags <- VideoLags
  MaxTracks = 2
  MaxQueue = 1
  MaxChanges = 1
INVARIANTS
  JumpsShared
  OneSchedule
  OneTimeline
  DelayBounded
CHECK_DEADLOCK FALSE
