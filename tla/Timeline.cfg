SPECIFICATION TimelineSpec
CONSTANTS
  Wrap = 20
  SeqWrap = 20
  Start = 17
  Jumps <- BackAndForth
  Lags = {0, 1}
  Reanchor = 1
  target = 1
  Margin = 2
  Tolerance = 1
  MaxTime = 11
  Silence = 3
  Held = 4
  MaxQueue = 2
INVARIANTS
  OneMapping
  JumpUndone
  TakenBackOnce
  OldClockHarmless
CHECK_DEADLOCK FALSE
