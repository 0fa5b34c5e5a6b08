SPECIFICATION FairBufferSpec
CONSTANTS
  r1 = r1
  r2 = r2
  Reader = {r1, r2}
  Packet <- Lengths
  Room = {2, 3}
  Base = 2
  receiveBufferBytes = 9
  minAlloc = 4
INVARIANTS
  NoLostWakeup
  DeadlineReachesAll
PROPERTIES
  ImplementsQueue
  CloseWakes
  Delivered
