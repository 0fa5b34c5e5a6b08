SPECIFICATION FairServerSpec
CONSTANTS
  c1 = c1
  s1 = s1
  s2 = s2
  u1 = u1
  u2 = u2
  video = video
  None = None
  Camera = {c1}
  Session = {s1, s2}
  Kind = {video}
  CameraOf <- OneCamera
  Subscriber = {u1, u2}
  SubCamera <- OneSubCamera
  maxSubscribers = 1
  maxSubscribersPerIngest = 2
INVARIANTS
  SubscribersOfOwner
  Capacity
  NoOrphan
  ClosedStaysEmpty
PROPERTIES
  StalePeersClosed
  SlotNotRetained
  ReservationsReturned
CHECK_DEADLOCK FALSE
