SPECIFICATION FairSpec
CONSTANTS
  c1 = c1
  s1 = s1
  s2 = s2
  video = video
  None = None
  Camera = {c1}
  Session = {s1, s2}
  Kind = {}
  CameraOf <- AllToOne
PROPERTIES
  SlotReleased
  DeadPublisherForgotten
  CloseDrains
CHECK_DEADLOCK FALSE
