SPECIFICATION Spec
CONSTANTS
  c1 = c1
  s1 = s1
  s2 = s2
  video = video
  None = None
  Camera = {c1}
  Session = {s1, s2}
  Kind = {video}
  CameraOf <- AllToOne
SYMMETRY Interchangeable
INVARIANTS
  MediaOfOwner
  BuffersOfOwner
  OneSessionPerCamera
  CleanupHoldsCamera
  LiveOfOwner
PROPERTY
  ImplementsOwnership
CHECK_DEADLOCK FALSE
