SPECIFICATION RevokeSpec
CONSTANTS
  c1 = c1
  s1 = s1
  s2 = s2
  None = None
  Camera = {c1}
  Session = {s1}
  Kind = {}
  CameraOf <- AllToOne
SYMMETRY Interchangeable
INVARIANT
  RevokedDisconnected
CHECK_DEADLOCK FALSE
