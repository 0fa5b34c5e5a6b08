SPECIFICATION ConfigSpec
CONSTANTS
  a = a
  b = b
  sa = sa
  sb = sb
  sc = sc
  ra = ra
  rb = rb
  g = g
  h264 = h264
  h265 = h265
  vp8 = vp8
  host = host
  absent = absent
  noname = noname
  upper = upper
  ID = {a, b}
  SenderKey = {sa, sb, sc}
  ReceiverKey = {ra, rb}
  Key = {sa, sb, sc, ra, rb, upper}
  NoName = noname
  Codec = {h264, h265, vp8}
  H264 = h264
  OtherCodec = {h265}
  Group = {g}
  Files <- SomeFiles
  Documents <- SomeDocuments
  DelayInputs <- SomeDelays
  OptionInputs <- SomeOptions
  CodecInputs <- SomeCodecs
  Host = {host}
  Scope <- OneScope
  Absent = absent
  MaxCameras = 2
  MaxSessions = 1
  MaxOps = 2
INVARIANTS
  InRange
  MemoryIsDisk
  CrashIsAtomic
  LiveCurrent
PROPERTIES
  NoNewAmbiguity
CHECK_DEADLOCK FALSE
