SPECIFICATION RetargetSpec
CONSTANTS
  a = a
  b = b
  sa = sa
  sb = sb
  sc = sc
  ra = ra
  rb = rb
  g = g
  h264 = h264
  noname = noname
  video = video
  w1 = w1
  w2 = w2
  ID = {a, b}
  SenderKey = {sa, sb, sc}
  ReceiverKey = {ra, rb}
  NoName = noname
  Codec = {h264}
  H264 = h264
  OtherCodec = {}
  Group = {g}
  Worker = {w1, w2}
  Kind = {video}
  None = None
  Lists <- TwoCameras
  Documents <- SomeDocuments
  DelayInputs <- TwoDelays
  OptionInputs <- OnOff
INVARIANT
  GroupAligned
