CONSTANTS
  s1 = s1  s2 = s2  s3 = s3  s4 = s4  h1 = h1  h2 = h2
  Senders = {s1, s2}
  Recv = Recv  NoKey = NoKey  SharedKey = SharedKey  Idle = Idle
  Harts = {h1, h2}
  HartOf <- SendersTogether
  Bound <- BoundToFirst
  SHIDX = 1
  Cap0 = 1  RingMax = 2  Dyn = TRUE
  CW = 16  Start = 0
  Sends = 2
  Results <- NoResult
  Kinds = {"any"}
  Mortal = {s1}
CHECK_DEADLOCK FALSE
SPECIFICATION FairSpec
INVARIANTS OneWriter
PROPERTIES Delivered SendReturns
