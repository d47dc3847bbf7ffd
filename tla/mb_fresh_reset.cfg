CONSTANTS
  s1 = s1  s2 = s2  s3 = s3  s4 = s4  h1 = h1  h2 = h2
  Senders = {s1, s2}
  Recv = Recv  NoKey = NoKey  SharedKey = SharedKey  Idle = Idle
  Harts = {h1, h2}
  HartOf <- SendersApart
  Bound <- Unbound
  SHIDX = 1
  Cap0 = 1  RingMax = 2  Dyn = TRUE
  CW = 16  Start = 0
  Sends = 1
  Results <- NoResult
  Kinds = {"any"}
  Mortal = {}
CHECK_DEADLOCK FALSE
SPECIFICATION Spec
INVARIANTS OkMeansQueuedOnce
