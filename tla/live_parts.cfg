CONSTANTS
  c1 = c1
  c2 = c2
  b1 = b1
  hk = hk
  m1 = m1
  m2 = m2
  m3 = m3
  Clients = {c1, c2}
  Delays = {1, 2}
  TicksPerMs = 1
  LowWord = 1000
  MaxAsks = 1
  Horizon = 3
  Objects = {m1, m2, m3}
  Hash <- HashOf
  Sharers = {c1, c2}
  ArcCap0 = 2
  MaxDoubles = 2
  MaxShares = 2
  Vacant = Vacant
  Tomb = Tomb
  Reqs = {c1, c2}
  HartKey = hk
  Blocks = {b1}
  MemPending = MemPending
  MemDenied = MemDenied
  MemRing = 1
  Archives <- ArchivesNamed
  Abi = "12"
  HostPage = 4
  CapsRoom = 2
  BHarts = {0, 1, 2}
  XCap = 1
  MaxWakes = 2
  NHarts = 2
  Actors = {c1, c2}
  None = None
  TimerActor = None
  Pin = {c1, c2}
  Placed <- Apart
  Ready0 = {c1, c2}
  DonateHi = 1
  SCap = 1
  Quiet = 1
  Ops = 1
  Does <- SleepersSend
CHECK_DEADLOCK FALSE
SPECIFICATION AllFairSpec
INVARIANTS OnePlace TimersKept OnlyConsented
PROPERTIES ImplementsCountMap TakeReturns HostReturns WaitsEnd
