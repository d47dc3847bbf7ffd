CONSTANTS
  c1 = c1
  c2 = c2
  s1 = s1
  s2 = s2
  s3 = s3
  m1 = m1
  m2 = m2
  g1 = g1
  g2 = g2
  a1 = a1
  a2 = a2
  a3 = a3
  b1 = b1
  b2 = b2
  Actors = {a1, a2, a3}
  Harts = {g1}
  Home <- OnFirst
  Pin = {a1, a2}
  Prio = {}
  Tau = 0
  RQCap = 2
  DonateHi = 2
  SCap = 1
  Mortal = {a2}
  MaxAdm = 7
  BClients = {c1}
  Units = 6
  TopOrder = 3
  MaxHold = 3
  ArcActors = {c1, c2}
  Slabs = {s1, s2, s3}
  Roots = {m1, m2}
  NoSlab = NoSlab
  NoOne = NoOne
  SlabCap = 2
  DPN = 2
  MaxCount = 2
  MaxDrops = 2
  LHarts = {g1, g2}
  Tasks = {c1, c2}
  TaskHart <- TaskOn
  Acbs = {a1, a2, a3}
  ChBlocks = {b1, b2}
  NoAcb = NoAcb
  NoBlk = NoBlk
  Nobody = Nobody
  PerRefill = 1
  PerCarve = 2
  ParkInSend = FALSE
  PoolSlabs = {s1, s2}
  SlabRoom = 4
  Small = {2}
  Big = {3, 4}
  Droppers = {c1}
  Owner = c2
  Null = Null
  Recycles = TRUE
  Worlds = {"copy"}
  HeapNil = TRUE
  EqDepth = 4
CHECK_DEADLOCK FALSE
SPECIFICATION AllSpec
INVARIANTS SendAnswers
