CONSTANTS
  main = main  a1 = a1  a2 = a2  a3 = a3  a4 = a4  a5 = a5  h1 = h1  h2 = h2  h3 = h3
  None = None  Main = main
  Actors = {main, a1, a2}
  Harts = {h1, h2}
  Pin = {main, a1, a2}
  Parked = {}
  RQCap = 1
  DonateHi = 1
  SCap = 2
  XCap = 3
  Does = {"spawn", "send", "receive", "yield", "kill", "exit"}
  Worlds = {"plain", "donate", "doorbell", "shared"}
  Home <- TwoHarts
  Listed <- AllReady
  Ops <- OneOp
CHECK_DEADLOCK FALSE
SPECIFICATION AllSpec
INVARIANTS TypeOK OneHart PinnedStay ListsKeep DonatedRuns SharedRing
