CONSTANTS
  a1 = a1  a2 = a2  a3 = a3  None = None
  NHarts = 2
  Actors = {a1, a2, a3}
  TimerActor = a1
  Pin = {a1, a2}
  Ready0 = {a1, a2, a3}
  DonateHi = 1
  SCap = 1
  Quiet = 1
  Ops = 1
  Does <- SleeperAndKiller
  Placed <- SecondApart
CHECK_DEADLOCK FALSE
SPECIFICATION FairSpec
INVARIANTS DoorbellPending TimerHeard
PROPERTIES WokenRuns DeadlockFound
