CONSTANTS
  a1 = a1  a2 = a2  a3 = a3  None = None
  NHarts = 2
  Actors = {a1, a2}
  TimerActor = None
  Pin = {a1, a2}
  Ready0 = {a1, a2}
  DonateHi = 1
  SCap = 1
  Quiet = 1
  Ops = 1
  Does <- SleepersTalk
  Placed <- Apart
CHECK_DEADLOCK FALSE
SPECIFICATION Spec
INVARIANTS NoFalseAlarm
