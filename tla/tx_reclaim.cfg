CONSTANTS
  c1 = c1
  c2 = c2
  p1 = p1
  p2 = p2
  h1 = h1
  h2 = h2
  m1 = m1
  m2 = m2
  nobody = nobody
  Callers = {c1, c2}
  Payloads <- PayloadCells
  OutCap = 4
  OpsOf <- OpsAllowed
  MaxRecords = 2
  MaxDeaths = 1
  RawPeers = {p1, p2}
  NoRaw = NoRaw
  MAXCONN = 1
  RXCAP = 1
  TXCAP = 1
  KernRoom = 1
  SendLen = 2
  WriteLen = 3
  QCap = 4
  SplitEnd = FALSE
  BufCap = 3
  RecLen = 2
  InjCap = 3
  MaxKeys = 4
  MaxSizes = 3
  c3 = c3
  Worlds = {"scripts"}
  Sols = {c1, c2, c3}
  SolRuns <- IncSumBump
  Srcs = {m1, m2, p1, p2}
  PlicHarts = {h1, h2}
  IrqHart = h2
  RunsOn <- HandlerOn
  WordOf <- WordsOf
  MaxRaised <- RaisesOf
  Word = 3
  TMax = 6
CHECK_DEADLOCK FALSE
SPECIFICATION AllSpec
INVARIANTS OneAfterAnother
