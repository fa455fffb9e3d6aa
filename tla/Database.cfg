CONSTANTS
  p1 = p1
  p2 = p2
  c1 = c1
  c2 = c2
  c3 = c3
  w1 = w1
  NoProc = NoProc
  nodb = nodb
  NoDb = {nodb}
  NoGen = NoGen
  Procs = {p1, p2}
  Callers = {c1, c2, c3}
  ProcessOf <- TwoAndOne
  Writes = {w1}
  MaxCloses = 2
  MaxCrashes = 1
SPECIFICATION FairSpec
INVARIANTS
  AnsweredIsSaved
  LockHasAPurpose
PROPERTIES
  SingleWriter
  EveryInitSettles
