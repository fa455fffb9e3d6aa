CONSTANTS
  c1 = c1
  h1 = h1
  s1 = s1
  s2 = s2
  j1 = j1
  NoRecord = NoRecord
  Jobs = {j1}
  Records = {h1, c1}
  JobOf <- OneJob
  HttpRecords = {h1}
  CoreRecords = {c1}
  Sweeps = {s1, s2}
  MaxAttempts = 2
  MaxCrashes = 1
SPECIFICATION FairSpec
INVARIANTS
  OneSender
  AcknowledgedWasReceived
  AttemptsAreBounded
PROPERTIES
  FollowsTheRecord
  EveryRecordSettles
CHECK_DEADLOCK FALSE
