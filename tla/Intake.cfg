CONSTANTS
  r1 = r1
  m1 = m1
  m2 = m2
  h1 = h1
  Requests = {r1}
  Messages = {m1, m2}
  RequestOf <- RepeatedMessage
  NullBodies = {m2}
  Calls = {h1}
  CallFor <- RepeatedCall
  LocalWorker = TRUE
  MaxDeliver = 2
  MaxConnections = 2
  MaxCrashes = 1
SPECIFICATION FairSpec
INVARIANTS
  OneJobPerRequest
  AcceptedIsQueued
PROPERTIES
  EveryMessageIsTried
CHECK_DEADLOCK FALSE
