CONSTANTS
  r1 = r1
  m1 = m1
  m2 = m2
  h1 = h1
  Requests = {r1}
  Messages = {m1, m2}
  RequestOf <- RepeatedMessage
  NullBodies = {}
  Calls = {h1}
  CallFor <- RepeatedCall
  LocalWorker = TRUE
  MaxDeliver = 2
  MaxConnections = 2
  MaxCrashes = 1
SPECIFICATION Spec
PROPERTIES
  OnlyPoisonIsGivenUp
CHECK_DEADLOCK FALSE
