\* Jobs, requests and crashes are bounded: the system rests when they are spent.
CHECK_DEADLOCK FALSE
SPECIFICATION FairSpec
CONSTANTS
  Jobs = {j1}
  Versions = {1}
  MaxOperations = 2
  MaxCrashes = 1
INVARIANTS
  InstallsOverNothing
  FailsClosed
  GateHasAReason
PROPERTIES
  EveryOperationEnds
  GateReopens
