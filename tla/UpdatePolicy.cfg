SPECIFICATION Spec
CONSTANTS
  Versions = {1, 2}
  MaxFailures = 2
  MaxBad = 3
INVARIANTS
  BlockedIsNotTried
  BlockedForItsFailures
  OneOutcomeAtATime
