\* A crash between the two renames of restoreBackup leaves no Desktop to start:
\* the system does stop there.
CHECK_DEADLOCK FALSE
SPECIFICATION FairSpec
CONSTANTS
  Apply = apply
  Recoverers = {r1, r2}
  MaxFailures = 2
  MaxCrashes = 2
INVARIANTS
  TreeIsRestorable
  DatabaseIsRestorable
PROPERTIES
  IsATransaction
  InterruptedUpdateEnds
