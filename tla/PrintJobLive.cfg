CONSTANTS
  j1 = j1
  j2 = j2
  p1 = p1
  NoJob = NoJob
  Jobs = {j1, j2}
  Calls = {}
  Runners = {}
  Printers = {p1}
  PrinterOf <- SharedPrinter
  LocalWorker = TRUE
  StoreMayFail = FALSE
  MaxCrashes = 2
SPECIFICATION FairSpec
PROPERTIES
  EveryJobResolves
  VerdictIsAnnounced
  QueueDrains
CHECK_DEADLOCK FALSE
