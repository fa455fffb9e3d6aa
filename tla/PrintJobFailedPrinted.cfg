CONSTANTS
  j1 = j1
  j2 = j2
  p1 = p1
  NoJob = NoJob
  Jobs = {j1, j2}
  Calls = {}
  Runners = {}
  Printers = {p1}
  PrinterOf <- SharedPrinter
  LocalWorker = TRUE
  StoreMayFail = FALSE
  MaxCrashes = 0
SPECIFICATION Spec
INVARIANTS
  FailedMeansNothingPrinted
CHECK_DEADLOCK FALSE
