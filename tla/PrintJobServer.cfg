CONSTANTS
  c1 = c1
  c2 = c2
  j1 = j1
  w1 = w1
  w2 = w2
  p1 = p1
  NoJob = NoJob
  Jobs = {j1}
  Calls = {c1, c2}
  Runners = {w1, w2}
  Printers = {p1}
  PrinterOf <- SharedPrinter
  LocalWorker = FALSE
  StoreMayFail = TRUE
  MaxCrashes = 1
SPECIFICATION Spec
INVARIANTS
  CancelledNeverPrints
  OnePagePerVerdict
CHECK_DEADLOCK FALSE
