CONSTANTS
  c1 = c1
  c2 = c2
  j1 = j1
  w1 = w1
  p1 = p1
  NoJob = NoJob
  Jobs = {j1}
  Calls = {c1, c2}
  Runners = {w1}
  Printers = {p1}
  PrinterOf <- SharedPrinter
  LocalWorker = TRUE
  StoreMayFail = FALSE
  MaxCrashes = 1
SPECIFICATION Spec
INVARIANTS
  OneExecutor
  OnePagePerVerdict
  AnnouncedStaysTrue
  NoLostJob
PROPERTIES
  FollowsTheLifecycle
CHECK_DEADLOCK FALSE
