SPECIFICATION SpecLoop
CONSTANTS
  JobCount = 1
  Workers = {w1, w2}
  Tokens = {t1, t2, t3}
  Handlers = {h1, h2}
  Keys = {}
  Caps = {"gpu"}
  Requires <- GpuOnly
  AlsoNeeds <- NoModels
  Offers <- AllGpu
  Kind <- AllPlain
  ScanLimit = 100
  MaxRecords = 1
  Prompt = TRUE
  MaxFaults = 0
  MaxStops = 1
  None = None
SYMMETRY Symmetry
INVARIANTS FailureIsReal
PROPERTIES ReleasesBeforeStopping FinishedWorkReported
CHECK_DEADLOCK FALSE
