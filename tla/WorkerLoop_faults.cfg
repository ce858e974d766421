SPECIFICATION FairLoop
CONSTANTS
  JobCount = 1
  Workers = {w1, w2}
  Tokens = {t1, t2, t3}
  Handlers = {h1}
  Keys = {}
  Caps = {"gpu"}
  Requires <- GpuOnly
  AlsoNeeds <- NoModels
  Offers <- AllGpu
  Kind <- AllPlain
  ScanLimit = 100
  MaxRecords = 1
  Prompt = TRUE
  MaxFaults = 1
  MaxStops = 1
  None = None
PROPERTIES EveryJobEnds StaleWorkerStops
CHECK_DEADLOCK FALSE
