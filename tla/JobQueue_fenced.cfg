SPECIFICATION Spec
CONSTANTS
  JobCount = 1
  Workers = {w1, w2}
  Tokens = {t1, t2}
  Handlers = {h1, h2}
  Keys = {}
  Caps = {"gpu"}
  Requires <- GpuOnly
  AlsoNeeds <- NoModels
  Offers <- AllGpu
  Kind <- AllPlain
  ScanLimit = 100
  MaxRecords = 2
  Prompt = TRUE
  None = None
PROPERTY OutcomeFenced
CHECK_DEADLOCK FALSE
