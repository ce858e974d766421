SPECIFICATION Spec
CONSTANTS
  JobCount = 1
  Workers = {w1, w2}
  Tokens = {t1, t2}
  Handlers = {h1}
  Keys = {}
  Caps = {"gpu"}
  Requires <- GpuOnly
  AlsoNeeds <- NoModels
  Offers <- AllGpu
  Kind <- AllEach
  ScanLimit = 100
  MaxRecords = 2
  Prompt = TRUE
  None = None
SYMMETRY Symmetry
INVARIANT CompletionIdempotent
CHECK_DEADLOCK FALSE
