SPECIFICATION Spec
CONSTANTS
  JobCount = 2
  Workers = {w1, w2}
  Tokens = {t1, t2, t3}
  Handlers = {h1}
  Keys = {}
  Caps = {"gpu", "flux"}
  Requires <- GpuAfter
  AlsoNeeds <- ModelFirst
  Offers <- Mixed
  Kind <- OnceThenEach
  ScanLimit = 100
  MaxRecords = 2
  Prompt = FALSE
  None = None
INVARIANTS LeaseMatchesStatus
PROPERTIES CancelledIsFinal OutcomeFenced
SYMMETRY TokenSymmetry
CHECK_DEADLOCK FALSE
