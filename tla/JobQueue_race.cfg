SPECIFICATION Spec
CONSTANTS
  JobCount = 2
  Workers = {w1, w2}
  Tokens = {t1, t2}
  Handlers = {h1, h2}
  Keys = {k1}
  Caps = {"gpu", "flux"}
  Requires <- GpuAfter
  AlsoNeeds <- NoModels
  Offers <- AllGpu
  Kind <- OnceFirst
  ScanLimit = 100
  MaxRecords = 1
  Prompt = FALSE
  None = None
SYMMETRY Symmetry
CONSTRAINT Narrow
INVARIANTS TypeOK OneJobPerKey AttemptsAreClaims OneManifestPerJob
PROPERTIES ImplementsLeases
CHECK_DEADLOCK FALSE
