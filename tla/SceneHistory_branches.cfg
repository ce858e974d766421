SPECIFICATION Spec
CONSTANTS
  MaxRevs = 3
  Commands = {c1}
  Variants = {v1, v2}
  Handlers = {h1, h2}
  MaxOverlaps = 1
  None = None
SYMMETRY Symmetry
PROPERTIES ImplementsBranches
INVARIANTS VariantEditsKept BranchesOwned CanonicalLinear OneApproved
CHECK_DEADLOCK FALSE
