SPECIFICATION Spec
CONSTANTS
  MaxRevs = 3
  Commands = {c1}
  Variants = {v1, v2}
  Handlers = {h1, h2}
  MaxOverlaps = 1
  None = None
INVARIANT CanonicalNeverForks
CHECK_DEADLOCK FALSE
