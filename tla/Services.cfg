SPECIFICATION ServicesSpec
CONSTANTS
  Watched = {"projects", "scene_revisions", "scene_variants", "assets", "product_candidates", "budget_items", "jobs", "design_commands"}
  Handlers = {h1, h2}
  Deviations = {d1}
  Turns = {j1}
  TurnLength = 2
  MaxRevs = 5
  MaxAssets = 3
  MaxQueued = 1
  MaxRequests = 4
  MaxMishaps = 1
  Cookies = {s1}
  Requests = {q1, q2}
  Clients = {c1}
  MaxAge = 3
  IdleTtl = 2
  MaxDelay = 3
  MaxTime = 4
  Ids = {e1}
  Values = {v1}
  Unset = Unset
  Offered <- Bare
  Tasks = {t1, t2}
  Deadline = 1
  MaxTroubles = 1
  Editors = {w1, w2}
  Products = {p1}
  Lines = {l1, l2}
  Nothing = Nothing
  Price = 7
  Count = 2
  Size = 3
  Waste = 10
  PackageSize = 2
  Found <- Known
  Sent <- Some
  Patches <- Changes
  MaxEdits = 4
  MaxCollisions = 1
INVARIANTS
  ChainSound LockMeansLinear
   AcceptedIsApplied TurnsUnmixed OneAtATime
  ThrottleAddsUp
  ResultIsOwn NoPromptLeft
  AmountHasCurrency ReportIsWhole
PROPERTIES
  DeadStaysDead LocksHold ExecutionEnds
CHECK_DEADLOCK FALSE
