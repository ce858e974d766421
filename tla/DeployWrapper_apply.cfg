SPECIFICATION Spec
CONSTANTS
  Releases = {1, 2, 3}
  Level <- LastMigrates
  Keep = 2
  EdgeHere = TRUE
  WebHere = TRUE
  Receivers = 1
  MaxFaults = 2
  Mixed = Mixed
  None = None
INVARIANTS DeployedIsLive RetentionSafe BaselineKept SchemaReady
PROPERTY ImplementsReleases
CHECK_DEADLOCK FALSE
