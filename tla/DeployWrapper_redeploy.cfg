SPECIFICATION Spec
CONSTANTS
  Releases = {1, 2, 3}
  Level <- LastMigrates
  Keep = 2
  EdgeHere = TRUE
  WebHere = TRUE
  Receivers = 1
  MaxFaults = 1
  Mixed = Mixed
  None = None
INVARIANT RedeployWorks
CHECK_DEADLOCK FALSE
