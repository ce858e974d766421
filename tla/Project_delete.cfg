SPECIFICATION SchemaSpec
CONSTANTS
  Watched = {"projects", "scene_revisions", "jobs", "progress_snapshots", "deviations"}
INVARIANTS DeletionRemovesAll
CHECK_DEADLOCK FALSE
