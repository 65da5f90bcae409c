SPECIFICATION Spec
CONSTANTS
  Updaters = {u1}
  NumUrls = 2
  RETRIES = 2
  MaxVersion = 3
  Qualities <- MCAllQualities
  MaxFaults = 2
  ReadsMayFail = TRUE
INVARIANTS
  NoRollback
PROPERTIES
  RunsReachNewest
