SPECIFICATION Spec
CONSTANTS
  Urls = {u1, u2, u3}
  Loadable = {u1, u2}
  Fetches = {f1, f2, f3, f4}
  none = none
  MaxOutages = 2
INVARIANTS
  OneFetchPerImage
  NoFetchLeftRunning
PROPERTIES
  CachedIsKept
  LoadableShown
  ProcessEnds
CHECK_DEADLOCK FALSE
