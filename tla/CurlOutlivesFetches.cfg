SPECIFICATION Spec
CONSTANTS
  Urls = {u1, u2}
  Loadable = {u1}
  Fetches = {f1, f2}
  none = none
  MaxOutages = 0
INVARIANT CurlOutlivesFetches
CHECK_DEADLOCK FALSE
