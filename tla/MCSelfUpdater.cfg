SPECIFICATION Spec
CONSTANTS
  Updaters = {u1, u2}
  MAX_POLLS = 3
INVARIANTS
  OnlyVerifiedInPlace
  GoodCopyExists
  RestoredWhenDone
PROPERTIES
  InstanceEnds
CHECK_DEADLOCK FALSE
