SPECIFICATION Spec
CONSTANTS
  Processes = {p1, p2}
  gone = gone
  RunAsTemporaryCopy = TRUE
  CommandLines <- MCCommandLines
  MAX_BUSY_RETRIES = 2
  MaxRareEvents = 1
INVARIANTS
  NoForkBomb
  OnlyOriginRegistered
PROPERTY RunsEnd
