SPECIFICATION Spec
CONSTANTS
  Processes = {p1, p2}
  gone = gone
  RunAsTemporaryCopy = FALSE
  CommandLines <- MCCommandLines
  MAX_BUSY_RETRIES = 2
  MaxRareEvents = 2
PROPERTIES
  TaskHealed
  UpdateOffered
