SPECIFICATION Spec
CONSTANTS
  AssetSize = 2
  ErrorPageSize = 1
  DeclaredSizes <- MCDeclaredSizes
  MAX_RETRY_COUNT = 2
  MAX_TIMEOUT_SECS = 3
  MAX_TIMEOUT_SECS_TOTAL = 5
  MaxFileSize = 2
  MaxFileFaults = 0
INVARIANTS
  TasksDoNotOverlap
  SetupRunsVerifiedFile
  StrictInstallsAsset
  FinishedMeansInstalled
PROPERTIES
  ImplementsVerifiedInstall
  QuitEnds
  RoundEnds
