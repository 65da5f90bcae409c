SPECIFICATION DownloadSpec
CONSTANTS
  AssetSize = 3
  ErrorPageSize = 1
  DeclaredSizes <- MCDeclaredSizes
  MAX_RETRY_COUNT = 3
  MAX_TIMEOUT_SECS = 3
  MAX_TIMEOUT_SECS_TOTAL = 10
  MaxFileSize = 4
  MaxFileFaults = 1
INVARIANTS
  NeverScrambled
  AcceptedFileIsWhole
  RetryBudget
PROPERTIES
  CallReturns
