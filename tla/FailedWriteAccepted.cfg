SPECIFICATION DownloadSpec
CONSTANTS
  AssetSize = 2
  ErrorPageSize = 1
  DeclaredSizes <- MCNoDeclaredSize
  MAX_RETRY_COUNT = 3
  MAX_TIMEOUT_SECS = 3
  MAX_TIMEOUT_SECS_TOTAL = 10
  MaxFileSize = 3
  MaxFileFaults = 1
INVARIANT FailedWriteStopsTransfer
