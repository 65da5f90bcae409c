SPECIFICATION Spec
CONSTANTS
  app = app
  config = config
  plugin = plugin
  folder = folder
  Files <- MCFiles
  Folder = folder
  Inside <- MCInside
  Releases <- MCReleases
  NV_S_CLOSED_WHILE_UPDATER_RUNNING = 208
  none = none
  MaxFaults = 1
INVARIANTS
  ErrorLeavesInstallation
  InstalledAsWanted
  SuccessIsTheSetups
PROPERTIES
  UserFilesSurvive
  AttemptEnds
CHECK_DEADLOCK FALSE
