SPECIFICATION Spec
CONSTANTS
  absent = absent
  Absent = absent
  Digests = {"d1", "d2"}
  Certs <- MCCerts
  Pins <- MCPins
  LocalConfigs <- MCLocalConfigs
  SharedConfigs <- MCSharedConfigs
  Releases <- MCReleases
  SayNotSigned <- MCSayNotSigned
  MaxLost = 1
  ShortFields = {"subject"}
  UpdaterFiles <- MCUpdaterFiles
  SetupFiles <- MCSetupFiles
INVARIANTS
  LaunchedAsPromised
  RenewalAccepted
  HandlesBalanced
PROPERTY
  ProcessEnds
CHECK_DEADLOCK FALSE
