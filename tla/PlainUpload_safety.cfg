SPECIFICATION FairSpec
CONSTANTS
  ConnectTimeout = 3
  OperationTimeouts <- MCTimeouts
  NoTimeout = NoTimeout
  TicksPerMilli = 2
  Resolutions <- MCResolutions
  KexRetries = 2
  Logins = 2
  Contents <- MCContents
  Buffer = 2
  MaxEdits = 1
  Old <- MCOld
INVARIANTS
  UploadIsWhole
  ReturnsInTime
  GivesUpOnlyInTime
PROPERTY
  PutReturns
