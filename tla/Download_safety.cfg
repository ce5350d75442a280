SPECIFICATION FairSpec
CONSTANTS
  g1 = g1
  g2 = g2
  Gets = {g1, g2}
  Consented <- MCConsented
  Size = 2
  Absent = Absent
  Directory = Directory
  Theirs = Theirs
  Initially <- MCInitially
  MaxEdits = 2
  MaxLosses = 1
INVARIANTS
  DestinationIsComplete
  StagedFilesRemoved
PROPERTIES
  ReplacesOnlyWithConsent
  SuccessIsDurable
  GetsEnd
