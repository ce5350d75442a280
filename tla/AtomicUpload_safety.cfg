SPECIFICATION FairSpec
CONSTANTS
  a1 = a1
  a2 = a2
  a3 = a3
  Uploads = {a1, a2, a3}
  Taken <- MCTaken
  Size = 2
  Absent = Absent
  Old = Old
  Foreign = Foreign
INVARIANTS
  DestinationIsWhole
  ForeignFilesUntouched
  ReportsAreTrue
PROPERTIES
  UploadsEnd
