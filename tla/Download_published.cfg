SPECIFICATION Spec
CONSTANTS
  g1 = g1
  g2 = g2
  Gets = {g1, g2}
  Consented <- MCConsented
  Size = 2
  Absent = Absent
  Directory = Directory
  Theirs = Theirs
  Initially = {Theirs}
  MaxEdits = 0
  MaxLosses = 1
INVARIANTS
  FailedGetReplacesNothing
