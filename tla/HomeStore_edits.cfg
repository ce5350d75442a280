SPECIFICATION FairSpec
CONSTANTS
  Servers = {1, 2}
  u1 = u1
  u2 = u2
  Users = {u1}
  Targets = {"root"}
  e1 = e1
  e2 = e2
  Endpoints = {e1}
  Agent = Agent
  AnyUser = AnyUser
  Absent = Absent
  NoProc = NoProc
  p1 = p1
  p2 = p2
  Procs = {p1, p2}
  Readers = {r1}
  MaxEdits = 1
  MaxLosses = 0
  Files <- MCLegacy
PROPERTIES
  NoLostUpdate
  ReaderMissesOnlyIfChanged
  CommandsReturn
