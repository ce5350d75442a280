SPECIFICATION Spec
CONSTANTS
  Servers = {1, 2}
  u1 = u1
  u2 = u2
  Users = {u1, u2}
  Targets = {"root"}
  e1 = e1
  e2 = e2
  Endpoints = {e1, e2}
  Agent = Agent
  AnyUser = AnyUser
  Absent = Absent
  NoProc = NoProc
  p1 = p1
  p2 = p2
  Procs = {p1, p2}
  Readers = {}
  MaxEdits = 0
  MaxLosses = 1
  Files <- MCFiles
SYMMETRY MCSymmetry
INVARIANTS
  ReferencesResolve
  ConfigAlwaysLoads
  NothingLeftBehind
PROPERTIES
  SecretsNeverOverwritten
  ImplementsAbstractHome
