SPECIFICATION Spec
CONSTANTS
  Names = {1, 2}
  h1 = h1
  h2 = h2
  Homes = {h1, h2}
  Builtin = h2
  Invocations = {p1, p2, p3}
  None = None
  Commands <- MCCommands
  Registries <- MCRegistries
  MaxEdits = 1
SYMMETRY AnyInvocation
INVARIANTS
  NamespacesStaySeparate
PROPERTIES
  NoUpdateLost
