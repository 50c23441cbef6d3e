CONSTANTS
  i1 = i1
  i2 = i2
  p1 = p1
  p2 = p2
  c1 = c1
  Width = 1
  Routes <- CyclicRoutes
  Interfaces <- FirstInterface
  Procs <- Two
  Watchers <- Two
  Policies <- HostPolicy
  Clients <- Client
  InitiallyUp <- FirstInterface
  MayFail = TRUE
SPECIFICATION Spec
SYMMETRY Interchangeable
CONSTRAINT NotRaced
INVARIANTS Converged NoNilRoute ClientInSync
PROPERTY OnlyDiffsProgrammed
CHECK_DEADLOCK FALSE
