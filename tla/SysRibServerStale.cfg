CONSTANTS
  i1 = i1
  i2 = i2
  p1 = p1
  p2 = p2
  c1 = c1
  Width = 1
  Routes <- CyclicRoutes
  Interfaces <- FirstInterface
  Procs <- Two
  Watchers <- Second
  Policies <- None_
  Clients <- None_
  InitiallyUp <- None_
  MayFail = FALSE
SPECIFICATION Spec
INVARIANT ConvergedAlways
CHECK_DEADLOCK FALSE
