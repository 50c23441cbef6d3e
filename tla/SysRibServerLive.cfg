CONSTANTS
  i1 = i1
  i2 = i2
  p1 = p1
  p2 = p2
  c1 = c1
  Width = 1
  Routes <- TwoLinks
  Interfaces <- BothInterfaces
  Procs <- Two
  Watchers <- None_
  Policies <- None_
  Clients <- Client
  InitiallyUp <- BothInterfaces
  MayFail = TRUE
SPECIFICATION FairSpec
INVARIANT Converged
PROPERTY RunsAndJoinsEnd
CHECK_DEADLOCK FALSE
