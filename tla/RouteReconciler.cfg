SPECIFICATION Spec
CONSTANTS
  p1 = p1
  p2 = p2
  h1 = h1
  h2 = h2
  Prefixes <- MCPrefixes
  Hops <- MCHops
  GueHops <- MCGueHops
  Routes <- MCRoutes
  Iface = Iface
  Nil = Nil
  MaxEvents = 4
  MaxFailures = 2
SYMMETRY MCSymmetry
CHECK_DEADLOCK FALSE
INVARIANTS EntriesResolve Settled HopsAccounted
PROPERTIES SwitchesAtOnce
