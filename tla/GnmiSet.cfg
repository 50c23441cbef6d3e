SPECIFICATION Spec
CONSTANTS
  p1 = p1
  p2 = p2
  ref = ref
  target = target
  def = def
  s1 = s1
  s2 = s2
  v1 = v1
  v2 = v2
  Nil = Nil
  Procs <- MCProcs
  Config <- MCConfig
  State <- MCState
  Vals <- MCVals
  Defaults <- MCDefaults
  Refs <- MCRefs
  Denied <- MCDenied
  Parts <- MCParts
  Requests <- MCRequests
  MaxTime = 2
  MaxSets = 3
  MaxFailures = 1
CHECK_DEADLOCK FALSE
INVARIANTS Agreement ConfigNeverDropped ValidPublished
PROPERTIES OnlyPermitted
