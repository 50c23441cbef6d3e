SPECIFICATION Spec
CONSTANTS
  port = port
  table1 = table1
  table2 = table2
  id1 = id1
  id2 = id2
  Nil = Nil
  Objects <- MCObjects
  Ports <- MCPorts
  Devices <- MCPorts
  Ids <- MCIds
  MaxNid = 3
  MaxRefs = 3
CHECK_DEADLOCK FALSE
INVARIANTS RefsCounted UsedIsLive NidsDisjoint
PROPERTIES FoundUntilReleased CleanupsEnd
