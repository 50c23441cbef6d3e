CONSTANTS
  k1 = k1
  k2 = k2
  k3 = k3
  b = b
  x = x
  y = y
  Keys <- MCKeys
  Acts <- MCActs
  Bucket <- MCBucket
  Nil = Nil
  Timeout = 1
  EmptySleep = 2
  MaxEntries = 3
  MaxTime = 2
SPECIFICATION Spec
CONSTRAINT NotStrayed
INVARIANTS StaleListIsExact ActionsBalanced MonitorInTime
PROPERTIES ImplementsMap
SYMMETRY MCSymmetry
CHECK_DEADLOCK FALSE
