CONSTANTS
  k1 = k1
  k2 = k2
  k3 = k3
  b = b
  x = x
  y = y
  Keys <- MCOneKey
  Acts <- MCActs
  Bucket <- MCOneBucket
  Nil = Nil
  Timeout = 1
  EmptySleep = 2
  MaxEntries = 1
  MaxTime = 2
SPECIFICATION Spec
INVARIANTS StaticStays
CHECK_DEADLOCK FALSE
