CONSTANTS
  r1 = r1
  r2 = r2
  r3 = r3
  c1 = c1
  c2 = c2
  Reboots <- MCReboots
  Cancels <- MCCancels
SPECIFICATION FairSpec
INVARIANTS PendingIsExact CancelIsBlocking TokensAreOwned
PROPERTIES CallsEndUnlessCrossed
CHECK_DEADLOCK FALSE
