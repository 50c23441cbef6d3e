CONSTANTS
  w1 = w1
  w2 = w2
  Writers <- MCWriters
  Maxes <- MCMaxes
  MaxWrites = 4
SPECIFICATION Spec
INVARIANTS CountAccounting NoEmptyPop
PROPERTIES ImplementsFifo WritesReturn Delivered
CHECK_DEADLOCK FALSE
