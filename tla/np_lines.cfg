SPECIFICATION Spec
CONSTANTS
  FILE_MAX = 4
  Lines <- RingLines
  CAP = 1
  MaxOut = 0
  MaxLine = 5
CHECK_DEADLOCK FALSE
INVARIANTS WritersEarlier ReadWhenDue KeptUntilDue
