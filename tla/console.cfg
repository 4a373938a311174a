SPECIFICATION Spec
CONSTANTS
  SERVER_SIZE = 3
  Requests <- Forms
  Garbage = garbage
  CAP = 1
  MaxFakes = 2
CHECK_DEADLOCK FALSE
INVARIANTS OwnColumn InOrder StuckExplained
PROPERTIES Ends
