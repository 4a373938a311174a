SPECIFICATION Spec
CONSTANTS
  Browser = {1, 2, 3}
  SERVER_SIZE = 2
  Requests <- Asked
CHECK_DEADLOCK FALSE
INVARIANTS PageExplained
PROPERTIES Answered
