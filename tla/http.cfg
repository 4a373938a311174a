SPECIFICATION Spec
CONSTANTS
  Browser = {1, 2, 3}
  Requests <- Asked
CHECK_DEADLOCK FALSE
INVARIANTS EnvExplained OneByOne
PROPERTIES Answered
