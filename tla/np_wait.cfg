SPECIFICATION Spec
CONSTANTS
  FILE_MAX = 3
  Lines <- WaitLines
  CAP = 1
  MaxOut = 2
  MaxLine = 3
CHECK_DEADLOCK FALSE
INVARIANTS SomeoneCanStep
PROPERTIES WaitEnds ZombiesReaped
