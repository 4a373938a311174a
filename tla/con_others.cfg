SPECIFICATION Spec
CONSTANTS
  CLIENT_NUMBER = 2
  Conns = 2
  MaxCommands = 1
  MaxLeaks = 0
  Names = {n1}
  NoName = noname
  Commands <- Piping
INVARIANTS
  PipeFromOthers
CHECK_DEADLOCK FALSE
