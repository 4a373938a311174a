SPECIFICATION Spec
CONSTANTS
  CLIENT_NUMBER = 2
  Conns = 3
  MaxCommands = 0
  MaxLeaks = 0
  Names = {n1}
  NoName = noname
  Commands <- LeaveOnly
INVARIANTS
  RowKept
CHECK_DEADLOCK FALSE
