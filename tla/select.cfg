SPECIFICATION Spec
CONSTANTS
  CLIENT_NUMBER = 2
  c1 = c1
  c2 = c2
  Client <- Clients
  MaxLines <- Lines
  Nobody = nobody
  Failed = failed
  Listener = listener
CHECK_DEADLOCK FALSE
INVARIANTS RowsCounted EndExplained
PROPERTIES OnlyExitFrees LinesRead
