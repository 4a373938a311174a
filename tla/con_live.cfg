SPECIFICATION Spec
CONSTANTS
  CLIENT_NUMBER = 2
  Conns = 2
  MaxCommands = 1
  MaxLeaks = 1
  Names = {n1}
  NoName = noname
  Commands <- Mixed
INVARIANTS
  NamesUnique
  LatestHeard
PROPERTIES
  BroadcastHeard
  CrashExplained
CHECK_DEADLOCK FALSE
