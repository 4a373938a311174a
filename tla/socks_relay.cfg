SPECIFICATION Spec
CONSTANTS
  Confs <- RelayConfs
  Requests <- RelayRequests
  BUFFER = 2
  CAP = 2
  MaxSent = 3
CHECK_DEADLOCK FALSE
INVARIANTS TypeOK OnlyPermitted ReplyFirst NothingLost
PROPERTIES RelayEnds Delivered
