SPECIFICATION Spec
CONSTANTS
  CLIENT_NUMBER = 2
  FILE_MAX = 4
  OPEN_MAX = 8
  ann = ann
  nobody = nobody
  empty = empty
  bin = bin
  opt = opt
  Names = {}
  NoName = nobody
  Blank = empty
  Paths = {}
  BinPath = bin
  Lines <- NumberLines
INVARIANTS NoWriteEndKept Isolation
PROPERTIES LostOnlyAtLogout
