SPECIFICATION Spec
CONSTANTS
  CLIENT_NUMBER = 2
  FILE_MAX = 3
  OPEN_MAX = 8
  ann = ann
  nobody = nobody
  empty = empty
  bin = bin
  opt = opt
  Names = {ann}
  NoName = nobody
  Blank = empty
  Paths = {opt}
  BinPath = bin
  Lines <- UserLines
INVARIANTS ClientTable PipesBetweenLive FdsFaithful RunsUnderOwnPath
PROPERTIES ServesAsPromised
