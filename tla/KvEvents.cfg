SPECIFICATION Spec
CONSTANTS
  HistorySize = 2
  BufferSteps = 2
  LiveChannel = 1
  SocketSize = 1
  MaxChunks = 2
  RestartWindow = 2
  GapThreshold = 1
  Publishes <- FourThenOne
  ClearsAt = {0, 2}
  MaxBreaks = 1
INVARIANTS
  TypeOK
  RecordMatchesEngine
  IndexMatchesRecord
PROPERTIES
  GatewayCatchesUp
CHECK_DEADLOCK FALSE
