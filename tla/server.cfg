SPECIFICATION FairSpec
CONSTANTS
  MAX_LOG_FILES = 3
  MAX_LOG_INDEX = 8
  MaxHandles = 3
  MaxInits = 4
  c1 = c1
  c2 = c2
  c3 = c3
  Client = {c1, c2, c3}
  Asks <- EveryCommand
  MaxCommands = 2
  RpcFaults = {"drop", "reset", "thread"}
  t1 = t1
  t2 = t2
  t3 = t3
  t4 = t4
  t5 = t5
  Thread = {t1, t2, t3, t4, t5}
  NoThread = NoThread
  Requests = {2, 3}
  Calls <- EveryFunction
  MaxCalls = 2
  ConfigFaults = {"stop", "io"}
  Parts = {"log", "rpcAlone", "rpcTogether", "cfgAlone", "cfgTogether", "cfgSaves"}
INVARIANTS FilesBounded LogKept InStep OnlyRecordsLeak
           UnsavedIsDirty SavedSurvives AdasWarningsWhole LockIsReleased
PROPERTIES Answered
CHECK_DEADLOCK FALSE
