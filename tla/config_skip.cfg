SPECIFICATION Spec
CONSTANTS
  MAX_LOG_FILES = 2
  MAX_LOG_INDEX = 5
  MaxHandles = 3
  MaxInits = 5
  c1 = c1
  c2 = c2
  c3 = c3
  Client = {c1, c2, c3}
  Asks <- EveryCommand
  MaxCommands = 0
  RpcFaults = {}
  t1 = t1
  t2 = t2
  t3 = t3
  t4 = t4
  t5 = t5
  Thread = {t1, t2, t3, t4, t5}
  NoThread = NoThread
  Requests = {2, 3}
  Calls <- EveryFunction
  MaxCalls = 2
  ConfigFaults = {}
  Parts = {"cfgSaves"}
INVARIANTS SkipsOnlyUnchanged
CHECK_DEADLOCK FALSE
