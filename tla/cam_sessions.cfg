SPECIFICATION FairSpec
CONSTANTS
  v1 = v1
  None = None
  Manager = manager
  IPCCHANNELBEGIN = 9
  MAXIPCNUM = 2
  Stored <- BothOn
  Offered <- OffOrOn
  Version = {v1}
  MaxChanges = 2
  Faults = {"connect", "refused"}
INVARIANTS NoOrphan StartedIsStreamed
PROPERTIES ManagerReturns
