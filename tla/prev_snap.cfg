SPECIFICATION FairSpec
CONSTANTS
  b1 = b1
  t1 = t1
  None = None
  Other = Other
  IPCCHANNELBEGIN = 9
  MAXIPCNUM = 2
  Session <- BothMain
  H265 <- MainOf10
  Binder = {b1}
  BindLists <- Show10
  Snapper = {t1}
  SnapLists <- OutOfRangeThen9
  VENC_MAX_CHN_NUM = 2
  RGA_MAX_CHN_NUM = 1
  OtherRga = {0}
  OtherVenc = {0}
  Faults = {"venc", "rga", "bindIn", "bindOut", "size"}
INVARIANTS NothingLeaked
PROPERTIES SnapshotReturns
