SPECIFICATION Spec
CONSTANTS
  b1 = b1
  t1 = t1
  None = None
  Other = Other
  IPCCHANNELBEGIN = 9
  MAXIPCNUM = 2
  Session <- Streams
  H265 <- MainOf10
  Binder = {b1}
  BindLists <- FullThenSplit
  Snapper = {t1}
  SnapLists <- Only9
  VENC_MAX_CHN_NUM = 2
  RGA_MAX_CHN_NUM = 1
  OtherRga = {}
  OtherVenc = {}
  Faults = {}
INVARIANTS DecoderServesOne HookedIsBound
