SPECIFICATION Spec
CONSTANTS
  c1 = c1
  c2 = c2
  a1 = a1
  a2 = a2
  a3 = a3
  s1 = s1
  None = None
  Other = Other
  Client = {c1, c2}
  Calls <- MeetingCalls
  Addr = {a1, a2, a3}
  Single = {}
  SingleChan <- NoSingle
  SNAP_VENC_BASE = 1
  SNAP_VENC_MAX = 4
  SNAP_ENCODER_CHANNEL = 1
  RGA_MAX_CHN_NUM = 2
  OtherRga = {}
  Faults = {"frame", "thread"}
  MaxFrames = 2
INVARIANTS NoDanglingCallback FrameReachesRequest
PROPERTY AnswersAreTaken
SYMMETRY AddrSymmetry
