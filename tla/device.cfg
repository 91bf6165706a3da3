SPECIFICATION Spec
CONSTANTS
  Caller = {1, 2}
  Fingerprint = {1, 2}
  MaxKitCalls = 3
  KitFaults = {"stop", "random", "write", "newline"}
  SpeedConfigs <- SpeedConfigurations
  Speeds = {1, 2, 3}
  FirstSecond = 10
  MaxPasses = 6
  Pauses = {1, 2}
  FrameSize = 4
  EncoderDelay = 1
  InitialCap = 4
  PtsModulus = 8
  ChunkSizes = {3, 9}
  Gaps = {2}
  MaxTime = 12
  AudioFaults = {"open", "alloc", "encode", "push"}
  AllChannels = 2
  Doors = 1
  Params = {1, 2}
  CheckEvery = 2
  NullLimit = 2
  IdModulus = 2
  IPCCHANNELBEGIN = 9
  MAXIPCNUM = 2
  IdLists <- Incidents
  MaxAsked = 2
  ImageFaults = {"hardware", "timeout", "file", "short", "memory", "save"}
  Bytes = {0, 62, 251, 255}
  Characters = {65, 47, 45, 61, 32, 33}
  MaxLength = 5
INVARIANTS SameKit WarningFollowsSpeed LastingSpeedIsReported PacketTimes AudioInOrder
           WholeFrames ImagesMatchIds HardwareReturned Base64RoundTrip
PROPERTIES ParamsApplied
CHECK_DEADLOCK FALSE
