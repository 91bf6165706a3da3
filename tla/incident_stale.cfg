SPECIFICATION OnlineSpec
CONSTANTS
  IPCCHANNELBEGIN = 9
  MAXIPCNUM = 2
  IdLists <- Incidents
  MaxAsked = 2
  ImageFaults = {"timeout"}
INVARIANTS ImagesAreNew
CHECK_DEADLOCK FALSE
