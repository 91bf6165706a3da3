SPECIFICATION FairSpec
CONSTANTS
  t1 = t1
  t2 = t2
  None = None
  Channel = {0, 8}
  Named = {0}
  Thread = {t1, t2}
  Scripts <- OpenAndClose
  RefBase = 1
  MaxEvents = 3
  MaxViewers = 1
  Faults = {"connect", "refused", "push", "aac"}
INVARIANTS    HeaderFirst WatchedIsFed
PROPERTIES CallReturns
