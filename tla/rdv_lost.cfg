SPECIFICATION FairSpec
CONSTANTS
  Creators = {"s"}
  Joiners = {"r"}
  Adds = 1
  CloseAfter = {}
  Others = {0}
  Cancels = {}
  Breaks = {"r","s"}
CHECK_DEADLOCK FALSE
PROPERTIES LossReported
