SPECIFICATION FairSpec
CONSTANTS
  Dialers = {"a"}
  Acceptors = {"b"}
  Writers = {"a"}
  Leavers = {}
  Closers = {"b"}
  LinkFails = TRUE
  MaxDials = 1
  MaxWrites = 4
  MaxCalls = 5
  ControlCap = 1
  DataCap = 1
  ReadCap = 1
  BacklogCap = 1
  WireCap = 1
CHECK_DEADLOCK FALSE
PROPERTIES ShutdownCompletes 
