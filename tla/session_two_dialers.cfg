SPECIFICATION Spec
CONSTANTS
  Dialers = {"a","b"}
  Acceptors = {"a","b"}
  Writers = {"a","b"}
  Leavers = {"a","b"}
  Closers = {}
  LinkFails = FALSE
  MaxDials = 1
  MaxWrites = 1
  MaxCalls = 4
  ControlCap = 1
  DataCap = 1
  ReadCap = 1
  BacklogCap = 1
  WireCap = 1
CHECK_DEADLOCK FALSE
INVARIANT InOrder
