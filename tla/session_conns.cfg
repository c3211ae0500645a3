SPECIFICATION Spec
CONSTANTS
  Dialers = {"a"}
  Acceptors = {"b"}
  Writers = {"a"}
  Leavers = {"a","b"}
  Closers = {}
  LinkFails = FALSE
  MaxDials = 2
  MaxWrites = 2
  MaxCalls = 3
  ControlCap = 1
  DataCap = 1
  ReadCap = 1
  BacklogCap = 1
  WireCap = 1
CHECK_DEADLOCK FALSE
INVARIANTS TypeOK InOrder TableExact ClosedForCause
PROPERTIES ClosedAfterData DropsOnlyClosed ImplementsStreams
