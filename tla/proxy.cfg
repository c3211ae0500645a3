SPECIFICATION ProxySpec
CONSTANTS
  Cancels = {"b"}
  DialFails = TRUE
  Dialers = {"a"}
  Acceptors = {"b"}
  Writers = {"a","b"}
  Leavers = {"a","b"}
  Closers = {}
  LinkFails = TRUE
  MaxDials = 1
  MaxWrites = 1
  MaxCalls = 3
  ControlCap = 1
  DataCap = 1
  ReadCap = 1
  BacklogCap = 1
  WireCap = 1
CHECK_DEADLOCK FALSE
INVARIANTS ProxyTypeOK
PROPERTIES SentBeforeClose ProxiesEnd
