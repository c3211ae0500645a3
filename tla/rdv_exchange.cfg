SPECIFICATION FairSpec
CONSTANTS
  Creators = {"s"}
  Joiners = {"r"}
  Adds = 2
  CloseAfter = {2}
  Others = {0}
  Cancels = {}
  Breaks = {}
CHECK_DEADLOCK FALSE
INVARIANTS TypeOK InOrderOnce AcksAwaited
PROPERTIES CommandsReturn MessagesArrive ReleasedOnResponse
