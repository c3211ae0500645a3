SPECIFICATION FairSpec
CONSTANTS
  Addrs = {"d1", "d2"}
  Relays = {"relay"}
  Fates = {"sender", "refused", "silent", "mute"}
  Breaks = {"d1"}
CHECK_DEADLOCK FALSE
INVARIANTS TypeOK SameConnection WinnerKept AllConsumed
PROPERTIES LosersClosed ReceiverReturns GoHonoured
