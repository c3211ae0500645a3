SPECIFICATION FairSpec
CONSTANTS
  Creators = {"c","d"}
  Joiners = {"j"}
  Kinds = {"phrase","number"}
  First = "c"
  Candidates <- MCCandidates
  Nameplates = 3
  Taken = {1}
  MaxRetries = 1
  MaxLosses = 1
  Verifying = {"j"}
  Impatient = {"d"}
  OwnRelay <- MCOwnRelay
CHECK_DEADLOCK FALSE
INVARIANTS TypeOK PairedOnOneRelay OneYields RetryFindsItFree
PROPERTIES MeetingMakesTunnel
