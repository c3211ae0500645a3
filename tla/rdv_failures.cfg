SPECIFICATION FairSpec
CONSTANTS
  Creators = {}
  Joiners = {"r","s"}
  Adds = 1
  CloseAfter = {1}
  Others = {0,1,2}
  Cancels = {"r"}
  Breaks = {"r"}
CHECK_DEADLOCK FALSE
INVARIANTS ReleaseAfterMeeting OnlyReleaseMeetsClosed
PROPERTIES CancelReturns
