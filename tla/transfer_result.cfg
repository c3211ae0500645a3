SPECIFICATION FairSpec
CONSTANTS
  Sizes = {0, 1}
  Refusers = {}
  Cancels = {}
  Breaks = TRUE
CHECK_DEADLOCK FALSE
PROPERTIES ResultFollowsRead
