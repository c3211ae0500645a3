SPECIFICATION FairSpec
CONSTANTS
  Sizes = {0, 1, 2}
  Refusers = {"s", "r"}
  Cancels = {"s", "r"}
  Breaks = TRUE
CHECK_DEADLOCK FALSE
INVARIANTS TypeOK OkMeansDelivered WrongCodeStops
PROPERTIES RejectionReported WaitsReturn  CancelEnds
