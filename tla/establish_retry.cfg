SPECIFICATION Spec
CONSTANTS
  Creators = {"c","d"}
  Joiners = {"j"}
  Kinds = {"number"}
  First = "c"
  Candidates <- MCCandidates
  Nameplates = 3
  Taken = {}
  MaxRetries = 1
  MaxLosses = 0
  Verifying = {}
  Impatient = {}
  OwnRelay <- MCOwnRelay
CHECK_DEADLOCK FALSE
INVARIANTS CodeLeadsToCreator
