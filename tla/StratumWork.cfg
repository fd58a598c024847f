SPECIFICATION Spec
CONSTANTS
  Resends = {FALSE}
  UniqueIds = TRUE
  MaxJob = 2
  MaxSession = 2
  MaxExt = 2
  MaxOther = 1
  MaxLines = 2
  MaxNonce = 1
  None = None
INVARIANTS FreshIsCurrent MixedWorkIsDropped SdiffCoversJob
PROPERTIES NoDuplicateWork NewJobIsMined
CHECK_DEADLOCK FALSE
