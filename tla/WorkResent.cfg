\* The pool sends a job again, with clean_jobs.  With UniqueIds = FALSE and INVARIANTS
\* FreshIsCurrent instead of the PROPERTIES: a new session uses a job_id of the old one.
SPECIFICATION Spec
CONSTANTS
  Resends = {TRUE, FALSE}
  UniqueIds = TRUE
  MaxJob = 2
  MaxSession = 2
  MaxExt = 2
  MaxOther = 1
  MaxLines = 2
  MaxNonce = 1
  None = None
PROPERTIES NoDuplicateWork
CHECK_DEADLOCK FALSE
