SPECIFICATION Spec
CONSTANTS
  Calls = {c1, c2}
  Digests <- MCDigests
  None = None
  Callers = {p}
  Contents = {write}
  Idempotent = {}
  Results = {"succeeded"}
  Policies = {"deny"}
  Operations = {"submit"}
  Disciplined = FALSE
  Budget = 0
  AttemptLimit = 1
  MaxEvents = 6
  MaxRevision = 1
  MaxCrashes = 0
INVARIANT LogReplays
