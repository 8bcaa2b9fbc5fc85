SPECIFICATION Spec
CONSTANTS
  Calls = {c1}
  Digests <- MCDigests
  None = None
  Callers = {p, q}
  Contents = {write}
  Idempotent = {}
  Results = {"succeeded"}
  Policies = {"pair", "user_gate"}
  Operations = {"submit", "resolve", "answer", "revise", "recover", "verify"}
  Disciplined = TRUE
  Budget = 0
  AttemptLimit = 1
  MaxEvents = 6
  MaxRevision = 2
  MaxCrashes = 0
INVARIANT RevisedOnce
