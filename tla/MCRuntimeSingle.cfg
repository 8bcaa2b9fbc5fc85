SPECIFICATION FairSpec
CONSTANTS
  Calls = {c1, c2}
  Digests <- MCDigests
  None = None
  Callers = {p}
  Contents = {write, read}
  Idempotent = {read}
  Results = {"succeeded", "timed_out"}
  Policies = {"deny", "allow", "raise", "pair", "user_gate"}
  Operations = {"submit", "resolve", "answer", "revise", "recover", "verify"}
  Disciplined = TRUE
  Budget = 2
  AttemptLimit = 2
  MaxEvents = 9
  MaxRevision = 2
  MaxCrashes = 2
INVARIANTS LogReplays
PROPERTIES ReleasedUnderPolicy ReleasedSettles
