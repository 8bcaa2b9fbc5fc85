SPECIFICATION Spec
CONSTANTS
  Calls = {c1}
  Digests <- MCDigests
  None = None
  Callers = {p, q}
  Contents = {write, read}
  Idempotent = {read}
  Results = {"succeeded", "timed_out"}
  Policies = {"allow", "pair"}
  Operations = {"submit", "resolve", "recover"}
  Disciplined = FALSE
  Budget = 2
  AttemptLimit = 2
  MaxEvents = 5
  MaxRevision = 2
  MaxCrashes = 0
INVARIANTS TypeOK PerformedAsReleased OutcomesOnRecord
SYMMETRY Symmetry
