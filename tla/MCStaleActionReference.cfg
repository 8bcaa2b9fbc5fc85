SPECIFICATION Spec
CONSTANTS
  Calls = {c1}
  Digests = {d1}
  None = None
  Budgets = {0, 1, 2}
  Modes = {}
  AttemptLimits = {}
  MaxRevision = 1
  MaxStep = 3
  MaxEvents = 10
INVARIANT ReferencesArePending
CHECK_DEADLOCK FALSE
