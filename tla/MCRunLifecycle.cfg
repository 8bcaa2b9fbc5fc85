SPECIFICATION Spec
CONSTANTS
  Calls = {c1, c2}
  Digests = {d1, d2}
  None = None
  Budgets = {0, 1}
  Modes = {"pair", "user_gate"}
  AttemptLimits = {1, 2}
  MaxRevision = 2
  MaxStep = 3
  MaxEvents = 11
INVARIANTS TypeOK ActiveFieldsMatchStatus GateHasAttemptsLeft StartsUnderLatestDecision AttemptsWithinLimit
  BudgetRespected ModelAskedOncePerTurn StepsAreEvidenced
PROPERTY TerminalIsFinal
SYMMETRY Symmetry
CHECK_DEADLOCK FALSE
