SPECIFICATION FairSpec
CONSTANTS
  Calls = {c1, c2}
  Digests <- MCDigests
  None = None
  Contents = {write, read}
  Idempotent = {read}
  Answers = {right, wrong}
  Expected = right
  NeedsEvidence = TRUE
  Decisions = {"deny", "allow", "pair", "user_gate"}
  Entries = {"loop", "tool_turn", "completion_turn"}
  Budget = 2
  MaxCrashes = 2
INVARIANTS TypeOK StoredEventsReplay ContextIsOriginal CompletedOnEvidence EvidenceFitsRequest
  ReturnsAgree StrandedHasCause
PROPERTIES ImplementsTurns RunSettles
CHECK_DEADLOCK FALSE
