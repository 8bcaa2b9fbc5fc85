SPECIFICATION Spec
CONSTANTS
  Calls = {c}
  call = c
  Digests = {}
  None = None
  Processes = {p, q}
  Events <- MCEvents
  Elsewhere <- MCElsewhere
  MaxEvents = 3
  MaxDamages = 1
INVARIANTS TypeOK LoadsAreReplays AcceptedRowsAreReplays SavesSucceed
PROPERTIES LoadsNeverRegress
SYMMETRY Symmetry
