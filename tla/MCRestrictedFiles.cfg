SPECIFICATION Spec
CONSTANTS
  Root <- MCRoot
  Registered = {"read_file", "write_file", "delete_file"}
  None = None
  Workers = {w1, w2}
  Trees <- MCTrees
  Policies <- MCPolicies
  Requests <- MCRequests
  Contents = {"old", "new", "big"}
  Unreadable = {"big"}
  MaxEdits = 1
  MaxFaults = 1
INVARIANTS TypeOK TouchedAsJudged StagingRemoved
PROPERTY ChangesAreReported
SYMMETRY Symmetry
