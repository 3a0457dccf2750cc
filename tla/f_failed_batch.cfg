SPECIFICATION Spec
CONSTANTS
  Conflict = {1, 2, 3}
  Path = {"a", "b"}
  PathOf <- TwoOnOne
  Choice = {"local"}
  Initial <- OneMissing
  Limit <- OneFault
INVARIANT FailedBatchLeavesConflicts
