SPECIFICATION Spec
CONSTANTS
  QueueCap = 3
  ResyncBurst = 1
  MaxSockets = 3
  MaxRevision = 5
CHECK_DEADLOCK FALSE
INVARIANT GapsNotApplied
