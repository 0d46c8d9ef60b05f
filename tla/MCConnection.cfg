SPECIFICATION Spec
CONSTANTS
  QueueCap = 3
  ResyncBurst = 1
  MaxSockets = 3
  MaxRevision = 6
CHECK_DEADLOCK FALSE
INVARIANT TypeOK
INVARIANT ShowsOneRevision
INVARIANT OneAttempt
INVARIANT OneSeat
PROPERTY NeverBack
PROPERTY FatalIsFinal
