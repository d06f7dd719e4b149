\* The deadline of a log record may pass between its two writes.
SPECIFICATION Spec
CONSTANTS
  Capacity = 2
  QueueSize = 2
  Faults = {"deadline"}
CHECK_DEADLOCK FALSE
INVARIANTS
  ReadyNotLost
