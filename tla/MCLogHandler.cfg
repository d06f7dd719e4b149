\* Two callers, a queue of two entries, two calls each.
SPECIFICATION FairSpec
CONSTANTS
  Callers = {c1, c2}
  QueueSize = 2
  MaxCalls = 2
CHECK_DEADLOCK FALSE
INVARIANTS
  TypeOK
  FlushCoversAll
  ShutdownDrains
PROPERTIES
  ShutdownEnds
