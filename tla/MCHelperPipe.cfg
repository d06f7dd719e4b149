\* A pipe of two writes, two queued records; every fault.
SPECIFICATION FairSpec
CONSTANTS
  Capacity = 2
  QueueSize = 2
  Faults = {"deadline", "runtime", "service", "wait"}
CHECK_DEADLOCK FALSE
INVARIANTS
  TypeOK
  CleanExitWasAsked
  ReadyLostOnlyByCut
PROPERTIES
  HelperSpec
  HelperEnds
