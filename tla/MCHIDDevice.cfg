SPECIFICATION FairSpec
CONSTANTS
  Rgb = {r1, r2}
  Plain = {p1}
  MaxCalls = 3
  IOFaults = {"metadata", "open", "event", "io", "wait", "unplug"}
INVARIANTS
  TypeOK
  HandlesOwned
  AcknowledgementsPair
  BuffersReleased
PROPERTIES
  KeyboardSpec
  CallsReturn
CHECK_DEADLOCK FALSE
