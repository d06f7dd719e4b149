\* Two layouts; an acknowledgement may come late.
SPECIFICATION Spec
CONSTANTS
  Layouts = {l1, l2}
  NoLayout = NoLayout
  Faults = {"ack"}
INVARIANTS
  NewestShown
