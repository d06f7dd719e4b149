\* Two layouts and no faults.
SPECIFICATION Spec
CONSTANTS
  Layouts = {l1, l2}
  NoLayout = NoLayout
  Faults = {}
INVARIANTS
  GracefulStop
