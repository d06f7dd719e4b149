\* Every fault but a late acknowledgement.  Liveness, hence no symmetry.
SPECIFICATION FairSpec
CONSTANTS
  Layouts = {l1, l2}
  NoLayout = NoLayout
  Faults = {"startup", "tsf", "resolve", "post", "getMessage", "unhook", "write", "deviceClose"}
INVARIANTS
  TypeOK
  NoLostChange
  NewestShown
  ReturnReleases
PROPERTIES
  Follows
  ShutdownCompletes
