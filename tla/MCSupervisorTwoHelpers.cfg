\* An abandoned helper may outlive its kill.
SPECIFICATION Spec
CONSTANTS
  Sessions = {s1, s2}
  NoSession = NoSession
  QueryError = QueryError
  Helpers = {h1, h2}
  NoHelper = NoHelper
  AbandonStuck = TRUE
  WaitFaults = FALSE
SYMMETRY Symmetry
INVARIANTS
  AtMostOneHelper
