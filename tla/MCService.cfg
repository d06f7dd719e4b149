\* Two sessions; one helper identity, reused once its process is gone and
\* blocked by an orphan until then.  Liveness, hence no symmetry.
SPECIFICATION FairServiceSpec
CONSTANTS
  Sessions = {s1, s2}
  NoSession = NoSession
  QueryError = QueryError
  Helpers = {h1}
  NoHelper = NoHelper
  AbandonStuck = TRUE
  WaitFaults = TRUE
INVARIANTS
  ServiceTypeOK
  NoLostSessionChange
  ExitCodeTruthful
PROPERTIES
  StopTerminates
  Converges
