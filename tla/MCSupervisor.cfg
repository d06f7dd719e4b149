\* Two sessions and three helper identities: a helper held and two orphans.
SPECIFICATION Spec
CONSTANTS
  Sessions = {s1, s2}
  NoSession = NoSession
  QueryError = QueryError
  Helpers = {h1, h2, h3}
  NoHelper = NoHelper
  AbandonStuck = TRUE
  WaitFaults = TRUE
SYMMETRY Symmetry
INVARIANTS
  TypeOK
  OneSupervised
  WaitJustified
  ReturnLeavesOnlyTerminated
PROPERTIES
  BackoffRespected
  AgentSpec
