---------------------------- MODULE MCSupervisor ----------------------------
(* Small instances of Supervisor for TLC.                                  *)
EXTENDS Supervisor, TLC

(* Helper identities are interchangeable, and so are sessions: no action   *)
(* and no property tells two of them apart.                                *)
Symmetry == Permutations(Helpers) \cup Permutations(Sessions)
=============================================================================
