--------------------------- MODULE MCLayoutSource ---------------------------
(* Small instances of LayoutSource for TLC.                                *)
EXTENDS LayoutSource, TLC

CONSTANTS t1, t2, t3

(* Two threads share a window, one has a window of its own.                *)
MCForegroundOf == t1 :> t1 @@ t2 :> t1 @@ t3 :> t3

(* Layouts are only compared with one another, and so are the keys of one  *)
(* modifier.                                                               *)
Symmetry == Permutations(Layouts) \cup Permutations(Shifts)
=============================================================================
