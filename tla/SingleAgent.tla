---------------------------- MODULE SingleAgent ----------------------------
(***************************************************************************)
(* What the session supervisor of internal/entry promises to the machine   *)
(* it runs on, without any of the ways it does it: at any time at most one *)
(* helper process drives the keyboard, a helper for another session comes  *)
(* only after the previous one has ended, and the supervisor reports a     *)
(* clean end only when it leaves no helper behind.                         *)
(***************************************************************************)
CONSTANTS Helpers,   \* identities of helper processes
          Sessions   \* Windows sessions a helper can run in

VARIABLES serving,   \* the supervised live helpers, as pairs <<helper, session>>
          outcome    \* "running", then what the supervisor returned: "nil" or "error"

avars == <<serving, outcome>>

AInit ==
  /\ serving = {}
  /\ outcome = "running"

(* A helper begins to serve a session: only when none does.                *)
Serve(h, s) ==
  /\ outcome = "running"
  /\ serving = {}
  /\ serving' = {<<h, s>>}
  /\ UNCHANGED outcome

(* The serving helper ends, or a failed start gives it up.                 *)
Leave ==
  /\ serving # {}
  /\ serving' = {}
  /\ UNCHANGED outcome

(* The supervisor returns; "nil" says that nothing was left running.       *)
Finish ==
  /\ outcome = "running"
  /\ outcome' \in IF serving = {} THEN {"nil", "error"} ELSE {"error"}
  /\ UNCHANGED serving

ANext ==
  \/ \E h \in Helpers, s \in Sessions : Serve(h, s)
  \/ Leave
  \/ Finish

ASpec == AInit /\ [][ANext]_avars
=============================================================================
