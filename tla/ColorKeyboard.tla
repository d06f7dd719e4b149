--------------------------- MODULE ColorKeyboard ----------------------------
(***************************************************************************)
(* What an opened keyboard promises to who colors it, with none of the     *)
(* requests, deadlines and acknowledgements it takes: the reports of its   *)
(* calls are shown in their order, none of them twice, each during its     *)
(* call or later, and a call that answers nil is shown by then.            *)
(***************************************************************************)
EXTENDS Naturals

VARIABLES calls,   \* calls of SetColor and Off so far
          busy,    \* one of them is in progress
          answer,  \* of the last one: "none", "nil", "error"
          shown    \* the call whose report the keyboard shows, 0 for none

kvars == <<calls, busy, answer, shown>>

KInit ==
  /\ calls = 0
  /\ busy = FALSE
  /\ answer = "none"
  /\ shown = 0

Begins ==
  /\ ~busy
  /\ calls' = calls + 1
  /\ busy' = TRUE
  /\ answer' = "none"
  /\ UNCHANGED shown

(* A report that was not shown yet, perhaps of a call that failed.         *)
Shows ==
  /\ shown' \in shown + 1 .. calls
  /\ UNCHANGED <<calls, busy, answer>>

Answers ==
  /\ busy
  /\ busy' = FALSE
  /\ answer' \in IF shown = calls THEN {"nil", "error"} ELSE {"error"}
  /\ UNCHANGED <<calls, shown>>

KNext == Begins \/ Shows \/ Answers

KSpec == KInit /\ [][KNext]_kvars
=============================================================================
