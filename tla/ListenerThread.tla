--------------------------- MODULE ListenerThread ---------------------------
(***************************************************************************)
(* What a listening thread takes from Windows and gives back: messageLoop  *)
(* with startTSFListener and installKeyboardHook                           *)
(* (internal/layouts/windows), and the same steps of the diagnostic tool   *)
(* cmd/layout-probe, which unwinds differently.                            *)
(***************************************************************************)
CONSTANT ThreadFaults   \* what may go wrong, see KnownThreadFaults

(* "acquire": a step of the start; "unadvise": UnadviseSink; "getMessage"; *)
(* "refuse": a call that gives something back.                             *)
KnownThreadFaults == {"acquire", "unadvise", "getMessage", "refuse"}

ASSUME ThreadFaultsAssumption == ThreadFaults \subseteq KnownThreadFaults

VARIABLES
  program,     \* "laylit" or "probe"
  phase,       \* the step of the start it comes to, or "loop", "stopped", "end"
  held,        \* what the program has to give back
  refused,     \* what it gave back and Windows did not take
  advised,     \* the sinks TSF may call
  orphans,     \* orphanedTSFSinks
  loopFailed   \* GetMessage failed

threadVars == <<program, phase, held, refused, advised, orphans, loopFailed>>

Sinks == {"profile", "language"}
TSFParts == {"com", "threadMgr", "active", "source"} \cup Sinks

(* A step takes the part of its name.  "message" is the name of the Shell  *)
(* message, and "entry" the window's place in the map of windowProc.       *)
Steps == {"class", "window", "message", "shell", "hook"} \cup TSFParts
Parts == (Steps \ {"message"}) \cup {"entry"}

ThreadTypeOK ==
  /\ program \in {"laylit", "probe"}
  /\ phase \in Steps \cup {"loop", "stopped", "end"}
  /\ {held, refused} \subseteq SUBSET Parts
  /\ {advised, orphans} \subseteq SUBSET Sinks
  /\ loopFailed \in BOOLEAN

ThreadInit ==
  /\ program \in {"laylit", "probe"}
  /\ phase = "class"
  /\ held = {} /\ refused = {}
  /\ advised = {} /\ orphans = {}
  /\ loopFailed = FALSE

-----------------------------------------------------------------------------
(* The start, step by step.                                                *)

Following ==
  [class |-> "window", window |-> "message", message |-> "shell",
   shell |-> "com", com |-> "threadMgr", threadMgr |-> "active",
   active |-> "source", source |-> "profile",
   profile |-> IF program = "probe" THEN "language" ELSE "hook",
   language |-> "hook", hook |-> "loop"]

(* The window gets its entry when it is made, in the probe when the name   *)
(* of the Shell message is known.                                          *)
Takes ==
  (IF phase = "message" THEN {} ELSE {phase}) \cup
  (IF phase = (IF program = "probe" THEN "message" ELSE "window")
     THEN {"entry"} ELSE {})

Acquire ==
  /\ phase \in Steps
  /\ held' = held \cup Takes
  /\ advised' = advised \cup ({phase} \cap Sinks)
  /\ phase' = Following[phase]
  /\ UNCHANGED <<program, refused, orphans, loopFailed>>

-----------------------------------------------------------------------------
(* What is called to give things back.                                     *)

(* Mutant: a sink is freed although TSF may still call it.                 *)
closeTSF_FreesSinks ==
  /\ advised' \in SUBSET advised
  /\ "unadvise" \notin ThreadFaults => advised' = {}
  /\ UNCHANGED orphans

(* tsfListener.close keeps a sink it could not unadvise, tsfProbe.close    *)
(* does not look at the answer.                                            *)
closeTSF ==
  /\ advised' \in SUBSET advised
  /\ "unadvise" \notin ThreadFaults => advised' = {}
  /\ orphans' = IF program = "laylit" THEN orphans \cup advised' ELSE orphans

Refusable == {"class", "window", "shell", "hook", "active"}

(* These calls are made, whatever the others answer.  A class whose window *)
(* is still there cannot be unregistered.                                  *)
GiveBack(calls) ==
  /\ closeTSF
  /\ held' = held \ calls
  /\ \E kept \in SUBSET (held \cap calls \cap Refusable) :
       /\ refused' = refused \cup kept
       /\ "window" \in held' \cup kept => "class" \notin held \cap (calls \ kept)
       /\ \/ "refuse" \in ThreadFaults
          \/ kept = {}
          \/ kept = {"class"} /\ "window" \in held'
  /\ UNCHANGED <<program, loopFailed>>

(* Mutant: the return after RegisterShellHookWindow forgets DestroyWindow. *)
Returns_KeepsWindow ==
  [class |-> {}, window |-> {}, message |-> {"window"}, shell |-> {},
   hook |-> TSFParts \cup {"window"}]

(* What messageLoop calls itself before it returns from a failed step ...  *)
Returns ==
  [class |-> {}, window |-> {}, message |-> {"window"}, shell |-> {"window"},
   hook |-> TSFParts \cup {"window"}]

(* ... and the calls it has deferred by then.                              *)
Deferred ==
  [class |-> {}, window |-> {"class"}, message |-> {"class", "entry"},
   shell |-> {"class", "entry"}, hook |-> {"class", "entry", "shell"}]

(* probeState.close looks at what there is.                                *)
ProbeClose == {"hook", "entry", "shell", "window", "class"} \cup TSFParts

(* Every step of TSF but the first one closes what there is of TSF; then   *)
(* messageLoop reports it and works without.                               *)
startTSFListener_Fails ==
  /\ "acquire" \in ThreadFaults
  /\ program = "laylit" /\ phase \in TSFParts
  /\ GiveBack(IF phase = "com" THEN {} ELSE TSFParts)
  /\ phase' = "hook"

messageLoop_StartFails ==
  /\ "acquire" \in ThreadFaults
  /\ program = "laylit" /\ phase \in Steps \ TSFParts
  /\ GiveBack(Returns[phase] \cup Deferred[phase])
  /\ phase' = "end"

(* startTSFProbe closes what there is of TSF, startProbe all the rest.     *)
startProbe_Fails ==
  /\ "acquire" \in ThreadFaults
  /\ program = "probe" /\ phase \in Steps
  /\ GiveBack(IF phase = "class" THEN {} ELSE ProbeClose)
  /\ phase' = "end"

Start ==
  \/ Acquire
  \/ startTSFListener_Fails
  \/ messageLoop_StartFails
  \/ startProbe_Fails

(* WM_CLOSE destroys the window, or GetMessage fails.                      *)
LoopEnds ==
  /\ phase = "loop"
  /\ phase' = "stopped"
  /\ \/ held' = held \ {"window"} /\ UNCHANGED loopFailed
     \/ "getMessage" \in ThreadFaults /\ loopFailed' = TRUE /\ UNCHANGED held
  /\ UNCHANGED <<program, refused, advised, orphans>>

(* The hook and TSF, then the calls messageLoop deferred: none destroys    *)
(* the window.                                                             *)
Unwind ==
  /\ phase = "stopped"
  /\ GiveBack(IF program = "laylit"
                THEN {"hook"} \cup TSFParts \cup Deferred["hook"]
                ELSE ProbeClose)
  /\ phase' = "end"

-----------------------------------------------------------------------------
(* "Keep an inert reference for process lifetime": TSF never calls a sink  *)
(* laylit has freed, whatever failed (the probe does free one that TSF did *)
(* not let go of).  And whichever step of the start failed, a thread that  *)
(* ends has called Windows to take back everything it took; the hook, or   *)
(* what else Windows refused, stays.  Nobody calls DestroyWindow for a     *)
(* listener of laylit whose GetMessage failed.                             *)
NothingDangles ==
  /\ program = "laylit" => advised \subseteq held \cup orphans
  /\ phase = "end" =>
       held \subseteq IF program = "laylit" /\ loopFailed THEN {"window"} ELSE {}
=============================================================================
