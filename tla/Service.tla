------------------------------ MODULE Service ------------------------------
(***************************************************************************)
(* serviceHandler (internal/entry/service_windows.go) composed with the    *)
(* supervisor it runs: Execute's goroutine answers the requests of the     *)
(* service control manager, forwards session changes to Run through the    *)
(* notifications channel, cancels Run's context on Stop, and waits for Run *)
(* to return.  Interrogate and the check points of a pending stop only     *)
(* report a status and are left out.                                       *)
(***************************************************************************)
EXTENDS Supervisor, Integers

VARIABLES
  requests,   \* kinds of control request the manager has not yet delivered
  svc,        \* Execute: "running", "stopPending", "stopped"
  exitCode    \* what Execute returned: 0, 1, or -1 while it runs

handlerVars == <<requests, svc, exitCode>>
svars == <<vars, requests, svc, exitCode>>

ServiceTypeOK ==
  /\ requests \in SUBSET {"SessionChange", "Stop"}
  /\ svc \in {"running", "stopPending", "stopped"}
  /\ exitCode \in {-1, 0, 1}

ServiceInit ==
  /\ Init
  /\ requests = {}
  /\ svc = "running"
  /\ exitCode = -1

-----------------------------------------------------------------------------
(* Windows and the service control manager.                                *)

(* The console changes, and the manager has a session change to deliver.   *)
ConsoleMoves(c) ==
  /\ ConsoleChanges(c)
  /\ requests' = requests \cup {"SessionChange"}
  /\ UNCHANGED <<svc, exitCode>>

(* A session event that leaves the physical console alone (RDP, lock), or  *)
(* an administrator's stop, or a shutdown.                                 *)
Requested(kind) ==
  /\ kind \notin requests
  /\ requests' = requests \cup {kind}
  /\ UNCHANGED <<vars, svc, exitCode>>

-----------------------------------------------------------------------------
(* Execute.                                                                *)

(* Mutant: an unbuffered channel, the send lost unless Run is waiting.     *)
HandleSessionChange_Unbuffered ==
  /\ svc = "running"
  /\ "SessionChange" \in requests
  /\ requests' = requests \ {"SessionChange"}
  /\ IF pc = "select" THEN Notify ELSE UNCHANGED vars
  /\ UNCHANGED <<svc, exitCode>>

(* The send does not block: a value already in the channel is enough.      *)
HandleSessionChange ==
  /\ svc = "running"
  /\ "SessionChange" \in requests
  /\ requests' = requests \ {"SessionChange"}
  /\ Notify \/ (notified /\ UNCHANGED vars)
  /\ UNCHANGED <<svc, exitCode>>

HandleStop ==
  /\ svc = "running"
  /\ "Stop" \in requests
  /\ requests' = requests \ {"Stop"}
  /\ svc' = "stopPending"
  /\ Cancel
  /\ UNCHANGED exitCode

(* Mutant: the result of Run is not converted to an exit code.             *)
RunDone_Unconverted ==
  /\ svc # "stopped"
  /\ pc = "returned"
  /\ svc' = "stopped"
  /\ exitCode' = IF outcome = "nil" THEN 0 ELSE -2
  /\ UNCHANGED <<vars, requests>>

(* runDone delivers what Run returned.                                     *)
RunDone ==
  /\ svc # "stopped"
  /\ pc = "returned"
  /\ svc' = "stopped"
  /\ exitCode' = IF outcome = "nil" THEN 0 ELSE 1
  /\ UNCHANGED <<vars, requests>>

Handler == HandleSessionChange \/ HandleStop \/ RunDone

ServiceNext ==
  \/ \E c \in Sessions \cup {NoSession} : ConsoleMoves(c)
  \/ \E kind \in {"SessionChange", "Stop"} : Requested(kind)
  \/ Handler
  \/ (Run \/ RetryElapses \/ ProcessStep) /\ UNCHANGED handlerVars

(* The program's own steps: Execute and Run are scheduled, the retry timer *)
(* elapses, and the wait goroutines run.  Go's select chooses at random    *)
(* among its ready cases, so a case that is ready again and again is taken.*)
ServiceFairness ==
  /\ WF_svars(Handler)
  /\ SF_svars(HandleStop)
  /\ WF_svars(Run /\ UNCHANGED handlerVars)
  /\ WF_svars(RetryElapses /\ UNCHANGED handlerVars)
  /\ \A h \in Helpers : WF_svars(wait(h) /\ UNCHANGED handlerVars)
  /\ SF_svars(TakeCancel /\ UNCHANGED handlerVars)
  /\ SF_svars(TakeRetry /\ UNCHANGED handlerVars)
  /\ SF_svars(TakeHelperDone /\ UNCHANGED handlerVars)

(* Windows and the helpers are calm: queries of the console succeed, a     *)
(* start for the session on the console goes through, and a helper ends    *)
(* only when it is being stopped.                                          *)
Mishap ==
  \/ QueryFails
  \/ StartRefused /\ console = seen
  \/ HelloFails
  \/ ReadyFails
  \/ \E h \in Helpers : WaitFails(h)
  \/ \E h \in Tracked \ killed : ProcessExits(h) /\ ~(h = helper /\ pc \in Stopping)

(* Mishaps stop, and a process ends that TerminateProcess was called on,   *)
(* or whose connection wait has closed.                                    *)
EventuallyCalm ==
  /\ <>[][~Mishap]_svars
  /\ \A h \in Helpers :
        WF_svars(h \in killed \cup Finished /\ ProcessExits(h) /\ UNCHANGED handlerVars)

ServiceSpec == ServiceInit /\ [][ServiceNext]_svars
FairServiceSpec == ServiceSpec /\ ServiceFairness

-----------------------------------------------------------------------------
(* No session change is lost between Windows, Execute, the channel of      *)
(* capacity 1 and Run: while Run waits with an outdated idea of the        *)
(* console, something is on its way that will make it look again.          *)
NoLostSessionChange ==
  svc = "running" /\ pc = "select" /\ seen # console
    => "SessionChange" \in requests \/ notified \/ timer # "off"

(* Execute reports success to the manager only for a stop it was asked for *)
(* and after which nothing it supervised is running.                       *)
ExitCodeTruthful ==
  exitCode = 0 => cancelled /\ helper = NoHelper /\ Live \subseteq orphans

(* A stop request ends the service, whatever the helper does.              *)
StopTerminates == "Stop" \in requests ~> svc = "stopped"

Serving(s) ==
  helper \in Tracked \ killed /\ sessionID[helper] = s

(* When the console settles and mishaps stop, the supervisor settles too:  *)
(* the helper of that session runs and is left alone, and when nobody is   *)
(* logged on no supervised helper remains.                                 *)
Converges ==
  EventuallyCalm =>
    /\ \A s \in Sessions :
          <>[](console = s /\ svc = "running") => <>[]Serving(s)
    /\ <>[](console = NoSession /\ svc = "running")
          => <>[](helper = NoHelper /\ Live \subseteq orphans)
=============================================================================
