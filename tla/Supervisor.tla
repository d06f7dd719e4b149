---------------------------- MODULE Supervisor -----------------------------
(***************************************************************************)
(* sessionSupervisor.Run (internal/entry/supervisor.go) together with the  *)
(* helper processes it starts and stops (startSessionHelper and            *)
(* windowsHelperProcess in internal/entry/session_windows.go).             *)
(*                                                                         *)
(* One goroutine runs Run.  pc is where it is: at the head of its loop     *)
(* with reconcile set ("reconcile"), waiting in its select ("select"),     *)
(* inside Stop of the helper it holds ("stop": STOP sent, "kill":          *)
(* TerminateProcess called; "finalStop" and "finalKill" for the stop of a  *)
(* service shutdown), inside startSessionHelper ("check" to "reap"), or    *)
(* gone ("returned").  Interleaved with it run the helper processes, the   *)
(* goroutine of each that waits for it to end, the retry timer, Windows    *)
(* (which moves the physical console), and the service handler (which      *)
(* notifies and cancels).                                                  *)
(***************************************************************************)
CONSTANTS Sessions,      \* Windows session identifiers
          NoSession,     \* no usable console session (supervisor.go's usable = FALSE)
          QueryError,    \* activeConsoleSession returned an error
          Helpers,       \* identities of helper processes; reused once a process is gone
          NoHelper,
          AbandonStuck,  \* may a helper abandoned by a failed start outlive the
                         \* helperForcedExitWait that follows TerminateProcess?
          WaitFaults     \* may waiting for the end of a process fail?

ASSUME SessionsAssumption ==
  /\ NoSession \notin Sessions
  /\ QueryError \notin Sessions
  /\ NoSession # QueryError
ASSUME HelpersAssumption == NoHelper \notin Helpers
ASSUME AbandonAssumption == AbandonStuck \in BOOLEAN
ASSUME WaitFaultsAssumption == WaitFaults \in BOOLEAN

VARIABLES
  console,       \* the session Windows shows on the physical console
  cancelled,     \* ctx passed to Run is done
  notified,      \* notifications (a channel of capacity 1) holds a value
  pc,
  seen,          \* result of Run's latest activeConsoleSession call
  helper,        \* Run's helper
  timer,         \* retryTimer: "off" (nil), "armed", "fired" (its channel is ready)
  retrySession,
  retryAll,
  child,         \* the process startSessionHelper created and has not yet handed over
  proc,          \* per helper: "alive", "exited", "gone" (its done channel is
                 \* closed), "lost" (it is closed although the process runs)
  sessionID,     \* per helper: the session it was created in
  killed,        \* live helpers on which TerminateProcess was called
  orphans,       \* live helpers that count as gone: lost, or nobody holds them
  outcome,       \* "running", then what Run returned: "nil" or "error"
  cooling        \* history only: the session whose restart backoff is still
                 \* running, QueryError when the backoff is for every session

envVars     == <<console, cancelled, notified>>
retryVars   == <<timer, retrySession, retryAll>>
processVars == <<proc, sessionID, killed, orphans>>
vars == <<console, cancelled, notified, pc, seen, helper, timer, retrySession,
          retryAll, child, proc, sessionID, killed, orphans, outcome, cooling>>

Stopping == {"stop", "kill", "finalStop", "finalKill"}
Starting == {"check", "launch", "hello", "awaitReady", "abandon", "reap"}
PCs      == {"reconcile", "select", "returned"} \cup Stopping \cup Starting

TypeOK ==
  /\ console \in Sessions \cup {NoSession}
  /\ cancelled \in BOOLEAN
  /\ notified \in BOOLEAN
  /\ pc \in PCs
  /\ seen \in Sessions \cup {NoSession, QueryError}
  /\ helper \in Helpers \cup {NoHelper}
  /\ timer \in {"off", "armed", "fired"}
  /\ retrySession \in Sessions \cup {NoSession}
  /\ retryAll \in BOOLEAN
  /\ child \in Helpers \cup {NoHelper}
  /\ proc \in [Helpers -> {"alive", "exited", "gone", "lost"}]
  /\ sessionID \in [Helpers -> Sessions]
  /\ killed \in SUBSET Helpers
  /\ orphans \in SUBSET Helpers
  /\ outcome \in {"running", "nil", "error"}
  /\ cooling \in Sessions \cup {NoSession, QueryError}

Init ==
  /\ console \in Sessions \cup {NoSession}
  /\ cancelled = FALSE
  /\ notified = FALSE
  /\ pc = "reconcile"
  /\ seen = NoSession
  /\ helper = NoHelper
  /\ timer = "off"
  /\ retrySession = NoSession
  /\ retryAll = FALSE
  /\ child = NoHelper
  /\ proc = [h \in Helpers |-> "gone"]
  /\ sessionID \in [Helpers -> Sessions]
  /\ killed = {}
  /\ orphans = {}
  /\ outcome = "running"
  /\ cooling = NoSession

(* Helpers that run, those of them TerminateProcess reaches, and helpers   *)
(* whose done channel is closed.                                           *)
Live     == {h \in Helpers : proc[h] \in {"alive", "lost"}}
Tracked  == {h \in Helpers : proc[h] = "alive"}
Finished == {h \in Helpers : proc[h] \in {"gone", "lost"}}

-----------------------------------------------------------------------------
(* The retry timer.                                                        *)

clearRetry ==
  /\ timer' = "off"
  /\ retryAll' = FALSE
  /\ UNCHANGED retrySession

scheduleRetry(session, all) ==
  /\ timer' = "armed"
  /\ retrySession' = session
  /\ retryAll' = all

(* restartBackoff has elapsed.                                             *)
RetryElapses ==
  /\ timer = "armed"
  /\ timer' = "fired"
  /\ cooling' = NoSession
  /\ UNCHANGED <<envVars, pc, seen, helper, retrySession, retryAll, child,
                 processVars, outcome>>

-----------------------------------------------------------------------------
(* The head of the loop: query the console session and decide.             *)

(* Mutant: a retry for every session holds back only the one recorded.     *)
HeldBack_ThisSessionOnly(session) ==
  /\ timer # "off"
  /\ retrySession = session
  /\ helper = NoHelper

(* A retry of this session, or of any, is pending and no helper is held.   *)
HeldBack(session) ==
  /\ timer # "off"
  /\ retryAll \/ retrySession = session
  /\ helper = NoHelper

(* Mutant: the retry is recorded for the value of the failed query.        *)
QueryFails_RecordsError ==
  /\ pc = "reconcile"
  /\ seen' = QueryError
  /\ scheduleRetry(QueryError, TRUE)
  /\ cooling' = IF helper = NoHelper THEN QueryError ELSE cooling
  /\ pc' = "select"
  /\ UNCHANGED <<envVars, helper, child, processVars, outcome>>

QueryFails ==
  /\ pc = "reconcile"
  /\ seen' = QueryError
  /\ scheduleRetry(NoSession, TRUE)
  /\ cooling' = IF helper = NoHelper THEN QueryError ELSE cooling
  /\ pc' = "select"
  /\ UNCHANGED <<envVars, helper, child, processVars, outcome>>

ReconcileUnusable ==
  /\ pc = "reconcile"
  /\ console = NoSession
  /\ seen' = NoSession
  /\ clearRetry
  /\ cooling' = NoSession
  /\ pc' = IF helper = NoHelper THEN "select" ELSE "stop"
  /\ UNCHANGED <<envVars, helper, child, processVars, outcome>>

ReconcileSame ==
  /\ pc = "reconcile"
  /\ console \in Sessions
  /\ helper # NoHelper /\ sessionID[helper] = console
  /\ seen' = console
  /\ clearRetry
  /\ pc' = "select"
  /\ UNCHANGED <<envVars, helper, child, processVars, outcome, cooling>>

(* A notification does not bypass the backoff.                             *)
ReconcileHeldBack ==
  /\ pc = "reconcile"
  /\ console \in Sessions
  /\ HeldBack(console)
  /\ seen' = console
  /\ pc' = "select"
  /\ UNCHANGED <<envVars, helper, retryVars, child, processVars, outcome, cooling>>

(* Mutant: the new helper is started before the old one is stopped.        *)
ReconcileSwitch_StartsFirst ==
  /\ pc = "reconcile"
  /\ console \in Sessions
  /\ helper # NoHelper /\ sessionID[helper] # console
  /\ seen' = console
  /\ clearRetry
  /\ cooling' = NoSession
  /\ pc' = IF cancelled THEN "select" ELSE "check"
  /\ UNCHANGED <<envVars, helper, child, processVars, outcome>>

(* The helper held serves another session: stop it first.                  *)
ReconcileSwitch ==
  /\ pc = "reconcile"
  /\ console \in Sessions
  /\ helper # NoHelper /\ sessionID[helper] # console
  /\ seen' = console
  /\ clearRetry
  /\ cooling' = NoSession
  /\ pc' = "stop"
  /\ UNCHANGED <<envVars, helper, child, processVars, outcome>>

(* No helper held, none held back: start one unless ctx is done.           *)
ReconcileStart ==
  /\ pc = "reconcile"
  /\ console \in Sessions
  /\ helper = NoHelper
  /\ ~HeldBack(console)
  /\ seen' = console
  /\ clearRetry
  /\ cooling' = NoSession
  /\ pc' = IF cancelled THEN "select" ELSE "check"
  /\ UNCHANGED <<envVars, helper, child, processVars, outcome>>

-----------------------------------------------------------------------------
(* stopSupervisedHelper and windowsHelperProcess.Stop.                     *)

(* What Run does when the helper has been stopped, by what made it stop.   *)
AfterStop ==
  /\ helper' = NoHelper
  /\ \/ /\ pc \in {"finalStop", "finalKill"}
        /\ pc' = "returned"
        /\ outcome' = "nil"
     \/ /\ pc \in {"stop", "kill"}
        /\ pc' = IF seen \in Sessions /\ ~cancelled THEN "check" ELSE "select"
        /\ UNCHANGED outcome
  /\ UNCHANGED <<envVars, seen, retryVars, child, processVars, cooling>>

(* The process ended before the stop timeout.                              *)
StopFinishes ==
  /\ pc \in {"stop", "finalStop"}
  /\ helper \in Finished
  /\ AfterStop

(* ctx of the stop is done (its timeout, or Run's ctx): terminate.         *)
StopTimesOut ==
  /\ pc \in {"stop", "finalStop"}
  /\ pc' = IF pc = "stop" THEN "kill" ELSE "finalKill"
  /\ killed' = killed \cup ({helper} \cap Tracked)
  /\ UNCHANGED <<envVars, seen, helper, retryVars, child, proc, sessionID,
                 orphans, outcome, cooling>>

(* The process ended within helperForcedExitWait.                          *)
KillFinishes ==
  /\ pc \in {"kill", "finalKill"}
  /\ helper \in Finished
  /\ AfterStop

(* Mutant: a helper that would not die is forgotten.                       *)
KillTimesOut_ForgetsHelper ==
  /\ pc \in {"kill", "finalKill"}
  /\ helper \notin Finished
  /\ \/ /\ pc = "kill"
        /\ scheduleRetry(sessionID[helper], TRUE)
        /\ pc' = "select"
        /\ UNCHANGED outcome
     \/ /\ pc = "finalKill"
        /\ pc' = "returned"
        /\ outcome' = "error"
        /\ UNCHANGED retryVars
  /\ helper' = NoHelper
  /\ UNCHANGED <<envVars, seen, child, processVars, cooling>>

(* Mutant: no retry after a stop that failed.                              *)
KillTimesOut_NoRetry ==
  /\ pc \in {"kill", "finalKill"}
  /\ helper \notin Finished
  /\ \/ /\ pc = "kill"
        /\ UNCHANGED retryVars
        /\ pc' = "select"
        /\ UNCHANGED outcome
     \/ /\ pc = "finalKill"
        /\ pc' = "returned"
        /\ outcome' = "error"
        /\ UNCHANGED retryVars
  /\ UNCHANGED <<envVars, seen, helper, child, processVars, cooling>>

(* Mutant: a failed stop at shutdown is reported as a clean return.        *)
KillTimesOut_ReturnsNil ==
  /\ pc \in {"kill", "finalKill"}
  /\ helper \notin Finished
  /\ \/ /\ pc = "kill"
        /\ scheduleRetry(sessionID[helper], TRUE)
        /\ pc' = "select"
        /\ UNCHANGED outcome
     \/ /\ pc = "finalKill"
        /\ pc' = "returned"
        /\ outcome' = "nil"
        /\ UNCHANGED retryVars
  /\ UNCHANGED <<envVars, seen, helper, child, processVars, cooling>>

(* Mutant: the wait for the terminated process has no limit.               *)
KillTimesOut_Never ==
  /\ FALSE
  /\ UNCHANGED vars

(* It did not: Run keeps the helper and retries, or returns an error.      *)
KillTimesOut ==
  /\ pc \in {"kill", "finalKill"}
  /\ helper \notin Finished
  /\ \/ /\ pc = "kill"
        /\ scheduleRetry(sessionID[helper], TRUE)
        /\ pc' = "select"
        /\ UNCHANGED outcome
     \/ /\ pc = "finalKill"
        /\ pc' = "returned"
        /\ outcome' = "error"
        /\ UNCHANGED retryVars
  /\ UNCHANGED <<envVars, seen, helper, child, processVars, cooling>>

-----------------------------------------------------------------------------
(* startSessionHelper, called for the session in seen.                     *)

(* The call returns an error: Run schedules a retry of this session.       *)
StartFails ==
  /\ scheduleRetry(seen, FALSE)
  /\ cooling' = seen
  /\ pc' = "select"

(* The physical console still shows the session that was queried.          *)
ConsoleUnchanged ==
  /\ pc = "check"
  /\ console = seen
  /\ pc' = "launch"
  /\ UNCHANGED <<envVars, seen, helper, retryVars, child, processVars, outcome,
                 cooling>>

(* It does not, or a step before the process exists fails.                 *)
StartRefused ==
  /\ pc \in {"check", "launch"}
  /\ StartFails
  /\ UNCHANGED <<envVars, seen, helper, child, processVars, outcome>>

createProcessInSession(h) ==
  /\ pc = "launch"
  /\ proc[h] = "gone"
  /\ proc' = [proc EXCEPT ![h] = "alive"]
  /\ sessionID' = [sessionID EXCEPT ![h] = seen]
  /\ child' = h
  /\ pc' = "hello"
  /\ UNCHANGED <<envVars, seen, helper, retryVars, killed, orphans, outcome,
                 cooling>>

(* The process connected and its HELLO frame was the expected one.         *)
readHelperHello ==
  /\ pc = "hello"
  /\ pc' = "awaitReady"
  /\ UNCHANGED <<envVars, seen, helper, retryVars, child, processVars, outcome,
                 cooling>>

(* No connection or no valid HELLO in time: terminateAndCloseProcess.      *)
HelloFails ==
  /\ pc = "hello"
  /\ killed' = killed \cup ({child} \cap Tracked)
  /\ pc' = "reap"
  /\ UNCHANGED <<envVars, seen, helper, retryVars, child, proc, sessionID,
                 orphans, outcome, cooling>>

(* READY was received: startSessionHelper returns the helper, and Run      *)
(* queries the console session again.                                      *)
HelperReady ==
  /\ pc = "awaitReady"
  /\ helper' = child
  /\ child' = NoHelper
  /\ pc' = "reconcile"
  /\ UNCHANGED <<envVars, seen, retryVars, processVars, outcome, cooling>>

(* The pipe broke or startupCtx is done first: helper.Stop with ten        *)
(* seconds of its own.                                                     *)
ReadyFails ==
  /\ pc = "awaitReady"
  /\ pc' = "abandon"
  /\ UNCHANGED <<envVars, seen, helper, retryVars, child, processVars, outcome,
                 cooling>>

AbandonFinishes ==
  /\ pc = "abandon"
  /\ child \in Finished
  /\ child' = NoHelper
  /\ StartFails
  /\ UNCHANGED <<envVars, seen, helper, processVars, outcome>>

AbandonTimesOut ==
  /\ pc = "abandon"
  /\ killed' = killed \cup ({child} \cap Tracked)
  /\ pc' = "reap"
  /\ UNCHANGED <<envVars, seen, helper, retryVars, child, proc, sessionID,
                 orphans, outcome, cooling>>

(* The wait after TerminateProcess is over; the start fails either way.    *)
Reap ==
  /\ pc = "reap"
  /\ AbandonStuck \/ child \notin Tracked
  /\ orphans' = orphans \cup ({child} \cap Live)
  /\ child' = NoHelper
  /\ StartFails
  /\ UNCHANGED <<envVars, seen, helper, proc, sessionID, killed, outcome>>

-----------------------------------------------------------------------------
(* Run's select: any ready case may be taken.                              *)

(* Mutant: Run returns without stopping its helper.                        *)
TakeCancel_LeavesHelper ==
  /\ pc = "select"
  /\ cancelled
  /\ clearRetry
  /\ cooling' = NoSession
  /\ pc' = "returned"
  /\ outcome' = "nil"
  /\ UNCHANGED <<envVars, seen, helper, child, processVars>>

TakeCancel ==
  /\ pc = "select"
  /\ cancelled
  /\ clearRetry
  /\ cooling' = NoSession
  /\ pc' = IF helper = NoHelper THEN "returned" ELSE "finalStop"
  /\ outcome' = IF helper = NoHelper THEN "nil" ELSE outcome
  /\ UNCHANGED <<envVars, seen, helper, child, processVars>>

TakeNotification ==
  /\ pc = "select"
  /\ notified
  /\ notified' = FALSE
  /\ pc' = "reconcile"
  /\ UNCHANGED <<console, cancelled, seen, helper, retryVars, child, processVars,
                 outcome, cooling>>

(* Mutant: no retry after a helper that exited.                            *)
TakeHelperDone_NoRetry ==
  /\ pc = "select"
  /\ helper # NoHelper
  /\ helper \in Finished
  /\ helper' = NoHelper
  /\ cooling' = sessionID[helper]
  /\ UNCHANGED <<envVars, pc, seen, retryVars, child, processVars, outcome>>

(* The helper exited by itself.                                            *)
TakeHelperDone ==
  /\ pc = "select"
  /\ helper # NoHelper
  /\ helper \in Finished
  /\ helper' = NoHelper
  /\ scheduleRetry(sessionID[helper], FALSE)
  /\ cooling' = sessionID[helper]
  /\ UNCHANGED <<envVars, pc, seen, child, processVars, outcome>>

TakeRetry ==
  /\ pc = "select"
  /\ timer = "fired"
  /\ clearRetry
  /\ pc' = "reconcile"
  /\ UNCHANGED <<envVars, seen, helper, child, processVars, outcome, cooling>>

-----------------------------------------------------------------------------
(* The helper processes and the goroutines that wait for them.             *)

(* A helper process ends: on STOP, by TerminateProcess, or by itself.      *)
ProcessExits(h) ==
  /\ h \in Live
  /\ proc' = [proc EXCEPT ![h] = IF h \in Tracked THEN "exited" ELSE "gone"]
  /\ killed' = killed \ {h}
  /\ orphans' = orphans \ {h}
  /\ UNCHANGED <<envVars, pc, seen, helper, retryVars, child, sessionID, outcome,
                 cooling>>

(* windowsHelperProcess.wait closes the connection, then done.             *)
wait(h) ==
  /\ proc[h] = "exited"
  /\ proc' = [proc EXCEPT ![h] = "gone"]
  /\ UNCHANGED <<envVars, pc, seen, helper, retryVars, child, sessionID, killed,
                 orphans, outcome, cooling>>

(* The wait for a process fails, and its handle is closed: wait closes     *)
(* done, terminateAndCloseProcess returns.  Before HELLO nobody waits.     *)
WaitFails(h) ==
  /\ WaitFaults
  /\ h \in Tracked
  /\ ~(h = child /\ pc = "hello")
  /\ proc' = [proc EXCEPT ![h] = "lost"]
  /\ orphans' = orphans \cup {h}
  /\ UNCHANGED <<envVars, pc, seen, helper, retryVars, child, sessionID, killed,
                 outcome, cooling>>

-----------------------------------------------------------------------------
(* The environment of Run.                                                 *)

ConsoleChanges(c) ==
  /\ c # console
  /\ console' = c
  /\ UNCHANGED <<cancelled, notified, pc, seen, helper, retryVars, child,
                 processVars, outcome, cooling>>

(* A send to notifications that the channel has room for.                  *)
Notify ==
  /\ ~notified
  /\ notified' = TRUE
  /\ UNCHANGED <<console, cancelled, pc, seen, helper, retryVars, child,
                 processVars, outcome, cooling>>

Cancel ==
  /\ ~cancelled
  /\ cancelled' = TRUE
  /\ UNCHANGED <<console, notified, pc, seen, helper, retryVars, child,
                 processVars, outcome, cooling>>

-----------------------------------------------------------------------------
Reconcile ==
  \/ QueryFails
  \/ ReconcileUnusable
  \/ ReconcileSame
  \/ ReconcileHeldBack
  \/ ReconcileSwitch
  \/ ReconcileStart

StopStep ==
  \/ StopFinishes
  \/ StopTimesOut
  \/ KillFinishes
  \/ KillTimesOut

StartStep ==
  \/ ConsoleUnchanged
  \/ StartRefused
  \/ \E h \in Helpers : createProcessInSession(h)
  \/ readHelperHello
  \/ HelloFails
  \/ HelperReady
  \/ ReadyFails
  \/ AbandonFinishes
  \/ AbandonTimesOut
  \/ Reap

SelectStep ==
  \/ TakeCancel
  \/ TakeNotification
  \/ TakeHelperDone
  \/ TakeRetry

Run == Reconcile \/ StopStep \/ StartStep \/ SelectStep

ProcessStep == \E h \in Helpers : ProcessExits(h) \/ wait(h) \/ WaitFails(h)

Environment ==
  \/ \E c \in Sessions \cup {NoSession} : ConsoleChanges(c)
  \/ Notify
  \/ Cancel

Next == Run \/ RetryElapses \/ ProcessStep \/ Environment

Spec == Init /\ [][Next]_vars
-----------------------------------------------------------------------------
(* Run holds every live helper except the orphans, and never one it        *)
(* supervises next to one it is starting: supervised helpers of two        *)
(* sessions never drive the keyboard together (TestSupervisorReconciles-   *)
(* PhysicalConsoleSession's "maximum simultaneous helpers").               *)
OneSupervised ==
  /\ Live \ orphans \subseteq {helper, child}
  /\ helper = NoHelper \/ child = NoHelper

(* The same without exempting orphans: what the test asks for.             *)
AtMostOneHelper == \A g, h \in Live : g = h

(* What Run last saw on the console is what its helper does.               *)
Satisfied ==
  \/ seen = NoSession /\ helper = NoHelper
  \/ helper # NoHelper /\ sessionID[helper] = seen

(* No retry is ever lost: Run waits in its select with nothing running     *)
(* for the session it last saw only while a retry timer will wake it up,   *)
(* or while the cancellation that made it give up is there to wake it.     *)
WaitJustified ==
  pc = "select" => Satisfied \/ timer # "off" \/ cancelled

(* Run does not return while a helper runs unless it has called            *)
(* TerminateProcess on it, or its wait failed, and it returns nil (the     *)
(* service then exits with code 0) only when the done channel was closed.  *)
ReturnLeavesOnlyTerminated ==
  /\ outcome # "running" => Tracked \subseteq killed
  /\ outcome = "nil" => Live \subseteq orphans

(* "A notification for the same session must not bypass restart backoff":  *)
(* after a start that failed, an exit, or a failed query, Run enters       *)
(* startSessionHelper for that session only once restartBackoff elapsed or *)
(* Run has meanwhile seen another console state.                           *)
BackoffRespected ==
  [][pc = "reconcile" /\ pc' = "check" => cooling \notin {seen', QueryError}]_vars

(* Run and its helpers implement SingleAgent, orphans being none of its    *)
(* agents: one helper serves at a time, one for another  *)
(* session only after it ended, and nil is returned only when none serves. *)
Agent == INSTANCE SingleAgent
           WITH serving <- {<<h, sessionID[h]>> : h \in Live \ orphans}
AgentSpec == Agent!ASpec
=============================================================================
