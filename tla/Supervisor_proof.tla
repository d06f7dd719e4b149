-------------------------- MODULE Supervisor_proof --------------------------
(***************************************************************************)
(* What TLAPS proves of Supervisor, for every set of sessions and helpers. *)
(***************************************************************************)
EXTENDS Supervisor, TLAPS

(* The states of pc in which startSessionHelper has a process in hand.     *)
Launched == {"hello", "awaitReady", "abandon", "reap"}

(* Who answers for a live process: Run (helper), the start under way       *)
(* (child), or nobody any more, and then it was terminated or is lost.     *)
Owned ==
  /\ Live \ orphans \subseteq {helper, child}
  /\ orphans \cap Tracked \subseteq killed
  /\ killed \cup orphans \subseteq Live
  /\ Live \ Tracked \subseteq orphans

(* Where Run can be with which helper in hand.                             *)
Control ==
  /\ pc \in Starting => helper = NoHelper /\ seen \in Sessions
  /\ child # NoHelper <=> pc \in Launched
  /\ pc \in Stopping => helper # NoHelper
  /\ pc \in {"stop", "kill"} => seen # QueryError
  /\ pc = "returned" <=> outcome # "running"

(* TerminateProcess precedes every wait for a forced exit, and Run lets go *)
(* of a live helper only after such a wait.                                *)
Terminated ==
  /\ pc \in {"kill", "finalKill"} /\ helper \in Tracked => helper \in killed
  /\ pc = "reap" /\ child \in Tracked => child \in killed
  /\ outcome = "nil" => helper = NoHelper
  /\ outcome = "error" /\ helper \in Tracked => helper \in killed

IInv == TypeOK /\ Owned /\ Control /\ Terminated

(* The assumptions on the constants are facts of every proof.              *)
USE SessionsAssumption, HelpersAssumption, AbandonAssumption, WaitFaultsAssumption

(* Every step from the invariant keeps the types.                          *)
LEMMA TypeStep == IInv /\ [Next]_vars => TypeOK'
<1> SUFFICES ASSUME TypeOK, Control, [Next]_vars PROVE TypeOK'
  BY DEF IInv
<1> USE DEF TypeOK, PCs, Stopping, Starting, envVars, retryVars, processVars,
            clearRetry, scheduleRetry
<1>1. CASE Reconcile
  <2>1. CASE QueryFails
    BY <2>1 DEF QueryFails
  <2>2. CASE ReconcileUnusable
    BY <2>2 DEF ReconcileUnusable
  <2>3. CASE ReconcileSame
    BY <2>3 DEF ReconcileSame
  <2>4. CASE ReconcileHeldBack
    BY <2>4 DEF ReconcileHeldBack
  <2>5. CASE ReconcileSwitch
    BY <2>5 DEF ReconcileSwitch
  <2>6. CASE ReconcileStart
    BY <2>6 DEF ReconcileStart
  <2> QED BY <1>1, <2>1, <2>2, <2>3, <2>4, <2>5, <2>6 DEF Reconcile
<1>2. CASE StopStep
  <2>1. CASE StopFinishes
    BY <2>1 DEF StopFinishes, AfterStop
  <2>2. CASE StopTimesOut
    BY <2>2 DEF StopTimesOut, Live, Tracked, Finished
  <2>3. CASE KillFinishes
    BY <2>3 DEF KillFinishes, AfterStop
  <2>4. CASE KillTimesOut
    <3>1. CASE pc = "kill"
      BY <2>4, <3>1 DEF KillTimesOut, Control
    <3>2. CASE pc = "finalKill"
      BY <2>4, <3>2 DEF KillTimesOut
    <3> QED BY <2>4, <3>1, <3>2 DEF KillTimesOut
  <2> QED BY <1>2, <2>1, <2>2, <2>3, <2>4 DEF StopStep
<1>3. CASE StartStep
  <2>1. CASE ConsoleUnchanged
    BY <2>1 DEF ConsoleUnchanged
  <2>2. CASE StartRefused
    BY <2>2 DEF StartRefused, StartFails, Control
  <2>3. ASSUME NEW h \in Helpers, createProcessInSession(h) PROVE TypeOK'
    BY <2>3 DEF createProcessInSession, Control
  <2>4. CASE readHelperHello
    BY <2>4 DEF readHelperHello
  <2>5. CASE HelloFails
    BY <2>5 DEF HelloFails, Live, Tracked, Finished
  <2>6. CASE HelperReady
    BY <2>6 DEF HelperReady
  <2>7. CASE ReadyFails
    BY <2>7 DEF ReadyFails
  <2>8. CASE AbandonFinishes
    BY <2>8 DEF AbandonFinishes, StartFails, Control
  <2>9. CASE AbandonTimesOut
    BY <2>9 DEF AbandonTimesOut, Live, Tracked, Finished
  <2>10. CASE Reap
    BY <2>10 DEF Reap, StartFails, Control, Live, Tracked, Finished
  <2> QED
    BY <1>3, <2>1, <2>2, <2>3, <2>4, <2>5, <2>6, <2>7, <2>8, <2>9, <2>10
    DEF StartStep
<1>4. CASE SelectStep
  <2>1. CASE TakeCancel
    BY <2>1 DEF TakeCancel
  <2>2. CASE TakeNotification
    <3>1. /\ UNCHANGED <<console, cancelled, seen, helper, timer, retrySession,
                         retryAll, child, proc, sessionID, killed, orphans,
                         outcome, cooling>>
          /\ notified' = FALSE /\ pc' = "reconcile"
      BY <2>2, Zenon DEF TakeNotification
    <3>2. pc' \in PCs
      BY <3>1
    <3>3. /\ cancelled' \in BOOLEAN /\ notified' \in BOOLEAN
          /\ retryAll' \in BOOLEAN
      BY <3>1, Zenon
    <3>4. /\ console' \in Sessions \cup {NoSession}
          /\ seen' \in Sessions \cup {NoSession, QueryError}
          /\ helper' \in Helpers \cup {NoHelper}
          /\ timer' \in {"off", "armed", "fired"}
          /\ retrySession' \in Sessions \cup {NoSession}
          /\ child' \in Helpers \cup {NoHelper}
          /\ outcome' \in {"running", "nil", "error"}
          /\ cooling' \in Sessions \cup {NoSession, QueryError}
      BY <3>1
    <3>5. /\ proc' \in [Helpers -> {"alive", "exited", "gone", "lost"}]
          /\ sessionID' \in [Helpers -> Sessions]
          /\ killed' \in SUBSET Helpers
          /\ orphans' \in SUBSET Helpers
      BY <3>1
    <3> HIDE DEF PCs
    <3> QED BY <3>2, <3>3, <3>4, <3>5, Zenon
  <2>3. CASE TakeHelperDone
    BY <2>3 DEF TakeHelperDone
  <2>4. CASE TakeRetry
    <3>1. /\ UNCHANGED <<console, cancelled, notified, seen, helper,
                         retrySession, child, proc, sessionID, killed, orphans,
                         outcome, cooling>>
          /\ timer' = "off" /\ retryAll' = FALSE /\ pc' = "reconcile"
      BY <2>4, Zenon DEF TakeRetry
    <3>2. pc' \in PCs
      BY <3>1
    <3>3. /\ cancelled' \in BOOLEAN /\ notified' \in BOOLEAN
          /\ retryAll' \in BOOLEAN
      BY <3>1, Zenon
    <3>4. /\ console' \in Sessions \cup {NoSession}
          /\ seen' \in Sessions \cup {NoSession, QueryError}
          /\ helper' \in Helpers \cup {NoHelper}
          /\ timer' \in {"off", "armed", "fired"}
          /\ retrySession' \in Sessions \cup {NoSession}
          /\ child' \in Helpers \cup {NoHelper}
          /\ outcome' \in {"running", "nil", "error"}
          /\ cooling' \in Sessions \cup {NoSession, QueryError}
      BY <3>1
    <3>5. /\ proc' \in [Helpers -> {"alive", "exited", "gone", "lost"}]
          /\ sessionID' \in [Helpers -> Sessions]
          /\ killed' \in SUBSET Helpers
          /\ orphans' \in SUBSET Helpers
      BY <3>1
    <3> HIDE DEF PCs
    <3> QED BY <3>2, <3>3, <3>4, <3>5, Zenon
  <2> QED BY <1>4, <2>1, <2>2, <2>3, <2>4 DEF SelectStep
<1>5. CASE RetryElapses
  BY <1>5 DEF RetryElapses
<1>6. CASE ProcessStep
  <2>1. ASSUME NEW h \in Helpers, ProcessExits(h) PROVE TypeOK'
    BY <2>1 DEF ProcessExits
  <2>2. ASSUME NEW h \in Helpers, wait(h) PROVE TypeOK'
    BY <2>2 DEF wait
  <2>3. ASSUME NEW h \in Helpers, WaitFails(h) PROVE TypeOK'
    BY <2>3 DEF WaitFails
  <2> QED BY <1>6, <2>1, <2>2, <2>3 DEF ProcessStep
<1>7. CASE Environment
  <2>1. ASSUME NEW c \in Sessions \cup {NoSession}, ConsoleChanges(c) PROVE TypeOK'
    BY <2>1 DEF ConsoleChanges
  <2>2. CASE Notify
    BY <2>2 DEF Notify
  <2>3. CASE Cancel
    BY <2>3 DEF Cancel
  <2> QED BY <1>7, <2>1, <2>2, <2>3 DEF Environment
<1>8. CASE UNCHANGED vars
  BY <1>8 DEF vars
<1> QED BY <1>1, <1>2, <1>3, <1>4, <1>5, <1>6, <1>7, <1>8 DEF Next, Run

(* The invariant behind the theorems below is preserved by every step.     *)
LEMMA InvariantStep == IInv /\ [Next]_vars => IInv'
<1> SUFFICES ASSUME IInv, [Next]_vars PROVE (Owned /\ Control /\ Terminated)'
  BY TypeStep DEF IInv
<1> USE DEF IInv, TypeOK, Owned, Control, Terminated, Launched, Live, Tracked, Finished,
            Stopping, Starting,
            envVars, retryVars, processVars, clearRetry, scheduleRetry
<1>1. CASE Reconcile
  <2>1. CASE QueryFails
    BY <2>1 DEF QueryFails
  <2>2. CASE ReconcileUnusable
    BY <2>2 DEF ReconcileUnusable
  <2>3. CASE ReconcileSame
    BY <2>3 DEF ReconcileSame
  <2>4. CASE ReconcileHeldBack
    BY <2>4 DEF ReconcileHeldBack
  <2>5. CASE ReconcileSwitch
    BY <2>5 DEF ReconcileSwitch
  <2>6. CASE ReconcileStart
    BY <2>6 DEF ReconcileStart
  <2> QED BY <1>1, <2>1, <2>2, <2>3, <2>4, <2>5, <2>6 DEF Reconcile
<1>2. CASE StopStep
  <2>1. CASE StopFinishes
    BY <2>1 DEF StopFinishes, AfterStop
  <2>2. CASE StopTimesOut
    BY <2>2 DEF StopTimesOut
  <2>3. CASE KillFinishes
    BY <2>3 DEF KillFinishes, AfterStop
  <2>4. CASE KillTimesOut
    BY <2>4 DEF KillTimesOut
  <2> QED BY <1>2, <2>1, <2>2, <2>3, <2>4 DEF StopStep
<1>3. CASE StartStep
  <2>1. CASE ConsoleUnchanged
    BY <2>1 DEF ConsoleUnchanged
  <2>2. CASE StartRefused
    BY <2>2 DEF StartRefused, StartFails
  <2>3. ASSUME NEW h \in Helpers, createProcessInSession(h)
       PROVE  (Owned /\ Control /\ Terminated)'
    BY <2>3 DEF createProcessInSession
  <2>4. CASE readHelperHello
    BY <2>4 DEF readHelperHello
  <2>5. CASE HelloFails
    BY <2>5 DEF HelloFails
  <2>6. CASE HelperReady
    BY <2>6 DEF HelperReady
  <2>7. CASE ReadyFails
    BY <2>7 DEF ReadyFails
  <2>8. CASE AbandonFinishes
    BY <2>8 DEF AbandonFinishes, StartFails
  <2>9. CASE AbandonTimesOut
    BY <2>9 DEF AbandonTimesOut
  <2>10. CASE Reap
    BY <2>10 DEF Reap, StartFails
  <2> QED
    BY <1>3, <2>1, <2>2, <2>3, <2>4, <2>5, <2>6, <2>7, <2>8, <2>9, <2>10
    DEF StartStep
<1>4. CASE SelectStep
  <2>1. CASE TakeCancel
    BY <2>1 DEF TakeCancel
  <2>2. CASE TakeNotification
    BY <2>2 DEF TakeNotification
  <2>3. CASE TakeHelperDone
    BY <2>3 DEF TakeHelperDone
  <2>4. CASE TakeRetry
    BY <2>4 DEF TakeRetry
  <2> QED BY <1>4, <2>1, <2>2, <2>3, <2>4 DEF SelectStep
<1>5. CASE RetryElapses
  BY <1>5 DEF RetryElapses
<1>6. CASE ProcessStep
  <2>1. ASSUME NEW h \in Helpers, ProcessExits(h)
       PROVE  (Owned /\ Control /\ Terminated)'
    BY <2>1 DEF ProcessExits
  <2>2. ASSUME NEW h \in Helpers, wait(h)
       PROVE  (Owned /\ Control /\ Terminated)'
    BY <2>2 DEF wait
  <2>3. ASSUME NEW h \in Helpers, WaitFails(h)
       PROVE  (Owned /\ Control /\ Terminated)'
    BY <2>3 DEF WaitFails
  <2> QED BY <1>6, <2>1, <2>2, <2>3 DEF ProcessStep
<1>7. CASE Environment
  <2>1. ASSUME NEW c \in Sessions \cup {NoSession}, ConsoleChanges(c)
       PROVE  (Owned /\ Control /\ Terminated)'
    BY <2>1 DEF ConsoleChanges
  <2>2. CASE Notify
    BY <2>2 DEF Notify
  <2>3. CASE Cancel
    BY <2>3 DEF Cancel
  <2> QED BY <1>7, <2>1, <2>2, <2>3 DEF Environment
<1>8. CASE UNCHANGED vars
  BY <1>8 DEF vars
<1> QED BY <1>1, <1>2, <1>3, <1>4, <1>5, <1>6, <1>7, <1>8 DEF Next, Run

(* Hence it holds in every state of Run and its helpers.                   *)
THEOREM InvariantHolds == Spec => []IInv
<1>1. Init => IInv
  BY DEF Init, IInv, TypeOK, PCs, Owned, Control, Terminated, Launched, Live, Tracked, Finished,
         Stopping, Starting
<1>2. IInv /\ [Next]_vars => IInv'
  BY InvariantStep
<1> QED BY <1>1, <1>2, PTL DEF Spec

(* Every variable stays within its type.                                   *)
THEOREM TypeCorrect == Spec => []TypeOK
BY InvariantHolds, PTL DEF IInv

(* Supervised helpers never run together.                                  *)
THEOREM Supervision == Spec => []OneSupervised
<1>1. IInv => OneSupervised
  BY DEF IInv, Owned, Control, Launched, Starting, OneSupervised
<1> QED BY <1>1, InvariantHolds, PTL

(* Run returns only from helpers that ended, were terminated, or whose     *)
(* wait failed, and says nil only when none is left that it could wait for.*)
THEOREM CleanReturn == Spec => []ReturnLeavesOnlyTerminated
<1>1. IInv => ReturnLeavesOnlyTerminated
  <2> SUFFICES ASSUME IInv PROVE ReturnLeavesOnlyTerminated
    OBVIOUS
  <2>1. outcome # "running" => child = NoHelper
    BY DEF IInv, Control, Launched
  <2>2. outcome = "running" \/ outcome = "nil" \/ outcome = "error"
    BY DEF IInv, TypeOK
  <2> QED BY <2>1, <2>2 DEF IInv, TypeOK, Owned, Terminated, Live, Tracked,
                            Finished, ReturnLeavesOnlyTerminated
<1> QED BY <1>1, InvariantHolds, PTL

(* Run never forgets the retry it will need.                               *)
LEMMA WaitStep == IInv /\ WaitJustified /\ [Next]_vars => WaitJustified'
<1> SUFFICES ASSUME IInv, WaitJustified, [Next]_vars PROVE WaitJustified'
  OBVIOUS
<1> USE DEF IInv, TypeOK, Control, Starting, Stopping, WaitJustified, Satisfied,
            envVars, retryVars, processVars, clearRetry, scheduleRetry
<1>1. CASE Reconcile
  <2>1. CASE QueryFails
    BY <2>1 DEF QueryFails
  <2>2. CASE ReconcileUnusable
    BY <2>2 DEF ReconcileUnusable
  <2>3. CASE ReconcileSame
    BY <2>3 DEF ReconcileSame
  <2>4. CASE ReconcileHeldBack
    BY <2>4 DEF ReconcileHeldBack, HeldBack
  <2>5. CASE ReconcileSwitch
    BY <2>5 DEF ReconcileSwitch
  <2>6. CASE ReconcileStart
    BY <2>6 DEF ReconcileStart
  <2> QED BY <1>1, <2>1, <2>2, <2>3, <2>4, <2>5, <2>6 DEF Reconcile
<1>2. CASE StopStep
  <2>1. CASE StopFinishes
    BY <2>1 DEF StopFinishes, AfterStop
  <2>2. CASE StopTimesOut
    BY <2>2 DEF StopTimesOut
  <2>3. CASE KillFinishes
    BY <2>3 DEF KillFinishes, AfterStop
  <2>4. CASE KillTimesOut
    BY <2>4 DEF KillTimesOut
  <2> QED BY <1>2, <2>1, <2>2, <2>3, <2>4 DEF StopStep
<1>3. CASE StartStep
  <2>1. CASE ConsoleUnchanged
    BY <2>1 DEF ConsoleUnchanged
  <2>2. CASE StartRefused
    BY <2>2 DEF StartRefused, StartFails
  <2>3. ASSUME NEW h \in Helpers, createProcessInSession(h) PROVE WaitJustified'
    BY <2>3 DEF createProcessInSession
  <2>4. CASE readHelperHello
    BY <2>4 DEF readHelperHello
  <2>5. CASE HelloFails
    BY <2>5 DEF HelloFails
  <2>6. CASE HelperReady
    BY <2>6 DEF HelperReady
  <2>7. CASE ReadyFails
    BY <2>7 DEF ReadyFails
  <2>8. CASE AbandonFinishes
    BY <2>8 DEF AbandonFinishes, StartFails
  <2>9. CASE AbandonTimesOut
    BY <2>9 DEF AbandonTimesOut
  <2>10. CASE Reap
    BY <2>10 DEF Reap, StartFails
  <2> QED
    BY <1>3, <2>1, <2>2, <2>3, <2>4, <2>5, <2>6, <2>7, <2>8, <2>9, <2>10
    DEF StartStep
<1>4. CASE SelectStep
  <2>1. CASE TakeCancel
    BY <2>1 DEF TakeCancel
  <2>2. CASE TakeNotification
    BY <2>2 DEF TakeNotification
  <2>3. CASE TakeHelperDone
    BY <2>3 DEF TakeHelperDone
  <2>4. CASE TakeRetry
    BY <2>4 DEF TakeRetry
  <2> QED BY <1>4, <2>1, <2>2, <2>3, <2>4 DEF SelectStep
<1>5. CASE RetryElapses
  BY <1>5 DEF RetryElapses
<1>6. CASE ProcessStep
  <2>1. ASSUME NEW h \in Helpers, ProcessExits(h) PROVE WaitJustified'
    BY <2>1 DEF ProcessExits
  <2>2. ASSUME NEW h \in Helpers, wait(h) PROVE WaitJustified'
    BY <2>2 DEF wait
  <2>3. ASSUME NEW h \in Helpers, WaitFails(h) PROVE WaitJustified'
    BY <2>3 DEF WaitFails
  <2> QED BY <1>6, <2>1, <2>2, <2>3 DEF ProcessStep
<1>7. CASE Environment
  <2>1. ASSUME NEW c \in Sessions \cup {NoSession}, ConsoleChanges(c) PROVE WaitJustified'
    BY <2>1 DEF ConsoleChanges
  <2>2. CASE Notify
    BY <2>2 DEF Notify
  <2>3. CASE Cancel
    BY <2>3 DEF Cancel
  <2> QED BY <1>7, <2>1, <2>2, <2>3 DEF Environment
<1>8. CASE UNCHANGED vars
  BY <1>8 DEF vars
<1> QED BY <1>1, <1>2, <1>3, <1>4, <1>5, <1>6, <1>7, <1>8 DEF Next, Run

(* Whatever the console, the helpers and the timer do, Run waits with      *)
(* nothing to do only when nothing is left to be done.                     *)
THEOREM NoRetryLost == Spec => []WaitJustified
<1>1. Init => WaitJustified
  BY DEF Init, WaitJustified
<1>2. IInv /\ WaitJustified /\ [Next]_vars => WaitJustified'
  BY WaitStep
<1> QED BY <1>1, <1>2, InvariantHolds, PTL DEF Spec

(* While a backoff runs, no helper is held and the timer is the one that   *)
(* ends it: HeldBack then refuses the session.                             *)
Backoff ==
  cooling # NoSession =>
    /\ helper = NoHelper
    /\ pc \in {"select", "reconcile"}
    /\ timer = "armed"
    /\ cooling = QueryError => retryAll
    /\ retryAll \/ retrySession = cooling

(* Every step keeps the backoff running or ends it the way the code does.  *)
LEMMA BackoffStep == IInv /\ Backoff /\ [Next]_vars => Backoff'
<1> SUFFICES ASSUME IInv, Backoff, [Next]_vars PROVE Backoff'
  OBVIOUS
<1> USE DEF IInv, TypeOK, Control, Starting, Stopping, Launched, Backoff,
            envVars, retryVars, processVars, clearRetry, scheduleRetry
<1>1. CASE Reconcile
  <2>1. CASE QueryFails
    BY <2>1 DEF QueryFails
  <2>2. CASE ReconcileUnusable
    BY <2>2 DEF ReconcileUnusable
  <2>3. CASE ReconcileSame
    BY <2>3 DEF ReconcileSame
  <2>4. CASE ReconcileHeldBack
    BY <2>4 DEF ReconcileHeldBack
  <2>5. CASE ReconcileSwitch
    BY <2>5 DEF ReconcileSwitch
  <2>6. CASE ReconcileStart
    BY <2>6 DEF ReconcileStart
  <2> QED BY <1>1, <2>1, <2>2, <2>3, <2>4, <2>5, <2>6 DEF Reconcile
<1>2. CASE StopStep
  <2>1. CASE StopFinishes
    BY <2>1 DEF StopFinishes, AfterStop
  <2>2. CASE StopTimesOut
    BY <2>2 DEF StopTimesOut
  <2>3. CASE KillFinishes
    BY <2>3 DEF KillFinishes, AfterStop
  <2>4. CASE KillTimesOut
    BY <2>4 DEF KillTimesOut
  <2> QED BY <1>2, <2>1, <2>2, <2>3, <2>4 DEF StopStep
<1>3. CASE StartStep
  <2>1. CASE ConsoleUnchanged
    BY <2>1 DEF ConsoleUnchanged
  <2>2. CASE StartRefused
    BY <2>2 DEF StartRefused, StartFails
  <2>3. ASSUME NEW h \in Helpers, createProcessInSession(h) PROVE Backoff'
    BY <2>3 DEF createProcessInSession
  <2>4. CASE readHelperHello
    BY <2>4 DEF readHelperHello
  <2>5. CASE HelloFails
    BY <2>5 DEF HelloFails
  <2>6. CASE HelperReady
    BY <2>6 DEF HelperReady
  <2>7. CASE ReadyFails
    BY <2>7 DEF ReadyFails
  <2>8. CASE AbandonFinishes
    BY <2>8 DEF AbandonFinishes, StartFails
  <2>9. CASE AbandonTimesOut
    BY <2>9 DEF AbandonTimesOut
  <2>10. CASE Reap
    BY <2>10 DEF Reap, StartFails
  <2> QED
    BY <1>3, <2>1, <2>2, <2>3, <2>4, <2>5, <2>6, <2>7, <2>8, <2>9, <2>10
    DEF StartStep
<1>4. CASE SelectStep
  <2>1. CASE TakeCancel
    BY <2>1 DEF TakeCancel
  <2>2. CASE TakeNotification
    BY <2>2 DEF TakeNotification
  <2>3. CASE TakeHelperDone
    BY <2>3 DEF TakeHelperDone
  <2>4. CASE TakeRetry
    BY <2>4 DEF TakeRetry
  <2> QED BY <1>4, <2>1, <2>2, <2>3, <2>4 DEF SelectStep
<1>5. CASE RetryElapses
  BY <1>5 DEF RetryElapses
<1>6. CASE ProcessStep
  <2>1. ASSUME NEW h \in Helpers, ProcessExits(h) PROVE Backoff'
    BY <2>1 DEF ProcessExits
  <2>2. ASSUME NEW h \in Helpers, wait(h) PROVE Backoff'
    BY <2>2 DEF wait
  <2>3. ASSUME NEW h \in Helpers, WaitFails(h) PROVE Backoff'
    BY <2>3 DEF WaitFails
  <2> QED BY <1>6, <2>1, <2>2, <2>3 DEF ProcessStep
<1>7. CASE Environment
  <2>1. ASSUME NEW c \in Sessions \cup {NoSession}, ConsoleChanges(c) PROVE Backoff'
    BY <2>1 DEF ConsoleChanges
  <2>2. CASE Notify
    BY <2>2 DEF Notify
  <2>3. CASE Cancel
    BY <2>3 DEF Cancel
  <2> QED BY <1>7, <2>1, <2>2, <2>3 DEF Environment
<1>8. CASE UNCHANGED vars
  BY <1>8 DEF vars
<1> QED BY <1>1, <1>2, <1>3, <1>4, <1>5, <1>6, <1>7, <1>8 DEF Next, Run

(* No notification bypasses the restart backoff (supervisor.go, comment at *)
(* line 92).                                                               *)
THEOREM NoBackoffBypass == Spec => BackoffRespected
<1>1. Init => Backoff
  BY DEF Init, Backoff
<1>2. IInv /\ Backoff /\ [Next]_vars => Backoff'
  BY BackoffStep
<1>3. Backoff /\ [Next]_vars
        => [pc = "reconcile" /\ pc' = "check" => cooling \notin {seen', QueryError}]_vars
  <2> SUFFICES ASSUME Backoff, Next, pc = "reconcile", pc' = "check"
               PROVE cooling \notin {seen', QueryError}
    BY DEF vars
  <2>1. ReconcileStart
    BY DEF Next, Run, Reconcile, QueryFails, ReconcileUnusable, ReconcileSame,
           ReconcileHeldBack, ReconcileSwitch, StopStep, StopFinishes,
           StopTimesOut, KillFinishes, KillTimesOut, AfterStop, StartStep,
           ConsoleUnchanged, StartRefused, createProcessInSession,
           readHelperHello, HelloFails, HelperReady, ReadyFails,
           AbandonFinishes, AbandonTimesOut, Reap, StartFails, SelectStep,
           TakeCancel, TakeNotification, TakeHelperDone, TakeRetry,
           RetryElapses, ProcessStep, ProcessExits, wait, WaitFails, Environment,
           ConsoleChanges, Notify, Cancel
  <2> QED BY <2>1 DEF ReconcileStart, HeldBack, Backoff
<1> QED BY <1>1, <1>2, <1>3, InvariantHolds, PTL DEF Spec, BackoffRespected

(* Without a process that survives being abandoned, or whose wait fails,   *)
(* there are no orphans.                                                   *)
NoOrphans == AbandonStuck = FALSE /\ WaitFaults = FALSE => orphans = {}

(* Reap is the only step that could leave one.                             *)
LEMMA NoOrphansStep == IInv /\ NoOrphans /\ [Next]_vars => NoOrphans'
<1> SUFFICES ASSUME IInv, NoOrphans, [Next]_vars PROVE NoOrphans'
  OBVIOUS
<1> USE DEF NoOrphans, Live, Tracked, Finished,
            envVars, retryVars, processVars, clearRetry, scheduleRetry
<1>1. CASE Reconcile
  <2>1. CASE QueryFails
    BY <2>1 DEF QueryFails
  <2>2. CASE ReconcileUnusable
    BY <2>2 DEF ReconcileUnusable
  <2>3. CASE ReconcileSame
    BY <2>3 DEF ReconcileSame
  <2>4. CASE ReconcileHeldBack
    BY <2>4 DEF ReconcileHeldBack
  <2>5. CASE ReconcileSwitch
    BY <2>5 DEF ReconcileSwitch
  <2>6. CASE ReconcileStart
    BY <2>6 DEF ReconcileStart
  <2> QED BY <1>1, <2>1, <2>2, <2>3, <2>4, <2>5, <2>6 DEF Reconcile
<1>2. CASE StopStep
  <2>1. CASE StopFinishes
    BY <2>1 DEF StopFinishes, AfterStop
  <2>2. CASE StopTimesOut
    BY <2>2 DEF StopTimesOut
  <2>3. CASE KillFinishes
    BY <2>3 DEF KillFinishes, AfterStop
  <2>4. CASE KillTimesOut
    BY <2>4 DEF KillTimesOut
  <2> QED BY <1>2, <2>1, <2>2, <2>3, <2>4 DEF StopStep
<1>3. CASE StartStep
  <2>1. CASE ConsoleUnchanged
    BY <2>1 DEF ConsoleUnchanged
  <2>2. CASE StartRefused
    BY <2>2 DEF StartRefused, StartFails
  <2>3. ASSUME NEW h \in Helpers, createProcessInSession(h) PROVE NoOrphans'
    BY <2>3 DEF createProcessInSession
  <2>4. CASE readHelperHello
    BY <2>4 DEF readHelperHello
  <2>5. CASE HelloFails
    BY <2>5 DEF HelloFails
  <2>6. CASE HelperReady
    BY <2>6 DEF HelperReady
  <2>7. CASE ReadyFails
    BY <2>7 DEF ReadyFails
  <2>8. CASE AbandonFinishes
    BY <2>8 DEF AbandonFinishes, StartFails
  <2>9. CASE AbandonTimesOut
    BY <2>9 DEF AbandonTimesOut
  <2>10. CASE Reap
    BY <2>10 DEF Reap, StartFails, IInv, Owned
  <2> QED
    BY <1>3, <2>1, <2>2, <2>3, <2>4, <2>5, <2>6, <2>7, <2>8, <2>9, <2>10
    DEF StartStep
<1>4. CASE SelectStep
  <2>1. CASE TakeCancel
    BY <2>1 DEF TakeCancel
  <2>2. CASE TakeNotification
    BY <2>2 DEF TakeNotification
  <2>3. CASE TakeHelperDone
    BY <2>3 DEF TakeHelperDone
  <2>4. CASE TakeRetry
    BY <2>4 DEF TakeRetry
  <2> QED BY <1>4, <2>1, <2>2, <2>3, <2>4 DEF SelectStep
<1>5. CASE RetryElapses
  BY <1>5 DEF RetryElapses
<1>6. CASE ProcessStep
  <2>1. ASSUME NEW h \in Helpers, ProcessExits(h) PROVE NoOrphans'
    BY <2>1 DEF ProcessExits
  <2>2. ASSUME NEW h \in Helpers, wait(h) PROVE NoOrphans'
    BY <2>2 DEF wait
  <2>3. ASSUME NEW h \in Helpers, WaitFails(h) PROVE NoOrphans'
    BY <2>3 DEF WaitFails
  <2> QED BY <1>6, <2>1, <2>2, <2>3 DEF ProcessStep
<1>7. CASE Environment
  <2>1. ASSUME NEW c \in Sessions \cup {NoSession}, ConsoleChanges(c) PROVE NoOrphans'
    BY <2>1 DEF ConsoleChanges
  <2>2. CASE Notify
    BY <2>2 DEF Notify
  <2>3. CASE Cancel
    BY <2>3 DEF Cancel
  <2> QED BY <1>7, <2>1, <2>2, <2>3 DEF Environment
<1>8. CASE UNCHANGED vars
  BY <1>8 DEF vars
<1> QED BY <1>1, <1>2, <1>3, <1>4, <1>5, <1>6, <1>7, <1>8 DEF Next, Run

(* With none, no two helpers are ever alive together.                      *)
THEOREM NeverTwo ==
  ASSUME AbandonStuck = FALSE, WaitFaults = FALSE
  PROVE  Spec => []AtMostOneHelper
<1>1. Init => NoOrphans
  BY DEF Init, NoOrphans
<1>2. IInv /\ NoOrphans /\ [Next]_vars => NoOrphans'
  BY NoOrphansStep
<1>3. IInv /\ NoOrphans => AtMostOneHelper
  BY DEF IInv, Owned, Control, Launched, Starting, NoOrphans, AtMostOneHelper,
         Live, Tracked, Finished
<1> QED BY <1>1, <1>2, <1>3, InvariantHolds, PTL DEF Spec

(* What a step does to the processes and to the outcome.                   *)
Quiet == UNCHANGED <<proc, sessionID, orphans, outcome>>
Returns ==
  /\ UNCHANGED <<proc, sessionID, orphans>>
  /\ pc # "returned"
  /\ outcome' \in {"nil", "error"}
StepKind ==
  \/ Quiet
  \/ Returns
  \/ Reap
  \/ \E h \in Helpers : createProcessInSession(h)
  \/ ProcessStep

(* Every step is of one of these kinds.                                    *)
LEMMA StepKinds == [Next]_vars => StepKind
<1> SUFFICES ASSUME [Next]_vars PROVE StepKind
  OBVIOUS
<1> USE DEF StepKind, Quiet, Returns, envVars, retryVars, processVars
<1>1. CASE Reconcile
  <2>1. CASE QueryFails
    BY <2>1 DEF QueryFails
  <2>2. CASE ReconcileUnusable
    BY <2>2 DEF ReconcileUnusable
  <2>3. CASE ReconcileSame
    BY <2>3 DEF ReconcileSame
  <2>4. CASE ReconcileHeldBack
    BY <2>4 DEF ReconcileHeldBack
  <2>5. CASE ReconcileSwitch
    BY <2>5 DEF ReconcileSwitch
  <2>6. CASE ReconcileStart
    BY <2>6 DEF ReconcileStart
  <2> QED BY <1>1, <2>1, <2>2, <2>3, <2>4, <2>5, <2>6 DEF Reconcile
<1>2. CASE StopStep
  <2>1. CASE StopFinishes
    BY <2>1 DEF StopFinishes, AfterStop
  <2>2. CASE StopTimesOut
    BY <2>2 DEF StopTimesOut
  <2>3. CASE KillFinishes
    BY <2>3 DEF KillFinishes, AfterStop
  <2>4. CASE KillTimesOut
    BY <2>4 DEF KillTimesOut
  <2> QED BY <1>2, <2>1, <2>2, <2>3, <2>4 DEF StopStep
<1>3. CASE StartStep
  <2>1. CASE ConsoleUnchanged
    BY <2>1 DEF ConsoleUnchanged
  <2>2. CASE StartRefused
    BY <2>2 DEF StartRefused, StartFails
  <2>3. ASSUME NEW h \in Helpers, createProcessInSession(h) PROVE StepKind
    BY <2>3 DEF createProcessInSession
  <2>4. CASE readHelperHello
    BY <2>4 DEF readHelperHello
  <2>5. CASE HelloFails
    BY <2>5 DEF HelloFails
  <2>6. CASE HelperReady
    BY <2>6 DEF HelperReady
  <2>7. CASE ReadyFails
    BY <2>7 DEF ReadyFails
  <2>8. CASE AbandonFinishes
    BY <2>8 DEF AbandonFinishes, StartFails
  <2>9. CASE AbandonTimesOut
    BY <2>9 DEF AbandonTimesOut
  <2>10. CASE Reap
    BY <2>10
  <2> QED
    BY <1>3, <2>1, <2>2, <2>3, <2>4, <2>5, <2>6, <2>7, <2>8, <2>9, <2>10
    DEF StartStep
<1>4. CASE SelectStep
  <2>1. CASE TakeCancel
    BY <2>1 DEF TakeCancel
  <2>2. CASE TakeNotification
    BY <2>2 DEF TakeNotification
  <2>3. CASE TakeHelperDone
    BY <2>3 DEF TakeHelperDone
  <2>4. CASE TakeRetry
    BY <2>4 DEF TakeRetry
  <2> QED BY <1>4, <2>1, <2>2, <2>3, <2>4 DEF SelectStep
<1>5. CASE RetryElapses
  BY <1>5 DEF RetryElapses
<1>6. CASE ProcessStep
  BY <1>6 DEF ProcessStep
<1>7. CASE Environment
  <2>1. ASSUME NEW c \in Sessions \cup {NoSession}, ConsoleChanges(c) PROVE StepKind
    BY <2>1 DEF ConsoleChanges
  <2>2. CASE Notify
    BY <2>2 DEF Notify
  <2>3. CASE Cancel
    BY <2>3 DEF Cancel
  <2> QED BY <1>7, <2>1, <2>2, <2>3 DEF Environment
<1>8. CASE UNCHANGED vars
  BY <1>8 DEF vars
<1> QED BY <1>1, <1>2, <1>3, <1>4, <1>5, <1>6, <1>7, <1>8 DEF Next, Run

(* One step of Run, of a helper or of the environment is one step of the   *)
(* abstract supervisor, or none.                                           *)
LEMMA RefinementStep ==
  ASSUME IInv, IInv', [Next]_vars
  PROVE  [Agent!ANext]_(Agent!avars)
<1> DEFINE serving == {<<h, sessionID[h]>> : h \in Live \ orphans}
<1>1. CASE Quiet
  <2>1. Live' = Live
    BY <1>1 DEF Quiet, Live, Tracked, Finished
  <2> QED BY <1>1, <2>1 DEF Quiet, Agent!avars
<1>2. CASE Returns
  <2>1. Live' = Live /\ orphans' = orphans
    BY <1>2 DEF Returns, Live, Tracked, Finished
  <2>2. serving' = serving
    BY <1>2, <2>1 DEF Returns
  <2>3. outcome = "running"
    BY <1>2 DEF Returns, IInv, Control
  <2>4. ASSUME outcome' = "nil" PROVE serving = {}
    <3>1. helper' = NoHelper /\ child' = NoHelper
      BY <2>4 DEF IInv, Control, Terminated, Launched
    <3>2. Live' \ orphans' = {}
      BY <3>1 DEF IInv, TypeOK, Owned, Live, Tracked, Finished
    <3> QED BY <2>1, <3>2
  <2>5. outcome' \in IF serving = {} THEN {"nil", "error"} ELSE {"error"}
    BY <1>2, <2>4 DEF Returns
  <2> QED BY <2>2, <2>3, <2>5 DEF Agent!ANext, Agent!Finish
<1>3. CASE Reap
  <2>1. Live' = Live /\ sessionID' = sessionID /\ outcome' = outcome
    BY <1>3 DEF Reap, Live, Tracked, Finished
  <2>2. orphans' = orphans \cup ({child} \cap Live) /\ helper = NoHelper
    BY <1>3 DEF Reap, IInv, Control, Starting
  <2>3. Live \ orphans \subseteq {child}
    BY <2>2 DEF IInv, TypeOK, Owned, Live, Tracked, Finished
  <2>4. Live' \ orphans' = {}
    BY <2>1, <2>2, <2>3
  <2>5. CASE Live \ orphans = {}
    BY <2>1, <2>4, <2>5 DEF Agent!avars
  <2>6. CASE Live \ orphans # {}
    <3>1. serving # {} /\ serving' = {}
      BY <2>4, <2>6
    <3> QED BY <2>1, <3>1 DEF Agent!Leave, Agent!ANext
  <2> QED BY <2>5, <2>6
<1>4. ASSUME NEW h \in Helpers, createProcessInSession(h)
      PROVE  Agent!ANext
  <2>1. seen \in Sessions /\ helper = NoHelper /\ child = NoHelper /\ outcome = "running"
    BY <1>4 DEF createProcessInSession, IInv, Control, Launched, Starting
  <2>2. Live \ orphans = {}
    BY <2>1 DEF IInv, TypeOK, Owned, Live, Tracked, Finished
  <2>3. Live' = Live \cup {h} /\ orphans' = orphans /\ h \notin orphans
    BY <1>4 DEF createProcessInSession, IInv, TypeOK, Owned, Live, Tracked, Finished
  <2>4. Live' \ orphans' = {h}
    BY <2>2, <2>3
  <2>5. sessionID'[h] = seen
    BY <1>4 DEF createProcessInSession, IInv, TypeOK
  <2>6. serving = {} /\ serving' = {<<h, seen>>}
    BY <2>2, <2>4, <2>5
  <2>7. outcome' = outcome
    BY <1>4 DEF createProcessInSession
  <2> QED BY <2>1, <2>6, <2>7 DEF Agent!ANext, Agent!Serve
<1>5. ASSUME NEW h \in Helpers, ProcessExits(h)
      PROVE  [Agent!ANext]_(Agent!avars)
  <2>1. Live' = Live \ {h} /\ orphans' = orphans \ {h} /\ h \in Live
    BY <1>5 DEF ProcessExits, IInv, TypeOK, Live, Tracked, Finished
  <2>2. sessionID' = sessionID /\ outcome' = outcome
    BY <1>5 DEF ProcessExits
  <2>3. CASE h \in orphans
    <3>1. Live' \ orphans' = Live \ orphans
      BY <2>1, <2>3
    <3> QED BY <2>2, <3>1 DEF Agent!avars
  <2>4. CASE h \notin orphans
    <3>1. Live \ orphans = {h}
      BY <2>1, <2>4 DEF IInv, TypeOK, Owned, Control, Launched, Starting, Live, Tracked, Finished
    <3>2. Live' \ orphans' = {}
      BY <2>1, <3>1
    <3>3. <<h, sessionID[h]>> \in serving
      BY <3>1
    <3>4. serving' = {}
      BY <3>2
    <3> QED BY <2>2, <3>3, <3>4 DEF Agent!Leave, Agent!ANext
  <2> QED BY <2>3, <2>4
<1>6. ASSUME NEW h \in Helpers, wait(h) PROVE UNCHANGED Agent!avars
  <2>1. Live' = Live
    BY <1>6 DEF wait, IInv, TypeOK, Live, Tracked, Finished
  <2>2. sessionID' = sessionID /\ orphans' = orphans /\ outcome' = outcome
    BY <1>6 DEF wait
  <2> QED BY <2>1, <2>2 DEF Agent!avars
<1>7. ASSUME NEW h \in Helpers, WaitFails(h)
      PROVE  [Agent!ANext]_(Agent!avars)
  <2>1. Live' = Live /\ orphans' = orphans \cup {h} /\ h \in Live
    BY <1>7 DEF WaitFails, IInv, TypeOK, Live, Tracked
  <2>2. sessionID' = sessionID /\ outcome' = outcome
    BY <1>7 DEF WaitFails
  <2>3. CASE h \in orphans
    <3>1. Live' \ orphans' = Live \ orphans
      BY <2>1, <2>3
    <3> QED BY <2>2, <3>1 DEF Agent!avars
  <2>4. CASE h \notin orphans
    <3>1. Live \ orphans = {h}
      BY <2>1, <2>4 DEF IInv, TypeOK, Owned, Control, Launched, Starting, Live
    <3>2. Live' \ orphans' = {}
      BY <2>1, <3>1
    <3>3. <<h, sessionID[h]>> \in serving
      BY <3>1
    <3>4. serving' = {}
      BY <3>2
    <3> QED BY <2>2, <3>3, <3>4 DEF Agent!Leave, Agent!ANext
  <2> QED BY <2>3, <2>4
<1> QED BY <1>1, <1>2, <1>3, <1>4, <1>5, <1>6, <1>7, StepKinds
        DEF StepKind, ProcessStep

(* The supervisor implements SingleAgent: never two supervised helpers at  *)
(* once, a helper of another session only after the former ended, a nil    *)
(* result only with nothing supervised left running.                       *)
THEOREM Refinement == Spec => AgentSpec
<1>1. Init => Agent!AInit
  BY DEF Init, Agent!AInit, Live, Tracked, Finished
<1>2. IInv /\ IInv' /\ [Next]_vars => [Agent!ANext]_(Agent!avars)
  BY RefinementStep
<1> QED BY <1>1, <1>2, InvariantHolds, PTL DEF Spec, AgentSpec, Agent!ASpec

-----------------------------------------------------------------------------
(* Run is the service SessionHelper speaks of.  What it does with a live   *)
(* process: it awaits its READY, holds it, or has released it, that is, it *)
(* has begun to stop it or has lost sight of it.  A process that outlived  *)
(* its stop stays in Run's helper; it was terminated, so it counts as      *)
(* released.                                                               *)
Hold(h) ==
  IF h = child /\ pc \in {"hello", "awaitReady"} THEN "await"
  ELSE IF h = helper /\ h \notin killed /\ pc \notin Stopping THEN "held"
  ELSE "released"

(* Keeps, Releases and Terminates of SessionHelper, for one process.       *)
Follows(h) ==
  h \in Live /\ h \in Live' =>
    /\ Hold(h) = "released" => Hold(h)' = "released"
    /\ Hold(h)' = "await" => Hold(h) = "await"
    /\ h \in killed' \ killed => Hold(h) = "released" \/ pc = "hello"

ProtocolRespected == [][\A h \in Helpers : Follows(h)]_vars

(* Nobody terminates a process that is expected to become ready.           *)
Untouched == pc \in {"hello", "awaitReady"} => child \notin killed

LEMMA ProtocolStep ==
  IInv /\ Untouched /\ [Next]_vars => Untouched' /\ \A h \in Helpers : Follows(h)
<1> SUFFICES ASSUME IInv, Untouched, [Next]_vars
             PROVE  Untouched' /\ \A h \in Helpers : Follows(h)
  OBVIOUS
<1> DEFINE Goal == Untouched' /\ \A h \in Helpers : Follows(h)
<1> USE DEF IInv, Owned, Control, Terminated, Starting, Stopping, Launched, Live, Tracked, Finished,
            Untouched, Follows, Hold, envVars, retryVars, processVars,
            clearRetry, scheduleRetry
<1>1. CASE Reconcile
  <2>1. CASE QueryFails
    BY <2>1 DEF QueryFails
  <2>2. CASE ReconcileUnusable
    BY <2>2 DEF ReconcileUnusable
  <2>3. CASE ReconcileSame
    BY <2>3 DEF ReconcileSame
  <2>4. CASE ReconcileHeldBack
    BY <2>4 DEF ReconcileHeldBack
  <2>5. CASE ReconcileSwitch
    BY <2>5 DEF ReconcileSwitch
  <2>6. CASE ReconcileStart
    BY <2>6 DEF ReconcileStart
  <2> QED BY <1>1, <2>1, <2>2, <2>3, <2>4, <2>5, <2>6 DEF Reconcile
<1>2. CASE StopStep
  <2>1. CASE StopFinishes
    BY <2>1 DEF StopFinishes, AfterStop
  <2>2. CASE StopTimesOut
    BY <2>2 DEF StopTimesOut
  <2>3. CASE KillFinishes
    BY <2>3 DEF KillFinishes, AfterStop
  <2>4. CASE KillTimesOut
    BY <2>4 DEF KillTimesOut
  <2> QED BY <1>2, <2>1, <2>2, <2>3, <2>4 DEF StopStep
<1>3. CASE StartStep
  <2>1. CASE ConsoleUnchanged
    BY <2>1 DEF ConsoleUnchanged
  <2>2. CASE StartRefused
    BY <2>2 DEF StartRefused, StartFails
  <2>3. ASSUME NEW h \in Helpers, createProcessInSession(h) PROVE Goal
    BY <2>3 DEF createProcessInSession, TypeOK
  <2>4. CASE readHelperHello
    BY <2>4 DEF readHelperHello
  <2>5. CASE HelloFails
    BY <2>5 DEF HelloFails
  <2>6. CASE HelperReady
    BY <2>6 DEF HelperReady
  <2>7. CASE ReadyFails
    BY <2>7 DEF ReadyFails
  <2>8. CASE AbandonFinishes
    BY <2>8 DEF AbandonFinishes, StartFails
  <2>9. CASE AbandonTimesOut
    BY <2>9 DEF AbandonTimesOut
  <2>10. CASE Reap
    BY <2>10 DEF Reap, StartFails
  <2> QED
    BY <1>3, <2>1, <2>2, <2>3, <2>4, <2>5, <2>6, <2>7, <2>8, <2>9, <2>10
    DEF StartStep
<1>4. CASE SelectStep
  <2>1. CASE TakeCancel
    BY <2>1 DEF TakeCancel
  <2>2. CASE TakeNotification
    BY <2>2 DEF TakeNotification
  <2>3. CASE TakeHelperDone
    BY <2>3 DEF TakeHelperDone
  <2>4. CASE TakeRetry
    BY <2>4 DEF TakeRetry
  <2> QED BY <1>4, <2>1, <2>2, <2>3, <2>4 DEF SelectStep
<1>5. CASE RetryElapses
  BY <1>5 DEF RetryElapses
<1>6. CASE ProcessStep
  <2>1. ASSUME NEW h \in Helpers, ProcessExits(h) PROVE Goal
    BY <2>1 DEF ProcessExits, TypeOK
  <2>2. ASSUME NEW h \in Helpers, wait(h) PROVE Goal
    BY <2>2 DEF wait
  <2>3. ASSUME NEW h \in Helpers, WaitFails(h) PROVE Goal
    BY <2>3 DEF WaitFails
  <2> QED BY <1>6, <2>1, <2>2, <2>3 DEF ProcessStep
<1>7. CASE Environment
  <2>1. ASSUME NEW c \in Sessions \cup {NoSession}, ConsoleChanges(c) PROVE Goal
    BY <2>1 DEF ConsoleChanges
  <2>2. CASE Notify
    BY <2>2 DEF Notify
  <2>3. CASE Cancel
    BY <2>3 DEF Cancel
  <2> QED BY <1>7, <2>1, <2>2, <2>3 DEF Environment
<1>8. CASE UNCHANGED vars
  BY <1>8 DEF vars
<1> QED BY <1>1, <1>2, <1>3, <1>4, <1>5, <1>6, <1>7, <1>8 DEF Next, Run

(* What HelperPipe assumes of the service that holds its helper: Run holds *)
(* a process only after it awaited its READY, never again once it has let  *)
(* it go, and terminates it only then, or when its HELLO does not come.    *)
THEOREM ServiceOfSessionHelper == Spec => ProtocolRespected
<1>1. Init => Untouched
  BY DEF Init, Untouched
<1>2. IInv /\ Untouched /\ [Next]_vars
        => Untouched' /\ [\A h \in Helpers : Follows(h)]_vars
  BY ProtocolStep
<1> QED BY <1>1, <1>2, InvariantHolds, PTL DEF Spec, ProtocolRespected
=============================================================================
