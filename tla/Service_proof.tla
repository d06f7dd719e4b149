---------------------------- MODULE Service_proof ----------------------------
(***************************************************************************)
(* What TLAPS proves of Service, for every set of sessions and helpers:    *)
(* the composition of Execute with Run implements Supervisor, so that all  *)
(* that is proved there holds here too, and the two properties that need   *)
(* both goroutines.                                                        *)
(***************************************************************************)
EXTENDS Service, Supervisor_proof

(* Only Execute cancels Run, and only on the way out of "running"; Run     *)
(* stops for good only when it was cancelled.                              *)
Asked ==
  /\ svc = "running" => ~cancelled
  /\ pc \in {"finalStop", "finalKill", "returned"} => cancelled

(* What NoLostSessionChange says of the select is true wherever Run is,    *)
(* except where it is about to look at the console.                        *)
Watched ==
  svc = "running" /\ pc # "reconcile" /\ seen # console
    => "SessionChange" \in requests \/ notified \/ timer # "off"

(* A zero is the conversion of a nil.                                      *)
Reported == exitCode = 0 => outcome = "nil"

SInv == IInv /\ ServiceTypeOK /\ Asked /\ Watched /\ Reported

(* Every step of the service is one of the supervisor, or leaves it alone. *)
LEMMA StepOfSupervisor == [ServiceNext]_svars => [Next]_vars
<1> SUFFICES ASSUME [ServiceNext]_svars PROVE [Next]_vars
  OBVIOUS
<1>1. ASSUME NEW c \in Sessions \cup {NoSession}, ConsoleMoves(c)
      PROVE  [Next]_vars
  BY <1>1 DEF ConsoleMoves, Next, Environment
<1>2. ASSUME NEW kind \in {"SessionChange", "Stop"}, Requested(kind)
      PROVE  [Next]_vars
  BY <1>2 DEF Requested
<1>3. CASE Handler
  BY <1>3 DEF Handler, HandleSessionChange, HandleStop, RunDone, Next,
              Environment
<1>4. CASE (Run \/ RetryElapses \/ ProcessStep) /\ UNCHANGED handlerVars
  BY <1>4 DEF Next
<1>5. CASE UNCHANGED svars
  BY <1>5 DEF svars
<1> QED BY <1>1, <1>2, <1>3, <1>4, <1>5 DEF ServiceNext

(* The supervisor inside the service behaves as Supervisor says, and hence *)
(* has every property proved of it.                                        *)
THEOREM ServiceSupervises == ServiceSpec => Spec
<1>1. ServiceInit => Init
  BY DEF ServiceInit
<1>2. [ServiceNext]_svars => [Next]_vars
  BY StepOfSupervisor
<1> QED BY <1>1, <1>2, PTL DEF ServiceSpec, Spec

-----------------------------------------------------------------------------
(* Every step of the service keeps the types of what Execute adds.         *)
LEMMA ServiceTypeStep == ServiceTypeOK /\ [ServiceNext]_svars => ServiceTypeOK'
<1> SUFFICES ASSUME ServiceTypeOK, [ServiceNext]_svars PROVE ServiceTypeOK'
  OBVIOUS
<1> USE DEF ServiceTypeOK
<1>1. ASSUME NEW c \in Sessions \cup {NoSession}, ConsoleMoves(c)
      PROVE  ServiceTypeOK'
  BY <1>1 DEF ConsoleMoves
<1>2. ASSUME NEW kind \in {"SessionChange", "Stop"}, Requested(kind)
      PROVE  ServiceTypeOK'
  BY <1>2 DEF Requested
<1>3. CASE HandleSessionChange
  BY <1>3 DEF HandleSessionChange
<1>4. CASE HandleStop
  BY <1>4 DEF HandleStop
<1>5. CASE RunDone
  BY <1>5 DEF RunDone
<1>6. CASE (Run \/ RetryElapses \/ ProcessStep) /\ UNCHANGED handlerVars
  BY <1>6 DEF handlerVars
<1>7. CASE UNCHANGED svars
  BY <1>7 DEF svars
<1> QED BY <1>1, <1>2, <1>3, <1>4, <1>5, <1>6, <1>7 DEF ServiceNext, Handler

-----------------------------------------------------------------------------
(* A step of Run, the timer or a helper, while Execute does nothing.       *)
LEMMA RunStep ==
  SInv /\ (Run \/ RetryElapses \/ ProcessStep) /\ UNCHANGED handlerVars
    => (Asked /\ Watched /\ Reported)'
<1> SUFFICES ASSUME SInv, Run \/ RetryElapses \/ ProcessStep,
                    UNCHANGED handlerVars
             PROVE  (Asked /\ Watched /\ Reported)'
  OBVIOUS
<1> USE DEF SInv, IInv, TypeOK, Control, Starting, Stopping, Asked, Watched,
            Reported, handlerVars, envVars, retryVars, processVars, clearRetry,
            scheduleRetry
<1>1. CASE Reconcile
  <2>1. CASE QueryFails
    BY <2>1 DEF QueryFails
  <2>2. CASE ReconcileUnusable
    BY <2>2 DEF ReconcileUnusable
  <2>3. CASE ReconcileSame
    BY <2>3 DEF ReconcileSame
  <2>4. CASE ReconcileHeldBack
    BY <2>4 DEF ReconcileHeldBack
  <2>5. CASE ReconcileSwitch
    BY <2>5 DEF ReconcileSwitch
  <2>6. CASE ReconcileStart
    BY <2>6 DEF ReconcileStart
  <2> QED BY <1>1, <2>1, <2>2, <2>3, <2>4, <2>5, <2>6 DEF Reconcile
<1>2. CASE StopStep
  <2>1. CASE StopFinishes
    BY <2>1 DEF StopFinishes, AfterStop
  <2>2. CASE StopTimesOut
    BY <2>2 DEF StopTimesOut
  <2>3. CASE KillFinishes
    BY <2>3 DEF KillFinishes, AfterStop
  <2>4. CASE KillTimesOut
    BY <2>4 DEF KillTimesOut
  <2> QED BY <1>2, <2>1, <2>2, <2>3, <2>4 DEF StopStep
<1>3. CASE StartStep
  <2>1. CASE ConsoleUnchanged
    BY <2>1 DEF ConsoleUnchanged
  <2>2. CASE StartRefused
    BY <2>2 DEF StartRefused, StartFails
  <2>3. ASSUME NEW h \in Helpers, createProcessInSession(h)
        PROVE  (Asked /\ Watched /\ Reported)'
    BY <2>3 DEF createProcessInSession
  <2>4. CASE readHelperHello
    BY <2>4 DEF readHelperHello
  <2>5. CASE HelloFails
    BY <2>5 DEF HelloFails
  <2>6. CASE HelperReady
    BY <2>6 DEF HelperReady
  <2>7. CASE ReadyFails
    BY <2>7 DEF ReadyFails
  <2>8. CASE AbandonFinishes
    BY <2>8 DEF AbandonFinishes, StartFails
  <2>9. CASE AbandonTimesOut
    BY <2>9 DEF AbandonTimesOut
  <2>10. CASE Reap
    BY <2>10 DEF Reap, StartFails
  <2> QED
    BY <1>3, <2>1, <2>2, <2>3, <2>4, <2>5, <2>6, <2>7, <2>8, <2>9, <2>10
    DEF StartStep
<1>4. CASE SelectStep
  <2>1. CASE TakeCancel
    BY <2>1 DEF TakeCancel
  <2>2. CASE TakeNotification
    BY <2>2 DEF TakeNotification
  <2>3. CASE TakeHelperDone
    BY <2>3 DEF TakeHelperDone
  <2>4. CASE TakeRetry
    BY <2>4 DEF TakeRetry
  <2> QED BY <1>4, <2>1, <2>2, <2>3, <2>4 DEF SelectStep
<1>5. CASE RetryElapses
  BY <1>5 DEF RetryElapses
<1>6. CASE ProcessStep
  BY <1>6 DEF ProcessStep, ProcessExits, wait, WaitFails
<1> QED BY <1>1, <1>2, <1>3, <1>4, <1>5, <1>6 DEF Run

(* Every step of the service keeps what relates Execute to Run.            *)
LEMMA ServiceStep == SInv /\ [ServiceNext]_svars => SInv'
<1> SUFFICES ASSUME SInv, [ServiceNext]_svars
             PROVE  (Asked /\ Watched /\ Reported)'
  BY InvariantStep, StepOfSupervisor, ServiceTypeStep DEF SInv
<1> USE DEF SInv, IInv, Control, Asked, Watched, Reported
<1>1. ASSUME NEW c \in Sessions \cup {NoSession}, ConsoleMoves(c)
      PROVE  (Asked /\ Watched /\ Reported)'
  BY <1>1 DEF ConsoleMoves, ConsoleChanges, retryVars, processVars
<1>2. ASSUME NEW kind \in {"SessionChange", "Stop"}, Requested(kind)
      PROVE  (Asked /\ Watched /\ Reported)'
  BY <1>2 DEF Requested, vars
<1>3. CASE HandleSessionChange
  BY <1>3 DEF HandleSessionChange, Notify, vars, retryVars, processVars
<1>4. CASE HandleStop
  BY <1>4 DEF HandleStop, Cancel, retryVars, processVars
<1>5. CASE RunDone
  BY <1>5 DEF RunDone, vars
<1>6. CASE (Run \/ RetryElapses \/ ProcessStep) /\ UNCHANGED handlerVars
  BY <1>6, RunStep
<1>7. CASE UNCHANGED svars
  BY <1>7 DEF svars, vars
<1> QED BY <1>1, <1>2, <1>3, <1>4, <1>5, <1>6, <1>7 DEF ServiceNext, Handler

(* Hence it holds in every state of the service.                           *)
THEOREM ServiceInvariant == ServiceSpec => []SInv
<1>1. ServiceInit => SInv
  <2> SUFFICES ASSUME ServiceInit PROVE SInv
    OBVIOUS
  <2>1. IInv
    BY DEF ServiceInit, Init, IInv, TypeOK, PCs, Owned, Control, Terminated,
           Launched, Live, Tracked, Finished, Stopping, Starting
  <2>2. ServiceTypeOK
    BY DEF ServiceInit, ServiceTypeOK
  <2>3. Asked /\ Watched /\ Reported
    BY DEF ServiceInit, Init, Asked, Watched, Reported
  <2> QED BY <2>1, <2>2, <2>3 DEF SInv
<1>2. SInv /\ [ServiceNext]_svars => SInv'
  BY ServiceStep
<1> QED BY <1>1, <1>2, PTL DEF ServiceSpec

(* What Execute adds to the supervisor stays within its types.             *)
THEOREM ServiceTypes == ServiceSpec => []ServiceTypeOK
<1>1. SInv => ServiceTypeOK
  BY DEF SInv
<1> QED BY <1>1, ServiceInvariant, PTL

(* No change of the console is lost between Windows, Execute, the channel  *)
(* and Run.                                                                *)
THEOREM ChangesArrive == ServiceSpec => []NoLostSessionChange
<1>1. SInv => NoLostSessionChange
  BY DEF SInv, Watched, NoLostSessionChange
<1> QED BY <1>1, ServiceInvariant, PTL

(* The exit code 0 is the truth: it was asked for, and nothing that Run    *)
(* supervises is left.                                                     *)
THEOREM ZeroMeansDone == ServiceSpec => []ExitCodeTruthful
<1>1. SInv => ExitCodeTruthful
  <2> SUFFICES ASSUME SInv, exitCode = 0
               PROVE  cancelled /\ helper = NoHelper /\ Live \subseteq orphans
    BY DEF ExitCodeTruthful
  <2>1. pc = "returned" /\ outcome = "nil"
    BY DEF SInv, IInv, Control, Reported
  <2>2. cancelled
    BY <2>1 DEF SInv, Asked
  <2>3. helper = NoHelper /\ child = NoHelper
    BY <2>1 DEF SInv, IInv, Control, Terminated, Launched
  <2>4. Live \subseteq orphans
    BY <2>3, HelpersAssumption DEF SInv, IInv, Owned, Live, Tracked, Finished
  <2> QED BY <2>2, <2>3, <2>4
<1> QED BY <1>1, ServiceInvariant, PTL

(* So the service too keeps the promises of the supervisor: it implements  *)
(* SingleAgent, and no session change, however many come, lets a start     *)
(* slip past the backoff.                                                  *)
THEOREM ServiceKeepsPromises == ServiceSpec => AgentSpec /\ BackoffRespected
<1> QED BY ServiceSupervises, Refinement, NoBackoffBypass, PTL
=============================================================================
