----------------------------- MODULE HelperPipe -----------------------------
(***************************************************************************)
(* One session helper and the lifecycle pipe that ties it to the service,  *)
(* from the moment the service has read its HELLO: serveSessionHelper      *)
(* (internal/entry/helper.go) with its goroutines, the Conn of both ends   *)
(* (internal/sessionipc/protocol.go), the RemoteLogSender                  *)
(* (internal/logger/remote.go), and the service's windowsHelperProcess     *)
(* (internal/entry/session_windows.go).  A LOG frame is two writes, its    *)
(* header and its metadata; READY and STOP have no metadata and are one.   *)
(***************************************************************************)
EXTENDS Naturals, Sequences

CONSTANTS Capacity,    \* writes the pipe buffers (lifecyclePipeBufferSize bytes)
          QueueSize,   \* remoteLogQueueSize
          Faults       \* what may go wrong, see KnownFaults

(* "deadline": remoteLogSendTimeout passes during a write; "runtime": the  *)
(* automatic runtime fails; "service": the service process dies; "wait":   *)
(* the service cannot wait for the process any more.                       *)
KnownFaults == {"deadline", "runtime", "service", "wait"}

ASSUME CapacityAssumption == Capacity \in Nat \ {0}
ASSUME QueueSizeAssumption == QueueSize \in Nat
ASSUME PipeFaultsAssumption == Faults \subseteq KnownFaults

VARIABLES
  \* the helper process
  hpc,        \* serveSessionHelper: see HPCs
  exit,       \* "running", its exit code "0" or "1", or "killed"
  verdict,    \* the error serveSessionHelper is going to return: "nil", "error"
  runtime,    \* the goroutine of run: see RuntimeStates
  runtimeErr, \* what run returned: "nil" or "error"
  cancelled,  \* ctx of serveSessionHelper is done
  serve,      \* its Serve: "off", "reading", "done"
  stopFrame,  \* a handler goroutine has a STOP frame in hand
  command,    \* the commands channel holds nil
  sender,     \* the log sender: "idle", "header", "metadata", "stopped"
  enabled,    \* it has the connection
  queue,      \* records in its queue
  writeMu,    \* who holds the helper's write lock: "none", "ready", "log"
  \* the pipe
  up,         \* writes of the helper the service has not read
  down,       \* a STOP the helper has not read
  helperEnd, serviceEnd,   \* each end is open
  \* the service
  owner,      \* who waits for the helper: see OwnerStates
  reader,     \* its Serve: "header", "metadata" (the rest of a LOG), "done"
  readyFrame, \* a handler goroutine has the READY frame in hand
  ready,      \* the ready channel is closed
  \* history only
  asked,      \* the service has written STOP
  cut         \* a LOG frame was left without its metadata

mainVars == <<hpc, exit, verdict, cancelled>>
runtimeVars == <<runtime, runtimeErr>>
serveVars == <<serve, stopFrame, command>>
logVars == <<sender, enabled, queue>>
ends == <<helperEnd, serviceEnd>>
serviceVars == <<owner, reader, readyFrame, ready>>
history == <<asked, cut>>
vars == <<mainVars, runtimeVars, serveVars, logVars, writeMu, up, down, ends,
          serviceVars, history>>

HPCs == {"setup", "select", "awaitRuntime", "awaitServe", "return", "exited"}
RuntimeStates == {"off", "starting", "sendReady", "writeReady", "running", "returned"}
OwnerStates == {"await", "held", "stop", "stopWait", "killWait", "gone", "dead"}
Writes == {"READY", "LogHeader", "LogMetadata"}

Kinds ==
  /\ hpc \in HPCs
  /\ exit \in {"running", "0", "1", "killed"}
  /\ verdict \in {"nil", "error"} /\ runtimeErr \in {"nil", "error"}
  /\ runtime \in RuntimeStates
  /\ serve \in {"off", "reading", "done"}
  /\ sender \in {"idle", "header", "metadata", "stopped"}
  /\ queue \in 0 .. QueueSize
  /\ writeMu \in {"none", "ready", "log"}
  /\ up \in Seq(Writes) /\ Len(up) <= Capacity
  /\ owner \in OwnerStates
  /\ reader \in {"header", "metadata", "done"}

Flags ==
  /\ cancelled \in BOOLEAN /\ stopFrame \in BOOLEAN /\ command \in BOOLEAN
  /\ enabled \in BOOLEAN /\ down \in BOOLEAN
  /\ helperEnd \in BOOLEAN /\ serviceEnd \in BOOLEAN
  /\ readyFrame \in BOOLEAN /\ ready \in BOOLEAN
  /\ asked \in BOOLEAN /\ cut \in BOOLEAN

TypeOK == Kinds /\ Flags

Init ==
  /\ hpc = "setup"
  /\ exit = "running"
  /\ verdict = "nil"
  /\ runtime = "off"
  /\ runtimeErr = "nil"
  /\ cancelled = FALSE
  /\ serve = "off"
  /\ stopFrame = FALSE
  /\ command = FALSE
  /\ sender = "idle"
  /\ enabled = FALSE
  /\ queue = 0
  /\ writeMu = "none"
  /\ up = <<>>
  /\ down = FALSE
  /\ helperEnd = TRUE
  /\ serviceEnd = TRUE
  /\ owner = "await"
  /\ reader = "header"
  /\ readyFrame = FALSE
  /\ ready = FALSE
  /\ asked = FALSE
  /\ cut = FALSE

Alive == exit = "running"
Connected == helperEnd /\ serviceEnd

(* A write of the helper goes into the pipe.                               *)
write(w) ==
  /\ Connected
  /\ Len(up) < Capacity
  /\ up' = Append(up, w)

-----------------------------------------------------------------------------
(* serveSessionHelper, then the deferred calls of runSessionHelper.        *)

(* HELLO is written: connect the log sender, start Serve and run.          *)
Starts ==
  /\ Alive /\ hpc = "setup"
  /\ hpc' = "select"
  /\ enabled' = TRUE
  /\ serve' = "reading"
  /\ runtime' = "starting"
  /\ UNCHANGED <<exit, verdict, cancelled, runtimeErr, stopFrame, command,
                 sender, queue, writeMu, up, down, ends, serviceVars,
                 history>>

TakeRuntimeDone ==
  /\ Alive /\ hpc = "select"
  /\ runtime = "returned"
  /\ verdict' = runtimeErr
  /\ helperEnd' = FALSE
  /\ hpc' = "awaitServe"
  /\ UNCHANGED <<exit, cancelled, runtimeVars, serveVars, logVars, writeMu,
                 up, down, serviceEnd, serviceVars, history>>

(* Mutant: STOP ends the helper without waiting for the runtime.           *)
TakeCommand_NoWait ==
  /\ Alive /\ hpc = "select"
  /\ command
  /\ command' = FALSE
  /\ cancelled' = TRUE
  /\ helperEnd' = FALSE
  /\ hpc' = "awaitServe"
  /\ UNCHANGED <<exit, verdict, runtimeVars, serve, stopFrame, logVars,
                 writeMu, up, down, serviceEnd, serviceVars, history>>

TakeCommand ==
  /\ Alive /\ hpc = "select"
  /\ command
  /\ command' = FALSE
  /\ cancelled' = TRUE
  /\ hpc' = "awaitRuntime"
  /\ UNCHANGED <<exit, verdict, runtimeVars, serve, stopFrame, logVars,
                 writeMu, up, down, ends, serviceVars, history>>

(* Mutant: a broken pipe is treated like STOP.                             *)
TakeServeDone_AsStop ==
  /\ Alive /\ hpc = "select"
  /\ serve = "done"
  /\ cancelled' = TRUE
  /\ hpc' = "awaitRuntime"
  /\ UNCHANGED <<exit, verdict, runtimeVars, serveVars, logVars, writeMu,
                 up, down, ends, serviceVars, history>>

(* Mutant: the select does not look at the pipe.                           *)
TakeServeDone_Ignored == FALSE /\ UNCHANGED vars

(* The pipe broke: that is an error, whatever the runtime answers.         *)
TakeServeDone ==
  /\ Alive /\ hpc = "select"
  /\ serve = "done"
  /\ verdict' = "error"
  /\ cancelled' = TRUE
  /\ hpc' = "awaitRuntime"
  /\ UNCHANGED <<exit, runtimeVars, serveVars, logVars, writeMu, up, down,
                 ends, serviceVars, history>>

RuntimeAwaited ==
  /\ Alive /\ hpc = "awaitRuntime"
  /\ runtime = "returned"
  /\ verdict' = IF verdict = "error" THEN "error" ELSE runtimeErr
  /\ helperEnd' = FALSE
  /\ hpc' = "awaitServe"
  /\ UNCHANGED <<exit, cancelled, runtimeVars, serveVars, logVars, writeMu,
                 up, down, serviceEnd, serviceVars, history>>

(* Serve has returned: the deferred cancel and ClearConnection; then the   *)
(* sender is told to stop.                                                 *)
ServeAwaited ==
  /\ Alive /\ hpc = "awaitServe"
  /\ serve = "done"
  /\ cancelled' = TRUE
  /\ enabled' = FALSE
  /\ hpc' = "return"
  /\ UNCHANGED <<exit, verdict, runtimeVars, serveVars, sender, queue,
                 writeMu, up, down, ends, serviceVars, history>>

(* RemoteLogSender.Close returned, and Main returns the exit code.         *)
Exits ==
  /\ Alive /\ hpc = "return"
  /\ sender = "stopped"
  /\ hpc' = "exited"
  /\ exit' = IF verdict = "nil" THEN "0" ELSE "1"
  /\ UNCHANGED <<verdict, cancelled, runtimeVars, serveVars, logVars,
                 writeMu, up, down, ends, serviceVars, history>>

HelperMain ==
  \/ Starts
  \/ TakeRuntimeDone
  \/ TakeCommand
  \/ TakeServeDone
  \/ RuntimeAwaited
  \/ ServeAwaited
  \/ Exits

-----------------------------------------------------------------------------
(* The goroutine of run.  What Runtime.Run does is the subject of Runtime; *)
(* here it calls Ready once, ends when it is cancelled, and may fail.      *)

Return(err) ==
  /\ runtime' = "returned"
  /\ runtimeErr' = err

RuntimeStarted ==
  /\ Alive /\ runtime = "starting"
  /\ runtime' = "sendReady"
  /\ UNCHANGED <<mainVars, runtimeErr, serveVars, logVars, writeMu, up,
                 down, ends, serviceVars, history>>

RuntimeCancelled ==
  /\ Alive /\ cancelled
  /\ \/ runtime = "starting" /\ Return("error")
     \/ runtime = "running" /\ \E err \in {"nil", "error"} : Return(err)
  /\ UNCHANGED <<mainVars, serveVars, logVars, writeMu, up, down, ends,
                 serviceVars, history>>

RuntimeFails ==
  /\ "runtime" \in Faults
  /\ Alive /\ runtime \in {"starting", "running"}
  /\ Return("error")
  /\ UNCHANGED <<mainVars, serveVars, logVars, writeMu, up, down, ends,
                 serviceVars, history>>

(* Ready is Conn.Send: take the write lock, write the frame, release it.   *)
SendReadyLocks ==
  /\ Alive /\ runtime = "sendReady"
  /\ writeMu = "none"
  /\ writeMu' = "ready"
  /\ runtime' = "writeReady"
  /\ UNCHANGED <<mainVars, runtimeErr, serveVars, logVars, up, down, ends,
                 serviceVars, history>>

ReadyWritten ==
  /\ Alive /\ runtime = "writeReady"
  /\ write("READY")
  /\ writeMu' = "none"
  /\ runtime' = "running"
  /\ UNCHANGED <<mainVars, runtimeErr, serveVars, logVars, down, ends,
                 serviceVars, history>>

ReadyNotWritten ==
  /\ Alive /\ runtime = "writeReady"
  /\ ~Connected
  /\ writeMu' = "none"
  /\ Return("error")
  /\ UNCHANGED <<mainVars, serveVars, logVars, up, down, ends, serviceVars,
                 history>>

RuntimeGoroutine ==
  \/ RuntimeStarted
  \/ RuntimeCancelled
  \/ SendReadyLocks
  \/ ReadyWritten
  \/ ReadyNotWritten

-----------------------------------------------------------------------------
(* RemoteLogSender.                                                        *)

(* Mutant: the queue grows past its limit.                                 *)
Enqueue_Unbounded ==
  /\ Alive
  /\ queue <= QueueSize
  /\ queue' = queue + 1
  /\ UNCHANGED <<mainVars, runtimeVars, serveVars, sender, enabled,
                 writeMu, up, down, ends, serviceVars, history>>

(* A record is logged; one that finds the queue full is dropped.           *)
Enqueue ==
  /\ Alive
  /\ queue < QueueSize
  /\ queue' = queue + 1
  /\ UNCHANGED <<mainVars, runtimeVars, serveVars, sender, enabled,
                 writeMu, up, down, ends, serviceVars, history>>

(* Mutant: Send without the lock.                                          *)
TakeRecord_Unlocked ==
  /\ Alive /\ sender = "idle"
  /\ enabled /\ queue > 0
  /\ queue' = queue - 1
  /\ sender' = "header"
  /\ UNCHANGED <<mainVars, runtimeVars, serveVars, enabled, writeMu, up,
                 down, ends, serviceVars, history>>

(* TrySendContext: the record is dropped when READY holds the lock.        *)
TakeRecord ==
  /\ Alive /\ sender = "idle"
  /\ enabled /\ queue > 0
  /\ queue' = queue - 1
  /\ \/ writeMu = "none" /\ writeMu' = "log" /\ sender' = "header"
     \/ writeMu # "none" /\ UNCHANGED <<writeMu, sender>>
  /\ UNCHANGED <<mainVars, runtimeVars, serveVars, enabled, up, down, ends,
                 serviceVars, history>>

HeaderWritten ==
  /\ Alive /\ sender = "header"
  /\ write("LogHeader")
  /\ sender' = "metadata"
  /\ UNCHANGED <<mainVars, runtimeVars, serveVars, enabled, queue, writeMu,
                 down, ends, serviceVars, history>>

MetadataWritten ==
  /\ Alive /\ sender = "metadata"
  /\ write("LogMetadata")
  /\ sender' = "idle"
  /\ writeMu' = "none"
  /\ UNCHANGED <<mainVars, runtimeVars, serveVars, enabled, queue, down,
                 ends, serviceVars, history>>

(* The pipe is broken, or the deadline passed, also between the writes:    *)
(* the sender gives the connection up, READY does not.                     *)
LogWriteFails ==
  /\ Alive /\ sender \in {"header", "metadata"}
  /\ ~Connected \/ "deadline" \in Faults
  /\ sender' = "idle"
  /\ enabled' = FALSE
  /\ cut' = (cut \/ sender = "metadata")
  /\ writeMu' = "none"
  /\ UNCHANGED <<mainVars, runtimeVars, serveVars, queue, up, down, ends,
                 serviceVars, asked>>

SenderStops ==
  /\ Alive /\ hpc = "return"
  /\ sender = "idle"
  /\ sender' = "stopped"
  /\ UNCHANGED <<mainVars, runtimeVars, serveVars, enabled, queue, writeMu,
                 up, down, ends, serviceVars, history>>

LogSender ==
  \/ TakeRecord
  \/ HeaderWritten
  \/ MetadataWritten
  \/ LogWriteFails
  \/ SenderStops

-----------------------------------------------------------------------------
(* The helper's Serve, and the goroutine it starts for a frame.            *)

HelperReads ==
  /\ Alive /\ serve = "reading"
  /\ helperEnd /\ down
  /\ down' = FALSE
  /\ stopFrame' = TRUE
  /\ UNCHANGED <<mainVars, runtimeVars, serve, command, logVars, writeMu,
                 up, ends, serviceVars, history>>

HelperServeFails ==
  /\ Alive /\ serve = "reading"
  /\ ~helperEnd \/ (~serviceEnd /\ ~down)
  /\ serve' = "done"
  /\ helperEnd' = FALSE
  /\ UNCHANGED <<mainVars, runtimeVars, stopFrame, command, logVars,
                 writeMu, up, down, serviceEnd, serviceVars, history>>

StopHandled ==
  /\ Alive /\ stopFrame
  /\ stopFrame' = FALSE
  /\ command' = TRUE
  /\ UNCHANGED <<mainVars, runtimeVars, serve, logVars, writeMu, up, down,
                 ends, serviceVars, history>>

HelperServe == HelperReads \/ HelperServeFails \/ StopHandled

-----------------------------------------------------------------------------
(* The service's Serve: ReadFrame over the writes, a goroutine per frame.  *)

ServiceReads ==
  /\ reader # "done" /\ serviceEnd /\ up # <<>>
  /\ up' = Tail(up)
  /\ \/ /\ reader = "header" /\ Head(up) = "READY"
        /\ readyFrame' = TRUE
        /\ UNCHANGED <<reader, serviceEnd>>
     \/ /\ reader = "header" /\ Head(up) = "LogHeader"
        /\ reader' = "metadata"
        /\ UNCHANGED <<readyFrame, serviceEnd>>
     \/ /\ reader = "metadata" /\ Head(up) = "LogMetadata"
        /\ reader' = "header"
        /\ UNCHANGED <<readyFrame, serviceEnd>>
     \/ (* the bytes of another frame where metadata is expected *)
        /\ reader = "metadata" /\ Head(up) # "LogMetadata"
        /\ reader' \in {"metadata", "header", "done"}
        /\ serviceEnd' = (reader' # "done")
        /\ UNCHANGED readyFrame
     \/ (* metadata where a header is expected: an invalid size *)
        /\ reader = "header" /\ Head(up) = "LogMetadata"
        /\ reader' = "done"
        /\ serviceEnd' = FALSE
        /\ UNCHANGED readyFrame
  /\ UNCHANGED <<mainVars, runtimeVars, serveVars, logVars, writeMu, down,
                 helperEnd, owner, ready, history>>

ServiceServeFails ==
  /\ reader # "done"
  /\ ~serviceEnd \/ (~helperEnd /\ up = <<>>)
  /\ reader' = "done"
  /\ serviceEnd' = FALSE
  /\ UNCHANGED <<mainVars, runtimeVars, serveVars, logVars, writeMu, up,
                 down, helperEnd, owner, readyFrame, ready, history>>

ReadyHandled ==
  /\ readyFrame
  /\ readyFrame' = FALSE
  /\ ready' = TRUE
  /\ UNCHANGED <<mainVars, runtimeVars, serveVars, logVars, writeMu, up,
                 down, ends, owner, reader, history>>

ServiceServe == ServiceReads \/ ServiceServeFails \/ ReadyHandled

-----------------------------------------------------------------------------
(* startSessionHelper, then the supervisor.                                *)

(* awaitHelperReady: READY, the end of the pipe, or startupCtx is done.    *)
AwaitReady ==
  /\ owner = "await"
  /\ \/ ready /\ owner' = "held" /\ UNCHANGED serviceEnd
     \/ reader = "done" /\ owner' = "stop" /\ UNCHANGED serviceEnd
     \/ owner' = "stop" /\ serviceEnd' = FALSE
  /\ UNCHANGED <<mainVars, runtimeVars, serveVars, logVars, writeMu, up,
                 down, helperEnd, reader, readyFrame, ready, history>>

(* The supervisor calls Stop: the console moved, or the service stops.     *)
StopCalled ==
  /\ owner = "held"
  /\ owner' = "stop"
  /\ UNCHANGED <<mainVars, runtimeVars, serveVars, logVars, writeMu, up,
                 down, ends, reader, readyFrame, ready, history>>

SendStop ==
  /\ owner = "stop"
  /\ owner' = "stopWait"
  /\ down' = (down \/ Connected)
  /\ asked' = (asked \/ Connected)
  /\ UNCHANGED <<mainVars, runtimeVars, serveVars, logVars, writeMu, up,
                 ends, reader, readyFrame, ready, cut>>

(* ctx of Stop is done: close the connection and terminate the process.    *)
StopTimesOut ==
  /\ owner = "stopWait"
  /\ owner' = "killWait"
  /\ serviceEnd' = FALSE
  /\ UNCHANGED <<mainVars, runtimeVars, serveVars, logVars, writeMu, up,
                 down, helperEnd, reader, readyFrame, ready, history>>

(* TerminateProcess takes effect, and Windows closes its end of the pipe.  *)
Terminated ==
  /\ owner = "killWait" /\ Alive
  /\ exit' = "killed"
  /\ helperEnd' = FALSE
  /\ UNCHANGED <<hpc, verdict, cancelled, runtimeVars, serveVars, logVars,
                 writeMu, up, down, serviceEnd, serviceVars, history>>

(* wait saw the process end, or cannot wait for it: it closes the          *)
(* connection and the process handle, then done.  After TerminateProcess   *)
(* the latter makes no difference.                                         *)
wait ==
  /\ owner \notin {"gone", "dead"}
  /\ ~Alive \/ ("wait" \in Faults /\ owner # "killWait")
  /\ owner' = "gone"
  /\ serviceEnd' = FALSE
  /\ UNCHANGED <<mainVars, runtimeVars, serveVars, logVars, writeMu, up,
                 down, helperEnd, reader, readyFrame, ready, history>>

(* The service process dies; Windows closes its end of the pipe.           *)
ServiceDies ==
  /\ "service" \in Faults
  /\ owner \notin {"gone", "dead"}
  /\ owner' = "dead"
  /\ serviceEnd' = FALSE
  /\ reader' = "done"
  /\ UNCHANGED <<mainVars, runtimeVars, serveVars, logVars, writeMu, up,
                 down, helperEnd, readyFrame, ready, history>>

Owner == AwaitReady \/ SendStop \/ StopTimesOut \/ wait

Next ==
  \/ HelperMain
  \/ RuntimeGoroutine
  \/ RuntimeFails
  \/ Enqueue
  \/ LogSender
  \/ HelperServe
  \/ ServiceServe
  \/ Owner
  \/ StopCalled
  \/ Terminated
  \/ ServiceDies

Spec == Init /\ [][Next]_vars

(* The goroutines of the helper are scheduled, and its runtime ends when   *)
(* it is cancelled.  Nothing is assumed of the service: it may stop        *)
(* reading at any time and leave the pipe full.                            *)
FairSpec ==
  /\ Spec
  /\ WF_vars(HelperMain)
  /\ WF_vars(RuntimeGoroutine)
  /\ WF_vars(LogSender)
  /\ WF_vars(HelperServe)

-----------------------------------------------------------------------------
(* "helper returned before automatic runtime shutdown completed" must not  *)
(* happen: a helper that exits by itself has waited for its runtime, which *)
(* has released the keyboard and the hook.                                 *)
ExitAfterRuntime == exit \in {"0", "1"} => runtime = "returned"

(* A helper exits with code 0 only when the service told it to stop, never *)
(* because the pipe broke or the runtime ended.                            *)
CleanExitWasAsked == exit = "0" => asked

(* The helper as SessionHelper promises it.                                *)
Work ==
  CASE runtime = "running"  -> "serving"
    [] runtime = "returned" -> "ended"
    [] OTHER                -> "starting"

Hold ==
  IF asked THEN "asked"
  ELSE IF owner \in {"await", "held"} THEN owner ELSE "released"

Promise == INSTANCE SessionHelper
             WITH work <- Work, announced <- ready, hold <- Hold

(* Whatever races in the helper's select, its frames and its pipe: it is   *)
(* kept only after its runtime has served, it exits by itself only after   *)
(* the runtime has ended, with 0 only when asked, and once it has exited   *)
(* or was terminated its runtime does nothing more.                        *)
HelperSpec == Promise!HSpec

(* READY is not lost among the log frames ("READY was not received"): once *)
(* the helper has sent it, it is in the pipe, or with its handler, or      *)
(* known to the service, for as long as the service reads.                 *)
ReadyNotLost ==
  runtime = "running" /\ reader # "done"
    => ready \/ readyFrame \/ \E i \in DOMAIN up : up[i] = "READY"

(* Only a log frame that was cut can swallow READY.                        *)
ReadyLostOnlyByCut == ~cut => ReadyNotLost

(* A helper never outlives its service: when it is told to stop, or the    *)
(* pipe is closed because the service gave up or died, it exits, whatever  *)
(* its runtime, its log sender and its READY are waiting for.              *)
HelperEnds == down \/ ~serviceEnd ~> ~Alive
=============================================================================
