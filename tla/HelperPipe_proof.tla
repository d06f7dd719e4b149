-------------------------- MODULE HelperPipe_proof --------------------------
(***************************************************************************)
(* What TLAPS proves of HelperPipe, for every capacity of the pipe, every  *)
(* size of the log queue and every set of faults.                          *)
(***************************************************************************)
EXTENDS HelperPipe, TLAPS

(* Where serveSessionHelper can be once it no longer waits for run.        *)
Finishing == {"awaitServe", "return", "exited"}

(* run is started by serveSessionHelper, and has returned before            *)
(* serveSessionHelper goes on.                                             *)
Waited ==
  /\ exit \in {"0", "1"} => hpc = "exited"
  /\ hpc = "setup" => runtime = "off"
  /\ hpc \in Finishing => runtime = "returned"

(* Where a STOP is, where a cancellation can have come from, and what a    *)
(* verdict without error means.                                            *)
Verdict ==
  /\ down \/ stopFrame \/ command => asked
  /\ cancelled => hpc \notin {"setup", "select"}
  /\ runtime = "returned" /\ runtimeErr = "nil" => cancelled
  /\ hpc \in Finishing \cup {"awaitRuntime"} /\ verdict = "nil" => asked
  /\ exit = "0" => verdict = "nil"

(* Who holds the write lock is in the middle of a frame.                   *)
Locked ==
  /\ writeMu = "log" <=> sender \in {"header", "metadata"}
  /\ writeMu = "ready" <=> runtime = "writeReady"

(* Without a cut frame the writes in the pipe, with the reader's place     *)
(* before them and the log sender's after them, are whole frames.          *)
HeadersFollowed ==
  \A i \in 1 .. Len(up) : up[i] = "LogHeader" =>
    \/ i < Len(up) /\ up[i + 1] = "LogMetadata"
    \/ i = Len(up) /\ sender = "metadata"

MetadataPreceded ==
  \A i \in 1 .. Len(up) : up[i] = "LogMetadata" =>
    \/ i = 1 /\ reader = "metadata"
    \/ i > 1 /\ up[i - 1] = "LogHeader"

ReaderInFrame ==
  reader = "metadata" =>
    \/ up = <<>> /\ sender = "metadata"
    \/ up # <<>> /\ up[1] = "LogMetadata"

SenderInFrame ==
  sender = "metadata" =>
    \/ up = <<>> /\ reader = "metadata"
    \/ up # <<>> /\ up[Len(up)] = "LogHeader"

Framed ==
  ~cut /\ reader # "done" =>
    HeadersFollowed /\ MetadataPreceded /\ ReaderInFrame /\ SenderInFrame

IInv == TypeOK /\ Waited /\ Verdict /\ Locked /\ Framed

USE CapacityAssumption, QueueSizeAssumption, PipeFaultsAssumption
USE DEF vars, mainVars, runtimeVars, serveVars, logVars, ends, serviceVars,
        history, Alive, Connected

(* Every step keeps the states, the counters and the pipe in range.        *)
LEMMA KindsStep == Kinds /\ [Next]_vars => Kinds'
<1> SUFFICES ASSUME Kinds, [Next]_vars PROVE Kinds'
  OBVIOUS
<1> USE DEF Kinds, HPCs, RuntimeStates, OwnerStates, Writes
<1>1. CASE Starts
  BY <1>1 DEF Starts
<1>2. CASE TakeRuntimeDone
  BY <1>2 DEF TakeRuntimeDone
<1>3. CASE TakeCommand
  BY <1>3 DEF TakeCommand
<1>4. CASE TakeServeDone
  BY <1>4 DEF TakeServeDone
<1>5. CASE RuntimeAwaited
  BY <1>5 DEF RuntimeAwaited
<1>6. CASE ServeAwaited
  BY <1>6 DEF ServeAwaited
<1>7. CASE Exits
  BY <1>7 DEF Exits
<1>8. CASE RuntimeStarted
  BY <1>8 DEF RuntimeStarted
<1>9. CASE RuntimeCancelled
  BY <1>9 DEF RuntimeCancelled, Return
<1>10. CASE SendReadyLocks
  BY <1>10 DEF SendReadyLocks
<1>11. CASE ReadyWritten
  BY <1>11 DEF ReadyWritten, write
<1>12. CASE ReadyNotWritten
  BY <1>12 DEF ReadyNotWritten, Return
<1>13. CASE TakeRecord
  BY <1>13 DEF TakeRecord
<1>14. CASE HeaderWritten
  BY <1>14 DEF HeaderWritten, write
<1>15. CASE MetadataWritten
  BY <1>15 DEF MetadataWritten, write
<1>16. CASE LogWriteFails
  BY <1>16 DEF LogWriteFails
<1>17. CASE SenderStops
  BY <1>17 DEF SenderStops
<1>18. CASE HelperReads
  BY <1>18 DEF HelperReads
<1>19. CASE HelperServeFails
  BY <1>19 DEF HelperServeFails
<1>20. CASE StopHandled
  BY <1>20 DEF StopHandled
<1>21. CASE ServiceReads
  <2>1. up' \in Seq(Writes) /\ Len(up') <= Capacity
    BY <1>21 DEF ServiceReads
  <2>2. reader' \in {"header", "metadata", "done"}
    BY <1>21 DEF ServiceReads
  <2>. QED
    BY <1>21, <2>1, <2>2 DEF ServiceReads
<1>22. CASE ServiceServeFails
  BY <1>22 DEF ServiceServeFails
<1>23. CASE ReadyHandled
  BY <1>23 DEF ReadyHandled
<1>24. CASE AwaitReady
  BY <1>24 DEF AwaitReady
<1>25. CASE SendStop
  BY <1>25 DEF SendStop
<1>26. CASE StopTimesOut
  BY <1>26 DEF StopTimesOut
<1>27. CASE wait
  BY <1>27 DEF wait
<1>28. CASE RuntimeFails
  BY <1>28 DEF RuntimeFails, Return
<1>29. CASE Enqueue
  BY <1>29 DEF Enqueue
<1>30. CASE StopCalled
  BY <1>30 DEF StopCalled
<1>31. CASE Terminated
  BY <1>31 DEF Terminated
<1>32. CASE ServiceDies
  BY <1>32 DEF ServiceDies
<1>33. CASE UNCHANGED vars
  BY <1>33
<1>. QED
  BY <1>1, <1>2, <1>3, <1>4, <1>5, <1>6, <1>7, <1>8, <1>9, <1>10, <1>11,
     <1>12, <1>13, <1>14, <1>15, <1>16, <1>17, <1>18, <1>19, <1>20, <1>21,
     <1>22, <1>23, <1>24, <1>25, <1>26, <1>27, <1>28, <1>29, <1>30, <1>31,
     <1>32, <1>33
  DEF Next, HelperMain, RuntimeGoroutine, LogSender, HelperServe,
      ServiceServe, Owner

(* Every step keeps the Boolean variables Boolean.                         *)
LEMMA FlagsStep == Flags /\ [Next]_vars => Flags'
<1> SUFFICES ASSUME Flags, [Next]_vars PROVE Flags'
  OBVIOUS
<1> USE DEF Flags
<1>1. CASE Starts
  BY ZenonT(30), <1>1 DEF Starts
<1>2. CASE TakeRuntimeDone
  BY ZenonT(30), <1>2 DEF TakeRuntimeDone
<1>3. CASE TakeCommand
  BY ZenonT(30), <1>3 DEF TakeCommand
<1>4. CASE TakeServeDone
  BY ZenonT(30), <1>4 DEF TakeServeDone
<1>5. CASE RuntimeAwaited
  BY ZenonT(30), <1>5 DEF RuntimeAwaited
<1>6. CASE ServeAwaited
  BY ZenonT(30), <1>6 DEF ServeAwaited
<1>7. CASE Exits
  BY ZenonT(30), <1>7 DEF Exits
<1>8. CASE RuntimeStarted
  BY ZenonT(30), <1>8 DEF RuntimeStarted
<1>9. CASE RuntimeCancelled
  BY ZenonT(30), <1>9 DEF RuntimeCancelled, Return
<1>10. CASE SendReadyLocks
  BY ZenonT(30), <1>10 DEF SendReadyLocks
<1>11. CASE ReadyWritten
  BY ZenonT(30), <1>11 DEF ReadyWritten, write
<1>12. CASE ReadyNotWritten
  BY ZenonT(30), <1>12 DEF ReadyNotWritten, Return
<1>13. CASE TakeRecord
  BY ZenonT(30), <1>13 DEF TakeRecord
<1>14. CASE HeaderWritten
  BY ZenonT(30), <1>14 DEF HeaderWritten, write
<1>15. CASE MetadataWritten
  BY ZenonT(30), <1>15 DEF MetadataWritten, write
<1>16. CASE LogWriteFails
  BY ZenonT(30), <1>16 DEF LogWriteFails
<1>17. CASE SenderStops
  BY ZenonT(30), <1>17 DEF SenderStops
<1>18. CASE HelperReads
  BY ZenonT(30), <1>18 DEF HelperReads
<1>19. CASE HelperServeFails
  BY ZenonT(30), <1>19 DEF HelperServeFails
<1>20. CASE StopHandled
  BY ZenonT(30), <1>20 DEF StopHandled
<1>21. CASE ServiceReads
  BY ZenonT(30), <1>21 DEF ServiceReads
<1>22. CASE ServiceServeFails
  BY ZenonT(30), <1>22 DEF ServiceServeFails
<1>23. CASE ReadyHandled
  BY ZenonT(30), <1>23 DEF ReadyHandled
<1>24. CASE AwaitReady
  BY ZenonT(30), <1>24 DEF AwaitReady
<1>25. CASE SendStop
  BY ZenonT(30), <1>25 DEF SendStop
<1>26. CASE StopTimesOut
  BY ZenonT(30), <1>26 DEF StopTimesOut
<1>27. CASE wait
  BY ZenonT(30), <1>27 DEF wait
<1>28. CASE RuntimeFails
  BY ZenonT(30), <1>28 DEF RuntimeFails, Return
<1>29. CASE Enqueue
  BY ZenonT(30), <1>29 DEF Enqueue
<1>30. CASE StopCalled
  BY ZenonT(30), <1>30 DEF StopCalled
<1>31. CASE Terminated
  BY ZenonT(30), <1>31 DEF Terminated
<1>32. CASE ServiceDies
  BY ZenonT(30), <1>32 DEF ServiceDies
<1>33. CASE UNCHANGED vars
  BY ZenonT(30), <1>33
<1>. QED
  BY <1>1, <1>2, <1>3, <1>4, <1>5, <1>6, <1>7, <1>8, <1>9, <1>10, <1>11,
     <1>12, <1>13, <1>14, <1>15, <1>16, <1>17, <1>18, <1>19, <1>20, <1>21,
     <1>22, <1>23, <1>24, <1>25, <1>26, <1>27, <1>28, <1>29, <1>30, <1>31,
     <1>32, <1>33
  DEF Next, HelperMain, RuntimeGoroutine, LogSender, HelperServe,
      ServiceServe, Owner

(* Every step keeps the order of the ends: run first, then the process.    *)
LEMMA WaitedStep == Waited /\ [Next]_vars => Waited'
<1> SUFFICES ASSUME Waited, [Next]_vars PROVE Waited'
  OBVIOUS
<1> USE DEF Waited, Finishing
<1>1. CASE Starts
  BY <1>1 DEF Starts
<1>2. CASE TakeRuntimeDone
  BY <1>2 DEF TakeRuntimeDone
<1>3. CASE TakeCommand
  BY <1>3 DEF TakeCommand
<1>4. CASE TakeServeDone
  BY <1>4 DEF TakeServeDone
<1>5. CASE RuntimeAwaited
  BY <1>5 DEF RuntimeAwaited
<1>6. CASE ServeAwaited
  BY <1>6 DEF ServeAwaited
<1>7. CASE Exits
  BY <1>7 DEF Exits
<1>8. CASE RuntimeStarted
  BY <1>8 DEF RuntimeStarted
<1>9. CASE RuntimeCancelled
  BY <1>9 DEF RuntimeCancelled, Return
<1>10. CASE SendReadyLocks
  BY <1>10 DEF SendReadyLocks
<1>11. CASE ReadyWritten
  BY <1>11 DEF ReadyWritten, write
<1>12. CASE ReadyNotWritten
  BY <1>12 DEF ReadyNotWritten, Return
<1>13. CASE TakeRecord
  BY <1>13 DEF TakeRecord
<1>14. CASE HeaderWritten
  BY <1>14 DEF HeaderWritten, write
<1>15. CASE MetadataWritten
  BY <1>15 DEF MetadataWritten, write
<1>16. CASE LogWriteFails
  BY <1>16 DEF LogWriteFails
<1>17. CASE SenderStops
  BY <1>17 DEF SenderStops
<1>18. CASE HelperReads
  BY <1>18 DEF HelperReads
<1>19. CASE HelperServeFails
  BY <1>19 DEF HelperServeFails
<1>20. CASE StopHandled
  BY <1>20 DEF StopHandled
<1>21. CASE ServiceReads
  BY <1>21 DEF ServiceReads
<1>22. CASE ServiceServeFails
  BY <1>22 DEF ServiceServeFails
<1>23. CASE ReadyHandled
  BY <1>23 DEF ReadyHandled
<1>24. CASE AwaitReady
  BY <1>24 DEF AwaitReady
<1>25. CASE SendStop
  BY <1>25 DEF SendStop
<1>26. CASE StopTimesOut
  BY <1>26 DEF StopTimesOut
<1>27. CASE wait
  BY <1>27 DEF wait
<1>28. CASE RuntimeFails
  BY <1>28 DEF RuntimeFails, Return
<1>29. CASE Enqueue
  BY <1>29 DEF Enqueue
<1>30. CASE StopCalled
  BY <1>30 DEF StopCalled
<1>31. CASE Terminated
  BY <1>31 DEF Terminated
<1>32. CASE ServiceDies
  BY <1>32 DEF ServiceDies
<1>33. CASE UNCHANGED vars
  BY <1>33
<1>. QED
  BY <1>1, <1>2, <1>3, <1>4, <1>5, <1>6, <1>7, <1>8, <1>9, <1>10, <1>11,
     <1>12, <1>13, <1>14, <1>15, <1>16, <1>17, <1>18, <1>19, <1>20, <1>21,
     <1>22, <1>23, <1>24, <1>25, <1>26, <1>27, <1>28, <1>29, <1>30, <1>31,
     <1>32, <1>33
  DEF Next, HelperMain, RuntimeGoroutine, LogSender, HelperServe,
      ServiceServe, Owner

(* Every step keeps what a verdict without error means.                    *)
LEMMA VerdictStep == Kinds /\ Verdict /\ [Next]_vars => Verdict'
<1> SUFFICES ASSUME Kinds, Verdict, [Next]_vars PROVE Verdict'
  OBVIOUS
<1> USE DEF Kinds, Verdict, Finishing
<1>1. CASE Starts
  BY <1>1 DEF Starts
<1>2. CASE TakeRuntimeDone
  BY <1>2 DEF TakeRuntimeDone
<1>3. CASE TakeCommand
  BY <1>3 DEF TakeCommand
<1>4. CASE TakeServeDone
  BY <1>4 DEF TakeServeDone
<1>5. CASE RuntimeAwaited
  BY <1>5 DEF RuntimeAwaited
<1>6. CASE ServeAwaited
  BY <1>6 DEF ServeAwaited
<1>7. CASE Exits
  BY <1>7 DEF Exits
<1>8. CASE RuntimeStarted
  BY <1>8 DEF RuntimeStarted
<1>9. CASE RuntimeCancelled
  BY <1>9 DEF RuntimeCancelled, Return
<1>10. CASE SendReadyLocks
  BY <1>10 DEF SendReadyLocks
<1>11. CASE ReadyWritten
  BY <1>11 DEF ReadyWritten, write
<1>12. CASE ReadyNotWritten
  BY <1>12 DEF ReadyNotWritten, Return
<1>13. CASE TakeRecord
  BY <1>13 DEF TakeRecord
<1>14. CASE HeaderWritten
  BY <1>14 DEF HeaderWritten, write
<1>15. CASE MetadataWritten
  BY <1>15 DEF MetadataWritten, write
<1>16. CASE LogWriteFails
  BY <1>16 DEF LogWriteFails
<1>17. CASE SenderStops
  BY <1>17 DEF SenderStops
<1>18. CASE HelperReads
  BY <1>18 DEF HelperReads
<1>19. CASE HelperServeFails
  BY <1>19 DEF HelperServeFails
<1>20. CASE StopHandled
  BY <1>20 DEF StopHandled
<1>21. CASE ServiceReads
  BY <1>21 DEF ServiceReads
<1>22. CASE ServiceServeFails
  BY <1>22 DEF ServiceServeFails
<1>23. CASE ReadyHandled
  BY <1>23 DEF ReadyHandled
<1>24. CASE AwaitReady
  BY <1>24 DEF AwaitReady
<1>25. CASE SendStop
  BY <1>25 DEF SendStop
<1>26. CASE StopTimesOut
  BY <1>26 DEF StopTimesOut
<1>27. CASE wait
  BY <1>27 DEF wait
<1>28. CASE RuntimeFails
  BY <1>28 DEF RuntimeFails, Return
<1>29. CASE Enqueue
  BY <1>29 DEF Enqueue
<1>30. CASE StopCalled
  BY <1>30 DEF StopCalled
<1>31. CASE Terminated
  BY <1>31 DEF Terminated
<1>32. CASE ServiceDies
  BY <1>32 DEF ServiceDies
<1>33. CASE UNCHANGED vars
  BY <1>33
<1>. QED
  BY <1>1, <1>2, <1>3, <1>4, <1>5, <1>6, <1>7, <1>8, <1>9, <1>10, <1>11,
     <1>12, <1>13, <1>14, <1>15, <1>16, <1>17, <1>18, <1>19, <1>20, <1>21,
     <1>22, <1>23, <1>24, <1>25, <1>26, <1>27, <1>28, <1>29, <1>30, <1>31,
     <1>32, <1>33
  DEF Next, HelperMain, RuntimeGoroutine, LogSender, HelperServe,
      ServiceServe, Owner

(* Every step keeps the write lock with the writer in its frame.           *)
LEMMA LockedStep == Kinds /\ Waited /\ Locked /\ [Next]_vars => Locked'
<1> SUFFICES ASSUME Kinds, Waited, Locked, [Next]_vars PROVE Locked'
  OBVIOUS
<1> USE DEF Kinds, Waited, Locked
<1>1. CASE Starts
  BY <1>1 DEF Starts
<1>2. CASE TakeRuntimeDone
  BY <1>2 DEF TakeRuntimeDone
<1>3. CASE TakeCommand
  BY <1>3 DEF TakeCommand
<1>4. CASE TakeServeDone
  BY <1>4 DEF TakeServeDone
<1>5. CASE RuntimeAwaited
  BY <1>5 DEF RuntimeAwaited
<1>6. CASE ServeAwaited
  BY <1>6 DEF ServeAwaited
<1>7. CASE Exits
  BY <1>7 DEF Exits
<1>8. CASE RuntimeStarted
  BY <1>8 DEF RuntimeStarted
<1>9. CASE RuntimeCancelled
  BY <1>9 DEF RuntimeCancelled, Return
<1>10. CASE SendReadyLocks
  BY <1>10 DEF SendReadyLocks
<1>11. CASE ReadyWritten
  BY <1>11 DEF ReadyWritten, write
<1>12. CASE ReadyNotWritten
  BY <1>12 DEF ReadyNotWritten, Return
<1>13. CASE TakeRecord
  BY <1>13 DEF TakeRecord
<1>14. CASE HeaderWritten
  BY <1>14 DEF HeaderWritten, write
<1>15. CASE MetadataWritten
  BY <1>15 DEF MetadataWritten, write
<1>16. CASE LogWriteFails
  BY <1>16 DEF LogWriteFails
<1>17. CASE SenderStops
  BY <1>17 DEF SenderStops
<1>18. CASE HelperReads
  BY <1>18 DEF HelperReads
<1>19. CASE HelperServeFails
  BY <1>19 DEF HelperServeFails
<1>20. CASE StopHandled
  BY <1>20 DEF StopHandled
<1>21. CASE ServiceReads
  BY <1>21 DEF ServiceReads
<1>22. CASE ServiceServeFails
  BY <1>22 DEF ServiceServeFails
<1>23. CASE ReadyHandled
  BY <1>23 DEF ReadyHandled
<1>24. CASE AwaitReady
  BY <1>24 DEF AwaitReady
<1>25. CASE SendStop
  BY <1>25 DEF SendStop
<1>26. CASE StopTimesOut
  BY <1>26 DEF StopTimesOut
<1>27. CASE wait
  BY <1>27 DEF wait
<1>28. CASE RuntimeFails
  BY <1>28 DEF RuntimeFails, Return
<1>29. CASE Enqueue
  BY <1>29 DEF Enqueue
<1>30. CASE StopCalled
  BY <1>30 DEF StopCalled
<1>31. CASE Terminated
  BY <1>31 DEF Terminated
<1>32. CASE ServiceDies
  BY <1>32 DEF ServiceDies
<1>33. CASE UNCHANGED vars
  BY <1>33
<1>. QED
  BY <1>1, <1>2, <1>3, <1>4, <1>5, <1>6, <1>7, <1>8, <1>9, <1>10, <1>11,
     <1>12, <1>13, <1>14, <1>15, <1>16, <1>17, <1>18, <1>19, <1>20, <1>21,
     <1>22, <1>23, <1>24, <1>25, <1>26, <1>27, <1>28, <1>29, <1>30, <1>31,
     <1>32, <1>33
  DEF Next, HelperMain, RuntimeGoroutine, LogSender, HelperServe,
      ServiceServe, Owner

(* Every step keeps the frames whole.                                      *)
LEMMA FramedStep == Kinds /\ Locked /\ Framed /\ [Next]_vars => Framed'
<1> SUFFICES ASSUME Kinds, Locked, Framed, [Next]_vars,
                    ~cut', reader' # "done"
             PROVE  /\ HeadersFollowed' /\ MetadataPreceded'
                    /\ ReaderInFrame' /\ SenderInFrame'
  BY DEF Framed
<1> USE DEF Kinds, Locked, Writes, Framed, HeadersFollowed, MetadataPreceded,
            ReaderInFrame, SenderInFrame
<1>1. CASE Starts
  BY <1>1 DEF Starts
<1>2. CASE TakeRuntimeDone
  BY <1>2 DEF TakeRuntimeDone
<1>3. CASE TakeCommand
  BY <1>3 DEF TakeCommand
<1>4. CASE TakeServeDone
  BY <1>4 DEF TakeServeDone
<1>5. CASE RuntimeAwaited
  BY <1>5 DEF RuntimeAwaited
<1>6. CASE ServeAwaited
  BY <1>6 DEF ServeAwaited
<1>7. CASE Exits
  BY <1>7 DEF Exits
<1>8. CASE RuntimeStarted
  BY <1>8 DEF RuntimeStarted
<1>9. CASE RuntimeCancelled
  BY <1>9 DEF RuntimeCancelled, Return
<1>10. CASE SendReadyLocks
  BY <1>10 DEF SendReadyLocks
<1>11. CASE ReadyWritten
  BY <1>11 DEF ReadyWritten, write
<1>12. CASE ReadyNotWritten
  BY <1>12 DEF ReadyNotWritten, Return
<1>13. CASE TakeRecord
  BY <1>13 DEF TakeRecord
<1>14. CASE HeaderWritten
  BY <1>14 DEF HeaderWritten, write
<1>15. CASE MetadataWritten
  BY <1>15 DEF MetadataWritten, write
<1>16. CASE LogWriteFails
  BY <1>16 DEF LogWriteFails
<1>17. CASE SenderStops
  BY <1>17 DEF SenderStops
<1>18. CASE HelperReads
  BY <1>18 DEF HelperReads
<1>19. CASE HelperServeFails
  BY <1>19 DEF HelperServeFails
<1>20. CASE StopHandled
  BY <1>20 DEF StopHandled
<1>21. CASE ServiceReads
  <2>1. up # <<>> /\ up' = Tail(up)
    BY <1>21 DEF ServiceReads
  <2>2. sender' = sender /\ cut' = cut /\ reader # "done"
    BY <1>21 DEF ServiceReads
  <2>3. /\ up \in Seq(Writes) /\ Len(up) > 0 /\ up[1] = Head(up)
        /\ Len(up') = Len(up) - 1
        /\ \A k \in 1 .. Len(up') : up'[k] = up[k + 1]
    BY <2>1
  <2>4. up' = <<>> <=> Len(up) = 1
    <3>1. up' \in Seq(Writes)
      BY KindsStep
    <3>2. up' = <<>> <=> Len(up') = 0
      BY <3>1
    <3>. QED
      BY <2>3, <3>2
  <2>5. /\ up \in Seq(Writes) /\ Len(up) > 0 /\ up[1] = Head(up)
        /\ Len(up') = Len(up) - 1
        /\ \A k \in 1 .. Len(up') : up'[k] = up[k + 1]
        /\ up' = <<>> <=> Len(up) = 1
        /\ sender' = sender /\ cut' = cut /\ reader # "done"
    BY <2>2, <2>3, <2>4
  <2>6. HeadersFollowed /\ MetadataPreceded /\ ReaderInFrame /\ SenderInFrame
    BY <2>5 DEF Framed
  <2>7. \/ reader = "header" /\ up[1] = "READY" /\ reader' = "header"
        \/ reader = "header" /\ up[1] = "LogHeader" /\ reader' = "metadata"
        \/ reader = "metadata" /\ up[1] = "LogMetadata" /\ reader' = "header"
    BY <1>21, <2>5, <2>6 DEF ServiceReads
  <2>8. HeadersFollowed'
    BY <2>5, <2>6, <2>7
  <2>9. MetadataPreceded'
    BY <2>5, <2>6, <2>7
  <2>10. ReaderInFrame'
    BY <2>5, <2>6, <2>7
  <2>11. SenderInFrame'
    BY <2>5, <2>6, <2>7
  <2>. QED
    BY <2>8, <2>9, <2>10, <2>11
<1>22. CASE ServiceServeFails
  BY <1>22 DEF ServiceServeFails
<1>23. CASE ReadyHandled
  BY <1>23 DEF ReadyHandled
<1>24. CASE AwaitReady
  BY <1>24 DEF AwaitReady
<1>25. CASE SendStop
  BY <1>25 DEF SendStop
<1>26. CASE StopTimesOut
  BY <1>26 DEF StopTimesOut
<1>27. CASE wait
  BY <1>27 DEF wait
<1>28. CASE RuntimeFails
  BY <1>28 DEF RuntimeFails, Return
<1>29. CASE Enqueue
  BY <1>29 DEF Enqueue
<1>30. CASE StopCalled
  BY <1>30 DEF StopCalled
<1>31. CASE Terminated
  BY <1>31 DEF Terminated
<1>32. CASE ServiceDies
  BY <1>32 DEF ServiceDies
<1>33. CASE UNCHANGED vars
  BY <1>33
<1>. QED
  BY <1>1, <1>2, <1>3, <1>4, <1>5, <1>6, <1>7, <1>8, <1>9, <1>10, <1>11,
     <1>12, <1>13, <1>14, <1>15, <1>16, <1>17, <1>18, <1>19, <1>20, <1>21,
     <1>22, <1>23, <1>24, <1>25, <1>26, <1>27, <1>28, <1>29, <1>30, <1>31,
     <1>32, <1>33
  DEF Next, HelperMain, RuntimeGoroutine, LogSender, HelperServe,
      ServiceServe, Owner

(* Every step keeps READY, unless a frame was cut.                         *)
LEMMA ReadyStep ==
  Kinds /\ Framed /\ ReadyLostOnlyByCut /\ [Next]_vars => ReadyLostOnlyByCut'
<1> SUFFICES ASSUME Kinds, Framed, ReadyLostOnlyByCut, [Next]_vars, ~cut',
                    runtime' = "running", reader' # "done"
             PROVE  \/ ready' \/ readyFrame'
                    \/ \E i \in DOMAIN up' : up'[i] = "READY"
  BY DEF ReadyLostOnlyByCut, ReadyNotLost
<1> USE DEF Kinds, Writes, ReadyLostOnlyByCut, ReadyNotLost
<1>1. CASE Starts
  BY <1>1 DEF Starts
<1>2. CASE TakeRuntimeDone
  BY <1>2 DEF TakeRuntimeDone
<1>3. CASE TakeCommand
  BY <1>3 DEF TakeCommand
<1>4. CASE TakeServeDone
  BY <1>4 DEF TakeServeDone
<1>5. CASE RuntimeAwaited
  BY <1>5 DEF RuntimeAwaited
<1>6. CASE ServeAwaited
  BY <1>6 DEF ServeAwaited
<1>7. CASE Exits
  BY <1>7 DEF Exits
<1>8. CASE RuntimeStarted
  BY <1>8 DEF RuntimeStarted
<1>9. CASE RuntimeCancelled
  BY <1>9 DEF RuntimeCancelled, Return
<1>10. CASE SendReadyLocks
  BY <1>10 DEF SendReadyLocks
<1>11. CASE ReadyWritten
  BY <1>11 DEF ReadyWritten, write
<1>12. CASE ReadyNotWritten
  BY <1>12 DEF ReadyNotWritten, Return
<1>13. CASE TakeRecord
  BY <1>13 DEF TakeRecord
<1>14. CASE HeaderWritten
  BY <1>14 DEF HeaderWritten, write
<1>15. CASE MetadataWritten
  BY <1>15 DEF MetadataWritten, write
<1>16. CASE LogWriteFails
  BY <1>16 DEF LogWriteFails
<1>17. CASE SenderStops
  BY <1>17 DEF SenderStops
<1>18. CASE HelperReads
  BY <1>18 DEF HelperReads
<1>19. CASE HelperServeFails
  BY <1>19 DEF HelperServeFails
<1>20. CASE StopHandled
  BY <1>20 DEF StopHandled
<1>21. CASE ServiceReads
  <2>1. /\ up \in Seq(Writes) /\ Len(up) > 0 /\ up[1] = Head(up)
        /\ Len(up') = Len(up) - 1
        /\ \A k \in 1 .. Len(up') : up'[k] = up[k + 1]
        /\ DOMAIN up = 1 .. Len(up) /\ DOMAIN up' = 1 .. Len(up')
        /\ runtime' = runtime /\ ready' = ready /\ cut' = cut
        /\ reader # "done"
    BY <1>21 DEF ServiceReads
  <2>2. readyFrame => readyFrame'
    <3>1. readyFrame' = TRUE \/ readyFrame' = readyFrame
      BY <1>21 DEF ServiceReads
    <3>. QED
      BY Zenon, <3>1
  <2>3. up[1] = "READY" => readyFrame'
    <3>1. up[1] = "READY" => reader = "header"
      BY <2>1 DEF Framed, ReaderInFrame
    <3>2. up[1] = "READY" => readyFrame' = TRUE
      BY <1>21, <2>1, <3>1 DEF ServiceReads
    <3>. QED
      BY Zenon, <3>2
  <2>4. CASE ready \/ readyFrame \/ up[1] = "READY"
    BY <2>1, <2>2, <2>3, <2>4
  <2>5. ASSUME NEW k \in DOMAIN up, up[k] = "READY", k # 1
        PROVE  \E i \in DOMAIN up' : up'[i] = "READY"
    <3>1. k - 1 \in DOMAIN up' /\ up'[k - 1] = "READY"
      BY <2>1, <2>5
    <3>. QED
      BY <3>1
  <2>6. ready \/ readyFrame \/ \E i \in DOMAIN up : up[i] = "READY"
    BY <2>1
  <2>. QED
    BY <2>4, <2>5, <2>6
<1>22. CASE ServiceServeFails
  BY <1>22 DEF ServiceServeFails
<1>23. CASE ReadyHandled
  BY <1>23 DEF ReadyHandled
<1>24. CASE AwaitReady
  BY <1>24 DEF AwaitReady
<1>25. CASE SendStop
  BY <1>25 DEF SendStop
<1>26. CASE StopTimesOut
  BY <1>26 DEF StopTimesOut
<1>27. CASE wait
  BY <1>27 DEF wait
<1>28. CASE RuntimeFails
  BY <1>28 DEF RuntimeFails, Return
<1>29. CASE Enqueue
  BY <1>29 DEF Enqueue
<1>30. CASE StopCalled
  BY <1>30 DEF StopCalled
<1>31. CASE Terminated
  BY <1>31 DEF Terminated
<1>32. CASE ServiceDies
  BY <1>32 DEF ServiceDies
<1>33. CASE UNCHANGED vars
  BY <1>33
<1>. QED
  BY <1>1, <1>2, <1>3, <1>4, <1>5, <1>6, <1>7, <1>8, <1>9, <1>10, <1>11,
     <1>12, <1>13, <1>14, <1>15, <1>16, <1>17, <1>18, <1>19, <1>20, <1>21,
     <1>22, <1>23, <1>24, <1>25, <1>26, <1>27, <1>28, <1>29, <1>30, <1>31,
     <1>32, <1>33
  DEF Next, HelperMain, RuntimeGoroutine, LogSender, HelperServe,
      ServiceServe, Owner

-----------------------------------------------------------------------------
(* The initial state satisfies the invariant; READY has not been sent.     *)
LEMMA InitInvariant == Init => IInv /\ ReadyLostOnlyByCut
<1> SUFFICES ASSUME Init PROVE IInv /\ ReadyLostOnlyByCut
  OBVIOUS
<1> USE DEF Init
<1>1. Kinds
  BY DEF Kinds, HPCs, RuntimeStates, OwnerStates, Writes
<1>2. Flags
  BY DEF Flags
<1>3. Waited /\ Verdict /\ Locked
  BY DEF Waited, Verdict, Locked, Finishing
<1>4. Framed
  BY DEF Framed, HeadersFollowed, MetadataPreceded, ReaderInFrame,
         SenderInFrame
<1>5. ReadyLostOnlyByCut
  BY DEF ReadyLostOnlyByCut, ReadyNotLost
<1>. QED
  BY <1>1, <1>2, <1>3, <1>4, <1>5 DEF IInv, TypeOK

(* The inductive invariant: types, the order of the ends, where a verdict  *)
(* without error can come from, the write lock, and whole frames.          *)
THEOREM InvariantHolds == Spec => []IInv
<1>1. Init => IInv
  BY InitInvariant
<1>2. IInv /\ [Next]_vars => IInv'
  BY KindsStep, FlagsStep, WaitedStep, VerdictStep, LockedStep, FramedStep
     DEF IInv, TypeOK
<1>. QED
  BY <1>1, <1>2, PTL DEF Spec

(* Type correctness, for every capacity and queue size.                    *)
THEOREM TypeCorrect == Spec => []TypeOK
<1>1. IInv => TypeOK
  BY DEF IInv
<1>. QED
  BY <1>1, InvariantHolds, PTL

(* A helper that exits by itself has waited for its runtime.               *)
THEOREM NeverBeforeRuntime == Spec => []ExitAfterRuntime
<1>1. IInv => ExitAfterRuntime
  BY DEF IInv, Waited, Finishing, ExitAfterRuntime
<1>. QED
  BY <1>1, InvariantHolds, PTL

(* Exit code 0 means that the service wrote STOP: a broken pipe or a       *)
(* runtime that ends by itself is never reported as a clean end.           *)
THEOREM CleanExit == Spec => []CleanExitWasAsked
<1>1. IInv => CleanExitWasAsked
  BY DEF IInv, Waited, Verdict, Finishing, CleanExitWasAsked
<1>. QED
  BY <1>1, InvariantHolds, PTL

(* READY reaches the service among any number of log records, unless the   *)
(* deadline cuts a record between its two writes.                          *)
THEOREM ReadyDelivered == Spec => []ReadyLostOnlyByCut
<1>1. Init => ReadyLostOnlyByCut
  BY InitInvariant
<1>2. IInv /\ ReadyLostOnlyByCut /\ [Next]_vars => ReadyLostOnlyByCut'
  BY ReadyStep DEF IInv, TypeOK
<1>. QED
  BY <1>1, <1>2, InvariantHolds, PTL DEF Spec

-----------------------------------------------------------------------------
(* What the refinement of SessionHelper needs besides.                     *)

(* READY was written by a run that had started: the news is never early.   *)
Announced ==
  readyFrame \/ ready \/ (\E i \in DOMAIN up : up[i] = "READY")
    => runtime \in {"running", "returned"}

(* serveSessionHelper closes its end before it returns, and Windows does   *)
(* it for a process that is terminated: no STOP goes to a helper that has  *)
(* ended.                                                                  *)
Disconnected == hpc \in Finishing \/ ~Alive => ~helperEnd

(* Nothing but ReadyWritten makes READY appear in the pipe.                *)
LEMMA PipeContents ==
  ASSUME Kinds, NEW w \in Writes, write(w), w # "READY",
         NEW i \in DOMAIN up', up'[i] = "READY"
  PROVE  \E k \in DOMAIN up : up[k] = "READY"
BY DEF Kinds, write

(* Every step keeps the news from being early.                             *)
LEMMA AnnouncedStep ==
  Kinds /\ Waited /\ Announced /\ [Next]_vars => Announced'
<1> SUFFICES ASSUME Kinds, Waited, Announced, [Next]_vars PROVE Announced'
  OBVIOUS
<1> USE DEF Announced
<1>1. CASE Starts
  BY <1>1 DEF Starts, Waited
<1>2. CASE TakeRuntimeDone
  BY <1>2 DEF TakeRuntimeDone
<1>3. CASE TakeCommand
  BY <1>3 DEF TakeCommand
<1>4. CASE TakeServeDone
  BY <1>4 DEF TakeServeDone
<1>5. CASE RuntimeAwaited
  BY <1>5 DEF RuntimeAwaited
<1>6. CASE ServeAwaited
  BY <1>6 DEF ServeAwaited
<1>7. CASE Exits
  BY <1>7 DEF Exits
<1>8. CASE RuntimeStarted
  BY <1>8 DEF RuntimeStarted
<1>9. CASE RuntimeCancelled
  BY <1>9 DEF RuntimeCancelled, Return
<1>10. CASE SendReadyLocks
  BY <1>10 DEF SendReadyLocks
<1>11. CASE ReadyWritten
  BY <1>11 DEF ReadyWritten, write
<1>12. CASE ReadyNotWritten
  BY <1>12 DEF ReadyNotWritten, Return
<1>13. CASE TakeRecord
  BY <1>13 DEF TakeRecord
<1>14. CASE HeaderWritten
  <2>1. write("LogHeader") /\ UNCHANGED <<runtime, readyFrame, ready>>
    BY <1>14 DEF HeaderWritten
  <2>. QED
    BY <2>1, PipeContents DEF Writes
<1>15. CASE MetadataWritten
  <2>1. write("LogMetadata") /\ UNCHANGED <<runtime, readyFrame, ready>>
    BY <1>15 DEF MetadataWritten
  <2>. QED
    BY <2>1, PipeContents DEF Writes
<1>16. CASE LogWriteFails
  BY <1>16 DEF LogWriteFails
<1>17. CASE SenderStops
  BY <1>17 DEF SenderStops
<1>18. CASE HelperReads
  BY <1>18 DEF HelperReads
<1>19. CASE HelperServeFails
  BY <1>19 DEF HelperServeFails
<1>20. CASE StopHandled
  BY <1>20 DEF StopHandled
<1>21. CASE ServiceReads
  <2>1. /\ up \in Seq(Writes) /\ up # <<>> /\ up' = Tail(up)
        /\ UNCHANGED <<runtime, ready>>
    BY <1>21 DEF ServiceReads, Kinds
  <2>2. readyFrame' => readyFrame \/ Head(up) = "READY"
    BY <1>21 DEF ServiceReads
  <2>3. ASSUME NEW i \in DOMAIN up', up'[i] = "READY"
        PROVE  \E k \in DOMAIN up : up[k] = "READY"
    <3>1. i + 1 \in DOMAIN up /\ up[i + 1] = "READY"
      BY <2>1, <2>3
    <3>. QED
      BY <3>1
  <2>4. Head(up) = "READY" => \E k \in DOMAIN up : up[k] = "READY"
    BY <2>1
  <2>. QED
    BY <2>1, <2>2, <2>3, <2>4
<1>22. CASE ServiceServeFails
  BY <1>22 DEF ServiceServeFails
<1>23. CASE ReadyHandled
  BY <1>23 DEF ReadyHandled
<1>24. CASE AwaitReady
  BY <1>24 DEF AwaitReady
<1>25. CASE SendStop
  BY <1>25 DEF SendStop
<1>26. CASE StopTimesOut
  BY <1>26 DEF StopTimesOut
<1>27. CASE wait
  BY <1>27 DEF wait
<1>28. CASE RuntimeFails
  BY <1>28 DEF RuntimeFails, Return
<1>29. CASE Enqueue
  BY <1>29 DEF Enqueue
<1>30. CASE StopCalled
  BY <1>30 DEF StopCalled
<1>31. CASE Terminated
  BY <1>31 DEF Terminated
<1>32. CASE ServiceDies
  BY <1>32 DEF ServiceDies
<1>33. CASE UNCHANGED vars
  BY <1>33
<1>. QED
  BY <1>1, <1>2, <1>3, <1>4, <1>5, <1>6, <1>7, <1>8, <1>9, <1>10, <1>11,
     <1>12, <1>13, <1>14, <1>15, <1>16, <1>17, <1>18, <1>19, <1>20, <1>21,
     <1>22, <1>23, <1>24, <1>25, <1>26, <1>27, <1>28, <1>29, <1>30, <1>31,
     <1>32, <1>33
  DEF Next, HelperMain, RuntimeGoroutine, LogSender, HelperServe,
      ServiceServe, Owner

(* Every step keeps a helper that has ended disconnected.                  *)
LEMMA DisconnectedStep == Disconnected /\ [Next]_vars => Disconnected'
<1> SUFFICES ASSUME Disconnected, [Next]_vars PROVE Disconnected'
  OBVIOUS
<1> USE DEF Disconnected, Finishing
<1>1. CASE Starts
  BY <1>1 DEF Starts
<1>2. CASE TakeRuntimeDone
  BY <1>2 DEF TakeRuntimeDone
<1>3. CASE TakeCommand
  BY <1>3 DEF TakeCommand
<1>4. CASE TakeServeDone
  BY <1>4 DEF TakeServeDone
<1>5. CASE RuntimeAwaited
  BY <1>5 DEF RuntimeAwaited
<1>6. CASE ServeAwaited
  BY <1>6 DEF ServeAwaited
<1>7. CASE Exits
  BY <1>7 DEF Exits
<1>8. CASE RuntimeStarted
  BY <1>8 DEF RuntimeStarted
<1>9. CASE RuntimeCancelled
  BY <1>9 DEF RuntimeCancelled, Return
<1>10. CASE SendReadyLocks
  BY <1>10 DEF SendReadyLocks
<1>11. CASE ReadyWritten
  BY <1>11 DEF ReadyWritten, write
<1>12. CASE ReadyNotWritten
  BY <1>12 DEF ReadyNotWritten, Return
<1>13. CASE TakeRecord
  BY <1>13 DEF TakeRecord
<1>14. CASE HeaderWritten
  BY <1>14 DEF HeaderWritten, write
<1>15. CASE MetadataWritten
  BY <1>15 DEF MetadataWritten, write
<1>16. CASE LogWriteFails
  BY <1>16 DEF LogWriteFails
<1>17. CASE SenderStops
  BY <1>17 DEF SenderStops
<1>18. CASE HelperReads
  BY <1>18 DEF HelperReads
<1>19. CASE HelperServeFails
  BY <1>19 DEF HelperServeFails
<1>20. CASE StopHandled
  BY <1>20 DEF StopHandled
<1>21. CASE ServiceReads
  BY <1>21 DEF ServiceReads
<1>22. CASE ServiceServeFails
  BY <1>22 DEF ServiceServeFails
<1>23. CASE ReadyHandled
  BY <1>23 DEF ReadyHandled
<1>24. CASE AwaitReady
  BY <1>24 DEF AwaitReady
<1>25. CASE SendStop
  BY <1>25 DEF SendStop
<1>26. CASE StopTimesOut
  BY <1>26 DEF StopTimesOut
<1>27. CASE wait
  BY <1>27 DEF wait
<1>28. CASE RuntimeFails
  BY <1>28 DEF RuntimeFails, Return
<1>29. CASE Enqueue
  BY <1>29 DEF Enqueue
<1>30. CASE StopCalled
  BY <1>30 DEF StopCalled
<1>31. CASE Terminated
  BY <1>31 DEF Terminated
<1>32. CASE ServiceDies
  BY <1>32 DEF ServiceDies
<1>33. CASE UNCHANGED vars
  BY <1>33
<1>. QED
  BY <1>1, <1>2, <1>3, <1>4, <1>5, <1>6, <1>7, <1>8, <1>9, <1>10, <1>11,
     <1>12, <1>13, <1>14, <1>15, <1>16, <1>17, <1>18, <1>19, <1>20, <1>21,
     <1>22, <1>23, <1>24, <1>25, <1>26, <1>27, <1>28, <1>29, <1>30, <1>31,
     <1>32, <1>33
  DEF Next, HelperMain, RuntimeGoroutine, LogSender, HelperServe,
      ServiceServe, Owner

(* A step that changes nothing SessionHelper speaks of is a stutter of it. *)
LEMMA QuietStep ==
  UNCHANGED <<runtime, ready, asked, owner, exit>>
    => UNCHANGED Promise!hvars
BY DEF Promise!hvars, Work, Hold

(* The other steps are steps of SessionHelper.                             *)
LEMMA PromiseStep ==
  /\ Waited /\ Verdict /\ Announced /\ Disconnected
  /\ [Next]_vars
  => [Promise!HNext]_(Promise!hvars)
<1> SUFFICES ASSUME Waited, Verdict, Announced, Disconnected, [Next]_vars
             PROVE  [Promise!HNext]_(Promise!hvars)
  OBVIOUS
<1>1. CASE Starts
  BY <1>1 DEF Starts, Waited, Promise!hvars, Work, Hold
<1>2. CASE TakeRuntimeDone
  BY <1>2, QuietStep DEF TakeRuntimeDone
<1>3. CASE TakeCommand
  BY <1>3, QuietStep DEF TakeCommand
<1>4. CASE TakeServeDone
  BY <1>4, QuietStep DEF TakeServeDone
<1>5. CASE RuntimeAwaited
  BY <1>5, QuietStep DEF RuntimeAwaited
<1>6. CASE ServeAwaited
  BY <1>6, QuietStep DEF ServeAwaited
<1>7. CASE Exits
  <2>1. runtime = "returned" /\ (verdict = "nil" => asked)
    BY <1>7 DEF Exits, Waited, Verdict, Finishing
  <2>2. /\ exit = "running" /\ exit' \in {"0", "1"}
        /\ exit' = "0" => asked
        /\ UNCHANGED <<runtime, ready, asked, owner>>
    BY <1>7, <2>1 DEF Exits
  <2>3. Promise!Exits(exit')
    BY <2>1, <2>2 DEF Promise!Exits, Promise!Running, Work, Hold
  <2>. QED
    BY <2>2, <2>3 DEF Promise!HNext
<1>8. CASE RuntimeStarted
  BY <1>8 DEF RuntimeStarted, Promise!hvars, Work, Hold
<1>9. CASE RuntimeCancelled
  <2>1. Promise!Ends
    BY <1>9 DEF RuntimeCancelled, Return, Promise!Ends, Promise!Running,
                Work, Hold
  <2>. QED
    BY <2>1 DEF Promise!HNext
<1>10. CASE SendReadyLocks
  BY <1>10 DEF SendReadyLocks, Promise!hvars, Work, Hold
<1>11. CASE ReadyWritten
  <2>1. Promise!Serves
    BY <1>11 DEF ReadyWritten, Promise!Serves, Promise!Running, Work, Hold
  <2>. QED
    BY <2>1 DEF Promise!HNext
<1>12. CASE ReadyNotWritten
  <2>1. Promise!Ends
    BY <1>12 DEF ReadyNotWritten, Return, Promise!Ends, Promise!Running,
                Work, Hold
  <2>. QED
    BY <2>1 DEF Promise!HNext
<1>13. CASE TakeRecord
  BY <1>13, QuietStep DEF TakeRecord
<1>14. CASE HeaderWritten
  BY <1>14, QuietStep DEF HeaderWritten, write
<1>15. CASE MetadataWritten
  BY <1>15, QuietStep DEF MetadataWritten, write
<1>16. CASE LogWriteFails
  BY <1>16, QuietStep DEF LogWriteFails
<1>17. CASE SenderStops
  BY <1>17, QuietStep DEF SenderStops
<1>18. CASE HelperReads
  BY <1>18, QuietStep DEF HelperReads
<1>19. CASE HelperServeFails
  BY <1>19, QuietStep DEF HelperServeFails
<1>20. CASE StopHandled
  BY <1>20, QuietStep DEF StopHandled
<1>21. CASE ServiceReads
  BY <1>21, QuietStep DEF ServiceReads
<1>22. CASE ServiceServeFails
  BY <1>22, QuietStep DEF ServiceServeFails
<1>23. CASE ReadyHandled
  <2>1. runtime \in {"running", "returned"}
    BY <1>23 DEF ReadyHandled, Announced
  <2>2. Promise!Announces
    BY <1>23, <2>1 DEF ReadyHandled, Promise!Announces, Work, Hold
  <2>. QED
    BY <2>2 DEF Promise!HNext
<1>24. CASE AwaitReady
  <2>1. UNCHANGED <<runtime, ready, asked, exit>>
    BY <1>24 DEF AwaitReady
  <2>2. CASE asked
    BY <2>1, <2>2 DEF Promise!hvars, Work, Hold
  <2>3. CASE ~asked /\ owner' = "held"
    <3>1. Promise!Keeps
      BY <1>24, <2>1, <2>3 DEF AwaitReady, Promise!Keeps, Work, Hold
    <3>. QED
      BY <3>1 DEF Promise!HNext
  <2>4. CASE ~asked /\ owner' = "stop"
    <3>1. Promise!Releases
      BY <1>24, <2>1, <2>4 DEF AwaitReady, Promise!Releases, Work, Hold
    <3>. QED
      BY <3>1 DEF Promise!HNext
  <2>. QED
    BY <1>24, <2>2, <2>3, <2>4 DEF AwaitReady
<1>25. CASE SendStop
  <2>1. /\ owner = "stop" /\ owner' = "stopWait"
        /\ UNCHANGED <<runtime, ready, exit>>
    BY <1>25 DEF SendStop
  <2>2. CASE asked \/ ~Connected
    <3>1. asked' <=> asked
      BY <1>25, <2>2 DEF SendStop
    <3>. QED
      BY <2>1, <3>1 DEF Promise!hvars, Work, Hold
  <2>3. CASE ~asked /\ Connected
    <3>1. asked' /\ exit = "running"
      BY <1>25, <2>3 DEF SendStop, Disconnected
    <3>2. Promise!Asks
      BY <2>1, <2>3, <3>1 DEF Promise!Asks, Promise!Running, Work, Hold
    <3>. QED
      BY <3>2 DEF Promise!HNext
  <2>. QED
    BY <2>2, <2>3
<1>26. CASE StopTimesOut
  BY <1>26 DEF StopTimesOut, Promise!hvars, Work, Hold
<1>27. CASE wait
  <2>1. UNCHANGED <<runtime, ready, asked, exit>>
    BY <1>27 DEF wait
  <2>2. CASE asked \/ owner \notin {"await", "held"}
    BY <1>27, <2>1, <2>2 DEF wait, Promise!hvars, Work, Hold
  <2>3. CASE ~asked /\ owner \in {"await", "held"}
    <3>1. Promise!Releases
      BY <1>27, <2>1, <2>3 DEF wait, Promise!Releases, Work, Hold
    <3>. QED
      BY <3>1 DEF Promise!HNext
  <2>. QED
    BY <2>2, <2>3
<1>28. CASE RuntimeFails
  <2>1. Promise!Ends
    BY <1>28 DEF RuntimeFails, Return, Promise!Ends, Promise!Running,
                Work, Hold
  <2>. QED
    BY <2>1 DEF Promise!HNext
<1>29. CASE Enqueue
  BY <1>29, QuietStep DEF Enqueue
<1>30. CASE StopCalled
  <2>1. UNCHANGED <<runtime, ready, asked, exit>>
    BY <1>30 DEF StopCalled
  <2>2. CASE asked \/ owner \notin {"await", "held"}
    BY <1>30, <2>1, <2>2 DEF StopCalled, Promise!hvars, Work, Hold
  <2>3. CASE ~asked /\ owner \in {"await", "held"}
    <3>1. Promise!Releases
      BY <1>30, <2>1, <2>3 DEF StopCalled, Promise!Releases, Work, Hold
    <3>. QED
      BY <3>1 DEF Promise!HNext
  <2>. QED
    BY <2>2, <2>3
<1>31. CASE Terminated
  <2>1. Promise!Terminates
    BY <1>31 DEF Terminated, Promise!Terminates, Promise!Running, Work, Hold
  <2>. QED
    BY <2>1 DEF Promise!HNext
<1>32. CASE ServiceDies
  <2>1. UNCHANGED <<runtime, ready, asked, exit>>
    BY <1>32 DEF ServiceDies
  <2>2. CASE asked \/ owner \notin {"await", "held"}
    BY <1>32, <2>1, <2>2 DEF ServiceDies, Promise!hvars, Work, Hold
  <2>3. CASE ~asked /\ owner \in {"await", "held"}
    <3>1. Promise!Releases
      BY <1>32, <2>1, <2>3 DEF ServiceDies, Promise!Releases, Work, Hold
    <3>. QED
      BY <3>1 DEF Promise!HNext
  <2>. QED
    BY <2>2, <2>3
<1>33. CASE UNCHANGED vars
  BY <1>33, QuietStep
<1>. QED
  BY <1>1, <1>2, <1>3, <1>4, <1>5, <1>6, <1>7, <1>8, <1>9, <1>10, <1>11,
     <1>12, <1>13, <1>14, <1>15, <1>16, <1>17, <1>18, <1>19, <1>20, <1>21,
     <1>22, <1>23, <1>24, <1>25, <1>26, <1>27, <1>28, <1>29, <1>30, <1>31,
     <1>32, <1>33
  DEF Next, HelperMain, RuntimeGoroutine, LogSender, HelperServe,
      ServiceServe, Owner

(* A helper on its pipe keeps what SessionHelper promises, for every pipe, *)
(* every queue and whatever fails: its runtime serves before it is kept,   *)
(* ends before it does, and does nothing once it is terminated.            *)
THEOREM Refinement == Spec => HelperSpec
<1>1. Init => /\ Announced /\ Disconnected
              /\ Promise!HInit
  BY DEF Init, Announced, Disconnected, Finishing, Promise!HInit, Work, Hold
<1>2. IInv /\ Announced /\ Disconnected /\ [Next]_vars
        => Announced' /\ Disconnected'
  BY AnnouncedStep, DisconnectedStep DEF IInv, TypeOK
<1>3. IInv /\ Announced /\ Disconnected /\ [Next]_vars
        => [Promise!HNext]_(Promise!hvars)
  BY PromiseStep DEF IInv
<1>. QED
  BY <1>1, <1>2, <1>3, InvariantHolds, PTL DEF Spec, HelperSpec, Promise!HSpec

-----------------------------------------------------------------------------
(* A STOP that was written is on its way to the select of                  *)
(* serveSessionHelper, which sees a connection closed under it, and waits  *)
(* only for a run that was cancelled: what fairness has to move, and no    *)
(* more, for a helper to end (HelperEnds).                                 *)
StopUnderWay ==
  /\ Alive /\ asked /\ hpc \in {"setup", "select"} =>
        down \/ stopFrame \/ command
  /\ Alive /\ hpc = "select" /\ ~helperEnd => serve = "done"
  /\ hpc = "awaitRuntime" => cancelled

NotConnectedYet == hpc = "setup" => serve = "off" /\ (Alive => helperEnd)

(* Most steps leave alone all of this but, perhaps, a variable that only   *)
(* the owner of the helper looks at.                                       *)
LEMMA OtherPartsStep ==
  ASSUME RuntimeGoroutine \/ RuntimeFails \/ Enqueue \/ LogSender
           \/ ServiceServe \/ AwaitReady \/ StopTimesOut \/ wait \/ StopCalled
           \/ ServiceDies \/ UNCHANGED vars
  PROVE  UNCHANGED <<mainVars, serveVars, down, helperEnd, asked>>
<1>1. CASE RuntimeGoroutine \/ RuntimeFails
  BY <1>1 DEF RuntimeGoroutine, RuntimeStarted, RuntimeCancelled, SendReadyLocks,
              ReadyWritten, ReadyNotWritten, RuntimeFails
<1>2. CASE Enqueue \/ LogSender
  BY <1>2 DEF Enqueue, LogSender, TakeRecord, HeaderWritten, MetadataWritten,
              LogWriteFails, SenderStops
<1>3. CASE ServiceServe
  BY <1>3 DEF ServiceServe, ServiceReads, ServiceServeFails, ReadyHandled
<1>4. CASE AwaitReady \/ StopTimesOut \/ wait \/ StopCalled \/ ServiceDies
  BY <1>4 DEF AwaitReady, StopTimesOut, wait, StopCalled, ServiceDies
<1>. QED
  BY <1>1, <1>2, <1>3, <1>4

LEMMA StopUnderWayStep ==
  ASSUME StopUnderWay, NotConnectedYet, [Next]_vars
  PROVE  StopUnderWay' /\ NotConnectedYet'
<1> USE DEF StopUnderWay, NotConnectedYet
<1>1. CASE HelperMain
  <2>1. CASE Starts
    BY <2>1 DEF Starts
  <2>2. CASE TakeRuntimeDone \/ TakeCommand \/ TakeServeDone
    BY <2>2 DEF TakeRuntimeDone, TakeCommand, TakeServeDone
  <2>3. CASE RuntimeAwaited \/ ServeAwaited \/ Exits
    BY <2>3 DEF RuntimeAwaited, ServeAwaited, Exits
  <2>. QED
    BY <1>1, <2>1, <2>2, <2>3 DEF HelperMain
<1>2. CASE HelperServe
  <2>1. CASE HelperReads
    BY <2>1 DEF HelperReads
  <2>2. CASE HelperServeFails
    BY <2>2 DEF HelperServeFails
  <2>3. CASE StopHandled
    BY <2>3 DEF StopHandled
  <2>. QED
    BY <1>2, <2>1, <2>2, <2>3 DEF HelperServe
<1>3. CASE SendStop
  BY <1>3 DEF SendStop
<1>4. CASE Terminated
  BY <1>4 DEF Terminated
<1>5. CASE UNCHANGED <<mainVars, serveVars, down, helperEnd, asked>>
  BY <1>5
<1>. QED
  BY <1>1, <1>2, <1>3, <1>4, <1>5, OtherPartsStep DEF Next, Owner

(* A STOP is never lost between the service, Conn.Serve, its handler and   *)
(* the commands channel, for every pipe and whatever fails (the safety     *)
(* part of HelperEnds, in serveSessionHelper).                             *)
THEOREM StopNotLost == Spec => []StopUnderWay
<1>1. Init => StopUnderWay /\ NotConnectedYet
  BY DEF Init, StopUnderWay, NotConnectedYet
<1>. QED
  BY <1>1, StopUnderWayStep, PTL DEF Spec
=============================================================================
