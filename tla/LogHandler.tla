----------------------------- MODULE LogHandler -----------------------------
(***************************************************************************)
(* PlainHandler (internal/logger/handler.go): goroutines that log, flush   *)
(* and shut down share a bounded queue with the goroutine that writes.     *)
(* enqueue is two steps, the look at closed and the send that does not     *)
(* block, and a third when that is refused, the counting; handle is two,   *)
(* the swap of the counter and the entry itself.  A Write may fail; nobody *)
(* is told.                                                                *)
(***************************************************************************)
EXTENDS Naturals, Sequences

CONSTANTS Callers,    \* goroutines that use the handler
          QueueSize,  \* queueSize
          MaxCalls    \* bound of the model: calls made by one caller

ASSUME LogQueueAssumption == QueueSize \in Nat \ {0}
ASSUME MaxCallsAssumption == MaxCalls \in Nat

VARIABLES
  pc,       \* pc[c]: where caller c is, see CallerStates
  entry,    \* entry[c]: the entry of its last call
  queue,    \* the queue channel
  closed,   \* the atomic flag
  stop,     \* the stop channel is closed
  dropped,  \* the atomic counter
  run,      \* the goroutine of run: see RunStates
  current,  \* the entry it has in hand
  draining, \* it has seen stop
  flushed,  \* markers whose channel it has closed
  written,  \* records in the log
  reported, \* the sum of the counts in its "logger dropped" lines
  unwritten, \* records whose Write failed
  unreported, \* the sum of the counts whose line could not be written
  \* history only
  calls,    \* calls[c]: calls made by c
  trace,    \* what went into the queue, and where stop was closed
  lost      \* entries refused by the full queue and counted

callerVars == <<pc, entry, calls>>
signals == <<closed, stop>>
runVars == <<run, current, draining>>
log == <<flushed, written, reported, unwritten, unreported>>
history == <<trace, lost>>
vars == <<callerVars, signals, queue, dropped, runVars, log, history>>

CallerStates == {"idle", "offer", "count", "awaitFlush", "closing",
                 "awaitDone"}
RunStates == {"select", "swap", "handle", "finalSwap", "done"}

(* logEntry: a record, or the marker of a Flush; n tells calls apart.      *)
Entries == [kind : {"record", "flush"}, by : Callers, n : 1 .. MaxCalls]
NoEntry == [kind |-> "none"]
Stop == [kind |-> "stop"]

TypeOK ==
  /\ pc \in [Callers -> CallerStates]
  /\ entry \in [Callers -> Entries \cup {NoEntry}]
  /\ queue \in Seq(Entries) /\ Len(queue) <= QueueSize
  /\ closed \in BOOLEAN /\ stop \in BOOLEAN /\ draining \in BOOLEAN
  /\ {dropped, reported, unreported, lost} \subseteq Nat
  /\ run \in RunStates
  /\ current \in Entries \cup {NoEntry}
  /\ {flushed, written, unwritten} \subseteq SUBSET Entries
  /\ calls \in [Callers -> 0 .. MaxCalls]
  /\ trace \in Seq([event : Entries \cup {Stop}, lost : Nat])

(* NewPlainHandler.                                                        *)
Init ==
  /\ pc = [c \in Callers |-> "idle"]
  /\ entry = [c \in Callers |-> NoEntry]
  /\ queue = <<>>
  /\ closed = FALSE
  /\ stop = FALSE
  /\ dropped = 0
  /\ run = "select"
  /\ current = NoEntry
  /\ draining = FALSE
  /\ flushed = {}
  /\ written = {}
  /\ reported = 0
  /\ unwritten = {}
  /\ unreported = 0
  /\ calls = [c \in Callers |-> 0]
  /\ trace = <<>>
  /\ lost = 0

Goes(c, state) == pc' = [pc EXCEPT ![c] = state]

(* A call of c that MaxCalls allows.                                       *)
Calls(c) ==
  /\ pc[c] = "idle"
  /\ calls[c] < MaxCalls
  /\ calls' = [calls EXCEPT ![c] = @ + 1]

Traced(event) == trace' = Append(trace, [event |-> event, lost |-> lost])

-----------------------------------------------------------------------------
(* The callers.                                                            *)

(* EnqueueFormat, Handle and Flush up to the look at closed.               *)
Enqueue(c) ==
  /\ Calls(c)
  /\ IF closed
       THEN UNCHANGED <<pc, entry>>
       ELSE \E kind \in {"record", "flush"} :
              /\ entry' = [entry EXCEPT ![c] =
                             [kind |-> kind, by |-> c, n |-> calls'[c]]]
              /\ Goes(c, "offer")
  /\ UNCHANGED <<signals, queue, dropped, runVars, log, history>>

AfterSend(c) ==
  Goes(c, IF entry[c].kind = "flush" THEN "awaitFlush" ELSE "idle")

(* Mutant: the channel has no capacity limit.                              *)
Accepted_Unbounded(c) ==
  /\ pc[c] = "offer"
  /\ queue' = Append(queue, entry[c])
  /\ Traced(entry[c])
  /\ AfterSend(c)
  /\ UNCHANGED <<entry, calls, signals, dropped, runVars, log, lost>>

Accepted(c) ==
  /\ pc[c] = "offer"
  /\ Len(queue) < QueueSize
  /\ queue' = Append(queue, entry[c])
  /\ Traced(entry[c])
  /\ AfterSend(c)
  /\ UNCHANGED <<entry, calls, signals, dropped, runVars, log, lost>>

(* The queue is full.                                                      *)
Refused(c) ==
  /\ pc[c] = "offer"
  /\ Len(queue) = QueueSize
  /\ Goes(c, "count")
  /\ UNCHANGED <<entry, calls, signals, queue, dropped, runVars, log, history>>

(* dropped.Add, and the call returns: a marker counts as a message too.    *)
CountDropped(c) ==
  /\ pc[c] = "count"
  /\ dropped' = dropped + 1
  /\ lost' = lost + 1
  /\ Goes(c, "idle")
  /\ UNCHANGED <<entry, calls, signals, queue, runVars, log, trace>>

(* Flush returns: its channel was closed, or its timer fired.              *)
FlushReturns(c) ==
  /\ pc[c] = "awaitFlush"
  /\ Goes(c, "idle")
  /\ UNCHANGED <<entry, calls, signals, queue, dropped, runVars, log, history>>

(* Shutdown: stopping.Do runs once, and others wait until it has run.      *)
BeginShutdown(c) ==
  /\ Calls(c)
  /\ \/ /\ ~closed
        /\ closed' = TRUE
        /\ Goes(c, "closing")
     \/ /\ stop
        /\ Goes(c, "awaitDone")
        /\ UNCHANGED closed
  /\ UNCHANGED <<entry, stop, queue, dropped, runVars, log, history>>

CloseStop(c) ==
  /\ pc[c] = "closing"
  /\ stop' = TRUE
  /\ Traced(Stop)
  /\ Goes(c, "awaitDone")
  /\ UNCHANGED <<entry, calls, closed, queue, dropped, runVars, log, lost>>

(* Shutdown returns: done was closed, or its timer fired.                  *)
ShutdownReturns(c) ==
  /\ pc[c] = "awaitDone"
  /\ Goes(c, "idle")
  /\ UNCHANGED <<entry, calls, signals, queue, dropped, runVars, log, history>>

Caller(c) ==
  \/ Enqueue(c)
  \/ Accepted(c)
  \/ Refused(c)
  \/ CountDropped(c)
  \/ FlushReturns(c)
  \/ BeginShutdown(c)
  \/ CloseStop(c)
  \/ ShutdownReturns(c)

-----------------------------------------------------------------------------
(* The goroutine of run.                                                   *)

(* Both selects have this case; the first is chosen at random.             *)
Receive ==
  /\ run = "select"
  /\ queue # <<>>
  /\ current' = Head(queue)
  /\ queue' = Tail(queue)
  /\ run' = "swap"
  /\ UNCHANGED <<callerVars, signals, dropped, draining, log, history>>

(* Mutant: run looks at its queue only.                                    *)
SeeStop_Never == FALSE /\ UNCHANGED vars

SeeStop ==
  /\ run = "select"
  /\ stop /\ ~draining
  /\ draining' = TRUE
  /\ UNCHANGED <<callerVars, signals, queue, dropped, run, current, log,
                 history>>

Drained ==
  /\ run = "select"
  /\ draining /\ queue = <<>>
  /\ run' = "finalSwap"
  /\ UNCHANGED <<callerVars, signals, queue, dropped, current, draining, log,
                 history>>

(* writeDropped: the counter is swapped with 0 and reported in a line, if  *)
(* that can be written.                                                    *)
writeDropped(next) ==
  /\ dropped' = 0
  /\ \/ reported' = reported + dropped /\ UNCHANGED unreported
     \/ unreported' = unreported + dropped /\ UNCHANGED reported
  /\ run' = next
  /\ UNCHANGED <<callerVars, signals, queue, current, draining, flushed,
                 written, unwritten, history>>

(* Mutant: a marker is handled without writeDropped.                       *)
Swap_RecordsOnly ==
  /\ run = "swap"
  /\ IF current.kind = "record"
       THEN writeDropped("handle")
       ELSE run' = "handle" /\ UNCHANGED <<callerVars, signals, queue,
                                           dropped, current, draining, log,
                                           history>>

Swap == run = "swap" /\ writeDropped("handle")

(* A record is written or not, a marker's channel is closed.               *)
Finishes(e) ==
  \/ /\ e.kind = "record"
     /\ \/ written' = written \cup {e} /\ UNCHANGED unwritten
        \/ unwritten' = unwritten \cup {e} /\ UNCHANGED written
     /\ UNCHANGED flushed
  \/ /\ e.kind = "flush"
     /\ flushed' = flushed \cup {e}
     /\ UNCHANGED <<written, unwritten>>

(* Mutant: once told to stop, run takes one entry more and ends.           *)
Handle_DrainsOne ==
  /\ run = "handle"
  /\ Finishes(current)
  /\ current' = NoEntry
  /\ run' = IF draining THEN "finalSwap" ELSE "select"
  /\ UNCHANGED <<callerVars, signals, queue, dropped, draining, reported,
                 unreported, history>>

Handle ==
  /\ run = "handle"
  /\ Finishes(current)
  /\ current' = NoEntry
  /\ run' = "select"
  /\ UNCHANGED <<callerVars, signals, queue, dropped, draining, reported,
                 unreported, history>>

(* The last counts are reported, the file is closed, and done.             *)
Finish == run = "finalSwap" /\ writeDropped("done")

Run == Receive \/ SeeStop \/ Drained \/ Swap \/ Handle \/ Finish

Next ==
  \/ \E c \in Callers : Caller(c)
  \/ Run

Spec == Init /\ [][Next]_vars

(* The goroutine of run is scheduled, and so is a Shutdown under way.      *)
FairSpec ==
  /\ Spec
  /\ WF_vars(Run)
  /\ \A c \in Callers : WF_vars(CloseStop(c))

-----------------------------------------------------------------------------
(* The entries run is done with.  A record whose Write failed is lost for  *)
(* good, and nobody is told.                                               *)
Settled == written \cup unwritten \cup flushed

(* What it took off the counter, whether or not a line could be written.   *)
Announced == reported + unreported

(* Everything in the queue before position i was handled, and every entry  *)
(* that was refused and counted before it was taken off the counter.       *)
SettledBefore(i) ==
  /\ \A j \in 1 .. i - 1 : trace[j].event # Stop => trace[j].event \in Settled
  /\ Announced >= trace[i].lost

(* A Flush that answers true answers for the other callers too: whatever   *)
(* any of them had queued before it was handed to the writer, and so was   *)
(* the count of the calls refused before it, of those that had returned.   *)
FlushCoversAll ==
  \A i \in DOMAIN trace : trace[i].event \in flushed => SettledBefore(i)

(* When Shutdown answers true, what was queued before the stop was handed  *)
(* to the writer, however much that was, and so was the count of the calls *)
(* refused and returned before it.  What a call does that was under way    *)
(* when stop was closed, its entry or its being counted, may be missing.   *)
ShutdownDrains ==
  \A i \in DOMAIN trace :
    run = "done" /\ trace[i].event = Stop => SettledBefore(i)

(* A handler that was told to stop ends, with calls of others under way.   *)
ShutdownEnds == closed ~> run = "done"
=============================================================================
