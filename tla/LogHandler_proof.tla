-------------------------- MODULE LogHandler_proof ---------------------------
(***************************************************************************)
(* What TLAPS proves of LogHandler, for every set of callers, every size   *)
(* of the queue and every number of calls.                                 *)
(***************************************************************************)
EXTENDS LogHandler, SequenceTheorems, TLAPS

(* The variables that are not Boolean, and then those that are.            *)
Events == Entries \cup {Stop}

Types ==
  /\ pc \in [Callers -> CallerStates]
  /\ entry \in [Callers -> Entries \cup {NoEntry}]
  /\ calls \in [Callers -> 0 .. MaxCalls]
  /\ queue \in Seq(Entries)
  /\ Len(queue) <= QueueSize
  /\ dropped \in Nat
  /\ reported \in Nat
  /\ unreported \in Nat
  /\ lost \in Nat
  /\ run \in RunStates
  /\ current \in Entries \cup {NoEntry}
  /\ flushed \subseteq Entries
  /\ written \subseteq Entries
  /\ unwritten \subseteq Entries
  /\ trace \in Seq([event : Events, lost : Nat])

Booleans == closed \in BOOLEAN /\ stop \in BOOLEAN /\ draining \in BOOLEAN

(* run has an entry in hand while it handles it, and drains after a stop.  *)
Control ==
  /\ run \in {"swap", "handle"} <=> current # NoEntry
  /\ draining => stop
  /\ run \in {"finalSwap", "done"} => draining

(* One call of Shutdown closes stop.                                       *)
Stopping ==
  /\ stop => closed
  /\ \A c \in Callers : pc[c] = "closing" => closed /\ ~stop
  /\ \A c, d \in Callers : pc[c] = "closing" /\ pc[d] = "closing" => c = d
  /\ \A i \in DOMAIN trace : trace[i].event = Stop => stop

(* The entries callers have offered so far: those of their calls before,   *)
(* and of the last one unless it is still to be offered.                   *)
Offered ==
  {e \in Entries : \/ e.n < calls[e.by]
                   \/ e.n = calls[e.by] /\ pc[e.by] # "offer"}

(* What is about to be offered is new.                                     *)
Fresh ==
  /\ \A c \in Callers : pc[c] = "offer" =>
       entry[c] \in Entries /\ entry[c].by = c /\ entry[c].n = calls[c]
  /\ Settled \subseteq Offered
  /\ current \in Offered \cup {NoEntry}
  /\ \A i \in DOMAIN queue : queue[i] \in Offered
  /\ \A i \in DOMAIN trace : trace[i].event \in Offered \cup {Stop}

Distinct ==
  \A i, j \in DOMAIN trace : trace[i].event = trace[j].event => i = j

(* Where the entries of the trace are by now.                              *)
Handled == {i \in DOMAIN trace : trace[i].event \in Settled}
InHand  == {i \in DOMAIN trace : trace[i].event = current}
Waiting == {i \in DOMAIN trace :
              \E k \in DOMAIN queue : queue[k] = trace[i].event}
Stops   == {i \in DOMAIN trace : trace[i].event = Stop}

Accounted == DOMAIN trace \subseteq Handled \cup InHand \cup Waiting \cup Stops

(* The queue is in order of the trace, what run has in hand comes before   *)
(* it, and what run has handled before that.                               *)
Ordered ==
  /\ \A i \in Handled, j \in InHand \cup Waiting : i < j
  /\ \A i \in InHand, j \in Waiting : i < j
  /\ \A k, l \in DOMAIN queue : k < l =>
       \A i, j \in DOMAIN trace :
         trace[i].event = queue[k] /\ trace[j].event = queue[l] => i < j

(* Every entry that was refused is counted, or was reported, and what run  *)
(* handles it handles after the report.                                    *)
Counted ==
  /\ Announced + dropped = lost
  /\ \A i \in DOMAIN trace : trace[i].lost <= lost
  /\ run = "handle" => \A i \in InHand : trace[i].lost <= Announced
  /\ \A i \in DOMAIN trace :
       trace[i].event \in flushed => trace[i].lost <= Announced
  /\ run = "done" => \A i \in Stops : trace[i].lost <= Announced

(* Once run has left its loop all that came before the stop is handled.    *)
Drains ==
  run \in {"finalSwap", "done"} =>
    \A i \in Stops, j \in DOMAIN trace : j < i => j \in Handled

IInv ==
  /\ Types /\ Booleans /\ Control /\ Stopping
  /\ Fresh /\ Distinct /\ Accounted /\ Ordered /\ Counted /\ Drains

USE LogQueueAssumption, MaxCallsAssumption DEF Settled, Announced

-----------------------------------------------------------------------------
(* Sequences of this model.                                                *)

(* What goes into the trace goes to its end, with the count of its time.   *)
LEMMA TracedProperties ==
  ASSUME Types, NEW event \in Events, Traced(event)
  PROVE  /\ trace' \in Seq([event : Events, lost : Nat])
         /\ DOMAIN trace = 1 .. Len(trace) /\ Len(trace) \in Nat
         /\ DOMAIN trace' = 1 .. Len(trace) + 1
         /\ \A i \in DOMAIN trace : trace'[i] = trace[i]
         /\ trace'[Len(trace) + 1].event = event
         /\ trace'[Len(trace) + 1].lost = lost
<1> DEFINE item == [event |-> event, lost |-> lost]
<1>1. /\ item \in [event : Events, lost : Nat]
      /\ item.event = event /\ item.lost = lost
  BY DEF Types
<1>2. /\ trace \in Seq([event : Events, lost : Nat])
      /\ trace' = Append(trace, item)
  BY DEF Types, Traced
<1> HIDE DEF item
<1> QED BY <1>1, <1>2, AppendProperties, LenProperties

(* An element of the trace is an entry or the stop.                        *)
LEMMA TraceTypes ==
  ASSUME Types, NEW i \in DOMAIN trace
  PROVE  trace[i].event \in Entries \cup {Stop} /\ trace[i].lost \in Nat
<1>1. trace[i] \in [event : Events, lost : Nat]
  BY ElementOfSeq, LenProperties DEF Types
<1> QED BY <1>1 DEF Events

(* The marks are no entries.                                               *)
LEMMA Marks ==
  /\ NoEntry \notin Entries /\ Stop \notin Entries /\ NoEntry # Stop
<1>1. \A e \in Entries : e.kind \in {"record", "flush"}
  BY DEF Entries
<1>2. NoEntry.kind = "none" /\ Stop.kind = "stop"
  BY DEF NoEntry, Stop
<1> QED BY <1>1, <1>2
-----------------------------------------------------------------------------
(* The steps.                                                              *)

(* Every step keeps the Boolean variables Boolean.                         *)
LEMMA BooleansStep == IInv /\ [Next]_vars => Booleans'
<1> SUFFICES ASSUME Booleans, [Next]_vars PROVE Booleans'
  BY DEF IInv
<1> USE DEF Booleans, callerVars, signals, runVars, log, history
<1>1. ASSUME NEW c \in Callers, Caller(c) PROVE Booleans'
  <2>1. CASE Enqueue(c)
    BY <2>1 DEF Enqueue, Calls, Goes
  <2>2. CASE Accepted(c)
    BY <2>2 DEF Accepted, AfterSend, Goes, Traced
  <2>3. CASE Refused(c)
    BY <2>3 DEF Refused, Goes
  <2>4. CASE FlushReturns(c)
    BY <2>4 DEF FlushReturns, Goes
  <2>5. CASE BeginShutdown(c)
    BY <2>5 DEF BeginShutdown, Calls, Goes
  <2>6. CASE CloseStop(c)
    BY <2>6 DEF CloseStop, Goes, Traced
  <2>7. CASE ShutdownReturns(c)
    BY <2>7 DEF ShutdownReturns, Goes
  <2>8. CASE CountDropped(c)
    BY <2>8 DEF CountDropped, Goes
  <2> QED BY <1>1, <2>1, <2>2, <2>3, <2>4, <2>5, <2>6, <2>7, <2>8
         DEF Caller
<1>2. CASE Run
  <2>1. CASE Receive
    BY <2>1 DEF Receive
  <2>2. CASE SeeStop
    BY <2>2 DEF SeeStop
  <2>3. CASE Drained
    BY <2>3 DEF Drained
  <2>4. CASE Swap
    BY <2>4 DEF Swap, writeDropped
  <2>5. CASE Handle
    BY <2>5 DEF Handle, Finishes
  <2>6. CASE Finish
    BY <2>6 DEF Finish, writeDropped
  <2> QED BY <1>2, <2>1, <2>2, <2>3, <2>4, <2>5, <2>6 DEF Run
<1>3. CASE UNCHANGED vars
  BY <1>3 DEF vars
<1> QED BY <1>1, <1>2, <1>3 DEF Next

(* A call counts itself.                                                   *)
LEMMA CallsTypes ==
  ASSUME Types, NEW c \in Callers, Calls(c)
  PROVE  /\ calls' \in [Callers -> 0 .. MaxCalls]
         /\ calls'[c] = calls[c] + 1 /\ calls'[c] \in 1 .. MaxCalls
         /\ \A d \in Callers \ {c} : calls'[d] = calls[d]
BY DEF Types, Calls

(* Every step keeps the types.                                             *)
LEMMA TypesStep == IInv /\ [Next]_vars => Types'
<1> SUFFICES ASSUME Types, Control, Fresh, [Next]_vars PROVE Types'
  BY DEF IInv
<1> USE Marks DEF Types, Control, CallerStates, RunStates,
        callerVars, signals, runVars, log, history
<1>1. ASSUME NEW c \in Callers, Caller(c) PROVE Types'
  <2>1. CASE Enqueue(c)
    <3>1. calls' \in [Callers -> 0 .. MaxCalls] /\ calls'[c] \in 1 .. MaxCalls
      BY <2>1, CallsTypes DEF Enqueue
    <3>2. entry' \in [Callers -> Entries \cup {NoEntry}]
      <4>1. CASE closed
        BY <2>1, <4>1 DEF Enqueue
      <4>2. ASSUME NEW kind \in {"record", "flush"},
                   entry' = [entry EXCEPT ![c] =
                               [kind |-> kind, by |-> c, n |-> calls'[c]]]
            PROVE  entry' \in [Callers -> Entries \cup {NoEntry}]
        <5>1. [kind |-> kind, by |-> c, n |-> calls'[c]] \in Entries
          BY <3>1 DEF Entries
        <5> QED BY <5>1, <4>2
      <4> QED BY <2>1, <4>1, <4>2 DEF Enqueue
    <3>3. pc' \in [Callers -> CallerStates]
      BY <2>1 DEF Enqueue, Goes
    <3> QED BY <2>1, <3>1, <3>2, <3>3 DEF Enqueue
  <2>2. CASE Accepted(c)
    <3>1. entry[c] \in Entries
      BY <2>2 DEF Accepted, Fresh
    <3>2. trace' \in Seq([event : Events, lost : Nat])
      BY <2>2, <3>1, TracedProperties DEF Accepted, Events
    <3>3. queue' \in Seq(Entries) /\ Len(queue') <= QueueSize
      BY <2>2, <3>1, AppendProperties, LenProperties DEF Accepted
    <3>4. pc' \in [Callers -> CallerStates]
      BY <2>2 DEF Accepted, AfterSend, Goes
    <3> QED BY <2>2, <3>2, <3>3, <3>4 DEF Accepted
  <2>3. CASE Refused(c)
    BY <2>3 DEF Refused, Goes
  <2>4. CASE FlushReturns(c)
    BY <2>4 DEF FlushReturns, Goes
  <2>5. CASE BeginShutdown(c)
    <3>1. calls' \in [Callers -> 0 .. MaxCalls]
      BY <2>5, CallsTypes DEF BeginShutdown
    <3>2. pc' \in [Callers -> CallerStates]
      BY <2>5 DEF BeginShutdown, Goes
    <3> QED BY <2>5, <3>1, <3>2 DEF BeginShutdown
  <2>6. CASE CloseStop(c)
    <3>1. trace' \in Seq([event : Events, lost : Nat])
      BY <2>6, TracedProperties DEF CloseStop, Events
    <3>2. pc' \in [Callers -> CallerStates]
      BY <2>6 DEF CloseStop, Goes
    <3> QED BY <2>6, <3>1, <3>2 DEF CloseStop
  <2>7. CASE ShutdownReturns(c)
    BY <2>7 DEF ShutdownReturns, Goes
  <2>8. CASE CountDropped(c)
    BY <2>8 DEF CountDropped, Goes
  <2> QED BY <1>1, <2>1, <2>2, <2>3, <2>4, <2>5, <2>6, <2>7, <2>8
         DEF Caller
<1>2. CASE Run
  <2>1. CASE Receive
    BY <2>1 DEF Receive
  <2>2. CASE SeeStop
    BY <2>2 DEF SeeStop
  <2>3. CASE Drained
    BY <2>3 DEF Drained
  <2>4. CASE Swap
    BY <2>4 DEF Swap, writeDropped
  <2>5. CASE Handle
    BY <2>5 DEF Handle, Finishes
  <2>6. CASE Finish
    BY <2>6 DEF Finish, writeDropped
  <2> QED BY <1>2, <2>1, <2>2, <2>3, <2>4, <2>5, <2>6 DEF Run
<1>3. CASE UNCHANGED vars
  BY <1>3 DEF vars
<1> QED BY <1>1, <1>2, <1>3 DEF Next

(* run has an entry exactly while it handles one.                          *)
LEMMA ControlStep == IInv /\ [Next]_vars => Control'
<1> SUFFICES ASSUME Types, Booleans, Control, [Next]_vars PROVE Control'
  BY DEF IInv
<1> USE Marks DEF Types, Control, RunStates,
        callerVars, signals, runVars, log, history
<1>1. ASSUME NEW c \in Callers, Caller(c) PROVE Control'
  <2>1. CASE Enqueue(c)
    BY <2>1 DEF Enqueue, Calls, Goes
  <2>2. CASE Accepted(c)
    BY <2>2 DEF Accepted, AfterSend, Goes, Traced
  <2>3. CASE Refused(c)
    BY <2>3 DEF Refused, Goes
  <2>4. CASE FlushReturns(c)
    BY <2>4 DEF FlushReturns, Goes
  <2>5. CASE BeginShutdown(c)
    BY <2>5 DEF BeginShutdown, Calls, Goes
  <2>6. CASE CloseStop(c)
    BY <2>6 DEF CloseStop, Goes, Traced
  <2>7. CASE ShutdownReturns(c)
    BY <2>7 DEF ShutdownReturns, Goes
  <2>8. CASE CountDropped(c)
    BY <2>8 DEF CountDropped, Goes
  <2> QED BY <1>1, <2>1, <2>2, <2>3, <2>4, <2>5, <2>6, <2>7, <2>8
         DEF Caller
<1>2. CASE Run
  <2>1. CASE Receive
    BY <2>1 DEF Receive
  <2>2. CASE SeeStop
    BY <2>2 DEF SeeStop
  <2>3. CASE Drained
    BY <2>3 DEF Drained
  <2>4. CASE Swap
    BY <2>4 DEF Swap, writeDropped
  <2>5. CASE Handle
    BY <2>5 DEF Handle, Finishes
  <2>6. CASE Finish
    BY <2>6 DEF Finish, writeDropped
  <2> QED BY <1>2, <2>1, <2>2, <2>3, <2>4, <2>5, <2>6 DEF Run
<1>3. CASE UNCHANGED vars
  BY <1>3 DEF vars
<1> QED BY <1>1, <1>2, <1>3 DEF Next

(* Only the Shutdown that set closed gets to close stop.                   *)
LEMMA StoppingStep == IInv /\ [Next]_vars => Stopping'
<1> SUFFICES ASSUME Types, Booleans, Stopping, Fresh, [Next]_vars
             PROVE  Stopping'
  BY DEF IInv
<1> USE Marks DEF Types, Booleans, Stopping,
        callerVars, signals, runVars, log, history
<1>1. ASSUME NEW c \in Callers, Caller(c) PROVE Stopping'
  <2>1. CASE Enqueue(c)
    BY <2>1 DEF Enqueue, Calls, Goes
  <2>2. CASE Accepted(c)
    <3>1. entry[c] \in Entries /\ entry[c] # Stop
      BY <2>2 DEF Accepted, Fresh
    <3>2. \A i \in DOMAIN trace' : trace'[i].event = Stop => stop
      <4>1. entry[c] \in Events /\ Traced(entry[c])
        BY <2>2, <3>1 DEF Accepted, Events
      <4>2. /\ DOMAIN trace = 1 .. Len(trace)
            /\ DOMAIN trace' = 1 .. Len(trace) + 1
            /\ \A i \in DOMAIN trace : trace'[i] = trace[i]
            /\ trace'[Len(trace) + 1].event = entry[c]
            /\ Len(trace) \in Nat
        BY <4>1, TracedProperties
      <4> QED BY <3>1, <4>2
    <3>3. \A d \in Callers : pc'[d] = "closing" => pc[d] = "closing"
      BY <2>2 DEF Accepted, AfterSend, Goes
    <3> QED BY <2>2, <3>2, <3>3 DEF Accepted
  <2>3. CASE Refused(c)
    BY <2>3 DEF Refused, Goes
  <2>4. CASE FlushReturns(c)
    BY <2>4 DEF FlushReturns, Goes
  <2>5. CASE BeginShutdown(c)
    BY <2>5 DEF BeginShutdown, Calls, Goes
  <2>6. CASE CloseStop(c)
    <3>1. stop' /\ closed'
      BY <2>6 DEF CloseStop
    <3>2. \A d \in Callers : pc'[d] # "closing"
      BY <2>6 DEF CloseStop, Goes
    <3> QED BY <3>1, <3>2
  <2>7. CASE ShutdownReturns(c)
    BY <2>7 DEF ShutdownReturns, Goes
  <2>8. CASE CountDropped(c)
    BY <2>8 DEF CountDropped, Goes
  <2> QED BY <1>1, <2>1, <2>2, <2>3, <2>4, <2>5, <2>6, <2>7, <2>8
         DEF Caller
<1>2. CASE Run
  <2>1. CASE Receive
    BY <2>1 DEF Receive
  <2>2. CASE SeeStop
    BY <2>2 DEF SeeStop
  <2>3. CASE Drained
    BY <2>3 DEF Drained
  <2>4. CASE Swap
    BY <2>4 DEF Swap, writeDropped
  <2>5. CASE Handle
    BY <2>5 DEF Handle, Finishes
  <2>6. CASE Finish
    BY <2>6 DEF Finish, writeDropped
  <2> QED BY <1>2, <2>1, <2>2, <2>3, <2>4, <2>5, <2>6 DEF Run
<1>3. CASE UNCHANGED vars
  BY <1>3 DEF vars
<1> QED BY <1>1, <1>2, <1>3 DEF Next

(* An entry offered once stays so, unless its caller offers a new one.     *)
LEMMA OfferedStays ==
  ASSUME Types, NEW c \in Callers,
         \/ Calls(c)
         \/ UNCHANGED calls /\ pc'[c] # "offer",
         \A d \in Callers \ {c} : pc'[d] = pc[d]
  PROVE  Offered \subseteq Offered'
<1> SUFFICES ASSUME NEW e \in Offered PROVE e \in Offered'
  OBVIOUS
<1>1. e \in Entries /\ e.by \in Callers /\ e.n \in Nat
  BY DEF Offered, Entries
<1>2. CASE Calls(c)
  BY <1>1, <1>2, CallsTypes DEF Offered, Types, Calls
<1>3. CASE UNCHANGED calls /\ pc'[c] # "offer"
  BY <1>1, <1>3 DEF Offered
<1> QED BY <1>2, <1>3

(* Every entry offered is a new one.                                       *)
LEMMA FreshStep == IInv /\ [Next]_vars => Fresh'
<1> SUFFICES ASSUME Types, Control, Fresh, [Next]_vars PROVE Fresh'
  BY DEF IInv
<1> USE DEF callerVars, signals
<1>1. ASSUME NEW c \in Callers, Caller(c) PROVE Fresh'
  <2>1. CASE Enqueue(c)
    <3>1. Offered \subseteq Offered'
      BY <2>1, OfferedStays DEF Enqueue, Calls, Goes, Types
    <3>2. \A d \in Callers : pc'[d] = "offer" =>
            /\ entry'[d] \in Entries
            /\ entry'[d].by = d /\ entry'[d].n = calls'[d]
      <4>1. /\ calls' \in [Callers -> 0 .. MaxCalls]
            /\ calls'[c] \in 1 .. MaxCalls
            /\ \A d \in Callers \ {c} : calls'[d] = calls[d]
        BY <2>1, CallsTypes DEF Enqueue
      <4>2. CASE closed
        BY <2>1, <4>1, <4>2 DEF Enqueue, Calls, Fresh, Types
      <4>3. ASSUME NEW kind \in {"record", "flush"}, Goes(c, "offer"),
                   entry' = [entry EXCEPT ![c] =
                               [kind |-> kind, by |-> c, n |-> calls'[c]]]
            PROVE  \A d \in Callers : pc'[d] = "offer" =>
                     /\ entry'[d] \in Entries
                     /\ entry'[d].by = d /\ entry'[d].n = calls'[d]
        <5> DEFINE new == [kind |-> kind, by |-> c, n |-> calls'[c]]
        <5>1. new \in Entries /\ new.by = c /\ new.n = calls'[c]
          BY <4>1 DEF Entries
        <5>2. entry' = [entry EXCEPT ![c] = new]
          BY <4>3
        <5> HIDE DEF new
        <5>3. entry'[c] = new /\ \A d \in Callers \ {c} : entry'[d] = entry[d]
          BY <5>2 DEF Types
        <5>4. \A d \in Callers \ {c} : pc'[d] = pc[d]
          BY <4>3 DEF Goes, Types
        <5> QED BY <4>1, <5>1, <5>3, <5>4 DEF Fresh
      <4> QED BY <2>1, <4>2, <4>3 DEF Enqueue
    <3>3. /\ Settled' \subseteq Offered'
          /\ current' \in Offered' \cup {NoEntry}
      BY <2>1, <3>1 DEF Enqueue, Fresh, runVars, log
    <3>4. \A i \in DOMAIN queue' : queue'[i] \in Offered'
      BY <2>1, <3>1 DEF Enqueue, Fresh
    <3>5. \A i \in DOMAIN trace' : trace'[i].event \in Offered' \cup {Stop}
      BY <2>1, <3>1 DEF Enqueue, Fresh, history
    <3> QED BY <3>2, <3>3, <3>4, <3>5 DEF Fresh
  <2>2. CASE Accepted(c)
    <3>1. Offered \subseteq Offered'
      BY <2>2, OfferedStays DEF Accepted, AfterSend, Goes, Types
    <3>2. \A d \in Callers : pc'[d] = "offer" =>
            /\ entry'[d] \in Entries
            /\ entry'[d].by = d /\ entry'[d].n = calls'[d]
      BY <2>2 DEF Accepted, AfterSend, Goes, Fresh, Types
    <3>3. /\ Settled' \subseteq Offered'
          /\ current' \in Offered' \cup {NoEntry}
      BY <2>2, <3>1 DEF Accepted, Fresh, runVars, log
    <3>6. entry[c] \in Offered'
      <4>1. pc'[c] # "offer"
        BY <2>2 DEF Accepted, AfterSend, Goes, Types
      <4> QED BY <2>2, <4>1 DEF Accepted, Fresh, Offered
    <3>4. \A i \in DOMAIN queue' : queue'[i] \in Offered'
      <4>1. /\ DOMAIN queue = 1 .. Len(queue) /\ Len(queue) \in Nat
            /\ DOMAIN queue' = 1 .. Len(queue) + 1
            /\ \A i \in 1 .. Len(queue) : queue'[i] = queue[i]
            /\ queue'[Len(queue) + 1] = entry[c]
        BY <2>2, AppendProperties, LenProperties DEF Accepted, Types, Fresh
      <4> QED BY <3>1, <3>6, <4>1 DEF Fresh
    <3>5. \A i \in DOMAIN trace' : trace'[i].event \in Offered' \cup {Stop}
      <4>1. entry[c] \in Events /\ Traced(entry[c])
        BY <2>2, Marks DEF Accepted, Events, Fresh
      <4>2. /\ DOMAIN trace = 1 .. Len(trace)
            /\ DOMAIN trace' = 1 .. Len(trace) + 1
            /\ \A i \in DOMAIN trace : trace'[i] = trace[i]
            /\ trace'[Len(trace) + 1].event = entry[c]
            /\ Len(trace) \in Nat
        BY <4>1, TracedProperties
      <4> QED BY <3>1, <3>6, <4>2 DEF Fresh
    <3> QED BY <3>2, <3>3, <3>4, <3>5 DEF Fresh
  <2>3. CASE Refused(c)
    <3>1. Offered \subseteq Offered'
      BY <2>3, OfferedStays DEF Refused, Goes, Types
    <3>2. \A d \in Callers : pc'[d] = "offer" =>
            /\ entry'[d] \in Entries
            /\ entry'[d].by = d /\ entry'[d].n = calls'[d]
      BY <2>3 DEF Refused, Goes, Fresh, Types
    <3>3. /\ Settled' \subseteq Offered'
          /\ current' \in Offered' \cup {NoEntry}
      BY <2>3, <3>1 DEF Refused, Fresh, runVars, log
    <3>4. \A i \in DOMAIN queue' : queue'[i] \in Offered'
      BY <2>3, <3>1 DEF Refused, Fresh
    <3>5. \A i \in DOMAIN trace' : trace'[i].event \in Offered' \cup {Stop}
      BY <2>3, <3>1 DEF Refused, Fresh, history
    <3> QED BY <3>2, <3>3, <3>4, <3>5 DEF Fresh
  <2>4. CASE FlushReturns(c)
    <3>1. Offered \subseteq Offered'
      BY <2>4, OfferedStays DEF FlushReturns, Goes, Types
    <3>2. \A d \in Callers : pc'[d] = "offer" =>
            /\ entry'[d] \in Entries
            /\ entry'[d].by = d /\ entry'[d].n = calls'[d]
      BY <2>4 DEF FlushReturns, Goes, Fresh, Types
    <3>3. /\ Settled' \subseteq Offered'
          /\ current' \in Offered' \cup {NoEntry}
      BY <2>4, <3>1 DEF FlushReturns, Fresh, runVars, log
    <3>4. \A i \in DOMAIN queue' : queue'[i] \in Offered'
      BY <2>4, <3>1 DEF FlushReturns, Fresh
    <3>5. \A i \in DOMAIN trace' : trace'[i].event \in Offered' \cup {Stop}
      BY <2>4, <3>1 DEF FlushReturns, Fresh, history
    <3> QED BY <3>2, <3>3, <3>4, <3>5 DEF Fresh
  <2>5. CASE BeginShutdown(c)
    <3>1. Offered \subseteq Offered'
      BY <2>5, OfferedStays DEF BeginShutdown, Calls, Goes, Types
    <3>2. \A d \in Callers : pc'[d] = "offer" =>
            /\ entry'[d] \in Entries
            /\ entry'[d].by = d /\ entry'[d].n = calls'[d]
      BY <2>5 DEF BeginShutdown, Calls, Goes, Fresh, Types
    <3>3. /\ Settled' \subseteq Offered'
          /\ current' \in Offered' \cup {NoEntry}
      BY <2>5, <3>1 DEF BeginShutdown, Fresh, runVars, log
    <3>4. \A i \in DOMAIN queue' : queue'[i] \in Offered'
      BY <2>5, <3>1 DEF BeginShutdown, Fresh
    <3>5. \A i \in DOMAIN trace' : trace'[i].event \in Offered' \cup {Stop}
      BY <2>5, <3>1 DEF BeginShutdown, Fresh, history
    <3> QED BY <3>2, <3>3, <3>4, <3>5 DEF Fresh
  <2>6. CASE CloseStop(c)
    <3>1. Offered \subseteq Offered'
      BY <2>6, OfferedStays DEF CloseStop, Goes, Types
    <3>2. \A d \in Callers : pc'[d] = "offer" =>
            /\ entry'[d] \in Entries
            /\ entry'[d].by = d /\ entry'[d].n = calls'[d]
      BY <2>6 DEF CloseStop, Goes, Fresh, Types
    <3>3. /\ Settled' \subseteq Offered'
          /\ current' \in Offered' \cup {NoEntry}
      BY <2>6, <3>1 DEF CloseStop, Fresh, runVars, log
    <3>4. \A i \in DOMAIN queue' : queue'[i] \in Offered'
      BY <2>6, <3>1 DEF CloseStop, Fresh
    <3>5. \A i \in DOMAIN trace' : trace'[i].event \in Offered' \cup {Stop}
      <4>1. Stop \in Events /\ Traced(Stop)
        BY <2>6, Marks DEF CloseStop, Events, Fresh
      <4>2. /\ DOMAIN trace = 1 .. Len(trace)
            /\ DOMAIN trace' = 1 .. Len(trace) + 1
            /\ \A i \in DOMAIN trace : trace'[i] = trace[i]
            /\ trace'[Len(trace) + 1].event = Stop
            /\ Len(trace) \in Nat
        BY <4>1, TracedProperties
      <4> QED BY <3>1, <4>2 DEF Fresh
    <3> QED BY <3>2, <3>3, <3>4, <3>5 DEF Fresh
  <2>7. CASE ShutdownReturns(c)
    <3>1. Offered \subseteq Offered'
      BY <2>7, OfferedStays DEF ShutdownReturns, Goes, Types
    <3>2. \A d \in Callers : pc'[d] = "offer" =>
            /\ entry'[d] \in Entries
            /\ entry'[d].by = d /\ entry'[d].n = calls'[d]
      BY <2>7 DEF ShutdownReturns, Goes, Fresh, Types
    <3>3. /\ Settled' \subseteq Offered'
          /\ current' \in Offered' \cup {NoEntry}
      BY <2>7, <3>1 DEF ShutdownReturns, Fresh, runVars, log
    <3>4. \A i \in DOMAIN queue' : queue'[i] \in Offered'
      BY <2>7, <3>1 DEF ShutdownReturns, Fresh
    <3>5. \A i \in DOMAIN trace' : trace'[i].event \in Offered' \cup {Stop}
      BY <2>7, <3>1 DEF ShutdownReturns, Fresh, history
    <3> QED BY <3>2, <3>3, <3>4, <3>5 DEF Fresh
  <2>8. CASE CountDropped(c)
    <3>1. Offered \subseteq Offered'
      BY <2>8, OfferedStays DEF CountDropped, Goes, Types
    <3>2. \A d \in Callers : pc'[d] = "offer" =>
            /\ entry'[d] \in Entries
            /\ entry'[d].by = d /\ entry'[d].n = calls'[d]
      BY <2>8 DEF CountDropped, Goes, Fresh, Types
    <3>3. /\ Settled' \subseteq Offered'
          /\ current' \in Offered' \cup {NoEntry}
      BY <2>8, <3>1 DEF CountDropped, Fresh, runVars, log
    <3>4. \A i \in DOMAIN queue' : queue'[i] \in Offered'
      BY <2>8, <3>1 DEF CountDropped, Fresh
    <3>5. \A i \in DOMAIN trace' : trace'[i].event \in Offered' \cup {Stop}
      BY <2>8, <3>1 DEF CountDropped, Fresh, history
    <3> QED BY <3>2, <3>3, <3>4, <3>5 DEF Fresh
  <2> QED BY <1>1, <2>1, <2>2, <2>3, <2>4, <2>5, <2>6, <2>7, <2>8
         DEF Caller
<1>2. CASE Run
  <2>1. CASE Receive
    <3>0. Offered' = Offered
      BY <2>1 DEF Receive, Offered
    <3>1. /\ current' = queue[1] /\ 1 \in DOMAIN queue
          /\ \A i \in DOMAIN queue' :
               queue'[i] = queue[i + 1] /\ i + 1 \in DOMAIN queue
      BY <2>1, HeadTailProperties, LenProperties, EmptySeq DEF Receive, Types
    <3> QED BY <2>1, <3>0, <3>1 DEF Receive, Fresh, log, history
  <2>2. CASE SeeStop
    <3>1. Offered' = Offered
      BY <2>2 DEF SeeStop, Offered
    <3> QED BY <2>2, <3>1 DEF SeeStop, Fresh, log, history, Control
  <2>3. CASE Drained
    <3>1. Offered' = Offered
      BY <2>3 DEF Drained, Offered
    <3> QED BY <2>3, <3>1 DEF Drained, Fresh, log, history, Control
  <2>4. CASE Swap
    <3>1. Offered' = Offered
      BY <2>4 DEF Swap, writeDropped, Offered
    <3> QED BY <2>4, <3>1 DEF Swap, writeDropped, Fresh, log, history, Control
  <2>5. CASE Handle
    <3>1. Offered' = Offered
      BY <2>5 DEF Handle, Finishes, Offered
    <3> QED BY <2>5, <3>1 DEF Handle, Finishes, Fresh, log, history, Control
  <2>6. CASE Finish
    <3>1. Offered' = Offered
      BY <2>6 DEF Finish, writeDropped, Offered
    <3> QED
      BY <2>6, <3>1 DEF Finish, writeDropped, Fresh, log, history, Control
  <2> QED BY <1>2, <2>1, <2>2, <2>3, <2>4, <2>5, <2>6 DEF Run
<1>3. CASE UNCHANGED vars
  BY <1>3 DEF vars, Fresh, Offered, runVars, log, history
<1> QED BY <1>1, <1>2, <1>3 DEF Next

-----------------------------------------------------------------------------
(* The order of the queue.                                                 *)
Order == Distinct /\ Accounted /\ Ordered

(* An entry that is about to be offered is nowhere yet.                    *)
LEMMA OfferIsNew ==
  ASSUME Types, Fresh, NEW c \in Callers, pc[c] = "offer"
  PROVE  /\ entry[c] \in Entries
         /\ entry[c] \notin Settled
         /\ entry[c] # current
         /\ \A i \in DOMAIN queue : queue[i] # entry[c]
         /\ \A i \in DOMAIN trace : trace[i].event # entry[c]
<1>1. entry[c] \in Entries /\ entry[c].by = c /\ entry[c].n = calls[c]
  BY DEF Fresh
<1>2. entry[c] \notin Offered
  BY <1>1 DEF Offered, Types
<1> QED BY <1>1, <1>2, Marks DEF Fresh

(* An entry goes to the end of the queue and of the trace.                 *)
LEMMA AcceptedOrder ==
  ASSUME Types, Fresh, Order, NEW c \in Callers, Accepted(c)
  PROVE  Order'
<1> DEFINE N == Len(trace)
           Q == Len(queue)
           x == entry[c]
<1>1. /\ x \in Entries
      /\ x \notin Settled
      /\ x # current
      /\ \A i \in DOMAIN queue : queue[i] # x
      /\ \A i \in DOMAIN trace : trace[i].event # x
  BY OfferIsNew DEF Accepted
<1>2. /\ N \in Nat /\ DOMAIN trace = 1 .. N /\ DOMAIN trace' = 1 .. N + 1
      /\ \A i \in 1 .. N : trace'[i] = trace[i]
      /\ trace'[N + 1].event = x
  BY <1>1, TracedProperties DEF Accepted, Events
<1>3. /\ Q \in Nat /\ DOMAIN queue = 1 .. Q /\ DOMAIN queue' = 1 .. Q + 1
      /\ \A i \in 1 .. Q : queue'[i] = queue[i]
      /\ queue'[Q + 1] = x
  BY <1>1, AppendProperties, LenProperties DEF Accepted, Types
<1>4. UNCHANGED <<Settled, current>>
  BY DEF Accepted, runVars, log
<1> HIDE DEF N, Q, x
<1>5. Distinct'
  BY <1>1, <1>2 DEF Order, Distinct
<1>6. Handled' = Handled /\ InHand' = InHand
  BY <1>1, <1>2, <1>4 DEF Handled, InHand
<1>7. Waiting' = Waiting \cup {N + 1}
  <2>1. ASSUME NEW i \in 1 .. N PROVE i \in Waiting' <=> i \in Waiting
    BY <1>1, <1>2, <1>3 DEF Waiting
  <2>2. N + 1 \in Waiting'
    BY <1>2, <1>3 DEF Waiting
  <2>3. Waiting' \subseteq 1 .. N + 1 /\ Waiting \subseteq 1 .. N
    BY <1>2 DEF Waiting
  <2>4. 1 .. N + 1 = (1 .. N) \cup {N + 1}
    BY <1>2
  <2> QED BY <2>1, <2>2, <2>3, <2>4
<1>8. Stops \subseteq Stops'
  BY <1>2 DEF Stops
<1>9. Accounted'
  BY <1>2, <1>6, <1>7, <1>8 DEF Order, Accounted
<1>10. Ordered'
  <2>1. Handled \subseteq 1 .. N /\ InHand \subseteq 1 .. N
    BY <1>2 DEF Handled, InHand
  <2>2. \A i \in Handled', j \in InHand' \cup Waiting' : i < j
    BY <1>2, <1>6, <1>7, <2>1 DEF Order, Ordered
  <2>3. \A i \in InHand', j \in Waiting' : i < j
    BY <1>2, <1>6, <1>7, <2>1 DEF Order, Ordered
  <2>4. ASSUME NEW k \in DOMAIN queue', NEW l \in DOMAIN queue', k < l,
               NEW i \in DOMAIN trace', NEW j \in DOMAIN trace',
               trace'[i].event = queue'[k], trace'[j].event = queue'[l]
        PROVE  i < j
    <3>1. k \in 1 .. Q /\ queue'[k] = queue[k] /\ queue[k] # x
      BY <1>1, <1>3, <2>4
    <3>2. i \in 1 .. N /\ trace[i].event = queue[k]
      BY <1>2, <2>4, <3>1
    <3>3. CASE j = N + 1
      BY <1>2, <3>2, <3>3
    <3>4. CASE j \in 1 .. N
      BY <1>1, <1>2, <1>3, <2>4, <3>1, <3>2, <3>4 DEF Order, Ordered
    <3> QED BY <1>2, <3>3, <3>4
  <2> QED BY <2>2, <2>3, <2>4 DEF Ordered
<1> QED BY <1>5, <1>9, <1>10 DEF Order

(* A stop is no entry.                                                     *)
LEMMA CloseStopOrder ==
  ASSUME Types, Fresh, Stopping, Order, NEW c \in Callers, CloseStop(c)
  PROVE  Order'
<1> DEFINE N == Len(trace)
<1>1. /\ N \in Nat /\ DOMAIN trace = 1 .. N /\ DOMAIN trace' = 1 .. N + 1
      /\ \A i \in 1 .. N : trace'[i] = trace[i]
      /\ trace'[N + 1].event = Stop
  BY TracedProperties DEF CloseStop, Events
<1>2. UNCHANGED <<Settled, current, queue>>
  BY DEF CloseStop, runVars, log
<1>3. /\ Stop \notin Settled /\ Stop # current
      /\ \A k \in DOMAIN queue : queue[k] # Stop
      /\ \A i \in DOMAIN trace : trace[i].event # Stop
  BY Marks DEF Types, Fresh, Offered, Stopping, CloseStop
<1> HIDE DEF N
<1>4. Distinct'
  BY <1>1, <1>3 DEF Order, Distinct
<1>5. Handled' = Handled /\ InHand' = InHand /\ Waiting' = Waiting
  BY <1>1, <1>2, <1>3 DEF Handled, InHand, Waiting
<1>6. Stops' = Stops \cup {N + 1}
  BY <1>1 DEF Stops
<1>7. Accounted'
  BY <1>1, <1>5, <1>6 DEF Order, Accounted
<1>8. Ordered'
  <2>1. ASSUME NEW k \in DOMAIN queue, NEW l \in DOMAIN queue, k < l,
               NEW i \in DOMAIN trace', NEW j \in DOMAIN trace',
               trace'[i].event = queue[k], trace'[j].event = queue[l]
        PROVE  i < j
    <3>1. i \in 1 .. N /\ j \in 1 .. N
      BY <1>1, <1>3, <2>1
    <3> QED BY <1>1, <2>1, <3>1 DEF Order, Ordered
  <2> QED BY <1>2, <1>5, <2>1 DEF Order, Ordered
<1> QED BY <1>4, <1>7, <1>8 DEF Order

(* run takes the first of the queue.                                       *)
LEMMA ReceiveOrder ==
  ASSUME Types, Control, Fresh, Order, Receive
  PROVE  Order'
<1>1. /\ current' = queue[1] /\ 1 \in DOMAIN queue
      /\ DOMAIN queue = 1 .. Len(queue) /\ DOMAIN queue' = 1 .. Len(queue) - 1
      /\ Len(queue) \in Nat
      /\ \A k \in DOMAIN queue' :
           queue'[k] = queue[k + 1] /\ k + 1 \in DOMAIN queue
  BY HeadTailProperties, LenProperties, EmptySeq DEF Receive, Types
<1>2. UNCHANGED <<trace, Settled>>
  BY DEF Receive, log, history
<1>3. InHand = {}
  <2>1. current = NoEntry
    BY DEF Control, Receive
  <2> QED BY <2>1, TraceTypes, Marks DEF InHand
<1>4. Handled' = Handled /\ Stops' = Stops
  BY <1>2 DEF Handled, Stops
<1>5. InHand' = {i \in DOMAIN trace : trace[i].event = queue[1]}
  BY <1>1, <1>2 DEF InHand
<1>6. Waiting' = {i \in DOMAIN trace :
                    \E k \in DOMAIN queue : k > 1 /\ queue[k] = trace[i].event}
  <2>1. ASSUME NEW k \in DOMAIN queue, k > 1
        PROVE  k - 1 \in DOMAIN queue' /\ queue'[k - 1] = queue[k]
    BY <1>1, <2>1
  <2>2. ASSUME NEW k \in DOMAIN queue'
        PROVE  k + 1 \in DOMAIN queue /\ k + 1 > 1 /\ queue'[k] = queue[k + 1]
    BY <1>1, <2>2
  <2> QED BY <1>2, <2>1, <2>2 DEF Waiting
<1>7. InHand' \cup Waiting' = Waiting
  BY <1>1, <1>5, <1>6 DEF Waiting
<1>8. Accounted' /\ Distinct'
  BY <1>2, <1>3, <1>4, <1>7 DEF Order, Accounted, Distinct
<1>9. Ordered'
  <2>1. \A i \in Handled', j \in InHand' \cup Waiting' : i < j
    BY <1>4, <1>7 DEF Order, Ordered
  <2>2. \A i \in InHand', j \in Waiting' : i < j
    BY <1>1, <1>5, <1>6 DEF Order, Ordered
  <2>3. ASSUME NEW k \in DOMAIN queue', NEW l \in DOMAIN queue', k < l,
               NEW i \in DOMAIN trace, NEW j \in DOMAIN trace,
               trace[i].event = queue'[k], trace[j].event = queue'[l]
        PROVE  i < j
    BY <1>1, <2>3 DEF Order, Ordered
  <2> QED BY <1>2, <2>1, <2>2, <2>3 DEF Ordered
<1> QED BY <1>8, <1>9 DEF Order

(* What run has in hand becomes handled.                                   *)
LEMMA HandleOrder ==
  ASSUME Types, Control, Fresh, Order, Handle
  PROVE  Order'
<1>1. UNCHANGED <<trace, queue>> /\ current' = NoEntry
      /\ Settled' = Settled \cup {current}
  BY DEF Handle, Finishes, history
<1>2. /\ Handled' = Handled \cup InHand
      /\ Waiting' = Waiting /\ Stops' = Stops
  BY <1>1 DEF Handled, InHand, Waiting, Stops
<1>3. InHand' = {}
  BY <1>1, TraceTypes, Marks DEF InHand
<1>4. Accounted' /\ Distinct'
  BY <1>1, <1>2, <1>3 DEF Order, Accounted, Distinct
<1>5. Ordered'
  BY <1>1, <1>2, <1>3 DEF Order, Ordered
<1> QED BY <1>4, <1>5 DEF Order

(* The other steps touch none of it.                                       *)
LEMMA QuietOrder ==
  ASSUME Order, UNCHANGED <<trace, queue, current, Settled>>
  PROVE  Order'
BY DEF Order, Distinct, Accounted, Ordered, Handled, InHand, Waiting, Stops

(* What is queued first is handled first, and nothing in between is lost.  *)
LEMMA OrderStep == IInv /\ [Next]_vars => Order'
<1> SUFFICES ASSUME Types, Control, Stopping, Fresh, Order, [Next]_vars
             PROVE  Order'
  BY DEF IInv, Order
<1>1. ASSUME NEW c \in Callers, Caller(c) PROVE Order'
  <2>1. CASE Enqueue(c)
    BY <2>1, QuietOrder DEF Enqueue, runVars, log, history
  <2>2. CASE Accepted(c)
    BY <2>2, AcceptedOrder
  <2>3. CASE Refused(c)
    BY <2>3, QuietOrder DEF Refused, runVars, log, history
  <2>4. CASE FlushReturns(c)
    BY <2>4, QuietOrder DEF FlushReturns, runVars, log, history
  <2>5. CASE BeginShutdown(c)
    BY <2>5, QuietOrder DEF BeginShutdown, runVars, log, history
  <2>6. CASE CloseStop(c)
    BY <2>6, CloseStopOrder
  <2>7. CASE ShutdownReturns(c)
    BY <2>7, QuietOrder DEF ShutdownReturns, runVars, log, history
  <2>8. CASE CountDropped(c)
    BY <2>8, QuietOrder DEF CountDropped, runVars, log, history
  <2> QED BY <1>1, <2>1, <2>2, <2>3, <2>4, <2>5, <2>6, <2>7, <2>8
         DEF Caller
<1>2. CASE Run
  <2>1. CASE Receive
    BY <2>1, ReceiveOrder
  <2>2. CASE SeeStop
    BY <2>2, QuietOrder DEF SeeStop, runVars, log, history
  <2>3. CASE Drained
    BY <2>3, QuietOrder DEF Drained, runVars, log, history
  <2>4. CASE Swap
    BY <2>4, QuietOrder DEF Swap, writeDropped, runVars, log, history
  <2>5. CASE Handle
    BY <2>5, HandleOrder
  <2>6. CASE Finish
    BY <2>6, QuietOrder DEF Finish, writeDropped, runVars, log, history
  <2> QED BY <1>2, <2>1, <2>2, <2>3, <2>4, <2>5, <2>6 DEF Run
<1>3. CASE UNCHANGED vars
  BY <1>3, QuietOrder DEF vars, runVars, log, history
<1> QED BY <1>1, <1>2, <1>3 DEF Next

-----------------------------------------------------------------------------
(* What was refused, and what the stop leaves behind.                      *)

(* What is refused is reported before what came after it is handled.       *)
LEMMA CountedStep == IInv /\ [Next]_vars => Counted'
<1> SUFFICES ASSUME Types, Booleans, Control, Stopping, Fresh, Counted,
                    [Next]_vars
             PROVE  Counted'
  BY DEF IInv
<1>1. ASSUME NEW c \in Callers, Caller(c) PROVE Counted'
  <2>1. CASE Enqueue(c)
    BY <2>1 DEF Enqueue, Counted, InHand, Stops, runVars, log, history
  <2>2. CASE Accepted(c)
    <3>1. /\ entry[c] \in Entries /\ entry[c] # Stop
          /\ entry[c] \notin flushed /\ entry[c] # current
      BY <2>2, OfferIsNew, Marks DEF Accepted
    <3>2. /\ DOMAIN trace = 1 .. Len(trace) /\ Len(trace) \in Nat
          /\ DOMAIN trace' = 1 .. Len(trace) + 1
          /\ \A i \in DOMAIN trace : trace'[i] = trace[i]
          /\ trace'[Len(trace) + 1].event = entry[c]
          /\ trace'[Len(trace) + 1].lost = lost
      BY <2>2, <3>1, TracedProperties DEF Accepted, Events
    <3>3. /\ InHand' = InHand /\ Stops' = Stops
          /\ UNCHANGED <<Announced, dropped, lost, run, flushed>>
      BY <2>2, <3>1, <3>2 DEF Accepted, InHand, Stops, runVars, log
    <3>4. lost \in Nat
      BY DEF Types
    <3> QED BY <3>1, <3>2, <3>3, <3>4 DEF Counted, InHand, Stops
  <2>3. CASE Refused(c)
    BY <2>3 DEF Refused, Counted, InHand, Stops, Announced, runVars, log,
                history
  <2>4. CASE FlushReturns(c)
    BY <2>4 DEF FlushReturns, Counted, InHand, Stops, runVars, log, history
  <2>5. CASE BeginShutdown(c)
    BY <2>5 DEF BeginShutdown, Counted, InHand, Stops, runVars, log, history
  <2>6. CASE CloseStop(c)
    <3>1. /\ Stop \notin flushed /\ Stop # current
          /\ run \notin {"finalSwap", "done"}
      BY <2>6, Marks DEF CloseStop, Types, Booleans, Control, Stopping
    <3>2. /\ DOMAIN trace = 1 .. Len(trace) /\ Len(trace) \in Nat
          /\ DOMAIN trace' = 1 .. Len(trace) + 1
          /\ \A i \in DOMAIN trace : trace'[i] = trace[i]
          /\ trace'[Len(trace) + 1].event = Stop
          /\ trace'[Len(trace) + 1].lost = lost
      BY <2>6, <3>1, TracedProperties DEF CloseStop, Events
    <3>3. /\ InHand' = InHand
          /\ UNCHANGED <<Announced, dropped, lost, run, flushed>>
      BY <2>6, <3>1, <3>2 DEF CloseStop, InHand, runVars, log
    <3>4. lost \in Nat
      BY DEF Types
    <3> QED BY <3>1, <3>2, <3>3, <3>4 DEF Counted, InHand
  <2>7. CASE ShutdownReturns(c)
    BY <2>7 DEF ShutdownReturns, Counted, InHand, Stops, runVars, log, history
  <2>8. CASE CountDropped(c)
    <3>1. /\ UNCHANGED <<trace, Announced, run, current, flushed>>
          /\ dropped' = dropped + 1 /\ lost' = lost + 1
      BY <2>8 DEF CountDropped, runVars, log
    <3>2. InHand' = InHand /\ Stops' = Stops
      BY <3>1 DEF InHand, Stops
    <3>6. lost \in Nat /\ dropped \in Nat /\ Announced \in Nat
      BY DEF Types
    <3> HIDE DEF Announced
    <3>3. /\ Announced' + dropped' = lost'
          /\ lost \in Nat /\ lost' \in Nat /\ lost <= lost'
      BY <3>1, <3>6 DEF Counted
    <3>4. \A i \in DOMAIN trace :
            trace[i].lost \in Nat /\ trace[i].lost <= lost
      BY TraceTypes DEF Counted
    <3>5. \A i \in DOMAIN trace : trace[i].lost <= lost'
      BY <3>3, <3>4
    <3> QED BY <3>1, <3>2, <3>3, <3>5 DEF Counted
  <2> QED BY <1>1, <2>1, <2>2, <2>3, <2>4, <2>5, <2>6, <2>7, <2>8
         DEF Caller
<1>2. CASE Run
  <2>1. CASE Receive
    <3>1. /\ UNCHANGED <<trace, Announced, dropped, lost, flushed>>
          /\ run' \in {"select", "swap", "finalSwap"}
      BY <2>1 DEF Receive, log, history
    <3> QED BY <3>1 DEF Counted
  <2>2. CASE SeeStop
    <3>1. /\ UNCHANGED <<trace, Announced, dropped, lost, flushed>>
          /\ run' \in {"select", "swap", "finalSwap"}
      BY <2>2 DEF SeeStop, log, history
    <3> QED BY <3>1 DEF Counted
  <2>3. CASE Drained
    <3>1. /\ UNCHANGED <<trace, Announced, dropped, lost, flushed>>
          /\ run' \in {"select", "swap", "finalSwap"}
      BY <2>3 DEF Drained, log, history
    <3> QED BY <3>1 DEF Counted
  <2>4. CASE Swap
    <3>0. reported \in Nat /\ unreported \in Nat /\ dropped \in Nat
      BY DEF Types
    <3>1. /\ UNCHANGED <<trace, lost, flushed>> /\ run' = "handle"
          /\ dropped' = 0 /\ Announced' = Announced + dropped
      <4>1. /\ UNCHANGED <<trace, lost, flushed>> /\ run' = "handle"
            /\ dropped' = 0
            /\ \/ reported' = reported + dropped /\ UNCHANGED unreported
               \/ unreported' = unreported + dropped /\ UNCHANGED reported
        BY <2>4 DEF Swap, writeDropped, history
      <4> QED BY <3>0, <4>1
    <3>2. Announced' = lost
      BY <3>1 DEF Counted, Types
    <3>3. /\ DOMAIN trace' = DOMAIN trace
          /\ InHand' \subseteq DOMAIN trace
          /\ Stops' \subseteq DOMAIN trace
      BY <3>1 DEF InHand, Stops
    <3>4. lost \in Nat
      BY DEF Types
    <3> HIDE DEF Announced
    <3> QED BY <3>1, <3>2, <3>3, <3>4 DEF Counted
  <2>5. CASE Handle
    <3>1. /\ UNCHANGED <<trace, Announced, dropped, lost>> /\ run' = "select"
          /\ run = "handle"
          /\ flushed' \subseteq flushed \cup {current}
      BY <2>5 DEF Handle, Finishes, history
    <3> QED BY <3>1 DEF Counted, InHand
  <2>6. CASE Finish
    <3>0. reported \in Nat /\ unreported \in Nat /\ dropped \in Nat
      BY DEF Types
    <3>1. /\ UNCHANGED <<trace, lost, flushed>> /\ run' = "done"
          /\ dropped' = 0 /\ Announced' = Announced + dropped
      <4>1. /\ UNCHANGED <<trace, lost, flushed>> /\ run' = "done"
            /\ dropped' = 0
            /\ \/ reported' = reported + dropped /\ UNCHANGED unreported
               \/ unreported' = unreported + dropped /\ UNCHANGED reported
        BY <2>6 DEF Finish, writeDropped, history
      <4> QED BY <3>0, <4>1
    <3>2. Announced' = lost
      BY <3>1 DEF Counted, Types
    <3>7. lost \in Nat
      BY DEF Types
    <3> HIDE DEF Announced
    <3>3. Announced' + dropped' = lost'
      BY <3>1, <3>2, <3>7
    <3>4. \A i \in DOMAIN trace' : trace'[i].lost <= lost'
      BY <3>1 DEF Counted
    <3>5. \A i \in DOMAIN trace' : trace'[i].lost <= Announced'
      BY <3>1, <3>2 DEF Counted
    <3>6. Stops' \subseteq DOMAIN trace'
      BY DEF Stops
    <3> QED BY <3>1, <3>3, <3>4, <3>5, <3>6 DEF Counted
  <2> QED BY <1>2, <2>1, <2>2, <2>3, <2>4, <2>5, <2>6 DEF Run
<1>3. CASE UNCHANGED vars
  BY <1>3 DEF vars, Counted, InHand, Stops, runVars, log, history
<1> QED BY <1>1, <1>2, <1>3 DEF Next

(* run leaves its loop only when the queue is empty.                       *)
LEMMA DrainsStep == IInv /\ [Next]_vars => Drains'
<1> SUFFICES ASSUME Types, Booleans, Control, Stopping, Fresh, Order, Drains,
                    [Next]_vars
             PROVE  Drains'
  BY DEF IInv, Order
<1>1. ASSUME NEW c \in Callers, Caller(c) PROVE Drains'
  <2>1. CASE Enqueue(c)
    BY <2>1 DEF Enqueue, Drains, Handled, Stops, runVars, log, history
  <2>2. CASE Accepted(c)
    <3>1. /\ entry[c] \in Entries /\ entry[c] # Stop
          /\ entry[c] \notin flushed /\ entry[c] # current
      BY <2>2, OfferIsNew, Marks DEF Accepted
    <3>2. /\ DOMAIN trace = 1 .. Len(trace) /\ Len(trace) \in Nat
          /\ DOMAIN trace' = 1 .. Len(trace) + 1
          /\ \A i \in DOMAIN trace : trace'[i] = trace[i]
          /\ trace'[Len(trace) + 1].event = entry[c]
          /\ trace'[Len(trace) + 1].lost = lost
      BY <2>2, <3>1, TracedProperties DEF Accepted, Events
    <3>3. UNCHANGED <<run, Settled>>
      BY <2>2 DEF Accepted, runVars, log
    <3> QED BY <3>1, <3>2, <3>3 DEF Drains, Stops, Handled
  <2>3. CASE Refused(c)
    BY <2>3 DEF Refused, Drains, Handled, Stops, runVars, log, history
  <2>4. CASE FlushReturns(c)
    BY <2>4 DEF FlushReturns, Drains, Handled, Stops, runVars, log, history
  <2>5. CASE BeginShutdown(c)
    BY <2>5 DEF BeginShutdown, Drains, Handled, Stops, runVars, log, history
  <2>6. CASE CloseStop(c)
    <3>1. run \notin {"finalSwap", "done"}
      BY <2>6 DEF CloseStop, Booleans, Control, Stopping
    <3>2. UNCHANGED run
      BY <2>6 DEF CloseStop, runVars
    <3> QED BY <3>1, <3>2 DEF Drains
  <2>7. CASE ShutdownReturns(c)
    BY <2>7 DEF ShutdownReturns, Drains, Handled, Stops, runVars, log, history
  <2>8. CASE CountDropped(c)
    BY <2>8 DEF CountDropped, Drains, Handled, Stops, runVars, log, history
  <2> QED BY <1>1, <2>1, <2>2, <2>3, <2>4, <2>5, <2>6, <2>7, <2>8
         DEF Caller
<1>2. CASE Run
  <2>1. CASE Receive
    BY <2>1 DEF Receive, Drains
  <2>2. CASE SeeStop
    BY <2>2 DEF SeeStop, Drains
  <2>3. CASE Drained
    <3>1. current = NoEntry /\ queue = <<>>
      BY <2>3 DEF Drained, Control
    <3>2. InHand = {} /\ Waiting = {}
      BY <3>1, TraceTypes, Marks DEF InHand, Waiting
    <3>3. Handled' = Handled /\ Stops' = Stops /\ UNCHANGED trace
      BY <2>3 DEF Drained, Handled, Stops, log, history
    <3>4. DOMAIN trace \subseteq Handled \cup Stops
      BY <3>2 DEF Order, Accounted
    <3>5. \A i, j \in Stops : i = j
      BY DEF Order, Distinct, Stops
    <3>6. \A i \in Stops : i \in Nat
      BY LenProperties DEF Types, Stops
    <3> QED BY <3>3, <3>4, <3>5, <3>6 DEF Drains
  <2>4. CASE Swap
    BY <2>4 DEF Swap, writeDropped, Drains
  <2>5. CASE Handle
    BY <2>5 DEF Handle, Finishes, Drains
  <2>6. CASE Finish
    <3>1. run = "finalSwap" /\ UNCHANGED <<trace, Settled>>
      BY <2>6 DEF Finish, writeDropped, history
    <3> QED BY <3>1 DEF Drains, Stops, Handled
  <2> QED BY <1>2, <2>1, <2>2, <2>3, <2>4, <2>5, <2>6 DEF Run
<1>3. CASE UNCHANGED vars
  BY <1>3 DEF vars, Drains, Handled, Stops, runVars, log, history
<1> QED BY <1>1, <1>2, <1>3 DEF Next

-----------------------------------------------------------------------------
(* The inductive invariant holds in every state of the handler.            *)
THEOREM InvariantHolds == Spec => []IInv
<1>1. Init => IInv
  <2> SUFFICES ASSUME Init PROVE IInv
    OBVIOUS
  <2>1. Types
    BY EmptySeq DEF Init, Types, CallerStates, RunStates
  <2>2. Booleans /\ Control
    BY DEF Init, Booleans, Control
  <2>3. DOMAIN trace = {} /\ DOMAIN queue = {}
    BY DEF Init
  <2>4. Stopping /\ Fresh
    BY <2>3 DEF Init, Stopping, Fresh
  <2>5. Distinct /\ Accounted /\ Ordered
    BY <2>3 DEF Distinct, Accounted, Ordered, Handled, InHand, Waiting
  <2>6. Counted /\ Drains
    BY <2>3 DEF Init, Counted, Drains, InHand, Stops
  <2> QED BY <2>1, <2>2, <2>4, <2>5, <2>6 DEF IInv
<1>2. IInv /\ [Next]_vars => IInv'
  BY TypesStep, BooleansStep, ControlStep, StoppingStep, FreshStep, OrderStep,
     CountedStep, DrainsStep DEF IInv, Order
<1> QED BY <1>1, <1>2, PTL DEF Spec

(* Every variable stays within its type.                                   *)
THEOREM TypeCorrect == Spec => []TypeOK
<1>1. IInv => TypeOK
  <2> SUFFICES ASSUME IInv PROVE TypeOK
    OBVIOUS
  <2>1. Types /\ Booleans
    BY DEF IInv
  <2> QED BY <2>1 DEF Types, Booleans, Events, TypeOK
<1> QED BY <1>1, InvariantHolds, PTL

(* What precedes an entry in the trace is handled when it is.              *)
LEMMA HandledInOrder ==
  ASSUME IInv, NEW i \in Handled, NEW j \in DOMAIN trace, j < i,
         trace[j].event # Stop
  PROVE  trace[j].event \in Settled
<1>1. i \in Nat /\ j \in Nat
  BY LenProperties DEF IInv, Types, Handled
<1>2. j \notin InHand /\ j \notin Waiting
  BY <1>1 DEF IInv, Ordered
<1> QED BY <1>2 DEF IInv, Accounted, Handled, Stops

(* A Flush that answers true means all that was queued before it, and the  *)
(* count of all that was refused.                                          *)
THEOREM FlushMeansAll == Spec => []FlushCoversAll
<1>1. IInv => FlushCoversAll
  <2> SUFFICES ASSUME IInv, NEW i \in DOMAIN trace, trace[i].event \in flushed
               PROVE  SettledBefore(i)
    BY DEF FlushCoversAll
  <2>1. DOMAIN trace = 1 .. Len(trace) /\ Len(trace) \in Nat
    BY LenProperties DEF IInv, Types
  <2>2. i \in Handled
    BY DEF Handled
  <2>3. \A j \in 1 .. i - 1 : trace[j].event # Stop => trace[j].event \in Settled
    BY <2>1, <2>2, HandledInOrder
  <2>4. Announced >= trace[i].lost
    BY TraceTypes DEF IInv, Types, Counted
  <2> QED BY <2>3, <2>4 DEF SettledBefore
<1> QED BY <1>1, InvariantHolds, PTL

(* When run has ended, what was queued before the stop is in the log and   *)
(* what was refused before it is counted there.                            *)
THEOREM ShutdownMeansAll == Spec => []ShutdownDrains
<1>1. IInv => ShutdownDrains
  <2> SUFFICES ASSUME IInv, NEW i \in DOMAIN trace, run = "done",
                      trace[i].event = Stop
               PROVE  SettledBefore(i)
    BY DEF ShutdownDrains
  <2>1. DOMAIN trace = 1 .. Len(trace) /\ Len(trace) \in Nat
    BY LenProperties DEF IInv, Types
  <2>2. i \in Stops
    BY DEF Stops
  <2>3. \A j \in 1 .. i - 1 : trace[j].event # Stop => trace[j].event \in Settled
    BY <2>1, <2>2 DEF IInv, Drains, Handled
  <2>4. Announced >= trace[i].lost
    BY <2>2, TraceTypes DEF IInv, Types, Counted
  <2> QED BY <2>3, <2>4 DEF SettledBefore
<1> QED BY <1>1, InvariantHolds, PTL

(* A handler that is closed was told to stop, or the one call of Shutdown  *)
(* that closed it is about to (the safety part of ShutdownEnds): no later  *)
(* Shutdown waits for a stop that nobody will close.                       *)
Told == closed => stop \/ \E c \in Callers : pc[c] = "closing"

THEOREM StopComes == Spec => []Told
<1>1. Init => Told
  BY DEF Init, Told
<1>2. ASSUME IInv, Told, [Next]_vars PROVE Told'
  <2>1. pc \in [Callers -> CallerStates]
    BY <1>2 DEF IInv, Types
  <2>2. ASSUME NEW c \in Callers, Caller(c) PROVE Told'
    <3>1. CASE BeginShutdown(c)
      BY <1>2, <2>1, <3>1 DEF BeginShutdown, Goes, Told
    <3>2. CASE CloseStop(c)
      BY <3>2 DEF CloseStop, Told
    <3>3. CASE Enqueue(c) \/ Accepted(c) \/ Refused(c) \/ CountDropped(c)
                 \/ FlushReturns(c)
                 \/ ShutdownReturns(c)
      <4>1. pc[c] # "closing" /\ UNCHANGED signals
        BY <3>3 DEF Enqueue, Calls, Accepted, Refused, CountDropped,
                    FlushReturns,
                    ShutdownReturns
      <4>2. pc' = pc \/ \E state : Goes(c, state)
        BY <3>3 DEF Enqueue, Accepted, Refused, CountDropped,
                    AfterSend, FlushReturns,
                    ShutdownReturns
      <4>3. \A d \in Callers : pc[d] = "closing" => pc'[d] = "closing"
        BY <2>1, <4>1, <4>2 DEF Goes
      <4> QED BY <1>2, <4>1, <4>3 DEF Told, signals
    <3> QED BY <2>2, <3>1, <3>2, <3>3 DEF Caller
  <2>3. CASE Run \/ UNCHANGED vars
    <3>1. UNCHANGED <<pc, signals>>
      BY <2>3 DEF Run, Receive, SeeStop, Drained, Swap, Handle, Finishes, Finish,
                  writeDropped, vars, callerVars
    <3> QED BY <1>2, <3>1 DEF Told, signals
  <2> QED BY <1>2, <2>2, <2>3 DEF Next
<1> QED BY <1>1, <1>2, InvariantHolds, PTL DEF Spec
=============================================================================
