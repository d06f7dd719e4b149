----------------------------- MODULE HIDDevice ------------------------------
(***************************************************************************)
(* The EVision keyboard behind its HID handle: finding and opening its RGB *)
(* interface (internal/devices, evision/provider.go), the calls of an      *)
(* opened Device (evision/device.go), and the overlapped I/O under them    *)
(* (internal/hid/transport_windows.go).  A device has one user at a time,  *)
(* Run or a console command, so its mutex is always free.  A report is     *)
(* known by the number of the call that sends it.  What Windows and the    *)
(* keyboard have queued is a set of calls: all of it is served in order,   *)
(* and calls follow one another.                                           *)
(***************************************************************************)
EXTENDS Naturals, FiniteSets

CONSTANTS Rgb,       \* interfaces rgbCandidate accepts
          Plain,     \* the other HID interfaces of the keyboard
          MaxCalls,  \* bound: calls of SetColor and Off on one device
          IOFaults   \* what may go wrong, see KnownIOFaults

(* "metadata": reading an interface fails; "open": opening it; "event":    *)
(* CreateEvent; "io": a request fails or is short; "wait": the wait fails; *)
(* "unplug": the keyboard is unplugged.                                    *)
KnownIOFaults == {"metadata", "open", "event", "io", "wait", "unplug"}

ASSUME InterfacesAssumption == Rgb \cap Plain = {}
ASSUME MaxCallsAssumption == MaxCalls \in Nat
ASSUME IOFaultsAssumption == IOFaults \subseteq KnownIOFaults

VARIABLES
  mode,       \* "inspect": the info command, "use": set, off or automatic
  cancelled,  \* the caller's ctx is done
  pc,         \* where the user of the keyboard is: see PCs
  queue,      \* interfaces of the device set not looked at
  found,      \* the Infos collected
  handles,    \* what the program holds open
  calls,      \* calls so far
  op,         \* what the call is at: "write" or "read"
  late,       \* the deadline of op has passed
  request,    \* its request: "none", "pending", "ok", "short", "failed"
  outcome,    \* of the last call: "none", "nil", "error"
  \* Windows and the keyboard
  present,    \* the interfaces there are
  sameLength, \* their reports have reportSize bytes
  writes, reads,   \* the requests of the handle, by call
  revoked,    \* those CancelIoEx was called for
  shown,      \* the report the keyboard took last
  owed, input,     \* reports to acknowledge; acknowledgements not read
  \* history only
  listed,     \* the device set when it was made
  ackOf,      \* the report whose acknowledgement the last call read
  clean,      \* no call failed once its report was on its way
  gaveUp      \* a call returned without waiting for its cancelled request

findVars == <<queue, found, listed>>
callVars == <<calls, op, late, request, outcome, clean, gaveUp>>
kernelVars == <<writes, reads, revoked>>
keyboardVars == <<shown, owed, input, ackOf>>
worldVars == <<mode, cancelled, present, sameLength>>
vars == <<pc, handles, findVars, callVars, kernelVars, keyboardVars, worldVars>>

InCall == {"begin", "issued", "timeout", "wait", "drain"}
PCs == {"start", "enumerate", "query", "select", "open", "caps", "idle", "ended"}
         \cup InCall
Reports == 1 .. MaxCalls

TypeOK ==
  /\ mode \in {"inspect", "use"}
  /\ {cancelled, late, sameLength, clean, gaveUp} \subseteq BOOLEAN
  /\ pc \in PCs
  /\ {queue, found, listed, present} \subseteq SUBSET (Rgb \cup Plain)
  /\ handles \subseteq {"set", "query", "device"}
  /\ {calls, shown, ackOf} \subseteq 0 .. MaxCalls
  /\ op \in {"write", "read"}
  /\ request \in {"none", "pending", "ok", "short", "failed"}
  /\ outcome \in {"none", "nil", "error"}
  /\ {writes, reads, owed, input} \subseteq SUBSET Reports
  /\ revoked \subseteq {"write", "read"} \X Reports
  /\ pc \in InCall /\ request # "none" => handles = {"device"}

Init ==
  /\ mode \in {"inspect", "use"}
  /\ cancelled = FALSE
  /\ pc = "start"
  /\ queue = {} /\ found = {} /\ listed = {}
  /\ handles = {}
  /\ calls = 0
  /\ op = "write"
  /\ late = FALSE
  /\ request = "none"
  /\ outcome = "none"
  /\ present \in SUBSET (Rgb \cup Plain)
  /\ sameLength \in BOOLEAN
  /\ writes = {} /\ reads = {} /\ revoked = {}
  /\ shown = 0 /\ owed = {} /\ input = {}
  /\ ackOf = 0
  /\ clean = TRUE
  /\ gaveUp = FALSE

-----------------------------------------------------------------------------
(* Registry.Open and Registry.Inspect, with the one provider there is.     *)

Fails(fault) == fault \in IOFaults \/ present = {}

(* An error, or the end of Inspect or of a command: what the functions on  *)
(* the way out close, in their deferred calls or before they return.       *)
Leave(closes) ==
  /\ pc' = "ended"
  /\ handles' = handles \ closes

(* WindowsTransport.Enumerate takes the set of interfaces present now,     *)
(* unless Windows has none to give.                                        *)
Enumerate ==
  /\ pc = "start"
  /\ \/ /\ cancelled \/ "metadata" \in IOFaults
        /\ Leave({})
        /\ UNCHANGED findVars
     \/ /\ ~cancelled
        /\ queue' = present /\ listed' = present
        /\ handles' = handles \cup {"set"}
        /\ pc' = "enumerate"
        /\ UNCHANGED found
  /\ UNCHANGED <<callVars, kernelVars, keyboardVars, worldVars>>

(* readHIDInfo opens an interface of the set to ask for its metadata.  The *)
(* set may fail to tell of another one, also when there is none.           *)
QueryInterface ==
  /\ pc = "enumerate"
  /\ \/ /\ "metadata" \in IOFaults \/ (queue # {} /\ present = {})
        /\ Leave({"set"})
     \/ /\ queue # {} /\ present # {}
        /\ handles' = handles \cup {"query"}
        /\ pc' = "query"
  /\ UNCHANGED <<findVars, callVars, kernelVars, keyboardVars, worldVars>>

(* Mutant: an interface that does not answer is left out.                  *)
ReadMetadata_Skips ==
  /\ pc = "query"
  /\ \E i \in queue :
        /\ queue' = queue \ {i}
        /\ found' \in {found \cup {i}, found}
  /\ handles' = handles \ {"query"}
  /\ pc' = "enumerate"
  /\ UNCHANGED <<listed, callVars, kernelVars, keyboardVars, worldVars>>

(* Mutant: an interface that does not answer is not closed.                *)
ReadMetadata_NotClosed ==
  /\ pc = "query"
  /\ \/ Fails("metadata") /\ Leave({"set"}) /\ UNCHANGED findVars
     \/ /\ present # {}
        /\ \E i \in queue : queue' = queue \ {i} /\ found' = found \cup {i}
        /\ handles' = handles \ {"query"}
        /\ pc' = "enumerate"
        /\ UNCHANGED listed
  /\ UNCHANGED <<callVars, kernelVars, keyboardVars, worldVars>>

ReadMetadata ==
  /\ pc = "query"
  /\ \/ Fails("metadata") /\ Leave({"query", "set"}) /\ UNCHANGED findVars
     \/ /\ present # {}
        /\ \E i \in queue : queue' = queue \ {i} /\ found' = found \cup {i}
        /\ handles' = handles \ {"query"}
        /\ pc' = "enumerate"
        /\ UNCHANGED listed
  /\ UNCHANGED <<callVars, kernelVars, keyboardVars, worldVars>>

(* Inspect returns the Infos; Open goes on.                                *)
Enumerated ==
  /\ pc = "enumerate" /\ queue = {}
  /\ handles' = handles \ {"set"}
  /\ pc' = IF mode = "inspect" THEN "ended" ELSE "select"
  /\ UNCHANGED <<findVars, callVars, kernelVars, keyboardVars, worldVars>>

(* selectCandidate: no keyboard, no candidate or two of them are errors.   *)
SelectCandidate ==
  /\ pc = "select"
  /\ IF Cardinality(found \cap Rgb) = 1
       THEN pc' = "open" /\ UNCHANGED handles
       ELSE Leave({})
  /\ UNCHANGED <<findVars, callVars, kernelVars, keyboardVars, worldVars>>

OpenConnection ==
  /\ pc = "open"
  /\ \/ (cancelled \/ Fails("open")) /\ Leave({})
     \/ /\ ~cancelled /\ present # {}
        /\ handles' = handles \cup {"device"}
        /\ pc' = "caps"
  /\ UNCHANGED <<findVars, callVars, kernelVars, keyboardVars, worldVars>>

(* Mutant: the handle is closed on the way out of a successful open.      *)
CheckLengths_DeferredClose ==
  /\ pc = "caps"
  /\ handles' = handles \ {"device"}
  /\ pc' = IF sameLength THEN "idle" ELSE "ended"
  /\ UNCHANGED <<findVars, callVars, kernelVars, keyboardVars, worldVars>>

(* openHID asks for the lengths and Provider.Open looks at them; what they *)
(* refuse is closed.                                                       *)
CheckLengths ==
  /\ pc = "caps"
  /\ \/ (~sameLength \/ Fails("open")) /\ Leave({"device"})
     \/ sameLength /\ present # {} /\ pc' = "idle" /\ UNCHANGED handles
  /\ UNCHANGED <<findVars, callVars, kernelVars, keyboardVars, worldVars>>

Opens ==
  \/ Enumerate
  \/ QueryInterface
  \/ ReadMetadata
  \/ Enumerated
  \/ SelectCandidate
  \/ OpenConnection
  \/ CheckLengths

-----------------------------------------------------------------------------
(* sendReport: a write and the read of its acknowledgement, each one       *)
(* overlappedIO under a deadline of its own.                               *)

Return(err, sent) ==
  /\ pc' = "idle"
  /\ op' = "write"
  /\ request' = "none"
  /\ late' = FALSE
  /\ outcome' = err
  /\ clean' = (clean /\ (err = "nil" \/ ~sent))
  /\ UNCHANGED calls

(* SetColor or Off is called.                                              *)
sendReport ==
  /\ pc = "idle" /\ calls < MaxCalls
  /\ calls' = calls + 1
  /\ pc' = "begin"
  /\ outcome' = "none"
  /\ ackOf' = 0
  /\ UNCHANGED <<handles, findVars, op, late, request, clean, gaveUp, kernelVars,
                 shown, owed, input, worldVars>>

(* ctx.Err and CreateEvent, then WriteFile or ReadFile.                    *)
Issue ==
  /\ pc = "begin"
  /\ \/ /\ cancelled \/ late \/ "event" \in IOFaults
        /\ Return("error", op = "read")
        /\ UNCHANGED <<writes, reads>>
     \/ /\ ~cancelled /\ ~late
        /\ pc' = "issued"
        /\ request' = "pending"
        /\ writes' = IF op = "write" THEN writes \cup {calls} ELSE writes
        /\ reads' = IF op = "read" THEN reads \cup {calls} ELSE reads
        /\ UNCHANGED <<calls, op, late, outcome, clean>>
  /\ UNCHANGED <<handles, findVars, gaveUp, revoked, keyboardVars, worldVars>>

(* Mutant: the length of what was written or read is not looked at.        *)
Completed_AnyLength ==
  \/ /\ request \in {"ok", "short"} /\ op = "write"
     /\ op' = "read"
     /\ pc' = "begin"
     /\ request' = "none"
     /\ late' = FALSE
     /\ UNCHANGED <<calls, outcome, clean>>
  \/ request \in {"ok", "short"} /\ op = "read" /\ Return("nil", TRUE)
  \/ request = "failed" /\ Return("error", TRUE)

(* The request is complete: sendReport looks at the error and the length.  *)
Completed ==
  \/ /\ request = "ok" /\ op = "write"
     /\ op' = "read"
     /\ pc' = "begin"
     /\ request' = "none"
     /\ late' = FALSE
     /\ UNCHANGED <<calls, outcome, clean>>
  \/ request = "ok" /\ op = "read" /\ Return("nil", TRUE)
  \/ request \in {"short", "failed"} /\ Return("error", TRUE)

(* The operation returns at once, or it is pending when it returns.        *)
OperationReturns ==
  /\ pc = "issued"
  /\ \/ Completed
     \/ /\ pc' = "timeout"
        /\ UNCHANGED <<calls, op, late, request, outcome, clean>>
  /\ UNCHANGED <<handles, findVars, gaveUp, kernelVars, keyboardVars, worldVars>>

(* CancelIoEx for the request of the call.                                 *)
CancelIo ==
  revoked' = IF request = "pending" THEN revoked \cup {<<op, calls>>} ELSE revoked

(* The request is cancelled, and nobody waits until it is over.            *)
Abandon ==
  /\ CancelIo
  /\ gaveUp' = TRUE
  /\ Return("error", TRUE)

(* "The deadline has passed" may be noticed before the wait begins.        *)
contextTimeout ==
  /\ pc = "timeout"
  /\ \/ late /\ Abandon
     \/ /\ ~late
        /\ pc' = "wait"
        /\ UNCHANGED <<calls, op, late, request, outcome, clean, gaveUp, revoked>>
  /\ UNCHANGED <<handles, findVars, writes, reads, keyboardVars, worldVars>>

(* Mutant: a request that timed out is cancelled and not waited for.       *)
Wait_NoDrain ==
  /\ pc = "wait"
  /\ \/ Completed /\ UNCHANGED revoked
     \/ late /\ request = "pending" /\ CancelIo /\ Return("error", TRUE)
  /\ UNCHANGED <<handles, findVars, gaveUp, writes, reads, keyboardVars, worldVars>>

(* Mutant: the wait has no timeout.                                        *)
Wait_Infinite ==
  /\ pc = "wait"
  /\ Completed
  /\ UNCHANGED <<handles, findVars, gaveUp, kernelVars, keyboardVars, worldVars>>

(* WaitForSingleObject looks at the request and the clock, not at ctx.     *)
Wait ==
  /\ pc = "wait"
  /\ \/ Completed /\ UNCHANGED <<revoked, gaveUp>>
     \/ /\ late /\ request = "pending"
        /\ CancelIo
        /\ pc' = "drain"
        /\ UNCHANGED <<calls, op, late, request, outcome, clean, gaveUp>>
  /\ UNCHANGED <<handles, findVars, writes, reads, keyboardVars, worldVars>>

(* WaitForSingleObject fails.                                              *)
WaitFails ==
  /\ "wait" \in IOFaults
  /\ pc = "wait"
  /\ Abandon
  /\ UNCHANGED <<handles, findVars, writes, reads, keyboardVars, worldVars>>

(* Mutant: a request that was quicker than its cancellation counts.        *)
Drain_TakesResult ==
  /\ pc = "drain"
  /\ request # "pending"
  /\ Return(IF request = "ok" THEN "nil" ELSE "error", TRUE)
  /\ UNCHANGED <<handles, findVars, gaveUp, kernelVars, keyboardVars, worldVars>>

(* GetOverlappedResult waits for the cancelled request; a result that came *)
(* in time all the same is a timeout too.                                  *)
Drain ==
  /\ pc = "drain"
  /\ request # "pending"
  /\ Return("error", TRUE)
  /\ UNCHANGED <<handles, findVars, gaveUp, kernelVars, keyboardVars, worldVars>>

InputOutput == Issue \/ OperationReturns \/ contextTimeout \/ Wait \/ Drain

(* Device.Close: everything of the handle is cancelled, the handle closed. *)
Close ==
  /\ pc = "idle"
  /\ Leave({"device"})
  /\ revoked' = revoked \cup ({"write"} \X writes) \cup ({"read"} \X reads)
  /\ UNCHANGED <<findVars, callVars, writes, reads, keyboardVars, worldVars>>

-----------------------------------------------------------------------------
(* Windows and the keyboard.                                               *)

First(c, queued) == c \in queued /\ \A d \in queued : c <= d

(* A request ends; the call it belongs to sees that if it still waits.     *)
Ends(o, c, status) ==
  /\ request' = IF pc \in InCall /\ request = "pending" /\ op = o /\ calls = c
                  THEN status ELSE request
  /\ writes' = IF o = "write" THEN writes \ {c} ELSE writes
  /\ reads' = IF o = "read" THEN reads \ {c} ELSE reads
  /\ revoked' = revoked \ {<<o, c>>}
  /\ UNCHANGED <<pc, handles, findVars, calls, op, late, outcome, clean, gaveUp,
                 worldVars>>

WriteEnds ==
  \E c \in writes :
    /\ present # {} /\ First(c, writes)
    /\ Ends("write", c, "ok")
    /\ shown' = c
    /\ owed' = owed \cup {c}
    /\ UNCHANGED <<input, ackOf>>

ReadEnds ==
  \E c \in reads, report \in input :
    /\ First(c, reads) /\ First(report, input)
    /\ Ends("read", c, "ok")
    /\ input' = input \ {report}
    /\ ackOf' = IF request' # request THEN report ELSE ackOf
    /\ UNCHANGED <<shown, owed>>

RequestFails ==
  /\ Fails("io")
  /\ \E status \in {"short", "failed"} :
       \/ \E c \in writes : First(c, writes) /\ Ends("write", c, status)
       \/ \E c \in reads : First(c, reads) /\ Ends("read", c, status)
  /\ UNCHANGED keyboardVars

CancellationEnds ==
  /\ \E r \in revoked : Ends(r[1], r[2], "failed")
  /\ UNCHANGED keyboardVars

(* The keyboard answers, soon or late.                                     *)
Acknowledges ==
  \E report \in owed :
    /\ First(report, owed)
    /\ owed' = owed \ {report}
    /\ input' = input \cup {report}
    /\ UNCHANGED <<pc, handles, findVars, callVars, kernelVars, shown, ackOf, worldVars>>

Unplug ==
  /\ "unplug" \in IOFaults /\ present # {}
  /\ present' = {}
  /\ owed' = {} /\ input' = {}
  /\ UNCHANGED <<pc, handles, findVars, callVars, kernelVars, shown, ackOf, mode,
                 cancelled, sameLength>>

DeadlinePasses ==
  /\ pc \in InCall \ {"drain"} /\ ~late
  /\ late' = TRUE
  /\ UNCHANGED <<pc, handles, findVars, calls, op, request, outcome, clean, gaveUp,
                 kernelVars, keyboardVars, worldVars>>

(* Ctrl+C, or the cancellation of Run.                                     *)
Cancel ==
  /\ ~cancelled
  /\ cancelled' = TRUE
  /\ UNCHANGED <<pc, handles, findVars, callVars, kernelVars, keyboardVars, mode,
                 present, sameLength>>

Windows == WriteEnds \/ ReadEnds \/ RequestFails \/ CancellationEnds

Next ==
  \/ Opens
  \/ sendReport
  \/ InputOutput
  \/ WaitFails
  \/ Close
  \/ Windows
  \/ Acknowledges
  \/ Unplug
  \/ DeadlinePasses
  \/ Cancel

Spec == Init /\ [][Next]_vars

(* The user's goroutine runs, time passes, and Windows ends a request that *)
(* was cancelled.  A keyboard need not answer, and no wait need fail.      *)
FairSpec ==
  /\ Spec
  /\ WF_vars(Opens)
  /\ WF_vars(InputOutput)
  /\ WF_vars(DeadlinePasses)
  /\ WF_vars(CancellationEnds)

-----------------------------------------------------------------------------
(* "ambiguous RGB HID interface": a connection is opened only when one     *)
(* interface of the keyboard is a candidate, and an interface that cannot  *)
(* be read is never taken for absent.  Whichever step fails, nothing stays *)
(* open after a failed Open, an Inspect or a Close, and only the device    *)
(* while it is in use.                                                     *)
HandlesOwned ==
  /\ pc \in {"start", "select", "open", "ended"} => handles = {}
  /\ pc \in InCall \cup {"caps", "idle"} =>
        handles = {"device"} /\ Cardinality(listed \cap Rgb) = 1

(* A nil of SetColor or Off can be relied on, whatever happened to earlier *)
(* calls: the keyboard took this report, and none after it.                *)
SuccessIsShown == outcome = "nil" => shown = calls

(* A device is a ColorKeyboard: whatever is late, cancelled or abandoned,  *)
(* no older report ever takes the place of a newer one, and a nil can be   *)
(* relied on until the next call, late requests of earlier ones or not.    *)
Keyboard == INSTANCE ColorKeyboard
              WITH busy <- pc \in InCall, answer <- outcome

KeyboardSpec == Keyboard!KSpec

(* An acknowledgement says nothing about which report it is for.  As long  *)
(* as every call that failed did so before its report was on its way, the  *)
(* one that is read is that of the report, and none is left for the next   *)
(* call; a late one stays and every later call reads its predecessor's.    *)
AcknowledgementsPair ==
  clean /\ pc = "idle" => /\ outcome = "nil" => ackOf = calls
                          /\ owed \cup input = {}

(* Once a call has returned, Windows no longer writes into its buffers,    *)
(* unless its deadline passed before it began to wait, or its wait failed. *)
BuffersReleased == pc = "idle" /\ ~gaveUp => writes \cup reads = {}

(* A call returns though the keyboard never answers: its deadline ends the *)
(* wait, which a cancellation does not.                                    *)
CallsReturn == pc \in InCall ~> pc = "idle"
=============================================================================
