--------------------------- MODULE HIDDevice_proof ---------------------------
(* What the user of the keyboard may rely on, for every set of interfaces  *)
(* and faults and any number of calls.                                     *)
EXTENDS HIDDevice, TLAPS

Types ==
  /\ mode \in {"inspect", "use"}
  /\ pc \in PCs
  /\ {queue, found, listed, present} \subseteq SUBSET (Rgb \cup Plain)
  /\ handles \subseteq {"set", "query", "device"}
  /\ {calls, shown, ackOf} \subseteq 0 .. MaxCalls
  /\ op \in {"write", "read"}
  /\ request \in {"none", "pending", "ok", "short", "failed"}
  /\ outcome \in {"none", "nil", "error"}
  /\ {writes, reads, owed, input} \subseteq SUBSET Reports
  /\ revoked \subseteq {"write", "read"} \X Reports

Booleans ==
  /\ cancelled \in BOOLEAN
  /\ late \in BOOLEAN
  /\ sameLength \in BOOLEAN
  /\ clean \in BOOLEAN
  /\ gaveUp \in BOOLEAN

(* An interface of the device set is in the queue until it has been read,  *)
(* and the device set is open as long as anybody reads from it.            *)
Found ==
  /\ HandlesOwned
  /\ pc = "enumerate" => handles = {"set"}
  /\ pc = "query" => handles = {"set", "query"}
  /\ pc = "start" => found = {}
  /\ pc \in {"enumerate", "query"} => found \cup queue = listed
  /\ pc \in {"select", "open"} => found = listed
  /\ pc = "open" => Cardinality(listed \cap Rgb) = 1

(* Where a call is.  A request of another call is one of an earlier call.  *)
Calling ==
  /\ pc \notin InCall => op = "write"
  /\ pc \notin InCall \ {"begin"} => request = "none"
  /\ pc \in InCall => outcome = "none" /\ calls # 0
  /\ writes \cup reads \subseteq 1 .. calls
  /\ pc = "begin" /\ op = "write" => calls \notin writes

(* A write that ended well was the last one there was.                     *)
Taken ==
  outcome = "nil" \/ (pc \in InCall /\ (op = "read" \/ request = "ok")) =>
    writes = {} /\ shown = calls

(* Unless a call gave up, Windows holds the pending request alone.         *)
Pending(o) == IF op = o /\ request = "pending" THEN {calls} ELSE {}
Held == ~gaveUp => writes = Pending("write") /\ reads = Pending("read")

(* The keyboard owes at most the acknowledgement the call waits for.       *)
Paired ==
  clean =>
    /\ ~gaveUp
    /\ owed \cap input = {}
    /\ owed \cup input \subseteq {calls}
    /\ op = "write" /\ request # "ok" => owed \cup input = {}
    /\ op = "read" /\ request = "ok" => owed \cup input = {}
    /\ outcome = "nil" \/ (op = "read" /\ request = "ok") => ackOf = calls

IInv == Types /\ Booleans /\ Found /\ Calling /\ Taken /\ Held /\ Paired

-----------------------------------------------------------------------------
(* Finding and opening the device: nothing of a call changes.              *)

LEMMA OpensStep == ASSUME IInv, Opens PROVE IInv'
<1> USE DEF IInv
<1>1. UNCHANGED <<callVars, kernelVars, keyboardVars, worldVars>>
  BY DEF Opens, Enumerate, QueryInterface, ReadMetadata, Enumerated,
         SelectCandidate, OpenConnection, CheckLengths
<1>2. /\ pc \notin InCall /\ pc' \notin InCall
      /\ pc' \in PCs
  BY DEF Opens, Enumerate, QueryInterface, ReadMetadata, Enumerated,
         SelectCandidate, OpenConnection, CheckLengths, Leave, InCall, PCs
<1>3. /\ {queue', found', listed'} \subseteq SUBSET (Rgb \cup Plain)
      /\ handles' \subseteq {"set", "query", "device"}
  <2> USE DEF Types, Leave, findVars
  <2>1. CASE Enumerate \/ QueryInterface
    BY <2>1 DEF Enumerate, QueryInterface, worldVars
  <2>2. CASE ReadMetadata
    <3>1. CASE UNCHANGED findVars /\ Leave({"query", "set"})
      BY <3>1, <2>2 DEF ReadMetadata, worldVars
    <3>2. ASSUME NEW i \in queue, queue' = queue \ {i}, found' = found \cup {i},
                 UNCHANGED <<listed, worldVars>>, handles' = handles \ {"query"}
          PROVE  /\ {queue', found', listed'} \subseteq SUBSET (Rgb \cup Plain)
                 /\ handles' \subseteq {"set", "query", "device"}
      <4>1. queue' \subseteq Rgb \cup Plain /\ found' \subseteq Rgb \cup Plain
        BY <3>2
      <4>2. listed' \subseteq Rgb \cup Plain
        BY <3>2
      <4>3. handles' \subseteq {"set", "query", "device"}
        BY <3>2
      <4> QED BY <4>1, <4>2, <4>3
    <3> QED BY <2>2, <3>1, <3>2 DEF ReadMetadata
  <2>3. CASE Enumerated \/ SelectCandidate \/ OpenConnection \/ CheckLengths
    BY <2>3 DEF Enumerated, SelectCandidate, OpenConnection, CheckLengths, worldVars
  <2> QED
    BY <2>1, <2>2, <2>3 DEF Opens
<1>4. Found'
  <2> USE DEF Found, HandlesOwned, InCall, Leave
  <2>1. CASE Enumerate
    BY <2>1 DEF Enumerate, findVars
  <2>2. CASE QueryInterface
    BY <2>2 DEF QueryInterface, findVars
  <2>3. CASE ReadMetadata
    BY <2>3 DEF ReadMetadata, findVars
  <2>4. CASE Enumerated
    BY <2>4 DEF Enumerated, findVars
  <2>5. CASE SelectCandidate
    BY <2>5 DEF SelectCandidate, findVars
  <2>6. CASE OpenConnection
    BY <2>6 DEF OpenConnection, findVars
  <2>7. CASE CheckLengths
    BY <2>7 DEF CheckLengths, findVars
  <2> QED
    BY <2>1, <2>2, <2>3, <2>4, <2>5, <2>6, <2>7 DEF Opens
<1>5. Types'
  BY <1>1, <1>2, <1>3 DEF Types, callVars, kernelVars, keyboardVars, worldVars
<1>6. Booleans'
  BY <1>1 DEF Booleans, callVars, worldVars
<1>7. Calling' /\ Taken'
  BY <1>1, <1>2 DEF Calling, Taken, InCall, callVars, kernelVars, keyboardVars
<1>8. Held'
  BY <1>1 DEF Held, Pending, callVars, kernelVars
<1>9. Paired'
  BY <1>1 DEF Paired, callVars, keyboardVars
<1> QED
  BY <1>4, <1>5, <1>6, <1>7, <1>8, <1>9

-----------------------------------------------------------------------------
(* The calls.                                                              *)

(* A call that returns is over, whatever it returns.                       *)
LEMMA ReturnEnds ==
  ASSUME IInv, pc \in InCall, NEW err \in {"nil", "error"}, NEW sent \in BOOLEAN,
         Return(err, sent),
         UNCHANGED <<handles, findVars, writes, reads, keyboardVars, worldVars>>,
         revoked' \subseteq {"write", "read"} \X Reports,
         UNCHANGED gaveUp \/ (gaveUp' = TRUE /\ err = "error" /\ sent),
         ~gaveUp' => request # "pending",
         ~sent => op = "write" /\ request = "none",
         err = "nil" => op = "read" /\ request = "ok"
  PROVE  IInv'
<1> USE DEF IInv, Return
<1>1. pc' = "idle" /\ pc' \in PCs /\ pc' \notin InCall
  BY DEF PCs, InCall
<1>2. Types'
  BY <1>1 DEF Types, findVars, keyboardVars, worldVars
<1>3. Booleans'
  BY DEF Booleans, worldVars
<1>4. Found'
  BY <1>1 DEF Found, HandlesOwned, findVars
<1>5. Calling'
  BY <1>1 DEF Calling
<1>6. Taken'
  BY <1>1 DEF Taken, keyboardVars
<1>7. Held'
  BY DEF Held, Pending
<1>8. Paired'
  BY DEF Paired, keyboardVars, Types
<1> QED
  BY <1>2, <1>3, <1>4, <1>5, <1>6, <1>7, <1>8

LEMMA SendStep == ASSUME IInv, sendReport PROVE IInv'
<1> USE DEF IInv, sendReport
<1>1. pc = "idle" /\ pc' = "begin" /\ pc' \in PCs /\ op = "write" /\ request = "none"
  BY DEF Calling, PCs, InCall
<1>2. calls \in Nat /\ calls' = calls + 1 /\ calls' \in 0 .. MaxCalls
  BY MaxCallsAssumption DEF Types
<1>3. Types'
  BY <1>1, <1>2, MaxCallsAssumption DEF Types, findVars, kernelVars, worldVars
<1>4. Booleans'
  BY DEF Booleans, worldVars
<1>5. Found'
  BY <1>1 DEF Found, HandlesOwned, InCall, findVars
<1>6. Calling'
  BY <1>1, <1>2 DEF Calling, InCall, kernelVars
<1>7. Taken'
  BY <1>1 DEF Taken
<1>8. Held'
  BY <1>1 DEF Held, Pending, kernelVars
<1>9. Paired'
  BY <1>1 DEF Paired
<1> QED
  BY <1>3, <1>4, <1>5, <1>6, <1>7, <1>8, <1>9

LEMMA IssueStep == ASSUME IInv, Issue PROVE IInv'
<1>1. pc = "begin" /\ pc \in InCall /\ request = "none" /\ revoked \subseteq {"write", "read"} \X Reports
  BY DEF IInv, Issue, Calling, Types, InCall
<1>2. CASE Return("error", op = "read") /\ UNCHANGED <<writes, reads>>
  <2>1. op = "read" \/ op = "write"
    BY DEF IInv, Types
  <2> QED
    BY <1>1, <1>2, <2>1, ReturnEnds DEF Issue
<1>3. CASE ~(Return("error", op = "read") /\ UNCHANGED <<writes, reads>>)
  <2> USE DEF IInv
  <2>1. /\ pc' = "issued" /\ pc' \in PCs
        /\ request' = "pending"
        /\ writes' = IF op = "write" THEN writes \cup {calls} ELSE writes
        /\ reads' = IF op = "read" THEN reads \cup {calls} ELSE reads
        /\ UNCHANGED <<calls, op, late, outcome, clean>>
        /\ UNCHANGED <<handles, findVars, gaveUp, revoked, keyboardVars, worldVars>>
    BY <1>3 DEF Issue, PCs, InCall
  <2>2. calls \in Nat /\ calls \in 1 .. calls /\ calls \in Reports
    BY <1>1, MaxCallsAssumption DEF Types, Calling, Reports
  <2>3. Types'
    BY <2>1, <2>2 DEF Types, findVars, keyboardVars, worldVars
  <2>4. Booleans'
    BY <2>1 DEF Booleans, worldVars
  <2>5. Found'
    BY <1>1, <2>1 DEF Found, HandlesOwned, InCall, findVars
  <2>6. Calling'
    BY <1>1, <2>1, <2>2 DEF Calling, InCall
  <2>7. Taken'
    BY <1>1, <2>1 DEF Taken, Calling, InCall, keyboardVars
  <2>8. Held'
    BY <1>1, <2>1 DEF Held, Pending, Types
  <2>9. Paired'
    BY <1>1, <2>1 DEF Paired, keyboardVars
  <2> QED
    BY <2>3, <2>4, <2>5, <2>6, <2>7, <2>8, <2>9
<1> QED
  BY <1>2, <1>3

(* Looking at a complete request: on to the read, or the call returns.     *)
LEMMA CompletedStep ==
  ASSUME IInv, Completed, pc \in InCall, gaveUp' = gaveUp, revoked' = revoked,
         UNCHANGED <<handles, findVars, writes, reads, keyboardVars, worldVars>>
  PROVE  IInv'
<1>1. revoked \subseteq {"write", "read"} \X Reports
  BY DEF IInv, Types
<1>2. ASSUME request = "ok" /\ op = "write", op' = "read", pc' = "begin",
             request' = "none", late' = FALSE, UNCHANGED <<calls, outcome, clean>>
      PROVE  IInv'
  <2> USE <1>2 DEF IInv
  <2>1. Types'
    BY DEF Types, PCs, InCall, findVars, keyboardVars, worldVars
  <2>2. Booleans'
    BY DEF Booleans, worldVars
  <2>3. Found'
    BY DEF Found, HandlesOwned, InCall, findVars
  <2>4. Calling'
    BY DEF Calling, InCall
  <2>5. Taken'
    BY DEF Taken, InCall, keyboardVars
  <2>6. Held'
    BY DEF Held, Pending
  <2>7. Paired'
    BY DEF Paired, Calling, keyboardVars
  <2> QED
    BY <2>1, <2>2, <2>3, <2>4, <2>5, <2>6, <2>7
<1>3. CASE request = "ok" /\ op = "read" /\ Return("nil", TRUE)
  BY <1>1, <1>3, ReturnEnds
<1>4. CASE request \in {"short", "failed"} /\ Return("error", TRUE)
  BY <1>1, <1>4, ReturnEnds
<1> QED
  BY <1>2, <1>3, <1>4 DEF Completed

(* A request that is cancelled and left behind.                            *)
LEMMA AbandonStep ==
  ASSUME IInv, Abandon, pc \in InCall,
         UNCHANGED <<handles, findVars, writes, reads, keyboardVars, worldVars>>
  PROVE  IInv'
<1>1. calls \in Reports /\ op \in {"write", "read"}
  BY MaxCallsAssumption DEF IInv, Types, Calling, Reports
<1>2. revoked' \subseteq {"write", "read"} \X Reports
  BY <1>1 DEF Abandon, CancelIo, IInv, Types
<1> QED
  BY <1>2, ReturnEnds DEF Abandon

LEMMA InputOutputStep == ASSUME IInv, InputOutput PROVE IInv'
<1>1. CASE Issue
  BY <1>1, IssueStep
<1>2. CASE OperationReturns
  <2>1. CASE Completed
    BY <1>2, <2>1, CompletedStep DEF OperationReturns, InCall, kernelVars
  <2>2. CASE pc' = "timeout" /\ UNCHANGED <<calls, op, late, request, outcome, clean>>
    <3> USE <1>2, <2>2 DEF IInv, OperationReturns
    <3>1. Types' /\ Found'
      BY DEF Types, Found, HandlesOwned, PCs, InCall, findVars, kernelVars,
             keyboardVars, worldVars
    <3>2. Booleans'
      BY DEF Booleans, worldVars
    <3>3. Calling' /\ Taken'
      BY DEF Calling, Taken, InCall, kernelVars, keyboardVars
    <3>4. Held'
      BY DEF Held, Pending, kernelVars
    <3>5. Paired'
      BY DEF Paired, keyboardVars
    <3> QED
      BY <3>1, <3>2, <3>3, <3>4, <3>5
  <2> QED
    BY <1>2, <2>1, <2>2 DEF OperationReturns
<1>3. CASE contextTimeout
  <2>1. CASE Abandon
    BY <1>3, <2>1, AbandonStep DEF contextTimeout, InCall
  <2>2. CASE /\ pc' = "wait"
             /\ UNCHANGED <<calls, op, late, request, outcome, clean, gaveUp, revoked>>
    <3> USE <1>3, <2>2 DEF IInv, contextTimeout
    <3>1. Types' /\ Found'
      BY DEF Types, Found, HandlesOwned, PCs, InCall, findVars, keyboardVars, worldVars
    <3>2. Booleans'
      BY DEF Booleans, worldVars
    <3>3. Calling' /\ Taken'
      BY DEF Calling, Taken, InCall, keyboardVars
    <3>4. Held'
      BY DEF Held, Pending
    <3>5. Paired'
      BY DEF Paired, keyboardVars
    <3> QED
      BY <3>1, <3>2, <3>3, <3>4, <3>5
  <2> QED
    BY <1>3, <2>1, <2>2 DEF contextTimeout
<1>4. CASE Wait
  <2>1. CASE Completed /\ UNCHANGED <<revoked, gaveUp>>
    BY <1>4, <2>1, CompletedStep DEF Wait, InCall
  <2>2. CASE /\ late /\ request = "pending" /\ CancelIo
             /\ pc' = "drain"
             /\ UNCHANGED <<calls, op, late, request, outcome, clean, gaveUp>>
    <3> USE <1>4, <2>2 DEF IInv, Wait
    <3>1. calls \in Reports /\ op \in {"write", "read"}
      BY MaxCallsAssumption DEF Types, Calling, Reports, InCall
    <3>2. revoked' \subseteq {"write", "read"} \X Reports
      BY <3>1 DEF CancelIo, Types
    <3>3. Types' /\ Found'
      BY <3>2 DEF Types, Found, HandlesOwned, PCs, InCall, findVars, keyboardVars,
                  worldVars
    <3>4. Booleans'
      BY DEF Booleans, worldVars
    <3>5. Calling' /\ Taken'
      BY DEF Calling, Taken, InCall, keyboardVars
    <3>6. Held'
      BY DEF Held, Pending
    <3>7. Paired'
      BY DEF Paired, keyboardVars
    <3> QED
      BY <3>3, <3>4, <3>5, <3>6, <3>7
  <2> QED
    BY <1>4, <2>1, <2>2 DEF Wait
<1>5. CASE Drain
  <2>1. pc \in InCall /\ revoked \subseteq {"write", "read"} \X Reports
    BY <1>5 DEF Drain, InCall, IInv, Types
  <2> QED
    BY <1>5, <2>1, ReturnEnds DEF Drain, kernelVars
<1> QED
  BY <1>1, <1>2, <1>3, <1>4, <1>5 DEF InputOutput

LEMMA WaitFailsStep == ASSUME IInv, WaitFails PROVE IInv'
BY AbandonStep DEF WaitFails, InCall

LEMMA CloseStep == ASSUME IInv, Close PROVE IInv'
<1> USE DEF IInv, Close, Leave
<1>1. pc' = "ended" /\ pc' \in PCs /\ pc' \notin InCall /\ pc \notin InCall
  BY DEF PCs, InCall
<1>2. Types' /\ Found'
  BY <1>1 DEF Types, Found, HandlesOwned, findVars, callVars, keyboardVars, worldVars
<1>3. Booleans'
  BY DEF Booleans, callVars, worldVars
<1>4. Calling' /\ Taken'
  BY <1>1 DEF Calling, Taken, InCall, callVars, keyboardVars
<1>5. Held'
  BY DEF Held, Pending, callVars
<1>6. Paired'
  BY DEF Paired, callVars, keyboardVars
<1> QED
  BY <1>2, <1>3, <1>4, <1>5, <1>6

-----------------------------------------------------------------------------
(* Windows and the keyboard.                                               *)

(* What the end of a request leaves to the invariant, whatever its status. *)
LEMMA EndsKeeps ==
  ASSUME IInv, NEW o \in {"write", "read"}, NEW c \in Reports,
         NEW status \in {"ok", "short", "failed"}, Ends(o, c, status),
         {shown', ackOf'} \subseteq 0 .. MaxCalls,
         {owed', input'} \subseteq SUBSET Reports
  PROVE  Types' /\ Booleans' /\ Found' /\ Calling' /\ Held'
<1> USE DEF IInv, Ends
<1>1. request' \in {request, status}
  OBVIOUS
<1>2. Types'
  BY <1>1 DEF Types, findVars, worldVars
<1>3. Booleans'
  BY DEF Booleans, worldVars
<1>4. Found'
  BY DEF Found, HandlesOwned, findVars
<1>5. Calling'
  BY DEF Calling, InCall
<1>6. Held'
  BY DEF Held, Pending, Calling, InCall
<1> QED
  BY <1>2, <1>3, <1>4, <1>5, <1>6

(* The write of the call ends last of all writes, and clears the queue.    *)
LEMMA WriteEndsStep == ASSUME IInv, WriteEnds PROVE IInv'
<1> PICK c \in writes : /\ present # {} /\ First(c, writes)
                        /\ Ends("write", c, "ok")
                        /\ shown' = c
                        /\ owed' = owed \cup {c}
                        /\ UNCHANGED <<input, ackOf>>
  BY DEF WriteEnds
<1>1. c \in Reports /\ c \in 1 .. calls /\ calls \in Nat
  BY MaxCallsAssumption DEF IInv, Types, Calling, Reports
<1>2. Types' /\ Booleans' /\ Found' /\ Calling' /\ Held'
  <2>1. {shown', ackOf'} \subseteq 0 .. MaxCalls /\ {owed', input'} \subseteq SUBSET Reports
    BY <1>1, MaxCallsAssumption DEF IInv, Types, Reports
  <2> QED
    BY <1>1, <2>1, EndsKeeps
<1>3. ASSUME c = calls PROVE writes = {c} /\ writes' = {}
  <2>1. \A d \in writes : d \in 1 .. calls /\ c <= d
    BY DEF First, IInv, Calling
  <2>2. \A d \in writes : d = c
    BY <1>1, <1>3, <2>1
  <2> QED
    BY <2>2 DEF Ends
<1>4. Taken'
  <2> SUFFICES ASSUME outcome' = "nil" \/ (pc' \in InCall /\ (op' = "read" \/ request' = "ok"))
               PROVE  writes' = {} /\ shown' = calls'
    BY DEF Taken
  <2>1. ~(outcome = "nil" \/ (pc \in InCall /\ (op = "read" \/ request = "ok")))
    BY DEF IInv, Taken
  <2>2. pc \in InCall /\ request = "pending" /\ op = "write" /\ calls = c
    BY <2>1 DEF Ends
  <2> QED
    BY <1>3, <2>2 DEF Ends
<1>5. Paired'
  <2> SUFFICES ASSUME clean' PROVE Paired'
    BY DEF Paired
  <2>1. clean /\ ~gaveUp /\ UNCHANGED <<clean, gaveUp, calls, op, outcome>>
    BY DEF Ends, IInv, Paired
  <2>2. op = "write" /\ request = "pending" /\ c = calls
    BY <2>1 DEF IInv, Held, Pending
  <2>3. pc \in InCall /\ outcome = "none" /\ request' = "ok"
    BY <2>2 DEF Ends, IInv, Calling
  <2>4. owed' = {calls} /\ input' = {}
    BY <2>1, <2>2 DEF IInv, Paired
  <2> QED
    BY <2>1, <2>2, <2>3, <2>4 DEF Paired
<1> QED
  BY <1>2, <1>4, <1>5 DEF IInv

LEMMA ReadEndsStep == ASSUME IInv, ReadEnds PROVE IInv'
<1> PICK c \in reads, report \in input :
           /\ First(c, reads) /\ First(report, input)
           /\ Ends("read", c, "ok")
           /\ input' = input \ {report}
           /\ ackOf' = IF request' # request THEN report ELSE ackOf
           /\ UNCHANGED <<shown, owed>>
  BY DEF ReadEnds
<1>1. c \in Reports /\ report \in Reports
  BY DEF IInv, Types
<1>2. Types' /\ Booleans' /\ Found' /\ Calling' /\ Held'
  <2>1. {shown', ackOf'} \subseteq 0 .. MaxCalls /\ {owed', input'} \subseteq SUBSET Reports
    BY <1>1, MaxCallsAssumption DEF IInv, Types, Reports
  <2> QED
    BY <1>1, <2>1, EndsKeeps
<1>3. Taken'
  BY DEF IInv, Taken, Ends
<1>4. Paired'
  <2> SUFFICES ASSUME clean' PROVE Paired'
    BY DEF Paired
  <2>1. clean /\ ~gaveUp /\ UNCHANGED <<clean, gaveUp, calls, op, outcome>>
    BY DEF Ends, IInv, Paired
  <2>2. op = "read" /\ request = "pending" /\ c = calls
    BY <2>1 DEF IInv, Held, Pending
  <2>3. pc \in InCall /\ outcome = "none" /\ request' = "ok"
    BY <2>2 DEF Ends, IInv, Calling
  <2>4. report = calls /\ ackOf' = calls /\ owed' = {} /\ input' = {}
    BY <2>1, <2>2, <2>3 DEF IInv, Paired
  <2> QED
    BY <2>1, <2>4 DEF Paired
<1> QED
  BY <1>2, <1>3, <1>4 DEF IInv

(* A request that fails changes nothing on the keyboard.                   *)
LEMMA FailingEnds ==
  ASSUME IInv, NEW o \in {"write", "read"}, NEW c \in Reports,
         NEW status \in {"short", "failed"}, Ends(o, c, status),
         UNCHANGED keyboardVars
  PROVE  IInv'
<1>1. Types' /\ Booleans' /\ Found' /\ Calling' /\ Held'
  <2>1. {shown', ackOf'} \subseteq 0 .. MaxCalls /\ {owed', input'} \subseteq SUBSET Reports
    BY DEF IInv, Types, keyboardVars
  <2> QED
    BY <2>1, EndsKeeps
<1>2. Taken'
  BY DEF IInv, Taken, Ends, keyboardVars
<1>3. Paired'
  BY DEF IInv, Paired, Ends, keyboardVars
<1> QED
  BY <1>1, <1>2, <1>3 DEF IInv

LEMMA RequestFailsStep == ASSUME IInv, RequestFails PROVE IInv'
<1> PICK status \in {"short", "failed"} :
           \/ \E c \in writes : First(c, writes) /\ Ends("write", c, status)
           \/ \E c \in reads : First(c, reads) /\ Ends("read", c, status)
  BY DEF RequestFails
<1>1. writes \subseteq Reports /\ reads \subseteq Reports
  BY DEF IInv, Types
<1>2. UNCHANGED keyboardVars
  BY DEF RequestFails
<1> QED
  BY <1>1, <1>2, FailingEnds

LEMMA CancellationEndsStep == ASSUME IInv, CancellationEnds PROVE IInv'
<1> PICK r \in revoked : Ends(r[1], r[2], "failed")
  BY DEF CancellationEnds
<1>1. r[1] \in {"write", "read"} /\ r[2] \in Reports
  BY DEF IInv, Types
<1> QED
  BY <1>1, FailingEnds DEF CancellationEnds

LEMMA KeyboardStep == ASSUME IInv, Acknowledges \/ Unplug PROVE IInv'
<1> USE DEF IInv
<1>1. UNCHANGED <<pc, handles, findVars, callVars, kernelVars, shown, ackOf, mode,
                  cancelled, sameLength>>
  BY DEF Acknowledges, Unplug, worldVars
<1>2. present' \subseteq present /\ {owed', input'} \subseteq SUBSET Reports
  BY DEF Acknowledges, Unplug, worldVars, Types
<1>3. Types'
  BY <1>1, <1>2 DEF Types, findVars, callVars, kernelVars
<1>4. Booleans'
  BY <1>1 DEF Booleans, callVars
<1>5. Found'
  BY <1>1 DEF Found, HandlesOwned, findVars
<1>6. Calling' /\ Taken'
  BY <1>1 DEF Calling, Taken, callVars, kernelVars
<1>7. Held'
  BY <1>1 DEF Held, Pending, callVars, kernelVars
<1>8. /\ owed' \cup input' \subseteq owed \cup input
      /\ owed \cap input = {} => owed' \cap input' = {}
  BY DEF Acknowledges, Unplug
<1>9. Paired'
  BY <1>1, <1>8 DEF Paired, callVars
<1> QED
  BY <1>3, <1>4, <1>5, <1>6, <1>7, <1>9

(* Time and the interrupt.                                                 *)
LEMMA TimeStep == ASSUME IInv, DeadlinePasses \/ Cancel PROVE IInv'
<1> USE DEF IInv
<1>1. UNCHANGED <<pc, handles, findVars, calls, op, request, outcome, clean, gaveUp,
                  kernelVars, keyboardVars, mode, present, sameLength>>
  BY DEF DeadlinePasses, Cancel, callVars, worldVars
<1>2. Booleans'
  BY DEF DeadlinePasses, Cancel, Booleans, callVars, worldVars
<1>3. Types' /\ Found'
  BY <1>1 DEF Types, Found, HandlesOwned, findVars, kernelVars, keyboardVars
<1>4. Calling' /\ Taken'
  BY <1>1 DEF Calling, Taken, kernelVars, keyboardVars
<1>5. Held'
  BY <1>1 DEF Held, Pending, kernelVars
<1>6. Paired'
  BY <1>1 DEF Paired, keyboardVars
<1> QED
  BY <1>2, <1>3, <1>4, <1>5, <1>6

LEMMA OtherStep == ASSUME IInv, UNCHANGED vars PROVE IInv'
<1> USE DEF IInv, vars, findVars, callVars, kernelVars, keyboardVars, worldVars
<1>1. Types' /\ Found'
  BY DEF Types, Found, HandlesOwned
<1>2. Booleans'
  BY DEF Booleans
<1>3. Calling' /\ Taken'
  BY DEF Calling, Taken
<1>4. Held'
  BY DEF Held, Pending
<1>5. Paired'
  BY DEF Paired
<1> QED
  BY <1>1, <1>2, <1>3, <1>4, <1>5

LEMMA Starts == Init => IInv
<1> SUFFICES ASSUME Init PROVE IInv
  OBVIOUS
<1>1. Types
  BY MaxCallsAssumption DEF Init, Types, PCs
<1>2. Booleans
  BY DEF Init, Booleans
<1>3. Found /\ Calling /\ Taken
  BY DEF Init, Found, HandlesOwned, Calling, Taken, InCall
<1>4. Held
  BY DEF Init, Held, Pending
<1>5. Paired
  BY DEF Init, Paired
<1> QED
  BY <1>1, <1>2, <1>3, <1>4, <1>5 DEF IInv

-----------------------------------------------------------------------------
(* The inductive invariant, of which every property below is a part or a   *)
(* consequence.                                                            *)
THEOREM InvariantHolds == Spec => []IInv
<1>1. IInv /\ [Next]_vars => IInv'
  BY OpensStep, SendStep, InputOutputStep, WaitFailsStep, CloseStep, WriteEndsStep, ReadEndsStep,
     RequestFailsStep, CancellationEndsStep, KeyboardStep, TimeStep, OtherStep
     DEF Next, Windows
<1> QED
  BY Starts, <1>1, PTL DEF Spec

(* Every variable has its type, and a request is under way only on an open *)
(* device (TypeOK of HIDDevice).                                           *)
THEOREM TypeCorrect == Spec => []TypeOK
<1>1. IInv => TypeOK
  <2> SUFFICES ASSUME IInv PROVE TypeOK
    OBVIOUS
  <2>1. {cancelled, late, sameLength, clean, gaveUp} \subseteq BOOLEAN
    BY DEF IInv, Booleans
  <2>2. pc \in InCall /\ request # "none" => handles = {"device"}
    BY DEF IInv, Found, HandlesOwned
  <2> QED
    BY <2>1, <2>2 DEF IInv, Types, TypeOK
<1> QED
  BY <1>1, InvariantHolds, PTL

(* Provider.Open, Inspect and Close leave no handle behind, and a device   *)
(* is opened only when one interface is a candidate (HandlesOwned).        *)
THEOREM NothingLeftOpen == Spec => []HandlesOwned
<1>1. IInv => HandlesOwned
  BY DEF IInv, Found
<1> QED
  BY <1>1, InvariantHolds, PTL

(* A nil of sendReport means that the keyboard shows its report            *)
(* (SuccessIsShown), whatever was cancelled, late or lost before.          *)
THEOREM NilMeansShown == Spec => []SuccessIsShown
<1>1. IInv => SuccessIsShown
  BY DEF IInv, Taken, SuccessIsShown
<1> QED
  BY <1>1, InvariantHolds, PTL

(* As long as no call of sendReport failed after its write, the answer it  *)
(* reads is its own and nothing is left over (AcknowledgementsPair).       *)
THEOREM OwnAcknowledgement == Spec => []AcknowledgementsPair
<1>1. IInv => AcknowledgementsPair
  <2> SUFFICES ASSUME IInv, clean, pc = "idle"
               PROVE  (outcome = "nil" => ackOf = calls) /\ owed \cup input = {}
    BY DEF AcknowledgementsPair
  <2>1. op = "write" /\ request = "none"
    BY DEF IInv, Calling, InCall
  <2> QED
    BY <2>1 DEF IInv, Paired
<1> QED
  BY <1>1, InvariantHolds, PTL

(* After a call of overlappedIO that waited for its request, Windows has   *)
(* none of its buffers any more (BuffersReleased).                         *)
THEOREM NoBufferLeft == Spec => []BuffersReleased
<1>1. IInv => BuffersReleased
  <2> SUFFICES ASSUME IInv, pc = "idle", ~gaveUp
               PROVE  writes \cup reads = {}
    BY DEF BuffersReleased
  <2>1. request = "none"
    BY DEF IInv, Calling, InCall
  <2> QED
    BY <2>1 DEF IInv, Held, Pending
<1> QED
  BY <1>1, InvariantHolds, PTL

-----------------------------------------------------------------------------
(* A device is a ColorKeyboard.  What Windows still has to write is newer  *)
(* than what the keyboard shows, so it never goes back to an older report. *)

InOrder ==
  /\ \A c \in writes : shown < c
  /\ shown <= calls
  /\ pc = "begin" /\ op = "write" => shown < calls

Told == InOrder' /\ [Keyboard!KNext]_(Keyboard!kvars)

(* A step that neither begins nor ends a call, nor shows anything.         *)
LEMMA QuietStep ==
  ASSUME InOrder, UNCHANGED <<calls, outcome, shown>>, writes' \subseteq writes,
         pc' \in InCall <=> pc \in InCall,
         pc' = "begin" /\ op' = "write" => pc = "begin" /\ op = "write"
  PROVE  Told
<1>1. InOrder'
  BY DEF InOrder
<1>2. (pc \in InCall)' = (pc \in InCall)
  BY DEF InCall
<1>3. UNCHANGED Keyboard!kvars
  BY <1>2 DEF Keyboard!kvars
<1> QED
  BY <1>1, <1>3 DEF Told

(* A call that answers: nil only when its own report is shown.             *)
LEMMA AnswerStep ==
  ASSUME InOrder, pc \in InCall, NEW err \in {"nil", "error"}, NEW sent,
         Return(err, sent), UNCHANGED <<writes, shown>>,
         err = "nil" => shown = calls
  PROVE  Told
<1>1. InOrder'
  BY DEF InOrder, Return
<1>2. (pc \in InCall)' = FALSE /\ (pc \in InCall) = TRUE
  BY DEF Return, InCall
<1>3. Keyboard!Answers
  BY <1>2 DEF Keyboard!Answers, Return
<1> QED
  BY <1>1, <1>3 DEF Told, Keyboard!KNext

LEMMA BeginStep == ASSUME IInv, InOrder, sendReport PROVE Told
<1>1. calls \in Nat /\ shown \in Nat
  BY MaxCallsAssumption DEF IInv, Types
<1>2. \A c \in writes : c \in Nat
  BY DEF IInv, Types, Reports
<1>3. InOrder'
  BY <1>1, <1>2 DEF InOrder, sendReport, kernelVars
<1>4. (pc \in InCall) = FALSE /\ (pc \in InCall)' = TRUE
  BY DEF sendReport, InCall
<1>5. Keyboard!Begins
  BY <1>4 DEF Keyboard!Begins, sendReport
<1> QED
  BY <1>3, <1>5 DEF Told, Keyboard!KNext

LEMMA WriteIsIssued == ASSUME IInv, InOrder, Issue PROVE Told
<1>1. pc = "begin" /\ pc \in InCall
  BY DEF Issue, InCall
<1>2. UNCHANGED shown
  BY DEF Issue, keyboardVars
<1>3. CASE Return("error", op = "read") /\ UNCHANGED <<writes, reads>>
  BY <1>1, <1>2, <1>3, AnswerStep
<1>4. CASE ~(Return("error", op = "read") /\ UNCHANGED <<writes, reads>>)
  <2>1. /\ pc' = "issued" /\ pc' \in InCall
        /\ writes' = IF op = "write" THEN writes \cup {calls} ELSE writes
        /\ UNCHANGED <<calls, op, outcome>>
    BY <1>4 DEF Issue, InCall
  <2>2. InOrder'
    BY <1>1, <1>2, <2>1 DEF InOrder
  <2>3. (pc \in InCall)' = (pc \in InCall)
    BY <1>1, <2>1 DEF InCall
  <2>4. UNCHANGED Keyboard!kvars
    BY <1>2, <2>1, <2>3 DEF Keyboard!kvars
  <2> QED
    BY <2>2, <2>4 DEF Told
<1> QED
  BY <1>3, <1>4

LEMMA ResultStep ==
  ASSUME IInv, InOrder, pc \in InCall, Completed, UNCHANGED <<writes, shown>>
  PROVE  Told
<1>1. CASE request = "ok" /\ op = "read" /\ Return("nil", TRUE)
  <2>1. shown = calls
    BY <1>1 DEF IInv, Taken
  <2> QED
    BY <1>1, <2>1, AnswerStep
<1>2. CASE request \in {"short", "failed"} /\ Return("error", TRUE)
  BY <1>2, AnswerStep
<1>3. ASSUME op' = "read", pc' = "begin", UNCHANGED <<calls, outcome>> PROVE Told
  BY <1>3, QuietStep DEF InCall
<1> QED
  BY <1>1, <1>2, <1>3 DEF Completed

LEMMA WaitingStep ==
  ASSUME IInv, InOrder,
         OperationReturns \/ contextTimeout \/ Wait \/ WaitFails \/ Drain
  PROVE  Told
<1>1. pc \in InCall /\ UNCHANGED <<writes, shown>>
  BY DEF OperationReturns, contextTimeout, Wait, WaitFails, Drain, InCall,
         kernelVars, keyboardVars
<1>2. CASE Completed
  BY <1>1, <1>2, ResultStep
<1>3. CASE Return("error", TRUE)
  BY <1>1, <1>3, AnswerStep
<1>4. CASE pc' \in {"timeout", "wait", "drain"} /\ UNCHANGED <<calls, outcome>>
  BY <1>1, <1>4, QuietStep DEF InCall
<1> QED
  BY <1>2, <1>3, <1>4
     DEF OperationReturns, contextTimeout, Wait, WaitFails, Drain, Abandon

(* The first write of the queue is newer than what is shown, and all the   *)
(* others are newer than it.                                               *)
LEMMA ShowsStep == ASSUME IInv, InOrder, WriteEnds PROVE Told
<1> PICK c \in writes : /\ First(c, writes)
                        /\ Ends("write", c, "ok")
                        /\ shown' = c
  BY DEF WriteEnds
<1>1. UNCHANGED <<pc, op, calls, outcome>> /\ writes' = writes \ {c}
  BY DEF Ends
<1>2. calls \in Nat /\ shown \in Nat
  BY MaxCallsAssumption DEF IInv, Types
<1>3. writes \subseteq 1 .. calls
  BY DEF IInv, Calling
<1>4. c \in shown + 1 .. calls
  BY <1>2, <1>3 DEF InOrder
<1>5. \A d \in writes' : c < d
  BY <1>1, <1>2, <1>3 DEF First
<1>6. pc = "begin" /\ op = "write" => c < calls
  BY <1>2, <1>3 DEF IInv, Calling
<1>7. InOrder'
  BY <1>1, <1>2, <1>4, <1>5, <1>6 DEF InOrder
<1>8. (pc \in InCall)' = (pc \in InCall)
  BY <1>1 DEF InCall
<1>9. Keyboard!Shows
  BY <1>1, <1>4, <1>8 DEF Keyboard!Shows
<1> QED
  BY <1>7, <1>9 DEF Told, Keyboard!KNext

LEMMA OthersAreQuiet ==
  ASSUME IInv, InOrder,
         \/ Opens \/ Close \/ ReadEnds \/ RequestFails \/ CancellationEnds
         \/ Acknowledges \/ Unplug \/ DeadlinePasses \/ Cancel \/ UNCHANGED vars
  PROVE  Told
<1>1. CASE Opens
  <2>1. /\ UNCHANGED <<callVars, kernelVars, keyboardVars>>
        /\ pc \notin InCall /\ pc' \notin InCall
    BY <1>1 DEF Opens, Enumerate, QueryInterface, ReadMetadata, Enumerated,
                SelectCandidate, OpenConnection, CheckLengths, Leave, InCall
  <2> QED
    BY <2>1, QuietStep DEF callVars, kernelVars, keyboardVars, InCall
<1>2. CASE Close
  BY <1>2, QuietStep DEF Close, Leave, InCall, callVars, keyboardVars
<1>3. CASE ReadEnds
  BY <1>3, QuietStep DEF ReadEnds, Ends
<1>4. CASE RequestFails \/ CancellationEnds
  <2>1. /\ UNCHANGED <<pc, op, calls, outcome>> /\ writes' \subseteq writes
        /\ UNCHANGED keyboardVars
    BY <1>4 DEF RequestFails, CancellationEnds, Ends
  <2> QED
    BY <2>1, QuietStep DEF keyboardVars
<1>5. CASE Acknowledges \/ Unplug
  BY <1>5, QuietStep DEF Acknowledges, Unplug, callVars, kernelVars
<1>6. CASE DeadlinePasses \/ Cancel
  BY <1>6, QuietStep DEF DeadlinePasses, Cancel, callVars, kernelVars, keyboardVars
<1>7. CASE UNCHANGED vars
  BY <1>7, QuietStep DEF vars, callVars, kernelVars, keyboardVars
<1> QED
  BY <1>1, <1>2, <1>3, <1>4, <1>5, <1>6, <1>7

(* A device is a ColorKeyboard (KeyboardSpec), for any number of calls:    *)
(* whatever is late, cancelled, abandoned or lost between overlappedIO,    *)
(* Windows and the keyboard, reports are shown in the order of the calls,  *)
(* and a nil of sendReport holds until the next one.                       *)
THEOREM Refinement == Spec => KeyboardSpec
<1>1. Init => InOrder /\ Keyboard!KInit
  <2> SUFFICES ASSUME Init PROVE InOrder /\ Keyboard!KInit
    OBVIOUS
  <2>1. (pc \in InCall) = FALSE
    BY DEF Init, InCall
  <2> QED
    BY <2>1 DEF Init, InOrder, Keyboard!KInit
<1>2. IInv /\ InOrder /\ [Next]_vars => Told
  BY BeginStep, WriteIsIssued, WaitingStep, ShowsStep, OthersAreQuiet
     DEF Next, InputOutput, Windows
<1>3. IInv /\ InOrder /\ [Next]_vars
        => InOrder' /\ [Keyboard!KNext]_(Keyboard!kvars)
  BY <1>2 DEF Told
<1> QED
  BY <1>1, <1>3, InvariantHolds, PTL DEF Spec, KeyboardSpec, Keyboard!KSpec

-----------------------------------------------------------------------------
(* Drain, the one wait without a deadline, waits only for a request that   *)
(* is complete or that CancelIoEx was called for.                          *)
DrainCancelled ==
  pc = "drain" /\ request = "pending" => <<op, calls>> \in revoked

LEMMA DrainCancelledStep ==
  ASSUME DrainCancelled, [Next]_vars PROVE DrainCancelled'
<1> USE DEF DrainCancelled
<1>1. CASE Opens \/ Close
  BY <1>1 DEF Opens, Enumerate, QueryInterface, ReadMetadata, Enumerated,
              SelectCandidate, OpenConnection, CheckLengths, Close, Leave
<1>2. CASE \/ sendReport \/ Issue \/ OperationReturns \/ contextTimeout
            \/ WaitFails \/ Drain
  BY <1>2 DEF sendReport, Issue, OperationReturns, contextTimeout, WaitFails, Drain,
              Completed, Abandon, Return
<1>3. CASE Wait
  BY <1>3 DEF Wait, Completed, CancelIo, Return
<1>4. CASE Windows
  <2>1. ASSUME NEW o, NEW c, NEW status \in {"ok", "short", "failed"},
               Ends(o, c, status)
        PROVE  DrainCancelled'
    <3> SUFFICES ASSUME pc' = "drain", request' = "pending"
                 PROVE  <<op', calls'>> \in revoked'
      OBVIOUS
    <3>1. pc = "drain" /\ request = "pending" /\ ~(op = o /\ calls = c)
      BY <2>1 DEF Ends, InCall
    <3>2. <<op, calls>> # <<o, c>>
      BY <3>1
    <3> QED
      BY <2>1, <3>1, <3>2 DEF Ends
  <2>2. \E o, c : \E status \in {"ok", "short", "failed"} : Ends(o, c, status)
    BY <1>4 DEF Windows, WriteEnds, ReadEnds, RequestFails, CancellationEnds
  <2> QED
    BY <2>1, <2>2
<1>5. CASE Acknowledges \/ Unplug \/ DeadlinePasses \/ Cancel \/ UNCHANGED vars
  BY <1>5 DEF Acknowledges, Unplug, DeadlinePasses, Cancel, vars, callVars,
              kernelVars
<1> QED
  BY <1>1, <1>2, <1>3, <1>4, <1>5 DEF Next, InputOutput

(* overlappedIO never waits without limit for a keyboard that may not      *)
(* answer (the safety part of CallsReturn): GetOverlappedResult comes      *)
(* after a cancellation that Windows will end.                             *)
THEOREM DrainEnds == Spec => []DrainCancelled
<1>1. Init => DrainCancelled
  BY DEF Init, DrainCancelled
<1> QED
  BY <1>1, DrainCancelledStep, PTL DEF Spec
=============================================================================
