---------------------------- MODULE Runtime_proof ----------------------------
(***************************************************************************)
(* What TLAPS proves of Runtime, for every set of layouts and of faults.   *)
(***************************************************************************)
EXTENDS Runtime, TLAPS

(* The variables that are not Boolean, and then those that are.            *)
Types ==
  /\ layout \in Layouts
  /\ listener \in {"off", "loop", "trySend", "drain", "send", "unhook",
                   "closeTSF", "closeEvents", "closeErrors", "closeDone",
                   "done"}
  /\ hook \in {"none", "active", "orphan"}
  /\ messages \in SUBSET {"resync", "close"}
  /\ lastID \in Layouts \cup {NoLayout}
  /\ events \in Layouts \cup {NoLayout}
  /\ rpc \in RPCs
  /\ stage \in {"initial", "resync", "event"}
  /\ target \in Layouts \cup {NoLayout}
  /\ applied \in Layouts \cup {NoLayout}
  /\ shown \in Layouts \cup {NoLayout}
  /\ device \in {"none", "open", "closed"}
  /\ result \in {"running", "nil", "error"}

Booleans ==
  /\ cancelled \in BOOLEAN /\ tsf \in BOOLEAN /\ errors \in BOOLEAN
  /\ loopErr \in BOOLEAN /\ closing \in BOOLEAN /\ missed \in BOOLEAN
  /\ eventsNil \in BOOLEAN /\ errorsNil \in BOOLEAN
  /\ ready \in BOOLEAN /\ failed \in BOOLEAN

(* Run has not come to Subscribe.                                          *)
Before ==
  \/ rpc \in {"discover", "config", "open", "subscribe"}
  \/ (rpc \in {"write", "ack"} /\ stage = "initial")

(* What the place of Run says about the listener and the device.           *)
Control ==
  /\ Before => listener = "off"
  /\ rpc \in {"discover", "config", "open"}
       => device = "none" /\ stage = "initial"
  /\ rpc \in {"closeDevice", "returned"} => listener \in {"off", "done"}
  /\ rpc = "returned" => device # "open"
  /\ rpc \in {"config", "open", "write"} => target \in Layouts

(* The hook is the active one while its thread runs; one that could not be *)
(* taken away is an error of the listener, and Run returns it.             *)
Hooked ==
  /\ hook = "active" <=> Attached \/ listener = "unhook"
  /\ hook = "orphan" => loopErr
  /\ rpc \in {"closeDevice", "returned"} /\ hook = "orphan"
       => result = "error"

(* lastID is what the listener handed over last: it is in the channel, or  *)
(* Run has taken it.  Nobody takes it before the second read.              *)
Channel ==
  /\ listener = "off" => lastID = NoLayout /\ events = NoLayout
  /\ listener \in {"trySend", "drain", "send"} => lastID \in Layouts
  /\ listener = "send" => events = NoLayout
  /\ listener = "loop" => events \in {lastID, NoLayout}
  /\ listener = "loop" /\ events = NoLayout /\ lastID # NoLayout
       => target = lastID /\ rpc # "resync"

(* NoLostChange holds as soon as the second read is done, and until then   *)
(* of what the listener has published.                                     *)
Followed ==
  /\ Attached /\ ~missed
  /\ rpc = "resync" => lastID # NoLayout
  /\ rpc \in {"resync", "write", "ack", "ready", "select"}
  => layout = Newest \/ "resync" \in messages

(* The keyboard shows what Run applied, or has just written.               *)
Applied ==
  /\ rpc \in {"ready", "select"} /\ ~failed => applied = target
  /\ "ack" \notin Faults /\ ~cancelled
       => shown = IF rpc = "ack" THEN target ELSE applied

IInv ==
  Types /\ Booleans /\ Control /\ Hooked /\ Channel /\ Followed /\ Applied

(* Posting WM_CLOSE, or failing to, keeps the types.                       *)
LEMMA PostCloseTypes ==
  Types /\ PostClose => messages' \in SUBSET {"resync", "close"}
<1> SUFFICES ASSUME Types, PostClose
             PROVE  messages' \in SUBSET {"resync", "close"}
  OBVIOUS
<1>1. CASE messages' = IF Attached THEN messages \cup {"close"} ELSE messages
  BY <1>1 DEF Types
<1>2. CASE UNCHANGED messages
  BY <1>2 DEF Types
<1> QED BY <1>1, <1>2 DEF PostClose

(* Every step keeps the types.                                             *)
LEMMA TypesStep == IInv /\ [Next]_vars => Types'
<1> SUFFICES ASSUME Types, Control, [Next]_vars PROVE Types'
  BY DEF IInv
<1> USE LayoutsAssumption DEF Types, RPCs, Control, subscriptionVars,
                          listenerVars, runVars
<1>1. CASE Run
  <2>1. CASE Discover
    BY <2>1 DEF Discover, CallSucceeds, Fail
  <2>2. CASE LoadConfig
    BY <2>2 DEF LoadConfig, CallSucceeds, Goto, Fail
  <2>3. CASE OpenDevice
    BY <2>3 DEF OpenDevice, CallSucceeds, Fail
  <2>4. CASE WriteReport
    BY <2>4 DEF WriteReport
  <2>5. CASE WriteFails
    BY <2>5 DEF WriteFails, ApplyFails
  <2>6. CASE ReadAcknowledgement
    BY <2>6 DEF ReadAcknowledgement, AfterApply
  <2>7. CASE AcknowledgementFails
    BY <2>7 DEF AcknowledgementFails, ApplyFails
  <2>8. CASE Subscribe
    BY <2>8 DEF Subscribe, Registers, Goto
  <2>9. CASE SubscribeFails
    BY <2>9 DEF SubscribeFails, Fail
  <2>10. CASE Resynchronize
    BY <2>10 DEF Resynchronize, CallSucceeds, Fail
  <2>11. CASE Ready
    BY <2>11 DEF Ready, Fail
  <2>12. CASE TakeDone
    BY <2>12 DEF TakeDone, Looping
  <2>13. CASE TakeEvent
    BY <2>13 DEF TakeEvent, Looping
  <2>14. CASE TakeEventsClosed
    BY <2>14 DEF TakeEventsClosed, Looping
  <2>15. CASE TakeError
    BY <2>15 DEF TakeError, Looping
  <2>16. CASE TakeErrorsClosed
    BY <2>16 DEF TakeErrorsClosed, Looping
  <2>17. CASE LoopEnds
    BY <2>17 DEF LoopEnds, Fail
  <2>18. CASE CloseSubscription
    <3>1. CASE PostClose
      BY <2>18, <3>1, PostCloseTypes DEF CloseSubscription, PostClose, Goto
    <3>2. CASE UNCHANGED subscriptionVars
      BY <2>18, <3>2 DEF CloseSubscription, Goto
    <3> QED BY <2>18, <3>1, <3>2 DEF CloseSubscription
  <2>19. CASE SubscriptionClosed
    BY <2>19 DEF SubscriptionClosed
  <2>20. CASE CloseDevice
    BY <2>20 DEF CloseDevice
  <2> QED BY <1>1, <2>1, <2>2, <2>3, <2>4, <2>5, <2>6, <2>7, <2>8, <2>9, <2>10,
      <2>11, <2>12, <2>13, <2>14, <2>15, <2>16, <2>17, <2>18, <2>19, <2>20 DEF
      Run
<1>2. CASE messageLoop /\ UNCHANGED runVars
  <2>1. CASE publishDeduplicated
    BY <1>2, <2>1 DEF publishDeduplicated
  <2>2. CASE publish
    BY <1>2, <2>2 DEF publish
  <2>3. CASE publishCurrent_ResolveFails
    BY <1>2, <2>3 DEF publishCurrent_ResolveFails
  <2>4. CASE trySend
    BY <1>2, <2>4 DEF trySend
  <2>5. CASE drain
    BY <1>2, <2>5 DEF drain
  <2>6. CASE send
    BY <1>2, <2>6 DEF send
  <2>7. CASE DispatchClose
    BY <1>2, <2>7 DEF DispatchClose
  <2>8. CASE GetMessageFails
    BY <1>2, <2>8 DEF GetMessageFails
  <2>9. CASE uninstallKeyboardHook
    BY <1>2, <2>9 DEF uninstallKeyboardHook
  <2>10. CASE closeTSF
    BY <1>2, <2>10 DEF closeTSF
  <2>11. CASE closeChannels
    BY <1>2, <2>11 DEF closeChannels
  <2> QED BY <1>2, <2>1, <2>2, <2>3, <2>4, <2>5, <2>6, <2>7, <2>8, <2>9, <2>10,
      <2>11 DEF messageLoop, Dispatches
<1>3. CASE CtxCloses /\ UNCHANGED runVars
  BY <1>3, PostCloseTypes DEF CtxCloses, PostClose
<1>4. CASE Windows /\ UNCHANGED runVars
  <2>1. ASSUME NEW l \in Layouts, LayoutChanges(l) PROVE Types'
    BY <1>4, <2>1 DEF LayoutChanges
  <2>2. ASSUME NEW l \in Layouts, lowLevelKeyboardProc_PostFails(l)
        PROVE  Types'
    BY <1>4, <2>2 DEF lowLevelKeyboardProc_PostFails
  <2>3. CASE ShellMessage
    BY <1>4, <2>3 DEF ShellMessage
  <2>4. CASE Cancel
    BY <1>4, <2>4 DEF Cancel
  <2> QED BY <1>4, <2>1, <2>2, <2>3, <2>4 DEF Windows
<1>5. CASE UNCHANGED vars
  BY <1>5 DEF vars
<1> QED BY <1>1, <1>2, <1>3, <1>4, <1>5 DEF Next

(* Every step keeps the Boolean variables Boolean.                         *)
LEMMA BooleansStep == IInv /\ [Next]_vars => Booleans'
<1> SUFFICES ASSUME Booleans, [Next]_vars PROVE Booleans'
  BY DEF IInv
<1> USE DEF Booleans, subscriptionVars, listenerVars, runVars
<1>1. CASE Run
  <2>1. CASE Discover
    BY <2>1 DEF Discover, CallSucceeds, Fail
  <2>2. CASE LoadConfig
    BY <2>2 DEF LoadConfig, CallSucceeds, Goto, Fail
  <2>3. CASE OpenDevice
    BY <2>3 DEF OpenDevice, CallSucceeds, Fail
  <2>4. CASE WriteReport
    BY <2>4 DEF WriteReport
  <2>5. CASE WriteFails
    BY <2>5 DEF WriteFails, ApplyFails
  <2>6. CASE ReadAcknowledgement
    BY <2>6 DEF ReadAcknowledgement, AfterApply
  <2>7. CASE AcknowledgementFails
    BY <2>7 DEF AcknowledgementFails, ApplyFails
  <2>8. CASE Subscribe
    BY <2>8 DEF Subscribe, Registers, Goto
  <2>9. CASE SubscribeFails
    BY <2>9 DEF SubscribeFails, Fail
  <2>10. CASE Resynchronize
    BY <2>10 DEF Resynchronize, CallSucceeds, Fail
  <2>11. CASE Ready
    BY <2>11, ZenonT(60) DEF Ready, Fail
  <2>12. CASE TakeDone
    BY <2>12 DEF TakeDone, Looping
  <2>13. CASE TakeEvent
    BY <2>13 DEF TakeEvent, Looping
  <2>14. CASE TakeEventsClosed
    BY <2>14 DEF TakeEventsClosed, Looping
  <2>15. CASE TakeError
    BY <2>15 DEF TakeError, Looping
  <2>16. CASE TakeErrorsClosed
    BY <2>16 DEF TakeErrorsClosed, Looping
  <2>17. CASE LoopEnds
    BY <2>17 DEF LoopEnds, Fail
  <2>18. CASE CloseSubscription
    BY <2>18 DEF CloseSubscription, PostClose, Goto
  <2>19. CASE SubscriptionClosed
    BY <2>19 DEF SubscriptionClosed
  <2>20. CASE CloseDevice
    BY <2>20 DEF CloseDevice
  <2> QED BY <1>1, <2>1, <2>2, <2>3, <2>4, <2>5, <2>6, <2>7, <2>8, <2>9, <2>10,
      <2>11, <2>12, <2>13, <2>14, <2>15, <2>16, <2>17, <2>18, <2>19, <2>20 DEF
      Run
<1>2. CASE messageLoop /\ UNCHANGED runVars
  <2>1. CASE publishDeduplicated
    BY <1>2, <2>1 DEF publishDeduplicated
  <2>2. CASE publish
    BY <1>2, <2>2 DEF publish
  <2>3. CASE publishCurrent_ResolveFails
    BY <1>2, <2>3 DEF publishCurrent_ResolveFails
  <2>4. CASE trySend
    BY <1>2, <2>4 DEF trySend
  <2>5. CASE drain
    BY <1>2, <2>5 DEF drain
  <2>6. CASE send
    BY <1>2, <2>6 DEF send
  <2>7. CASE DispatchClose
    BY <1>2, <2>7 DEF DispatchClose
  <2>8. CASE GetMessageFails
    BY <1>2, <2>8 DEF GetMessageFails
  <2>9. CASE uninstallKeyboardHook
    BY <1>2, <2>9 DEF uninstallKeyboardHook
  <2>10. CASE closeTSF
    BY <1>2, <2>10 DEF closeTSF
  <2>11. CASE closeChannels
    BY <1>2, <2>11 DEF closeChannels
  <2> QED BY <1>2, <2>1, <2>2, <2>3, <2>4, <2>5, <2>6, <2>7, <2>8, <2>9, <2>10,
      <2>11 DEF messageLoop, Dispatches
<1>3. CASE CtxCloses /\ UNCHANGED runVars
  BY <1>3 DEF CtxCloses, PostClose
<1>4. CASE Windows /\ UNCHANGED runVars
  <2>1. ASSUME NEW l \in Layouts, LayoutChanges(l) PROVE Booleans'
    BY <1>4, <2>1 DEF LayoutChanges
  <2>2. ASSUME NEW l \in Layouts, lowLevelKeyboardProc_PostFails(l)
        PROVE  Booleans'
    BY <1>4, <2>2 DEF lowLevelKeyboardProc_PostFails
  <2>3. CASE ShellMessage
    BY <1>4, <2>3 DEF ShellMessage
  <2>4. CASE Cancel
    BY <1>4, <2>4 DEF Cancel
  <2> QED BY <1>4, <2>1, <2>2, <2>3, <2>4 DEF Windows
<1>5. CASE UNCHANGED vars
  BY <1>5 DEF vars
<1> QED BY <1>1, <1>2, <1>3, <1>4, <1>5 DEF Next

(* Run starts the listener once and waits for its end.                     *)
LEMMA ControlStep == IInv /\ [Next]_vars => Control'
<1> SUFFICES ASSUME Types, Control, [Next]_vars PROVE Control'
  BY DEF IInv
<1> USE LayoutsAssumption DEF Types, RPCs, Control, Before, Attached,
                          subscriptionVars, listenerVars, runVars
<1>1. CASE Run
  <2>1. CASE Discover
    BY <2>1 DEF Discover, CallSucceeds, Fail
  <2>2. CASE LoadConfig
    BY <2>2 DEF LoadConfig, CallSucceeds, Goto, Fail
  <2>3. CASE OpenDevice
    BY <2>3 DEF OpenDevice, CallSucceeds, Fail
  <2>4. CASE WriteReport
    BY <2>4 DEF WriteReport
  <2>5. CASE WriteFails
    BY <2>5 DEF WriteFails, ApplyFails
  <2>6. CASE ReadAcknowledgement
    BY <2>6 DEF ReadAcknowledgement, AfterApply
  <2>7. CASE AcknowledgementFails
    BY <2>7 DEF AcknowledgementFails, ApplyFails
  <2>8. CASE Subscribe
    BY <2>8 DEF Subscribe, Registers, Goto
  <2>9. CASE SubscribeFails
    BY <2>9 DEF SubscribeFails, Fail
  <2>10. CASE Resynchronize
    BY <2>10 DEF Resynchronize, CallSucceeds, Fail
  <2>11. CASE Ready
    BY <2>11 DEF Ready, Fail
  <2>12. CASE TakeDone
    BY <2>12 DEF TakeDone, Looping
  <2>13. CASE TakeEvent
    BY <2>13 DEF TakeEvent, Looping
  <2>14. CASE TakeEventsClosed
    BY <2>14 DEF TakeEventsClosed, Looping
  <2>15. CASE TakeError
    BY <2>15 DEF TakeError, Looping
  <2>16. CASE TakeErrorsClosed
    BY <2>16 DEF TakeErrorsClosed, Looping
  <2>17. CASE LoopEnds
    BY <2>17 DEF LoopEnds, Fail
  <2>18. CASE CloseSubscription
    BY <2>18 DEF CloseSubscription, PostClose, Goto
  <2>19. CASE SubscriptionClosed
    BY <2>19 DEF SubscriptionClosed
  <2>20. CASE CloseDevice
    BY <2>20 DEF CloseDevice
  <2> QED BY <1>1, <2>1, <2>2, <2>3, <2>4, <2>5, <2>6, <2>7, <2>8, <2>9, <2>10,
      <2>11, <2>12, <2>13, <2>14, <2>15, <2>16, <2>17, <2>18, <2>19, <2>20 DEF
      Run
<1>2. CASE messageLoop /\ UNCHANGED runVars
  <2>1. CASE publishDeduplicated
    BY <1>2, <2>1 DEF publishDeduplicated
  <2>2. CASE publish
    BY <1>2, <2>2 DEF publish
  <2>3. CASE publishCurrent_ResolveFails
    BY <1>2, <2>3 DEF publishCurrent_ResolveFails
  <2>4. CASE trySend
    BY <1>2, <2>4 DEF trySend
  <2>5. CASE drain
    BY <1>2, <2>5 DEF drain
  <2>6. CASE send
    BY <1>2, <2>6 DEF send
  <2>7. CASE DispatchClose
    BY <1>2, <2>7 DEF DispatchClose
  <2>8. CASE GetMessageFails
    BY <1>2, <2>8 DEF GetMessageFails
  <2>9. CASE uninstallKeyboardHook
    BY <1>2, <2>9 DEF uninstallKeyboardHook
  <2>10. CASE closeTSF
    BY <1>2, <2>10 DEF closeTSF
  <2>11. CASE closeChannels
    BY <1>2, <2>11 DEF closeChannels
  <2> QED BY <1>2, <2>1, <2>2, <2>3, <2>4, <2>5, <2>6, <2>7, <2>8, <2>9, <2>10,
      <2>11 DEF messageLoop, Dispatches
<1>3. CASE CtxCloses /\ UNCHANGED runVars
  BY <1>3 DEF CtxCloses, PostClose
<1>4. CASE Windows /\ UNCHANGED runVars
  <2>1. ASSUME NEW l \in Layouts, LayoutChanges(l) PROVE Control'
    BY <1>4, <2>1 DEF LayoutChanges
  <2>2. ASSUME NEW l \in Layouts, lowLevelKeyboardProc_PostFails(l)
        PROVE  Control'
    BY <1>4, <2>2 DEF lowLevelKeyboardProc_PostFails
  <2>3. CASE ShellMessage
    BY <1>4, <2>3 DEF ShellMessage
  <2>4. CASE Cancel
    BY <1>4, <2>4 DEF Cancel
  <2> QED BY <1>4, <2>1, <2>2, <2>3, <2>4 DEF Windows
<1>5. CASE UNCHANGED vars
  BY <1>5 DEF vars
<1> QED BY <1>1, <1>2, <1>3, <1>4, <1>5 DEF Next

(* The hook is taken away once, or its failure is kept for Run.            *)
LEMMA HookedStep == IInv /\ [Next]_vars => Hooked'
<1> SUFFICES ASSUME Types, Control, Hooked, [Next]_vars PROVE Hooked'
  BY DEF IInv
<1> USE LayoutsAssumption DEF Types, RPCs, Control, Before, Hooked,
                          Attached, subscriptionVars, listenerVars, runVars
<1>1. CASE Run
  <2>1. CASE Discover
    BY <2>1 DEF Discover, CallSucceeds, Fail
  <2>2. CASE LoadConfig
    BY <2>2 DEF LoadConfig, CallSucceeds, Goto, Fail
  <2>3. CASE OpenDevice
    BY <2>3 DEF OpenDevice, CallSucceeds, Fail
  <2>4. CASE WriteReport
    BY <2>4 DEF WriteReport
  <2>5. CASE WriteFails
    BY <2>5 DEF WriteFails, ApplyFails
  <2>6. CASE ReadAcknowledgement
    BY <2>6 DEF ReadAcknowledgement, AfterApply
  <2>7. CASE AcknowledgementFails
    BY <2>7 DEF AcknowledgementFails, ApplyFails
  <2>8. CASE Subscribe
    BY <2>8 DEF Subscribe, Registers, Goto
  <2>9. CASE SubscribeFails
    BY <2>9 DEF SubscribeFails, Fail
  <2>10. CASE Resynchronize
    BY <2>10 DEF Resynchronize, CallSucceeds, Fail
  <2>11. CASE Ready
    BY <2>11 DEF Ready, Fail
  <2>12. CASE TakeDone
    BY <2>12 DEF TakeDone, Looping
  <2>13. CASE TakeEvent
    BY <2>13 DEF TakeEvent, Looping
  <2>14. CASE TakeEventsClosed
    BY <2>14 DEF TakeEventsClosed, Looping
  <2>15. CASE TakeError
    BY <2>15 DEF TakeError, Looping
  <2>16. CASE TakeErrorsClosed
    BY <2>16 DEF TakeErrorsClosed, Looping
  <2>17. CASE LoopEnds
    BY <2>17 DEF LoopEnds, Fail
  <2>18. CASE CloseSubscription
    BY <2>18 DEF CloseSubscription, PostClose, Goto
  <2>19. CASE SubscriptionClosed
    BY <2>19 DEF SubscriptionClosed
  <2>20. CASE CloseDevice
    BY <2>20 DEF CloseDevice
  <2> QED BY <1>1, <2>1, <2>2, <2>3, <2>4, <2>5, <2>6, <2>7, <2>8, <2>9, <2>10,
      <2>11, <2>12, <2>13, <2>14, <2>15, <2>16, <2>17, <2>18, <2>19, <2>20 DEF
      Run
<1>2. CASE messageLoop /\ UNCHANGED runVars
  <2>1. CASE publishDeduplicated
    BY <1>2, <2>1 DEF publishDeduplicated
  <2>2. CASE publish
    BY <1>2, <2>2 DEF publish
  <2>3. CASE publishCurrent_ResolveFails
    BY <1>2, <2>3 DEF publishCurrent_ResolveFails
  <2>4. CASE trySend
    BY <1>2, <2>4 DEF trySend
  <2>5. CASE drain
    BY <1>2, <2>5 DEF drain
  <2>6. CASE send
    BY <1>2, <2>6 DEF send
  <2>7. CASE DispatchClose
    BY <1>2, <2>7 DEF DispatchClose
  <2>8. CASE GetMessageFails
    BY <1>2, <2>8 DEF GetMessageFails
  <2>9. CASE uninstallKeyboardHook
    BY <1>2, <2>9 DEF uninstallKeyboardHook
  <2>10. CASE closeTSF
    BY <1>2, <2>10 DEF closeTSF
  <2>11. CASE closeChannels
    BY <1>2, <2>11 DEF closeChannels
  <2> QED BY <1>2, <2>1, <2>2, <2>3, <2>4, <2>5, <2>6, <2>7, <2>8, <2>9, <2>10,
      <2>11 DEF messageLoop, Dispatches
<1>3. CASE CtxCloses /\ UNCHANGED runVars
  BY <1>3 DEF CtxCloses, PostClose
<1>4. CASE Windows /\ UNCHANGED runVars
  <2>1. ASSUME NEW l \in Layouts, LayoutChanges(l) PROVE Hooked'
    BY <1>4, <2>1 DEF LayoutChanges
  <2>2. ASSUME NEW l \in Layouts, lowLevelKeyboardProc_PostFails(l)
        PROVE  Hooked'
    BY <1>4, <2>2 DEF lowLevelKeyboardProc_PostFails
  <2>3. CASE ShellMessage
    BY <1>4, <2>3 DEF ShellMessage
  <2>4. CASE Cancel
    BY <1>4, <2>4 DEF Cancel
  <2> QED BY <1>4, <2>1, <2>2, <2>3, <2>4 DEF Windows
<1>5. CASE UNCHANGED vars
  BY <1>5 DEF vars
<1> QED BY <1>1, <1>2, <1>3, <1>4, <1>5 DEF Next

(* No value handed over by the listener gets lost in the channel.          *)
LEMMA ChannelStep == IInv /\ [Next]_vars => Channel'
<1> SUFFICES ASSUME Types, Control, Channel, [Next]_vars PROVE Channel'
  BY DEF IInv
<1> USE LayoutsAssumption DEF Types, Control, Before, Channel, Looping,
                          Registers, subscriptionVars, listenerVars, runVars
<1>1. CASE Run
  <2>1. CASE Discover
    BY <2>1 DEF Discover, CallSucceeds, Fail
  <2>2. CASE LoadConfig
    BY <2>2 DEF LoadConfig, CallSucceeds, Goto, Fail
  <2>3. CASE OpenDevice
    BY <2>3 DEF OpenDevice, CallSucceeds, Fail
  <2>4. CASE WriteReport
    BY <2>4 DEF WriteReport
  <2>5. CASE WriteFails
    BY <2>5 DEF WriteFails, ApplyFails
  <2>6. CASE ReadAcknowledgement
    BY <2>6 DEF ReadAcknowledgement, AfterApply
  <2>7. CASE AcknowledgementFails
    BY <2>7 DEF AcknowledgementFails, ApplyFails
  <2>8. CASE Subscribe
    BY <2>8 DEF Subscribe, Registers, Goto
  <2>9. CASE SubscribeFails
    BY <2>9 DEF SubscribeFails, Fail
  <2>10. CASE Resynchronize
    BY <2>10 DEF Resynchronize, CallSucceeds, Fail
  <2>11. CASE Ready
    BY <2>11 DEF Ready, Fail
  <2>12. CASE TakeDone
    BY <2>12 DEF TakeDone, Looping
  <2>13. CASE TakeEvent
    BY <2>13 DEF TakeEvent, Looping
  <2>14. CASE TakeEventsClosed
    BY <2>14 DEF TakeEventsClosed, Looping
  <2>15. CASE TakeError
    BY <2>15 DEF TakeError, Looping
  <2>16. CASE TakeErrorsClosed
    BY <2>16 DEF TakeErrorsClosed, Looping
  <2>17. CASE LoopEnds
    BY <2>17 DEF LoopEnds, Fail
  <2>18. CASE CloseSubscription
    BY <2>18 DEF CloseSubscription, PostClose, Goto
  <2>19. CASE SubscriptionClosed
    BY <2>19 DEF SubscriptionClosed
  <2>20. CASE CloseDevice
    BY <2>20 DEF CloseDevice
  <2> QED BY <1>1, <2>1, <2>2, <2>3, <2>4, <2>5, <2>6, <2>7, <2>8, <2>9, <2>10,
      <2>11, <2>12, <2>13, <2>14, <2>15, <2>16, <2>17, <2>18, <2>19, <2>20 DEF
      Run
<1>2. CASE messageLoop /\ UNCHANGED runVars
  <2>1. CASE publishDeduplicated
    BY <1>2, <2>1 DEF publishDeduplicated
  <2>2. CASE publish
    BY <1>2, <2>2 DEF publish
  <2>3. CASE publishCurrent_ResolveFails
    BY <1>2, <2>3 DEF publishCurrent_ResolveFails
  <2>4. CASE trySend
    BY <1>2, <2>4 DEF trySend
  <2>5. CASE drain
    BY <1>2, <2>5 DEF drain
  <2>6. CASE send
    BY <1>2, <2>6 DEF send
  <2>7. CASE DispatchClose
    BY <1>2, <2>7 DEF DispatchClose
  <2>8. CASE GetMessageFails
    BY <1>2, <2>8 DEF GetMessageFails
  <2>9. CASE uninstallKeyboardHook
    BY <1>2, <2>9 DEF uninstallKeyboardHook
  <2>10. CASE closeTSF
    BY <1>2, <2>10 DEF closeTSF
  <2>11. CASE closeChannels
    BY <1>2, <2>11 DEF closeChannels
  <2> QED BY <1>2, <2>1, <2>2, <2>3, <2>4, <2>5, <2>6, <2>7, <2>8, <2>9, <2>10,
      <2>11 DEF messageLoop, Dispatches
<1>3. CASE CtxCloses /\ UNCHANGED runVars
  BY <1>3 DEF CtxCloses, PostClose
<1>4. CASE Windows /\ UNCHANGED runVars
  <2>1. ASSUME NEW l \in Layouts, LayoutChanges(l) PROVE Channel'
    BY <1>4, <2>1 DEF LayoutChanges
  <2>2. ASSUME NEW l \in Layouts, lowLevelKeyboardProc_PostFails(l)
        PROVE  Channel'
    BY <1>4, <2>2 DEF lowLevelKeyboardProc_PostFails
  <2>3. CASE ShellMessage
    BY <1>4, <2>3 DEF ShellMessage
  <2>4. CASE Cancel
    BY <1>4, <2>4 DEF Cancel
  <2> QED BY <1>4, <2>1, <2>2, <2>3, <2>4 DEF Windows
<1>5. CASE UNCHANGED vars
  BY <1>5 DEF vars
<1> QED BY <1>1, <1>2, <1>3, <1>4, <1>5 DEF Next

(* No change of layout gets lost on its way to Run.                        *)
LEMMA FollowedStep == IInv /\ [Next]_vars => Followed'
<1> SUFFICES ASSUME Types, Control, Channel, Followed, [Next]_vars
             PROVE  Followed'
  BY DEF IInv
<1> USE LayoutsAssumption DEF Types, Control, Before, Channel, Followed,
                          Newest, Attached, subscriptionVars, listenerVars,
                          runVars
<1>1. CASE Run
  <2>1. CASE Discover
    BY <2>1 DEF Discover, CallSucceeds, Fail
  <2>2. CASE LoadConfig
    BY <2>2 DEF LoadConfig, CallSucceeds, Goto, Fail
  <2>3. CASE OpenDevice
    BY <2>3 DEF OpenDevice, CallSucceeds, Fail
  <2>4. CASE WriteReport
    BY <2>4 DEF WriteReport
  <2>5. CASE WriteFails
    BY <2>5 DEF WriteFails, ApplyFails
  <2>6. CASE ReadAcknowledgement
    BY <2>6 DEF ReadAcknowledgement, AfterApply
  <2>7. CASE AcknowledgementFails
    BY <2>7 DEF AcknowledgementFails, ApplyFails
  <2>8. CASE Subscribe
    BY <2>8 DEF Subscribe, Registers, Goto
  <2>9. CASE SubscribeFails
    BY <2>9 DEF SubscribeFails, Fail
  <2>10. CASE Resynchronize
    BY <2>10 DEF Resynchronize, CallSucceeds, Fail
  <2>11. CASE Ready
    BY <2>11 DEF Ready, Fail
  <2>12. CASE TakeDone
    BY <2>12 DEF TakeDone, Looping
  <2>13. CASE TakeEvent
    BY <2>13 DEF TakeEvent, Looping
  <2>14. CASE TakeEventsClosed
    BY <2>14 DEF TakeEventsClosed, Looping
  <2>15. CASE TakeError
    BY <2>15 DEF TakeError, Looping
  <2>16. CASE TakeErrorsClosed
    BY <2>16 DEF TakeErrorsClosed, Looping
  <2>17. CASE LoopEnds
    BY <2>17 DEF LoopEnds, Fail
  <2>18. CASE CloseSubscription
    BY <2>18 DEF CloseSubscription, PostClose, Goto
  <2>19. CASE SubscriptionClosed
    BY <2>19 DEF SubscriptionClosed
  <2>20. CASE CloseDevice
    BY <2>20 DEF CloseDevice
  <2> QED BY <1>1, <2>1, <2>2, <2>3, <2>4, <2>5, <2>6, <2>7, <2>8, <2>9, <2>10,
      <2>11, <2>12, <2>13, <2>14, <2>15, <2>16, <2>17, <2>18, <2>19, <2>20 DEF
      Run
<1>2. CASE messageLoop /\ UNCHANGED runVars
  <2>1. CASE publishDeduplicated
    BY <1>2, <2>1 DEF publishDeduplicated
  <2>2. CASE publish
    BY <1>2, <2>2 DEF publish
  <2>3. CASE publishCurrent_ResolveFails
    BY <1>2, <2>3 DEF publishCurrent_ResolveFails
  <2>4. CASE trySend
    BY <1>2, <2>4 DEF trySend
  <2>5. CASE drain
    BY <1>2, <2>5 DEF drain
  <2>6. CASE send
    BY <1>2, <2>6 DEF send
  <2>7. CASE DispatchClose
    BY <1>2, <2>7 DEF DispatchClose
  <2>8. CASE GetMessageFails
    BY <1>2, <2>8 DEF GetMessageFails
  <2>9. CASE uninstallKeyboardHook
    BY <1>2, <2>9 DEF uninstallKeyboardHook
  <2>10. CASE closeTSF
    BY <1>2, <2>10 DEF closeTSF
  <2>11. CASE closeChannels
    BY <1>2, <2>11 DEF closeChannels
  <2> QED BY <1>2, <2>1, <2>2, <2>3, <2>4, <2>5, <2>6, <2>7, <2>8, <2>9, <2>10,
      <2>11 DEF messageLoop, Dispatches
<1>3. CASE CtxCloses /\ UNCHANGED runVars
  BY <1>3 DEF CtxCloses, PostClose
<1>4. CASE Windows /\ UNCHANGED runVars
  <2>1. ASSUME NEW l \in Layouts, LayoutChanges(l) PROVE Followed'
    BY <1>4, <2>1 DEF LayoutChanges
  <2>2. ASSUME NEW l \in Layouts, lowLevelKeyboardProc_PostFails(l)
        PROVE  Followed'
    BY <1>4, <2>2 DEF lowLevelKeyboardProc_PostFails
  <2>3. CASE ShellMessage
    BY <1>4, <2>3 DEF ShellMessage
  <2>4. CASE Cancel
    BY <1>4, <2>4 DEF Cancel
  <2> QED BY <1>4, <2>1, <2>2, <2>3, <2>4 DEF Windows
<1>5. CASE UNCHANGED vars
  BY <1>5 DEF vars
<1> QED BY <1>1, <1>2, <1>3, <1>4, <1>5 DEF Next

(* Only an acknowledgement that fails parts the keyboard from Run.         *)
LEMMA AppliedStep == IInv /\ [Next]_vars => Applied'
<1> SUFFICES ASSUME Types, Control, Applied, [Next]_vars PROVE Applied'
  BY DEF IInv
<1> USE LayoutsAssumption DEF Types, Control, Applied, subscriptionVars,
                          listenerVars, runVars
<1>1. CASE Run
  <2>1. CASE Discover
    BY <2>1 DEF Discover, CallSucceeds, Fail
  <2>2. CASE LoadConfig
    BY <2>2 DEF LoadConfig, CallSucceeds, Goto, Fail
  <2>3. CASE OpenDevice
    BY <2>3 DEF OpenDevice, CallSucceeds, Fail
  <2>4. CASE WriteReport
    BY <2>4 DEF WriteReport
  <2>5. CASE WriteFails
    BY <2>5 DEF WriteFails, ApplyFails
  <2>6. CASE ReadAcknowledgement
    BY <2>6 DEF ReadAcknowledgement, AfterApply
  <2>7. CASE AcknowledgementFails
    BY <2>7 DEF AcknowledgementFails, ApplyFails
  <2>8. CASE Subscribe
    BY <2>8 DEF Subscribe, Registers, Goto
  <2>9. CASE SubscribeFails
    BY <2>9 DEF SubscribeFails, Fail
  <2>10. CASE Resynchronize
    BY <2>10 DEF Resynchronize, CallSucceeds, Fail
  <2>11. CASE Ready
    BY <2>11 DEF Ready, Fail
  <2>12. CASE TakeDone
    BY <2>12 DEF TakeDone, Looping
  <2>13. CASE TakeEvent
    BY <2>13 DEF TakeEvent, Looping
  <2>14. CASE TakeEventsClosed
    BY <2>14 DEF TakeEventsClosed, Looping
  <2>15. CASE TakeError
    BY <2>15 DEF TakeError, Looping
  <2>16. CASE TakeErrorsClosed
    BY <2>16 DEF TakeErrorsClosed, Looping
  <2>17. CASE LoopEnds
    BY <2>17 DEF LoopEnds, Fail
  <2>18. CASE CloseSubscription
    BY <2>18 DEF CloseSubscription, PostClose, Goto
  <2>19. CASE SubscriptionClosed
    BY <2>19 DEF SubscriptionClosed
  <2>20. CASE CloseDevice
    BY <2>20 DEF CloseDevice
  <2> QED BY <1>1, <2>1, <2>2, <2>3, <2>4, <2>5, <2>6, <2>7, <2>8, <2>9, <2>10,
      <2>11, <2>12, <2>13, <2>14, <2>15, <2>16, <2>17, <2>18, <2>19, <2>20 DEF
      Run
<1>2. CASE messageLoop /\ UNCHANGED runVars
  <2>1. CASE publishDeduplicated
    BY <1>2, <2>1 DEF publishDeduplicated
  <2>2. CASE publish
    BY <1>2, <2>2 DEF publish
  <2>3. CASE publishCurrent_ResolveFails
    BY <1>2, <2>3 DEF publishCurrent_ResolveFails
  <2>4. CASE trySend
    BY <1>2, <2>4 DEF trySend
  <2>5. CASE drain
    BY <1>2, <2>5 DEF drain
  <2>6. CASE send
    BY <1>2, <2>6 DEF send
  <2>7. CASE DispatchClose
    BY <1>2, <2>7 DEF DispatchClose
  <2>8. CASE GetMessageFails
    BY <1>2, <2>8 DEF GetMessageFails
  <2>9. CASE uninstallKeyboardHook
    BY <1>2, <2>9 DEF uninstallKeyboardHook
  <2>10. CASE closeTSF
    BY <1>2, <2>10 DEF closeTSF
  <2>11. CASE closeChannels
    BY <1>2, <2>11 DEF closeChannels
  <2> QED BY <1>2, <2>1, <2>2, <2>3, <2>4, <2>5, <2>6, <2>7, <2>8, <2>9, <2>10,
      <2>11 DEF messageLoop, Dispatches
<1>3. CASE CtxCloses /\ UNCHANGED runVars
  BY <1>3 DEF CtxCloses, PostClose
<1>4. CASE Windows /\ UNCHANGED runVars
  <2>1. ASSUME NEW l \in Layouts, LayoutChanges(l) PROVE Applied'
    BY <1>4, <2>1 DEF LayoutChanges
  <2>2. ASSUME NEW l \in Layouts, lowLevelKeyboardProc_PostFails(l)
        PROVE  Applied'
    BY <1>4, <2>2 DEF lowLevelKeyboardProc_PostFails
  <2>3. CASE ShellMessage
    BY <1>4, <2>3 DEF ShellMessage
  <2>4. CASE Cancel
    BY <1>4, <2>4 DEF Cancel
  <2> QED BY <1>4, <2>1, <2>2, <2>3, <2>4 DEF Windows
<1>5. CASE UNCHANGED vars
  BY <1>5 DEF vars
<1> QED BY <1>1, <1>2, <1>3, <1>4, <1>5 DEF Next

(* Hence the invariant holds in every state of Run and its listener.       *)
THEOREM InvariantHolds == Spec => []IInv
<1>1. Init => IInv
  <2> SUFFICES ASSUME Init PROVE IInv
    OBVIOUS
  <2>1. Types
    BY DEF Init, SubscriptionInit, Types, RPCs
  <2>2. Booleans
    BY DEF Init, SubscriptionInit, Booleans
  <2>3. Control /\ Hooked /\ Channel /\ Followed /\ Applied
    BY DEF Init, SubscriptionInit, Control, Before, Hooked, Channel, Followed,
           Attached, Applied
  <2> QED BY <2>1, <2>2, <2>3 DEF IInv
<1>2. IInv /\ [Next]_vars => IInv'
  BY TypesStep, BooleansStep, ControlStep, HookedStep, ChannelStep, FollowedStep,
     AppliedStep DEF IInv
<1> QED BY <1>1, <1>2, PTL DEF Spec

(* Every variable stays within its type.                                   *)
THEOREM TypeCorrect == Spec => []TypeOK
<1>1. IInv => TypeOK
  <2> SUFFICES ASSUME IInv PROVE TypeOK
    OBVIOUS
  <2>1. SubscriptionTypeOK
    BY DEF IInv, Types, Booleans, SubscriptionTypeOK
  <2>2. {target, applied, shown} \subseteq Layouts \cup {NoLayout}
    BY DEF IInv, Types
  <2>3. {eventsNil, errorsNil, ready, failed} \subseteq BOOLEAN
    BY Zenon DEF IInv, Booleans
  <2>4. RunTypeOK
    BY <2>2, <2>3 DEF IInv, Types, Control, RunTypeOK
  <2> QED BY <2>1, <2>4 DEF TypeOK
<1> QED BY <1>1, InvariantHolds, PTL

(* A change of layout is with Run, or on its way, or its notification      *)
(* failed.                                                                 *)
THEOREM NothingMissed == Spec => []NoLostChange
<1>1. IInv => NoLostChange
  BY DEF IInv, Followed, NoLostChange
<1> QED BY <1>1, InvariantHolds, PTL

(* Unless the keyboard can take a report whose call fails, it shows what   *)
(* Run heard last (NewestShown).                                           *)
THEOREM ShowsNewest == "ack" \notin Faults => (Spec => []NewestShown)
<1> SUFFICES ASSUME "ack" \notin Faults PROVE Spec => []NewestShown
  OBVIOUS
<1>1. IInv => NewestShown
  BY DEF IInv, Applied, NewestShown
<1> QED BY <1>1, InvariantHolds, PTL

(* Whatever failed, Run returns with the listener ended, the device closed *)
(* and no hook that forwards to a subscription; with one that Windows did  *)
(* not let go, it returns an error.                                        *)
THEOREM Released == Spec => []ReturnReleases
<1>1. IInv => ReturnReleases
  BY DEF IInv, Control, Hooked, Attached, ReturnReleases
<1> QED BY <1>1, InvariantHolds, PTL

-----------------------------------------------------------------------------
(* Run has come back from Subscribe, and not yet from Close.               *)
Subscribed == ~Before /\ rpc \notin {"closeDevice", "returned"}

(* A listener that is to close has been told, unless PostMessage failed.   *)
Told ==
  /\ Subscribed \/ closing => listener # "off"
  /\ "post" \notin Faults /\ closing /\ Attached => "close" \in messages

(* WM_CLOSE stays in the queue of the window until the loop takes it.      *)
LEMMA ToldStep == IInv /\ Told /\ [Next]_vars => Told'
<1> SUFFICES ASSUME Types, Control, Told, [Next]_vars PROVE Told'
  BY DEF IInv
<1> USE LayoutsAssumption DEF Types, RPCs, Control, Before, Attached, Told,
                          Subscribed, subscriptionVars, listenerVars, runVars
<1>1. CASE Run
  <2>1. CASE Discover
    BY <2>1 DEF Discover, CallSucceeds, Fail
  <2>2. CASE LoadConfig
    BY <2>2 DEF LoadConfig, CallSucceeds, Goto, Fail
  <2>3. CASE OpenDevice
    BY <2>3 DEF OpenDevice, CallSucceeds, Fail
  <2>4. CASE WriteReport
    BY <2>4 DEF WriteReport
  <2>5. CASE WriteFails
    BY <2>5 DEF WriteFails, ApplyFails
  <2>6. CASE ReadAcknowledgement
    BY <2>6 DEF ReadAcknowledgement, AfterApply
  <2>7. CASE AcknowledgementFails
    BY <2>7 DEF AcknowledgementFails, ApplyFails
  <2>8. CASE Subscribe
    BY <2>8 DEF Subscribe, Registers, Goto
  <2>9. CASE SubscribeFails
    BY <2>9 DEF SubscribeFails, Fail
  <2>10. CASE Resynchronize
    BY <2>10 DEF Resynchronize, CallSucceeds, Fail
  <2>11. CASE Ready
    BY <2>11 DEF Ready, Fail
  <2>12. CASE TakeDone
    BY <2>12 DEF TakeDone, Looping
  <2>13. CASE TakeEvent
    BY <2>13 DEF TakeEvent, Looping
  <2>14. CASE TakeEventsClosed
    BY <2>14 DEF TakeEventsClosed, Looping
  <2>15. CASE TakeError
    BY <2>15 DEF TakeError, Looping
  <2>16. CASE TakeErrorsClosed
    BY <2>16 DEF TakeErrorsClosed, Looping
  <2>17. CASE LoopEnds
    BY <2>17 DEF LoopEnds, Fail
  <2>18. CASE CloseSubscription
    BY <2>18 DEF CloseSubscription, PostClose, Goto
  <2>19. CASE SubscriptionClosed
    BY <2>19 DEF SubscriptionClosed
  <2>20. CASE CloseDevice
    BY <2>20 DEF CloseDevice
  <2> QED BY <1>1, <2>1, <2>2, <2>3, <2>4, <2>5, <2>6, <2>7, <2>8, <2>9, <2>10,
      <2>11, <2>12, <2>13, <2>14, <2>15, <2>16, <2>17, <2>18, <2>19, <2>20 DEF
      Run
<1>2. CASE messageLoop /\ UNCHANGED runVars
  <2>1. CASE publishDeduplicated
    BY <1>2, <2>1 DEF publishDeduplicated
  <2>2. CASE publish
    BY <1>2, <2>2 DEF publish
  <2>3. CASE publishCurrent_ResolveFails
    BY <1>2, <2>3 DEF publishCurrent_ResolveFails
  <2>4. CASE trySend
    BY <1>2, <2>4 DEF trySend
  <2>5. CASE drain
    BY <1>2, <2>5 DEF drain
  <2>6. CASE send
    BY <1>2, <2>6 DEF send
  <2>7. CASE DispatchClose
    BY <1>2, <2>7 DEF DispatchClose
  <2>8. CASE GetMessageFails
    BY <1>2, <2>8 DEF GetMessageFails
  <2>9. CASE uninstallKeyboardHook
    BY <1>2, <2>9 DEF uninstallKeyboardHook
  <2>10. CASE closeTSF
    BY <1>2, <2>10 DEF closeTSF
  <2>11. CASE closeChannels
    BY <1>2, <2>11 DEF closeChannels
  <2> QED BY <1>2, <2>1, <2>2, <2>3, <2>4, <2>5, <2>6, <2>7, <2>8, <2>9, <2>10,
      <2>11 DEF messageLoop, Dispatches
<1>3. CASE CtxCloses /\ UNCHANGED runVars
  BY <1>3 DEF CtxCloses, PostClose
<1>4. CASE Windows /\ UNCHANGED runVars
  <2>1. ASSUME NEW l \in Layouts, LayoutChanges(l) PROVE Told'
    BY <1>4, <2>1 DEF LayoutChanges
  <2>2. ASSUME NEW l \in Layouts, lowLevelKeyboardProc_PostFails(l)
        PROVE  Told'
    BY <1>4, <2>2 DEF lowLevelKeyboardProc_PostFails
  <2>3. CASE ShellMessage
    BY <1>4, <2>3 DEF ShellMessage
  <2>4. CASE Cancel
    BY <1>4, <2>4 DEF Cancel
  <2> QED BY <1>4, <2>1, <2>2, <2>3, <2>4 DEF Windows
<1>5. CASE UNCHANGED vars
  BY <1>5 DEF vars
<1> QED BY <1>1, <1>2, <1>3, <1>4, <1>5 DEF Next

(* Unless PostMessage fails, no Close waits for a listener nobody told to  *)
(* end: the exception of ShutdownCompletes is that one failure.            *)
THEOREM AlwaysTold == "post" \notin Faults => (Spec => []~NeverTold)
<1> SUFFICES ASSUME "post" \notin Faults PROVE Spec => []~NeverTold
  OBVIOUS
<1>1. Init => Told
  BY DEF Init, SubscriptionInit, Told, Subscribed, Before
<1>2. IInv /\ Told /\ [Next]_vars => Told'
  BY ToldStep
<1>3. Told => ~NeverTold
  BY DEF Told, NeverTold
<1> QED BY <1>1, <1>2, <1>3, InvariantHolds, PTL DEF Spec
=============================================================================
