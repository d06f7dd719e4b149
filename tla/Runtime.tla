------------------------------ MODULE Runtime -------------------------------
(***************************************************************************)
(* Runtime.Run (internal/app/runtime.go) composed with the listener it     *)
(* subscribes to and the keyboard it colors (Device.sendReport of          *)
(* internal/devices/evision/device.go).  A color stands for the layout it  *)
(* was chosen for.                                                         *)
(***************************************************************************)
EXTENDS Subscription

VARIABLES
  rpc,       \* where Run is
  stage,     \* whose color Run is applying: "initial", "resync", "event"
  target,    \* the layout Run read or received last
  applied,   \* appliedLayoutID
  eventsNil, errorsNil,  \* Run has set its copy of the channel to nil
  ready,     \* Ready was called and succeeded
  device,    \* "none", "open", "closed"
  shown,     \* the layout whose color the keyboard shows
  result,    \* "running", "nil", "error"
  failed     \* history only: the last attempt to show target was reported
             \* as failed

runVars == <<rpc, stage, target, applied, eventsNil, errorsNil, ready, device,
             shown, result, failed>>
vars == <<layout, cancelled, listener, tsf, hook, messages, lastID, events,
          errors, loopErr, closing, missed, rpc, stage, target, applied, eventsNil,
          errorsNil, ready, device, shown, result, failed>>

RPCs == {"discover", "config", "open", "write", "ack", "subscribe", "resync",
         "ready", "select", "closeSub", "closeWait", "closeDevice", "returned"}

RunTypeOK ==
  /\ rpc \in RPCs
  /\ stage \in {"initial", "resync", "event"}
  /\ {target, applied, shown} \subseteq Layouts \cup {NoLayout}
  /\ {eventsNil, errorsNil, ready, failed} \subseteq BOOLEAN
  /\ device \in {"none", "open", "closed"}
  /\ result \in {"running", "nil", "error"}
  /\ rpc = "write" => target \in Layouts

TypeOK == SubscriptionTypeOK /\ RunTypeOK

Init ==
  /\ SubscriptionInit
  /\ rpc = "discover"
  /\ stage = "initial"
  /\ target = NoLayout
  /\ applied = NoLayout
  /\ eventsNil = FALSE
  /\ errorsNil = FALSE
  /\ ready = FALSE
  /\ device = "none"
  /\ shown = NoLayout
  /\ result = "running"
  /\ failed = FALSE

-----------------------------------------------------------------------------
(* Every call of the start looks at ctx first and may fail for itself.     *)
CallSucceeds == ~cancelled
CallFails == cancelled \/ "startup" \in Faults

Goto(next) ==
  /\ rpc' = next
  /\ UNCHANGED <<stage, target, applied, eventsNil, errorsNil, ready, device,
                 shown, result, failed>>

(* An early return with an error: the deferred calls from here on.         *)
Fail(next) ==
  /\ rpc' = next
  /\ result' = "error"
  /\ UNCHANGED <<stage, target, applied, eventsNil, errorsNil, ready, device,
                 shown, failed>>

(* Layouts.List and Layouts.Current.                                       *)
Discover ==
  /\ rpc = "discover"
  /\ \/ /\ CallSucceeds
        /\ target' = layout
        /\ rpc' = "config"
        /\ UNCHANGED <<stage, applied, eventsNil, errorsNil, ready, device,
                       shown, result, failed>>
     \/ CallFails /\ Fail("returned")
  /\ UNCHANGED subscriptionVars

(* Config.Load, Reconcile and Save.                                        *)
LoadConfig ==
  /\ rpc = "config"
  /\ \/ CallSucceeds /\ Goto("open")
     \/ CallFails /\ Fail("returned")
  /\ UNCHANGED subscriptionVars

OpenDevice ==
  /\ rpc = "open"
  /\ \/ /\ CallSucceeds
        /\ device' = "open"
        /\ rpc' = "write"
        /\ UNCHANGED <<stage, target, applied, eventsNil, errorsNil, ready,
                       shown, result, failed>>
     \/ CallFails /\ Fail("returned")
  /\ UNCHANGED subscriptionVars

-----------------------------------------------------------------------------
(* applyLayout of target: SetColor writes a report and reads its           *)
(* acknowledgement.                                                        *)

(* What Run does when SetColor failed, by the stage it was called in.      *)
ApplyFails ==
  /\ rpc' = CASE stage = "initial" -> "closeDevice"
              [] stage = "resync" -> "closeSub"
              [] stage = "event" -> "select"
  /\ result' = IF stage = "event" THEN result ELSE "error"
  /\ failed' = TRUE
  /\ UNCHANGED <<stage, target, applied, eventsNil, errorsNil, ready, device>>

WriteReport ==
  /\ rpc = "write"
  /\ ~cancelled
  /\ shown' = target
  /\ rpc' = "ack"
  /\ UNCHANGED <<subscriptionVars, stage, target, applied, eventsNil,
                 errorsNil, ready, device, result, failed>>

(* The write is refused, or it failed and the report did not go out.       *)
WriteFails ==
  /\ rpc = "write"
  /\ cancelled \/ "write" \in Faults
  /\ ApplyFails
  /\ UNCHANGED <<subscriptionVars, shown>>

AfterApply ==
  CASE stage = "initial" -> "subscribe"
    [] stage = "resync" -> "ready"
    [] stage = "event" -> "select"

ReadAcknowledgement ==
  /\ rpc = "ack"
  /\ ~cancelled
  /\ applied' = target
  /\ failed' = FALSE
  /\ rpc' = AfterApply
  /\ UNCHANGED <<subscriptionVars, stage, target, eventsNil, errorsNil, ready,
                 device, shown, result>>

(* The keyboard takes the report although the call fails: its answer, or   *)
(* the end of its write, is late, or ctx is done.                          *)
AcknowledgementFails ==
  /\ rpc = "ack"
  /\ cancelled \/ "ack" \in Faults
  /\ ApplyFails
  /\ UNCHANGED <<subscriptionVars, shown>>

-----------------------------------------------------------------------------
Subscribe ==
  /\ rpc = "subscribe"
  /\ CallSucceeds
  /\ Registers
  /\ Goto("resync")

SubscribeFails ==
  /\ rpc = "subscribe"
  /\ CallFails
  /\ Fail("closeDevice")
  /\ UNCHANGED subscriptionVars

(* Mutant: the layout is not read again after the registration.            *)
Resynchronize_Skipped ==
  /\ rpc = "resync"
  /\ Goto("ready")
  /\ UNCHANGED subscriptionVars

(* "Registration happens before this second read."                         *)
Resynchronize ==
  /\ rpc = "resync"
  /\ \/ /\ CallSucceeds
        /\ target' = layout
        /\ rpc' = IF layout = applied THEN "ready" ELSE "write"
        /\ stage' = IF layout = applied THEN stage ELSE "resync"
        /\ UNCHANGED <<applied, eventsNil, errorsNil, ready, device, shown,
                       result, failed>>
     \/ CallFails /\ Fail("closeSub")
  /\ UNCHANGED subscriptionVars

Ready ==
  /\ rpc = "ready"
  /\ \/ /\ ready' = TRUE
        /\ rpc' = "select"
        /\ UNCHANGED <<stage, target, applied, eventsNil, errorsNil, device,
                       shown, result, failed>>
     \/ "startup" \in Faults /\ Fail("closeSub")
  /\ UNCHANGED subscriptionVars

-----------------------------------------------------------------------------
(* The loop: any ready case of the select may be taken.                    *)
Looping == rpc = "select" /\ ~(eventsNil /\ errorsNil)

TakeDone ==
  /\ Looping
  /\ cancelled
  /\ rpc' = "closeSub"
  /\ result' = "nil"
  /\ UNCHANGED <<subscriptionVars, stage, target, applied, eventsNil,
                 errorsNil, ready, device, shown, failed>>

(* Mutant: a layout whose color failed counts as applied.                  *)
TakeEvent_AppliedEarly ==
  /\ Looping
  /\ events # NoLayout
  /\ events' = NoLayout
  /\ target' = events
  /\ applied' = events
  /\ stage' = "event"
  /\ rpc' = IF events = applied THEN "select" ELSE "write"
  /\ failed' = IF events = applied THEN FALSE ELSE failed
  /\ UNCHANGED <<layout, cancelled, listener, tsf, hook, messages, lastID,
                 errors, loopErr, closing, missed, eventsNil, errorsNil, ready,
                 device, shown, result>>

TakeEvent ==
  /\ Looping
  /\ events # NoLayout
  /\ events' = NoLayout
  /\ target' = events
  /\ stage' = "event"
  /\ rpc' = IF events = applied THEN "select" ELSE "write"
  /\ failed' = IF events = applied THEN FALSE ELSE failed
  /\ UNCHANGED <<layout, cancelled, listener, tsf, hook, messages, lastID,
                 errors, loopErr, closing, missed, applied, eventsNil,
                 errorsNil, ready, device, shown, result>>

(* Mutant: the zero value of a closed channel is taken for a layout.       *)
TakeEventsClosed_Unchecked ==
  /\ Looping
  /\ EventsClosed /\ events = NoLayout
  /\ target' = NoLayout
  /\ stage' = "event"
  /\ rpc' = "write"
  /\ UNCHANGED <<subscriptionVars, applied, eventsNil, errorsNil, ready,
                 device, shown, result, failed>>

TakeEventsClosed ==
  /\ Looping
  /\ ~eventsNil /\ EventsClosed /\ events = NoLayout
  /\ eventsNil' = TRUE
  /\ UNCHANGED <<subscriptionVars, rpc, stage, target, applied, errorsNil,
                 ready, device, shown, result, failed>>

TakeError ==
  /\ Looping
  /\ errors
  /\ errors' = FALSE
  /\ UNCHANGED <<layout, cancelled, listener, tsf, hook, messages, lastID,
                 events, loopErr, closing, missed, runVars>>

TakeErrorsClosed ==
  /\ Looping
  /\ ~errorsNil /\ ErrorsClosed /\ ~errors
  /\ errorsNil' = TRUE
  /\ UNCHANGED <<subscriptionVars, rpc, stage, target, applied, eventsNil,
                 ready, device, shown, result, failed>>

(* "Windows layout subscription stopped unexpectedly".                     *)
LoopEnds ==
  /\ rpc = "select"
  /\ eventsNil /\ errorsNil
  /\ Fail("closeSub")
  /\ UNCHANGED subscriptionVars

-----------------------------------------------------------------------------
(* The deferred calls, last one first.                                     *)

CloseSubscription ==
  /\ rpc = "closeSub"
  /\ \/ PostClose
     \/ closing /\ UNCHANGED subscriptionVars
  /\ Goto("closeWait")

(* Mutant: an error of the listener counts as its end.                     *)
SubscriptionClosed_Blocks ==
  /\ rpc = "closeWait"
  /\ listener = "done"
  /\ ~loopErr
  /\ Goto("closeDevice")
  /\ UNCHANGED subscriptionVars

SubscriptionClosed ==
  /\ rpc = "closeWait"
  /\ listener = "done"
  /\ rpc' = "closeDevice"
  /\ result' = IF loopErr THEN "error" ELSE result
  /\ UNCHANGED <<subscriptionVars, stage, target, applied, eventsNil,
                 errorsNil, ready, device, shown, failed>>

CloseDevice ==
  /\ rpc = "closeDevice"
  /\ device' = "closed"
  /\ rpc' = "returned"
  /\ \/ UNCHANGED result
     \/ "deviceClose" \in Faults /\ result' = "error"
  /\ UNCHANGED <<subscriptionVars, stage, target, applied, eventsNil,
                 errorsNil, ready, shown, failed>>

Run ==
  \/ Discover
  \/ LoadConfig
  \/ OpenDevice
  \/ WriteReport
  \/ WriteFails
  \/ ReadAcknowledgement
  \/ AcknowledgementFails
  \/ Subscribe
  \/ SubscribeFails
  \/ Resynchronize
  \/ Ready
  \/ TakeDone
  \/ TakeEvent
  \/ TakeEventsClosed
  \/ TakeError
  \/ TakeErrorsClosed
  \/ LoopEnds
  \/ CloseSubscription
  \/ SubscriptionClosed
  \/ CloseDevice

Next ==
  \/ Run
  \/ (messageLoop \/ CtxCloses \/ Windows) /\ UNCHANGED runVars

Spec == Init /\ [][Next]_vars

(* Run, the listener's thread and the goroutine that watches ctx are       *)
(* scheduled, device calls end within their timeouts, and WM_CLOSE is      *)
(* dispatched although other messages keep coming.  Nothing makes          *)
(* GetMessage fail: an idle listener waits.                                *)
FairSpec ==
  /\ Spec
  /\ WF_vars(Run)
  /\ WF_vars(Dispatches /\ UNCHANGED runVars)
  /\ WF_vars(CtxCloses /\ UNCHANGED runVars)
  /\ SF_vars(DispatchClose /\ UNCHANGED runVars)
  /\ SF_vars(TakeDone)

-----------------------------------------------------------------------------
(* No change of layout is lost between Windows, the window, lastID, the    *)
(* channel of capacity 1 and the second read: while Run waits in its       *)
(* select with a listener that runs, the newest layout is the one Run      *)
(* heard of last, or is on its way, or a notification failed.              *)
Newest ==
  IF listener \in {"trySend", "drain", "send"} THEN lastID
  ELSE IF events # NoLayout THEN events ELSE target

NoLostChange ==
  rpc = "select" /\ Attached /\ ~missed
    => layout = Newest \/ "resync" \in messages

(* "serially applies the newest notified layout color": while Run waits,   *)
(* the keyboard shows the layout Run received last, unless applying that   *)
(* very layout was reported as failed.                                     *)
NewestShown == rpc = "select" /\ ~cancelled /\ ~failed => shown = target

(* Whatever failed, Run returns with the listener ended, the device closed *)
(* and no hook that forwards to a subscription: a successor in the process *)
(* can install its own.  Only UnhookWindowsHookEx itself can leave a hook  *)
(* behind, and then Run does not return nil.                               *)
ReturnReleases ==
  rpc = "returned" =>
    /\ listener \in {"off", "done"} /\ device # "open"
    /\ hook # "active"
    /\ hook = "orphan" => result = "error"

(* A Run that was ready and is only cancelled returns nil, as the test of  *)
(* sequential changes asks after its cancel().                             *)
GracefulStop == rpc = "returned" /\ ready => result = "nil"

(* "Serially applies the newest notified layout color until the process    *)
(* exits": once the layout stays and no notification or SetColor is left   *)
(* failed, the keyboard comes to show it for good, or Run ends in error.   *)
Follows ==
  \A l \in Layouts :
    <>[](layout = l /\ ~cancelled /\ ~missed /\ ~failed)
      => <>[](shown = l \/ result = "error")

(* Close posted nothing: nobody tells the listener to end, and every Close *)
(* waits for it.                                                           *)
NeverTold == Attached /\ closing /\ "close" \notin messages

(* A cancelled Run returns, wherever it is and whatever fails but the      *)
(* PostMessage of Close.                                                   *)
ShutdownCompletes == cancelled ~> (rpc = "returned" \/ NeverTold)
=============================================================================
