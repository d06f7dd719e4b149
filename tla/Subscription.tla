---------------------------- MODULE Subscription ----------------------------
(***************************************************************************)
(* The layout listener (internal/layouts/windows/source.go and the hook of *)
(* keyboard_hook.go): one goroutine locked to its thread runs messageLoop, *)
(* whose window receives the notifications of Windows, reads the active    *)
(* layout after each and hands it to the reader of two channels of         *)
(* capacity 1.  Callbacks of the hook and of TSF run on the same thread.   *)
(* The reader and the goroutine that watches ctx both may close it.        *)
(***************************************************************************)
CONSTANTS Layouts,   \* identifiers of keyboard layouts
          NoLayout,  \* none: "" in the code, an empty channel
          Faults     \* what may go wrong, see KnownFaults

KnownFaults == {"startup", "tsf", "resolve", "post", "getMessage", "unhook",
                "write", "ack", "deviceClose"}

ASSUME LayoutsAssumption == NoLayout \notin Layouts
ASSUME FaultsAssumption == Faults \subseteq KnownFaults

VARIABLES
  layout,     \* what layoutResolver.resolve would answer now
  cancelled,  \* the context given to Run and Subscribe is done
  listener,   \* where messageLoop is; "off" before Subscribe
  tsf,        \* messageLoop has a TSF listener
  hook,       \* the keyboard hook: "none", "active" while its subscription is
              \* the active one, or "orphan": Windows still calls it
  messages,   \* kinds of message posted to the window and not dispatched
  lastID,
  events,     \* the value buffered in the channel, or NoLayout
  errors,     \* the channel of errors holds a value
  loopErr,    \* loopErr is set
  closing,    \* closeOnce was entered
  missed      \* history only: a change of layout whose notification failed

listenerVars == <<listener, tsf, hook, messages, lastID, events, errors,
                  loopErr, closing>>
subscriptionVars == <<layout, cancelled, listener, tsf, hook, messages, lastID,
                      events, errors, loopErr, closing, missed>>

Attached == listener \in {"loop", "trySend", "drain", "send"}
EventsClosed == listener \in {"closeErrors", "closeDone", "done"}
ErrorsClosed == listener \in {"closeDone", "done"}

SubscriptionTypeOK ==
  /\ layout \in Layouts
  /\ cancelled \in BOOLEAN
  /\ listener \in {"off", "loop", "trySend", "drain", "send", "unhook",
                   "closeTSF", "closeEvents", "closeErrors", "closeDone",
                   "done"}
  /\ tsf \in BOOLEAN
  /\ hook \in {"none", "active", "orphan"}
  /\ messages \in SUBSET {"resync", "close"}
  /\ lastID \in Layouts \cup {NoLayout}
  /\ events \in Layouts \cup {NoLayout}
  /\ errors \in BOOLEAN
  /\ loopErr \in BOOLEAN
  /\ closing \in BOOLEAN
  /\ missed \in BOOLEAN

SubscriptionInit ==
  /\ layout \in Layouts
  /\ cancelled = FALSE
  /\ listener = "off"
  /\ tsf = FALSE
  /\ hook = "none"
  /\ messages = {}
  /\ lastID = NoLayout
  /\ events = NoLayout
  /\ errors = FALSE
  /\ loopErr = FALSE
  /\ closing = FALSE
  /\ missed = FALSE

-----------------------------------------------------------------------------
(* Windows.                                                                *)

(* The layout changes.  A registered window is sent a Shell or language    *)
(* message, or the hook posts one when the Alt+Shift chord completes.      *)
LayoutChanges(l) ==
  /\ l # layout
  /\ layout' = l
  /\ messages' = IF Attached THEN messages \cup {"resync"} ELSE messages
  /\ UNCHANGED <<cancelled, tsf, hook, listener, lastID, events, errors,
                 loopErr, closing, missed>>

(* The hook saw the chord, and its PostMessage failed.                     *)
lowLevelKeyboardProc_PostFails(l) ==
  /\ "post" \in Faults
  /\ listener = "loop"
  /\ l # layout
  /\ layout' = l
  /\ loopErr' = TRUE
  /\ errors' = TRUE
  /\ missed' = TRUE
  /\ UNCHANGED <<cancelled, tsf, hook, listener, messages, lastID, events,
                 closing>>

(* Any Shell event is a signal to read the layout again.                   *)
ShellMessage ==
  /\ Attached
  /\ messages' = messages \cup {"resync"}
  /\ UNCHANGED <<layout, cancelled, tsf, hook, listener, lastID, events,
                 errors, loopErr, closing, missed>>

Cancel ==
  /\ ~cancelled
  /\ cancelled' = TRUE
  /\ UNCHANGED <<layout, listenerVars, missed>>

-----------------------------------------------------------------------------
(* messageLoop.                                                            *)

(* Window, Shell hook and keyboard hook are there.  TSF may be missing:    *)
(* that is one error in the channel, and the listener works without it.    *)
Registers ==
  /\ listener = "off"
  /\ listener' = "loop"
  /\ hook' = "active"
  /\ \/ tsf' = TRUE /\ UNCHANGED errors
     \/ "tsf" \in Faults /\ tsf' = FALSE /\ errors' = TRUE
  /\ UNCHANGED <<layout, cancelled, messages, lastID, events, loopErr, closing,
                 missed>>

(* A window message, or a callback of TSF: publishCurrent and publish.     *)
publishDeduplicated ==
  /\ listener = "loop"
  /\ "resync" \in messages
  /\ layout = lastID
  /\ messages' = messages \ {"resync"}
  /\ missed' = FALSE
  /\ UNCHANGED <<layout, cancelled, tsf, hook, listener, lastID, events,
                 errors, loopErr, closing>>

publish ==
  /\ listener = "loop"
  /\ "resync" \in messages
  /\ layout # lastID
  /\ messages' = messages \ {"resync"}
  /\ lastID' = layout
  /\ listener' = "trySend"
  /\ missed' = FALSE
  /\ UNCHANGED <<layout, cancelled, tsf, hook, events, errors, loopErr,
                 closing>>

(* No window has a layout to offer: the notification is used up.           *)
publishCurrent_ResolveFails ==
  /\ "resolve" \in Faults
  /\ listener = "loop"
  /\ "resync" \in messages
  /\ messages' = messages \ {"resync"}
  /\ errors' = TRUE
  /\ missed' = TRUE
  /\ UNCHANGED <<layout, cancelled, tsf, hook, listener, lastID, events,
                 loopErr, closing>>

(* replaceLayout: the value fits, or the one in the channel is replaced.   *)
trySend ==
  /\ listener = "trySend"
  /\ \/ /\ events = NoLayout
        /\ events' = lastID
        /\ listener' = "loop"
     \/ /\ events # NoLayout
        /\ listener' = "drain"
        /\ UNCHANGED events
  /\ UNCHANGED <<layout, cancelled, tsf, hook, messages, lastID, errors,
                 loopErr, closing, missed>>

(* Mutant: a value that does not fit is dropped.                           *)
drain_DropsNewest ==
  /\ listener = "drain"
  /\ listener' = "loop"
  /\ UNCHANGED <<layout, cancelled, tsf, hook, messages, lastID, events,
                 errors, loopErr, closing, missed>>

drain ==
  /\ listener = "drain"
  /\ events' = NoLayout
  /\ listener' = "send"
  /\ UNCHANGED <<layout, cancelled, tsf, hook, messages, lastID, errors,
                 loopErr, closing, missed>>

send ==
  /\ listener = "send"
  /\ events = NoLayout
  /\ events' = lastID
  /\ listener' = "loop"
  /\ UNCHANGED <<layout, cancelled, tsf, hook, messages, lastID, errors,
                 loopErr, closing, missed>>

(* WM_CLOSE, then WM_DESTROY and WM_QUIT: the loop ends; stopPublishing.   *)
DispatchClose ==
  /\ listener = "loop"
  /\ "close" \in messages
  /\ listener' = "unhook"
  /\ messages' = {}
  /\ UNCHANGED <<layout, cancelled, tsf, hook, lastID, events, errors, loopErr,
                 closing, missed>>

GetMessageFails ==
  /\ "getMessage" \in Faults
  /\ listener = "loop"
  /\ listener' = "unhook"
  /\ messages' = {}
  /\ loopErr' = TRUE
  /\ UNCHANGED <<layout, cancelled, tsf, hook, lastID, events, errors, closing,
                 missed>>

(* Mutant: an error of the hook is sent and not kept for Close.            *)
uninstallKeyboardHook_NotKept ==
  /\ listener = "unhook"
  /\ listener' = IF tsf THEN "closeTSF" ELSE "closeEvents"
  /\ \/ hook' = "none" /\ UNCHANGED errors
     \/ "unhook" \in Faults /\ hook' = "orphan" /\ errors' = TRUE
  /\ UNCHANGED <<layout, cancelled, tsf, messages, lastID, events, loopErr,
                 closing, missed>>

(* When UnhookWindowsHookEx fails the hook stays, without a subscription.  *)
uninstallKeyboardHook ==
  /\ listener = "unhook"
  /\ listener' = IF tsf THEN "closeTSF" ELSE "closeEvents"
  /\ \/ hook' = "none" /\ UNCHANGED <<errors, loopErr>>
     \/ /\ "unhook" \in Faults
        /\ hook' = "orphan"
        /\ errors' = TRUE
        /\ loopErr' = TRUE
  /\ UNCHANGED <<layout, cancelled, tsf, messages, lastID, events, closing,
                 missed>>

(* tsfListener.close releases everything, whatever UnadviseSink answers.   *)
closeTSF ==
  /\ listener = "closeTSF"
  /\ listener' = "closeEvents"
  /\ tsf' = FALSE
  /\ \/ UNCHANGED <<errors, loopErr>>
     \/ "tsf" \in Faults /\ errors' = TRUE /\ loopErr' = TRUE
  /\ UNCHANGED <<layout, cancelled, hook, messages, lastID, events, closing,
                 missed>>

closeChannels ==
  /\ listener \in {"closeEvents", "closeErrors", "closeDone"}
  /\ listener' = CASE listener = "closeEvents" -> "closeErrors"
                   [] listener = "closeErrors" -> "closeDone"
                   [] listener = "closeDone" -> "done"
  /\ UNCHANGED <<layout, cancelled, tsf, hook, messages, lastID, events,
                 errors, loopErr, closing, missed>>

(* What the thread does when its calls of Windows come back.               *)
Dispatches ==
  \/ publishDeduplicated
  \/ publish
  \/ publishCurrent_ResolveFails
  \/ trySend
  \/ drain
  \/ send
  \/ DispatchClose
  \/ uninstallKeyboardHook
  \/ closeTSF
  \/ closeChannels

messageLoop == Dispatches \/ GetMessageFails

-----------------------------------------------------------------------------
(* Close: the first caller posts WM_CLOSE; every caller then waits for the *)
(* done channel.  Nobody reads what is posted after the loop has ended.    *)

PostClose ==
  /\ ~closing
  /\ closing' = TRUE
  /\ \/ /\ messages' = IF Attached THEN messages \cup {"close"} ELSE messages
        /\ UNCHANGED loopErr
     \/ /\ "post" \in Faults
        /\ loopErr' = TRUE
        /\ UNCHANGED messages
  /\ UNCHANGED <<layout, cancelled, tsf, hook, listener, lastID, events,
                 errors, missed>>

(* The goroutine of Subscribe that watches ctx.                            *)
CtxCloses ==
  /\ cancelled
  /\ listener \notin {"off", "done"}
  /\ PostClose

Windows ==
  \/ \E l \in Layouts : LayoutChanges(l) \/ lowLevelKeyboardProc_PostFails(l)
  \/ ShellMessage
  \/ Cancel
=============================================================================
