---------------------------- MODULE LayoutSource ----------------------------
(***************************************************************************)
(* The layout listener between its notifications and the resolver          *)
(* (internal/layouts/windows/source.go), from the start of its thread to   *)
(* the end: a message of the window or a callback of TSF makes it read the *)
(* layout and publish it while keys, focus and layouts change.  What       *)
(* becomes of a published layout is in Subscription.                       *)
(***************************************************************************)
EXTENDS LayoutResolver, ListenerThread

VARIABLES
  resync,    \* a Shell message or WM_INPUTLANGCHANGE is in the queue
  notice,    \* the layout a callback of TSF is going to tell, or NoLayout
  lastID,
  unsure     \* history only: the last read had no full answer, or there was
             \* an unannounced move of the focus or switch of the layout since

sourceVars == <<resync, notice, lastID, unsure>>
keyVars == <<down, owed, altDown, shiftDown, chordSeen>>
vars == <<chordVars, focus, others, resolverVars, threadVars, sourceVars>>

TypeOK ==
  /\ ChordTypeOK
  /\ ResolverTypeOK
  /\ ThreadTypeOK
  /\ resync \in BOOLEAN
  /\ notice \in Layouts \cup {NoLayout}
  /\ lastID \in Layouts \cup {NoLayout}
  /\ unsure \in BOOLEAN
  /\ lastID # NoLayout => lastValid # NoLayout

Init ==
  /\ ChordInit
  /\ ResolverInit
  /\ ThreadInit
  /\ resync = FALSE
  /\ notice = NoLayout
  /\ lastID = NoLayout
  /\ unsure = FALSE

Listening == program = "laylit" /\ phase = "loop"
Stopped == program = "laylit" /\ phase \in {"stopped", "end"}

-----------------------------------------------------------------------------
(* The user and Windows, while the thread listens.                         *)

(* TSF may tell a layout that was switched to; one notice at a time is on  *)
(* its way (a bound of the model).                                         *)
TSFNotices ==
  \/ UNCHANGED notice
  \/ /\ layout' # layout /\ notice = NoLayout /\ "profile" \in advised
     /\ notice' = layout'

Keys ==
  /\ Listening
  /\ \E key \in Alts \cup Shifts : Press(key) \/ Release(key)
  /\ TSFNotices
  /\ UNCHANGED <<focus, others, resolverVars, threadVars, resync, lastID,
                 unsure>>

(* What happens may come with a message of the Shell.                      *)
Announced == resync' = TRUE /\ UNCHANGED unsure
Unannounced == unsure' = TRUE /\ UNCHANGED resync

(* By the language bar or another shortcut.  The Shell "does not document  *)
(* a layout-specific notification".                                        *)
SwitchLayout ==
  /\ Listening
  /\ layout' \in Layouts \ {layout}
  /\ Announced \/ Unannounced
  /\ TSFNotices
  /\ UNCHANGED <<keyVars, message, unread, tangled, focus, others, resolverVars,
                 threadVars, lastID>>

(* The Shell tells of another foreground window, not of the focus in one.  *)
MoveFocus ==
  /\ Listening
  /\ focus' \in Threads \ {focus}
  /\ layout' = others[focus']
  /\ others' = [t \in Threads \ {focus'} |-> LayoutOf(t)]
  /\ IF ForegroundOf[focus'] # ForegroundOf[focus]
       THEN Announced
       ELSE Unannounced
  /\ UNCHANGED <<keyVars, message, unread, tangled, resolverVars, threadVars, notice,
                 lastID>>

(* "Any delivered Shell event is ... a resynchronization signal."          *)
ShellMessage ==
  /\ Listening
  /\ resync' = TRUE
  /\ UNCHANGED <<chordVars, focus, others, resolverVars, threadVars, notice, lastID, unsure>>

-----------------------------------------------------------------------------
(* The thread: one message or callback at a time.                          *)

Knows(c) == unsure' = (c # ClearContext)

(* What was read is published before the thread looks at anything else; an *)
(* error of resolve is reported and publishes nothing.                     *)
publishCurrent ==
  /\ \E c \in ReadContexts :
        /\ resolve(c)
        /\ lastID' = IF Resolved(c) = NoLayout THEN lastID ELSE Resolved(c)
        /\ Knows(c)
  /\ UNCHANGED <<focus, others, threadVars, notice>>

handleLayoutNotification ==
  /\ Listening
  /\ \/ Dispatch /\ UNCHANGED resync
     \/ /\ resync /\ resync' = FALSE
        /\ ReadsLayout
        /\ UNCHANGED <<keyVars, layout, message>>
  /\ publishCurrent

(* Mutant: a callback that comes after the stop is taken.                  *)
onTSFProfile_AfterStop ==
  /\ notice # NoLayout
  /\ notice' = NoLayout
  /\ \/ \E c \in ReadContexts :
          activateTSF(notice, c) /\ lastID' = notice /\ Knows(c)
     \/ UNCHANGED <<resolverVars, lastID, unsure>>
  /\ UNCHANGED <<chordVars, focus, others, threadVars, resync>>

(* The callback.  Of a profile that is no keyboard layout, or is not       *)
(* active, it takes no notice, nor once the listener has stopped.          *)
onTSFProfile ==
  /\ notice # NoLayout
  /\ notice' = NoLayout
  /\ \/ /\ Listening
        /\ \E c \in ReadContexts :
             activateTSF(notice, c) /\ lastID' = notice /\ Knows(c)
     \/ UNCHANGED <<resolverVars, lastID, unsure>>
  /\ UNCHANGED <<chordVars, focus, others, threadVars, resync>>

(* Source.Current, called by Run in a goroutine of its own, also before    *)
(* the thread is started and after its end.                                *)
Current ==
  /\ program = "laylit"
  /\ \E c \in ReadContexts : resolve(c)
  /\ UNCHANGED <<chordVars, focus, others, threadVars, sourceVars>>

StartThread ==
  /\ Start
  /\ UNCHANGED <<chordVars, focus, others, resolverVars, sourceVars>>

(* stopPublishing.  What is left in the queue is never dispatched, and     *)
(* nobody watches the keys any more: the model forgets both.               *)
Stop ==
  /\ LoopEnds
  /\ clearTSF
  /\ down' = {}
  /\ owed' = FALSE /\ altDown' = FALSE /\ shiftDown' = FALSE /\ chordSeen' = FALSE
  /\ message' = FALSE /\ unread' = FALSE /\ tangled' = FALSE
  /\ resync' = FALSE
  /\ UNCHANGED <<layout, focus, others, notice, lastID, unsure>>

UnwindThread ==
  /\ Unwind
  /\ UNCHANGED <<chordVars, focus, others, resolverVars, sourceVars>>

Next ==
  \/ Keys
  \/ SwitchLayout
  \/ MoveFocus
  \/ ShellMessage
  \/ handleLayoutNotification
  \/ onTSFProfile
  \/ Current
  \/ StartThread
  \/ Stop
  \/ UnwindThread

Spec == Init /\ [][Next]_vars

-----------------------------------------------------------------------------
(* Once every notification has been handled, the layout published last is  *)
(* the one the focused thread has, or the one TSF told of this very window *)
(* last, which wins as long as the window keeps the focus.  This is asked  *)
(* after a read that Windows answered in full, with nothing unannounced    *)
(* since, and no chord the hook has missed.                                *)
WrongOnlyByTSF ==
  Listening /\ ~resync /\ ~unread /\ ~unsure =>
    lastID \in {layout, NoLayout} \/ tsf = [hkl |-> lastID, context |-> focus]

(* "TestStoppedSubscriptionIgnoresTSFCallbacks": after stopPublishing      *)
(* nothing is published, and a callback of TSF that is late does not bring *)
(* back the layout the resolver was told to forget.                        *)
StoppedIsFinal == [][Stopped => tsf' = NoTSF /\ lastID' = lastID]_vars
=============================================================================
