--------------------------- MODULE KeyboardChord ----------------------------
(***************************************************************************)
(* The Alt+Shift hook (internal/layouts/windows/keyboard_hook.go), the     *)
(* keys it watches, and the layout Windows switches on that chord.  "This  *)
(* completed-chord point is when Alt+Shift's new HKL is visible": Windows  *)
(* has switched when the last of the keys is up, and perhaps earlier.  The *)
(* chord alone is looked at: no Shell message helps.  LayoutSource         *)
(* composes it with the listener and the other sources of layouts.         *)
(***************************************************************************)
CONSTANTS Alts,       \* the keys modifierForVirtualKey maps to modifierAlt
          Shifts,     \* and to modifierShift
          Layouts

ASSUME KeysAssumption == Alts \cap Shifts = {}

VARIABLES
  down,       \* the keys that are physically down
  owed,       \* Alt and Shift were down together, Windows has yet to switch
  layout,     \* the layout of the foreground thread
  altDown, shiftDown, chordSeen,
  message,    \* wmKeyboardChordCompleted is in the window's queue
  \* history only
  unread,     \* Windows has switched since the listener read the layout
  tangled     \* two keys of one modifier have been down together since then

chordVars == <<down, owed, layout, altDown, shiftDown, chordSeen, message,
               unread, tangled>>

ChordTypeOK ==
  /\ down \in SUBSET (Alts \cup Shifts)
  /\ owed \in BOOLEAN
  /\ layout \in Layouts
  /\ altDown \in BOOLEAN
  /\ shiftDown \in BOOLEAN
  /\ chordSeen \in BOOLEAN
  /\ message \in BOOLEAN
  /\ unread \in BOOLEAN
  /\ tangled \in BOOLEAN
  /\ chordSeen => down # {}

ChordInit ==
  /\ down = {}
  /\ owed = FALSE
  /\ layout \in Layouts
  /\ altDown = FALSE
  /\ shiftDown = FALSE
  /\ chordSeen = FALSE
  /\ message = FALSE
  /\ unread = FALSE
  /\ tangled = FALSE

Together(keys) == keys \cap Alts # {} /\ keys \cap Shifts # {}

(* Mutant: the first key of the chord that goes up completes it.           *)
observe_AnyRelease(key, pressed) ==
  LET seen  == chordSeen \/ (altDown' /\ shiftDown')
      fires == ~pressed /\ seen
  IN  /\ altDown' = IF key \in Alts THEN pressed ELSE altDown
      /\ shiftDown' = IF key \in Shifts THEN pressed ELSE shiftDown
      /\ chordSeen' = (seen /\ ~fires)
      /\ message' = (message \/ fires)

(* observe and lowLevelKeyboardProc for a key of either modifier.          *)
observe(key, pressed) ==
  LET seen  == chordSeen \/ (altDown' /\ shiftDown')
      fires == ~pressed /\ seen /\ ~altDown' /\ ~shiftDown'
  IN  /\ altDown' = IF key \in Alts THEN pressed ELSE altDown
      /\ shiftDown' = IF key \in Shifts THEN pressed ELSE shiftDown
      /\ chordSeen' = (seen /\ ~fires)
      /\ message' = (message \/ fires)

SameModifier(k, key) == (k \in Alts) = (key \in Alts)

(* A key goes down, or repeats.                                            *)
Press(key) ==
  /\ down' = down \cup {key}
  /\ owed' = (owed \/ Together(down'))
  /\ observe(key, TRUE)
  /\ tangled' = (tangled \/ \E k \in down : k # key /\ SameModifier(k, key))
  /\ UNCHANGED <<layout, unread>>

Release(key) ==
  /\ key \in down
  /\ down' = down \ {key}
  /\ observe(key, FALSE)
  /\ \/ /\ owed' = owed
        /\ owed => down' # {}
        /\ UNCHANGED <<layout, unread>>
     \/ /\ owed
        /\ owed' = Together(down')
        /\ layout' \in Layouts
        /\ unread' = TRUE
  /\ UNCHANGED tangled

(* The listener reads the layout.                                          *)
ReadsLayout ==
  /\ unread' = FALSE
  /\ tangled' = (tangled /\ down # {})

(* The listener dispatches the message and reads the layout.               *)
Dispatch ==
  /\ message
  /\ message' = FALSE
  /\ ReadsLayout
  /\ UNCHANGED <<down, owed, layout, altDown, shiftDown, chordSeen>>

ChordNext ==
  \/ \E key \in Alts \cup Shifts : Press(key) \/ Release(key)
  \/ Dispatch

ChordSpec == ChordInit /\ [][ChordNext]_chordVars

(* The hook suffices to follow Alt+Shift: "asks the listener window to     *)
(* re-read the foreground thread's actual HKL after both modifiers are     *)
(* up".  With all keys up, a layout that Windows switched to has been read *)
(* or the message is on its way - unless two keys of one modifier were     *)
(* down together, which one flag per modifier cannot follow.               *)
ChordResynchronizes == down = {} /\ unread => message \/ tangled
=============================================================================
