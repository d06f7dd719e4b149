--------------------------- MODULE LayoutResolver ---------------------------
(***************************************************************************)
(* Which layout is the active one (internal/layouts/windows/resolver.go):  *)
(* layoutResolver puts the last notification of TSF before what Windows    *)
(* answers about the focused thread, that before the foreground window's   *)
(* thread, and that before the last layout known.  A thread stands for its *)
(* window as well.                                                         *)
(***************************************************************************)
EXTENDS KeyboardChord

CONSTANTS NoLayout,
          Threads, NoThread,
          ForegroundOf,  \* the thread of the window that contains a thread's
          ReadFaults     \* what may go wrong, see KnownReadFaults

(* "foreground": there is no foreground window; "focus": GetGUIThreadInfo  *)
(* tells no focused window; "hkl": no layout is told of a thread.          *)
KnownReadFaults == {"foreground", "focus", "hkl"}

ASSUME ResolverAssumption ==
  /\ NoLayout \notin Layouts
  /\ NoThread \notin Threads
  /\ ForegroundOf \in [Threads -> Threads]
  /\ ReadFaults \subseteq KnownReadFaults

VARIABLES
  focus,      \* the focused thread; layout, of KeyboardChord, is its layout
  others,     \* the layouts of the other threads
  tsf,        \* the layout TSF told last, and the window it was bound to
  lastValid

resolverVars == <<tsf, lastValid>>

LayoutOf(t) == IF t = focus THEN layout ELSE others[t]

NoContext == [key |-> NoThread, focused |-> NoLayout, foreground |-> NoLayout]
NoTSF == [hkl |-> NoLayout, context |-> NoThread]

ResolverTypeOK ==
  /\ focus \in Threads
  /\ others \in [Threads \ {focus} -> Layouts]
  /\ tsf \in [hkl : Layouts \cup {NoLayout}, context : Threads \cup {NoThread}]
  /\ lastValid \in Layouts \cup {NoLayout}

ResolverInit ==
  /\ focus \in Threads
  /\ others \in [Threads \ {focus} -> Layouts]
  /\ tsf = NoTSF
  /\ lastValid = NoLayout

(* readWindowsInputContext with inputContext.key.                          *)
ClearContext ==
  [key |-> focus, focused |-> layout, foreground |-> LayoutOf(ForegroundOf[focus])]

WithoutFocus ==
  [key |-> ForegroundOf[focus], focused |-> NoLayout,
   foreground |-> LayoutOf(ForegroundOf[focus])]

Told(c) == {c} \cup
  (IF "hkl" \in ReadFaults
     THEN {[key |-> c.key, focused |-> NoLayout, foreground |-> hkl] :
             hkl \in {c.foreground, NoLayout}}
     ELSE {})

ReadContexts ==
  Told(ClearContext)
    \cup (IF "focus" \in ReadFaults THEN Told(WithoutFocus) ELSE {})
    \cup (IF "foreground" \in ReadFaults THEN {NoContext} ELSE {})

Or(hkl, other) == IF hkl # NoLayout THEN hkl ELSE other

FromTSF(c) == IF tsf.context = c.key THEN tsf.hkl ELSE NoLayout

(* Mutant: the layout of the foreground window's thread goes first.        *)
Resolved_ForegroundFirst(c) ==
  Or(FromTSF(c), Or(c.foreground, Or(c.focused, lastValid)))

(* resolve, with NoLayout for its error.                                   *)
Resolved(c) ==
  Or(FromTSF(c), Or(c.focused, Or(c.foreground, lastValid)))

resolve(c) ==
  /\ lastValid' = Resolved(c)
  /\ UNCHANGED tsf

(* Mutant: a notification is not remembered as valid.                      *)
activateTSF_NotValid(hkl, c) ==
  /\ tsf' = [hkl |-> hkl, context |-> c.key]
  /\ UNCHANGED lastValid

(* A keyboard layout was activated; c was read when the callback came.     *)
activateTSF(hkl, c) ==
  /\ tsf' = [hkl |-> hkl, context |-> c.key]
  /\ lastValid' = hkl

clearTSF ==
  /\ tsf' = NoTSF
  /\ UNCHANGED lastValid
=============================================================================
