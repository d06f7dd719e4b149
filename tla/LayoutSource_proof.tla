------------------------- MODULE LayoutSource_proof -------------------------
(* What the layout listener guarantees from the start of its thread to the *)
(* end, for every set of keys, layouts, threads and faults, and every      *)
(* assignment of threads to foreground windows.                            *)
EXTENDS LayoutSource, TLAPS

-----------------------------------------------------------------------------
(* What the Alt+Shift hook guarantees, by itself.  Its steps have lemmas   *)
(* of their own: the listener needs them too.                              *)

(* A flag is never set without a key; it tells what is physically down as  *)
(* long as ...                                                             *)
FlagsTrue ==
  /\ altDown => down \cap Alts # {}
  /\ shiftDown => down \cap Shifts # {}
  /\ ~tangled => /\ down \cap Alts # {} => altDown
                 /\ down \cap Shifts # {} => shiftDown

(* ... no two keys of one modifier are down; ...                           *)
OneSide == ~tangled => \A j, k \in down : SameModifier(j, k) => j = k

(* ... and then a switch Windows has still to make, and one it made that   *)
(* the listener has not read, are covered by a chord or a message.         *)
Covered ==
  /\ owed => down # {}
  /\ ~tangled => /\ owed => chordSeen
                 /\ unread => chordSeen \/ message

ChordIInv == ChordTypeOK /\ FlagsTrue /\ OneSide /\ Covered

-----------------------------------------------------------------------------
(* observe sets chordSeen whenever both modifiers are down, ...            *)
LEMMA PressStep ==
  ASSUME ChordIInv, NEW key \in Alts \cup Shifts, Press(key)
  PROVE  ChordIInv'
<1> USE KeysAssumption DEF ChordIInv, ChordTypeOK
<1>1. ChordTypeOK'
  BY DEF Press, observe
<1>2. FlagsTrue'
  BY DEF Press, observe, FlagsTrue
<1>3. OneSide'
  BY DEF Press, OneSide, SameModifier
<1>4. Covered'
  BY <1>2 DEF Press, observe, Covered, Together, FlagsTrue
<1> QED
  BY <1>1, <1>2, <1>3, <1>4

(* ... and clears it only as it posts a message with no key down.          *)
LEMMA ReleaseStep ==
  ASSUME ChordIInv, NEW key \in Alts \cup Shifts, Release(key)
  PROVE  ChordIInv'
<1> USE KeysAssumption DEF ChordIInv, ChordTypeOK
<1>1. FlagsTrue'
  BY DEF Release, observe, FlagsTrue, OneSide, SameModifier
<1>2. ChordTypeOK'
  <2>1. chordSeen' => down' # {}
    BY <1>1 DEF Release, observe, FlagsTrue
  <2> QED
    BY <2>1 DEF Release, observe, Together
<1>3. OneSide'
  BY DEF Release, OneSide, SameModifier
<1>4. ~tangled => ~Together(down')
  BY DEF Release, Together, OneSide, SameModifier
<1>5. Covered'
  BY <1>1, <1>4 DEF Release, observe, Covered, FlagsTrue, Together
<1> QED
  BY <1>1, <1>2, <1>3, <1>5

(* A read with no key down is a new start, whatever was tangled before.    *)
LEMMA ReadStep ==
  ASSUME ChordIInv, ReadsLayout, layout' \in Layouts, message' \in BOOLEAN,
         UNCHANGED <<down, owed, altDown, shiftDown, chordSeen>>
  PROVE  ChordIInv'
BY KeysAssumption DEF ChordIInv, ChordTypeOK, ReadsLayout, FlagsTrue, OneSide, Covered,
                      SameModifier

(* Which layout it is does not matter.                                     *)
LEMMA ElsewhereStep ==
  ASSUME ChordIInv, layout' \in Layouts,
         UNCHANGED <<down, owed, altDown, shiftDown, chordSeen, message, unread, tangled>>
  PROVE  ChordIInv'
BY DEF ChordIInv, ChordTypeOK, FlagsTrue, OneSide, Covered, SameModifier

LEMMA ChordStarts == ChordInit => ChordIInv
BY DEF ChordInit, ChordIInv, ChordTypeOK, FlagsTrue, OneSide, Covered

LEMMA ChordIsCovered == ChordIInv => ChordResynchronizes
BY DEF ChordIInv, ChordTypeOK, Covered, ChordResynchronizes

(* The hook suffices to follow Alt+Shift (ChordResynchronizes): there is a *)
(* message of lowLevelKeyboardProc after every switch Windows makes on the *)
(* chord, unless keys of one modifier were down together.                  *)
THEOREM ChordFollowed == ChordSpec => []ChordResynchronizes
<1>1. ChordInit => ChordIInv
  BY ChordStarts
<1>2. ChordIInv /\ [ChordNext]_chordVars => ChordIInv'
  <2> SUFFICES ASSUME ChordIInv, [ChordNext]_chordVars
               PROVE  ChordIInv'
    OBVIOUS
  <2>1. CASE UNCHANGED chordVars
    BY <2>1, ElsewhereStep DEF chordVars, ChordIInv, ChordTypeOK
  <2>2. ASSUME NEW key \in Alts \cup Shifts, Press(key)
        PROVE  ChordIInv'
    BY <2>2, PressStep
  <2>3. ASSUME NEW key \in Alts \cup Shifts, Release(key)
        PROVE  ChordIInv'
    BY <2>3, ReleaseStep
  <2>4. CASE Dispatch
    BY <2>4, ReadStep DEF Dispatch, ChordIInv, ChordTypeOK
  <2> QED
    BY <2>1, <2>2, <2>3, <2>4 DEF ChordNext
<1>3. ChordIInv => ChordResynchronizes
  BY ChordIsCovered
<1> QED
  BY <1>1, <1>2, <1>3, PTL DEF ChordSpec

-----------------------------------------------------------------------------
(* The listener, of which the hook is a part.                              *)

(* What the thread holds at a step is what is called for if it fails.  A   *)
(* listener that was told to close has destroyed its window.               *)
Held ==
  /\ phase = "class" => held = {}
  /\ program = "laylit" =>
       /\ phase \in Steps \ TSFParts =>
            held \subseteq Returns[phase] \cup Deferred[phase]
       /\ phase \in TSFParts =>
            held \subseteq {"class", "window", "entry", "shell"} \cup TSFParts
       /\ phase = "com" => held \cap TSFParts = {}
       /\ phase = "stopped" /\ ~loopFailed => "window" \notin held

ThreadIInv == ThreadTypeOK /\ Held /\ NothingDangles

(* Outside the message loop nothing of TSF is remembered, and before it    *)
(* nothing has been published.                                             *)
Fresh ==
  /\ ~Listening => tsf = NoTSF
  /\ phase \in Steps => lastID = NoLayout

SourceTypeOK ==
  /\ resync \in BOOLEAN
  /\ notice \in Layouts \cup {NoLayout}
  /\ lastID \in Layouts \cup {NoLayout}
  /\ unsure \in BOOLEAN
  /\ lastID # NoLayout => lastValid # NoLayout

IInv ==
  /\ ChordIInv
  /\ ResolverTypeOK
  /\ SourceTypeOK
  /\ ThreadIInv
  /\ Fresh
  /\ WrongOnlyByTSF

-----------------------------------------------------------------------------
(* The thread.                                                             *)

(* Once the start is over, it is over.                                     *)
LEMMA StartsNoMore == "loop" \notin Steps /\ "stopped" \notin Steps /\ "end" \notin Steps
BY DEF Steps, TSFParts, Sinks

(* The sinks closeTSF leaves advised are orphans of laylit.                *)
LEMMA GivenBack ==
  ASSUME ThreadTypeOK, NEW calls, GiveBack(calls)
  PROVE  /\ held' = held \ calls
         /\ {held', refused'} \subseteq SUBSET Parts
         /\ {advised', orphans'} \subseteq SUBSET Sinks
         /\ UNCHANGED <<program, loopFailed>>
         /\ program = "laylit" => advised' \subseteq orphans'
BY DEF ThreadTypeOK, GiveBack, closeTSF

LEMMA AcquireStep ==
  ASSUME ThreadIInv, Acquire
  PROVE  ThreadIInv'
<1> USE DEF ThreadIInv, ThreadTypeOK
<1>1. /\ Takes \subseteq Parts /\ {phase} \cap Sinks \subseteq Takes
      /\ phase = "message" => Takes \subseteq {"entry"}
      /\ program = "laylit" => Takes = CASE phase = "message" -> {}
                                        [] phase = "window" -> {"window", "entry"}
                                        [] OTHER -> {phase}
  BY DEF Acquire, Takes, Parts, Steps, Sinks
<1>2. Following[phase] \in (Steps \ {"class"}) \cup {"loop"}
  BY DEF Acquire, Following, Steps, TSFParts, Sinks
<1>3. ThreadTypeOK'
  BY <1>1, <1>2 DEF Acquire
<1>4. NothingDangles'
  BY <1>1, <1>2 DEF Acquire, NothingDangles, Steps, TSFParts, Sinks
<1>5. Held'
  <2>1. phase' # "class" /\ phase' # "stopped"
    BY <1>2 DEF Acquire, Steps, TSFParts, Sinks
  <2>2. CASE program = "laylit"
    <3>1. held' = held \cup Takes /\ phase' = Following[phase] /\ UNCHANGED program
      BY DEF Acquire
    <3> QED
      BY <1>1, <2>1, <2>2, <3>1 DEF Acquire, Held, Following, Returns, Deferred, Steps,
                                    TSFParts, Sinks
  <2> QED
    BY <2>1, <2>2 DEF Acquire, Held
<1> QED
  BY <1>3, <1>4, <1>5

LEMMA StartFailsStep ==
  ASSUME ThreadIInv,
         startTSFListener_Fails \/ messageLoop_StartFails \/ startProbe_Fails
  PROVE  ThreadIInv'
<1> USE DEF ThreadIInv
<1>1. ASSUME startTSFListener_Fails PROVE ThreadIInv'
  <2> DEFINE calls == IF phase = "com" THEN {} ELSE TSFParts
  <2>1. GiveBack(calls) /\ phase' = "hook" /\ program = "laylit" /\ phase \in TSFParts
    BY <1>1 DEF startTSFListener_Fails
  <2>2. held' \cap TSFParts = {}
    BY <2>1, GivenBack DEF Held
  <2>3. Held'
    BY <2>1, <2>2, GivenBack DEF Held, Returns, Deferred, Steps, TSFParts, Sinks
  <2> QED
    BY <2>1, <2>3, GivenBack DEF ThreadTypeOK, NothingDangles, Steps
<1>2. ASSUME messageLoop_StartFails PROVE ThreadIInv'
  <2>1. /\ GiveBack(Returns[phase] \cup Deferred[phase]) /\ phase' = "end"
        /\ program = "laylit" /\ phase \in Steps \ TSFParts
    BY <1>2 DEF messageLoop_StartFails
  <2>2. held' = {}
    BY <2>1, GivenBack DEF Held
  <2> QED
    BY <2>1, <2>2, GivenBack DEF Held, ThreadTypeOK, NothingDangles, Steps, TSFParts, Sinks
<1>3. ASSUME startProbe_Fails PROVE ThreadIInv'
  <2> DEFINE calls == IF phase = "class" THEN {} ELSE ProbeClose
  <2>1. GiveBack(calls) /\ phase' = "end" /\ program = "probe"
    BY <1>3 DEF startProbe_Fails
  <2>2. held' = {}
    BY <2>1, GivenBack DEF Held, ThreadTypeOK, Parts, Steps, ProbeClose
  <2> QED
    BY <2>1, <2>2, GivenBack DEF Held, ThreadTypeOK, NothingDangles, Steps, TSFParts, Sinks
<1> QED
  BY <1>1, <1>2, <1>3

LEMMA LoopEndsStep ==
  ASSUME ThreadIInv, LoopEnds
  PROVE  ThreadIInv'
<1> USE DEF ThreadIInv, ThreadTypeOK, LoopEnds
<1>1. held' \subseteq held /\ phase' = "stopped"
      /\ (program = "laylit" /\ ~loopFailed' => "window" \notin held')
  OBVIOUS
<1>2. ThreadTypeOK'
  BY <1>1
<1>3. Held'
  BY <1>1, StartsNoMore DEF Held, TSFParts, Sinks
<1>4. NothingDangles'
  BY <1>1 DEF NothingDangles, Sinks
<1> QED
  BY <1>2, <1>3, <1>4

LEMMA UnwindStep ==
  ASSUME ThreadIInv, Unwind
  PROVE  ThreadIInv'
<1> USE DEF ThreadIInv
<1> DEFINE calls == IF program = "laylit"
                      THEN {"hook"} \cup TSFParts \cup Deferred["hook"]
                      ELSE ProbeClose
<1>1. GiveBack(calls) /\ phase = "stopped" /\ phase' = "end"
  BY DEF Unwind
<1>2. Parts \ calls \subseteq IF program = "laylit" THEN {"window"} ELSE {}
  BY DEF Parts, Steps, ProbeClose, Deferred, ThreadTypeOK
<1>3. held' \subseteq IF program = "laylit" /\ loopFailed THEN {"window"} ELSE {}
  BY <1>1, <1>2, GivenBack DEF Held, ThreadTypeOK
<1> QED
  BY <1>1, <1>3, GivenBack DEF Held, ThreadTypeOK, NothingDangles, Steps, TSFParts, Sinks

LEMMA ThreadStays ==
  ASSUME ThreadIInv, UNCHANGED threadVars
  PROVE  ThreadIInv'
BY DEF ThreadIInv, ThreadTypeOK, Held, threadVars, NothingDangles

-----------------------------------------------------------------------------
(* The resolver.                                                           *)

(* Whatever Windows tells, it tells windows and layouts.                   *)
LEMMA ContextType ==
  ASSUME ResolverTypeOK, layout \in Layouts, NEW c \in ReadContexts
  PROVE  /\ c.key \in Threads \cup {NoThread}
         /\ c.focused \in Layouts \cup {NoLayout}
         /\ c.foreground \in Layouts \cup {NoLayout}
<1>1. ForegroundOf[focus] \in Threads /\ focus \in Threads
  BY ResolverAssumption DEF ResolverTypeOK
<1>2. LayoutOf(ForegroundOf[focus]) \in Layouts
  BY <1>1 DEF LayoutOf, ResolverTypeOK
<1>3. ASSUME NEW t \in Threads \cup {NoThread}, NEW f \in Layouts \cup {NoLayout},
             NEW g \in Layouts \cup {NoLayout},
             c \in Told([key |-> t, focused |-> f, foreground |-> g])
      PROVE  /\ c.key = t
             /\ c.focused \in {f, NoLayout}
             /\ c.foreground \in {g, NoLayout}
  BY <1>3 DEF Told
<1> DEFINE g == LayoutOf(ForegroundOf[focus])
<1>4. WithoutFocus = [key |-> ForegroundOf[focus], focused |-> NoLayout, foreground |-> g]
  BY DEF WithoutFocus
<1>5. CASE c = NoContext
  BY <1>5 DEF NoContext
<1>6. CASE c \in Told(ClearContext)
  BY <1>1, <1>2, <1>3, <1>6 DEF ClearContext
<1>7. CASE c \in Told(WithoutFocus)
  BY <1>1, <1>2, <1>3, <1>4, <1>7
<1> QED
  BY <1>5, <1>6, <1>7 DEF ReadContexts

LEMMA ResolvedType ==
  ASSUME ResolverTypeOK, layout \in Layouts, NEW c \in ReadContexts
  PROVE  /\ Resolved(c) \in Layouts \cup {NoLayout}
         /\ Resolved(c) = NoLayout => lastValid = NoLayout
BY ContextType DEF Resolved, Or, FromTSF, ResolverTypeOK

(* A full answer gives the focused thread's layout, or TSF's for it.       *)
LEMMA ResolvedClear ==
  ASSUME layout \in Layouts, ResolverTypeOK
  PROVE  \/ Resolved(ClearContext) = layout
         \/ tsf = [hkl |-> Resolved(ClearContext), context |-> focus]
BY ResolverAssumption DEF Resolved, Or, FromTSF, ClearContext, ResolverTypeOK

-----------------------------------------------------------------------------
(* Every action preserves the invariant.                                   *)

LEMMA KeysStep == ASSUME IInv, Keys PROVE IInv'
<1> USE DEF IInv
<1>1. ChordIInv'
  BY PressStep, ReleaseStep DEF Keys
<1>2. ThreadIInv'
  BY ThreadStays DEF Keys
<1>3. ResolverTypeOK' /\ SourceTypeOK' /\ Fresh'
  BY <1>1 DEF Keys, ResolverTypeOK, SourceTypeOK, Fresh, Listening, threadVars,
              resolverVars, TSFNotices, ChordIInv, ChordTypeOK
<1>4. WrongOnlyByTSF'
  <2>1. unread' \/ UNCHANGED <<layout, unread>>
    BY DEF Keys, Press, Release
  <2> QED
    BY <2>1 DEF Keys, WrongOnlyByTSF, Listening, threadVars, resolverVars
<1> QED
  BY <1>1, <1>2, <1>3, <1>4

LEMMA SwitchLayoutStep == ASSUME IInv, SwitchLayout PROVE IInv'
<1> USE DEF IInv
<1>1. ChordIInv'
  BY ElsewhereStep DEF SwitchLayout, keyVars
<1>2. ThreadIInv'
  BY ThreadStays DEF SwitchLayout
<1>3. ResolverTypeOK' /\ SourceTypeOK' /\ Fresh'
  BY DEF SwitchLayout, ResolverTypeOK, SourceTypeOK, Fresh, Listening, threadVars,
         resolverVars, TSFNotices, Announced, Unannounced
<1>4. WrongOnlyByTSF'
  BY DEF SwitchLayout, Announced, Unannounced, WrongOnlyByTSF
<1> QED
  BY <1>1, <1>2, <1>3, <1>4

LEMMA MoveFocusStep == ASSUME IInv, MoveFocus PROVE IInv'
<1> USE DEF IInv
<1>1. focus' \in Threads /\ layout' \in Layouts
  BY DEF MoveFocus, ResolverTypeOK
<1>2. ChordIInv'
  BY <1>1, ElsewhereStep DEF MoveFocus, keyVars
<1>3. ThreadIInv'
  BY ThreadStays DEF MoveFocus
<1>4. others' \in [Threads \ {focus'} -> Layouts]
  BY DEF MoveFocus, ResolverTypeOK, LayoutOf, ChordIInv, ChordTypeOK
<1>5. ResolverTypeOK' /\ SourceTypeOK' /\ Fresh'
  BY <1>1, <1>4 DEF MoveFocus, ResolverTypeOK, SourceTypeOK, Fresh, Listening,
         threadVars, resolverVars, Announced, Unannounced
<1>6. WrongOnlyByTSF'
  BY DEF MoveFocus, Announced, Unannounced, WrongOnlyByTSF
<1> QED
  BY <1>2, <1>3, <1>5, <1>6

LEMMA NotificationStep == ASSUME IInv, handleLayoutNotification PROVE IInv'
<1> USE DEF IInv
<1> PICK c \in ReadContexts :
      /\ resolve(c)
      /\ lastID' = IF Resolved(c) = NoLayout THEN lastID ELSE Resolved(c)
      /\ Knows(c)
  BY DEF handleLayoutNotification, publishCurrent
<1>1. layout' = layout /\ layout \in Layouts
  BY DEF handleLayoutNotification, Dispatch, ChordIInv, ChordTypeOK
<1>2. ChordIInv'
  BY <1>1, ReadStep DEF handleLayoutNotification, Dispatch, keyVars, ChordIInv,
                        ChordTypeOK
<1>3. ThreadIInv'
  BY ThreadStays DEF handleLayoutNotification, publishCurrent
<1>4. Resolved(c) \in Layouts \cup {NoLayout}
      /\ (Resolved(c) = NoLayout => lastValid = NoLayout)
  BY <1>1, ResolvedType
<1>5. ResolverTypeOK'
  BY <1>4 DEF handleLayoutNotification, publishCurrent, resolve, ResolverTypeOK
<1>6. SourceTypeOK' /\ Fresh'
  BY <1>4, StartsNoMore DEF handleLayoutNotification, publishCurrent, resolve, SourceTypeOK, Fresh,
              Listening, threadVars, Knows
<1>7. WrongOnlyByTSF'
  <2>1. CASE c # ClearContext
    BY <2>1 DEF Knows, WrongOnlyByTSF
  <2>2. CASE c = ClearContext
    <3>1. lastID' = Resolved(c) /\ focus' = focus /\ tsf' = tsf
      BY <1>1, <2>2, ResolverAssumption DEF handleLayoutNotification, publishCurrent,
              resolve, Resolved, Or, ClearContext
    <3> QED
      BY <1>1, <2>2, <3>1, ResolvedClear DEF WrongOnlyByTSF
  <2> QED
    BY <2>1, <2>2
<1> QED
  BY <1>2, <1>3, <1>5, <1>6, <1>7

LEMMA onTSFProfileStep == ASSUME IInv, onTSFProfile PROVE IInv'
<1> USE DEF IInv
<1>1. layout' = layout /\ layout \in Layouts
  BY DEF onTSFProfile, chordVars, ChordIInv, ChordTypeOK
<1>2. ChordIInv'
  BY <1>1, ElsewhereStep DEF onTSFProfile, chordVars
<1>3. ThreadIInv'
  BY ThreadStays DEF onTSFProfile
<1>4. CASE UNCHANGED <<resolverVars, lastID, unsure>>
  <2>1. ResolverTypeOK' /\ SourceTypeOK' /\ Fresh'
    BY <1>4 DEF onTSFProfile, ResolverTypeOK, SourceTypeOK, Fresh, Listening,
                threadVars, resolverVars
  <2>2. WrongOnlyByTSF'
    BY <1>4 DEF onTSFProfile, WrongOnlyByTSF, Listening, threadVars, resolverVars,
                chordVars
  <2> QED
    BY <1>2, <1>3, <2>1, <2>2
<1>5. ASSUME Listening, NEW c \in ReadContexts, activateTSF(notice, c),
             lastID' = notice, Knows(c)
      PROVE  IInv'
  <2>1. notice \in Layouts /\ notice # NoLayout
    BY DEF onTSFProfile, SourceTypeOK
  <2>2. c.key \in Threads \cup {NoThread}
    BY <1>1, ContextType
  <2>3. ResolverTypeOK'
    BY <1>5, <2>1, <2>2 DEF onTSFProfile, activateTSF, ResolverTypeOK
  <2>4. SourceTypeOK' /\ Fresh'
    BY <1>5, <2>1, StartsNoMore DEF onTSFProfile, activateTSF, SourceTypeOK, Fresh, Listening,
                      threadVars, Knows
  <2>5. WrongOnlyByTSF'
    <3>1. c = ClearContext => c.key = focus
      BY DEF ClearContext
    <3>2. unsure' \/ c = ClearContext
      BY <1>5 DEF Knows
    <3> QED
      BY <1>5, <3>1, <3>2 DEF onTSFProfile, activateTSF, WrongOnlyByTSF
  <2> QED
    BY <1>2, <1>3, <2>3, <2>4, <2>5
<1> QED
  BY <1>4, <1>5 DEF onTSFProfile

LEMMA CurrentStep == ASSUME IInv, Current PROVE IInv'
<1> USE DEF IInv
<1> PICK c \in ReadContexts : resolve(c)
  BY DEF Current
<1>1. layout \in Layouts
  BY DEF ChordIInv, ChordTypeOK
<1>2. ChordIInv'
  BY <1>1, ElsewhereStep DEF Current, chordVars
<1>3. ThreadIInv'
  BY ThreadStays DEF Current
<1>4. Resolved(c) \in Layouts \cup {NoLayout}
      /\ (Resolved(c) = NoLayout => lastValid = NoLayout)
  BY <1>1, ResolvedType
<1>5. ResolverTypeOK' /\ SourceTypeOK' /\ Fresh'
  BY <1>4 DEF Current, resolve, ResolverTypeOK, SourceTypeOK, Fresh, Listening,
              threadVars, sourceVars
<1>6. WrongOnlyByTSF'
  BY DEF Current, resolve, WrongOnlyByTSF, Listening, threadVars, sourceVars, chordVars
<1> QED
  BY <1>2, <1>3, <1>5, <1>6

LEMMA StartStep == ASSUME IInv, StartThread PROVE IInv'
<1> USE DEF IInv
<1>1. ChordIInv'
  BY ElsewhereStep DEF StartThread, chordVars, ChordIInv, ChordTypeOK
<1>2. ThreadIInv'
  BY AcquireStep, StartFailsStep DEF StartThread, Start
<1>3. phase \in Steps /\ phase # "loop"
  BY DEF StartThread, Start, Acquire, startTSFListener_Fails, messageLoop_StartFails,
         startProbe_Fails, Steps, TSFParts, Sinks
<1>4. ResolverTypeOK' /\ SourceTypeOK'
  BY DEF StartThread, ResolverTypeOK, SourceTypeOK, resolverVars, sourceVars, chordVars
<1>5. Fresh'
  BY <1>3 DEF StartThread, Fresh, Listening, resolverVars, sourceVars
<1>6. WrongOnlyByTSF'
  BY <1>3 DEF StartThread, Fresh, WrongOnlyByTSF, sourceVars
<1> QED
  BY <1>1, <1>2, <1>4, <1>5, <1>6

LEMMA StopStep == ASSUME IInv, Stop PROVE IInv'
<1> USE DEF IInv
<1>1. ChordIInv'
  BY DEF Stop, ChordIInv, ChordTypeOK, FlagsTrue, OneSide, Covered
<1>2. ThreadIInv'
  BY LoopEndsStep DEF Stop
<1>3. phase' = "stopped"
  BY DEF Stop, LoopEnds
<1>4. ResolverTypeOK' /\ SourceTypeOK' /\ Fresh'
  BY <1>3, StartsNoMore DEF Stop, clearTSF, NoTSF, ResolverTypeOK, SourceTypeOK, Fresh, Listening
<1>5. WrongOnlyByTSF'
  BY <1>3 DEF WrongOnlyByTSF, Listening
<1> QED
  BY <1>1, <1>2, <1>4, <1>5

LEMMA UnwindThreadStep == ASSUME IInv, UnwindThread PROVE IInv'
<1> USE DEF IInv
<1>1. ChordIInv'
  BY ElsewhereStep DEF UnwindThread, chordVars, ChordIInv, ChordTypeOK
<1>2. ThreadIInv'
  BY UnwindStep DEF UnwindThread
<1>3. phase = "stopped" /\ phase' = "end"
  BY DEF UnwindThread, Unwind
<1>4. ResolverTypeOK' /\ SourceTypeOK' /\ Fresh' /\ WrongOnlyByTSF'
  BY <1>3, StartsNoMore DEF UnwindThread, ResolverTypeOK, SourceTypeOK, Fresh, Listening,
              WrongOnlyByTSF, resolverVars, sourceVars, chordVars
<1> QED
  BY <1>1, <1>2, <1>4

LEMMA OtherStep == ASSUME IInv, ShellMessage \/ UNCHANGED vars PROVE IInv'
<1> USE DEF IInv
<1>1. ChordIInv'
  BY ElsewhereStep DEF ShellMessage, vars, chordVars, ChordIInv, ChordTypeOK
<1>2. ThreadIInv'
  BY ThreadStays DEF ShellMessage, vars
<1>3. ResolverTypeOK' /\ SourceTypeOK' /\ Fresh' /\ WrongOnlyByTSF'
  BY DEF ShellMessage, vars, ResolverTypeOK, SourceTypeOK, Fresh, Listening,
         WrongOnlyByTSF, threadVars, resolverVars, sourceVars, chordVars
<1> QED
  BY <1>1, <1>2, <1>3

-----------------------------------------------------------------------------
(* The inductive invariant holds: types, the chord, the thread, and what   *)
(* is remembered of TSF.                                                   *)
THEOREM InvariantHolds == Spec => []IInv
<1>1. Init => IInv
  <2> SUFFICES ASSUME Init PROVE IInv
    OBVIOUS
  <2>1. ChordIInv
    BY ChordStarts DEF Init
  <2>2. ResolverTypeOK
    BY DEF Init, ResolverInit, ResolverTypeOK, NoTSF
  <2>3. ThreadIInv
    BY DEF Init, ThreadInit, ThreadIInv, ThreadTypeOK, Held, NothingDangles, Steps, TSFParts
  <2>4. SourceTypeOK /\ Fresh /\ WrongOnlyByTSF
    BY DEF Init, ResolverInit, ThreadInit, SourceTypeOK, Fresh, WrongOnlyByTSF
  <2> QED
    BY <2>1, <2>2, <2>3, <2>4 DEF IInv
<1>2. IInv /\ [Next]_vars => IInv'
  BY KeysStep, SwitchLayoutStep, MoveFocusStep, NotificationStep, onTSFProfileStep,
     CurrentStep, StartStep, StopStep, UnwindThreadStep, OtherStep DEF Next
<1> QED
  BY <1>1, <1>2, PTL DEF Spec

(* Type correctness (TypeOK), with a known layout once one was published.  *)
THEOREM TypeCorrect == Spec => []TypeOK
<1>1. IInv => TypeOK
  BY DEF IInv, ChordIInv, SourceTypeOK, ThreadIInv, TypeOK
<1> QED
  BY <1>1, InvariantHolds, PTL

(* The hook of a listener follows every chord (ChordResynchronizes) among  *)
(* all the other things that make it read the layout.                      *)
THEOREM ChordAmongOthers == Spec => []ChordResynchronizes
<1>1. IInv => ChordResynchronizes
  BY ChordIsCovered DEF IInv
<1> QED
  BY <1>1, InvariantHolds, PTL

(* A listener that has handled everything it was told shows the focused    *)
(* thread's layout or what TSF told of this window (WrongOnlyByTSF).       *)
THEOREM ShowsFocusedLayout == Spec => []WrongOnlyByTSF
<1>1. IInv => WrongOnlyByTSF
  BY DEF IInv
<1> QED
  BY <1>1, InvariantHolds, PTL

(* Whichever step of the start failed and whatever Windows refused, TSF    *)
(* has no freed sink of laylit, and an ended thread has called Windows to  *)
(* take back all it took but the window of a failed GetMessage             *)
(* (NothingDangles): at each step, what may be held is covered by the      *)
(* calls made when that step fails (Held).                                 *)
THEOREM GivesBack == Spec => []NothingDangles
<1>1. IInv => NothingDangles
  BY DEF IInv, ThreadIInv
<1> QED
  BY <1>1, InvariantHolds, PTL

(* After stopPublishing nothing is published and nothing of TSF remembered *)
(* (StoppedIsFinal): every step that does either asks for the message loop.*)
THEOREM Final == Spec => StoppedIsFinal
<1>1. IInv /\ [Next]_vars => [Stopped => tsf' = NoTSF /\ lastID' = lastID]_vars
  <2> SUFFICES ASSUME IInv, Next, Stopped
               PROVE  tsf' = NoTSF /\ lastID' = lastID
    OBVIOUS
  <2>1. tsf = NoTSF /\ ~Listening /\ phase \notin Steps /\ phase # "loop"
    BY StartsNoMore DEF IInv, Fresh, Stopped, Listening
  <2>2. ~StartThread
    BY <2>1 DEF StartThread, Start, Acquire, startTSFListener_Fails,
                messageLoop_StartFails, startProbe_Fails, Steps
  <2>3. onTSFProfile \/ Current \/ UnwindThread
    BY <2>1, <2>2 DEF Next, Keys, SwitchLayout, MoveFocus, ShellMessage,
                      handleLayoutNotification, Stop, LoopEnds
  <2> QED
    BY <2>1, <2>3 DEF onTSFProfile, Current, resolve, UnwindThread, resolverVars,
                      sourceVars
<1> QED
  BY <1>1, InvariantHolds, PTL DEF Spec, StoppedIsFinal
=============================================================================
