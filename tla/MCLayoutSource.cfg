\* Every fault.  The thread may end at any time.
SPECIFICATION Spec
CONSTANTS
  Alts = {alt}
  Shifts = {leftShift, rightShift}
  Layouts = {l1, l2}
  NoLayout = NoLayout
  t1 = t1
  t2 = t2
  t3 = t3
  Threads = {t1, t2, t3}
  NoThread = NoThread
  ForegroundOf <- MCForegroundOf
  ReadFaults = {"foreground", "focus", "hkl"}
  ThreadFaults = {"acquire", "unadvise", "getMessage", "refuse"}
INVARIANTS
  TypeOK
  ChordResynchronizes
  WrongOnlyByTSF
  NothingDangles
PROPERTIES
  StoppedIsFinal
SYMMETRY Symmetry
CHECK_DEADLOCK FALSE
