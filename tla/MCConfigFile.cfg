\* Two processes, two layouts that come and go, two colors and two names.
SPECIFICATION Spec
CONSTANTS
  Processes = {p1, p2}
  Layouts = {en, ru}
  Names = {n1, n2}
  Colors = {white, red}
  DefaultColor = white
  Absent = Absent
  Invalid = Invalid
  Torn = Torn
SYMMETRY Symmetry
INVARIANTS
  TypeOK
  NeverTorn
PROPERTIES
  SaveKeepsColors
