CONSTANTS
  Opener = {c1, c2}
  Unit = unit
  NoTask = none
  OpenFlags = {{}}
SPECIFICATION Spec
INVARIANT NoReadAfterClose
CHECK_DEADLOCK FALSE
