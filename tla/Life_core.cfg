CONSTANTS
  Opener = {c1, c2, c3}
  Unit = unit
  NoTask = none
  OpenFlags = {{}, {"PROM"}, {"MINE", "PROM"}}
SPECIFICATION FairSpec
INVARIANT TypeOK
INVARIANT CountsMatch
INVARIANT UnitServesUsers
INVARIANT UnitOutlivesProcess
PROPERTY ShutdownCompletes
PROPERTY LockServed
PROPERTY SharesUnit
CHECK_DEADLOCK FALSE
