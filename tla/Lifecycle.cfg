SPECIFICATION Spec
CONSTANTS
  NPROC = 4
  Killable = {3}
  NULL = NULL
INVARIANTS
  ParentLives
  StillMyChild
  KilledAwake
  OnlyOrphansInACircle
PROPERTIES
  NoLostExit
  FreedOffCpu
CHECK_DEADLOCK FALSE
