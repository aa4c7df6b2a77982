SPECIFICATION Spec
CONSTANTS
  N = 2
  AlertIfDown = {1}
  PublicFallback = FALSE
  Flaky = {1, 2}
  NoNodesTicks = 0
  StartupTicks = 0
  MaxRestarts = 1
INVARIANTS
  TypeOK
  DownTimeIsReal
  OpenNodeAlarmIsRemembered
