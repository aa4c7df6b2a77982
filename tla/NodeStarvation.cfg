SPECIFICATION FairSpec
CONSTANTS
  N = 2
  AlertIfDown = {}
  PublicFallback = FALSE
  Flaky = {}
  NoNodesTicks = 0
  StartupTicks = 0
  MaxRestarts = 0
PROPERTY UsableNodeEndsAlarm
