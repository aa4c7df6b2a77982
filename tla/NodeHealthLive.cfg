SPECIFICATION FairSpec
CONSTANTS
  N = 1
  AlertIfDown = {1}
  PublicFallback = TRUE
  Flaky = {0, 1}
  NoNodesTicks = 1
  StartupTicks = 1
  MaxRestarts = 0
PROPERTIES
  OutageIsReported
  OutageIsResolved
  NodeRecoveryIsResolved
