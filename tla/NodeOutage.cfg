SPECIFICATION FairSpec
CONSTANTS
  N = 1
  AlertIfDown = {1}
  PublicFallback = TRUE
  Flaky = {0, 1}
  NoNodesTicks = 0
  StartupTicks = 0
  MaxRestarts = 1
PROPERTY NodeOutageIsReported
