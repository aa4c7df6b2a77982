SPECIFICATION FairSpec
CONSTANTS
  MaxHeight = 2
  Outcomes = {0, 4}
  VoteStatuses = {4}
  MaxVotes = 1
  BondedVaries = FALSE
  ShowBlocks = 1
  ConsecutiveMissed = 1
  Restored = FALSE
  Configs = {{"stalled", "consecutive"}, {"dash"}}
  NoMsg = NoMsg
INVARIANTS
  NewestRowIsOnItsWay
PROPERTIES
  BlockResolvesStall
  MissStreakIsReported
  SessionEnds
  DashboardCatchesUp
