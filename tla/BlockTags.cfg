SPECIFICATION Spec
CONSTANTS
  MaxHeight = 2
  Outcomes = {0, 3, 4}
  VoteStatuses = {1, 2}
  MaxVotes = 2
  BondedVaries = TRUE
  ShowBlocks = 2
  ConsecutiveMissed = 1
  Restored = FALSE
  Configs = {{}}
  NoMsg = NoMsg
PROPERTY TagIsForMissedHeight
