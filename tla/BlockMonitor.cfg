SPECIFICATION Spec
CONSTANTS
  MaxHeight = 3
  Outcomes = {0, 3}
  VoteStatuses = {0, 2, 4}
  MaxVotes = 1
  BondedVaries = TRUE
  ShowBlocks = 2
  ConsecutiveMissed = 2
  Restored = TRUE
  Configs = {{"stalled", "consecutive"}}
  NoMsg = NoMsg
INVARIANTS
  TypeOK
  RowAgreesWithCounter
PROPERTIES
  BlockCountedAsItIs
  StallResolvedByBlock
