SPECIFICATION RestartSpec
CONSTANTS
  MaxDocs = 3
  Missing = Missing
  Garbage = Garbage
  Future = Future
  NoTemp = NoTemp
  Configs = {{"inactive"}, {"percent"}}
  Monikers = {"alice"}
  Window = 2
  PercentLimit = 50
  MaxChanges = 2
  NoInfo = NoInfo
INVARIANTS
  RestartTypeOK
  ReportsInOrder
  InactiveAlarmIsRight
  PercentAlarmIsRight
  AlarmsSurviveRestarts
PROPERTY ResolutionNeedsTrigger
