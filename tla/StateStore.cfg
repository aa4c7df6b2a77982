SPECIFICATION Spec
CONSTANTS
  MaxDocs = 5
  Missing = Missing
  Garbage = Garbage
  Future = Future
  NoTemp = NoTemp
INVARIANTS
  TypeOK
  AckedCheckpointSurvives
PROPERTIES
  GoodBackupStaysGood
  ReplacedPrimaryIsBackedUp
  UnusableFilesUntouched
  ImplementsStableDocument
