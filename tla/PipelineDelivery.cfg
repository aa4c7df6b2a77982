SPECIFICATION Spec
CONSTANTS
  Chains <- OneChain
  Texts <- MCTexts
  Emits <- StalledAndPercent
  Kind <- MCKind
  Dests <- MCDests
  PD = "pagerduty"
  Enabled <- AllDests
  Starting <- OneChain
  QueueCapacity = 1
  PDMaxAttempts = 2
  MaxAlerts = 3
  NoAlert = NoAlert
INVARIANTS
  TypeOK
  NoNeedlessRepeat
  SentAgreesWithDestination
  DashboardAgreesWithSent
  OpenAlarmHasIncident
PROPERTIES
  ResolutionFollowsTrigger
  ImplementsAlarmDelivery
