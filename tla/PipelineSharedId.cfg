SPECIFICATION Spec
CONSTANTS
  Chains <- OneChain
  Texts <- MCTexts
  Emits <- StalledAndNoRPC
  Kind <- MCKind
  Dests <- MCDests
  PD = "pagerduty"
  Enabled <- OnlyPagerDuty
  Starting = {}
  QueueCapacity = 1
  PDMaxAttempts = 2
  MaxAlerts = 3
  NoAlert = NoAlert
INVARIANTS
  OpenAlarmHasIncident
