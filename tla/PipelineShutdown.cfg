SPECIFICATION FairSpec
CONSTANTS
  Chains <- TwoChains
  Texts <- MCTexts
  Emits <- StalledOrNoRPC
  Kind <- MCKind
  Dests <- MCDests
  PD = "pagerduty"
  Enabled <- OneDestEach
  Starting <- JunoStarting
  QueueCapacity = 1
  PDMaxAttempts = 2
  MaxAlerts = 3
  NoAlert = NoAlert
INVARIANTS
  NoSendOnClosedChannel
  CheckpointIsFinal
PROPERTIES
  BlockedEmissionProceeds
  ShutdownCompletes
