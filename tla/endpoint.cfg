SPECIFICATION EFairSpec
CONSTANTS
  UserIds = {"U1"}
  IncidentIds = {"INC1"}
  EventIds = {"EV1"}
  NoId = NoId
  None = None
  Day = 2
  MaxInstant = 6
  Requests <- MCRequests
  Plans <- MCPlans
  Records <- MCRecords
  Observations <- MCObservations
  Syntheses <- MCSyntheses
  StepLimits = {5}
  CallLimits = {3}
INVARIANTS
  ETypeOK
  DeliveredIsAudited
PROPERTIES
  BrokenIsFinal
  EveryRequestAnswered
