SPECIFICATION Spec
CONSTANTS
  UserIds = {"U1", "U2"}
  IncidentIds = {"INC1"}
  EventIds = {"EV1", "EV2"}
  NoId = NoId
  None = None
  Day = 2
  MaxInstant = 6
  Requests <- MCRequests
  Plans <- MCPlans
  Records <- MCRecords
  Observations <- MCObservations
  Syntheses <- MCSyntheses
  StepLimits = {5}
  CallLimits = {3}
INVARIANTS
  EveryDateAnswered
