SPECIFICATION FairSpec
CONSTANTS
  UserIds = {"U1", "U2"}
  IncidentIds = {"INC1"}
  EventIds = {"EV1", "EV2"}
  NoId = NoId
  None = None
  Day = 2
  MaxInstant = 6
  Requests <- MCRequests
  Plans <- MCPlans
  Records <- MCRecords
  Observations <- MCObservations
  Syntheses <- MCSyntheses
  StepLimits = {1, 2, 3, 4, 5}
  CallLimits = {1, 2, 3}
INVARIANTS
  TypeOK
  IInv
  CompleteMeansEverySource
  ResultsMatchEvidence
  InterpretationBacked
  MLAbsenceExplained
  NoIdentifierInvented
  ReaderSeesNoIncident
PROPERTIES
  ContractSpec
  NoRetry
  LimitIsFinal
  Ends
