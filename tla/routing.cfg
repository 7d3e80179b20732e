SPECIFICATION Spec
CONSTANTS
  UserIds = {"U1", "U2"}
  IncidentIds = {"INC1"}
  EventIds = {"EV1"}
  NoId = NoId
  Day = 2
  MaxInstant = 6
  Requests <- MCRequests
  Plans <- MCPlans
INVARIANTS
  DecisionsRunnable
  IntervalAsked
  SourcesApart
\* A request is routed once.
CHECK_DEADLOCK FALSE
