SPECIFICATION ConsoleSpec
CONSTANTS
  Requests = 2
  Session = {browser1}
  Endpoint <- MCEndpoint
  PoolSize = 1
  None = None
INVARIANTS
  CountersBalanced
  PoolKept
  AuditMatchesAnswer
  ShownIsLastAnswer
PROPERTIES
  EveryRequestAnswered
CHECK_DEADLOCK FALSE
