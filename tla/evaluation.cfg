SPECIFICATION Spec
CONSTANTS
  Day <- MCDay
  Hour <- MCHour
  Burst <- MCBurst
  NoUser = 0
  NoLand = NoLand
  at = at
  ch = ch
  Datasets <- MCDatasets
  Labellings <- MCLabellings
  Scores <- MCScores
  Windows <- MCWindows
  PeriodStart <- MCStart
  Cutoff <- MCCutoff
  PeriodEnd <- MCEnd
  Top <- MCTop
  MinimumEvents = 2
  None = None
INVARIANTS
  ObservationsPartition
  FlagsFollowRanks
PROPERTIES
  ServedAsTrained
CHECK_DEADLOCK FALSE
