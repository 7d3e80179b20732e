SPECIFICATION Spec
CONSTANTS
  s1 = s1
  s2 = s2
  s3 = s3
  A = A
  B = B
  Seeder = {s1, s2, s3}
  Seed = {A, B}
  Job <- MCJob
  ApiRow = ApiRow
  MaxAttempts = 2
  Torn = Torn
  None = None
  t1 = t1
  Trainer = {t1}
INVARIANTS
  MarkedDataset
  OneMarker
  ModelIsWhole
PROPERTIES
  OnlyResetDeletes
  UnmarkedStaysUnseeded
  LoneSeedingAgrees
  LoneTrainingAgrees
  EverySeedingEnds
CHECK_DEADLOCK FALSE
