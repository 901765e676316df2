CONSTANTS
  Process = {p1, p2, p3}
  p1 = p1
  p2 = p2
  p3 = p3
  Rater = {ann, bob}
  ann = ann
  bob = bob
  Tombstone = deletedUser
  deletedUser = deletedUser
  PastRow = {old1, old2}
  old1 = old1
  old2 = old2
  NotYet = NotYet
  MaxVersion = 2
SPECIFICATION Spec
SYMMETRY Symmetry
CHECK_DEADLOCK FALSE
INVARIANTS
  TypeOK
  OlderRatingOnlyFromOverlap
  ErasedProseIsGone
  RemovedIsGone
  RefusedOnlyByOverlap
PROPERTIES
  HistoryKept
