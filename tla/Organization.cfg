SPECIFICATION Spec
CONSTANTS
  Null = Null
  Handlers = {h1, h2}
  MaxRequests = 3
  Requests <- MCRequests
  Database <- MCDatabase
SYMMETRY Alike
INVARIANTS
  TypeOK
  AnsweredUnlessOvertaken
PROPERTIES
  CurrentWritesKeepForest
  DriftOnlyByMoves
  LockoutLasts
CHECK_DEADLOCK FALSE
