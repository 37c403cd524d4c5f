SPECIFICATION Spec
CONSTANTS
  Null = Null
  Handlers = {h1, h2}
  MaxRequests = 3
  MaxSize = 1
  Requests <- MCRequests
  Database <- MCDatabase
SYMMETRY Alike
INVARIANT AnsweredUnlessOvertaken
PROPERTIES
  OthersRecordsStand
  FilesReadable
  NoRowForgetsItsObject
CHECK_DEADLOCK FALSE
