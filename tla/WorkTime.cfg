SPECIFICATION Spec
CONSTANTS
  Null = Null
  Handlers = {h1, h2}
  MaxRequests = 3
  Months <- MCMonths
  Year <- MCYear
  Requests <- MCRequests
  Database <- MCDatabase
SYMMETRY Alike
INVARIANT AnsweredUnlessOvertaken
PROPERTIES
  LockedDaysStand
  HistoryStands
  DecisionsStand
  RunsPartitionTime
CHECK_DEADLOCK FALSE
