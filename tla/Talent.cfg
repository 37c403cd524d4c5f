SPECIFICATION Spec
CONSTANTS
  Null = Null
  Handlers = {h1, h2}
  MaxRequests = 3
  Requests <- MCRequests
  Database <- MCDatabase
SYMMETRY Alike
INVARIANT AnsweredUnlessOvertaken
PROPERTIES
  FunnelKept
  ReviewsStand
  MeasuredStands
CHECK_DEADLOCK FALSE
