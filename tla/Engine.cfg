SPECIFICATION Spec
CONSTANTS
  a = a
  b = b
  none = none
  e1 = e1
  e2 = e2
  Engines = {e1, e2}
  Subjects <- MCSubjects
  NoSubject = none
  Values <- MCValues
  Null = "null"
  Undefined = "undefined"
  Trim <- MCTrim
  Lower <- MCLower
  Scenarios <- MCScenarios
CHECK_DEADLOCK FALSE
INVARIANTS
  CountsAddUp
  Delivered
  UniqueSubject
PROPERTIES
  OnlyOrphansDeleted
  NothingToDo
