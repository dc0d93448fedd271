\* Two workers and one task.
SPECIFICATION FairSpec
CONSTANTS
  Workers = {a, b}
  Tasks = {t1}
  Pill = pill
PROPERTIES DestructorReturns
CHECK_DEADLOCK FALSE
