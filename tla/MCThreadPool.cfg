\* Two workers, two tasks, destroyed at any moment.
SPECIFICATION FairSpec
CONSTANTS
  Workers = {a, b}
  Tasks = {t1, t2}
  Pill = pill
INVARIANTS TypeOK NoTaskAbandoned
PROPERTIES ImplementsExecutor CloseCompletes
\* A destroyed pool takes no step; nor does one whose destructor never returns.
CHECK_DEADLOCK FALSE
