\* Two threads on two loggers, a third constructed by copy or default.
SPECIFICATION FairSpec
CONSTANTS
  i1 = i1
  i2 = i2
  empty = empty
  None = None
  NoThread = NoThread
  Threads = {t1, t2}
  Inners = {i1, i2, empty}
  Empty = empty
  Loggers = {1, 2, 3}
  InitialLog <- MCInitialLog
  Instants <- MCInstants
  NameStrategy = 9
  LogStrategy = 5
  FileFaults = {"fopen", "write", "EBADF"}
  MaxCalls = 2
INVARIANTS ReferencesCounted LocksHeld RightFile OneFile
PROPERTIES ImplementsRegistry CallsReturn
CHECK_DEADLOCK FALSE
