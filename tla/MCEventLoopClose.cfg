\* No client and no io at all: the owner constructs the loop and destroys it.
SPECIFICATION FairSpec
CONSTANTS
  Clients = {c1}
  Tasks = {t1}
  Ios = {}
  PipeCapacity = 4
  MaxWrites = 0
  Faults = {}
  LoopCalls = {}
  StoreBuffering = FALSE
PROPERTIES CloseReturns
CHECK_DEADLOCK FALSE
