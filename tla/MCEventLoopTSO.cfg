\* The relaxed status stores of the worker on x86: visible late.
SPECIFICATION FairSpec
CONSTANTS
  Clients = {c1}
  Tasks = {t1, t2}
  Ios = {}
  PipeCapacity = 4
  MaxWrites = 0
  Faults = {}
  LoopCalls = {}
  StoreBuffering = TRUE
PROPERTIES EveryTaskRuns
CHECK_DEADLOCK FALSE
