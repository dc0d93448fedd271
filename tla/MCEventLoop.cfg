\* Two clients against a loop whose system calls succeed, sequentially consistent memory.
SPECIFICATION FairSpec
CONSTANTS
  Clients = {c1, c2}
  Tasks = {t1, t2}
  Ios = {i1}
  PipeCapacity = 2
  MaxWrites = 2
  Faults = {}
  LoopCalls = {"add_io", "add_write", "remove_io"}
  StoreBuffering = FALSE
INVARIANTS TypeOK NoLostTask NoLostWrite StopOnlyOnRequest
PROPERTIES ImplementsService WritesServed CloseCompletes
\* The loop is destroyed or the process terminated: nothing is left to do.
CHECK_DEADLOCK FALSE
