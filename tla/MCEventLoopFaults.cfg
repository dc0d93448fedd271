\* Failing system calls, signals and the worker's store buffer; callbacks call anything.
SPECIFICATION Spec
CONSTANTS
  Clients = {c1, c2}
  Tasks = {t1, t2}
  Ios = {i1}
  PipeCapacity = 1
  MaxWrites = 2
  Faults = {"epoll_create", "pipe2", "epoll_ctl", "eintr", "epoll_wait"}
  LoopCalls = {"add_task", "add_io", "add_write", "remove_io"}
  StoreBuffering = TRUE
SYMMETRY Interchangeable
INVARIANTS HandshakeSafe StopDrained
PROPERTIES ImplementsServiceSafety
CHECK_DEADLOCK FALSE
