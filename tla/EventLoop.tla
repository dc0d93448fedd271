------------------------------ MODULE EventLoop ------------------------------
(***************************************************************************)
(* src/src/io/event_processor.{h,cpp}: one event loop.  A worker thread    *)
(* runs process(): it announces itself with the atomic `status`, drains    *)
(* task_list and ready_to_write, and blocks in epoll_wait.  Any number of  *)
(* client threads submit tasks and instant writes; they write one byte to  *)
(* a non-blocking pipe when `status` says that the worker may be asleep.   *)
(* The owner thread constructs the object and destroys it.                 *)
(*                                                                         *)
(* A step is one access to memory another thread uses, or one system call. *)
(* The stores of the worker to `status` are relaxed, so on x86 they sit in *)
(* a store buffer until the next locked instruction or system call; with   *)
(* StoreBuffering = FALSE they take effect at once.                        *)
(***************************************************************************)
EXTENDS Naturals, Sequences, FiniteSets

CONSTANTS Clients,         \* threads that call add_task / add_write_instant_task
          Tasks,           \* the tasks, each submitted at most once
          Ios,             \* file descriptors a loop callback may register
          PipeCapacity,    \* bytes the O_NONBLOCK pipe holds
          MaxWrites,       \* bound on pushes to ready_to_write
          Faults,          \* the system calls that may fail in this instance
          LoopCalls,       \* what code running on the loop thread may call
          StoreBuffering   \* are the worker's relaxed stores buffered

ASSUME LoopAssumption ==
  /\ PipeCapacity \in Nat \ {0}
  /\ MaxWrites \in Nat
  /\ StoreBuffering \in BOOLEAN
  /\ "pipe" \notin Ios

VARIABLES
  status,          \* event_processor::status
  sbuf,            \* stores to status still in the worker's store buffer
  task_list,       \* task_list
  ready_to_write,  \* ready_to_write
  pipe,            \* bytes in pipe_fd
  wpc,             \* where the worker thread is
  close_flag,      \* the local close_flag of process()
  batch,           \* entries of event_buff not handled yet; "pipe" is pipe_fd[0]
  kready,          \* registered descriptors with an event epoll has to report
  io_map,          \* the descriptors in io_map
  pipe_added,      \* is pipe_fd[0] in the epoll set
  opc,             \* where the owner is: constructor, alive, destructor
  cpc,             \* where each client is inside add_task / add_write_instant_task
  added,           \* history: tasks passed to add_task
  ran,             \* history: tasks run, in order
  nwrites          \* history: pushes to ready_to_write so far

workerVars == <<sbuf, wpc, close_flag, batch>>
queueVars  == <<task_list, ready_to_write, pipe>>
ioVars     == <<kready, io_map, pipe_added>>
histVars   == <<added, ran, nwrites>>
vars == <<status, workerVars, queueVars, ioVars, opc, cpc, histVars>>

StatusCode == {"initializing", "initialized", "invalid", "working", "ready_waiting",
               "waiting", "ready_close", "stop_work", "closed"}

WorkerPC == {"init", "loop", "tasks", "writes", "check", "epoll", "woken", "error",
             "events", "piperead", "exited"}

OwnerPC == {"ctor", "await", "alive", "failed", "dtor_write", "dtor_write_bad",
            "joining", "destroyed", "terminated"}

\* Types: among them, the pipe never holds more than its capacity (WritePipe, DtorWrite).
TypeOK ==
  /\ status \in StatusCode
  /\ sbuf \in Seq(StatusCode)
  /\ task_list \in Seq(Tasks)
  /\ ready_to_write \in Seq(Ios)
  /\ pipe \in 0..PipeCapacity
  /\ wpc \in WorkerPC
  /\ close_flag \in BOOLEAN
  /\ batch \subseteq Ios \cup {"pipe"}
  /\ kready \subseteq Ios
  /\ io_map \subseteq Ios
  /\ pipe_added \in BOOLEAN
  /\ opc \in OwnerPC
  /\ cpc \in [Clients -> {"idle", "pushed", "signal"}]
  /\ added \subseteq Tasks
  /\ ran \in Seq(Tasks)
  /\ nwrites \in Nat

Init ==
  /\ status = "initializing"
  /\ sbuf = <<>>
  /\ task_list = <<>> /\ ready_to_write = <<>>
  /\ pipe = 0
  /\ wpc = "init"
  /\ close_flag = FALSE
  /\ batch = {} /\ kready = {} /\ io_map = {}
  /\ pipe_added = FALSE
  /\ opc = "ctor"
  /\ cpc = [c \in Clients |-> "idle"]
  /\ added = {} /\ ran = <<>> /\ nwrites = 0

\* After std::terminate no thread of the process takes a step.
Running == opc # "terminated"

-----------------------------------------------------------------------------
\* The worker's relaxed store status.store(s).
WStore(s) ==
  IF StoreBuffering THEN sbuf' = Append(sbuf, s) /\ UNCHANGED status
                    ELSE status' = s /\ UNCHANGED sbuf

\* A locked instruction or a system call of the worker waits for its own stores.
Drained == sbuf = <<>>

Flush ==
  /\ Running /\ sbuf # <<>>
  /\ status' = Head(sbuf)
  /\ sbuf' = Tail(sbuf)
  /\ UNCHANGED <<wpc, close_flag, batch, queueVars, ioVars, opc, cpc, histVars>>

-----------------------------------------------------------------------------
(***************************************************************************)
(* The constructor.  The worker thread already runs init() when its body   *)
(* starts; what the two exchange is `status`.                              *)
(***************************************************************************)
CtorFails ==
  /\ opc = "ctor"
  /\ Faults \cap {"epoll_create", "pipe2"} # {}
  /\ status' = "invalid"
  /\ opc' = "failed"
  /\ UNCHANGED <<workerVars, queueVars, ioVars, cpc, histVars>>

\* An epoll_ctl that does not add the pipe is logged, and the loop starts all the same.
CtorPublish ==
  /\ opc = "ctor"
  /\ pipe_added' \in BOOLEAN
  /\ pipe_added' \/ "epoll_ctl" \in Faults
  /\ status' = "initialized"
  /\ opc' = "await"
  /\ UNCHANGED <<workerVars, queueVars, kready, io_map, cpc, histVars>>

CtorReturn ==
  /\ opc = "await"
  /\ status \notin {"initializing", "initialized", "invalid"}
  /\ opc' = "alive"
  /\ UNCHANGED <<status, workerVars, queueVars, ioVars, cpc, histVars>>

-----------------------------------------------------------------------------
(***************************************************************************)
(* The worker: init(), then the loop of process().                         *)
(***************************************************************************)
\* What the CAS of init() waits for; the mutant starts on a half-built object.
MayStartEarly == status \in {"initializing", "initialized"}
MayStart == status = "initialized"

WInitCas ==
  /\ Running /\ wpc = "init"
  /\ MayStart
  /\ status' = "working"
  /\ wpc' = "loop"
  /\ UNCHANGED <<sbuf, close_flag, batch, queueVars, ioVars, opc, cpc, histVars>>

WInitInvalid ==
  /\ Running /\ wpc = "init"
  /\ status = "invalid"
  /\ wpc' = "exited"
  /\ UNCHANGED <<status, sbuf, close_flag, batch, queueVars, ioVars, opc, cpc, histVars>>

WReadyWaiting ==
  /\ Running /\ wpc = "loop"
  /\ WStore("ready_waiting")
  /\ wpc' = "tasks"
  /\ UNCHANGED <<close_flag, batch, queueVars, ioVars, opc, cpc, histVars>>

\* What a task, a write callback or an io event handler may do to the loop, rtw being
\* ready_to_write as the handler finds it.  add_task called on the loop thread only
\* increments task_index: the task is counted as added and goes nowhere.
CallNothing(rtw) ==
  /\ ready_to_write' = rtw
  /\ UNCHANGED <<ioVars, added, nwrites>>

CallAddTask(rtw) ==
  /\ "add_task" \in LoopCalls
  /\ \E t \in Tasks \ added : added' = added \cup {t}
  /\ ready_to_write' = rtw
  /\ UNCHANGED <<ioVars, nwrites>>

CallAddWrite(rtw) ==
  /\ "add_write" \in LoopCalls
  /\ nwrites < MaxWrites
  /\ nwrites' = nwrites + 1
  /\ \E i \in io_map : ready_to_write' = Append(rtw, i)
  /\ UNCHANGED <<ioVars, added>>

CallAddIo(rtw) ==
  /\ "add_io" \in LoopCalls
  /\ status \in {"working", "ready_waiting"}
  /\ \E i \in Ios \ io_map : io_map' = io_map \cup {i}
  /\ ready_to_write' = rtw
  /\ UNCHANGED <<kready, pipe_added, added, nwrites>>

CallRemoveIo(rtw) ==
  /\ "remove_io" \in LoopCalls
  /\ \E i \in io_map : io_map' = io_map \ {i} /\ kready' = kready \ {i}
  /\ ready_to_write' = rtw
  /\ UNCHANGED <<pipe_added, added, nwrites>>

LoopCall(rtw) ==
  \/ CallNothing(rtw)
  \/ CallAddTask(rtw)
  \/ CallAddWrite(rtw)
  \/ CallAddIo(rtw)
  \/ CallRemoveIo(rtw)

\* try_pop leaves the rest of the queue; the mutant drops it.
RestDropped(q) == <<>>
Rest(q) == Tail(q)

\* process_task_queue, one task; local_task_list is never filled.
WRunTask ==
  /\ Running /\ wpc = "tasks" /\ Drained
  /\ task_list # <<>>
  /\ task_list' = Rest(task_list)
  /\ ran' = Append(ran, Head(task_list))
  /\ LoopCall(ready_to_write)
  /\ UNCHANGED <<status, workerVars, pipe, opc, cpc>>

WTasksEmpty ==
  /\ Running /\ wpc = "tasks"
  /\ task_list = <<>>
  /\ wpc' = "writes"
  /\ UNCHANGED <<status, sbuf, close_flag, batch, queueVars, ioVars, opc, cpc, histVars>>

\* process_instant_write, one io; what it does to the io is module Tcp.
WServeWrite ==
  /\ Running /\ wpc = "writes" /\ Drained
  /\ ready_to_write # <<>>
  /\ LoopCall(Tail(ready_to_write))
  /\ UNCHANGED <<status, workerVars, task_list, pipe, opc, cpc, ran>>

WWritesEmpty ==
  /\ Running /\ wpc = "writes"
  /\ ready_to_write = <<>>
  /\ wpc' = "check"
  /\ UNCHANGED <<status, sbuf, close_flag, batch, queueVars, ioVars, opc, cpc, histVars>>

\* Where the close request is tested; the mutant tests it before the queues are drained.
AtCloseTestEarly == wpc \in {"tasks", "check"}
AtCloseTest == wpc = "check"

\* What is tested there; the mutant tests status again, which the worker has overwritten.
CloseNowByStatus == close_flag /\ status = "ready_close"
CloseNow == close_flag

WStop ==
  /\ Running /\ AtCloseTest /\ CloseNow
  /\ WStore("stop_work")
  /\ wpc' = "exited"
  /\ UNCHANGED <<close_flag, batch, queueVars, ioVars, opc, cpc, histVars>>

WWaiting ==
  /\ Running /\ wpc = "check" /\ ~CloseNow
  /\ WStore("waiting")
  /\ wpc' = "epoll"
  /\ UNCHANGED <<close_flag, batch, queueVars, ioVars, opc, cpc, histVars>>

\* epoll_wait returns what is ready: the level-triggered pipe and the reported ios.
ReadyPipe == IF pipe_added /\ pipe > 0 THEN {"pipe"} ELSE {}

WEpollReturns ==
  /\ Running /\ wpc = "epoll" /\ Drained
  /\ kready \cup ReadyPipe # {}
  /\ batch' = kready \cup ReadyPipe
  /\ kready' = {}
  /\ wpc' = "woken"
  /\ UNCHANGED <<status, sbuf, close_flag, queueVars, io_map, pipe_added, opc, cpc, histVars>>

\* A signal handler interrupts epoll_wait: the batch stays empty.
WEpollInterrupted ==
  /\ Running /\ wpc = "epoll" /\ Drained
  /\ "eintr" \in Faults
  /\ wpc' = "woken"
  /\ UNCHANGED <<status, sbuf, close_flag, batch, queueVars, ioVars, opc, cpc, histVars>>

WEpollFails ==
  /\ Running /\ wpc = "epoll" /\ Drained
  /\ "epoll_wait" \in Faults
  /\ wpc' = "error"
  /\ UNCHANGED <<status, sbuf, close_flag, batch, queueVars, ioVars, opc, cpc, histVars>>

\* status.store(working), whatever status was: also when it was ready_close.
WWorking ==
  /\ Running /\ wpc = "woken"
  /\ WStore("working")
  /\ wpc' = IF batch = {} THEN "loop" ELSE "events"
  /\ UNCHANGED <<close_flag, batch, queueVars, ioVars, opc, cpc, histVars>>

WGiveUp ==
  /\ Running /\ wpc = "error"
  /\ WStore("working")
  /\ wpc' = "exited"
  /\ UNCHANGED <<close_flag, batch, queueVars, ioVars, opc, cpc, histVars>>

WReadPipe ==
  /\ Running /\ wpc = "events" /\ Drained
  /\ "pipe" \in batch
  /\ pipe' = IF pipe > 0 THEN pipe - 1 ELSE pipe
  /\ batch' = batch \ {"pipe"}
  /\ wpc' = "piperead"
  /\ UNCHANGED <<status, sbuf, close_flag, task_list, ready_to_write, ioVars, opc, cpc, histVars>>

\* Every byte wakes the worker, status says why; the mutant takes any byte for a request.
CloseSeenAlways == TRUE
CloseSeen == close_flag \/ status = "ready_close"

WSeeClose ==
  /\ Running /\ wpc = "piperead"
  /\ close_flag' = CloseSeen
  /\ wpc' = "events"
  /\ UNCHANGED <<status, sbuf, batch, queueVars, ioVars, opc, cpc, histVars>>

\* An event of an io that was removed since epoll_wait returned is skipped.
WIoEvent(i) ==
  /\ Running /\ wpc = "events" /\ Drained
  /\ i \in batch
  /\ batch' = batch \ {i}
  /\ IF i \in io_map THEN LoopCall(ready_to_write) ELSE CallNothing(ready_to_write)
  /\ UNCHANGED <<status, sbuf, wpc, close_flag, task_list, pipe, opc, cpc, ran>>

WBatchDone ==
  /\ Running /\ wpc = "events"
  /\ batch = {}
  /\ wpc' = "loop"
  /\ UNCHANGED <<status, sbuf, close_flag, batch, queueVars, ioVars, opc, cpc, histVars>>

\* The kernel finds a registered descriptor ready.
Arrive(i) ==
  /\ Running
  /\ i \in io_map \ kready
  /\ kready' = kready \cup {i}
  /\ UNCHANGED <<status, workerVars, queueVars, io_map, pipe_added, opc, cpc, histVars>>

-----------------------------------------------------------------------------
(***************************************************************************)
(* The clients: add_task, and add_write_instant_task with notify_event.    *)
(***************************************************************************)
AddTask(c, t) ==
  /\ opc = "alive" /\ cpc[c] = "idle"
  /\ t \notin added
  /\ added' = added \cup {t}
  /\ task_list' = Append(task_list, t)
  /\ cpc' = [cpc EXCEPT ![c] = "pushed"]
  /\ UNCHANGED <<status, workerVars, ready_to_write, pipe, ioVars, opc, ran, nwrites>>

AddWrite(c, i) ==
  /\ opc = "alive" /\ cpc[c] = "idle"
  /\ i \in io_map
  /\ nwrites < MaxWrites
  /\ nwrites' = nwrites + 1
  /\ ready_to_write' = Append(ready_to_write, i)
  /\ cpc' = [cpc EXCEPT ![c] = "pushed"]
  /\ UNCHANGED <<status, workerVars, task_list, pipe, ioVars, opc, added, ran>>

\* When a client writes the byte; the mutant trusts that a worker that is not blocked
\* yet will still look at the queues.
NeedsSignalBlocked == status = "waiting"
NeedsSignal == status # "working"

LoadStatus(c) ==
  /\ Running /\ cpc[c] = "pushed"
  /\ cpc' = [cpc EXCEPT ![c] = IF NeedsSignal THEN "signal" ELSE "idle"]
  /\ UNCHANGED <<status, workerVars, queueVars, ioVars, opc, histVars>>

\* The pipe is O_NONBLOCK: a full one refuses the byte (the mutant counts one too many).
PipeTakesOneMore == pipe <= PipeCapacity
PipeTakes == pipe < PipeCapacity

\* The client logs a refusal and returns.
WritePipe(c) ==
  /\ Running /\ cpc[c] = "signal"
  /\ pipe' = IF PipeTakes THEN pipe + 1 ELSE pipe
  /\ cpc' = [cpc EXCEPT ![c] = "idle"]
  /\ UNCHANGED <<status, workerVars, task_list, ready_to_write, ioVars, opc, histVars>>

-----------------------------------------------------------------------------
(***************************************************************************)
(* The destructor.  The owner calls it when no client is inside the        *)
(* object.  Where it does not join, ~thread runs on a joinable thread and  *)
(* that is std::terminate.                                                 *)
(***************************************************************************)
DtorStore ==
  /\ opc \in {"alive", "failed"}
  /\ \A c \in Clients : cpc[c] = "idle"
  /\ IF status \in {"stop_work", "closed"}
     THEN opc' = "terminated" /\ UNCHANGED status
     ELSE /\ status' = "ready_close"
          /\ opc' = IF opc = "alive" THEN "dtor_write" ELSE "dtor_write_bad"
  /\ UNCHANGED <<workerVars, queueVars, ioVars, cpc, histVars>>

DtorWrite ==
  /\ opc = "dtor_write"
  /\ IF PipeTakes
     THEN pipe' = pipe + 1 /\ opc' = "joining"
     ELSE opc' = "terminated" /\ UNCHANGED pipe
  /\ UNCHANGED <<status, workerVars, task_list, ready_to_write, ioVars, cpc, histVars>>

\* After a failed constructor pipe_fd[1] is uninitialised: the write fails, or it hits
\* whatever descriptor the stale number names.
DtorWriteStray ==
  /\ opc = "dtor_write_bad"
  /\ opc' \in {"joining", "terminated"}
  /\ UNCHANGED <<status, workerVars, queueVars, ioVars, cpc, histVars>>

DtorJoin ==
  /\ opc = "joining"
  /\ wpc = "exited" /\ Drained
  /\ opc' = "destroyed"
  /\ UNCHANGED <<status, workerVars, queueVars, ioVars, cpc, histVars>>

-----------------------------------------------------------------------------
WorkerStep ==
  \/ WInitCas \/ WInitInvalid
  \/ WReadyWaiting
  \/ WRunTask \/ WTasksEmpty
  \/ WServeWrite \/ WWritesEmpty
  \/ WStop \/ WWaiting
  \/ WEpollReturns \/ WWorking \/ WGiveUp
  \/ WReadPipe \/ WSeeClose
  \/ \E i \in Ios : WIoEvent(i)
  \/ WBatchDone

ClientContinues(c) == LoadStatus(c) \/ WritePipe(c)

OwnerContinues == \/ CtorPublish \/ CtorReturn
                  \/ DtorWrite \/ DtorWriteStray \/ DtorJoin

Environment == \/ WEpollInterrupted \/ WEpollFails
               \/ \E i \in Ios : Arrive(i)
               \/ CtorFails
               \/ DtorStore
               \/ \E c \in Clients : \/ \E t \in Tasks : AddTask(c, t)
                                     \/ \E i \in Ios : AddWrite(c, i)

Next == \/ WorkerStep \/ Flush
        \/ \E c \in Clients : ClientContinues(c)
        \/ OwnerContinues
        \/ Environment

Spec == Init /\ [][Next]_vars

\* A runnable thread eventually runs, a buffered store eventually reaches memory.
\* Nothing forces a caller to call, an event to arrive or a system call to fail.
Fairness == /\ WF_vars(WorkerStep)
            /\ WF_vars(Flush)
            /\ \A c \in Clients : WF_vars(ClientContinues(c))
            /\ WF_vars(OwnerContinues)

FairSpec == Spec /\ Fairness

-----------------------------------------------------------------------------
\* A client that has pushed and has not finished notifying.
Notifying == \E c \in Clients : cpc[c] \in {"pushed", "signal"}

\* No lost wake-up: once process_task_queue has found task_list empty and until
\* epoll_wait returns, a task in task_list has a byte in the pipe or a client that is
\* about to write one (or to see that it need not).
NoLostTask ==
  (wpc \in {"writes", "check", "epoll"} /\ task_list # <<>>) => (pipe > 0 \/ Notifying)

\* The same for ready_to_write once process_instant_write has found it empty.
NoLostWrite ==
  (wpc \in {"check", "epoll"} /\ ready_to_write # <<>>) => (pipe > 0 \/ Notifying)

\* The worker enters process() only after the constructor has finished the pipe, epoll
\* and event_buff it uses there (the acquire CAS in init() against the release store).
HandshakeSafe == wpc \notin {"init", "exited"} => opc \notin {"ctor", "failed"}

\* A loop that stopped on request has run every task handed to it before the
\* destructor and served every instant write: process() drains after it saw the request.
StopDrained ==
  status = "stop_work" => task_list = <<>> /\ ready_to_write = <<>>

\* The loop stops only because the destructor asked: ready_close is stored by the
\* destructor alone and close_flag is read nowhere else.
StopOnlyOnRequest ==
  (close_flag \/ status = "stop_work") => opc \in {"dtor_write", "joining", "destroyed", "terminated"}

\* The loop cannot run tasks any more: the process is dead or epoll_wait has failed.
BrokenDown == opc = "terminated" \/ wpc = "error" \/ (wpc = "exited" /\ ~close_flag)

\* Every task queued in task_list runs once, in queue order, eventually.
Service == INSTANCE TaskService WITH queue <- task_list, done <- ran, up <- ~BrokenDown
ImplementsService == Service!ServiceSpec
ImplementsServiceSafety == Service!ServiceSafety

\* Instant writes do not stay in ready_to_write, whether or not an event arrives.
WritesServed == (ready_to_write # <<>>) ~> (ready_to_write = <<>> \/ BrokenDown)

\* A destructor whose request the worker has seen returns.
CloseCompletes == close_flag ~> (opc \in {"destroyed", "terminated"})

-----------------------------------------------------------------------------
(***************************************************************************)
(* What comments and tests say and the code does not do.                   *)
(***************************************************************************)
\* The destructor returns: test/io/tcp_test.cpp:138 joins a thread that destroys the loop.
CloseReturns == (opc = "dtor_write") ~> (opc = "destroyed")

\* Every task passed to add_task runs, also one passed by a callback on the loop thread.
EveryTaskRuns ==
  \A t \in Tasks : (t \in added) ~> ((\E k \in 1..Len(ran) : ran[k] = t) \/ BrokenDown)
==============================================================================
