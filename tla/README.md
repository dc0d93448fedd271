# npoller in TLA+

npoller is a C++20 library around an epoll event loop: sockets (`tcp`) that are driven by the
loop, buffers for their bytes, a coroutine pool, lock-free queues, spin locks and a logger.  This
directory models its concurrent and stateful parts in TLA+, checks them with TLC on small
instances, and proves properties of them for every value of the constants with TLAPS.

Contents

1. The system: components, state, interaction, hazards
2. The modules and how they correspond to the code
3. What each run checks, its bounds and its fairness
4. What is proved, and how
5. What the code does that its comments, tests or names do not say
6. What is not modelled
7. The plan

Run a check with `tlc -config MCTcp.cfg MCTcp`, a proof with `tlapm EventLoopProofs.tla`.  Paths
below are relative to `src/src/` of the repository.

## 1. The system

| Component | State | Operations | What makes it correct |
|---|---|---|---|
| `io/event_processor` | `status`, `task_list`, `ready_to_write`, `io_map`, the epoll set, a pipe | constructor, `process` (worker thread), `add_task`, `add_write_instant_task`, `add_io`, `remove_io`, destructor | no lost wake-up; every task runs once and in order; the loop starts only after construction, stops only on request and only when drained |
| `io/io`, `io/tcp` | `__status`, read and write lists, two `io_buffer`s, `write_busy`, `manager`, the fd | `connect`, `process_event`, `do_register`, instant writes, `close`, destructor | no operation lost or answered twice; bytes are accounted for; the fd leaves the loop before it is closed; a waiting write gets its event |
| `io/io_factory` | – | create an `io`, add it to a loop, connect | the object is registered before it is used |
| `io/tcp_acceptor` | a listening fd, a callback | `start_accept`, accepting, `close` | the callback hears of every connection in the backlog |
| `queue/mpsc_queue` | an owner's deque, a tbb queue, `index`, `consumed_index` | `push` (owner, others), `try_pop` (owner) | each item once, order per producer, never stuck |
| `coroutine_pool/threadpool` | `m_tasks`, `stop`, worker threads | `enqueue`, worker loop, destructor | every task runs once, none is left behind, the destructor ends |
| `coroutine_pool/coroutine_pool` | callbacks, promises, waiters per coroutine | `submit_task_start/_end`, `co_await`, `return_value`, destruction of a frame | a suspended coroutine is resumed once, after its value is there |
| `iobuffer/io_buffer`, `buffer.h` | pages, `begin`, `end`; a pool of pages | pushes and pops at both ends, moves between buffers | a buffer is a sequence of bytes; a page has one owner |
| `spinlock/spin_lock` | a flag; an owner and a count | `lock`, `try_lock`, `unlock` | mutual exclusion; the owner has as many locks as it has taken |
| `sulog` | loggers that share internal loggers; a file, its name and the time of the name per internal logger | logging calls, rotation, construction, assignment, swap, destruction | assignments are atomic and do not deadlock; no reference dangles; one file open per logger, and no line goes to the file of an earlier day |

How they interact.  A client thread pushes to the `mpsc_queue` or to `ready_to_write` of an
`event_processor` and wakes its worker through the pipe; the worker runs tasks, asks each ready
`io` to write, and calls `process_event` of a `tcp` for each epoll event, after which it re-arms
the descriptor with what `get_event` returns.  `do_register` of a `tcp` runs on the caller's
thread and hands its write to the loop with `add_write_instant_task`.  A `tcp` keeps its bytes in
two `io_buffer`s.  The coroutine pool is a thread pool whose tasks create, resume and wake
coroutines.  Every `io` has a `logger`; loggers on several threads share an `internal_logger`
through a `shared_ptr` that assignments and swaps guard with two `reentrant_spin_lock`s.

What is hard in this code: the sleeping protocol between `status` and the pipe, with relaxed
stores; a destructor that shares `status` with the worker; three lists and two counters that must
agree through partial writes, resets and closes; two queues with one order; pills for workers that
may be anywhere in their loop; coroutines that are resumed by whoever comes second; page pointers
that are swapped between buffers; two locks in the order of addresses, held while a file is closed;
threads that find the end of the day together.  `PROJECT.json` lists each hazard with its line
and the properties that would catch it.

## 2. The modules

| Module | Models | Proofs | Runs |
|---|---|---|---|
| `EventLoop` | `io/event_processor.{h,cpp}` | `EventLoopProofs` | `MCEventLoop*.cfg` |
| `TaskService` | what the loop promises for tasks (abstract) | | |
| `Tcp` | `io/tcp.{h,cpp}`, `io/tcp_acceptor.cpp`, `do_register`, `add_io`, `~io` | `TcpProofs` | `MCTcp*.cfg` |
| `IoOps` | the read and write path of `io/io.cpp`, as operators on the object | | |
| `MpscQueue` | `queue/mpsc_queue.h` | `MpscQueueProofs` | `MCMpscQueue.cfg` |
| `ThreadPool` | `coroutine_pool/threadpool.h` | `ThreadPoolProofs` | `MCThreadPool*.cfg` |
| `Executor` | what a thread pool promises (abstract) | | |
| `CoroutinePool` | `coroutine_pool/coroutine_pool.h` | `CoroutinePoolProofs` | `MCCoroutinePool.cfg` |
| `IoBuffer` | `iobuffer/io_buffer.{h,cpp}`, the pool of `buffer.h`, the buffers in `direct_read` and `direct_write` of `io/io.cpp` | `IoBufferProofs` | `MCIoBuffer.cfg` |
| `Loop` | a loop that runs its body a number of times, for `IoBuffer` | in itself | |
| `ByteBuffers` | what io_buffers promise (abstract) | | |
| `SpinLock` | `spinlock/spin_lock.h`: `reentrant_spin_lock` | `LoggerProofs` | |
| `LogFile` | `sulog/simple_logger.{h,cpp}`, `internal_logger` | | |
| `Logger` | `sulog/logger.{h,cpp}`, over `SpinLock` and `LogFile` | `LoggerProofs` | `MCLogger.cfg` |
| `LoggerRegistry` | what assignment, swap and destruction of loggers promise (abstract) | | |

**EventLoop.**  A step is one access to memory that another thread uses, or one system call.
`wpc` is the place of the worker in `process()`: `loop`, `tasks` and `writes` (the drains),
`check` (the test of `close_flag`), `epoll`, `woken`, `events`, `piperead`; `W...` actions are its
steps.
`cpc` is the place of a client in `add_task` or `add_write_instant_task`: it has `pushed`, then
loads `status` (`LoadStatus`), then may write a byte (`WritePipe`).  `opc` is the owner in the
constructor or destructor.  A task or a `process_event` that runs on the loop thread may make
any call of `LoopCalls`; an `io` stands for the descriptor it registers.  With
`StoreBuffering = TRUE` the worker's relaxed stores go to `sbuf` and reach memory later (x86-TSO):
a worker step that is a locked instruction or a system call waits until `sbuf` is empty.  `Faults`
names the system calls that may fail.

**TaskService** is the promise: a queue from which tasks run in order, each once, as long as the
loop is up.  `EventLoop!Service` is the refinement: `queue` is `task_list`, `done` the tasks run,
`up` means that neither `std::terminate` nor a failing `epoll_wait` has stopped the worker.

**Tcp** is one connection.  It is made by `connect()` in the task that created it, or `create_io`
has put it into the loop and nobody connects it, or an acceptor is to give it away (`acceptor`:
`StartAccept`, `PeerConnects`, `Accepted`, `AcceptFails`, `AcceptorCloses`); an accepted one is
put into the loop by its user (`AddIo`).  An accepted socket is blocking (section 5): when the
loop reads from it, it stays in `read()` (`ReadBlocks`, `reading`) and does nothing else for this
connection until the peer shuts down or resets.  A handler on the loop thread (`ConnectStarts`,
`EstablishedEvent`, `RefusedEvent`, `InstantWrite`, ...) is one step, with everything it calls:
`process_event`, the completion of operations, the re-arming of the descriptor.  `do_register`
runs on any thread and is three steps, for it checks the status, pushes, and then reads
`write_busy`.  The record `tcp` holds the object's fields; `IoOps` holds the operators that
`io.cpp` consists of (`WriteFlush`, `DirectRead`, `ProcessWrite`, ...), each from object to
object. Bytes are counted and not named.  The socket `net` and the peer are external.

**MpscQueue** keeps the two queues and the two numbers.  A remote push is two steps: it takes its
number with `fetch_add`, and its item appears in the tbb queue later.  The tbb queue is external,
a linearizable FIFO.  `pushed`, `popped` and `returned` are history variables.

**ThreadPool**: the tbb bounded queue is external, modelled with its tickets: a `pop` takes the
next ticket and waits for the item of that number, a `try_pop` takes one only if its item is there.
`Executor` is the promise: an accepted task runs exactly once and, until the pool is gone,
eventually; the pool is gone only after all of them have run.

**CoroutinePool**: a worker has a stack, since a resumed coroutine runs on top of what resumed it.
`tpc` is the packaged task of a coroutine (create, lock the callback, mark it, run it, unlock,
resume), `cpc` its body (submit a child, `await_ready`, `set_callback`, suspended or spinning,
`await_resume`, return, wake the waiters, destroy).  Each coroutine awaits at most one other, at
its start or at its end.  `m_tasks.size()` counts waiting workers as -1 each, so `is_busy()`, which
compares it with an unsigned number, is true for an idle pool; `IsBusy` says so.

**IoBuffer**: each operation is a function on the record [heap, pool, buf].  The self and the
other variants of a move have the same loops and are one operator with `b = c`.  Pointers to
blocks which the loops cache are looked up at each byte.  Each loop is `Times` of an instance of
`Loop` whose `Step` is the body.  After an operation the bytes outside `begin..end` are `Junk` and
a page is named after the place that holds it: neither stale bytes nor addresses matter, and a
program that uses them hands out `Junk` or breaks `PagesOwnedOnce`.

`DirectRead` and `DirectWrite` are the two places where an `io` works on the
positions of its buffers itself; which bytes `write()` is given is not modelled (section 5).

**SpinLock, LogFile, Logger.**  A thread in a call is in two records: `op[t]` is its place in an
assignment, swap, copy, construction or destruction (take a lock, count it, read a pointer, store
one, drop a reference, destroy an internal logger, count down, give up the lock), `line[t]` its
place in a logging call (take the time, compare it with the name's, the mutex, close the file, take
the time for a name, open, set `name_time`, write, retry).  A step has one access to what other
threads read or write without the lock or the mutex that its thread holds; `fp`, which only the
holder of the mutex touches, changes in one step with `state`.  So `open_file` is three steps: it
reads the clock (`ReadNow`), opens the file and sets `state` (`OpenFile`), and sets `name_time`
(`SetNameTime`), and others may take a time and compare it, without the mutex, between any two.
Two accesses are taken together with another: the second load of `name_time` in a comparison
(`NeedRename`: it is never unset again, so the load that decides counts), and the increment of a
count with the store of the pointer it is for, since the lock on the logger that is copied keeps
another reference alive.  `LocksOf` says which locks a call takes and in which order; loggers are
numbers, which stand for their addresses.
`use_count` is the count of a `shared_ptr`; the internal logger goes, with its file, when it is 0.
Time is a sequence of instants, and a file's name is the period it stands for (`Period`).  `fp` is
0 for NULL and `Stray` for a pointer to a FILE that is closed or was never opened.  `crashed`
records a write through one of these, or a call on an internal logger that is gone: the model stops
there, for the behaviour is undefined.

**LoggerRegistry** is the promise: an assignment or a swap changes the targets of its loggers in
one step, and an internal logger that is gone is nobody's target.

Every module's variables are commented with the member they model; `PROJECT.json` maps each
definition to its lines.

## 3. The runs

| Run | Question | Bounds |
|---|---|---|
| `event_loop` | is a wake-up ever lost, does every task run once in order, does a seen request end the loop | 2 clients, 2 tasks, 1 io, a pipe of 2 bytes, 2 instant writes |
| `event_loop_faults` | what survives failing `epoll_create`, `pipe2`, `epoll_ctl`, `epoll_wait`, signals and store buffering | the same, a pipe of 1 byte, callbacks that also call `add_task` |
| `event_loop_close` (violation) | does the destructor return | one client |
| `event_loop_tso` (violation) | does every task run when the relaxed stores are buffered | one client, two tasks |
| `tcp` | operations, bytes, fd, EPOLLOUT, callbacks, answers | connect, accept or neither; one read, writes of 1 and 2 bytes, 2 incoming bytes; failing `getsockopt`, `bind` and `accept` |
| `tcp_stall` (violation) | is a write answered after the send buffer was full | one write of 2 bytes |
| `mpsc_queue` | exactly once, order, never stuck, all delivered | owner and 2 threads, 2 pushes each |
| `thread_pool` | refinement of `Executor`, no task abandoned, the pills suffice | 2 workers, 2 tasks that may enqueue each other |
| `thread_pool_hang` (violation) | does the destructor return | 2 workers, 1 task |
| `coroutine_pool` | one resumer, value there, every coroutine ends | 2 workers, a chain of 3 and a pair, awaited at start and at end |
| `io_buffer` | refinement of `ByteBuffers`, page ownership, positions | 2 buffers, pages of 2 bytes, 6 bytes, pops and moves of 1, 3 and 5, reads and writes of an io |
| `logger` | locks, references, files, refinement of `LoggerRegistry`, every call returns | 2 threads, 3 loggers, 3 internal loggers, any 2 calls, the end of a day, failing `fopen` and writes |

Why the bounds are enough to meet the interesting cases.

- Event loop: one client can be between its push and its test of `status` while the other writes
  a byte; the pipe can be full while a third byte is due; a second task tells order and loss apart.
- Tcp: a write of two bytes can be partly sent, so that a completed and a partly sent write lie in
  `wait_write_list` together; the peer can reset, shut down or stop reading at any point.
- MpscQueue: two remote pushes can stand between their steps in both orders around the owner's.
- ThreadPool: one worker can have returned while the other runs a task that enqueues; with
  4 pills per worker there are 8 to drain.
- CoroutinePool: the chain's middle coroutine both awaits and is awaited; a worker can spin while
  the other runs the task it waits for.
- IoBuffer: five bytes are more than two pages, so that a move takes its path over whole pages,
  with both alignments, and 6 bytes leave something behind when that happens within one buffer.
  The contents are strings over two values, all of which are reachable, so that no permutation
  goes unnoticed.
- Logger: two calls on two threads meet at every pair of steps; any two of the three loggers can
  be taken in both orders, two can share an internal logger beside one that does not, and a third
  be constructed from another; both threads can find the end of the day, and one of them fail to
  reopen; the day can end between any two steps of `open_file`, also of one that follows a first
  `fopen` that failed.

Symmetry (clients, tasks) is used in `event_loop_faults` alone, which checks no liveness.

Fairness.  A thread that can run eventually runs: weak fairness of each worker's step, of a call
that a client or the destructor has begun, and of a buffered store that reaches memory.  Nothing
makes a caller call, an owner destroy, an event arrive or a system call fail.  `Tcp` assumes in
addition what its environment gives: the loop serves what is ready (this is `EventLoop`'s part),
the network answers a `connect`, and a live peer goes on reading.  `MpscQueue` assumes that the
owner polls, `Logger` that each thread goes on in its call.  No strong fairness is assumed
anywhere: in particular a mutex whose `try_lock` fails each time may make the caller spin, as the
code allows.

Deadlock checking is off where the system may stop: a destroyed loop or pool, a connection that is
closed, queues that are empty.  `io_buffer` checks it.

The properties that matter most:

- `NoLostTask`, `NoLostWrite`: once the drain of a queue has found it empty and until `epoll_wait`
  returns, a non-empty queue has a byte in the pipe or a client about to decide.
- `ImplementsService`: tasks run once, in order, eventually.
- `StopDrained`, `StopOnlyOnRequest`, `HandshakeSafe`: start and stop of the loop.
- `OneAnswer`, `WritesAccounted`, `ReadsAccounted`: operations and bytes are in one place each.
- `FullBufferIsArmed`, `WritesAnsweredUnlessFull`: a write waits for an event that will come.
- `ReturnedFirst`: a remote item whose push had returned before the owner pushed comes out first.
- `NoTaskAbandoned`, `ImplementsExecutor`: a task that is enqueued during the destruction runs.
- `OneResumer`: a coroutine that has begun and not ended is in exactly one place that runs or will
  resume it.
- `ReadsAnswered`: a read that is registered before its bytes come is answered when they have.
- `ReferencesCounted`, `ImplementsRegistry`: whatever threads assign and swap at the same time, the
  count of each `shared_ptr` is the number of its owners, and each call is one atomic change.
- `LocksHeld`, `CallsReturn`: nested locks of two loggers are owned as often as taken, and no two
  calls wait for each other.
- `OneFile`, `RightFile`: rotation by two threads leaves one open file, and no line in an old one,
  but for the one case of section 5, in which a call has nothing to compare its time with.
- `PagesOwnedOnce`, `IsByteBuffers`: raw page pointers have one owner, whatever is swapped, and the
  bytes in a buffer, and those a pop copies out, are those of a sequence.

The type invariants of `Tcp`, `CoroutinePool`, `IoBuffer` and `Logger` are conjuncts of
`WritesAccounted`, `OneResumer`, `WithinPages` and `ReferencesCounted`.

## 4. What is proved

For every number of clients, tasks, workers, producers, operations, coroutines, threads, loggers
and buffers, every size of a pipe, a page and the pool of pages, and every bound; the assumptions are the named ASSUMEs of the modules,
which the runs evaluate.  They say what the code's types say; that `Workers`, `Ops`, `Threads` and
`Buffers` are finite is one of them, for the proofs count their members.  A theorem that needs more says so
in its ASSUME.

| Theorem | Says |
|---|---|
| `TypeCorrect`, `PoolTypeCorrect`, `QueueTypeCorrect` | the type invariants |
| `NoLostWakeup`, `NoWriteForgotten` | `NoLostTask` and `NoLostWrite`, when stores are not buffered |
| `WorkerStartsAfterConstruction`, `StoppedLoopIsDrained`, `LoopStopsOnlyOnRequest` | `HandshakeSafe`, `StopDrained`, `StopOnlyOnRequest`, with store buffering and all faults |
| `LoopImplementsService` | each step of `EventLoop` is a step of `TaskService` or leaves it unchanged (the safety part) |
| `QueueNeverStuck` | `try_pop` fails on a non-empty queue only while a remote push is between its two steps |
| `EachItemOnce`, `ProducersInOrder`, `ReturnedComesFirst` | `ExactlyOnce`, `ProducerOrder`, `ReturnedFirst`, for any number of producers |
| `DescriptorReleasedOnce` | `FdReleasedOnce` of `Tcp`, for any operations, sizes and faults |
| `OperationsAnsweredOnce` | `OneAnswer`: an operation that was pushed waits in one list, once, or has had one answer |
| `BufferHoldsTheWrites`, `NoByteIsLost` | `WritesAccounted` and `ReadsAccounted`: the bytes of both directions |
| `FullBufferAsksForEpollout` | `FullBufferIsArmed`: whoever sets `write_busy`, EPOLLOUT is asked for |
| `OneResumerAlways` | `OneResumer` for any forest of coroutines, exceptions included |
| `ResumedHasItsValue` | `ValueIsThere` for any forest of coroutines in which nobody awaits the end of one that throws |
| `NothingAbandoned` | `NoTaskAbandoned` for any number of workers |
| `PoolImplementsExecutor` | each step of `ThreadPool` is a step of `Executor` or leaves it unchanged (the safety part of `ImplementsExecutor`) |
| `ReferencesAlwaysCounted` | `ReferencesCounted`: the counts of the `shared_ptr`s, and that no logger's pointer dangles |
| `RegistryImplemented` | `ImplementsRegistry`: each call on loggers is one atomic change |
| `OneFileAlways` | `OneFile`, with two threads that rotate together and any failures |
| `RightFileAlways` | `RightFile`, with its exception, if there is a rotation and `log_time::equal` does what its name says |
| `Invariance` | what is true of all buffers between two operations, for any sizes and inputs |
| `PopsCopyBytes` | `TypeOK` of `IoBuffer`: a copying pop hands out bytes that were written, never what a new page holds |
| `PagesAreOwnedOnce` | `PagesOwnedOnce`: each page in one place, whatever is swapped and handed over |
| `PositionsStayWithin` | `WithinPages`: no loop goes beside a page, `check()` never throws |
| `BuffersHoldTheirBytes` | `IsByteBuffers`: each push, pop, move, read and write leaves every buffer with the bytes, in the order, that `ByteBuffers` says, and copies out what it says |
| `LocksOwned` | `LocksHeld` for any number of threads and loggers, with all that happens to files in between |

The arguments.

- `NoLostTask` and `NoLostWrite` are not inductive: they do not say that a client which pushes
  now will write a byte.  `WakeInv` adds that while the worker looks at the queues for the last
  time, from `tasks` to `epoll`, `status` is not `working`: a client that has pushed and then
  loads `status` writes a byte, and a pipe that refuses one is not empty.  With `StoreBuffering`
  the addition is false, and so is the theorem: `event_loop_tso` is the counterexample.
- `CloseInv` has three parts.  `CtorInv`: before the constructor has published its work, and after
  it has failed, the worker is outside `process()` and has stored nothing.  `RequestInv`: only the
  destructor stores `ready_close`, and only its request sets `close_flag`.  `DrainInv`: once
  `close_flag` is set nobody pushes, so what a drain has emptied stays empty.
- `LoopImplementsService` rests on `TypeCorrect` and `NoRequestInEpoll`: a worker on its way into
  or out of `epoll_wait` has not been asked to stop, so a loop that has broken down never counts
  as up again.
- `QueueNeverStuck` needs the conservation law `Count`: `index` = numbers consumed + items in both
  queues + pushes between their steps; that the owner's numbers ascend and lie ahead of the
  consumed ones; and `Gap`: no more numbers are missing before an owner's item than remote items
  are to come.  It assumes
  `InitialSize = 0`, as every caller in the repository has it.  With default items in the deque it
  is false.
- `EachItemOnce`, `ProducersInOrder` and `ReturnedComesFirst` share `OrderInv`, on top of that
  invariant.  `Order`: the consumed items and each of the two queues keep the order of every
  producer, and what is consumed precedes what is queued.  `Origin` and `Present`: a queue holds
  items of its own producers only, and every item that was shown is consumed or in one of them.
  `Ahead`, which is what `index` is for: if the item at place `p` of the tbb queue had been
  inserted when the owner pushed its `i`-th queued item, then `p` remote and `i - 1` local pops fit
  before that item's number.  It is established by `Count` when the owner pushes and kept by each
  pop; when an owner's item has its turn no such `p` is left.  `ExactlyOnce` then follows from a
  bijection between the places of the three sequences and the inserted items (`NoDuplicates`).
- `DescriptorReleasedOnce`: `FdInv` says of an object that has closed its descriptor that it is out
  of the loop and its status is `closed`, and that before an acceptor has made the connection
  nothing refers to it.  Each handler is a chain of operators of `IoOps` and `Tcp`; a lemma for each
  says that it leaves status, registration and the count of closes alone, or that it is `close`,
  which does nothing to an object that is closed.
- The four theorems about operations and bytes share `OpsInv`.  `Operations`: an operation is
  `Held`, in a list or as an answer, once from its push on and never before; and the object is
  `Sound`: bytes not sent and bytes sent of the writes in `wait_write_list` add up to what these
  want.  `Received`: the bytes the peer sent are in the socket, in `read_buffer` or with a read, all
  of them unless there was a reset.  `Surroundings` types the rest; `Registered` bounds the instant
  writes by the writes that have asked for one.  A handler is a chain of operators of `IoOps`, and
  each has lemmas of what it does to a `Sound` object and to the places of one operation
  (`Keeps`); the handler's step is then their composition.
- `OneResumerAlways`: `InOnePlace` counts the entries on stacks, in the queue, in waiters lists and
  the callbacks that will resume a coroutine: one from its creation to its end, else none.  It needs
  `Turns`: a task creates its coroutine and resumes it once; a callback runs only if it was left,
  and is left only where it can still be run; a coroutine is submitted by its parent once.  A step
  then takes an activity from one place to another, or ends it.
- `ResumedHasItsValue`: somebody resumes a coroutine from a callback, from a waiters list or at the
  end of its spinning.  `Created` and `Awaits` say that a callback runs for a coroutine somebody
  has submitted, after its future is ready; `WaitersAwait` that waiters await an end; `Finished`
  that a coroutine which resumes its waiters has a value, or is one whose end nobody awaits.
  Without the assumption on exceptions the theorem is false (section 5).
- `NothingAbandoned`: a worker returns only after a `try_pop` that found nothing, with `stop` set,
  and a task can only be enqueued by a task that runs, on a worker that has then not returned.
- `PoolImplementsExecutor`: `PoolInv` says who holds which ticket.  `OneHolder`: two workers never
  have the same ticket, and no task was pushed under two.  `Served`: a ticket that was taken is
  held, or its item is a pill or has run.  `LeftBehind`: a task that has run was under a ticket
  that nobody holds any more, so a worker never runs one for the second time.  When the destructor
  has joined all workers nobody holds anything, and `NoTaskAbandoned` gives the items whose tickets
  were never taken: they are pills.
- `LocksOwned`: `LocksHeld` does not say where a thread is that is about to lock, so `LockInv` adds
  the place of each thread in its call: the pointers it has still to handle, and the number of
  locks it has (`Progress`); that a lock is owned by the one thread whose place says so, or that is
  between its test and its count (`Owner`); and that its count is how often that thread has it.
  One lemma, `LockChange`, says that a step of one thread keeps all this if it keeps, takes or
  yields each lock; each action is then one step of the proof.  Steps in files touch no lock.
- `ReferencesAlwaysCounted`, `OneFileAlways` and `RegistryImplemented` share `LoggerInv`:
  `LockInv`, `FileInv` and `RefInv`.  `FileInv` follows a logging call: its time is one that has
  been (`Stamped`); who replaces a file, and who prints a text, has the mutex (`Guarded`); a pointer
  to a closed file exists only while the thread with the mutex is about to open the next
  (`Rotated`).  `RefInv` follows a call on loggers: what its loggers are (`Asked`); that what it has
  read is still there when it stores (`Pending`), for it has the locks (`LockInv`); that a logger
  under construction or destruction is in no other call (`Alone`); and that each count is
  `References`, and 0 for what is gone.
- `RegistryImplemented`: a logger's target is the pointer it stores, except in a swap between its
  two stores, whose first logger has the other pointer already overwritten and still counts as
  referring to it (`Target`).  `TargetRule` says that no second swap is at that place with the same
  logger, so `Target` is one value; `Moves` says which changes of the targets a step can make, and
  each is a step of `LoggerRegistry`.
- `RightFileAlways`: `RightInv` says what `name_time` is worth to a thread that compares with it.
  `Named`: the file in use is no older than `name_time` says, and only between `OpenFile` and
  `SetNameTime` is there a file without a time.  `Opener`: what the thread in `open_file` has read
  is no earlier than its own line and `name_time`.  `InTime`: a thread that goes on to write
  without a reopen has a period no later than that of the file, and of any time read for the next
  file, or `missed` says that it found `name_time` unset while another thread had read the clock; a
  rotation by another thread in between only makes the file younger.  The exception is the code's,
  not the proof's (section 5).  The theorem assumes `NamesHold`: a rotation strategy, names that do
  not come back once the clock has left them, and a `log_time::equal` that tells readings apart as
  their names do.  The run's instance satisfies it.  The last part is what the comparison of the
  strategies gets wrong (section 5).  Without the exception, or without this part, it is false.

- `PagesAreOwnedOnce`, `PositionsStayWithin` and `BuffersHoldTheirBytes` share `IInv`.  `Held` says that each page is at one
  place of one row (the pages of a buffer, or the pool), except those in hand while an operation
  carries them from one row to another; `Sound` that this is so with nothing in hand, in a heap
  where every page has its cells.  `Ready` says of one buffer that its positions are within its
  pages and that each byte between them was written to; `Trim` that a buffer with positions has
  bytes; `Proper` is all of it for all buffers, and `Fine` the same without `Trim`, for in the
  middle of an operation a buffer may have positions and no bytes.  Within an operation each helper
  has a lemma: pages are added (`AddBack`, `AddFront`), released, written to, exchanged (`Swap`),
  handed over (`PageBehind`, `PageBefore`), and after it the state is `Sound`, and the positions
  and the bytes of each buffer are known from those before.  A loop keeps what its body keeps:
  `Loop` proves that `Times` runs its turns one after the other (`Iterates`), assuming that one
  can count up to their number (`CountsUpTo`); `CountingUp` proves this from the library's least
  element, and goes through the turns.  A move is then bytes, pages and bytes again: after `k`
  bytes of it `b` has at least all but `k` of its bytes, and the positions that move have gone `k`
  bytes on, up to whole pages (`GoneOn`, `GoneBack`).  At the end of an operation pages are named
  anew, which keeps `Proper` and all texts (`KeptProper`).
- `BuffersHoldTheirBytes` follows which bytes these are.  `Text` is what a buffer holds from `begin`
  to `end`, and each lemma on a helper also says what becomes of the texts: `Intact` for a buffer
  whose pages stay or come along with its positions, `Went` for bytes that go from the front of one
  buffer to the back of another, `Rotated` for a buffer that is moved into itself.  A page that is
  swapped carries its bytes in the cells beside those of the other buffer, and `Passed` says that
  after `k` bytes of a move the first `k` have gone and no other text has changed; `GoneBack` uses
  it backwards, for a move from the back is one from the front undone.  With `Became` each action
  is then the operation of `ByteBuffers` of its name, and one that only makes pages, or finds
  nothing to move, leaves the bytes unchanged (`NextKeeps`).

Only model-checked: everything about liveness (the fairness parts of `ImplementsService` and
`ImplementsExecutor`, `WritesServed`, `CloseCompletes`, `AllDelivered`, `EveryCoroutineEnds`,
`CallsReturn`, `ReadsAnswered`, `ConnectAnswered`, `WritesAnsweredUnlessFull`), which is out of
the prover's reach together with ENABLED.  Every safety invariant of the runs that pass, and the
safety part of every refinement, is proved.

## 5. Divergences

Shown by a run that TLC must find violated:

- *The destructor of an event loop may never return* (`event_loop_close`).  `ready_close` is
  stored in `status`, which the worker overwrites before it looks.
- *A task may stay queued on x86* (`event_loop_tso`).  The announcement `ready_waiting` is relaxed
  and may become visible after the worker has found the queue empty.
- *A connection that met a full send buffer writes no more* (`tcp_stall`).  `write_busy` is set on
  EAGAIN and cleared by nothing that EPOLLOUT triggers.
- *The destructor of a thread pool may never return* (`thread_pool_hang`).  The workers that drain
  the queue take the pills of one that has not come to its `pop` yet.

Met while modelling, modelled as they are or left out as said, with no run of their own:

- `event_processor::add_task` on the loop thread increments `task_index` and drops the task
  (`CallAddTask`).
- An `epoll_ctl` that fails to add the pipe is only logged (event_processor.cpp:40-42): the loop
  starts, and no byte ever wakes it (`pipe_added`).  The safety properties of `event_loop_faults`
  hold of such a loop; every promise that something happens is void, and the runs that check
  those have no failing calls.
- When the pipe is full the destructor destroys a joinable `std::thread`, which is
  `std::terminate` (`DtorWrite`); when `pipe2` had failed it writes to an uninitialised number
  (`DtorWriteStray`).
- `tcp::close` closes the fd and `~io` closes the same number again (`Destroy`).
- `accept` returns a blocking socket, and `tcp` tells `io`'s constructor that it is non-blocking,
  so nothing changes that: `direct_read`, which reads until EAGAIN, blocks the event loop until
  the peer shuts down or resets (`ReadBlocks`; tcp_acceptor.cpp:75, io.cpp:17; io.h:20 requires a
  non-blocking file).  `ReadsAnswered` and `WritesAnsweredUnlessFull` except a blocked loop.
- A read that is registered after its bytes have been read into `read_buffer` waits for the next
  event (io.cpp:269).  `ReadsAnswered` is about reads registered before.
- `create_io<tcp>` without an address gives a connection that its first event (EPOLLHUP) closes
  (`UnconnectedEvent`).
- A callback of an acceptor that moves from its argument leaves `client_tcp` null for the log line
  behind it (tcp_acceptor.cpp:107-108).  When `bind` or `listen` fails, `mark_invalid` clears
  `valid`, and `~io` then does not close the fd.  `io::close` of an acceptor leaves it in `io_map`,
  and `add_io` of the next object with its number throws out of a function declared `throw()`.
- Events are dispatched by fd number: one of a batch can meet an object that a callback of the same
  batch has put in the place of the one it was for.
- Pending reads, and writes in `wait_write_list`, are not notified when a connection closes.
- `direct_write` starts each call at offset 0 of its page and not at `begin % DEFAULT_SIZE`
  (io.cpp:209): after a partial write it sends bytes again.  `Tcp` counts bytes and cannot see it.
- A `notify` callback that closes its connection re-enters `process_read` (io.cpp:288).
- A sized `mpsc_queue` (no caller has one) holds items numbered 0 and is stuck after the first pop
  of one (mpsc_queue.h:26).  Items of two remote threads come out in the order of their
  emplacement and not of their numbers.
- `io_buffer::pop_back_n(dest, size)` removes from the right place and copies from a wrong one
  when `begin` is not 0, unless it takes all of them; `ByteBuffers!TakeBack` says that it copies as
  many bytes as it removes, and leaves open which ones when some remain.
  `pop_front_n(dest, 0)` at `begin = 0` pops everything.  `set(n)` accepts `n = size()`.
- `mem_container::get` tests and pops in two steps under a shared lock.
- `is_busy()` is true for an idle pool (`IsBusy`).
- A coroutine that awaits the end of one that throws never ends: it is resumed inside
  `~promise_type`, before the promise is broken, and blocks in `get()` (`Throws`, `Destroy`).
- A logging call reads the `shared_ptr` without the lock that an assignment holds: the internal
  logger may be destroyed under it (`UseDestroyed`).  The comment says that a `logger` cannot be
  copied; it has a copy constructor.
- A thread that has seen a file open, before another one's `fopen` failed, writes to NULL; a
  default-constructed logger has an `fp` that was never set, and a line of text without a rotation
  writes to it (`WriteStray`).
- While no `fopen` has succeeded yet `name_time` is unset, and a call that finds it so does not ask
  for a rotation (simple_logger.cpp:229).  Another thread may then be in `open_file`, with the clock
  read (simple_logger.cpp:123) and `name_time` not set (simple_logger.cpp:128).  If the day ends
  in between, the call finds the file open when it has the mutex (simple_logger.cpp:112), or at
  once (logger.h:138), and writes its line to the file of the day before.  `missed` marks such a
  line, and `RightFile` excepts it; it is the next line that rotates.
- `log_time::equal` (base_logger.h:94-96) compares the strategy with `month` and `hour`, which
  inside the class are the fields of the time recorded and not the enumerators: an hour file opened
  before 8 o'clock is not rotated before midnight, a month file opened before 10 o'clock in January
  to October never, and a day file opened after 9 o'clock every hour, into the file of the same
  name (`Equal`).  The run has a file by the day, whose date is always compared.
- `need_rename` and `write_success` are read without having been set on some paths, and an `errno`
  that is still EBADF from before marks a good file as bad and loses the next line (`TestState`).
- `~internal_logger` destroys its name once more than it is constructed.

## 6. Not modelled

Formatting, wording and text of log lines, the strategies finer than an hour, a `simple_logger`
used by itself (no part of the library does so), `try_lock` and the plain `spin_lock`, which have
no user; the `_DEBUG` monitors; `io_awaitable` and `concurrent_buffer`, which are stubs;
`locally_queue`, which nothing includes; test helpers and the example; `coroutine_task<void>` and
`result_awaitable`; the destruction of a coroutine pool that still holds coroutines; `get`,
`get_n`, `set` of `io_buffer`; the use of one pool of pages by several threads; an `io` that is
neither a connection nor an acceptor; `mark_invalid` of a `tcp`; several connections whose fds have
one number after the other; callbacks that call back into the object that notifies them.  Memory
orders other than the worker's relaxed stores are taken as sequentially consistent.  External, and
modelled by what their callers rely on: the kernel (epoll, pipe, sockets, files, the clock), tbb
queues, `std::shared_ptr` and `std::mutex`, `std::future`, the coroutine machinery.

## 7. The plan

Next, in this order:

1. Two connections with one fd number after the other, in one event loop; callbacks that call back
   into the object.
2. The write path with the positions of `IoBuffer`, for `direct_write`'s offset.
3. `MemContainer` with several threads, as a module of its own.
4. `CoroutinePool` over `Executor`, with the destruction of the pool.
