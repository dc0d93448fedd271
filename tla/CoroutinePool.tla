---------------------------- MODULE CoroutinePool ----------------------------
(***************************************************************************)
(* src/src/coroutine_pool/coroutine_pool.h: coroutines that submit other   *)
(* coroutines to the pool and co_await them, until the other one has been  *)
(* created (submit_task_start) or has returned (submit_task_end).          *)
(*                                                                         *)
(* An awaiting coroutine and the packaged task of the awaited one meet in  *)
(* execute_callback: either the coroutine leaves a callback, which the     *)
(* task runs, or it is late and waits by spinning.  A resumed coroutine    *)
(* runs on top of whatever resumed it, so each worker has a stack.         *)
(* thread_pool is used through what Executor promises; only m_tasks.size() *)
(* is kept.                                                                *)
(***************************************************************************)
EXTENDS Integers, Sequences, FiniteSets

CONSTANTS Workers,
          Coroutines,  \* every coroutine awaits at most one other
          Roots,       \* those a plain task starts (test/coroutine/coroutine_test.cpp)
          Child,       \* Child[n]: the coroutine n submits, or None
          None,
          Mode,        \* Mode[n]: how n is awaited, "start" or "end"
          Throwing     \* the coroutines whose body ends with an exception

ASSUME CoroutineAssumption ==
  /\ IsFiniteSet(Workers) /\ Workers # {}
  /\ Roots \subseteq Coroutines /\ Throwing \subseteq Coroutines
  /\ None \notin Coroutines
  /\ Child \in [Coroutines -> (Coroutines \ Roots) \cup {None}]
  /\ \A m, n \in Coroutines : Child[m] = Child[n] /\ Child[m] # None => m = n
  /\ Mode \in [Coroutines -> {"start", "end"}]

VARIABLES
  m_tasks,   \* the pool's queue
  stack,     \* per worker: what runs on it, the innermost last
  tpc,       \* per coroutine: where its packaged task is
  cpc,       \* per coroutine: where its body is
  future,    \* per coroutine: enqueue_awaitable::future_ is ready
  cb,        \* per coroutine: its execute_callback [held, has_ran, set, tries]
  done,      \* per coroutine: coroutine_task::future_ has no result, a value, or a broken promise
  waiters    \* per coroutine: promise_type::waiters

vars == <<m_tasks, stack, tpc, cpc, future, cb, done, waiters>>

Parent(n) == CHOOSE p \in Coroutines : Child[p] = n

Task(n) == [run |-> "task", of |-> n]  \* the packaged task that starts n
Body(n) == [run |-> "body", of |-> n]  \* n itself, resumed

Activity == {Task(n) : n \in Coroutines} \cup {Body(n) : n \in Coroutines}

\* Types: among them, set_callback tries the lock four times at most (TryAgain).
TypeOK ==
  /\ m_tasks \in Seq(Activity)
  /\ stack \in [Workers -> Seq(Activity)]
  /\ tpc \in [Coroutines -> {"new", "create", "lock", "mark", "callback", "unlock",
                             "resume", "over"}]
  /\ cpc \in [Coroutines -> {"unborn", "body", "await", "suspend", "spin", "suspended",
                             "resumed", "return", "wake", "destroy", "gone"}]
  /\ future \in [Coroutines -> BOOLEAN]
  /\ cb \in [Coroutines -> [held : BOOLEAN, has_ran : BOOLEAN, set : BOOLEAN, tries : 0..3]]
  /\ done \in [Coroutines -> {"no", "value", "broken"}]
  /\ waiters \in [Coroutines -> SUBSET Coroutines]

Init ==
  /\ m_tasks = <<>>
  /\ stack = [w \in Workers |-> <<>>]
  /\ tpc = [n \in Coroutines |-> "new"]
  /\ cpc = [n \in Coroutines |-> "unborn"]
  /\ future = [n \in Coroutines |-> FALSE]
  /\ cb = [n \in Coroutines |-> [held |-> FALSE, has_ran |-> FALSE, set |-> FALSE, tries |-> 0]]
  /\ done = [n \in Coroutines |-> "no"]
  /\ waiters = [n \in Coroutines |-> {}]

-----------------------------------------------------------------------------
(***************************************************************************)
(* The workers.                                                            *)
(***************************************************************************)
Top(w) == stack[w][Len(stack[w])]
Runs(w, a) == stack[w] # <<>> /\ Top(w) = a

Push(w, a) == stack' = [stack EXCEPT ![w] = Append(@, a)]
Leave(w) == stack' = [stack EXCEPT ![w] = SubSeq(@, 1, Len(@) - 1)]

AtTask(w, n, pc) == Runs(w, Task(n)) /\ tpc[n] = pc
AtBody(w, n, pc) == Runs(w, Body(n)) /\ cpc[n] = pc

TaskGoes(n, pc) == tpc' = [tpc EXCEPT ![n] = pc]
BodyGoes(n, pc) == cpc' = [cpc EXCEPT ![n] = pc]

\* main enqueues the tasks that start the roots.
EnqueueRoot(n) ==
  /\ n \in Roots /\ tpc[n] = "new"
  /\ m_tasks' = Append(m_tasks, Task(n))
  /\ TaskGoes(n, "resume")
  /\ UNCHANGED <<stack, cpc, future, cb, done, waiters>>

PopTask(w) ==
  /\ stack[w] = <<>> /\ m_tasks # <<>>
  /\ Push(w, Head(m_tasks))
  /\ m_tasks' = Tail(m_tasks)
  /\ UNCHANGED <<tpc, cpc, future, cb, done, waiters>>

\* m_tasks.size() counts a worker that waits in pop() as -1, and is_busy() compares it with
\* an unsigned number: an idle pool is busy too.
Size == Len(m_tasks) - Cardinality({w \in Workers : stack[w] = <<>>})
IsBusy == Size < 0 \/ Size >= (Cardinality(Workers) \div 2) * 3

-----------------------------------------------------------------------------
(***************************************************************************)
(* The packaged task of submit_task.                                       *)
(***************************************************************************)
\* _function() creates the coroutine, _promise.set_value(ret) makes the future ready.
Publish(w, n) ==
  /\ AtTask(w, n, "create")
  /\ future' = [future EXCEPT ![n] = TRUE]
  /\ TaskGoes(n, "lock")
  /\ UNCHANGED <<m_tasks, stack, cpc, cb, done, waiters>>

\* execute_callback::operator()
CallbackLock(w, n) ==
  /\ AtTask(w, n, "lock")
  /\ ~cb[n].held
  /\ cb' = [cb EXCEPT ![n].held = TRUE]
  /\ TaskGoes(n, "mark")
  /\ UNCHANGED <<m_tasks, stack, cpc, future, done, waiters>>

\* The mutant runs the callback without noting that it has run.
MarkedNever(c) == c
Marked(c) == [c EXCEPT !.has_ran = TRUE]

CallbackMark(w, n) ==
  /\ AtTask(w, n, "mark")
  /\ cb' = [cb EXCEPT ![n] = Marked(@)]
  /\ TaskGoes(n, IF cb[n].set THEN "callback" ELSE "unlock")
  /\ UNCHANGED <<m_tasks, stack, cpc, future, done, waiters>>

\* submit_task_start: the awaiting coroutine is resumed here, or through the queue.
CallbackResumes(w, n) ==
  /\ AtTask(w, n, "callback") /\ Mode[n] = "start"
  /\ IsBusy
  /\ Push(w, Body(Parent(n)))
  /\ BodyGoes(Parent(n), "resumed")
  /\ TaskGoes(n, "unlock")
  /\ UNCHANGED <<m_tasks, future, cb, done, waiters>>

CallbackEnqueues(w, n) ==
  /\ AtTask(w, n, "callback") /\ Mode[n] = "start"
  /\ ~IsBusy
  /\ m_tasks' = Append(m_tasks, Body(Parent(n)))
  /\ BodyGoes(Parent(n), "resumed")
  /\ TaskGoes(n, "unlock")
  /\ UNCHANGED <<stack, future, cb, done, waiters>>

\* submit_task_end: add_waitor, which nobody contends for before the coroutine has run.
CallbackWaits(w, n) ==
  /\ AtTask(w, n, "callback") /\ Mode[n] = "end"
  /\ waiters' = [waiters EXCEPT ![n] = @ \cup {Parent(n)}]
  /\ TaskGoes(n, "unlock")
  /\ UNCHANGED <<m_tasks, stack, cpc, future, cb, done>>

CallbackUnlock(w, n) ==
  /\ AtTask(w, n, "unlock")
  /\ cb' = [cb EXCEPT ![n].held = FALSE]
  /\ TaskGoes(n, "resume")
  /\ UNCHANGED <<m_tasks, stack, cpc, future, done, waiters>>

\* ret.resume()
Resume(w, n) ==
  /\ AtTask(w, n, "resume")
  /\ Push(w, Body(n))
  /\ BodyGoes(n, "body")
  /\ TaskGoes(n, "over")
  /\ UNCHANGED <<m_tasks, future, cb, done, waiters>>

TaskOver(w, n) ==
  /\ AtTask(w, n, "over")
  /\ Leave(w)
  /\ UNCHANGED <<m_tasks, tpc, cpc, future, cb, done, waiters>>

-----------------------------------------------------------------------------
(***************************************************************************)
(* A coroutine: submit, co_await, return.                                  *)
(***************************************************************************)
Submit(w, n) ==
  /\ AtBody(w, n, "body") /\ Child[n] # None
  /\ m_tasks' = Append(m_tasks, Task(Child[n]))
  /\ tpc' = [tpc EXCEPT ![Child[n]] = "create"]
  /\ BodyGoes(n, "await")
  /\ UNCHANGED <<stack, future, cb, done, waiters>>

NothingToAwait(w, n) ==
  /\ AtBody(w, n, "body") /\ Child[n] = None
  /\ BodyGoes(n, "return")
  /\ UNCHANGED <<m_tasks, stack, tpc, future, cb, done, waiters>>

\* enqueue_awaitable::await_ready; the mutant takes the creation for the end.
AwaitReadyEarly(n) == future[Child[n]]
AwaitReady(n) == future[Child[n]] /\ (Mode[Child[n]] = "start" \/ done[Child[n]] # "no")

Await(w, n) ==
  /\ AtBody(w, n, "await")
  /\ BodyGoes(n, IF AwaitReady(n) THEN "resumed" ELSE "suspend")
  /\ UNCHANGED <<m_tasks, stack, tpc, future, cb, done, waiters>>

\* set_callback: the coroutine is suspended if it takes the lock before the task does.
MayLeaveCallbackLate(c) == ~c.held
MayLeaveCallback(c) == ~c.held /\ ~c.has_ran

LeaveCallback(w, n) ==
  /\ AtBody(w, n, "suspend")
  /\ MayLeaveCallback(cb[Child[n]])
  /\ cb' = [cb EXCEPT ![Child[n]].set = TRUE]
  /\ BodyGoes(n, "suspended")
  /\ Leave(w)
  /\ UNCHANGED <<m_tasks, tpc, future, done, waiters>>

\* try_lock fails and the callback has not run yet: at most four times.
TryAgain(w, n) ==
  /\ AtBody(w, n, "suspend")
  /\ cb[Child[n]].held /\ ~cb[Child[n]].has_ran
  /\ cb[Child[n]].tries < 3
  /\ cb' = [cb EXCEPT ![Child[n]].tries = @ + 1]
  /\ UNCHANGED <<m_tasks, stack, tpc, cpc, future, done, waiters>>

TooLate(w, n) ==
  /\ AtBody(w, n, "suspend")
  /\ cb[Child[n]].has_ran \/ (cb[Child[n]].held /\ cb[Child[n]].tries = 3)
  /\ BodyGoes(n, "spin")
  /\ UNCHANGED <<m_tasks, stack, tpc, future, cb, done, waiters>>

\* while (!await_ready()), on the worker's time.
SpinEnds(w, n) ==
  /\ AtBody(w, n, "spin")
  /\ AwaitReady(n)
  /\ BodyGoes(n, "resumed")
  /\ UNCHANGED <<m_tasks, stack, tpc, future, cb, done, waiters>>

\* The get() of a broken promise throws std::future_error, which ends the awaiting body too.
Rethrows(n) == Mode[Child[n]] = "end" /\ done[Child[n]] = "broken"

\* await_resume takes the value; a get() of an unset value would wait for ever.
AwaitResume(w, n) ==
  /\ AtBody(w, n, "resumed")
  /\ AwaitReady(n)
  /\ BodyGoes(n, IF Rethrows(n) THEN "destroy" ELSE "return")
  /\ UNCHANGED <<m_tasks, stack, tpc, future, cb, done, waiters>>

\* return_value: set_value, then resume_all_waitor(false).
ReturnValue(w, n) ==
  /\ AtBody(w, n, "return") /\ n \notin Throwing
  /\ done' = [done EXCEPT ![n] = "value"]
  /\ BodyGoes(n, "wake")
  /\ UNCHANGED <<m_tasks, stack, tpc, future, cb, waiters>>

\* unhandled_exception sets no value.
Throws(w, n) ==
  /\ AtBody(w, n, "return") /\ n \in Throwing
  /\ BodyGoes(n, "destroy")
  /\ UNCHANGED <<m_tasks, stack, tpc, future, cb, done, waiters>>

\* resume_all_waitor: a waiter runs here and now; return_value and ~promise_type call it.
ResumeWaitor(w, n) ==
  /\ AtBody(w, n, "wake") \/ AtBody(w, n, "destroy")
  /\ \E p \in waiters[n] :
       /\ waiters' = [waiters EXCEPT ![n] = @ \ {p}]
       /\ Push(w, Body(p))
       /\ BodyGoes(p, "resumed")
  /\ UNCHANGED <<m_tasks, tpc, future, cb, done>>

\* final_suspend does not suspend: the frame is destroyed.
FinalSuspend(w, n) ==
  /\ AtBody(w, n, "wake") /\ waiters[n] = {}
  /\ BodyGoes(n, "destroy")
  /\ UNCHANGED <<m_tasks, stack, tpc, future, cb, done, waiters>>

\* The std::promise under promise_type goes last: without a value it is broken.
Destroy(w, n) ==
  /\ AtBody(w, n, "destroy") /\ waiters[n] = {}
  /\ done' = [done EXCEPT ![n] = IF @ = "no" THEN "broken" ELSE @]
  /\ BodyGoes(n, "gone")
  /\ Leave(w)
  /\ UNCHANGED <<m_tasks, tpc, future, cb, waiters>>

-----------------------------------------------------------------------------
TaskStep(w, n) ==
  \/ Publish(w, n) \/ CallbackLock(w, n) \/ CallbackMark(w, n)
  \/ CallbackResumes(w, n) \/ CallbackEnqueues(w, n) \/ CallbackWaits(w, n)
  \/ CallbackUnlock(w, n) \/ Resume(w, n) \/ TaskOver(w, n)

BodyStep(w, n) ==
  \/ Submit(w, n) \/ NothingToAwait(w, n) \/ Await(w, n)
  \/ LeaveCallback(w, n) \/ TryAgain(w, n) \/ TooLate(w, n) \/ SpinEnds(w, n)
  \/ AwaitResume(w, n) \/ ReturnValue(w, n) \/ Throws(w, n)
  \/ ResumeWaitor(w, n) \/ FinalSuspend(w, n) \/ Destroy(w, n)

WorkerStep(w) ==
  PopTask(w) \/ \E n \in Coroutines : TaskStep(w, n) \/ BodyStep(w, n)

Next == (\E w \in Workers : WorkerStep(w)) \/ (\E n \in Roots : EnqueueRoot(n))

Spec == Init /\ [][Next]_vars

\* The scheduler runs every worker that can run.
FairSpec == Spec /\ \A w \in Workers : WF_vars(WorkerStep(w))

-----------------------------------------------------------------------------
\* The places from which a coroutine may be resumed or in which it runs.
Places(n) ==
  Cardinality({at \in UNION {{w} \X (1..Len(stack[w])) : w \in Workers} :
                 stack[at[1]][at[2]] = Body(n)})
  + Cardinality({k \in 1..Len(m_tasks) : m_tasks[k] = Body(n)})
  + Cardinality({m \in Coroutines : n \in waiters[m]})
  + (IF Child[n] # None /\ cb[Child[n]].set /\ tpc[Child[n]] \in {"create", "lock", "mark", "callback"}
     THEN 1 ELSE 0)

(***************************************************************************)
(* A coroutine that has begun and not ended is in exactly one place: it    *)
(* runs, or one callback, one waiters list or one queue entry will resume  *)
(* it.  Two would resume a running or destroyed frame, none would lose it. *)
(***************************************************************************)
OneResumer ==
  TypeOK /\ \A n \in Coroutines : Places(n) = (IF cpc[n] \in {"unborn", "gone"} THEN 0 ELSE 1)

(***************************************************************************)
(* await_resume does not block: whoever resumes a coroutine does it after  *)
(* the future it awaits has its value ("Bad situation2!" is never reached).*)
(***************************************************************************)
ValueIsThere ==
  \A n \in Coroutines :
    cpc[n] = "resumed" =>
      /\ future[Child[n]]
      /\ Mode[Child[n]] = "end" => done[Child[n]] # "no"

(***************************************************************************)
(* "we can ensure the current coroutine will run" (coroutine_pool.h:365):  *)
(* every coroutine that is started ends, although late ones spin on a      *)
(* worker that the coroutine they wait for may need.                       *)
(***************************************************************************)
EveryCoroutineEnds == \A n \in Coroutines : (cpc[n] # "unborn") ~> (cpc[n] = "gone")
==============================================================================
