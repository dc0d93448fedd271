------------------------------ MODULE ThreadPool -----------------------------
(***************************************************************************)
(* src/src/coroutine_pool/threadpool.h: worker threads that pop tasks from *)
(* an unbounded tbb::concurrent_bounded_queue.  The destructor sets `stop` *)
(* and pushes empty tasks (pills) to wake the workers; a worker that sees  *)
(* `stop` after a task empties the queue and returns.                      *)
(*                                                                         *)
(* The queue is external.  pop() takes the next ticket and waits until an  *)
(* item with that number has been pushed; try_pop() takes a ticket only    *)
(* when its item is there, so it never takes the item of a waiting thread. *)
(***************************************************************************)
EXTENDS Naturals, Sequences, FiniteSets

CONSTANTS Workers,  \* the threads of `workers`
          Tasks,    \* the tasks, each enqueued at most once
          Pill      \* the empty task of the destructor

ASSUME PoolAssumption ==
  /\ IsFiniteSet(Workers) /\ Workers # {}
  /\ Pill \notin Tasks

VARIABLES
  items,   \* m_tasks: everything pushed so far, item k carries ticket k
  head,    \* m_tasks: tickets taken
  stop,    \* stop
  wpc,     \* where each worker is in its loop
  ticket,  \* the last ticket a worker took
  opc,     \* the owner: "alive", "pushing" and "joining" (destructor), "destroyed"
  pills,   \* pushes the destructor still has to make
  ran      \* history: the tasks that ran, in the order in which they ended

vars == <<items, head, stop, wpc, ticket, opc, pills, ran>>

\* The empty tasks the destructor pushes; the mutant pushes one for all workers together.
OnePill == 1
Pills == 4 * Cardinality(Workers)

Enqueued == {items[i] : i \in 1..Len(items)} \ {Pill}

\* Types: among them, a worker runs only an item that has been pushed (Receive, TryPop).
TypeOK ==
  /\ items \in Seq(Tasks \cup {Pill})
  /\ head \in Nat
  /\ stop \in BOOLEAN
  /\ wpc \in [Workers -> {"pop", "wait", "run", "drain", "drainrun", "returned"}]
  /\ ticket \in [Workers -> Nat]
  /\ \A w \in Workers : wpc[w] \in {"run", "drainrun"} => ticket[w] \in 1..Len(items)
  /\ opc \in {"alive", "pushing", "joining", "destroyed"}
  /\ pills \in 0..Pills
  /\ ran \in Seq(Tasks)

Init ==
  /\ items = <<>> /\ head = 0
  /\ stop = FALSE
  /\ wpc = [w \in Workers |-> "pop"] /\ ticket = [w \in Workers |-> 0]
  /\ opc = "alive" /\ pills = 0
  /\ ran = <<>>

-----------------------------------------------------------------------------
(***************************************************************************)
(* enqueue(): from outside while the pool lives, or from a task that runs. *)
(***************************************************************************)
InTask(w) == wpc[w] \in {"run", "drainrun"} /\ items[ticket[w]] # Pill

Enqueue(t) ==
  /\ opc = "alive" \/ \E w \in Workers : InTask(w)
  /\ t \notin Enqueued
  /\ items' = Append(items, t)
  /\ UNCHANGED <<head, stop, wpc, ticket, opc, pills, ran>>

-----------------------------------------------------------------------------
(***************************************************************************)
(* The loop of a worker.                                                   *)
(***************************************************************************)
Step(w, from, to) ==
  /\ wpc[w] = from
  /\ wpc' = [wpc EXCEPT ![w] = to]

TakeTicket(w) ==
  /\ head' = head + 1
  /\ ticket' = [ticket EXCEPT ![w] = head + 1]

\* m_tasks.pop(task)
Pop(w) ==
  /\ Step(w, "pop", "wait")
  /\ TakeTicket(w)
  /\ UNCHANGED <<items, stop, opc, pills, ran>>

Receive(w) ==
  /\ ticket[w] <= Len(items)
  /\ Step(w, "wait", "run")
  /\ UNCHANGED <<items, head, stop, ticket, opc, pills, ran>>

\* task(): a pill does nothing.
Ended(w) == IF items[ticket[w]] = Pill THEN ran ELSE Append(ran, items[ticket[w]])

\* `stop` is read after the task; what matters is that it can be set before the next pop.
Run(w) ==
  /\ Step(w, "run", IF stop THEN "drain" ELSE "pop")
  /\ ran' = Ended(w)
  /\ UNCHANGED <<items, head, stop, ticket, opc, pills>>

\* while (m_tasks.try_pop(task)); the mutant ignores that try_pop found nothing.
TryPopUnchecked(w) ==
  /\ Step(w, "drain", "drainrun")
  /\ TakeTicket(w)
  /\ UNCHANGED <<items, stop, opc, pills, ran>>
TryPop(w) ==
  /\ head < Len(items)
  /\ Step(w, "drain", "drainrun")
  /\ TakeTicket(w)
  /\ UNCHANGED <<items, stop, opc, pills, ran>>

DrainRun(w) ==
  /\ Step(w, "drainrun", "drain")
  /\ ran' = Ended(w)
  /\ UNCHANGED <<items, head, stop, ticket, opc, pills>>

\* When may a worker return?  The mutant does not empty the queue first.
MayReturnAtOnce == TRUE
MayReturn == head >= Len(items)

Return(w) ==
  /\ MayReturn
  /\ Step(w, "drain", "returned")
  /\ UNCHANGED <<items, head, stop, ticket, opc, pills, ran>>

-----------------------------------------------------------------------------
(***************************************************************************)
(* The destructor.                                                         *)
(***************************************************************************)
DtorStop ==
  /\ opc = "alive"
  /\ stop' = TRUE
  /\ opc' = "pushing" /\ pills' = Pills
  /\ UNCHANGED <<items, head, wpc, ticket, ran>>

DtorPush ==
  /\ opc = "pushing" /\ pills > 0
  /\ items' = Append(items, Pill)
  /\ pills' = pills - 1
  /\ opc' = IF pills = 1 THEN "joining" ELSE opc
  /\ UNCHANGED <<head, stop, wpc, ticket, ran>>

DtorJoin ==
  /\ opc = "joining"
  /\ \A w \in Workers : wpc[w] = "returned"
  /\ opc' = "destroyed"
  /\ UNCHANGED <<items, head, stop, wpc, ticket, pills, ran>>

-----------------------------------------------------------------------------
WorkerStep(w) ==
  \/ Pop(w) \/ Receive(w) \/ Run(w)
  \/ TryPop(w) \/ DrainRun(w) \/ Return(w)

Next ==
  \/ \E w \in Workers : WorkerStep(w)
  \/ \E t \in Tasks : Enqueue(t)
  \/ DtorStop \/ DtorPush \/ DtorJoin

Spec == Init /\ [][Next]_vars

\* The scheduler runs every thread that can run; whether to destroy is the owner's choice.
FairSpec == /\ Spec
            /\ \A w \in Workers : WF_vars(WorkerStep(w))
            /\ WF_vars(DtorPush \/ DtorJoin)

-----------------------------------------------------------------------------
(***************************************************************************)
(* The tasks whose ticket nobody has taken are lost once no worker is left *)
(* that will pop again: that never happens, also for a task that a running *)
(* task enqueues while the other workers have already returned.            *)
(***************************************************************************)
NoTaskAbandoned ==
  (\A w \in Workers : wpc[w] = "returned")
    => \A i \in (head + 1)..Len(items) : items[i] = Pill

(***************************************************************************)
(* The pool runs every task once and outlives all of them.                 *)
(***************************************************************************)
Promise == INSTANCE Executor WITH accepted <- Enqueued, finished <- ran,
                                  gone <- (opc = "destroyed")
ImplementsExecutor == Promise!ExecutorSpec

(***************************************************************************)
(* If no worker stands before a pop() when the destructor pushes its first *)
(* pill, the destructor returns: the pills reach every worker that waits,  *)
(* although the workers that drain the queue compete for them.             *)
(***************************************************************************)
NobodyLate == opc = "pushing" /\ pills = Pills /\ \A w \in Workers : wpc[w] # "pop"
CloseCompletes == NobodyLate ~> (opc = "destroyed")

(***************************************************************************)
(* test/coroutine/coroutine_test.cpp:28 and 44: a program whose pool is a  *)
(* local of main ends, so the destructor returns.                          *)
(***************************************************************************)
DestructorReturns == (opc = "pushing") ~> (opc = "destroyed")
==============================================================================
