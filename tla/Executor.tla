------------------------------ MODULE Executor -------------------------------
(***************************************************************************)
(* What thread_pool promises to a caller of enqueue: an accepted task runs *)
(* exactly once and, until the pool is destroyed, eventually; and a pool   *)
(* is gone only after every task it accepted has run, so that no future    *)
(* is left without its value.                                              *)
(***************************************************************************)
EXTENDS Naturals, Sequences

CONSTANT Tasks

VARIABLES accepted,  \* the tasks passed to enqueue
          finished,  \* the tasks that have run, in the order in which they ended
          gone       \* the destructor has returned

executorVars == <<accepted, finished, gone>>

Finished(t) == \E i \in 1..Len(finished) : finished[i] = t

ExecutorInit == accepted = {} /\ finished = <<>> /\ gone = FALSE

Accept(t) == /\ ~gone
             /\ t \notin accepted
             /\ accepted' = accepted \cup {t}
             /\ UNCHANGED <<finished, gone>>

Finish(t) == /\ ~gone
             /\ t \in accepted /\ ~Finished(t)
             /\ finished' = Append(finished, t)
             /\ UNCHANGED <<accepted, gone>>

Vanish == /\ ~gone
          /\ \A t \in accepted : Finished(t)
          /\ gone' = TRUE
          /\ UNCHANGED <<accepted, finished>>

ExecutorNext == (\E t \in Tasks : Accept(t) \/ Finish(t)) \/ Vanish

ExecutorSafety == ExecutorInit /\ [][ExecutorNext]_executorVars

ExecutorSpec == ExecutorSafety /\ \A t \in Tasks : WF_executorVars(Finish(t))
==============================================================================
