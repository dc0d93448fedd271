----------------------------- MODULE TaskService -----------------------------
(***************************************************************************)
(* What event_processor promises to a caller of add_task: an accepted task *)
(* is run exactly once, tasks are run one at a time in the order in which  *)
(* they were accepted, and an accepted task is eventually run unless the   *)
(* loop breaks down (std::terminate, or an epoll_wait that fails).         *)
(***************************************************************************)
EXTENDS Sequences

CONSTANT Tasks

VARIABLES queue,    \* accepted tasks that have not been run yet, oldest first
          done,     \* the tasks that have been run, in the order they ran
          up        \* FALSE once the loop has broken down

serviceVars == <<queue, done, up>>

ServiceInit == /\ queue = <<>>
               /\ done = <<>>
               /\ up = TRUE

Submit(t) == /\ queue' = Append(queue, t)
             /\ UNCHANGED <<done, up>>

RunOldest == /\ up
             /\ queue # <<>>
             /\ queue' = Tail(queue)
             /\ done' = Append(done, Head(queue))
             /\ UNCHANGED up

BreakDown == /\ up
             /\ up' = FALSE
             /\ UNCHANGED <<queue, done>>

ServiceNext == \/ \E t \in Tasks : Submit(t)
               \/ RunOldest
               \/ BreakDown

ServiceSafety == ServiceInit /\ [][ServiceNext]_serviceVars

ServiceSpec == ServiceSafety /\ WF_serviceVars(RunOldest)
==============================================================================
