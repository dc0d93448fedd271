-------------------------- MODULE ThreadPoolProofs ---------------------------
(***************************************************************************)
(* Theorems about ThreadPool for any finite set of workers and any tasks.  *)
(***************************************************************************)
EXTENDS ThreadPool, FiniteSetTheorems, TLAPS

\* A worker that waits in pop() has taken a ticket.
WaitsForTicket == \A w \in Workers : wpc[w] = "wait" => ticket[w] > 0

TypeInv == TypeOK /\ WaitsForTicket

\* The number of pills is a positive natural number.
LEMMA PillsType == Pills \in Nat \ {0}
BY PoolAssumption, FS_CardinalityType, FS_EmptySet DEF Pills

(***************************************************************************)
(* Every variable keeps its range; in particular a worker runs only items  *)
(* that have been pushed.                                                  *)
(***************************************************************************)
THEOREM PoolTypeCorrect == Spec => []TypeOK
<1>1. Init => TypeInv
  <2> SUFFICES ASSUME Init PROVE TypeInv
    OBVIOUS
  <2>1. items \in Seq(Tasks \cup {Pill}) /\ ran \in Seq(Tasks)
    BY DEF Init
  <2>2. pills \in 0..Pills
    BY PillsType DEF Init
  <2> QED BY <2>1, <2>2 DEF Init, TypeInv, TypeOK, WaitsForTicket
<1>2. TypeInv /\ [Next]_vars => TypeInv'
  <2> SUFFICES ASSUME TypeInv, [Next]_vars PROVE TypeInv'
    OBVIOUS
  <2> USE DEF TypeInv, TypeOK, WaitsForTicket
  <2>1. ASSUME NEW w \in Workers, Pop(w) PROVE TypeInv'
    BY <2>1 DEF Pop, Step, TakeTicket
  <2>2. ASSUME NEW w \in Workers, Receive(w) PROVE TypeInv'
    BY <2>2 DEF Receive, Step
  <2>3. ASSUME NEW w \in Workers, wpc[w] \in {"run", "drainrun"}
        PROVE  Ended(w) \in Seq(Tasks)
    BY <2>3 DEF Ended
  <2>4. ASSUME NEW w \in Workers, Run(w) PROVE TypeInv'
    BY <2>3, <2>4 DEF Run, Step
  <2>5. ASSUME NEW w \in Workers, TryPop(w) PROVE TypeInv'
    BY <2>5 DEF TryPop, Step, TakeTicket
  <2>6. ASSUME NEW w \in Workers, DrainRun(w) PROVE TypeInv'
    BY <2>3, <2>6 DEF DrainRun, Step
  <2>7. ASSUME NEW w \in Workers, Return(w) PROVE TypeInv'
    BY <2>7 DEF Return, Step
  <2>8. ASSUME NEW t \in Tasks, Enqueue(t) PROVE TypeInv'
    BY <2>8 DEF Enqueue
  <2>9. CASE DtorStop
    BY <2>9, PillsType DEF DtorStop
  <2>10. CASE DtorPush
    BY <2>10, PillsType DEF DtorPush
  <2>11. CASE DtorJoin
    BY <2>11 DEF DtorJoin
  <2>12. CASE UNCHANGED vars
    BY <2>12 DEF vars
  <2> QED BY <2>1, <2>2, <2>4, <2>5, <2>6, <2>7, <2>8, <2>9, <2>10, <2>11, <2>12
          DEF Next, WorkerStep
<1>3. TypeInv => TypeOK
  BY DEF TypeInv
<1> QED BY <1>1, <1>2, <1>3, PTL DEF Spec

\* A worker leaves its loop only after `stop`, which only the destructor sets, and then
\* nobody enqueues from outside any more.
Leaving ==
  /\ \A w \in Workers : wpc[w] \in {"drain", "drainrun", "returned"} => stop
  /\ stop => opc # "alive"

(***************************************************************************)
(* Whatever the tasks enqueue while the pool is destroyed, no task is left *)
(* in the queue when the last worker has returned: a worker returns only   *)
(* on an empty queue, and the tasks that can still enqueue run on a worker *)
(* that looks again.                                                       *)
(***************************************************************************)
THEOREM NothingAbandoned == Spec => []NoTaskAbandoned
<1> DEFINE J == Leaving /\ NoTaskAbandoned
<1>1. Init => J
  BY PoolAssumption DEF Init, Leaving, NoTaskAbandoned
<1>2. TypeOK /\ J /\ [Next]_vars => J'
  <2> SUFFICES ASSUME TypeOK, J, [Next]_vars PROVE J'
    OBVIOUS
  <2> USE DEF Leaving, NoTaskAbandoned
  <2>1. ASSUME NEW w \in Workers, Pop(w) \/ Receive(w) \/ Run(w) \/ TryPop(w) \/ DrainRun(w)
        PROVE  J'
    <3>1. wpc'[w] # "returned" /\ stop' = stop /\ opc' = opc
      BY <2>1 DEF Pop, Receive, Run, TryPop, DrainRun, Step, TypeOK
    <3>2. Leaving'
      BY <2>1 DEF Pop, Receive, Run, TryPop, DrainRun, Step, TypeOK
    <3> QED BY <3>1, <3>2
  <2>2. ASSUME NEW w \in Workers, Return(w) PROVE J'
    <3>1. Leaving'
      BY <2>2 DEF Return, Step, TypeOK
    <3>2. head' = head /\ items' = items /\ head >= Len(items)
      BY <2>2 DEF Return, MayReturn
    <3>3. head \in Nat /\ Len(items) \in Nat
      BY DEF TypeOK
    <3> QED BY <3>1, <3>2, <3>3
  <2>3. ASSUME NEW t \in Tasks, Enqueue(t) PROVE J'
    <3>1. PICK w \in Workers : wpc[w] # "returned"
      BY <2>3, PoolAssumption DEF Enqueue, InTask
    <3> QED BY <2>3, <3>1 DEF Enqueue
  <2>4. CASE DtorStop
    BY <2>4 DEF DtorStop
  <2>5. CASE DtorPush
    <3>1. /\ Len(items') = Len(items) + 1 /\ items'[Len(items) + 1] = Pill
          /\ \A i \in 1..Len(items) : items'[i] = items[i]
      BY <2>5 DEF DtorPush, TypeOK
    <3>2. head' = head /\ wpc' = wpc /\ stop' = stop /\ opc' # "alive"
      BY <2>5 DEF DtorPush
    <3>3. head \in Nat /\ Len(items) \in Nat
      BY DEF TypeOK
    <3> QED BY <3>1, <3>2, <3>3
  <2>6. CASE DtorJoin
    BY <2>6 DEF DtorJoin
  <2>7. CASE UNCHANGED vars
    BY <2>7 DEF vars
  <2> QED BY <2>1, <2>2, <2>3, <2>4, <2>5, <2>6, <2>7 DEF Next, WorkerStep
<1>3. J => NoTaskAbandoned
  OBVIOUS
<1> QED BY <1>1, <1>2, <1>3, PoolTypeCorrect, PTL DEF Spec
-----------------------------------------------------------------------------
(***************************************************************************)
(* The promise of Executor: who holds which ticket, and what has run.      *)
(***************************************************************************)
\* The workers that hold an item, or the ticket of one that is still to come.
Holds(w) == wpc[w] \in {"wait", "run", "drainrun"}

\* Task t has run.
Done(t) == \E i \in 1..Len(ran) : ran[i] = t

\* No ticket is given out twice, and no task is pushed twice.
OneHolder ==
  /\ \A w \in Workers : Holds(w) => ticket[w] \in 1..head
  /\ \A v, w \in Workers : Holds(v) /\ Holds(w) /\ ticket[v] = ticket[w] => v = w
  /\ \A i, j \in 1..Len(items) : items[i] = items[j] /\ items[i] # Pill => i = j

\* A ticket that was taken is held, or its item has run.
Served(i) == \/ \E w \in Workers : Holds(w) /\ ticket[w] = i
             \/ i \in 1..Len(items) /\ (items[i] = Pill \/ Done(items[i]))

\* A task that has run was pushed, its ticket was taken, and nobody holds it any more.
LeftBehind(t) == \E i \in 1..Len(items) :
                   /\ i <= head /\ items[i] = t
                   /\ \A w \in Workers : Holds(w) => ticket[w] # i

PoolInv ==
  /\ OneHolder
  /\ \A i \in 1..head : Served(i)
  /\ \A t \in Tasks : Done(t) => LeftBehind(t)
  /\ opc = "destroyed" => \A w \in Workers : wpc[w] = "returned"

\* A worker that takes a ticket takes one that nobody has had.
LEMMA TakeKeepsPoolInv ==
  ASSUME TypeOK, PoolInv, NEW w \in Workers, TakeTicket(w), ~Holds(w), wpc[w] # "returned",
         wpc' \in [Workers -> {"pop", "wait", "run", "drain", "drainrun", "returned"}],
         wpc'[w] \in {"wait", "drainrun"}, \A v \in Workers \ {w} : wpc'[v] = wpc[v],
         UNCHANGED <<items, opc, ran>>
  PROVE  PoolInv'
<1>1. /\ head' = head + 1 /\ head \in Nat /\ ticket'[w] = head + 1
      /\ \A v \in Workers \ {w} : ticket'[v] = ticket[v]
      /\ Holds(w)' /\ \A v \in Workers \ {w} : Holds(v)' = Holds(v)
  BY DEF TypeOK, TakeTicket, Holds
<1>2. OneHolder'
  BY <1>1 DEF PoolInv, OneHolder
<1>3. \A t : Done(t)' = Done(t)
  BY DEF Done
<1>4. ASSUME NEW i \in 1..head' PROVE Served(i)'
  <2>1. CASE i = head + 1
    BY <2>1, <1>1 DEF Served
  <2>2. CASE i # head + 1
    <3>1. Served(i)
      BY <1>1, <2>2 DEF PoolInv
    <3> QED BY <3>1, <1>1, <1>3 DEF Served
  <2> QED BY <2>1, <2>2
<1>5. ASSUME NEW t \in Tasks, Done(t)' PROVE LeftBehind(t)'
  <2>1. LeftBehind(t)
    BY <1>3, <1>5 DEF PoolInv
  <2>2. PICK i \in 1..Len(items) : /\ i <= head /\ items[i] = t
                                   /\ \A v \in Workers : Holds(v) => ticket[v] # i
    BY <2>1 DEF LeftBehind
  <2>3. i # head + 1 /\ i <= head'
    BY <2>2, <1>1
  <2>4. \A v \in Workers : Holds(v)' => ticket'[v] # i
    BY <2>2, <2>3, <1>1
  <2> QED BY <2>2, <2>3, <2>4 DEF LeftBehind
<1>6. (opc = "destroyed" => \A v \in Workers : wpc[v] = "returned")'
  BY DEF PoolInv
<1> QED BY <1>2, <1>4, <1>5, <1>6 DEF PoolInv

\* The task of a worker that runs has not run before.
LEMMA NotRunBefore ==
  ASSUME TypeOK, PoolInv, NEW w \in Workers, wpc[w] \in {"run", "drainrun"},
         items[ticket[w]] # Pill
  PROVE  /\ items[ticket[w]] \in Tasks /\ items[ticket[w]] \in Enqueued
         /\ ~Done(items[ticket[w]])
<1>1. ticket[w] \in 1..Len(items) /\ Holds(w)
  BY DEF TypeOK, Holds
<1>2. items[ticket[w]] \in Tasks
  BY <1>1 DEF TypeOK
<1>3. ASSUME Done(items[ticket[w]]) PROVE FALSE
  <2>1. LeftBehind(items[ticket[w]])
    BY <1>2, <1>3 DEF PoolInv
  <2> QED BY <2>1, <1>1 DEF LeftBehind, PoolInv, OneHolder
<1> QED BY <1>1, <1>2, <1>3 DEF Enqueued

\* Appending a task to those that ran.
LEMMA DoneAppended ==
  ASSUME ran \in Seq(Tasks), NEW t \in Tasks, ran' = Append(ran, t)
  PROVE  \A u : Done(u)' <=> Done(u) \/ u = t
BY DEF Done

\* A worker whose task ends leaves it behind.
LEMMA EndKeepsPoolInv ==
  ASSUME TypeOK, PoolInv, NEW w \in Workers, wpc[w] \in {"run", "drainrun"},
         wpc' \in [Workers -> {"pop", "wait", "run", "drain", "drainrun", "returned"}],
         wpc'[w] \in {"pop", "drain"}, \A v \in Workers \ {w} : wpc'[v] = wpc[v],
         ran' = Ended(w), UNCHANGED <<items, head, ticket, opc>>
  PROVE  PoolInv'
<1> DEFINE k == ticket[w]
<1>1. /\ Holds(w) /\ ~Holds(w)' /\ \A v \in Workers \ {w} : Holds(v)' = Holds(v)
      /\ k \in 1..Len(items) /\ k <= head /\ head \in Nat /\ Len(items) \in Nat
  BY DEF TypeOK, Holds, PoolInv, OneHolder
<1>2. \A v \in Workers : Holds(v)' => Holds(v) /\ ticket[v] # k
  BY <1>1 DEF PoolInv, OneHolder
<1>3. OneHolder'
  BY <1>2 DEF PoolInv, OneHolder
<1>4. /\ \A u : Done(u) => Done(u)'
      /\ items[k] = Pill \/ Done(items[k])'
      /\ \A u \in Tasks : Done(u)' => Done(u) \/ (items[k] # Pill /\ u = items[k])
  <2>1. CASE items[k] = Pill
    BY <2>1 DEF Ended, Done
  <2>2. CASE items[k] # Pill
    <3>1. items[k] \in Tasks /\ ran \in Seq(Tasks)
      BY <1>1, <2>2 DEF TypeOK
    <3>2. ran' = Append(ran, items[k])
      BY <2>2 DEF Ended
    <3>3. \A u : Done(u)' <=> Done(u) \/ u = items[k]
      BY <3>1, <3>2, DoneAppended
    <3> QED BY <3>3, <2>2
  <2> QED BY <2>1, <2>2
<1>5. ASSUME NEW i \in 1..head' PROVE Served(i)'
  <2>1. CASE i = k
    BY <2>1, <1>1, <1>4 DEF Served
  <2>2. CASE i # k
    <3>1. Served(i)
      BY DEF PoolInv
    <3> QED BY <3>1, <2>2, <1>1, <1>4 DEF Served
  <2> QED BY <2>1, <2>2
<1>6. ASSUME NEW t \in Tasks, Done(t)' PROVE LeftBehind(t)'
  <2>1. CASE Done(t)
    <3>1. LeftBehind(t)
      BY <2>1 DEF PoolInv
    <3> QED BY <3>1, <1>2 DEF LeftBehind
  <2>2. CASE t = items[k]
    BY <2>2, <1>1, <1>2 DEF LeftBehind
  <2> QED BY <2>1, <2>2, <1>4, <1>6
<1>7. (opc = "destroyed" => \A v \in Workers : wpc[v] = "returned")'
  BY DEF PoolInv
<1> QED BY <1>3, <1>5, <1>6, <1>7 DEF PoolInv

\* A push gives the next number to an item that is a pill or a task not pushed before.
LEMMA PushKeepsPoolInv ==
  ASSUME TypeOK, PoolInv, NEW x \in Tasks \cup {Pill}, x = Pill \/ x \notin Enqueued,
         items' = Append(items, x), UNCHANGED <<head, wpc, ticket, ran>>,
         opc' = "destroyed" => opc = "destroyed"
  PROVE  PoolInv'
<1>1. /\ Len(items') = Len(items) + 1 /\ Len(items) \in Nat /\ head \in Nat
      /\ items'[Len(items) + 1] = x
      /\ \A i \in 1..Len(items) : items'[i] = items[i]
  BY DEF TypeOK
<1>2. \A w \in Workers : Holds(w)' = Holds(w)
  BY DEF Holds
<1>3. \A t : Done(t)' = Done(t)
  BY DEF Done
<1>4. OneHolder'
  <2>1. \A i \in 1..Len(items) : items[i] = Pill \/ items[i] # x
    BY DEF Enqueued
  <2>2. \A i, j \in 1..Len(items') : items'[i] = items'[j] /\ items'[i] # Pill => i = j
    BY <2>1, <1>1 DEF PoolInv, OneHolder
  <2> QED BY <2>2, <1>2 DEF PoolInv, OneHolder
<1>5. ASSUME NEW i \in 1..head' PROVE Served(i)'
  <2>1. Served(i)
    BY DEF PoolInv
  <2>2. CASE \E w \in Workers : Holds(w) /\ ticket[w] = i
    BY <2>2, <1>2 DEF Served
  <2>3. CASE i \in 1..Len(items) /\ (items[i] = Pill \/ Done(items[i]))
    BY <2>3, <1>1, <1>3 DEF Served
  <2> QED BY <2>1, <2>2, <2>3 DEF Served
<1>6. ASSUME NEW t \in Tasks, Done(t)' PROVE LeftBehind(t)'
  <2>1. LeftBehind(t)
    BY <1>3, <1>6 DEF PoolInv
  <2> QED BY <2>1, <1>1, <1>2 DEF LeftBehind
<1>7. (opc = "destroyed" => \A v \in Workers : wpc[v] = "returned")'
  BY DEF PoolInv
<1> QED BY <1>4, <1>5, <1>6, <1>7 DEF PoolInv

\* Steps that move neither tickets nor items and run nothing.
LEMMA QuietKeepsPoolInv ==
  ASSUME TypeOK, PoolInv, UNCHANGED <<items, head, ticket, ran>>,
         \A w \in Workers : Holds(w)' = Holds(w),
         opc' = "destroyed" => \A w \in Workers : wpc'[w] = "returned"
  PROVE  PoolInv'
<1>1. \A t : Done(t)' = Done(t)
  BY DEF Done
<1>2. OneHolder'
  BY DEF PoolInv, OneHolder
<1>3. \A i \in 1..head' : Served(i)'
  BY <1>1 DEF PoolInv, Served
<1>4. ASSUME NEW t \in Tasks, Done(t)' PROVE LeftBehind(t)'
  <2>1. LeftBehind(t)
    BY <1>1, <1>4 DEF PoolInv
  <2> QED BY <2>1 DEF LeftBehind
<1> QED BY <1>2, <1>3, <1>4 DEF PoolInv

LEMMA PoolInvInit == ASSUME Init PROVE PoolInv
BY DEF Init, PoolInv, OneHolder, Served, LeftBehind, Done, Holds

LEMMA PoolInvNext == ASSUME TypeOK, PoolInv, [Next]_vars PROVE PoolInv'
<1> USE DEF TypeOK
<1>1. ASSUME NEW w \in Workers, Pop(w) PROVE PoolInv'
  <2>1. /\ TakeTicket(w) /\ ~Holds(w) /\ wpc[w] # "returned"
        /\ wpc' \in [Workers -> {"pop", "wait", "run", "drain", "drainrun", "returned"}]
        /\ wpc'[w] \in {"wait", "drainrun"} /\ \A v \in Workers \ {w} : wpc'[v] = wpc[v]
        /\ UNCHANGED <<items, opc, ran>>
    BY <1>1 DEF Pop, Step, Holds
  <2> QED BY <2>1, TakeKeepsPoolInv
<1>2. ASSUME NEW w \in Workers, TryPop(w) PROVE PoolInv'
  <2>1. /\ TakeTicket(w) /\ ~Holds(w) /\ wpc[w] # "returned"
        /\ wpc' \in [Workers -> {"pop", "wait", "run", "drain", "drainrun", "returned"}]
        /\ wpc'[w] \in {"wait", "drainrun"} /\ \A v \in Workers \ {w} : wpc'[v] = wpc[v]
        /\ UNCHANGED <<items, opc, ran>>
    BY <1>2 DEF TryPop, Step, Holds
  <2> QED BY <2>1, TakeKeepsPoolInv
<1>3. ASSUME NEW w \in Workers, Run(w) \/ DrainRun(w) PROVE PoolInv'
  <2>1. /\ wpc[w] \in {"run", "drainrun"}
        /\ wpc' \in [Workers -> {"pop", "wait", "run", "drain", "drainrun", "returned"}]
        /\ wpc'[w] \in {"pop", "drain"} /\ \A v \in Workers \ {w} : wpc'[v] = wpc[v]
        /\ ran' = Ended(w) /\ UNCHANGED <<items, head, ticket, opc>>
    BY <1>3 DEF Run, DrainRun, Step
  <2> QED BY <2>1, EndKeepsPoolInv
<1>4. ASSUME NEW w \in Workers, Receive(w) \/ Return(w) PROVE PoolInv'
  <2>1. UNCHANGED <<items, head, ticket, ran>> /\ \A v \in Workers : Holds(v)' = Holds(v)
    BY <1>4 DEF Receive, Return, Step, Holds
  <2>2. opc' # "destroyed"
    BY <1>4 DEF Receive, Return, Step, PoolInv
  <2> QED BY <2>1, <2>2, QuietKeepsPoolInv
<1>5. ASSUME NEW t \in Tasks, Enqueue(t) PROVE PoolInv'
  <2>1. /\ t \notin Enqueued /\ items' = Append(items, t)
        /\ UNCHANGED <<head, wpc, ticket, ran>> /\ opc' = opc
    BY <1>5 DEF Enqueue
  <2> QED BY <2>1, PushKeepsPoolInv
<1>6. CASE DtorPush
  <2>1. /\ items' = Append(items, Pill) /\ UNCHANGED <<head, wpc, ticket, ran>>
        /\ opc' # "destroyed"
    BY <1>6 DEF DtorPush
  <2> QED BY <2>1, PushKeepsPoolInv
<1>7. CASE DtorStop \/ DtorJoin \/ UNCHANGED vars
  <2>1. UNCHANGED <<items, head, ticket, ran>> /\ \A v \in Workers : Holds(v)' = Holds(v)
    BY <1>7 DEF DtorStop, DtorJoin, vars, Holds
  <2>2. opc' = "destroyed" => \A w \in Workers : wpc'[w] = "returned"
    BY <1>7 DEF DtorStop, DtorJoin, vars, PoolInv
  <2> QED BY <2>1, <2>2, QuietKeepsPoolInv
<1> QED BY <1>1, <1>2, <1>3, <1>4, <1>5, <1>6, <1>7 DEF Next, WorkerStep

\* What a push adds to the set of items.
LEMMA ItemsAppended ==
  ASSUME items \in Seq(Tasks \cup {Pill}), NEW x \in Tasks \cup {Pill},
         items' = Append(items, x)
  PROVE  {items'[i] : i \in 1..Len(items')} = {items[i] : i \in 1..Len(items)} \cup {x}
<1>1. /\ Len(items') = Len(items) + 1 /\ Len(items) \in Nat
      /\ items'[Len(items) + 1] = x
      /\ \A i \in 1..Len(items) : items'[i] = items[i]
  OBVIOUS
<1>2. ASSUME NEW i \in 1..Len(items')
      PROVE  items'[i] \in {items[j] : j \in 1..Len(items)} \cup {x}
  <2>1. i \in 1..Len(items) \/ i = Len(items) + 1
    BY <1>1
  <2> QED BY <1>1, <2>1
<1>3. ASSUME NEW i \in 1..Len(items)
      PROVE  items[i] \in {items'[j] : j \in 1..Len(items')}
  <2>1. i \in 1..Len(items') /\ items'[i] = items[i]
    BY <1>1
  <2> QED BY <2>1
<1>4. x \in {items'[j] : j \in 1..Len(items')}
  <2>1. Len(items) + 1 \in 1..Len(items')
    BY <1>1
  <2> QED BY <1>1, <2>1
<1> QED BY <1>2, <1>3, <1>4

\* The tasks that have ended in the promise are those that have run.
LEMMA PromiseFinished == \A t : Promise!Finished(t) <=> Done(t)
BY DEF Promise!Finished, Done

LEMMA StepImplementsExecutor ==
  ASSUME TypeOK, PoolInv, NoTaskAbandoned, [Next]_vars
  PROVE  [Promise!ExecutorNext]_(Promise!executorVars)
<1> USE DEF TypeOK
<1> DEFINE Promised == [Promise!ExecutorNext]_(Promise!executorVars)
<1>1. ASSUME UNCHANGED <<items, ran, opc>> PROVE Promised
  BY <1>1 DEF Promise!executorVars, Enqueued
<1>2. ASSUME NEW w \in Workers, Run(w) \/ DrainRun(w) PROVE Promised
  <2>1. /\ wpc[w] \in {"run", "drainrun"} /\ ran' = Ended(w)
        /\ UNCHANGED <<items, opc>>
    BY <1>2 DEF Run, DrainRun, Step
  <2>2. CASE items[ticket[w]] = Pill
    <3>1. ran' = ran
      BY <2>1, <2>2 DEF Ended
    <3> QED BY <3>1, <2>1, <1>1
  <2>3. CASE items[ticket[w]] # Pill
    <3>1. /\ items[ticket[w]] \in Tasks /\ items[ticket[w]] \in Enqueued
          /\ ~Done(items[ticket[w]])
      BY <2>1, <2>3, NotRunBefore
    <3>2. ran' = Append(ran, items[ticket[w]])
      BY <2>1, <2>3 DEF Ended
    <3>3. opc # "destroyed"
      BY <2>1 DEF PoolInv
    <3>4. Enqueued' = Enqueued
      BY <2>1 DEF Enqueued
    <3>5. Promise!Finish(items[ticket[w]])
      BY <3>1, <3>2, <3>3, <3>4, <2>1, PromiseFinished DEF Promise!Finish
    <3> QED BY <3>1, <3>5 DEF Promise!ExecutorNext
  <2> QED BY <2>2, <2>3
<1>3. ASSUME NEW t \in Tasks, Enqueue(t) PROVE Promised
  <2>1. opc # "destroyed"
    BY <1>3 DEF Enqueue, InTask, PoolInv
  <2>2. t # Pill
    BY PoolAssumption
  <2>3. t \notin Enqueued /\ items' = Append(items, t) /\ opc' = opc /\ ran' = ran
    BY <1>3 DEF Enqueue
  <2>4. Enqueued' = Enqueued \cup {t}
    BY <2>2, <2>3, ItemsAppended DEF Enqueued
  <2>5. Promise!Accept(t)
    BY <2>1, <2>3, <2>4 DEF Promise!Accept
  <2> QED BY <2>5 DEF Promise!ExecutorNext
<1>4. CASE DtorPush
  <2>1. /\ items' = Append(items, Pill) /\ ran' = ran
        /\ opc # "destroyed" /\ opc' # "destroyed"
    BY <1>4 DEF DtorPush
  <2>2. Enqueued' = Enqueued
    BY <2>1, ItemsAppended DEF Enqueued
  <2> QED BY <2>1, <2>2 DEF Promise!executorVars
<1>5. CASE DtorStop
  BY <1>5 DEF DtorStop, Promise!executorVars, Enqueued
<1>6. CASE DtorJoin
  <2>1. \A w \in Workers : wpc[w] = "returned" /\ ~Holds(w)
    BY <1>6 DEF DtorJoin, Holds
  <2>2. ASSUME NEW t \in Enqueued PROVE Done(t)
    <3>1. PICK i \in 1..Len(items) : items[i] = t /\ t # Pill
      BY DEF Enqueued
    <3>2. i \in 1..head
      BY <3>1, <2>1 DEF NoTaskAbandoned
    <3>3. Served(i)
      BY <3>2 DEF PoolInv
    <3> QED BY <3>1, <3>3, <2>1 DEF Served
  <2>3. opc = "joining" /\ opc' = "destroyed" /\ UNCHANGED <<items, ran>>
    BY <1>6 DEF DtorJoin
  <2>4. Enqueued' = Enqueued
    BY <2>3 DEF Enqueued
  <2>5. Promise!Vanish
    BY <2>2, <2>3, <2>4, PromiseFinished DEF Promise!Vanish
  <2> QED BY <2>5 DEF Promise!ExecutorNext
<1>7. ASSUME NEW w \in Workers, Pop(w) \/ Receive(w) \/ TryPop(w) \/ Return(w) PROVE Promised
  BY <1>7, <1>1 DEF Pop, Receive, TryPop, Return
<1>8. CASE UNCHANGED vars
  BY <1>8, <1>1 DEF vars
<1> QED BY <1>2, <1>3, <1>4, <1>5, <1>6, <1>7, <1>8 DEF Next, WorkerStep

(***************************************************************************)
(* The pool keeps the safety part of its promise for any workers and any   *)
(* tasks: enqueue and task() are the only steps that a caller can tell,    *)
(* each accepted task ends once, and when the destructor returns every     *)
(* task that was ever accepted has ended.  Tickets see to the first (no    *)
(* two workers hold one) and NoTaskAbandoned to the second.                *)
(***************************************************************************)
THEOREM PoolImplementsExecutor == Spec => Promise!ExecutorSafety
<1>1. Spec => []PoolInv
  <2>1. Init => PoolInv
    BY PoolInvInit
  <2>2. TypeOK /\ PoolInv /\ [Next]_vars => PoolInv'
    BY PoolInvNext
  <2> QED BY <2>1, <2>2, PoolTypeCorrect, PTL DEF Spec
<1>2. Init => Promise!ExecutorInit
  BY DEF Init, Promise!ExecutorInit, Enqueued
<1>3. TypeOK /\ PoolInv /\ NoTaskAbandoned /\ [Next]_vars
        => [Promise!ExecutorNext]_(Promise!executorVars)
  BY StepImplementsExecutor
<1> QED BY <1>1, <1>2, <1>3, PoolTypeCorrect, NothingAbandoned, PTL
        DEF Spec, Promise!ExecutorSafety
==============================================================================
