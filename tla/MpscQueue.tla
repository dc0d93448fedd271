------------------------------ MODULE MpscQueue ------------------------------
(***************************************************************************)
(* src/src/queue/mpsc_queue.h: a multi-producer single-consumer queue.     *)
(* The owner thread pushes to a private deque, every other thread to a     *)
(* tbb::concurrent_queue (external: a linearizable FIFO).  What orders the *)
(* two is the counter `index`: each push takes a number, but only the      *)
(* owner's items remember theirs, and a remote push takes its number in    *)
(* one step and shows its item in a later one.                             *)
(***************************************************************************)
EXTENDS Naturals, Sequences, FiniteSets

CONSTANTS Owner,        \* the thread whose id the constructor recorded
          Remotes,      \* the other producers
          InitialSize,  \* the constructor's initial_size (no caller passes one)
          MaxPush       \* bound: pushes per thread

ASSUME QueueAssumption ==
  /\ Owner \notin Remotes
  /\ IsFiniteSet(Remotes)
  /\ InitialSize \in Nat
  /\ MaxPush \in Nat

VARIABLES
  index,             \* numbers given out
  local_queue,       \* the deque: [item, index]
  concurrent_queue,  \* the tbb queue
  next,              \* consumed_index + 1: consumed_index starts at 2^64 - 1
  adding,            \* remote producers between fetch_add and emplace
  pushed,            \* history: pushes begun, per thread
  popped,            \* history: what try_pop returned, in order
  returned           \* history: at the owner's k-th push, the remote pushes that had returned

vars == <<index, local_queue, concurrent_queue, next, adding, pushed, popped, returned>>

Threads == Remotes \cup {Owner}

\* The n-th item of a thread; number 0 is T(), which only a sized deque holds.
Item == [by : Threads, n : Nat]
Default == [by |-> Owner, n |-> 0]

\* Types: among them, try_pop never consumes more numbers than push has given out.
TypeOK ==
  /\ index \in Nat
  /\ local_queue \in Seq([item : Item, index : Nat])
  /\ concurrent_queue \in Seq(Item)
  /\ next \in 0..index
  /\ adding \subseteq Remotes
  /\ pushed \in [Threads -> Nat]
  /\ popped \in Seq(Item)
  /\ returned \in Seq([Remotes -> Nat])

Init ==
  /\ index = 0
  /\ local_queue = [i \in 1..InitialSize |-> [item |-> Default, index |-> 0]]
  /\ concurrent_queue = <<>>
  /\ next = 0
  /\ adding = {}
  /\ pushed = [t \in Threads |-> 0]
  /\ popped = <<>>
  /\ returned = <<>>

-----------------------------------------------------------------------------
\* How many pushes of a remote thread have returned.
Returned(r) == IF r \in adding THEN pushed[r] - 1 ELSE pushed[r]

\* push() on the owner thread; only fetch_add touches shared memory.
LocalPush ==
  /\ pushed[Owner] < MaxPush
  /\ pushed' = [pushed EXCEPT ![Owner] = @ + 1]
  /\ local_queue' = Append(local_queue,
       [item |-> [by |-> Owner, n |-> pushed[Owner] + 1], index |-> index])
  /\ index' = index + 1
  /\ returned' = Append(returned, [r \in Remotes |-> Returned(r)])
  /\ UNCHANGED <<concurrent_queue, next, adding, popped>>

\* push() on another thread: index.fetch_add(1) ...
RemoteReserve(r) ==
  /\ r \notin adding
  /\ pushed[r] < MaxPush
  /\ index' = index + 1
  /\ adding' = adding \cup {r}
  /\ pushed' = [pushed EXCEPT ![r] = @ + 1]
  /\ UNCHANGED <<local_queue, concurrent_queue, next, popped, returned>>

\* ... then concurrent_queue.emplace(source).
RemoteEmplace(r) ==
  /\ r \in adding
  /\ concurrent_queue' = Append(concurrent_queue, [by |-> r, n |-> pushed[r]])
  /\ adding' = adding \ {r}
  /\ UNCHANGED <<index, local_queue, next, pushed, popped, returned>>

\* Is the owner's front item the next one in the order of the numbers?  The
\* mutants compare with the last consumed number and look at the deque alone.
LocalTurnLate == local_queue # <<>> /\ next = Head(local_queue).index + 1
LocalTurnAlways == local_queue # <<>>
LocalTurn == local_queue # <<>> /\ next = Head(local_queue).index

PopLocal ==
  /\ LocalTurn
  /\ popped' = Append(popped, Head(local_queue).item)
  /\ local_queue' = Tail(local_queue)
  /\ next' = next + 1
  /\ UNCHANGED <<index, concurrent_queue, adding, pushed, returned>>

\* Otherwise whatever the concurrent queue holds is next.  The mutants take its last
\* item and leave the item where it is.
PopRemoteBack ==
  /\ ~LocalTurn
  /\ concurrent_queue # <<>>
  /\ popped' = Append(popped, concurrent_queue[Len(concurrent_queue)])
  /\ concurrent_queue' = SubSeq(concurrent_queue, 1, Len(concurrent_queue) - 1)
  /\ next' = next + 1
  /\ UNCHANGED <<index, local_queue, adding, pushed, returned>>
PopRemotePeek ==
  /\ ~LocalTurn
  /\ concurrent_queue # <<>>
  /\ popped' = Append(popped, Head(concurrent_queue))
  /\ next' = next + 1
  /\ UNCHANGED <<index, local_queue, concurrent_queue, adding, pushed, returned>>
PopRemote ==
  /\ ~LocalTurn
  /\ concurrent_queue # <<>>
  /\ popped' = Append(popped, Head(concurrent_queue))
  /\ concurrent_queue' = Tail(concurrent_queue)
  /\ next' = next + 1
  /\ UNCHANGED <<index, local_queue, adding, pushed, returned>>

\* try_pop() on the owner thread; when neither applies it returns false.
TryPop == PopLocal \/ PopRemote

Next ==
  \/ LocalPush
  \/ TryPop
  \/ \E r \in Remotes : RemoteReserve(r) \/ RemoteEmplace(r)

Spec == Init /\ [][Next]_vars

\* The owner polls, as every caller does; a push that took its number goes on.
Fairness == WF_vars(TryPop) /\ \A r \in Remotes : WF_vars(RemoteEmplace(r))

FairSpec == Spec /\ Fairness

-----------------------------------------------------------------------------
\* The items whose push has returned.
Inserted ==
  {[by |-> Owner, n |-> k] : k \in 1..pushed[Owner]}
    \cup UNION {{[by |-> r, n |-> k] : k \in 1..Returned(r)} : r \in Remotes}

\* Where each of them is: taken out already, in the tbb queue or in the deque.
Everything ==
  popped \o concurrent_queue \o [i \in 1..Len(local_queue) |-> local_queue[i].item]

(***************************************************************************)
(* No item is lost, none is delivered twice and none is invented: the two  *)
(* queues and the consumer together hold each inserted item once           *)
(* (push and try_pop).                                                     *)
(***************************************************************************)
ExactlyOnce ==
  /\ Inserted = {Everything[i] : i \in 1..Len(Everything)}
  /\ Cardinality(Inserted) = Len(Everything)

(***************************************************************************)
(* Items of one thread come out in the order in which it pushed them,      *)
(* although two queues feed try_pop.                                       *)
(***************************************************************************)
ProducerOrder ==
  \A j \in 1..Len(popped) : \A i \in 1..(j - 1) :
    popped[i].by = popped[j].by => popped[i].n < popped[j].n

(***************************************************************************)
(* What `index` is for: when the owner's item comes out, every remote item *)
(* whose push had returned before the owner pushed has come out already.   *)
(***************************************************************************)
ReturnedFirst ==
  \A j \in 1..Len(popped) : popped[j].by = Owner /\ popped[j].n # 0 =>
    \A r \in Remotes : \A k \in 1..returned[popped[j].n][r] :
      \E i \in 1..(j - 1) : popped[i] = [by |-> r, n |-> k]

(***************************************************************************)
(* try_pop returns false on a queue that holds something only while a      *)
(* remote push stands between its fetch_add and its emplace: the number of *)
(* a pending remote push can hold back the owner's item, nothing else can. *)
(***************************************************************************)
NeverStuck ==
  adding = {} /\ (local_queue # <<>> \/ concurrent_queue # <<>>)
    => LocalTurn \/ concurrent_queue # <<>>

\* Every item whose push began is popped in the end, if the owner polls.
Delivered(t, k) == \E i \in 1..Len(popped) : popped[i] = [by |-> t, n |-> k]
AllDelivered == \A t \in Threads : \A k \in 1..MaxPush : pushed[t] >= k ~> Delivered(t, k)
==============================================================================
