-------------------------- MODULE MpscQueueProofs ---------------------------
(***************************************************************************)
(* Theorems about MpscQueue for any number of producers and of pushes.     *)
(* They need the deque to start empty: with initial_size > 0 it starts     *)
(* with default items that all carry number 0, and after the first of them *)
(* the owner's items never have the number that try_pop waits for.         *)
(***************************************************************************)
EXTENDS MpscQueue, FiniteSetTheorems, SequenceTheorems, TLAPS

\* Every number given out belongs to one item: consumed, in the deque, in the tbb queue
\* or on its way there.
Count == index = next + Len(local_queue) + Len(concurrent_queue) + Cardinality(adding)

\* The owner's items are numbered in ascending order, with numbers not yet consumed.
Ascending ==
  \A i, j \in 1..Len(local_queue) : i < j => local_queue[i].index < local_queue[j].index
Unconsumed ==
  \A i \in 1..Len(local_queue) :
    next <= local_queue[i].index /\ local_queue[i].index < index

\* No more numbers are missing before an owner's item than remote items are to come.
Gap ==
  \A i \in 1..Len(local_queue) :
    local_queue[i].index <= next + (i - 1) + Len(concurrent_queue) + Cardinality(adding)

\* A producer between its two steps has begun a push.
Begun == \A r \in adding : pushed[r] > 0

Inv == TypeOK /\ Count /\ Ascending /\ Unconsumed /\ Gap /\ Begun

\* The producers between their two steps are finitely many.
LEMMA AddingFinite ==
  ASSUME TypeOK
  PROVE  IsFiniteSet(adding) /\ Cardinality(adding) \in Nat
BY QueueAssumption, FS_Subset, FS_CardinalityType DEF TypeOK

\* The numbers the invariant computes with are naturals.
LEMMA Numbers ==
  ASSUME TypeOK
  PROVE  /\ index \in Nat /\ next \in Nat /\ next <= index
         /\ Len(local_queue) \in Nat /\ Len(concurrent_queue) \in Nat
         /\ \A i \in 1..Len(local_queue) : local_queue[i].index \in Nat
<1>1. index \in Nat /\ next \in Nat /\ next <= index
  BY DEF TypeOK
<1>2. Len(local_queue) \in Nat /\ Len(concurrent_queue) \in Nat
  BY DEF TypeOK
<1>3. ASSUME NEW i \in 1..Len(local_queue) PROVE local_queue[i].index \in Nat
  <2>1. local_queue[i] \in [item : Item, index : Nat]
    BY <1>3, ElementOfSeq DEF TypeOK
  <2> QED BY <2>1
<1> QED BY <1>1, <1>2, <1>3

\* The empty queue satisfies the invariant.
LEMMA InvInit ==
  ASSUME InitialSize = 0, Init
  PROVE  Inv
<1>1. local_queue = <<>>
  BY DEF Init
<1>2. adding = {} /\ Cardinality(adding) = 0
  BY FS_EmptySet DEF Init
<1>3. TypeOK
  <2>1. /\ local_queue \in Seq([item : Item, index : Nat])
        /\ concurrent_queue \in Seq(Item) /\ popped \in Seq(Item)
        /\ returned \in Seq([Remotes -> Nat])
    BY <1>1 DEF Init
  <2> QED BY <2>1 DEF Init, TypeOK
<1>4. Count /\ Ascending /\ Unconsumed /\ Gap /\ Begun
  BY <1>1, <1>2 DEF Init, Count, Ascending, Unconsumed, Gap, Begun
<1> QED BY <1>3, <1>4 DEF Inv

\* push() on the owner thread appends the largest number.
LEMMA InvLocalPush ==
  ASSUME Inv, LocalPush
  PROVE  Inv'
<1> DEFINE new == [item |-> [by |-> Owner, n |-> pushed[Owner] + 1], index |-> index]
<1>1. IsFiniteSet(adding) /\ Cardinality(adding) \in Nat
  BY AddingFinite DEF Inv
<1>2. /\ index \in Nat /\ next \in Nat /\ next <= index
      /\ Len(local_queue) \in Nat /\ Len(concurrent_queue) \in Nat
      /\ \A i \in 1..Len(local_queue) : local_queue[i].index \in Nat
  BY Numbers DEF Inv
<1>3. /\ Len(local_queue') = Len(local_queue) + 1
      /\ \A i \in 1..Len(local_queue) : local_queue'[i] = local_queue[i]
      /\ local_queue'[Len(local_queue) + 1].index = index
  BY DEF LocalPush, Inv, TypeOK
<1>4. /\ index' = index + 1 /\ next' = next /\ adding' = adding
      /\ concurrent_queue' = concurrent_queue
  BY DEF LocalPush
<1>5. TypeOK'
  <2>1. new \in [item : Item, index : Nat]
    BY <1>2 DEF Inv, TypeOK, Item, Threads
  <2>2. local_queue' \in Seq([item : Item, index : Nat])
    BY <2>1 DEF LocalPush, Inv, TypeOK
  <2>3. \A r \in Remotes : Returned(r) \in Nat
    BY DEF Inv, TypeOK, Returned, Threads, Begun
  <2>4. returned' \in Seq([Remotes -> Nat])
    BY <2>3 DEF LocalPush, Inv, TypeOK
  <2>5. pushed' \in [Threads -> Nat]
    BY DEF LocalPush, Inv, TypeOK, Threads
  <2> QED BY <1>2, <2>2, <2>4, <2>5 DEF LocalPush, Inv, TypeOK
<1>6. Count'
  BY <1>1, <1>2, <1>3, <1>4 DEF Inv, Count
<1>7. Ascending'
  <2> SUFFICES ASSUME NEW i \in 1..(Len(local_queue) + 1), NEW j \in 1..(Len(local_queue) + 1),
                      i < j
               PROVE  local_queue'[i].index < local_queue'[j].index
    BY <1>3 DEF Ascending
  <2>1. i \in 1..Len(local_queue)
    BY <1>2
  <2>2. CASE j = Len(local_queue) + 1
    BY <1>3, <2>1, <2>2 DEF Inv, Unconsumed
  <2>3. CASE j # Len(local_queue) + 1
    <3>1. j \in 1..Len(local_queue)
      BY <1>2, <2>3
    <3> QED BY <1>3, <2>1, <3>1 DEF Inv, Ascending
  <2> QED BY <2>2, <2>3
<1>8. Unconsumed'
  BY <1>2, <1>3, <1>4 DEF Inv, Unconsumed
<1>9. Gap'
  <2> SUFFICES ASSUME NEW i \in 1..(Len(local_queue) + 1)
               PROVE  local_queue'[i].index
                        <= next + (i - 1) + Len(concurrent_queue) + Cardinality(adding)
    BY <1>3, <1>4 DEF Gap
  <2>1. CASE i = Len(local_queue) + 1
    BY <1>1, <1>2, <1>3, <2>1 DEF Inv, Count
  <2>2. CASE i # Len(local_queue) + 1
    <3>1. i \in 1..Len(local_queue)
      BY <1>2, <2>2
    <3> QED BY <1>3, <3>1 DEF Inv, Gap
  <2> QED BY <2>1, <2>2
<1>10. Begun'
  BY QueueAssumption DEF LocalPush, Inv, TypeOK, Begun, Threads
<1> QED BY <1>5, <1>6, <1>7, <1>8, <1>9, <1>10 DEF Inv

\* The two halves of push() elsewhere: a number is taken, then its item appears.
LEMMA InvRemotePush ==
  ASSUME Inv, NEW r \in Remotes, RemoteReserve(r) \/ RemoteEmplace(r)
  PROVE  Inv'
<1>1. IsFiniteSet(adding) /\ Cardinality(adding) \in Nat
  BY AddingFinite DEF Inv
<1>2. /\ index \in Nat /\ next \in Nat /\ next <= index
      /\ Len(local_queue) \in Nat /\ Len(concurrent_queue) \in Nat
      /\ \A i \in 1..Len(local_queue) : local_queue[i].index \in Nat
  BY Numbers DEF Inv
<1>3. CASE RemoteReserve(r)
  <2>1. Cardinality(adding') = Cardinality(adding) + 1
    BY <1>1, <1>3, FS_AddElement DEF RemoteReserve
  <2>2. TypeOK' /\ Begun'
    BY <1>2, <1>3 DEF RemoteReserve, Inv, TypeOK, Begun, Threads
  <2>3. Count' /\ Ascending' /\ Unconsumed' /\ Gap'
    <3>1. Count'
      BY <1>1, <1>2, <1>3, <2>1 DEF RemoteReserve, Inv, Count
    <3>2. Ascending'
      BY <1>3 DEF RemoteReserve, Inv, Ascending
    <3>3. Unconsumed'
      BY <1>2, <1>3 DEF RemoteReserve, Inv, Unconsumed
    <3>4. Gap'
      <4>1. /\ local_queue' = local_queue /\ next' = next
            /\ concurrent_queue' = concurrent_queue
        BY <1>3 DEF RemoteReserve
      <4> QED BY <1>1, <1>2, <2>1, <4>1 DEF Inv, Gap
    <3> QED BY <3>1, <3>2, <3>3, <3>4
  <2> QED BY <2>2, <2>3 DEF Inv
<1>4. CASE RemoteEmplace(r)
  <2>1. Cardinality(adding') = Cardinality(adding) - 1
    BY <1>1, <1>4, FS_RemoveElement DEF RemoteEmplace
  <2>2. /\ Len(concurrent_queue') = Len(concurrent_queue) + 1
        /\ concurrent_queue' \in Seq(Item)
    BY <1>4 DEF RemoteEmplace, Inv, TypeOK, Item, Threads
  <2>3. TypeOK' /\ Begun'
    BY <1>2, <1>4, <2>2 DEF RemoteEmplace, Inv, TypeOK, Begun
  <2>4. Count' /\ Ascending' /\ Unconsumed' /\ Gap'
    <3>1. Count'
      BY <1>1, <1>2, <1>4, <2>1, <2>2 DEF RemoteEmplace, Inv, Count
    <3>2. Ascending'
      BY <1>4 DEF RemoteEmplace, Inv, Ascending
    <3>3. Unconsumed'
      BY <1>2, <1>4 DEF RemoteEmplace, Inv, Unconsumed
    <3>4. Gap'
      BY <1>1, <1>2, <1>4, <2>1, <2>2 DEF RemoteEmplace, Inv, Gap
    <3> QED BY <3>1, <3>2, <3>3, <3>4
  <2> QED BY <2>3, <2>4 DEF Inv
<1> QED BY <1>3, <1>4

\* try_pop(): the number consumed is the front item's own, or one before it.
LEMMA InvTryPop ==
  ASSUME Inv, TryPop
  PROVE  Inv'
<1>1. IsFiniteSet(adding) /\ Cardinality(adding) \in Nat
  BY AddingFinite DEF Inv
<1>2. /\ index \in Nat /\ next \in Nat /\ next <= index
      /\ Len(local_queue) \in Nat /\ Len(concurrent_queue) \in Nat
      /\ \A i \in 1..Len(local_queue) : local_queue[i].index \in Nat
  BY Numbers DEF Inv
<1>3. CASE PopLocal
  <2>1. /\ Len(local_queue) > 0
        /\ Len(local_queue') = Len(local_queue) - 1
        /\ \A i \in 1..Len(local_queue') : local_queue'[i] = local_queue[i + 1]
        /\ local_queue[1].index = next
    <3>1. local_queue # <<>> /\ local_queue' = Tail(local_queue)
          /\ next = Head(local_queue).index
      BY <1>3 DEF PopLocal, LocalTurn
    <3>2. local_queue \in Seq([item : Item, index : Nat])
      BY DEF Inv, TypeOK
    <3> QED BY <3>1, <3>2, HeadTailProperties
  <2>2. /\ local_queue' \in Seq([item : Item, index : Nat])
        /\ popped' \in Seq(Item)
    <3>1. local_queue \in Seq([item : Item, index : Nat]) /\ local_queue # <<>>
      BY <1>3 DEF PopLocal, LocalTurn, Inv, TypeOK
    <3>2. Head(local_queue) \in [item : Item, index : Nat]
      BY <3>1, HeadTailProperties
    <3>3. Head(local_queue).item \in Item
      BY <3>2
    <3> QED BY <1>3, <3>1, <3>3, HeadTailProperties DEF PopLocal, Inv, TypeOK
  <2>3. Count'
    <3>1. next' = next + 1 /\ index' = index /\ adding' = adding
          /\ concurrent_queue' = concurrent_queue
      BY <1>3 DEF PopLocal
    <3> QED BY <1>1, <1>2, <2>1, <3>1 DEF Inv, Count
  <2>4. TypeOK' /\ Begun'
    BY <1>1, <1>2, <1>3, <2>1, <2>2 DEF PopLocal, Inv, TypeOK, Begun, Count
  <2>5. Ascending'
    BY <1>2, <2>1 DEF Inv, Ascending
  <2>6. Unconsumed'
    BY <1>2, <1>3, <2>1 DEF PopLocal, Inv, Ascending, Unconsumed
  <2>7. Gap'
    BY <1>1, <1>2, <1>3, <2>1 DEF PopLocal, Inv, Gap
  <2> QED BY <2>3, <2>4, <2>5, <2>6, <2>7 DEF Inv
<1>4. CASE PopRemote
  <2>1. /\ Len(concurrent_queue) > 0
        /\ Len(concurrent_queue') = Len(concurrent_queue) - 1
        /\ concurrent_queue' \in Seq(Item)
        /\ popped' \in Seq(Item)
    BY <1>4 DEF PopRemote, Inv, TypeOK
  <2>2. local_queue' = local_queue /\ next' = next + 1 /\ index' = index /\ adding' = adding
    BY <1>4 DEF PopRemote
  <2>3. Count'
    BY <1>1, <1>2, <2>1, <2>2 DEF Inv, Count
  <2>4. TypeOK' /\ Begun'
    BY <1>1, <1>2, <1>4, <2>1, <2>2 DEF PopRemote, Inv, TypeOK, Begun, Count
  <2>5. Ascending' /\ Gap'
    BY <1>1, <1>2, <2>1, <2>2 DEF Inv, Ascending, Gap
  <2>6. Unconsumed'
    <3>1. ASSUME NEW i \in 1..Len(local_queue)
          PROVE  next < local_queue[i].index
      <4>1. local_queue[1].index # next
        BY <1>4, <3>1 DEF PopRemote, LocalTurn, Inv, TypeOK
      <4>2. next < local_queue[1].index
        BY <1>2, <4>1 DEF Inv, Unconsumed
      <4> QED BY <1>2, <4>2 DEF Inv, Ascending
    <3> QED BY <1>2, <2>2, <3>1 DEF Inv, Unconsumed
  <2> QED BY <2>3, <2>4, <2>5, <2>6 DEF Inv
<1> QED BY <1>3, <1>4 DEF TryPop

\* The invariant holds in every reachable state.
LEMMA InvHolds ==
  ASSUME InitialSize = 0
  PROVE  Spec => []Inv
<1>1. Init => Inv
  BY InvInit
<1>2. Inv /\ [Next]_vars => Inv'
  <2>1. Inv /\ UNCHANGED vars => Inv'
    BY DEF vars, Inv, TypeOK, Count, Ascending, Unconsumed, Gap, Begun
  <2> QED BY <2>1, InvLocalPush, InvRemotePush, InvTryPop DEF Next
<1> QED BY <1>1, <1>2, PTL DEF Spec

(***************************************************************************)
(* Every variable keeps its range; in particular try_pop never consumes    *)
(* more numbers than push() gave out, so index - consumed_index cannot     *)
(* wrap.                                                                   *)
(***************************************************************************)
THEOREM QueueTypeCorrect ==
  ASSUME InitialSize = 0
  PROVE  Spec => []TypeOK
<1>1. Inv => TypeOK
  BY DEF Inv
<1> QED BY <1>1, InvHolds, PTL

(***************************************************************************)
(* try_pop returns false on a queue that holds something only while a      *)
(* remote push is between its two steps: whatever the order of pushes and  *)
(* pops, the number at the front of the deque is not skipped.              *)
(***************************************************************************)
THEOREM QueueNeverStuck ==
  ASSUME InitialSize = 0
  PROVE  Spec => []NeverStuck
<1>1. Inv => NeverStuck
  <2> SUFFICES ASSUME Inv, adding = {}, local_queue # <<>>, concurrent_queue = <<>>
               PROVE  LocalTurn
    BY DEF NeverStuck
  <2>1. Cardinality(adding) = 0
    BY FS_EmptySet
  <2>2. 1 \in 1..Len(local_queue) /\ local_queue[1].index \in Nat /\ next \in Nat
    BY Numbers DEF Inv, TypeOK
  <2>3. next <= local_queue[1].index
    BY <2>2 DEF Inv, Unconsumed
  <2>4. local_queue[1].index <= next
    BY <2>1, <2>2 DEF Inv, Gap
  <2> QED BY <2>2, <2>3, <2>4 DEF LocalTurn
<1> QED BY <1>1, InvHolds, PTL

-----------------------------------------------------------------------------
(***************************************************************************)
(* What the queue delivers and in which order, for any number of producers *)
(* and of pushes, on the invariant Inv.                                    *)
(***************************************************************************)
\* Two items of one thread are in the order in which it pushed them.
Precedes(x, y) == x.by = y.by => x.n < y.n

\* Each queue keeps the order of every producer, and what is consumed precedes what is queued.
Order ==
  /\ \A i, j \in 1..Len(popped) : i < j => Precedes(popped[i], popped[j])
  /\ \A i, j \in 1..Len(concurrent_queue) :
       i < j => Precedes(concurrent_queue[i], concurrent_queue[j])
  /\ \A i, j \in 1..Len(local_queue) : i < j => Precedes(local_queue[i].item, local_queue[j].item)
  /\ \A i \in 1..Len(popped), j \in 1..Len(concurrent_queue) :
       Precedes(popped[i], concurrent_queue[j])
  /\ \A i \in 1..Len(popped), j \in 1..Len(local_queue) : Precedes(popped[i], local_queue[j].item)

\* The queues hold items of their own producers only, each from a push that has shown it.
Origin ==
  /\ \A i \in 1..Len(concurrent_queue) :
       concurrent_queue[i].by \in Remotes
       /\ concurrent_queue[i].n \in 1..Returned(concurrent_queue[i].by)
  /\ \A i \in 1..Len(local_queue) :
       local_queue[i].item.by = Owner /\ local_queue[i].item.n \in 1..pushed[Owner]
  /\ \A i \in 1..Len(popped) :
       popped[i].by \in Threads /\ popped[i].n \in 1..Returned(popped[i].by)

Consumed(t, k) == \E i \in 1..Len(popped) : popped[i] = [by |-> t, n |-> k]
InTbb(r, k) == \E i \in 1..Len(concurrent_queue) : concurrent_queue[i] = [by |-> r, n |-> k]
InDeque(k) == \E i \in 1..Len(local_queue) : local_queue[i].item = [by |-> Owner, n |-> k]

\* No item is lost.
Present ==
  /\ \A r \in Remotes : \A k \in 1..Returned(r) : Consumed(r, k) \/ InTbb(r, k)
  /\ \A k \in 1..pushed[Owner] : Consumed(Owner, k) \/ InDeque(k)

\* The history variable: one entry for each push of the owner, of pushes that have returned since.
History ==
  /\ Len(returned) = pushed[Owner]
  /\ \A n \in 1..Len(returned) : \A r \in Remotes :
       returned[n][r] \in Nat /\ returned[n][r] <= Returned(r)

\* An item that was in the tbb queue when the owner pushed is among those that try_pop takes
\* before the number of the owner's item is due.
Ahead ==
  \A i \in 1..Len(local_queue) : \A p \in 1..Len(concurrent_queue) :
    concurrent_queue[p].n <= returned[local_queue[i].item.n][concurrent_queue[p].by]
      => next + (i - 1) + p <= local_queue[i].index

OrderInv == Order /\ Origin /\ Present /\ History /\ Ahead /\ ReturnedFirst

\* Types of what the queues hold.
LEMMA ItemTypes ==
  ASSUME TypeOK
  PROVE  /\ Len(popped) \in Nat /\ Len(concurrent_queue) \in Nat /\ Len(local_queue) \in Nat
         /\ Len(returned) \in Nat
         /\ \A i \in 1..Len(popped) : popped[i] \in Item
         /\ \A i \in 1..Len(concurrent_queue) : concurrent_queue[i] \in Item
         /\ \A i \in 1..Len(local_queue) :
              local_queue[i].item \in Item /\ local_queue[i].index \in Nat
<1>1. ASSUME NEW i \in 1..Len(local_queue)
      PROVE  local_queue[i] \in [item : Item, index : Nat]
  BY <1>1, ElementOfSeq DEF TypeOK
<1> QED BY <1>1, ElementOfSeq DEF TypeOK

\* How many pushes of a thread have returned.
LEMMA ReturnedTypes ==
  ASSUME TypeOK, Begun
  PROVE  /\ \A t \in Threads : Returned(t) \in Nat /\ Returned(t) <= pushed[t] /\ pushed[t] \in Nat
         /\ Returned(Owner) = pushed[Owner]
         /\ \A r \in adding : Returned(r) = pushed[r] - 1
         /\ Owner \in Threads /\ Owner \notin Remotes /\ Remotes \subseteq Threads
BY QueueAssumption DEF TypeOK, Begun, Returned, Threads

\* An item that follows all items of a sequence can be appended to it.
LEMMA AppendKeepsOrder ==
  ASSUME NEW s, NEW t, Len(s) \in Nat, Len(t) = Len(s) + 1,
         \A i \in 1..Len(s) : t[i] = s[i],
         \A i, j \in 1..Len(s) : i < j => Precedes(s[i], s[j]),
         \A i \in 1..Len(s) : Precedes(s[i], t[Len(s) + 1])
  PROVE  \A i, j \in 1..Len(t) : i < j => Precedes(t[i], t[j])
<1> SUFFICES ASSUME NEW i \in 1..Len(t), NEW j \in 1..Len(t), i < j
             PROVE  Precedes(t[i], t[j])
  OBVIOUS
<1>1. i \in 1..Len(s) /\ t[i] = s[i]
  OBVIOUS
<1>2. CASE j = Len(s) + 1
  BY <1>1, <1>2
<1>3. CASE j # Len(s) + 1
  <2>1. j \in 1..Len(s) /\ t[j] = s[j]
    BY <1>3
  <2> QED BY <1>1, <2>1
<1> QED BY <1>2, <1>3

\* The empty queue.
LEMMA OrderInit ==
  ASSUME InitialSize = 0, Init
  PROVE  OrderInv
<1>1. /\ Len(popped) = 0 /\ Len(concurrent_queue) = 0 /\ Len(local_queue) = 0
      /\ Len(returned) = 0
  BY DEF Init
<1>2. Order /\ Origin /\ Ahead /\ ReturnedFirst
  BY <1>1 DEF Order, Origin, Ahead, ReturnedFirst
<1>3. \A t \in Threads : pushed[t] = 0 /\ Returned(t) = 0
  BY DEF Init, Returned
<1>4. Present /\ History
  BY <1>1, <1>3, QueueAssumption DEF Present, History, Threads
<1> QED BY <1>2, <1>4 DEF OrderInv

\* push() on the owner thread.
LEMMA OrderLocalPush ==
  ASSUME Inv, OrderInv, LocalPush
  PROVE  OrderInv'
<1> DEFINE m == pushed[Owner]
           len == Len(local_queue)
<1>1. TypeOK /\ Begun /\ Count /\ Order /\ Origin /\ Present /\ History /\ Ahead /\ ReturnedFirst
  BY DEF Inv, OrderInv
<1>2. /\ Len(local_queue') = len + 1
      /\ \A i \in 1..len : local_queue'[i] = local_queue[i]
      /\ local_queue'[len + 1] = [item |-> [by |-> Owner, n |-> m + 1], index |-> index]
  BY <1>1 DEF LocalPush, TypeOK
<1>3. /\ concurrent_queue' = concurrent_queue /\ popped' = popped /\ next' = next
      /\ \A t \in Remotes : Returned(t)' = Returned(t)
      /\ Returned(Owner)' = m + 1 /\ pushed'[Owner] = m + 1 /\ Returned(Owner) = m /\ m \in Nat
  BY <1>1, QueueAssumption DEF LocalPush, TypeOK, Returned, Threads
<1>4. /\ Len(returned') = Len(returned) + 1
      /\ \A i \in 1..Len(returned) : returned'[i] = returned[i]
      /\ returned'[Len(returned) + 1] = [r \in Remotes |-> Returned(r)]
  BY <1>1 DEF LocalPush, TypeOK
<1>5. Order'
  <2> DEFINE new == [by |-> Owner, n |-> m + 1]
  <2>1. \A i \in 1..len : Precedes(local_queue[i].item, new)
    BY <1>1, <1>3, ItemTypes DEF Origin, Precedes
  <2>2. \A i \in 1..Len(popped) : Precedes(popped[i], new)
    BY <1>1, <1>3, ItemTypes DEF Origin, Precedes
  <2>3. ASSUME NEW i \in 1..(len + 1), NEW j \in 1..(len + 1), i < j
        PROVE  Precedes(local_queue'[i].item, local_queue'[j].item)
    <3>1. i \in 1..len /\ local_queue'[i] = local_queue[i]
      BY <1>1, <1>2, <2>3, ItemTypes
    <3>2. CASE j = len + 1
      BY <1>2, <2>1, <3>1, <3>2
    <3>3. CASE j # len + 1
      <4>1. j \in 1..len /\ local_queue'[j] = local_queue[j]
        BY <1>1, <1>2, <3>3, ItemTypes
      <4> QED BY <1>1, <2>3, <3>1, <4>1 DEF Order
    <3> QED BY <3>2, <3>3
  <2>4. ASSUME NEW i \in 1..Len(popped), NEW j \in 1..(len + 1)
        PROVE  Precedes(popped[i], local_queue'[j].item)
    <3>1. CASE j = len + 1
      BY <1>2, <2>2, <3>1
    <3>2. CASE j # len + 1
      <4>1. j \in 1..len /\ local_queue'[j] = local_queue[j]
        BY <1>1, <1>2, <3>2, ItemTypes
      <4> QED BY <1>1, <4>1 DEF Order
    <3> QED BY <3>1, <3>2
  <2> QED BY <1>1, <1>2, <1>3, <2>3, <2>4 DEF Order
<1>6. Origin'
  <2>1. \A i \in 1..Len(concurrent_queue) :
          concurrent_queue[i].by \in Remotes
          /\ concurrent_queue[i].n \in 1..Returned(concurrent_queue[i].by)'
    BY <1>1, <1>3 DEF Origin
  <2>2. ASSUME NEW i \in 1..(len + 1)
        PROVE  local_queue'[i].item.by = Owner /\ local_queue'[i].item.n \in 1..(m + 1)
    <3>1. CASE i = len + 1
      BY <1>2, <1>3, <3>1
    <3>2. CASE i # len + 1
      <4>1. i \in 1..len /\ local_queue'[i] = local_queue[i]
        BY <1>1, <1>2, <3>2, ItemTypes
      <4> QED BY <1>1, <1>3, <4>1 DEF Origin
    <3> QED BY <3>1, <3>2
  <2>3. ASSUME NEW i \in 1..Len(popped)
        PROVE  popped[i].by \in Threads /\ popped[i].n \in 1..Returned(popped[i].by)'
    <3>1. popped[i].by \in Threads /\ popped[i].n \in 1..Returned(popped[i].by)
      BY <1>1 DEF Origin
    <3>2. CASE popped[i].by = Owner
      BY <1>3, <3>1, <3>2
    <3>3. CASE popped[i].by # Owner
      BY <1>3, <3>1, <3>3 DEF Threads
    <3> QED BY <3>2, <3>3
  <2> QED BY <1>2, <1>3, <2>1, <2>2, <2>3 DEF Origin
<1>7. Present'
  <2>1. ASSUME NEW k \in 1..m PROVE Consumed(Owner, k)' \/ InDeque(k)'
    BY <1>1, <1>2, <1>3, ItemTypes, <2>1 DEF Present, Consumed, InDeque
  <2>2. \E i \in 1..Len(local_queue') : local_queue'[i].item = [by |-> Owner, n |-> m + 1]
    BY <1>1, <1>2, ItemTypes
  <2>3. \A r \in Remotes : \A k \in 1..Returned(r)' : Consumed(r, k)' \/ InTbb(r, k)'
    BY <1>1, <1>3 DEF Present, Consumed, InTbb
  <2>4. ASSUME NEW k \in 1..pushed'[Owner] PROVE Consumed(Owner, k)' \/ InDeque(k)'
    <3>1. k \in 1..m \/ k = m + 1
      BY <1>3
    <3>2. CASE k = m + 1
      BY <2>2, <3>2 DEF InDeque
    <3> QED BY <2>1, <3>1, <3>2
  <2> QED BY <2>3, <2>4 DEF Present
<1>8. History'
  <2>1. ASSUME NEW n \in 1..(Len(returned) + 1), NEW r \in Remotes
        PROVE  returned'[n][r] \in Nat /\ returned'[n][r] <= Returned(r)
    <3>1. CASE n = Len(returned) + 1
      BY <1>1, <1>4, <3>1, ReturnedTypes
    <3>2. CASE n # Len(returned) + 1
      <4>1. n \in 1..Len(returned) /\ returned'[n] = returned[n]
        BY <1>1, <1>4, <3>2, ItemTypes
      <4> QED BY <1>1, <4>1 DEF History
    <3> QED BY <3>1, <3>2
  <2>2. Len(returned') = pushed'[Owner]
    BY <1>1, <1>3, <1>4 DEF History
  <2> QED BY <1>3, <1>4, <2>1, <2>2 DEF History
<1>9. Ahead'
  <2> SUFFICES ASSUME NEW i \in 1..(len + 1), NEW p \in 1..Len(concurrent_queue),
                      concurrent_queue[p].n
                        <= returned'[local_queue'[i].item.n][concurrent_queue[p].by]
               PROVE  next + (i - 1) + p <= local_queue'[i].index
    BY <1>2, <1>3 DEF Ahead
  <2>1. CASE i = len + 1
    BY <1>1, <1>2, <2>1, ItemTypes, AddingFinite DEF Count, TypeOK
  <2>2. CASE i # len + 1
    <3>1. i \in 1..len /\ local_queue'[i] = local_queue[i]
      BY <1>1, <1>2, <2>2, ItemTypes
    <3>2. returned'[local_queue'[i].item.n] = returned[local_queue[i].item.n]
      BY <1>1, <1>4, <3>1 DEF History, Origin
    <3> QED BY <1>1, <3>1, <3>2 DEF Ahead
  <2> QED BY <2>1, <2>2
<1>10. ReturnedFirst'
  <2>1. ASSUME NEW j \in 1..Len(popped), popped[j].by = Owner
        PROVE  returned'[popped[j].n] = returned[popped[j].n]
    <3>1. popped[j].n \in 1..Len(returned)
      BY <1>1, <1>3, <2>1 DEF History, Origin
    <3> QED BY <1>4, <3>1
  <2> QED BY <1>1, <1>3, <2>1 DEF ReturnedFirst
<1> QED BY <1>5, <1>6, <1>7, <1>8, <1>9, <1>10 DEF OrderInv

\* push() elsewhere: its item appears in the tbb queue only in the second step.
LEMMA OrderRemotePush ==
  ASSUME Inv, OrderInv, NEW r \in Remotes, RemoteReserve(r) \/ RemoteEmplace(r)
  PROVE  OrderInv'
<1>1. TypeOK /\ Begun /\ Order /\ Origin /\ Present /\ History /\ Ahead /\ ReturnedFirst
  BY DEF Inv, OrderInv
<1>2. /\ local_queue' = local_queue /\ popped' = popped /\ next' = next /\ returned' = returned
      /\ pushed'[Owner] = pushed[Owner]
  BY <1>1, QueueAssumption DEF RemoteReserve, RemoteEmplace, TypeOK, Threads
<1>3. CASE RemoteReserve(r)
  <2>1. concurrent_queue' = concurrent_queue
    BY <1>3 DEF RemoteReserve
  <2>2. \A t \in Threads : Returned(t)' = Returned(t)
    BY <1>1, <1>3, QueueAssumption DEF RemoteReserve, TypeOK, Returned, Threads
  <2>3. Order' /\ Origin' /\ Ahead' /\ ReturnedFirst'
    <3>1. Order' /\ Ahead' /\ ReturnedFirst'
      BY <1>1, <1>2, <2>1 DEF Order, Ahead, ReturnedFirst
    <3>2. \A i \in 1..Len(concurrent_queue) : concurrent_queue[i].by \in Threads
      BY <1>1 DEF Origin, Threads
    <3> QED BY <1>1, <1>2, <2>1, <2>2, <3>1, <3>2 DEF Origin
  <2>4. Present' /\ History'
    BY <1>1, <1>2, <2>1, <2>2, ReturnedTypes
       DEF Present, History, Consumed, InTbb, InDeque
  <2> QED BY <2>3, <2>4 DEF OrderInv
<1>4. CASE RemoteEmplace(r)
  <2> DEFINE len == Len(concurrent_queue)
             new == [by |-> r, n |-> pushed[r]]
  <2>1. /\ Len(concurrent_queue') = len + 1
        /\ \A i \in 1..len : concurrent_queue'[i] = concurrent_queue[i]
        /\ concurrent_queue'[len + 1] = new
    BY <1>1, <1>4 DEF RemoteEmplace, TypeOK
  <2>2. /\ \A t \in Threads : t # r => Returned(t)' = Returned(t)
        /\ Returned(r)' = pushed[r] /\ Returned(r) = pushed[r] - 1
        /\ pushed[r] \in Nat \ {0} /\ Returned(r) \in Nat
    BY <1>1, <1>4 DEF RemoteEmplace, TypeOK, Begun, Returned, Threads
  <2>3. \A t \in Threads :
          Returned(t)' \in Nat /\ Returned(t) \in Nat /\ Returned(t) <= Returned(t)'
    BY <1>1, <2>2, ReturnedTypes
  <2>4. Order'
    <3>1. \A i \in 1..len : Precedes(concurrent_queue[i], new)
      BY <1>1, <2>2, ItemTypes DEF Origin, Precedes
    <3>2. \A i \in 1..Len(popped) : Precedes(popped[i], new)
      BY <1>1, <2>2, ItemTypes DEF Origin, Precedes
    <3>3. \A i, j \in 1..(len + 1) :
            i < j => Precedes(concurrent_queue'[i], concurrent_queue'[j])
      BY <1>1, <2>1, <3>1, ItemTypes, AppendKeepsOrder DEF Order
    <3>4. ASSUME NEW i \in 1..Len(popped), NEW j \in 1..(len + 1)
          PROVE  Precedes(popped[i], concurrent_queue'[j])
      <4>1. CASE j = len + 1
        BY <2>1, <3>2, <4>1
      <4>2. CASE j # len + 1
        <5>1. j \in 1..len /\ concurrent_queue'[j] = concurrent_queue[j]
          BY <1>1, <2>1, <4>2, ItemTypes
        <5> QED BY <1>1, <5>1 DEF Order
      <4> QED BY <4>1, <4>2
    <3> QED BY <1>1, <1>2, <2>1, <3>3, <3>4 DEF Order
  <2>5. Origin'
    <3>1. \A t \in Threads : 1..Returned(t) \subseteq 1..Returned(t)'
      BY <2>3
    <3>2. ASSUME NEW i \in 1..(len + 1)
          PROVE  (/\ concurrent_queue[i].by \in Remotes
                  /\ concurrent_queue[i].n \in 1..Returned(concurrent_queue[i].by))'
      <4>1. CASE i = len + 1
        <5>1. concurrent_queue'[i].by = r /\ concurrent_queue'[i].n = pushed[r]
          BY <2>1, <4>1
        <5> QED BY <2>2, <5>1
      <4>2. CASE i # len + 1
        <5>1. i \in 1..len /\ concurrent_queue'[i] = concurrent_queue[i]
          BY <1>1, <2>1, <4>2, ItemTypes
        <5>2. concurrent_queue[i].by \in Remotes
              /\ concurrent_queue[i].n \in 1..Returned(concurrent_queue[i].by)
          BY <1>1, <5>1 DEF Origin
        <5>3. PICK t \in Remotes : t = concurrent_queue[i].by
          BY <5>2
        <5>4. concurrent_queue[i].n \in 1..Returned(t)'
          BY <3>1, <5>2, <5>3 DEF Threads
        <5> QED BY <5>1, <5>2, <5>3, <5>4
      <4> QED BY <4>1, <4>2
    <3>3. ASSUME NEW i \in 1..Len(popped)
          PROVE  popped[i].by \in Threads /\ popped[i].n \in 1..Returned(popped[i].by)'
      <4>1. popped[i].by \in Threads /\ popped[i].n \in 1..Returned(popped[i].by)
        BY <1>1, <3>3 DEF Origin
      <4>2. PICK t \in Threads : t = popped[i].by
        BY <4>1
      <4>3. popped[i].n \in 1..Returned(t)'
        BY <3>1, <4>1, <4>2
      <4> QED BY <1>2, <4>1, <4>2, <4>3
    <3>4. \A i \in 1..Len(local_queue) :
            local_queue[i].item.by = Owner /\ local_queue[i].item.n \in 1..pushed[Owner]
      BY <1>1 DEF Origin
    <3> QED BY <1>2, <2>1, <3>2, <3>3, <3>4 DEF Origin
  <2>6. Present'
    <3>1. ASSUME NEW t \in Remotes, NEW k \in 1..Returned(t)
          PROVE  Consumed(t, k)' \/ InTbb(t, k)'
      <4>1. Consumed(t, k) => Consumed(t, k)'
        BY <1>2 DEF Consumed
      <4>2. InTbb(t, k) => InTbb(t, k)'
        BY <1>1, <2>1, ItemTypes DEF InTbb
      <4> QED BY <1>1, <4>1, <4>2 DEF Present
    <3>2. InTbb(r, pushed[r])'
      <4> SUFFICES \E i \in 1..Len(concurrent_queue') : concurrent_queue'[i] = new
        BY <1>4 DEF InTbb, RemoteEmplace
      <4> QED BY <1>1, <2>1, ItemTypes
    <3>3. ASSUME NEW t \in Remotes, NEW k \in 1..Returned(t)'
          PROVE  Consumed(t, k)' \/ InTbb(t, k)'
      <4>1. k \in 1..Returned(t) \/ (t = r /\ k = pushed[r])
        BY <2>2, <3>3 DEF Threads
      <4>2. pushed' = pushed
        BY <1>4 DEF RemoteEmplace
      <4>3. CASE k \in 1..Returned(t)
        BY <3>1, <4>3
      <4>4. CASE t = r /\ k = pushed[r]
        BY <3>2, <4>2, <4>4
      <4> QED BY <4>1, <4>3, <4>4
    <3>4. \A k \in 1..pushed'[Owner] : Consumed(Owner, k)' \/ InDeque(k)'
      BY <1>1, <1>2 DEF Present, Consumed, InDeque
    <3> QED BY <3>3, <3>4 DEF Present
  <2>7. History'
    BY <1>1, <1>2, <2>3, ReturnedTypes DEF History
  <2>8. Ahead'
    <3> SUFFICES ASSUME NEW i \in 1..Len(local_queue), NEW p \in 1..(len + 1),
                        concurrent_queue'[p].n
                          <= returned[local_queue[i].item.n][concurrent_queue'[p].by]
                 PROVE  next + (i - 1) + p <= local_queue[i].index
      BY <1>2, <2>1 DEF Ahead
    <3>1. p # len + 1
      <4>1. local_queue[i].item.n \in 1..Len(returned)
        BY <1>1 DEF Origin, History
      <4>2. returned[local_queue[i].item.n][r] <= pushed[r] - 1
            /\ returned[local_queue[i].item.n][r] \in Nat
        BY <1>1, <2>2, <4>1 DEF History
      <4> QED BY <2>1, <2>2, <4>2
    <3>2. p \in 1..len
      BY <1>1, <3>1, ItemTypes, SMTT(30)
    <3> QED BY <1>1, <2>1, <3>2 DEF Ahead
  <2>9. ReturnedFirst'
    BY <1>1, <1>2 DEF ReturnedFirst
  <2> QED BY <2>4, <2>5, <2>6, <2>7, <2>8, <2>9 DEF OrderInv
<1> QED BY <1>3, <1>4

\* try_pop() from the deque: every item of a push that had returned is out.
LEMMA OrderPopLocal ==
  ASSUME Inv, OrderInv, PopLocal
  PROVE  OrderInv'
<1> DEFINE len == Len(popped)
           head == local_queue[1].item
<1>1. TypeOK /\ Begun /\ Order /\ Origin /\ Present /\ History /\ Ahead /\ ReturnedFirst
  BY DEF Inv, OrderInv
<1>2. /\ Len(local_queue) > 0 /\ 1 \in 1..Len(local_queue)
      /\ Len(local_queue') = Len(local_queue) - 1
      /\ \A i \in 1..Len(local_queue') : local_queue'[i] = local_queue[i + 1]
      /\ local_queue[1].index = next /\ Head(local_queue) = local_queue[1]
  <2>1. local_queue # <<>> /\ local_queue' = Tail(local_queue) /\ next = Head(local_queue).index
    BY DEF PopLocal, LocalTurn
  <2>2. local_queue \in Seq([item : Item, index : Nat])
    BY <1>1 DEF TypeOK
  <2> QED BY <2>1, <2>2, HeadTailProperties
<1>3. head \in Item /\ head.by = Owner /\ head.n \in 1..pushed[Owner]
  BY <1>1, <1>2, ItemTypes DEF Origin
<1>4. /\ Len(popped') = len + 1
      /\ \A i \in 1..len : popped'[i] = popped[i]
      /\ popped'[len + 1] = head
  BY <1>1, <1>2, <1>3 DEF PopLocal, TypeOK
<1>5. /\ concurrent_queue' = concurrent_queue /\ returned' = returned /\ pushed' = pushed
      /\ next' = next + 1 /\ next \in Nat /\ \A t \in Threads : Returned(t)' = Returned(t)
  BY <1>1 DEF PopLocal, TypeOK, Returned
<1>6. Order'
  <2>1. \A i \in 1..len : Precedes(popped[i], head)
    BY <1>1, <1>2 DEF Order
  <2>2. \A i \in 1..Len(local_queue') : Precedes(head, local_queue'[i].item)
    BY <1>1, <1>2, ItemTypes DEF Order
  <2>3. \A i \in 1..Len(concurrent_queue) : Precedes(head, concurrent_queue[i])
    BY <1>1, <1>3, QueueAssumption DEF Origin, Precedes
  <2>4. \A i, j \in 1..Len(local_queue') :
          i < j => Precedes(local_queue'[i].item, local_queue'[j].item)
    <3>1. \A i \in 1..Len(local_queue') :
            i + 1 \in 1..Len(local_queue) /\ local_queue'[i] = local_queue[i + 1]
      BY <1>1, <1>2, ItemTypes
    <3> QED BY <1>1, <1>2, <3>1, ItemTypes DEF Order
  <2>5. ASSUME NEW i \in 1..len, NEW j \in 1..Len(local_queue')
        PROVE  Precedes(popped[i], local_queue'[j].item)
    <3>1. j + 1 \in 1..Len(local_queue) /\ local_queue'[j] = local_queue[j + 1]
      BY <1>1, <1>2, ItemTypes
    <3> QED BY <1>1, <3>1 DEF Order
  <2>6. \A i, j \in 1..Len(popped') : i < j => Precedes(popped'[i], popped'[j])
    BY <1>1, <1>4, <2>1, ItemTypes, AppendKeepsOrder DEF Order
  <2>7. /\ \A i \in 1..Len(popped'), j \in 1..Len(concurrent_queue) :
             Precedes(popped'[i], concurrent_queue[j])
        /\ \A i \in 1..Len(popped'), j \in 1..Len(local_queue') :
             Precedes(popped'[i], local_queue'[j].item)
    <3>1. \A i \in 1..len, j \in 1..Len(concurrent_queue) :
            Precedes(popped[i], concurrent_queue[j])
      BY <1>1 DEF Order
    <3>2. len \in Nat /\ \A i \in 1..Len(popped') : i \in 1..len \/ i = len + 1
      BY <1>1, <1>4, ItemTypes
    <3> QED BY <1>4, <2>2, <2>3, <2>5, <3>1, <3>2
  <2> QED BY <1>1, <1>5, <2>4, <2>6, <2>7 DEF Order
<1>7. Origin'
  <2>1. ASSUME NEW i \in 1..Len(popped')
        PROVE  popped'[i].by \in Threads /\ popped'[i].n \in 1..Returned(popped'[i].by)
    <3>1. CASE i \in 1..len
      BY <1>1, <1>4, <3>1 DEF Origin
    <3>2. CASE i = len + 1
      <4>1. Returned(Owner) = pushed[Owner] /\ Owner \in Threads
        BY <1>1, ReturnedTypes
      <4> QED BY <1>3, <1>4, <3>2, <4>1
    <3>3. len \in Nat
      BY <1>1, ItemTypes
    <3> QED BY <1>4, <3>1, <3>2, <3>3
  <2>2. \A i \in 1..Len(local_queue') :
          local_queue'[i].item.by = Owner /\ local_queue'[i].item.n \in 1..pushed[Owner]
    <3>1. \A i \in 1..Len(local_queue') :
            i + 1 \in 1..Len(local_queue) /\ local_queue'[i] = local_queue[i + 1]
      BY <1>1, <1>2, ItemTypes
    <3> QED BY <1>1, <3>1 DEF Origin
  <2> QED BY <1>1, <1>5, <2>1, <2>2, ReturnedTypes DEF Origin
<1>8. Present'
  <2>1. \A t, k : Consumed(t, k) => Consumed(t, k)'
    BY <1>1, <1>4, ItemTypes DEF Consumed
  <2>2. ASSUME NEW k \in 1..pushed[Owner], InDeque(k) PROVE Consumed(Owner, k)' \/ InDeque(k)'
    <3>1. PICK i \in 1..Len(local_queue) : local_queue[i].item = [by |-> Owner, n |-> k]
      BY <2>2 DEF InDeque
    <3>2. CASE i = 1
      BY <1>1, <1>4, <3>1, <3>2, ItemTypes DEF Consumed
    <3>3. CASE i # 1
      <4>1. i - 1 \in 1..Len(local_queue') /\ local_queue'[i - 1] = local_queue[i]
        BY <1>1, <1>2, <3>3, ItemTypes
      <4> QED BY <3>1, <4>1 DEF InDeque
    <3> QED BY <3>2, <3>3
  <2>3. \A r, k : InTbb(r, k)' = InTbb(r, k)
    BY <1>5 DEF InTbb
  <2>4. \A r \in Remotes : \A k \in 1..Returned(r)' : Consumed(r, k)' \/ InTbb(r, k)'
    BY <1>1, <1>5, <2>1, <2>3 DEF Present, Threads
  <2>5. \A k \in 1..pushed'[Owner] : Consumed(Owner, k)' \/ InDeque(k)'
    BY <1>1, <1>5, <2>1, <2>2 DEF Present
  <2> QED BY <2>4, <2>5 DEF Present
<1>9. History'
  BY <1>1, <1>5 DEF History, Threads
<1>10. Ahead'
  <2> SUFFICES ASSUME NEW i \in 1..Len(local_queue'), NEW p \in 1..Len(concurrent_queue),
                      concurrent_queue[p].n
                        <= returned[local_queue'[i].item.n][concurrent_queue[p].by]
               PROVE  next + 1 + (i - 1) + p <= local_queue'[i].index
    BY <1>5 DEF Ahead
  <2>1. i + 1 \in 1..Len(local_queue) /\ local_queue'[i] = local_queue[i + 1]
        /\ local_queue[i + 1].index \in Nat
    BY <1>1, <1>2, ItemTypes
  <2>2. next + ((i + 1) - 1) + p <= local_queue[i + 1].index
    BY <1>1, <2>1 DEF Ahead
  <2> QED BY <1>1, <1>5, <2>1, <2>2, ItemTypes
<1>11. ReturnedFirst'
  <2>1. ASSUME NEW r \in Remotes, NEW k \in 1..returned[head.n][r]
        PROVE  Consumed(r, k)
    <3>1. returned[head.n][r] \in Nat /\ returned[head.n][r] <= Returned(r)
      BY <1>1, <1>3 DEF History
    <3>2. k \in 1..Returned(r)
      BY <1>1, <3>1, ReturnedTypes
    <3>3. ASSUME NEW p \in 1..Len(concurrent_queue), concurrent_queue[p] = [by |-> r, n |-> k]
          PROVE  FALSE
      <4>1. next + (1 - 1) + p <= local_queue[1].index
        BY <1>1, <1>2, <3>1, <3>3 DEF Ahead
      <4> QED BY <1>1, <1>2, <1>5, <4>1, ItemTypes
    <3> QED BY <1>1, <3>2, <3>3 DEF Present, InTbb
  <2> SUFFICES ASSUME NEW j \in 1..(len + 1), popped'[j].by = Owner, popped'[j].n # 0,
                      NEW r \in Remotes, NEW k \in 1..returned[popped'[j].n][r]
               PROVE  \E i \in 1..(j - 1) : popped'[i] = [by |-> r, n |-> k]
    BY <1>4, <1>5 DEF ReturnedFirst
  <2>2. CASE j = len + 1
    <3>1. PICK i \in 1..len : popped[i] = [by |-> r, n |-> k]
      BY <1>4, <2>1, <2>2 DEF Consumed
    <3> QED BY <1>1, <1>4, <2>2, <3>1, ItemTypes
  <2>3. CASE j # len + 1
    <3>1. j \in 1..len /\ popped'[j] = popped[j]
      BY <1>1, <1>4, <2>3, ItemTypes
    <3>2. PICK i \in 1..(j - 1) : popped[i] = [by |-> r, n |-> k]
      BY <1>1, <3>1 DEF ReturnedFirst
    <3> QED BY <1>1, <1>4, <3>1, <3>2, ItemTypes
  <2> QED BY <2>2, <2>3
<1> QED BY <1>6, <1>7, <1>8, <1>9, <1>10, <1>11 DEF OrderInv

\* try_pop() from the tbb queue.
LEMMA OrderPopRemote ==
  ASSUME Inv, OrderInv, PopRemote
  PROVE  OrderInv'
<1> DEFINE len == Len(popped)
           head == concurrent_queue[1]
<1>1. TypeOK /\ Begun /\ Order /\ Origin /\ Present /\ History /\ Ahead /\ ReturnedFirst
  BY DEF Inv, OrderInv
<1>2. /\ Len(concurrent_queue) > 0 /\ 1 \in 1..Len(concurrent_queue)
      /\ Len(concurrent_queue') = Len(concurrent_queue) - 1
      /\ \A i \in 1..Len(concurrent_queue') :
           i + 1 \in 1..Len(concurrent_queue) /\ concurrent_queue'[i] = concurrent_queue[i + 1]
      /\ Head(concurrent_queue) = head
  <2>1. concurrent_queue # <<>> /\ concurrent_queue' = Tail(concurrent_queue)
    BY DEF PopRemote
  <2>2. concurrent_queue \in Seq(Item)
    BY <1>1 DEF TypeOK
  <2> QED BY <2>1, <2>2, HeadTailProperties
<1>3. head \in Item /\ head.by \in Remotes /\ head.n \in 1..Returned(head.by) /\ head.by # Owner
  BY <1>1, <1>2, ItemTypes, QueueAssumption DEF Origin
<1>4. /\ Len(popped') = len + 1
      /\ \A i \in 1..len : popped'[i] = popped[i]
      /\ popped'[len + 1] = head
  BY <1>1, <1>2, <1>3 DEF PopRemote, TypeOK
<1>5. /\ local_queue' = local_queue /\ returned' = returned /\ pushed' = pushed
      /\ next' = next + 1 /\ next \in Nat /\ \A t \in Threads : Returned(t)' = Returned(t)
  BY <1>1 DEF PopRemote, TypeOK, Returned
<1>6. Order'
  <2>1. \A i \in 1..len : Precedes(popped[i], head)
    BY <1>1, <1>2 DEF Order
  <2>2. \A i \in 1..Len(concurrent_queue') : Precedes(head, concurrent_queue'[i])
    BY <1>1, <1>2, ItemTypes DEF Order
  <2>3. \A i \in 1..Len(local_queue) : Precedes(head, local_queue[i].item)
    BY <1>1, <1>3 DEF Origin, Precedes
  <2>4. \A i, j \in 1..Len(concurrent_queue') :
          i < j => Precedes(concurrent_queue'[i], concurrent_queue'[j])
    BY <1>1, <1>2, ItemTypes DEF Order
  <2>5. ASSUME NEW i \in 1..len, NEW j \in 1..Len(concurrent_queue')
        PROVE  Precedes(popped[i], concurrent_queue'[j])
    BY <1>1, <1>2 DEF Order
  <2>6. \A i, j \in 1..Len(popped') : i < j => Precedes(popped'[i], popped'[j])
    BY <1>1, <1>4, <2>1, ItemTypes, AppendKeepsOrder DEF Order
  <2>7. ASSUME NEW i \in 1..Len(popped')
        PROVE  /\ \A j \in 1..Len(concurrent_queue') : Precedes(popped'[i], concurrent_queue'[j])
               /\ \A j \in 1..Len(local_queue) : Precedes(popped'[i], local_queue[j].item)
    <3>1. CASE i = len + 1
      BY <1>4, <2>2, <2>3, <3>1
    <3>2. CASE i # len + 1
      <4>1. i \in 1..len /\ popped'[i] = popped[i]
        BY <1>1, <1>4, <3>2, ItemTypes
      <4> QED BY <1>1, <2>5, <4>1 DEF Order
    <3> QED BY <3>1, <3>2
  <2> QED BY <1>1, <1>5, <2>4, <2>6, <2>7 DEF Order
<1>7. Origin'
  <2>1. \A i \in 1..Len(popped') :
          popped'[i].by \in Threads /\ popped'[i].n \in 1..Returned(popped'[i].by)
    BY <1>1, <1>3, <1>4, ItemTypes, ReturnedTypes DEF Origin
  <2>2. \A i \in 1..Len(concurrent_queue') :
          concurrent_queue'[i].by \in Remotes
          /\ concurrent_queue'[i].n \in 1..Returned(concurrent_queue'[i].by)
    BY <1>1, <1>2 DEF Origin
  <2> QED BY <1>1, <1>5, <2>1, <2>2, ReturnedTypes DEF Origin
<1>8. Present'
  <2>1. \A t, k : Consumed(t, k) => Consumed(t, k)'
    BY <1>1, <1>4, ItemTypes DEF Consumed
  <2>2. ASSUME NEW r \in Remotes, NEW k, InTbb(r, k) PROVE Consumed(r, k)' \/ InTbb(r, k)'
    <3>1. PICK i \in 1..Len(concurrent_queue) : concurrent_queue[i] = [by |-> r, n |-> k]
      BY <2>2 DEF InTbb
    <3>2. CASE i = 1
      BY <1>1, <1>4, <3>1, <3>2, ItemTypes DEF Consumed
    <3>3. CASE i # 1
      <4>1. i - 1 \in 1..Len(concurrent_queue') /\ concurrent_queue'[i - 1] = concurrent_queue[i]
        BY <1>1, <1>2, <3>3, ItemTypes
      <4> QED BY <3>1, <4>1 DEF InTbb
    <3> QED BY <3>2, <3>3
  <2>3. \A k : InDeque(k)' = InDeque(k)
    BY <1>5 DEF InDeque
  <2>4. \A r \in Remotes : \A k \in 1..Returned(r)' : Consumed(r, k)' \/ InTbb(r, k)'
    BY <1>1, <1>5, <2>1, <2>2 DEF Present, Threads
  <2>5. \A k \in 1..pushed'[Owner] : Consumed(Owner, k)' \/ InDeque(k)'
    BY <1>1, <1>5, <2>1, <2>3 DEF Present
  <2> QED BY <2>4, <2>5 DEF Present
<1>9. History'
  BY <1>1, <1>5 DEF History, Threads
<1>10. Ahead'
  <2> SUFFICES ASSUME NEW i \in 1..Len(local_queue), NEW p \in 1..Len(concurrent_queue'),
                      concurrent_queue'[p].n
                        <= returned[local_queue[i].item.n][concurrent_queue'[p].by]
               PROVE  next + 1 + (i - 1) + p <= local_queue[i].index
    BY <1>5 DEF Ahead
  <2>1. p + 1 \in 1..Len(concurrent_queue) /\ concurrent_queue'[p] = concurrent_queue[p + 1]
    BY <1>2
  <2>2. next + (i - 1) + (p + 1) <= local_queue[i].index
    BY <1>1, <2>1 DEF Ahead
  <2> QED BY <1>1, <1>5, <2>1, <2>2, ItemTypes
<1>11. ReturnedFirst'
  <2> SUFFICES ASSUME NEW j \in 1..(len + 1), popped'[j].by = Owner, popped'[j].n # 0,
                      NEW r \in Remotes, NEW k \in 1..returned[popped'[j].n][r]
               PROVE  \E i \in 1..(j - 1) : popped'[i] = [by |-> r, n |-> k]
    BY <1>4, <1>5 DEF ReturnedFirst
  <2>1. j \in 1..len /\ popped'[j] = popped[j]
    BY <1>1, <1>3, <1>4, ItemTypes
  <2>2. PICK i \in 1..(j - 1) : popped[i] = [by |-> r, n |-> k]
    BY <1>1, <2>1 DEF ReturnedFirst
  <2>3. i \in 1..len
    BY <1>1, <2>1, ItemTypes
  <2> QED BY <1>4, <2>2, <2>3
<1> QED BY <1>6, <1>7, <1>8, <1>9, <1>10, <1>11 DEF OrderInv

\* Both invariants hold in every reachable state.
LEMMA OrderHolds ==
  ASSUME InitialSize = 0
  PROVE  Spec => [](Inv /\ OrderInv)
<1>1. Init => OrderInv
  BY OrderInit
<1>2. Inv /\ OrderInv /\ [Next]_vars => OrderInv'
  <2>1. ASSUME Inv, OrderInv, UNCHANGED vars
        PROVE  OrderInv'
    <3>1. /\ index' = index /\ local_queue' = local_queue /\ next' = next /\ popped' = popped
          /\ concurrent_queue' = concurrent_queue /\ adding' = adding /\ pushed' = pushed
          /\ returned' = returned
      BY <2>1 DEF vars
    <3>2. Order' /\ Ahead' /\ ReturnedFirst'
      BY <2>1, <3>1 DEF OrderInv, Order, Ahead, ReturnedFirst
    <3>3. \A t : Returned(t)' = Returned(t)
      BY <3>1 DEF Returned
    <3>4. Origin' /\ History'
      BY <2>1, <3>1, <3>3 DEF OrderInv, Origin, History
    <3>5. Present'
      BY <2>1, <3>1, <3>3 DEF OrderInv, Present, Consumed, InTbb, InDeque
    <3> QED BY <3>2, <3>4, <3>5 DEF OrderInv
  <2> QED BY <2>1, OrderLocalPush, OrderRemotePush, OrderPopLocal, OrderPopRemote
          DEF Next, TryPop
<1> QED BY <1>1, <1>2, InvHolds, PTL DEF Spec

-----------------------------------------------------------------------------
(***************************************************************************)
(* Items of one producer come out of try_pop() in the order of its pushes, *)
(* for any number of producers.                                            *)
(***************************************************************************)
THEOREM ProducersInOrder ==
  ASSUME InitialSize = 0
  PROVE  Spec => []ProducerOrder
<1>1. Inv /\ OrderInv => ProducerOrder
  <2> SUFFICES ASSUME Inv, OrderInv, NEW j \in 1..Len(popped), NEW i \in 1..(j - 1)
               PROVE  Precedes(popped[i], popped[j])
    BY DEF ProducerOrder, Precedes
  <2>1. i \in 1..Len(popped) /\ i < j
    BY ItemTypes DEF Inv
  <2> QED BY <2>1 DEF OrderInv, Order
<1> QED BY <1>1, OrderHolds, PTL

(***************************************************************************)
(* A remote item whose push() had returned before the owner pushed is      *)
(* popped before the owner's item: the order that `index` is kept for.     *)
(***************************************************************************)
THEOREM ReturnedComesFirst ==
  ASSUME InitialSize = 0
  PROVE  Spec => []ReturnedFirst
<1>1. OrderInv => ReturnedFirst
  BY DEF OrderInv
<1> QED BY <1>1, OrderHolds, PTL

-----------------------------------------------------------------------------
\* What Everything is made of.
LEMMA Pieces ==
  ASSUME TypeOK
  PROVE  LET a == Len(popped)
             b == Len(concurrent_queue)
             c == Len(local_queue)
         IN  /\ Len(Everything) = a + b + c
             /\ DOMAIN Everything = 1..(a + b + c)
             /\ \A i \in 1..a : Everything[i] = popped[i]
             /\ \A i \in 1..b : Everything[a + i] = concurrent_queue[i]
             /\ \A i \in 1..c : Everything[a + b + i] = local_queue[i].item
<1> DEFINE items == [i \in 1..Len(local_queue) |-> local_queue[i].item]
           taken == popped \o concurrent_queue
<1>1. items \in Seq(Item) /\ Len(items) = Len(local_queue)
  BY ItemTypes
<1>2. popped \in Seq(Item) /\ concurrent_queue \in Seq(Item)
  BY DEF TypeOK
<1>3. /\ taken \in Seq(Item) /\ Len(taken) = Len(popped) + Len(concurrent_queue)
      /\ \A i \in 1..(Len(popped) + Len(concurrent_queue)) :
           taken[i] = IF i <= Len(popped) THEN popped[i] ELSE concurrent_queue[i - Len(popped)]
  BY <1>2, ConcatProperties
<1>4. /\ Everything \in Seq(Item) /\ Len(Everything) = Len(taken) + Len(items)
      /\ \A i \in 1..(Len(taken) + Len(items)) :
           Everything[i] = IF i <= Len(taken) THEN taken[i] ELSE items[i - Len(taken)]
  <2> HIDE DEF taken, items
  <2>1. taken \o items = Everything
    BY DEF Everything, taken, items
  <2>2. taken \in Seq(Item) /\ items \in Seq(Item)
    BY <1>1, <1>3
  <2>3. /\ taken \o items \in Seq(Item) /\ Len(taken \o items) = Len(taken) + Len(items)
        /\ \A i \in 1..(Len(taken) + Len(items)) :
             (taken \o items)[i] = IF i <= Len(taken) THEN taken[i] ELSE items[i - Len(taken)]
    BY <2>2, ConcatProperties
  <2> QED BY <2>1, <2>3
<1>5. DOMAIN Everything = 1..Len(Everything)
  BY <1>4
<1>6. /\ Len(popped) \in Nat /\ Len(concurrent_queue) \in Nat /\ Len(local_queue) \in Nat
      /\ \A i \in 1..Len(local_queue) : items[i] = local_queue[i].item
  BY ItemTypes
<1> HIDE DEF taken, items
<1>7. ASSUME NEW i \in 1..Len(popped) PROVE Everything[i] = popped[i]
  <2>1. /\ i \in 1..(Len(taken) + Len(items)) /\ i <= Len(taken)
        /\ i \in 1..(Len(popped) + Len(concurrent_queue)) /\ i <= Len(popped)
    BY <1>1, <1>3, <1>6, <1>7
  <2> QED BY <1>3, <1>4, <2>1
<1>8. ASSUME NEW i \in 1..Len(concurrent_queue)
      PROVE  Everything[Len(popped) + i] = concurrent_queue[i]
  <2> DEFINE k == Len(popped) + i
  <2>1. /\ k \in 1..(Len(taken) + Len(items)) /\ k <= Len(taken)
        /\ k \in 1..(Len(popped) + Len(concurrent_queue)) /\ ~(k <= Len(popped))
        /\ k - Len(popped) = i
    BY <1>1, <1>3, <1>6, <1>8
  <2> QED BY <1>3, <1>4, <2>1
<1>9. ASSUME NEW i \in 1..Len(local_queue)
      PROVE  Everything[Len(popped) + Len(concurrent_queue) + i] = local_queue[i].item
  <2> DEFINE k == Len(popped) + Len(concurrent_queue) + i
  <2>1. /\ k \in 1..(Len(taken) + Len(items)) /\ ~(k <= Len(taken)) /\ k - Len(taken) = i
    BY <1>1, <1>3, <1>6, <1>9
  <2> QED BY <1>4, <1>6, <2>1
<1> QED BY <1>1, <1>3, <1>4, <1>5, <1>7, <1>8, <1>9

\* A place in Everything is a place in one of its three parts.
LEMMA Places ==
  ASSUME TypeOK, NEW i \in 1..Len(Everything)
  PROVE  \/ i \in 1..Len(popped) /\ Everything[i] = popped[i]
         \/ \E j \in 1..Len(concurrent_queue) :
              i = Len(popped) + j /\ Everything[i] = concurrent_queue[j]
         \/ \E j \in 1..Len(local_queue) :
              i = Len(popped) + Len(concurrent_queue) + j /\ Everything[i] = local_queue[j].item
<1> DEFINE a == Len(popped)
           b == Len(concurrent_queue)
           c == Len(local_queue)
<1>1. a \in Nat /\ b \in Nat /\ c \in Nat /\ i \in 1..(a + b + c)
  BY ItemTypes, Pieces
<1>2. CASE i <= a
  BY <1>1, <1>2, Pieces
<1>3. CASE i > a /\ i <= a + b
  <2>1. i - a \in 1..b /\ i = a + (i - a)
    BY <1>1, <1>3
  <2> QED BY <2>1, Pieces
<1>4. CASE i > a + b
  <2>1. i - (a + b) \in 1..c /\ i = a + b + (i - (a + b))
    BY <1>1, <1>4
  <2> QED BY <2>1, Pieces
<1> QED BY <1>1, <1>2, <1>3, <1>4

\* No two places hold the same item, whichever queue they are in.
LEMMA NoDuplicates ==
  ASSUME Inv, OrderInv, NEW i \in 1..Len(Everything), NEW j \in 1..Len(Everything), i < j
  PROVE  Everything[i] # Everything[j]
<1>1. TypeOK /\ Order /\ Origin
  BY DEF Inv, OrderInv
<1>2. \A k \in 1..Len(popped) : popped[k].n \in Nat
  BY <1>1, ItemTypes DEF Item
<1>3. \A k \in 1..Len(concurrent_queue) : concurrent_queue[k].n \in Nat
  BY <1>1, ItemTypes DEF Item
<1>4. \A k \in 1..Len(local_queue) : local_queue[k].item.n \in Nat
  BY <1>1, ItemTypes DEF Item
<1>5. CASE i \in 1..Len(popped) /\ Everything[i] = popped[i]
  <2>1. CASE j \in 1..Len(popped) /\ Everything[j] = popped[j]
    BY <1>1, <1>2, <1>5, <2>1 DEF Order, Precedes
  <2>2. CASE \E q \in 1..Len(concurrent_queue) : Everything[j] = concurrent_queue[q]
    BY <1>1, <1>2, <1>3, <1>5, <2>2 DEF Order, Precedes
  <2>3. CASE \E q \in 1..Len(local_queue) : Everything[j] = local_queue[q].item
    <3>1. PICK q \in 1..Len(local_queue) : Everything[j] = local_queue[q].item
      BY <2>3
    <3>2. Precedes(popped[i], local_queue[q].item)
      BY <1>1, <1>5 DEF Order
    <3> QED BY <1>2, <1>4, <1>5, <3>1, <3>2 DEF Precedes
  <2> QED BY <1>1, <2>1, <2>2, <2>3, Places
<1>6. ASSUME NEW p \in 1..Len(concurrent_queue),
             i = Len(popped) + p, Everything[i] = concurrent_queue[p]
      PROVE  Everything[i] # Everything[j]
  <2>1. CASE j \in 1..Len(popped)
    BY <1>1, <1>6, <2>1, ItemTypes
  <2>2. ASSUME NEW q \in 1..Len(concurrent_queue),
               j = Len(popped) + q, Everything[j] = concurrent_queue[q]
        PROVE  Everything[i] # Everything[j]
    <3>1. p < q
      BY <1>1, <1>6, <2>2, ItemTypes
    <3> QED BY <1>1, <1>3, <1>6, <2>2, <3>1 DEF Order, Precedes
  <2>3. CASE \E q \in 1..Len(local_queue) : Everything[j] = local_queue[q].item
    BY <1>1, <1>6, <2>3, QueueAssumption DEF Origin
  <2> QED BY <1>1, <2>1, <2>2, <2>3, Places
<1>7. ASSUME NEW p \in 1..Len(local_queue),
             i = Len(popped) + Len(concurrent_queue) + p, Everything[i] = local_queue[p].item
      PROVE  Everything[i] # Everything[j]
  <2>1. CASE j \in 1..Len(popped)
    BY <1>1, <1>7, <2>1, ItemTypes
  <2>2. CASE \E q \in 1..Len(concurrent_queue) : j = Len(popped) + q
    BY <1>1, <1>7, <2>2, ItemTypes
  <2>3. ASSUME NEW q \in 1..Len(local_queue),
               j = Len(popped) + Len(concurrent_queue) + q, Everything[j] = local_queue[q].item
        PROVE  Everything[i] # Everything[j]
    <3>1. p < q
      BY <1>1, <1>7, <2>3, ItemTypes
    <3> QED BY <1>1, <1>4, <1>7, <2>3, <3>1 DEF Order, Precedes
  <2> QED BY <1>1, <2>1, <2>2, <2>3, Places
<1> QED BY <1>1, <1>5, <1>6, <1>7, Places

(***************************************************************************)
(* push() and try_pop() lose no item, deliver none twice and invent none.  *)
(***************************************************************************)
THEOREM EachItemOnce ==
  ASSUME InitialSize = 0
  PROVE  Spec => []ExactlyOnce
<1>1. ASSUME Inv, OrderInv PROVE ExactlyOnce
  <2> DEFINE n == Len(Everything)
             held == {Everything[i] : i \in 1..n}
  <2>1. TypeOK /\ Begun /\ Origin /\ Present
    BY <1>1 DEF Inv, OrderInv
  <2>2. n \in Nat /\ DOMAIN Everything = 1..n
    BY <2>1, ItemTypes, Pieces
  <2>3. held \subseteq Inserted
    <3> SUFFICES ASSUME NEW i \in 1..n PROVE Everything[i] \in Inserted
      OBVIOUS
    <3>1. ASSUME NEW t \in Threads, NEW k \in 1..Returned(t) PROVE [by |-> t, n |-> k] \in Inserted
      BY <2>1, <3>1, ReturnedTypes DEF Inserted, Threads
    <3>2. Everything[i] \in Item /\ Everything[i].by \in Threads
          /\ Everything[i].n \in 1..Returned(Everything[i].by)
      BY <2>1, Places, ItemTypes, ReturnedTypes DEF Origin
    <3> QED BY <3>1, <3>2 DEF Item
  <2>4. Inserted \subseteq held
    <3>1. ASSUME NEW t, NEW k, Consumed(t, k) PROVE [by |-> t, n |-> k] \in held
      <4>1. PICK i \in 1..Len(popped) : popped[i] = [by |-> t, n |-> k]
        BY <3>1 DEF Consumed
      <4>2. i \in 1..n /\ Everything[i] = popped[i]
        BY <2>1, Pieces, ItemTypes
      <4> QED BY <4>1, <4>2
    <3>2. ASSUME NEW r, NEW k, InTbb(r, k) PROVE [by |-> r, n |-> k] \in held
      <4>1. PICK i \in 1..Len(concurrent_queue) : concurrent_queue[i] = [by |-> r, n |-> k]
        BY <3>2 DEF InTbb
      <4>2. Len(popped) + i \in 1..n /\ Everything[Len(popped) + i] = concurrent_queue[i]
        BY <2>1, Pieces, ItemTypes
      <4> QED BY <4>1, <4>2
    <3>3. ASSUME NEW k, InDeque(k) PROVE [by |-> Owner, n |-> k] \in held
      <4>1. PICK i \in 1..Len(local_queue) : local_queue[i].item = [by |-> Owner, n |-> k]
        BY <3>3 DEF InDeque
      <4>2. /\ Len(popped) + Len(concurrent_queue) + i \in 1..n
            /\ Everything[Len(popped) + Len(concurrent_queue) + i] = local_queue[i].item
        BY <2>1, Pieces, ItemTypes
      <4> QED BY <4>1, <4>2
    <3> QED BY <2>1, <3>1, <3>2, <3>3 DEF Inserted, Present
  <2>5. Everything \in Bijection(1..n, held)
    <3>1. Everything \in [1..n -> held]
      <4>1. Everything = [i \in 1..n |-> Everything[i]]
        BY <2>1, ConcatProperties, ItemTypes DEF Everything, TypeOK
      <4> QED BY <4>1
    <3>2. IsInjective(Everything)
      <4> SUFFICES ASSUME NEW i \in 1..n, NEW j \in 1..n, i # j
                   PROVE  Everything[i] # Everything[j]
        BY <2>2 DEF IsInjective
      <4>1. i < j \/ j < i
        BY <2>2
      <4> QED BY <1>1, <4>1, NoDuplicates
    <3> QED BY <3>1, <3>2 DEF Bijection, Injection, Surjection
  <2>6. Cardinality(held) = n
    BY <2>2, <2>5, FS_CountingElements DEF ExistsBijection
  <2> QED BY <2>3, <2>4, <2>6 DEF ExactlyOnce
<1> QED BY <1>1, OrderHolds, PTL
=============================================================================
