---------------------------- MODULE LoggerProofs -----------------------------
(***************************************************************************)
(* Proofs about Logger, for any number of threads, loggers and internal    *)
(* loggers: the reentrant locks are owned by who has taken them and        *)
(* counted as often; an internal logger has one file, and lines go to the  *)
(* right one; the reference counts are exact; and assignment, swap, copy   *)
(* and destruction are steps on one table of loggers.                      *)
(***************************************************************************)
EXTENDS Logger, FiniteSetTheorems, NaturalsInduction, WellFoundedInduction, TLAPS

Pcs == {"lock", "count", "read", "store", "drop", "destroy", "uncount", "release", "log"}

Calls == [pc : Pcs, kind : Kinds, x : Loggers, y : Loggers, held : 0..2,
          other : Inners \cup {None}]

RefType ==
  /\ thread_id \in [Loggers -> Threads \cup {NoThread}]
  /\ count \in [Loggers -> Nat]
  /\ log \in [Loggers -> Inners \cup {None}]
  /\ op \in [Threads -> {NoOp} \cup Calls]

\* How many locks a thread has at each place of its call.
Progress(t) ==
  /\ op[t] = NoOp \/ (op[t] \in Calls /\ op[t].held <= Len(Locks(t)))
  /\ OpAt(t, "log") => op[t].held = 0
  /\ op[t].pc \in {"lock", "count"} => op[t].held < Len(Locks(t))
  /\ op[t].pc \in {"read", "store"} => op[t].held = Len(Locks(t))
  /\ OpAt(t, "read") => op[t].held >= 1
  /\ op[t].pc \in {"uncount", "release"} => op[t].held >= 1
  /\ OpAt(t, "release") /\ op[t].held = 2 => Locks(t)[1] # Locks(t)[2]

\* Thread t has taken lock k; it has counted it as the n-th of its call, and so often in all.
Owned(t, k) == \E n \in 1..2 : /\ Locks(t)[n] = k
                               /\ n <= op[t].held \/ (OpAt(t, "count") /\ n = op[t].held + 1)

Counted(t, n, k) == /\ Locks(t)[n] = k /\ n <= op[t].held
                    /\ OpAt(t, "release") => n # op[t].held

Times(t, k) == (IF Counted(t, 1, k) THEN 1 ELSE 0) + (IF Counted(t, 2, k) THEN 1 ELSE 0)

Owner(k) ==
  /\ \A t \in Threads : /\ thread_id[k] = t <=> Owned(t, k)
                        /\ thread_id[k] = t => count[k] = Times(t, k)
  /\ thread_id[k] = NoThread => count[k] = 0

LockInv == /\ RefType
           /\ \A t \in Threads : Progress(t)
           /\ \A k \in Loggers : Owner(k)

-----------------------------------------------------------------------------
LEMMA Constants ==
  /\ NoThread \notin Threads /\ Empty \in Inners /\ None \notin Inners /\ Loggers \subseteq Nat
  /\ Len(Instants) \in Nat /\ Len(Instants) > 0
BY LoggerAssumption, FileAssumption

\* The locks of a call: two loggers at most.
LEMMA LocksOfType ==
  ASSUME NEW kind \in Kinds, NEW x \in Loggers, NEW y \in Loggers
  PROVE  /\ LocksOf(kind, x, y) \in Seq(Loggers)
         /\ Len(LocksOf(kind, x, y)) \in 0..2
         /\ kind = "destroy" => Len(LocksOf(kind, x, y)) = 0
         /\ kind # "destroy" => Len(LocksOf(kind, x, y)) >= 1
         /\ \A n \in 1..Len(LocksOf(kind, x, y)) : LocksOf(kind, x, y)[n] \in Loggers
<1>1. Lower(x, y) \in Loggers /\ Upper(x, y) \in Loggers
  BY DEF Lower, Upper
<1>2. CASE kind = "destroy"
  BY <1>2 DEF LocksOf
<1>3. CASE kind = "copy"
  BY <1>3 DEF LocksOf
<1>4. CASE kind \notin {"destroy", "copy"}
  <2>1. LocksOf(kind, x, y) = <<Lower(x, y), Upper(x, y)>>
    BY <1>4 DEF LocksOf
  <2>. QED BY <1>1, <1>4, <2>1
<1>. QED BY <1>2, <1>3, <1>4

\* What a step of one thread leaves alone: the place of every other thread.
LEMMA OthersStay ==
  ASSUME RefType, NEW t \in Threads, NEW o, op' = [op EXCEPT ![t] = o], NEW s \in Threads, s # t
  PROVE  /\ Progress(s) => Progress(s)'
         /\ \A k \in Loggers : Owned(s, k)' = Owned(s, k) /\ Times(s, k)' = Times(s, k)
<1>1. op'[s] = op[s]
  BY DEF RefType
<1>2. Locks(s)' = Locks(s)
  BY <1>1 DEF Locks
<1>3. Progress(s) => Progress(s)'
  BY <1>1, <1>2 DEF Progress, OpAt
<1>4. ASSUME NEW k \in Loggers PROVE Owned(s, k)' = Owned(s, k) /\ Times(s, k)' = Times(s, k)
  BY <1>1, <1>2 DEF Owned, Times, Counted, OpAt
<1>. QED BY <1>3, <1>4

\* What a step of thread t may do to lock k: nothing, take it, or give it up.
Keeps(t, k) == /\ thread_id'[k] = thread_id[k]
               /\ Owned(t, k)' <=> Owned(t, k)
               /\ IF thread_id[k] = t THEN count'[k] = Times(t, k)' ELSE count'[k] = count[k]
Takes(t, k) == /\ thread_id[k] \in {NoThread, t} /\ thread_id'[k] = t
               /\ Owned(t, k)' /\ count'[k] = Times(t, k)'
Yields(t, k) == /\ thread_id[k] = t /\ thread_id'[k] = NoThread
                /\ ~Owned(t, k)' /\ count'[k] = 0

\* One thread's step keeps the invariant when it does so for each lock.
LEMMA LockChange ==
  ASSUME LockInv, RefType', NEW t \in Threads, NEW o, op' = [op EXCEPT ![t] = o], Progress(t)',
         \A k \in Loggers : Keeps(t, k) \/ Takes(t, k) \/ Yields(t, k)
  PROVE  LockInv'
<1>. USE Constants
<1>1. ASSUME NEW s \in Threads, s # t
      PROVE  /\ Progress(s)'
             /\ \A k \in Loggers : Owned(s, k)' = Owned(s, k) /\ Times(s, k)' = Times(s, k)
  BY <1>1, OthersStay DEF LockInv
<1>2. ASSUME NEW k \in Loggers PROVE Owner(k)'
  <2>1. Owner(k) /\ thread_id[k] \in Threads \cup {NoThread}
    BY DEF LockInv, RefType
  <2>2. ASSUME NEW s \in Threads, s # t
        PROVE  /\ thread_id'[k] = s <=> Owned(s, k)'
               /\ thread_id'[k] = s => count'[k] = Times(s, k)'
    BY <1>1, <2>1, <2>2 DEF Owner, Keeps, Takes, Yields
  <2>3. /\ thread_id'[k] = t <=> Owned(t, k)'
        /\ thread_id'[k] = t => count'[k] = Times(t, k)'
    BY <2>1 DEF Owner, Keeps, Takes, Yields
  <2>4. thread_id'[k] = NoThread => count'[k] = 0
    BY <2>1 DEF Owner, Keeps, Takes, Yields
  <2>. QED BY <2>2, <2>3, <2>4 DEF Owner
<1>3. \A s \in Threads : Progress(s)'
  BY <1>1
<1>. QED BY <1>2, <1>3 DEF LockInv

\* The call a thread is in, and its locks.
LEMMA InCall ==
  ASSUME LockInv, NEW t \in Threads, op[t] # NoOp
  PROVE  /\ op[t] \in Calls /\ op[t].held \in 0..2 /\ op[t].held <= Len(Locks(t))
         /\ Locks(t) \in Seq(Loggers) /\ Len(Locks(t)) \in 0..2
         /\ \A n \in 1..Len(Locks(t)) : Locks(t)[n] \in Loggers
<1>1. op[t] \in Calls /\ op[t].held <= Len(Locks(t))
  BY DEF LockInv, Progress
<1>2. op[t].kind \in Kinds /\ op[t].x \in Loggers /\ op[t].y \in Loggers /\ op[t].held \in 0..2
  BY <1>1 DEF Calls
<1>. QED BY <1>1, <1>2, LocksOfType DEF Locks

-----------------------------------------------------------------------------
\* At first no lock is taken.
LEMMA LockInvInit == Init => LockInv
<1>. SUFFICES ASSUME Init PROVE LockInv
  OBVIOUS
<1>. USE LoggerAssumption, FileAssumption DEF Init, Lock!LockInit
<1>1. RefType
  BY DEF RefType, NoOp
<1>2. \A t \in Threads : Progress(t)
  BY DEF Progress, OpAt, NoOp
<1>3. ASSUME NEW t \in Threads, NEW k \in Loggers
      PROVE  ~Owned(t, k)
  BY DEF Owned, OpAt, NoOp
<1>4. \A k \in Loggers : Owner(k)
  BY <1>3 DEF Owner
<1>. QED BY <1>1, <1>2, <1>4 DEF LockInv

\* A thread takes a lock that is free or its own; its count is then still that of before.
LEMMA TakeLockStep ==
  ASSUME LockInv, NEW t \in Threads, TakeLock(t) PROVE LockInv'
<1>. DEFINE h == op[t].held  k0 == Locks(t)[op[t].held + 1]  o == [op[t] EXCEPT !.pc = "count"]
<1>. USE Constants
<1>1. op[t].pc = "lock" /\ op[t] # NoOp /\ h < Len(Locks(t))
  BY DEF LockInv, Progress, TakeLock, OpAt, NoOp
<1>2. /\ op[t] \in Calls /\ h \in 0..1 /\ Len(Locks(t)) \in 0..2 /\ k0 \in Loggers
  BY <1>1, InCall
<1>3. /\ thread_id[k0] \in {NoThread, t}
      /\ thread_id' = [thread_id EXCEPT ![k0] = t]
      /\ count' = count /\ log' = log
      /\ op' = [op EXCEPT ![t] = o]
  BY DEF TakeLock, Lock!TakeLock
<1>4. /\ o \in Calls /\ o.pc = "count" /\ o.held = h
      /\ op'[t] = o /\ Locks(t)' = Locks(t)
  BY <1>1, <1>2, <1>3 DEF LockInv, RefType, Locks, Calls, Pcs
<1>5. RefType'
  BY <1>2, <1>3, <1>4 DEF LockInv, RefType
<1>6. Progress(t)'
  BY <1>1, <1>2, <1>4 DEF Progress, OpAt
<1>7. ASSUME NEW k \in Loggers PROVE Keeps(t, k) \/ Takes(t, k)
  <2>1. /\ Owned(t, k)' <=> (Owned(t, k) \/ k = k0)
        /\ Times(t, k)' = Times(t, k)
    BY <1>1, <1>2, <1>4 DEF Owned, Times, Counted, OpAt
  <2>2. Owner(k)
    BY DEF LockInv
  <2>3. CASE k = k0
    <3>1. ~Owned(t, k) => Times(t, k) = 0
      BY DEF Times, Counted, Owned
    <3>2. count[k] = Times(t, k)
      BY <1>3, <2>2, <2>3, <3>1 DEF Owner
    <3>. QED BY <1>3, <1>2, <2>1, <2>3, <3>2 DEF Takes, LockInv, RefType
  <2>4. CASE k # k0
    BY <1>3, <1>2, <2>1, <2>2, <2>4 DEF Keeps, Owner, LockInv, RefType
  <2>. QED BY <2>3, <2>4
<1>. QED BY <1>3, <1>5, <1>6, <1>7, LockChange

\* lock(): the lock that has been taken is counted.
LEMMA CountUpStep ==
  ASSUME LockInv, NEW t \in Threads, CountUp(t) PROVE LockInv'
<1>. DEFINE h == op[t].held  k0 == Locks(t)[op[t].held + 1]
            o == [op[t] EXCEPT !.held = @ + 1,
                               !.pc = IF h + 1 = Len(Locks(t)) THEN "read" ELSE "lock"]
<1>. USE Constants
<1>1. op[t].pc = "count" /\ op[t] # NoOp /\ h < Len(Locks(t))
  BY DEF LockInv, Progress, CountUp, OpAt, NoOp
<1>2. /\ op[t] \in Calls /\ h \in 0..1 /\ Len(Locks(t)) \in 0..2 /\ k0 \in Loggers
  BY <1>1, InCall
<1>3. /\ thread_id' = thread_id
      /\ count' = [count EXCEPT ![k0] = @ + 1] /\ log' = log
      /\ op' = [op EXCEPT ![t] = o]
  <2>1. op' = [op EXCEPT ![t].held = @ + 1,
                         ![t].pc = IF h + 1 = Len(Locks(t)) THEN "read" ELSE "lock"]
    BY DEF CountUp
  <2>2. op' = [op EXCEPT ![t] = o]
    BY <2>1, <1>2 DEF LockInv, RefType
  <2>. QED BY <2>2 DEF CountUp, Lock!CountUp
<1>4. /\ o \in Calls /\ o.pc \in {"read", "lock"} /\ o.held = h + 1
      /\ o.pc = "lock" => h + 1 < Len(Locks(t))
      /\ o.pc = "read" => h + 1 = Len(Locks(t))
      /\ op'[t] = o /\ Locks(t)' = Locks(t)
  <2>1. o \in Calls /\ o.held = h + 1 /\ o.pc = IF h + 1 = Len(Locks(t)) THEN "read" ELSE "lock"
    <3>1. h + 1 \in 0..2 /\ (IF h + 1 = Len(Locks(t)) THEN "read" ELSE "lock") \in Pcs
      BY <1>2 DEF Pcs
    <3>. QED BY <1>2, <3>1 DEF Calls
  <2>2. op'[t] = o
    BY <1>3 DEF LockInv, RefType
  <2>3. Locks(t)' = Locks(t)
    BY <2>2, <1>2 DEF Locks, Calls
  <2>. QED BY <2>1, <2>2, <2>3, <1>1, <1>2
<1>5. RefType'
  BY <1>2, <1>3, <1>4 DEF LockInv, RefType
<1>6. Progress(t)'
  BY <1>1, <1>2, <1>4 DEF Progress, OpAt
<1>7. ASSUME NEW k \in Loggers PROVE Keeps(t, k)
  <2>1. /\ Owned(t, k)' <=> Owned(t, k)
        /\ Times(t, k)' = IF k = k0 THEN Times(t, k) + 1 ELSE Times(t, k)
    BY <1>1, <1>2, <1>4 DEF Owned, Times, Counted, OpAt
  <2>2. Owner(k) /\ Owner(k0) /\ Owned(t, k0)
    <3>1. h + 1 \in 1..2 /\ Locks(t)[h + 1] = k0
      BY <1>2
    <3>2. Owned(t, k0)
      BY <1>1, <3>1 DEF Owned, OpAt
    <3>. QED BY <1>2, <3>2 DEF LockInv
  <2>3. count'[k] = IF k = k0 THEN count[k] + 1 ELSE count[k]
    BY <1>3, <1>2 DEF LockInv, RefType
  <2>. QED BY <1>3, <2>1, <2>2, <2>3 DEF Keeps, Owner
<1>. QED BY <1>3, <1>5, <1>6, <1>7, LockChange

\* unlock(): the last lock of the call is counted down.
LEMMA CountDownStep ==
  ASSUME LockInv, NEW t \in Threads, CountDown(t) PROVE LockInv'
<1>. DEFINE h == op[t].held  k0 == Locks(t)[op[t].held]
            o == IF count[k0] = 1 THEN [op[t] EXCEPT !.pc = "release"]
                                  ELSE [op[t] EXCEPT !.held = @ - 1]
<1>. USE Constants
<1>1. op[t].pc = "uncount" /\ op[t] # NoOp /\ h >= 1
  BY DEF LockInv, Progress, CountDown, OpAt, NoOp
<1>2. /\ op[t] \in Calls /\ h \in 1..2 /\ h <= Len(Locks(t)) /\ Len(Locks(t)) \in 0..2
      /\ k0 \in Loggers
  BY <1>1, InCall
<1>3. /\ thread_id' = thread_id
      /\ count' = [count EXCEPT ![k0] = @ - 1] /\ log' = log
      /\ op' = [op EXCEPT ![t] = o]
  BY DEF CountDown, Lock!CountDown
<1>4. Owner(k0) /\ thread_id[k0] = t /\ count[k0] = Times(t, k0) /\ Counted(t, h, k0)
  <2>1. Owner(k0)
    BY <1>2 DEF LockInv
  <2>2. h \in 1..2 /\ Locks(t)[h] = k0 /\ h <= op[t].held
    BY <1>2
  <2>3. Owned(t, k0) /\ Counted(t, h, k0)
    BY <1>1, <2>2 DEF Owned, Counted, OpAt
  <2>. QED BY <2>1, <2>3 DEF Owner
<1>5. IF count[k0] = 1 THEN h = 2 => Locks(t)[1] # Locks(t)[2]
                       ELSE h = 2 /\ Locks(t)[1] = Locks(t)[2] /\ count[k0] = 2
  BY <1>1, <1>2, <1>4 DEF Times, Counted, OpAt
<1>6. /\ o \in Calls
      /\ count[k0] = 1 => o.pc = "release" /\ o.held = h
      /\ count[k0] # 1 => o.pc = "uncount" /\ o.held = 1
      /\ op'[t] = o /\ Locks(t)' = Locks(t)
  <2>1. o \in Calls /\ o.kind = op[t].kind /\ o.x = op[t].x /\ o.y = op[t].y
    BY <1>1, <1>2, <1>5 DEF Calls, Pcs
  <2>2. op'[t] = o
    BY <1>3 DEF LockInv, RefType
  <2>. QED BY <1>1, <1>2, <1>5, <2>1, <2>2 DEF Locks, Calls
<1>7. RefType'
  <2>1. count[k0] - 1 \in Nat
    BY <1>5
  <2>. QED BY <1>2, <1>3, <1>6, <2>1 DEF LockInv, RefType
<1>8. Progress(t)'
  <2>1. CASE count[k0] = 1
    BY <1>2, <1>5, <1>6, <2>1 DEF Progress, OpAt
  <2>2. CASE count[k0] # 1
    BY <1>2, <1>5, <1>6, <2>2 DEF Progress, OpAt
  <2>. QED BY <2>1, <2>2
<1>9. ASSUME NEW k \in Loggers PROVE Keeps(t, k)
  <2>1. Owned(t, k)' <=> Owned(t, k)
    BY <1>1, <1>2, <1>5, <1>6 DEF Owned, OpAt
  <2>2. Times(t, k)' = IF k = k0 THEN Times(t, k) - 1 ELSE Times(t, k)
    BY <1>1, <1>2, <1>5, <1>6 DEF Times, Counted, OpAt
  <2>3. count'[k] = IF k = k0 THEN count[k] - 1 ELSE count[k]
    BY <1>3, <1>2 DEF LockInv, RefType
  <2>4. Owner(k)
    BY DEF LockInv
  <2>. QED BY <1>3, <1>4, <2>1, <2>2, <2>3, <2>4 DEF Keeps, Owner
<1>. QED BY <1>3, <1>7, <1>8, <1>9, LockChange

\* A lock whose count has come down to zero is given up.
LEMMA GiveUpLockStep ==
  ASSUME LockInv, NEW t \in Threads, GiveUpLock(t) PROVE LockInv'
<1>. DEFINE h == op[t].held  k0 == Locks(t)[op[t].held]
            o == IF h = 1 THEN NoOp ELSE [op[t] EXCEPT !.held = @ - 1, !.pc = "uncount"]
<1>. USE Constants
<1>1. op[t].pc = "release" /\ op[t] # NoOp /\ h >= 1 /\ (h = 2 => Locks(t)[1] # Locks(t)[2])
  BY DEF LockInv, Progress, GiveUpLock, OpAt, NoOp
<1>2. /\ op[t] \in Calls /\ h \in 1..2 /\ h <= Len(Locks(t)) /\ Len(Locks(t)) \in 0..2
      /\ k0 \in Loggers
  BY <1>1, InCall
<1>3. /\ thread_id' = [thread_id EXCEPT ![k0] = NoThread]
      /\ count' = count /\ log' = log
      /\ op' = [op EXCEPT ![t] = o]
  BY DEF GiveUpLock, Lock!GiveUpLock
<1>4. op'[t] = o
  BY <1>3 DEF LockInv, RefType
<1>5. h # 1 => o \in Calls /\ o.pc = "uncount" /\ o.held = 1 /\ Locks(t)' = Locks(t)
  <2>1. SUFFICES ASSUME h = 2
                PROVE  o \in Calls /\ o.pc = "uncount" /\ o.held = 1 /\ Locks(t)' = Locks(t)
    BY <1>2
  <2>2. o \in Calls /\ o.pc = "uncount" /\ o.held = 1 /\ o.kind = op[t].kind
        /\ o.x = op[t].x /\ o.y = op[t].y
    <3>1. o = [op[t] EXCEPT !.held = op[t].held - 1, !.pc = "uncount"]
      BY <2>1
    <3>2. op[t].held - 1 \in 0..2 /\ op[t].held - 1 = 1 /\ "uncount" \in Pcs
      BY <2>1 DEF Pcs
    <3>. HIDE DEF o
    <3>. QED BY <1>2, <3>1, <3>2 DEF Calls
  <2>. QED BY <1>4, <2>2 DEF Locks
<1>6. RefType'
  BY <1>2, <1>3, <1>5 DEF LockInv, RefType
<1>7. Progress(t)'
  BY <1>1, <1>2, <1>4, <1>5 DEF Progress, OpAt, NoOp
<1>8. ASSUME NEW k \in Loggers PROVE Keeps(t, k) \/ Yields(t, k)
  <2>1. Owner(k)
    BY DEF LockInv
  <2>2. CASE k = k0
    <3>1. thread_id[k] = t /\ count[k] = 0
      BY <1>1, <1>2, <2>1, <2>2 DEF Owner, Owned, Times, Counted, OpAt
    <3>2. ~Owned(t, k)'
      BY <1>1, <1>2, <1>4, <1>5, <2>2 DEF Owned, OpAt, NoOp
    <3>. QED BY <1>2, <1>3, <2>2, <3>1, <3>2 DEF Yields, LockInv, RefType
  <2>3. CASE k # k0
    <3>1. (Owned(t, k)' <=> Owned(t, k)) /\ Times(t, k)' = Times(t, k)
      BY <1>1, <1>2, <1>4, <1>5, <2>3 DEF Owned, Times, Counted, OpAt, NoOp
    <3>. QED BY <1>2, <1>3, <2>1, <2>3, <3>1 DEF Keeps, Owner, LockInv, RefType
  <2>. QED BY <2>2, <2>3
<1>. QED BY <1>3, <1>6, <1>7, <1>8, LockChange

-----------------------------------------------------------------------------
\* A step of a call that touches no lock.
LEMMA OtherStep ==
  ASSUME LockInv, NEW t \in Threads, NEW o, op' = [op EXCEPT ![t] = o], RefType', Progress(t)',
         UNCHANGED <<thread_id, count>>,
         o.held = op[t].held, o.held = 0 \/ Locks(t)' = Locks(t),
         op[t].pc \notin {"count", "release"}, o.pc \notin {"count", "release"},
         op[t].held \in 0..2
  PROVE  LockInv'
<1>1. op'[t] = o
  BY DEF LockInv, RefType
<1>2. ASSUME NEW k \in Loggers PROVE Keeps(t, k)
  <2>1. (Owned(t, k)' <=> Owned(t, k)) /\ Times(t, k)' = Times(t, k)
    BY <1>1 DEF Owned, Times, Counted, OpAt
  <2>. QED BY <2>1 DEF Keeps, Owner, LockInv
<1>. QED BY <1>2, LockChange

\* A step that only changes where loggers refer to, or nothing here.
LEMMA LogOnlyStep ==
  ASSUME LockInv, UNCHANGED <<thread_id, count, op>>, RefType'
  PROVE  LockInv'
<1>1. \A t \in Threads : Progress(t)'
  BY DEF LockInv, Progress, OpAt, Locks
<1>2. ASSUME NEW k \in Loggers PROVE Owner(k)'
  <2>1. Owner(k)
    BY DEF LockInv
  <2>2. ASSUME NEW t \in Threads PROVE Owned(t, k)' = Owned(t, k) /\ Times(t, k)' = Times(t, k)
    BY DEF Owned, Times, Counted, OpAt, Locks
  <2>. QED BY <2>1, <2>2 DEF Owner
<1>. QED BY <1>1, <1>2 DEF LockInv

\* The end of the reference work: the call has its locks still, or never had one.
LEMMA ContinueStep ==
  ASSUME LockInv, NEW t \in Threads, Continue(t), UNCHANGED <<thread_id, count>>,
         op[t].pc \in {"store", "drop", "destroy"}, log' \in [Loggers -> Inners \cup {None}]
  PROVE  LockInv'
<1>. DEFINE o == IF op[t].held = 0 THEN NoOp ELSE [op[t] EXCEPT !.pc = "uncount"]
<1>1. op[t] # NoOp /\ op[t] \in Calls /\ op[t].held \in 0..2 /\ op[t].held <= Len(Locks(t))
  BY InCall DEF NoOp
<1>2. op' = [op EXCEPT ![t] = o]
  BY DEF Continue
<1>3. op'[t] = o
  BY <1>2 DEF LockInv, RefType
<1>4. CASE op[t].held = 0
  <2>1. o = NoOp
    BY <1>4
  <2>2. RefType'
    BY <1>2, <2>1 DEF LockInv, RefType
  <2>3. Progress(t)'
    BY <1>3, <2>1 DEF Progress, OpAt, NoOp
  <2>. QED BY <1>1, <1>2, <1>4, <2>1, <2>2, <2>3, OtherStep DEF NoOp
<1>5. CASE op[t].held # 0
  <2>1. o \in Calls /\ o.pc = "uncount" /\ o.held = op[t].held
        /\ o.kind = op[t].kind /\ o.x = op[t].x /\ o.y = op[t].y
    BY <1>1, <1>5 DEF Calls, Pcs
  <2>2. Locks(t)' = Locks(t)
    BY <1>3, <2>1 DEF Locks
  <2>3. RefType'
    BY <1>2, <2>1 DEF LockInv, RefType
  <2>4. Progress(t)'
    BY <1>1, <1>3, <1>5, <2>1, <2>2 DEF Progress, OpAt, NoOp
  <2>. QED BY <1>1, <1>2, <2>1, <2>2, <2>3, <2>4, OtherStep
<1>. QED BY <1>4, <1>5

\* Another place of the same call, with the locks it has.
LEMMA MoveOn ==
  ASSUME LockInv, NEW t \in Threads, UNCHANGED <<thread_id, count>>,
         log' \in [Loggers -> Inners \cup {None}],
         NEW pc \in {"store", "drop", "destroy", "uncount"}, NEW other \in Inners \cup {None},
         op[t].pc \in {"read", "store", "drop"},
         pc = "store" => op[t].pc = "read",
         pc = "uncount" => op[t].held >= 1,
         op' = [op EXCEPT ![t] = [op[t] EXCEPT !.pc = pc, !.other = other]]
  PROVE  LockInv'
<1>. DEFINE o == [op[t] EXCEPT !.pc = pc, !.other = other]
<1>1. op[t] # NoOp /\ op[t] \in Calls /\ op[t].held \in 0..2 /\ op[t].held <= Len(Locks(t))
  BY InCall DEF NoOp
<1>2. o \in Calls /\ o.pc = pc /\ o.held = op[t].held
      /\ o.kind = op[t].kind /\ o.x = op[t].x /\ o.y = op[t].y
  BY <1>1 DEF Calls, Pcs
<1>3. op'[t] = o
  BY DEF LockInv, RefType
<1>4. Locks(t)' = Locks(t)
  BY <1>2, <1>3 DEF Locks
<1>5. RefType'
  BY <1>2 DEF LockInv, RefType
<1>6. op[t].pc = "read" => op[t].held = Len(Locks(t))
  BY DEF LockInv, Progress
<1>7. Progress(t)'
  BY <1>1, <1>2, <1>3, <1>4, <1>6 DEF Progress, OpAt, NoOp
<1>. QED BY <1>1, <1>2, <1>4, <1>5, <1>7, OtherStep

\* The pointer of that, or of the first logger, is read.
LEMMA ReadLogStep ==
  ASSUME LockInv, NEW t \in Threads, ReadLog(t) PROVE LockInv'
<1>1. op[t].pc = "read" /\ op[t] # NoOp
  BY DEF ReadLog, OpAt, NoOp
<1>2. op[t] \in Calls
  BY <1>1, InCall
<1>3. op[t].x \in Loggers /\ op[t].y \in Loggers
      /\ Lower(op[t].x, op[t].y) \in Loggers /\ Upper(op[t].x, op[t].y) \in Loggers
  BY <1>2 DEF Calls, Lower, Upper
<1>4. PICK l \in Loggers : op' = [op EXCEPT ![t].pc = "store", ![t].other = log[l]]
  BY <1>3 DEF ReadLog
<1>5. log[l] \in Inners \cup {None} /\ log' \in [Loggers -> Inners \cup {None}]
  BY <1>3 DEF ReadLog, LockInv, RefType
<1>6. op' = [op EXCEPT ![t] = [op[t] EXCEPT !.pc = "store", !.other = log[l]]]
  BY <1>2, <1>4 DEF LockInv, RefType
<1>7. UNCHANGED <<thread_id, count>>
  BY DEF ReadLog
<1>. QED BY <1>1, <1>5, <1>6, <1>7, MoveOn

\* The pointer of *this, or of the second logger, is overwritten.
LEMMA StoreLogStep ==
  ASSUME LockInv, NEW t \in Threads, StoreLog(t) PROVE LockInv'
<1>1. op[t].pc = "store" /\ op[t] # NoOp
  BY DEF StoreLog, OpAt, NoOp
<1>2. op[t] \in Calls /\ op[t].other \in Inners \cup {None}
  BY <1>1, InCall DEF Calls
<1>3. op[t].x \in Loggers /\ op[t].y \in Loggers /\ op[t].kind \in Kinds
      /\ Lower(op[t].x, op[t].y) \in Loggers /\ Upper(op[t].x, op[t].y) \in Loggers
  BY <1>2 DEF Calls, Lower, Upper
<1>4. log' \in [Loggers -> Inners \cup {None}] /\ UNCHANGED <<thread_id, count>>
  <2>1. CASE op[t].kind = "swap"
    BY <1>2, <1>3, <2>1 DEF StoreLog, LockInv, RefType
  <2>2. CASE op[t].kind # "swap"
    BY <1>2, <1>3, <2>2 DEF StoreLog, LockInv, RefType
  <2>. QED BY <2>1, <2>2
<1>5. CASE op[t].kind = "swap"
  <2>1. op' = [op EXCEPT ![t] = [op[t] EXCEPT !.pc = "uncount", !.other = op[t].other]]
    BY <1>2, <1>5 DEF StoreLog, LockInv, RefType, Calls
  <2>2. op[t].held >= 1
    <3>1. op[t].held = Len(Locks(t))
      BY <1>1 DEF LockInv, Progress
    <3>2. Len(Locks(t)) >= 1
      BY <1>3, <1>5, LocksOfType DEF Locks
    <3>. QED BY <3>1, <3>2
  <2>. QED BY <1>1, <1>2, <1>4, <2>1, <2>2, MoveOn
<1>6. CASE op[t].kind # "swap" /\ log[op[t].x] \in {None, op[t].other}
  <2>1. Continue(t)
    BY <1>6 DEF StoreLog
  <2>. QED BY <1>1, <1>4, <2>1, ContinueStep
<1>7. CASE op[t].kind # "swap" /\ log[op[t].x] \notin {None, op[t].other}
  <2>1. op' = [op EXCEPT ![t].pc = "drop", ![t].other = log[op[t].x]]
    BY <1>7 DEF StoreLog
  <2>2. op' = [op EXCEPT ![t] = [op[t] EXCEPT !.pc = "drop", !.other = log[op[t].x]]]
    BY <1>2, <2>1 DEF LockInv, RefType
  <2>3. log[op[t].x] \in Inners \cup {None}
    BY <1>3 DEF LockInv, RefType
  <2>. QED BY <1>1, <1>4, <2>2, <2>3, MoveOn
<1>. QED BY <1>5, <1>6, <1>7

\* The reference to what *this referred to is given back.
LEMMA DropReferenceStep ==
  ASSUME LockInv, NEW t \in Threads, DropReference(t) PROVE LockInv'
<1>1. op[t].pc = "drop" /\ op[t] # NoOp
  BY DEF DropReference, OpAt, NoOp
<1>2. op[t] \in Calls /\ op[t].other \in Inners \cup {None}
  BY <1>1, InCall DEF Calls
<1>3. log' \in [Loggers -> Inners \cup {None}] /\ UNCHANGED <<thread_id, count>>
  BY DEF DropReference, LockInv, RefType
<1>4. CASE op' = [op EXCEPT ![t].pc = "destroy"]
  <2>1. op' = [op EXCEPT ![t] = [op[t] EXCEPT !.pc = "destroy", !.other = op[t].other]]
    BY <1>2, <1>4 DEF LockInv, RefType, Calls
  <2>. QED BY <1>1, <1>2, <1>3, <2>1, MoveOn
<1>5. CASE Continue(t)
  BY <1>1, <1>3, <1>5, ContinueStep
<1>. QED BY <1>4, <1>5 DEF DropReference

\* The last reference is gone.
LEMMA DestroyInnerStep ==
  ASSUME LockInv, NEW t \in Threads, DestroyInner(t) PROVE LockInv'
<1>1. op[t].pc = "destroy" /\ Continue(t) /\ UNCHANGED <<thread_id, count, log>>
  BY DEF DestroyInner, OpAt
<1>. QED BY <1>1, ContinueStep DEF LockInv, RefType

\* A call begins, without a lock.
LEMMA BeginStep ==
  ASSUME LockInv, NEW t \in Threads, NEW kind \in Kinds, NEW x \in Loggers, NEW y \in Loggers,
         NEW pc, op[t] = NoOp, UNCHANGED <<thread_id, count, log>>,
         \/ kind = "log" /\ pc = "log"
         \/ kind # "log" /\ pc = (IF kind = "destroy" THEN "store" ELSE "lock"),
         op' = [op EXCEPT ![t] = [pc |-> pc, kind |-> kind, x |-> x, y |-> y,
                                  held |-> 0, other |-> None]]
  PROVE  LockInv'
<1>. DEFINE o == [pc |-> pc, kind |-> kind, x |-> x, y |-> y, held |-> 0, other |-> None]
<1>1. pc \in {"log", "store", "lock"}
  OBVIOUS
<1>2. o \in Calls
  BY <1>1 DEF Calls, Pcs
<1>3. op'[t] = o
  BY DEF LockInv, RefType
<1>4. RefType'
  BY <1>2 DEF LockInv, RefType
<1>5. Locks(t)' = LocksOf(kind, x, y)
  BY <1>3 DEF Locks
<1>6. /\ op'[t] \in Calls /\ op'[t].held = 0 /\ op'[t].pc = pc
      /\ Len(Locks(t))' \in 0..2 /\ (kind = "destroy" => Len(Locks(t))' = 0)
      /\ kind # "destroy" => Len(Locks(t))' >= 1
  <2>1. o.held = 0 /\ o.pc = pc
    OBVIOUS
  <2>. HIDE DEF o
  <2>. QED BY <1>2, <1>3, <1>5, <2>1, LocksOfType
<1>7. Progress(t)'
  BY <1>1, <1>6 DEF Progress, OpAt
<1>8. op[t].held = 0 /\ op[t].pc = "none" /\ o.held = 0 /\ o.pc = pc
  BY DEF NoOp
<1>9. op' = [op EXCEPT ![t] = o] /\ pc \notin {"count", "release"} /\ op[t].held \in 0..2
  BY <1>1, <1>8
<1>. HIDE DEF o
<1>. QED BY <1>4, <1>7, <1>8, <1>9, OtherStep

\* Between two calls a thread has no lock, and a logging call takes none.
LEMMA LogStepStep ==
  ASSUME LockInv, NEW t \in Threads, LogStep(t) PROVE LockInv'
<1>1. op[t].pc = "log" /\ op[t].held = 0
  BY DEF LogStep, OpAt, LockInv, Progress
<1>2. CASE op' = [op EXCEPT ![t] = NoOp]
  <2>1. op'[t] = NoOp
    BY <1>2 DEF LockInv, RefType
  <2>2. RefType'
    BY <1>2 DEF LogStep, LockInv, RefType
  <2>3. Progress(t)'
    BY <2>1 DEF Progress, OpAt, NoOp
  <2>4. NoOp.held = 0 /\ NoOp.pc = "none" /\ UNCHANGED <<thread_id, count>>
    BY DEF NoOp, LogStep
  <2>5. NoOp.held = op[t].held /\ NoOp.pc \notin {"count", "release"} /\ op[t].held \in 0..2
        /\ op[t].pc \notin {"count", "release"}
    BY <1>1, <2>4
  <2>. QED BY <1>2, <2>2, <2>3, <2>4, <2>5, OtherStep
<1>3. CASE op' = op
  BY <1>3, LogOnlyStep DEF LogStep, LockInv, RefType
<1>. QED BY <1>2, <1>3 DEF LogStep

-----------------------------------------------------------------------------
\* Every step keeps the invariant.
LEMMA LockInvStep == LockInv /\ [Next]_vars => LockInv'
<1>. SUFFICES ASSUME LockInv, [Next]_vars PROVE LockInv'
  OBVIOUS
<1>1. ASSUME UNCHANGED <<thread_id, count, op, log>> PROVE LockInv'
  BY <1>1, LogOnlyStep DEF LockInv, RefType
<1>2. ASSUME NEW t \in Threads, RefStep(t) PROVE LockInv'
  BY <1>2, TakeLockStep, CountUpStep, ReadLogStep, StoreLogStep, DropReferenceStep,
     DestroyInnerStep, CountDownStep, GiveUpLockStep DEF RefStep
<1>3. ASSUME NEW t \in Threads, UseDestroyed(t) PROVE LockInv'
  BY <1>1, <1>3 DEF UseDestroyed, refVars
<1>4. ASSUME NEW t \in Threads, NEW x \in Loggers, DefaultConstruct(t, x) PROVE LockInv'
  <2>1. log' \in [Loggers -> Inners \cup {None}]
    BY <1>4, FileAssumption DEF DefaultConstruct, LockInv, RefType
  <2>. QED BY <1>4, <2>1, LogOnlyStep DEF DefaultConstruct, LockInv, RefType
<1>5. ASSUME NEW t \in Threads, NEW x \in Loggers, NEW form, BeginLog(t, x, form) PROVE LockInv'
  BY <1>5, BeginStep DEF BeginLog, Idle, Kinds
<1>6. ASSUME NEW t \in Threads, NEW x \in Loggers, NEW y \in Loggers,
             NEW kind \in Kinds \ {"log"}, Begin(t, kind, x, y)
      PROVE  LockInv'
  BY <1>6, BeginStep DEF Begin, Idle
<1>7. ASSUME NEW t \in Threads, Step(t) PROVE LockInv'
  BY <1>2, <1>3, <1>7, LogStepStep DEF Step
<1>8. ASSUME NEW t \in Threads, Call(t) PROVE LockInv'
  BY <1>4, <1>5, <1>6, <1>8 DEF Call
<1>9. CASE Time \/ UNCHANGED vars
  BY <1>1, <1>9 DEF Time, vars, refVars
<1>. QED BY <1>7, <1>8, <1>9 DEF Next

\* What a thread holds has as many members as its count.
LEMMA HoldsTimes ==
  ASSUME NEW t \in Threads, NEW k \in Loggers, op[t].held \in 0..2
  PROVE  /\ Cardinality(Holds(t, k)) = Times(t, k)
         /\ Holds(t, k) # {} => Owned(t, k)
<1>1. Holds(t, k) = {n \in {1, 2} : Counted(t, n, k)}
  BY DEF Holds, Counted
<1>2. /\ Cardinality({}) = 0 /\ IsFiniteSet({1})
      /\ Cardinality({1}) = 1 /\ Cardinality({2}) = 1
  BY FS_EmptySet, FS_Singleton
<1>3. Cardinality(1..2) = 2
  <2>1. 1 \in Int /\ 2 \in Int
    OBVIOUS
  <2>2. Cardinality(1..2) = IF 1 > 2 THEN 0 ELSE 2 - 1 + 1
    BY <2>1, FS_Interval, Zenon
  <2>. QED BY <2>2
<1>4. CASE Counted(t, 1, k) /\ Counted(t, 2, k)
  <2>1. Holds(t, k) = 1..2
    BY <1>1, <1>4
  <2>. QED BY <1>3, <1>4, <2>1 DEF Times, Counted, Owned
<1>5. CASE Counted(t, 1, k) /\ ~Counted(t, 2, k)
  <2>1. Holds(t, k) = {1}
    BY <1>1, <1>5
  <2>. QED BY <1>2, <1>5, <2>1 DEF Times, Counted, Owned
<1>6. CASE ~Counted(t, 1, k) /\ Counted(t, 2, k)
  <2>1. Holds(t, k) = {2}
    BY <1>1, <1>6
  <2>. QED BY <1>2, <1>6, <2>1 DEF Times, Counted, Owned
<1>7. CASE ~Counted(t, 1, k) /\ ~Counted(t, 2, k)
  <2>1. Holds(t, k) = {}
    BY <1>1, <1>7
  <2>. QED BY <1>2, <1>7, <2>1 DEF Times
<1>. QED BY <1>4, <1>5, <1>6, <1>7

\* The invariant says of the locks what LocksHeld does.
LEMMA LockInvHeld == LockInv => LocksHeld
<1>. SUFFICES ASSUME LockInv, NEW t \in Threads, NEW k \in Loggers
              PROVE  /\ Holds(t, k) # {} => thread_id[k] = t /\ count[k] = Cardinality(Holds(t, k))
                     /\ thread_id[k] = t /\ Holds(t, k) = {} => op[t].pc \in {"count", "release"}
  BY DEF LocksHeld
<1>1. op[t].held \in 0..2
  BY DEF LockInv, Progress, Calls, NoOp
<1>2. Owner(k) /\ Cardinality(Holds(t, k)) = Times(t, k) /\ (Holds(t, k) # {} => Owned(t, k))
  BY <1>1, HoldsTimes DEF LockInv
<1>3. Owned(t, k) /\ Holds(t, k) = {} => op[t].pc \in {"count", "release"}
  BY <1>1 DEF Owned, Holds, OpAt
<1>. QED BY <1>2, <1>3 DEF Owner

\* A reentrant_spin_lock that a call has counted is the calling thread's, as often as the call
\* has taken it: no two threads read or write the pointer of one logger under its lock
\* (spin_lock.h:86-138), whatever the loggers, the threads and their calls.
THEOREM LocksOwned == Spec => []LocksHeld
<1>. QED BY LockInvInit, LockInvStep, LockInvHeld, PTL DEF Spec

-----------------------------------------------------------------------------
(***************************************************************************)
(* The file of an internal logger.                                         *)
(***************************************************************************)
\* The period of an instant is the first one with the same name.
LEMMA PeriodIs ==
  ASSUME NEW k \in 1..Len(Instants)
  PROVE  /\ Period(k) \in 1..k /\ NameAt(Period(k)) = NameAt(k)
         /\ \A i \in 1..(Period(k) - 1) : NameAt(i) # NameAt(k)
<1>. DEFINE T == {j \in 1..k : NameAt(j) = NameAt(k)}
            R == OpToRel(<, Nat)
<1>1. Len(Instants) \in Nat /\ k \in Nat
  BY FileAssumption
<1>2. k \in T /\ T \in SUBSET Nat
  BY <1>1
<1>3. \E m \in T : \A j \in T : m <= j
  <2>1. IsWellFoundedOn(R, Nat)
    BY NatLessThanWellFounded
  <2>2. \A y \in Nat, x \in Nat : (<<y, x>> \in R) <=> y < x
    BY DEF OpToRel
  <2>. HIDE DEF R, T
  <2>3. PICK m \in T : \A y \in T : ~(<<y, m>> \in R)
    BY <1>2, <2>1, WFMin
  <2>4. \A j \in T : ~(j < m)
    BY <1>2, <2>2, <2>3
  <2>. QED BY <1>2, <2>4
<1>4. PICK m \in T : \A j \in T : m <= j
  BY <1>3
<1>5. /\ m \in 1..k /\ NameAt(m) = NameAt(k)
      /\ \A i \in 1..(m - 1) : NameAt(i) # NameAt(k)
  <2>1. m \in 1..k /\ NameAt(m) = NameAt(k)
    OBVIOUS
  <2>2. ASSUME NEW i \in 1..(m - 1), NameAt(i) = NameAt(k) PROVE FALSE
    <3>1. i \in T
      BY <1>1, <2>1, <2>2
    <3>. QED BY <1>1, <1>4, <2>1, <3>1
  <2>. QED BY <2>1, <2>2
<1>. QED BY <1>5 DEF Period

LineCalls == [pc : {"lock", "time", "compare", "reopen", "enter", "now", "fopen", "publish",
                    "state", "write"},
              inner : Inners, form : {"format", "text"}, stamp : 0..Len(Instants),
              opened : 0..Len(Instants), need : BOOLEAN, missed : BOOLEAN,
              stage : {"first", "retry"}]

\* What is known of a line that is written.
LineFacts == (1..Len(Instants)) \X (1..Len(Instants)) \X BOOLEAN

\* A call that has looked at the clock knows a time that has been.
Stamped(t) ==
  /\ line[t].pc \notin {"none", "lock", "time"} => line[t].stamp \in 1..clock
  /\ line[t].pc \in {"fopen", "publish"} => line[t].opened \in 1..clock

\* Who replaces the file has the mutex, and so has print(level, text) throughout.
Guarded(t) ==
  /\ line[t].pc \in {"now", "fopen", "publish"} => mutex[InnerOf(t)] = t
  /\ line[t].pc \notin {"none", "lock"} /\ line[t].form = "text" => mutex[InnerOf(t)] = t

\* A file that is closed is in the hands of the thread that opens the next.
Rotated(i) ==
  i # Empty /\ fp[i] = Stray =>
    \E t \in Threads : mutex[i] = t /\ line[t].pc \in {"now", "fopen"} /\ InnerOf(t) = i

FileInv ==
  /\ FileTypeOK /\ gone \subseteq Inners
  /\ \A t \in Threads : Stamped(t) /\ Guarded(t)
  /\ \A i \in Inners : Rotated(i)
  /\ \A i \in gone : i # Empty => fp[i] = Null
  /\ crashed = "stray" => \E t \in Threads : line[t] # NoLine /\ InnerOf(t) = Empty

LEMMA InLine ==
  ASSUME FileInv, NEW t \in Threads, line[t].pc # "none"
  PROVE  /\ line[t] \in LineCalls /\ line[t] # NoLine /\ InnerOf(t) \in Inners
         /\ line[t].stamp \in 0..Len(Instants) /\ line[t].form \in {"format", "text"}
<1>1. line[t] \in {NoLine} \cup LineCalls /\ NoLine.pc = "none"
  BY DEF FileInv, FileTypeOK, LineCalls, NoLine
<1>2. line[t] \in LineCalls /\ line[t] # NoLine
  BY <1>1
<1>. QED BY <1>2 DEF LineCalls, InnerOf

\* A step of a call that leaves the file and its mutex alone.
LEMMA QuietLine ==
  ASSUME FileInv, NEW t \in Threads, NEW o \in {NoLine} \cup LineCalls,
         line' = [line EXCEPT ![t] = o], UNCHANGED <<clock, mutex, fp, name_time, gone>>,
         state' \in [Inners -> {"open", "non_associated", "bad_file_descriptor"}],
         lines' \subseteq LineFacts,
         line[t].pc \notin {"now", "fopen", "publish"}, o.pc \notin {"now", "fopen", "publish"},
         o.pc \notin {"none", "lock", "time"} => o.stamp \in 1..clock,
         o.pc \notin {"none", "lock"} /\ o.form = "text" => mutex[o.inner] = t,
         crashed' \in {"no", "null", "stray", "destroyed"},
         crashed' = "stray" => o # NoLine /\ o.inner = Empty
  PROVE  FileInv'
<1>1. line'[t] = o /\ \A s \in Threads \ {t} : line'[s] = line[s]
  BY DEF FileInv, FileTypeOK
<1>2. FileTypeOK'
  BY DEF FileInv, FileTypeOK, LineCalls, LineFacts
<1>3. ASSUME NEW s \in Threads PROVE Stamped(s)' /\ Guarded(s)'
  BY <1>1 DEF FileInv, Stamped, Guarded, InnerOf
<1>4. ASSUME NEW i \in Inners PROVE Rotated(i)'
  BY <1>1 DEF FileInv, Rotated, InnerOf
<1>5. crashed' = "stray" => \E s \in Threads : line'[s] # NoLine /\ line'[s].inner = Empty
  BY <1>1
<1>. QED BY <1>2, <1>3, <1>4, <1>5 DEF FileInv, InnerOf

\* A step of a call that has the mutex, or takes it.
LEMMA GuardedLine ==
  ASSUME FileInv, NEW t \in Threads, NEW o \in {NoLine} \cup LineCalls, NEW i \in Inners,
         line[t].pc # "none", i = InnerOf(t), i \notin gone,
         line' = [line EXCEPT ![t] = o], UNCHANGED <<clock, gone>>,
         NEW m \in {t, NoThread}, mutex[i] \in {t, NoThread}, mutex' = [mutex EXCEPT ![i] = m],
         NEW f \in Null..Stray, fp' = [fp EXCEPT ![i] = f],
         state' \in [Inners -> {"open", "non_associated", "bad_file_descriptor"}],
         name_time' \in [Inners -> 0..Len(Instants)],
         lines' \subseteq LineFacts,
         o # NoLine => o.inner = i,
         o.pc \notin {"none", "lock", "time"} => o.stamp \in 1..clock,
         o.pc \in {"fopen", "publish"} => o.opened \in 1..clock,
         o.pc \in {"now", "fopen", "publish"}
           \/ (o.pc \notin {"none", "lock"} /\ o.form = "text") => m = t,
         f = Stray => o.pc \in {"now", "fopen"}
                      \/ (f = fp[i] /\ line[t].pc \notin {"now", "fopen"}),
         crashed' \in {"no", "null", "stray", "destroyed"},
         crashed' = "stray" => o # NoLine /\ i = Empty
  PROVE  FileInv'
<1>. USE Constants
<1>1. line'[t] = o /\ \A s \in Threads \ {t} : line'[s] = line[s]
  BY DEF FileInv, FileTypeOK
<1>2. mutex'[i] = m /\ fp'[i] = f /\ \A j \in Inners \ {i} : mutex'[j] = mutex[j] /\ fp'[j] = fp[j]
  BY DEF FileInv, FileTypeOK
<1>3. FileTypeOK'
  BY DEF FileInv, FileTypeOK, LineCalls, LineFacts
<1>4. o # NoLine <=> o.pc # "none"
  BY DEF LineCalls, NoLine
<1>5. ASSUME NEW s \in Threads PROVE Stamped(s)'
  BY <1>1 DEF FileInv, Stamped
<1>6. ASSUME NEW s \in Threads PROVE Guarded(s)'
  <2>1. CASE s = t
    BY <1>1, <1>2, <1>4, <2>1 DEF Guarded, InnerOf
  <2>2. CASE s # t
    <3>1. CASE line[s].pc # "none"
      <4>1. InnerOf(s) \in Inners
        BY <3>1, InLine
      <4>. QED BY <1>1, <1>2, <2>2, <4>1 DEF FileInv, Guarded, InnerOf
    <3>2. CASE line[s].pc = "none"
      BY <1>1, <2>2, <3>2 DEF Guarded
    <3>. QED BY <3>1, <3>2
  <2>. QED BY <2>1, <2>2
<1>7. ASSUME NEW j \in Inners PROVE Rotated(j)'
  <2>1. CASE j # i
    <3>1. SUFFICES ASSUME j # Empty, fp'[j] = Stray PROVE Rotated(j)'
      BY DEF Rotated
    <3>2. PICK s \in Threads : mutex[j] = s /\ line[s].pc \in {"now", "fopen"} /\ InnerOf(s) = j
      BY <1>2, <2>1, <3>1 DEF FileInv, Rotated
    <3>3. s # t
      BY <2>1, <3>2
    <3>. QED BY <1>1, <1>2, <2>1, <3>2, <3>3 DEF Rotated, InnerOf
  <2>2. CASE j = i
    <3>1. SUFFICES ASSUME i # Empty, f = Stray
                   PROVE  m = t /\ o.pc \in {"now", "fopen"} /\ o.inner = i
      BY <1>1, <1>2, <2>2 DEF Rotated, InnerOf
    <3>2. o.pc \in {"now", "fopen"}
      <4>1. SUFFICES ASSUME fp[i] = Stray, line[t].pc \notin {"now", "fopen"} PROVE FALSE
        BY <3>1
      <4>. QED BY <3>1, <4>1 DEF FileInv, Rotated
    <3>. QED BY <1>4, <3>2
  <2>. QED BY <2>1, <2>2
<1>8. \A j \in gone' : j # Empty => fp'[j] = Null
  BY <1>2 DEF FileInv
<1>9. crashed' = "stray" => \E s \in Threads : line'[s] # NoLine /\ line'[s].inner = Empty
  BY <1>1
<1>. QED BY <1>3, <1>5, <1>6, <1>7, <1>8, <1>9 DEF FileInv, InnerOf

\* What a step does to a line: it ends, or goes on somewhere else.
LineTo(t, pc, stamp, need, stage) ==
  \E opened \in 0..Len(Instants), missed \in BOOLEAN :
    /\ pc \in {"fopen", "publish"} => opened \in 1..clock
    /\ line' = [line EXCEPT ![t] = [line[t] EXCEPT
         !.pc = pc, !.stamp = stamp, !.opened = opened, !.need = need, !.missed = missed,
         !.stage = stage]]

LEMMA LineSteps ==
  ASSUME FileInv, NEW t \in Threads, line[t].pc # "none"
  PROVE  /\ \A pc : GoTo(t, pc) /\ (pc \in {"fopen", "publish"} => line[t].opened \in 1..clock) =>
              LineTo(t, pc, line[t].stamp, line[t].need, line[t].stage)
         /\ Retries(t) => LineTo(t, "enter", line[t].stamp, TRUE, "retry")
         /\ TakeTime(t) => LineTo(t, "compare", clock, line[t].need, line[t].stage)
         /\ \A need : \A pc \in {"enter", "reopen"}, missed \in BOOLEAN :
              line' = [line EXCEPT ![t].pc = pc, ![t].need = need, ![t].missed = missed] =>
                LineTo(t, pc, line[t].stamp, need, line[t].stage)
         /\ ReadNow(t) => LineTo(t, "fopen", line[t].stamp, line[t].need, line[t].stage)
<1>1. /\ line \in [Threads -> {NoLine} \cup LineCalls] /\ line[t] \in LineCalls
      /\ clock \in 0..Len(Instants) /\ clock \in 1..clock
  BY InLine, Constants DEF FileInv, FileTypeOK, LineCalls
<1>2. line[t].opened \in 0..Len(Instants) /\ line[t].missed \in BOOLEAN
  BY <1>1 DEF LineCalls
<1>3. ASSUME NEW pc, GoTo(t, pc),
             pc \in {"fopen", "publish"} => line[t].opened \in 1..clock
      PROVE  LineTo(t, pc, line[t].stamp, line[t].need, line[t].stage)
  <2>1. line' = [line EXCEPT ![t] = [line[t] EXCEPT
          !.pc = pc, !.stamp = line[t].stamp, !.opened = line[t].opened, !.need = line[t].need,
          !.missed = line[t].missed, !.stage = line[t].stage]]
    BY <1>1, <1>3 DEF GoTo, LineCalls
  <2>. QED BY <1>2, <1>3, <2>1 DEF LineTo
<1>4. ASSUME Retries(t) PROVE LineTo(t, "enter", line[t].stamp, TRUE, "retry")
  <2>1. line' = [line EXCEPT ![t] = [line[t] EXCEPT
          !.pc = "enter", !.stamp = line[t].stamp, !.opened = line[t].opened, !.need = TRUE,
          !.missed = line[t].missed, !.stage = "retry"]]
    BY <1>1, <1>4 DEF Retries, LineCalls
  <2>. QED BY <1>2, <2>1 DEF LineTo
<1>5. ASSUME TakeTime(t) PROVE LineTo(t, "compare", clock, line[t].need, line[t].stage)
  <2>1. line' = [line EXCEPT ![t] = [line[t] EXCEPT
          !.pc = "compare", !.stamp = clock, !.opened = line[t].opened, !.need = line[t].need,
          !.missed = line[t].missed, !.stage = line[t].stage]]
    BY <1>1, <1>5 DEF TakeTime, LineCalls
  <2>. QED BY <1>2, <2>1 DEF LineTo
<1>6. ASSUME NEW pc \in {"enter", "reopen"}, NEW need, NEW missed \in BOOLEAN,
             line' = [line EXCEPT ![t].pc = pc, ![t].need = need, ![t].missed = missed]
      PROVE  LineTo(t, pc, line[t].stamp, need, line[t].stage)
  <2>1. line' = [line EXCEPT ![t] = [line[t] EXCEPT
          !.pc = pc, !.stamp = line[t].stamp, !.opened = line[t].opened, !.need = need,
          !.missed = missed, !.stage = line[t].stage]]
    BY <1>1, <1>6 DEF LineCalls
  <2>. QED BY <1>2, <2>1 DEF LineTo
<1>7. ASSUME ReadNow(t) PROVE LineTo(t, "fopen", line[t].stamp, line[t].need, line[t].stage)
  <2>1. line' = [line EXCEPT ![t] = [line[t] EXCEPT
          !.pc = "fopen", !.stamp = line[t].stamp, !.opened = clock, !.need = line[t].need,
          !.missed = line[t].missed, !.stage = line[t].stage]]
    BY <1>1, <1>7 DEF ReadNow, LineCalls
  <2>. QED BY <1>1, <1>2, <2>1 DEF LineTo
<1>. QED BY <1>3, <1>4, <1>5, <1>6, <1>7

LEMMA QuietTo ==
  ASSUME FileInv, NEW t \in Threads, line[t].pc \notin {"none", "now", "fopen", "publish"},
         NEW pc \in {"compare", "reopen", "enter", "state", "write"},
         NEW stamp \in 1..clock, NEW need \in BOOLEAN, NEW stage \in {"first", "retry"},
         LineTo(t, pc, stamp, need, stage), UNCHANGED <<clock, mutex, fp, name_time, gone>>,
         state' \in [Inners -> {"open", "non_associated", "bad_file_descriptor"}],
         lines' \subseteq LineFacts,
         line[t].form = "text" => mutex[InnerOf(t)] = t, crashed' = "no"
  PROVE  FileInv'
<1>0. PICK opened \in 0..Len(Instants), missed \in BOOLEAN :
        /\ pc \in {"fopen", "publish"} => opened \in 1..clock
        /\ line' = [line EXCEPT ![t] = [line[t] EXCEPT
             !.pc = pc, !.stamp = stamp, !.opened = opened, !.need = need, !.missed = missed,
             !.stage = stage]]
  BY DEF LineTo
<1>. DEFINE o == [line[t] EXCEPT !.pc = pc, !.stamp = stamp, !.opened = opened, !.need = need,
                                !.missed = missed, !.stage = stage]
<1>1. line[t] \in LineCalls /\ stamp \in 0..Len(Instants)
  BY InLine, Constants DEF FileInv, FileTypeOK
<1>2. /\ o \in LineCalls /\ o.inner = InnerOf(t) /\ o.form = line[t].form /\ o.pc = pc
      /\ o.stamp = stamp
  <2>1. o = [line[t] EXCEPT !.pc = pc, !.stamp = stamp, !.opened = opened, !.need = need,
                           !.missed = missed, !.stage = stage]
    OBVIOUS
  <2>2. pc \in {"lock", "time", "compare", "reopen", "enter", "now", "fopen", "publish",
                "state", "write"}
    OBVIOUS
  <2>. HIDE DEF o
  <2>3. /\ o \in LineCalls /\ o # NoLine /\ o.inner = line[t].inner /\ o.form = line[t].form
        /\ o.pc = pc /\ o.stamp = stamp
    BY <1>1, <2>1, <2>2 DEF LineCalls, NoLine
  <2>. QED BY <2>3 DEF InnerOf
<1>3. line' = [line EXCEPT ![t] = o]
  BY <1>0
<1>. HIDE DEF o
<1>. QED BY <1>2, <1>3, QuietLine

\* What thread t does in a critical section leaves m in the mutex and f in fp.
Section(t, m, f) ==
  LET i == InnerOf(t)
  IN /\ i \in Inners /\ m \in {t, NoThread} /\ mutex[i] \in {t, NoThread}
     /\ mutex' = [mutex EXCEPT ![i] = m]
     /\ f \in Null..Stray /\ fp' = [fp EXCEPT ![i] = f]
     /\ state' \in [Inners -> {"open", "non_associated", "bad_file_descriptor"}]
     /\ name_time' \in [Inners -> 0..Len(Instants)]

LEMMA GuardedTo ==
  ASSUME FileInv, NEW t \in Threads, line[t].pc # "none", InnerOf(t) \notin gone,
         NEW pc \in {"time", "now", "fopen", "publish", "state"}, NEW stamp \in 0..Len(Instants),
         pc # "time" => stamp \in 1..clock,
         NEW need \in BOOLEAN, NEW stage \in {"first", "retry"},
         LineTo(t, pc, stamp, need, stage), UNCHANGED <<clock, gone, lines>>,
         NEW m, NEW f, Section(t, m, f),
         pc \in {"now", "fopen", "publish"} \/ line[t].form = "text" => m = t,
         f = Stray => pc \in {"now", "fopen"}
                      \/ (f = fp[InnerOf(t)] /\ line[t].pc \notin {"now", "fopen"}),
         crashed' \in {"no", "null", "stray", "destroyed"},
         crashed' = "stray" => InnerOf(t) = Empty
  PROVE  FileInv'
<1>0. PICK opened \in 0..Len(Instants), missed \in BOOLEAN :
        /\ pc \in {"fopen", "publish"} => opened \in 1..clock
        /\ line' = [line EXCEPT ![t] = [line[t] EXCEPT
             !.pc = pc, !.stamp = stamp, !.opened = opened, !.need = need, !.missed = missed,
             !.stage = stage]]
  BY DEF LineTo
<1>. DEFINE o == [line[t] EXCEPT !.pc = pc, !.stamp = stamp, !.opened = opened, !.need = need,
                                !.missed = missed, !.stage = stage]
            i == InnerOf(t)
<1>1. line[t] \in LineCalls
  BY InLine
<1>2. /\ o \in LineCalls /\ o.inner = i /\ o.form = line[t].form /\ o.pc = pc
      /\ o.stamp = stamp /\ o # NoLine /\ o.opened = opened
  <2>1. o = [line[t] EXCEPT !.pc = pc, !.stamp = stamp, !.opened = opened, !.need = need,
                           !.missed = missed, !.stage = stage]
    OBVIOUS
  <2>2. pc \in {"lock", "time", "compare", "reopen", "enter", "now", "fopen", "publish",
                "state", "write"}
    OBVIOUS
  <2>. HIDE DEF o
  <2>3. /\ o \in LineCalls /\ o # NoLine /\ o.inner = line[t].inner /\ o.form = line[t].form
        /\ o.pc = pc /\ o.stamp = stamp /\ o.opened = opened
    BY <1>1, <2>1, <2>2 DEF LineCalls, NoLine
  <2>. QED BY <2>3 DEF InnerOf
<1>3. line' = [line EXCEPT ![t] = o]
  BY <1>0
<1>4. lines' \subseteq LineFacts
  BY DEF FileInv, FileTypeOK, LineFacts
<1>5. /\ i \in Inners /\ m \in {t, NoThread} /\ mutex[i] \in {t, NoThread}
      /\ mutex' = [mutex EXCEPT ![i] = m]
      /\ f \in Null..Stray /\ fp' = [fp EXCEPT ![i] = f]
      /\ state' \in [Inners -> {"open", "non_associated", "bad_file_descriptor"}]
      /\ name_time' \in [Inners -> 0..Len(Instants)]
  BY DEF Section
<1>6. /\ o.pc \in {"now", "fopen", "publish"}
           \/ (o.pc \notin {"none", "lock"} /\ o.form = "text") => m = t
      /\ f = Stray => o.pc \in {"now", "fopen"} \/ (f = fp[i] /\ line[t].pc \notin {"now", "fopen"})
      /\ o.pc \notin {"none", "lock", "time"} => o.stamp \in 1..clock
      /\ o.pc \in {"fopen", "publish"} => o.opened \in 1..clock
      /\ crashed' = "stray" => o # NoLine /\ i = Empty
  BY <1>0, <1>2
<1>7. i = InnerOf(t) /\ i \notin gone
  OBVIOUS
<1>. HIDE DEF o, i
<1>. QED BY <1>2, <1>3, <1>4, <1>5, <1>6, <1>7, GuardedLine

LEMMA GuardedEnd ==
  ASSUME FileInv, NEW t \in Threads, line[t].pc # "none", InnerOf(t) \notin gone,
         line' = [line EXCEPT ![t] = NoLine], UNCHANGED <<clock, gone>>,
         NEW f, Section(t, NoThread, f),
         lines' \subseteq LineFacts,
         f = Stray => f = fp[InnerOf(t)] /\ line[t].pc \notin {"now", "fopen"},
         crashed' = "no"
  PROVE  FileInv'
<1>. DEFINE i == InnerOf(t)
<1>1. NoLine.pc = "none"
  BY DEF NoLine
<1>2. /\ i \in Inners /\ mutex[i] \in {t, NoThread} /\ mutex' = [mutex EXCEPT ![i] = NoThread]
      /\ f \in Null..Stray /\ fp' = [fp EXCEPT ![i] = f]
      /\ state' \in [Inners -> {"open", "non_associated", "bad_file_descriptor"}]
      /\ name_time' \in [Inners -> 0..Len(Instants)]
  BY DEF Section
<1>3. /\ i = InnerOf(t) /\ i \notin gone
      /\ f = Stray => f = fp[i] /\ line[t].pc \notin {"now", "fopen"}
  OBVIOUS
<1>. HIDE DEF i
<1>. QED BY <1>1, <1>2, <1>3, GuardedLine

\* Returns, for a thread in its critical section.
LEMMA ReturnsFrom ==
  ASSUME FileInv, NEW t \in Threads, line[t].pc # "none", Returns(t),
         mutex[InnerOf(t)] \in {t, NoThread}
  PROVE  /\ line' = [line EXCEPT ![t] = NoLine]
         /\ mutex' = [mutex EXCEPT ![InnerOf(t)] = NoThread]
BY DEF Returns

\* The steps of a logging call that leave the file alone.
LEMMA QuietSteps ==
  ASSUME FileInv, crashed = "no", NEW t \in Threads, UNCHANGED gone,
         TakeTime(t) \/ CompareTime(t) \/ AskReopen(t)
  PROVE  FileInv'
<1>1. line[t].pc \notin {"none", "now", "fopen", "publish", "lock"} /\ crashed' = "no"
  BY DEF TakeTime, CompareTime, AskReopen, At
<1>2. /\ line[t] \in LineCalls /\ line[t].need \in BOOLEAN /\ line[t].stage \in {"first", "retry"}
      /\ line[t].form = "text" => mutex[InnerOf(t)] = t
  BY <1>1, InLine DEF LineCalls, FileInv, Guarded
<1>3. /\ UNCHANGED <<clock, mutex, fp, name_time>>
      /\ state' \in [Inners -> {"open", "non_associated", "bad_file_descriptor"}]
      /\ lines' \subseteq LineFacts
  BY DEF TakeTime, CompareTime, AskReopen, FileInv, FileTypeOK, LineFacts
<1>4. CASE TakeTime(t)
  <2>1. LineTo(t, "compare", clock, line[t].need, line[t].stage)
    BY <1>1, <1>4, LineSteps DEF TakeTime
  <2>2. clock \in 1..clock
    BY Constants DEF FileInv, FileTypeOK
  <2>. QED BY <1>1, <1>2, <1>3, <2>1, <2>2, QuietTo
<1>5. CASE CompareTime(t)
  <2>1. line[t].stamp \in 1..clock
    BY <1>5 DEF CompareTime, At, FileInv, Stamped
  <2>2. PICK need \in NeedRename(InnerOf(t), line[t].stamp) :
          line' = [line EXCEPT ![t].pc = IF line[t].form = "text" THEN "enter" ELSE "reopen",
                               ![t].need = need,
                               ![t].missed = name_time[InnerOf(t)] = 0 /\ Opening(InnerOf(t))]
    BY <1>5 DEF CompareTime
  <2>3. need \in BOOLEAN
    BY DEF NeedRename
  <2>4. PICK pc \in {"enter", "reopen"}, missed \in BOOLEAN :
          line' = [line EXCEPT ![t].pc = pc, ![t].need = need, ![t].missed = missed]
    BY <2>2
  <2>5. LineTo(t, pc, line[t].stamp, need, line[t].stage)
    BY <1>1, <2>4, LineSteps
  <2>. QED BY <1>1, <1>2, <1>3, <2>1, <2>3, <2>5, QuietTo
<1>6. CASE AskReopen(t)
  <2>1. line[t].stamp \in 1..clock
    BY <1>6 DEF AskReopen, At, FileInv, Stamped
  <2>2. PICK pc \in {"enter", "state"} : GoTo(t, pc)
    BY <1>6 DEF AskReopen
  <2>3. LineTo(t, pc, line[t].stamp, line[t].need, line[t].stage)
    BY <1>1, <2>2, LineSteps
  <2>. QED BY <1>1, <1>2, <1>3, <2>1, <2>3, QuietTo
<1>. QED BY <1>4, <1>5, <1>6

\* What a thread may count on in a critical section of its call.
LEMMA InSection ==
  ASSUME FileInv, NEW t \in Threads, line[t].pc # "none"
  PROVE  /\ line[t] \in LineCalls /\ InnerOf(t) \in Inners
         /\ line[t].need \in BOOLEAN /\ line[t].stage \in {"first", "retry"}
         /\ line[t].form \in {"format", "text"} /\ line[t].stamp \in 0..Len(Instants)
         /\ line[t].pc \notin {"lock", "time"} => line[t].stamp \in 1..clock
         /\ line[t].pc \in {"now", "fopen", "publish"} => mutex[InnerOf(t)] = t
         /\ line[t].pc # "lock" /\ line[t].form = "text" => mutex[InnerOf(t)] = t
         /\ mutex[InnerOf(t)] \in Threads \cup {NoThread}
         /\ MayEnter(t) => mutex[InnerOf(t)] \in {t, NoThread}
         /\ fp \in [Inners -> Null..Stray] /\ fp = [fp EXCEPT ![InnerOf(t)] = fp[InnerOf(t)]]
         /\ fp[InnerOf(t)] \in Null..Stray
         /\ state \in [Inners -> {"open", "non_associated", "bad_file_descriptor"}]
         /\ name_time \in [Inners -> 0..Len(Instants)]
         /\ lines \subseteq LineFacts
         /\ clock \in 1..Len(Instants)
<1>1. line[t] \in LineCalls /\ InnerOf(t) \in Inners
  BY InLine
<1>2. /\ line[t].need \in BOOLEAN /\ line[t].stage \in {"first", "retry"}
      /\ line[t].form \in {"format", "text"} /\ line[t].stamp \in 0..Len(Instants)
  BY <1>1 DEF LineCalls
<1>3. /\ line[t].pc \notin {"lock", "time"} => line[t].stamp \in 1..clock
      /\ line[t].pc \in {"now", "fopen", "publish"} => mutex[InnerOf(t)] = t
      /\ line[t].pc # "lock" /\ line[t].form = "text" => mutex[InnerOf(t)] = t
  BY DEF FileInv, Stamped, Guarded
<1>4. MayEnter(t) => mutex[InnerOf(t)] \in {t, NoThread}
  BY DEF MayEnter
<1>. QED BY <1>1, <1>2, <1>3, <1>4 DEF FileInv, FileTypeOK, LineFacts

\* print(level, text) takes the mutex.
LEMMA LockForTextStep ==
  ASSUME FileInv, crashed = "no", NEW t \in Threads, UNCHANGED gone, InnerOf(t) \notin gone,
         LockForText(t)
  PROVE  FileInv'
<1>1. /\ line[t].pc = "lock" /\ mutex[InnerOf(t)] = NoThread
      /\ mutex' = [mutex EXCEPT ![InnerOf(t)] = t] /\ GoTo(t, "time")
      /\ UNCHANGED <<clock, state, fp, name_time, lines, crashed>>
  BY DEF LockForText, At
<1>2. LineTo(t, "time", line[t].stamp, line[t].need, line[t].stage)
  BY <1>1, LineSteps
<1>3. Section(t, t, fp[InnerOf(t)])
  BY <1>1, InSection DEF Section
<1>4. /\ line[t].stamp \in 0..Len(Instants) /\ line[t].need \in BOOLEAN
      /\ line[t].stage \in {"first", "retry"} /\ UNCHANGED <<clock, gone, lines>>
  BY <1>1, InSection
<1>. QED BY <1>1, <1>2, <1>3, <1>4, GuardedTo

\* A file that is open and still named right is kept.
LEMMA SkipReopenStep ==
  ASSUME FileInv, crashed = "no", NEW t \in Threads, UNCHANGED gone, InnerOf(t) \notin gone,
         SkipReopen(t)
  PROVE  FileInv'
<1>1. /\ line[t].pc = "enter" /\ MayEnter(t) /\ LeavesReopen(t)
      /\ UNCHANGED <<clock, state, fp, name_time, lines, crashed>>
  BY DEF SkipReopen, At
<1>2. CASE line[t].stage = "retry"
  <2>1. Returns(t) /\ mutex[InnerOf(t)] \in {t, NoThread}
    BY <1>1, <1>2, InSection DEF LeavesReopen
  <2>2. line' = [line EXCEPT ![t] = NoLine] /\ mutex' = [mutex EXCEPT ![InnerOf(t)] = NoThread]
    BY <1>1, <2>1, ReturnsFrom
  <2>3. Section(t, NoThread, fp[InnerOf(t)])
    BY <1>1, <2>1, <2>2, InSection DEF Section
  <2>4. lines' \subseteq LineFacts /\ UNCHANGED <<clock, gone>>
    BY <1>1, InSection
  <2>. QED BY <1>1, <2>2, <2>3, <2>4, GuardedEnd
<1>3. CASE line[t].stage # "retry"
  <2>1. GoTo(t, "state")
    BY <1>1, <1>3 DEF LeavesReopen
  <2>2. LineTo(t, "state", line[t].stamp, line[t].need, line[t].stage)
    BY <1>1, <2>1, LineSteps
  <2>3. PICK m \in {t, NoThread} : /\ mutex' = [mutex EXCEPT ![InnerOf(t)] = m]
                                   /\ line[t].form = "text" => m = t
    BY <1>1, <1>3 DEF LeavesReopen
  <2>4. Section(t, m, fp[InnerOf(t)])
    BY <1>1, <2>3, InSection DEF Section
  <2>5. /\ line[t].stamp \in 1..clock /\ line[t].stamp \in 0..Len(Instants)
        /\ line[t].need \in BOOLEAN /\ line[t].stage \in {"first", "retry"}
        /\ UNCHANGED <<clock, gone, lines>>
    BY <1>1, InSection
  <2>. QED BY <1>1, <2>2, <2>3, <2>4, <2>5, GuardedTo
<1>. QED BY <1>2, <1>3

\* The file is closed, by the thread that will open the next: only the empty logger's cannot be.
LEMMA CloseFileStep ==
  ASSUME FileInv, crashed = "no", NEW t \in Threads, UNCHANGED gone, InnerOf(t) \notin gone,
         CloseFile(t)
  PROVE  FileInv'
<1>1. /\ line[t].pc = "enter" /\ MayEnter(t)
      /\ mutex' = [mutex EXCEPT ![InnerOf(t)] = t] /\ GoTo(t, "now")
      /\ UNCHANGED <<clock, state, name_time, lines>>
      /\ fp' = [fp EXCEPT ![InnerOf(t)] = IF @ = Null THEN Null ELSE Stray]
      /\ crashed' = IF fp[InnerOf(t)] = Stray THEN "stray" ELSE "no"
  BY DEF CloseFile, At
<1>2. LineTo(t, "now", line[t].stamp, line[t].need, line[t].stage)
  BY <1>1, LineSteps
<1>3. fp[InnerOf(t)] = Stray => InnerOf(t) = Empty
  <2>1. ASSUME NEW s \in Threads, mutex[InnerOf(t)] = s, line[s].pc \in {"now", "fopen"} PROVE FALSE
    BY <1>1, <2>1, InSection, Constants
  <2>. QED BY <1>1, <2>1, InSection DEF FileInv, Rotated
<1>4. PICK f \in Null..Stray : fp' = [fp EXCEPT ![InnerOf(t)] = f]
  <2>1. Null \in Null..Stray /\ Stray \in Null..Stray
    BY Constants DEF Null, Stray
  <2>. QED BY <1>1, <2>1
<1>5. /\ crashed' \in {"no", "null", "stray", "destroyed"}
      /\ crashed' = "stray" => InnerOf(t) = Empty
  BY <1>1, <1>3
<1>6. Section(t, t, f)
  BY <1>1, <1>4, InSection DEF Section
<1>7. /\ line[t].stamp \in 1..clock /\ line[t].stamp \in 0..Len(Instants)
      /\ line[t].need \in BOOLEAN /\ line[t].stage \in {"first", "retry"}
      /\ UNCHANGED <<clock, gone, lines>>
  BY <1>1, InSection
<1>. QED BY <1>1, <1>2, <1>5, <1>6, <1>7, GuardedTo

\* What open_file leaves behind: the mutex is given up at the end of a retry, and kept to the
\* end of a text.
LEMMA LeavesOpenFile ==
  ASSUME FileInv, NEW t \in Threads, UNCHANGED <<clock, gone, lines>>, InnerOf(t) \notin gone,
         line[t].pc \in {"fopen", "publish"}, LeavesReopen(t), crashed' = "no",
         NEW f \in Null..Stray, f = Stray => f = fp[InnerOf(t)] /\ line[t].pc = "publish",
         fp' = [fp EXCEPT ![InnerOf(t)] = f],
         state' \in [Inners -> {"open", "non_associated", "bad_file_descriptor"}],
         name_time' \in [Inners -> 0..Len(Instants)]
  PROVE  FileInv'
<1>1. mutex[InnerOf(t)] = t /\ InnerOf(t) \in Inners
  BY InSection
<1>2. CASE line[t].stage = "retry"
  <2>1. line' = [line EXCEPT ![t] = NoLine] /\ mutex' = [mutex EXCEPT ![InnerOf(t)] = NoThread]
    BY <1>1, <1>2, ReturnsFrom DEF LeavesReopen
  <2>2. Section(t, NoThread, f)
    BY <1>1, <2>1 DEF Section
  <2>3. lines' \subseteq LineFacts
    BY InSection
  <2>. QED BY <2>1, <2>2, <2>3, GuardedEnd
<1>3. CASE line[t].stage # "retry"
  <2>1. GoTo(t, "state")
    BY <1>3 DEF LeavesReopen
  <2>2. LineTo(t, "state", line[t].stamp, line[t].need, line[t].stage)
    BY <2>1, LineSteps
  <2>3. PICK m \in {t, NoThread} : /\ mutex' = [mutex EXCEPT ![InnerOf(t)] = m]
                                   /\ line[t].form = "text" => m = t
    BY <1>3 DEF LeavesReopen
  <2>4. Section(t, m, f)
    BY <1>1, <2>3 DEF Section
  <2>5. /\ line[t].stamp \in 1..clock /\ line[t].stamp \in 0..Len(Instants)
        /\ line[t].need \in BOOLEAN /\ line[t].stage \in {"first", "retry"}
    BY InSection
  <2>. QED BY <2>2, <2>3, <2>4, <2>5, GuardedTo
<1>. QED BY <1>2, <1>3

\* The clock is read for the name.
LEMMA ReadNowStep ==
  ASSUME FileInv, crashed = "no", NEW t \in Threads, UNCHANGED gone, InnerOf(t) \notin gone,
         ReadNow(t)
  PROVE  FileInv'
<1>1. line[t].pc = "now" /\ UNCHANGED <<clock, mutex, state, fp, name_time, lines, crashed>>
  BY DEF ReadNow, At
<1>2. LineTo(t, "fopen", line[t].stamp, line[t].need, line[t].stage)
  BY <1>1, LineSteps
<1>3. Section(t, t, fp[InnerOf(t)])
  BY <1>1, InSection DEF Section, FileInv, FileTypeOK
<1>4. /\ line[t].stamp \in 1..clock /\ line[t].stamp \in 0..Len(Instants)
      /\ line[t].need \in BOOLEAN /\ line[t].stage \in {"first", "retry"}
      /\ UNCHANGED <<clock, gone, lines>>
  BY <1>1, InSection
<1>. QED BY <1>1, <1>2, <1>3, <1>4, GuardedTo

\* The next file is open, or there is none.
LEMMA OpenFileStep ==
  ASSUME FileInv, crashed = "no", NEW t \in Threads, UNCHANGED gone, InnerOf(t) \notin gone,
         OpenFile(t)
  PROVE  FileInv'
<1>1. /\ line[t].pc = "fopen" /\ UNCHANGED <<clock, name_time, lines, crashed>>
      /\ mutex[InnerOf(t)] = t /\ InnerOf(t) \in Inners
  BY InSection DEF OpenFile, At
<1>2. /\ state' \in [Inners -> {"open", "non_associated", "bad_file_descriptor"}]
      /\ name_time' \in [Inners -> 0..Len(Instants)]
  BY <1>1 DEF OpenFile, FileInv, FileTypeOK
<1>3. CASE LeavesReopen(t) /\ fp' = [fp EXCEPT ![InnerOf(t)] = Null]
  <2>1. Null \in Null..Stray /\ Null # Stray
    BY Constants DEF Null, Stray
  <2>. QED BY <1>1, <1>2, <1>3, <2>1, LeavesOpenFile
<1>4. CASE /\ fp' = [fp EXCEPT ![InnerOf(t)] = Period(line[t].opened)]
           /\ GoTo(t, "publish") /\ UNCHANGED mutex
  <2>1. line[t].opened \in 1..clock /\ line[t].opened \in 1..Len(Instants)
    BY <1>1, Constants DEF FileInv, FileTypeOK, Stamped
  <2>2. Period(line[t].opened) \in Null..Stray /\ Period(line[t].opened) # Stray
    BY <2>1, PeriodIs, Constants DEF Null, Stray
  <2>3. LineTo(t, "publish", line[t].stamp, line[t].need, line[t].stage)
    BY <1>1, <1>4, <2>1, LineSteps
  <2>4. Section(t, t, Period(line[t].opened))
    BY <1>1, <1>2, <1>4, <2>2 DEF Section, FileInv, FileTypeOK
  <2>5. /\ line[t].stamp \in 1..clock /\ line[t].stamp \in 0..Len(Instants)
        /\ line[t].need \in BOOLEAN /\ line[t].stage \in {"first", "retry"}
        /\ UNCHANGED <<clock, gone, lines>>
    BY <1>1, InSection
  <2>. QED BY <1>1, <2>2, <2>3, <2>4, <2>5, GuardedTo
<1>. QED BY <1>3, <1>4 DEF OpenFile

\* The time of the name is set, and the mutex given up.
LEMMA SetNameTimeStep ==
  ASSUME FileInv, crashed = "no", NEW t \in Threads, UNCHANGED gone, InnerOf(t) \notin gone,
         SetNameTime(t)
  PROVE  FileInv'
<1>1. /\ line[t].pc = "publish" /\ LeavesReopen(t)
      /\ UNCHANGED <<clock, state, fp, lines, crashed>>
      /\ name_time' = [name_time EXCEPT ![InnerOf(t)] = NamedAt(line[t].opened)]
  BY DEF SetNameTime, At
<1>2. InnerOf(t) \in Inners /\ mutex[InnerOf(t)] = t
  BY <1>1, InSection
<1>3. line[t].opened \in 0..Len(Instants) /\ 0 \in 0..Len(Instants)
  BY <1>1, InLine, Constants DEF LineCalls
<1>4. /\ name_time' \in [Inners -> 0..Len(Instants)]
      /\ state' \in [Inners -> {"open", "non_associated", "bad_file_descriptor"}]
  BY <1>1, <1>3 DEF FileInv, FileTypeOK, NamedAt
<1>5. /\ fp[InnerOf(t)] \in Null..Stray
      /\ fp' = [fp EXCEPT ![InnerOf(t)] = fp[InnerOf(t)]]
  BY <1>1, <1>2 DEF FileInv, FileTypeOK
<1>. QED BY <1>1, <1>4, <1>5, LeavesOpenFile

\* A file that is not open is not written.
LEMMA TestStateStep ==
  ASSUME FileInv, crashed = "no", NEW t \in Threads, UNCHANGED gone, InnerOf(t) \notin gone,
         TestState(t)
  PROVE  FileInv'
<1>1. line[t].pc = "state" /\ UNCHANGED <<clock, state, fp, name_time, lines, crashed>>
  BY DEF TestState, At
<1>2. /\ state' \in [Inners -> {"open", "non_associated", "bad_file_descriptor"}]
      /\ lines' \subseteq LineFacts
      /\ UNCHANGED <<clock, gone>> /\ UNCHANGED <<clock, fp, name_time, gone>>
  BY <1>1, InSection
<1>3. CASE GoTo(t, "write") /\ UNCHANGED mutex
  <2>1. LineTo(t, "write", line[t].stamp, line[t].need, line[t].stage)
    BY <1>1, <1>3, LineSteps
  <2>2. /\ line[t].stamp \in 1..clock /\ line[t].need \in BOOLEAN
        /\ line[t].stage \in {"first", "retry"}
        /\ line[t].form = "text" => mutex[InnerOf(t)] = t
    BY <1>1, InSection
  <2>. QED BY <1>1, <1>3, <1>2, <2>1, <2>2, QuietTo
<1>4. CASE Retries(t) /\ UNCHANGED mutex
  <2>1. LineTo(t, "enter", line[t].stamp, TRUE, "retry")
    BY <1>1, <1>4, LineSteps
  <2>2. line[t].stamp \in 1..clock /\ (line[t].form = "text" => mutex[InnerOf(t)] = t)
    BY <1>1, InSection
  <2>. QED BY <1>1, <1>4, <1>2, <2>1, <2>2, QuietTo
<1>5. CASE Returns(t) /\ line[t].form = "text"
  <2>1. mutex[InnerOf(t)] \in {t, NoThread}
    BY <1>1, <1>5, InSection
  <2>2. line' = [line EXCEPT ![t] = NoLine] /\ mutex' = [mutex EXCEPT ![InnerOf(t)] = NoThread]
    BY <1>1, <1>5, <2>1, ReturnsFrom
  <2>3. Section(t, NoThread, fp[InnerOf(t)])
    BY <1>1, <2>1, <2>2, InSection DEF Section
  <2>. QED BY <1>1, <1>2, <2>2, <2>3, GuardedEnd
<1>. QED BY <1>3, <1>4, <1>5 DEF TestState

\* The line is written, or the call tries again with another file.
LEMMA WriteLineStep ==
  ASSUME FileInv, crashed = "no", NEW t \in Threads, UNCHANGED gone, InnerOf(t) \notin gone,
         WriteLine(t)
  PROVE  FileInv'
<1>. DEFINE l == <<Period(line[t].stamp), fp[InnerOf(t)], line[t].missed>>
<1>1. /\ line[t].pc = "write" /\ MayEnter(t) /\ fp[InnerOf(t)] \notin {Null, Stray}
      /\ UNCHANGED <<clock, fp, name_time, crashed>>
      /\ (Returns(t) /\ lines' = lines \cup {l})
         \/ (Retries(t) /\ UNCHANGED mutex /\ lines' \in {lines, lines \cup {l}})
      /\ state' \in {state, [state EXCEPT ![InnerOf(t)] = "bad_file_descriptor"]}
  BY DEF WriteLine, At
<1>2. /\ InnerOf(t) \in Inners /\ line[t].stamp \in 1..clock /\ line[t].need \in BOOLEAN
      /\ line[t].form = "text" => mutex[InnerOf(t)] = t
      /\ mutex[InnerOf(t)] \in {t, NoThread}
      /\ fp[InnerOf(t)] \in Null..Stray /\ clock \in 1..Len(Instants)
  BY <1>1, InSection
<1>3. state' \in [Inners -> {"open", "non_associated", "bad_file_descriptor"}]
  BY <1>1, <1>2 DEF FileInv, FileTypeOK
<1>4. lines' \subseteq LineFacts
  <2>1. fp[InnerOf(t)] \in 1..Len(Instants)
    BY <1>1, <1>2, Constants DEF Null, Stray
  <2>2. Period(line[t].stamp) \in 1..Len(Instants)
    <3>1. line[t].stamp \in 1..Len(Instants)
      BY <1>2, Constants
    <3>. QED BY <3>1, PeriodIs, Constants
  <2>3. lines \subseteq LineFacts /\ line[t].missed \in BOOLEAN
    BY <1>1, InSection DEF LineCalls
  <2>. QED BY <1>1, <2>1, <2>2, <2>3 DEF LineFacts
<1>5. CASE Returns(t)
  <2>1. line' = [line EXCEPT ![t] = NoLine] /\ mutex' = [mutex EXCEPT ![InnerOf(t)] = NoThread]
    BY <1>1, <1>2, <1>5, ReturnsFrom
  <2>2. /\ name_time' \in [Inners -> 0..Len(Instants)]
        /\ fp' = [fp EXCEPT ![InnerOf(t)] = fp[InnerOf(t)]]
    BY <1>1, <1>2 DEF FileInv, FileTypeOK
  <2>3. Section(t, NoThread, fp[InnerOf(t)])
    BY <1>2, <1>3, <2>1, <2>2 DEF Section
  <2>4. UNCHANGED <<clock, gone>> /\ crashed' = "no"
    BY <1>1
  <2>. QED BY <1>1, <1>4, <2>1, <2>3, <2>4, GuardedEnd
<1>6. CASE Retries(t) /\ UNCHANGED mutex
  <2>1. LineTo(t, "enter", line[t].stamp, TRUE, "retry")
    BY <1>1, <1>6, LineSteps
  <2>2. UNCHANGED <<clock, mutex, fp, name_time, gone>> /\ crashed' = "no"
    BY <1>1, <1>6
  <2>. QED BY <1>1, <1>2, <1>3, <1>4, <2>1, <2>2, QuietTo
<1>. QED BY <1>1, <1>5, <1>6

\* A FILE that is not open is written: the empty logger's, or one that is NULL.
LEMMA WriteStrayStep ==
  ASSUME FileInv, crashed = "no", NEW t \in Threads, UNCHANGED gone, WriteStray(t)
  PROVE  FileInv'
<1>1. /\ line[t].pc = "write" /\ MayEnter(t) /\ fp[InnerOf(t)] \in {Null, Stray}
      /\ crashed' = (IF fp[InnerOf(t)] = Null THEN "null" ELSE "stray")
      /\ UNCHANGED <<clock, mutex, state, fp, name_time, line, lines, gone>>
  BY DEF WriteStray, At, fileVars
<1>2. line[t] # NoLine /\ InnerOf(t) \in Inners /\ mutex[InnerOf(t)] \in {t, NoThread}
  BY <1>1, InLine, InSection
<1>3. fp[InnerOf(t)] = Stray => InnerOf(t) = Empty
  <2>1. ASSUME NEW s \in Threads, mutex[InnerOf(t)] = s, line[s].pc \in {"now", "fopen"} PROVE FALSE
    BY <1>1, <1>2, <2>1, Constants
  <2>. QED BY <1>2, <2>1 DEF FileInv, Rotated
<1>4. /\ FileTypeOK' /\ (\A s \in Threads : Stamped(s)' /\ Guarded(s)')
      /\ (\A i \in Inners : Rotated(i)') /\ (\A i \in gone' : i # Empty => fp'[i] = Null)
  BY <1>1 DEF FileInv, FileTypeOK, Stamped, Guarded, Rotated, InnerOf
<1>5. crashed' = "stray" => \E s \in Threads : line'[s] # NoLine /\ line'[s].inner = Empty
  BY <1>1, <1>2, <1>3 DEF InnerOf
<1>. QED BY <1>1, <1>4, <1>5 DEF FileInv, InnerOf

\* ~internal_logger finds the mutex free and leaves no file open.
LEMMA DestroyInnerFile ==
  ASSUME FileInv, RefType, crashed = "no", NEW t \in Threads, op[t].other \in Inners,
         DestroyInner(t)
  PROVE  FileInv'
<1>1. /\ mutex[op[t].other] = NoThread /\ fp' = [fp EXCEPT ![op[t].other] = Null]
      /\ gone' = gone \cup {op[t].other}
      /\ UNCHANGED <<clock, mutex, state, name_time, line, lines, crashed>>
  BY DEF DestroyInner, DestroyFile
<1>2. FileTypeOK'
  <2>1. Null \in Null..Stray
    BY Constants DEF Null, Stray
  <2>. QED BY <1>1, <2>1 DEF FileInv, FileTypeOK
<1>3. (\A s \in Threads : Stamped(s)' /\ Guarded(s)') /\ gone' \subseteq Inners
  BY <1>1 DEF FileInv, Stamped, Guarded, InnerOf
<1>4. ASSUME NEW i \in Inners PROVE Rotated(i)'
  <2>1. Null # Stray
    BY Constants DEF Null, Stray
  <2>. QED BY <1>1, <2>1 DEF FileInv, FileTypeOK, Rotated, InnerOf
<1>5. \A i \in gone' : i # Empty => fp'[i] = Null
  BY <1>1 DEF FileInv, FileTypeOK
<1>. QED BY <1>1, <1>2, <1>3, <1>4, <1>5 DEF FileInv

\* A call begins; time goes on.
LEMMA BeginLineStep ==
  ASSUME FileInv, crashed = "no", NEW t \in Threads, NEW i \in Inners,
         NEW form \in {"format", "text"}, BeginLine(t, i, form), UNCHANGED gone
  PROVE  FileInv'
<1>1. PICK pc \in {"lock", "time"} :
        /\ pc = (IF form = "text" THEN "lock" ELSE "time")
        /\ line' = [line EXCEPT ![t] = [pc |-> pc, inner |-> i, form |-> form, stamp |-> 0,
                                        opened |-> 0, need |-> FALSE, missed |-> FALSE,
                                        stage |-> "first"]]
  BY DEF BeginLine
<1>. DEFINE o == [pc |-> pc, inner |-> i, form |-> form, stamp |-> 0, opened |-> 0,
                  need |-> FALSE, missed |-> FALSE, stage |-> "first"]
<1>2. o \in LineCalls /\ o.pc = pc /\ o.form = form
  BY Constants DEF LineCalls
<1>3. /\ UNCHANGED <<clock, mutex, fp, name_time, gone>> /\ crashed' = "no"
      /\ line[t].pc = "none" /\ UNCHANGED <<state, lines>>
  BY DEF BeginLine, NoLine
<1>4. /\ state' \in [Inners -> {"open", "non_associated", "bad_file_descriptor"}]
      /\ lines' \subseteq LineFacts
  BY <1>3 DEF FileInv, FileTypeOK, LineFacts
<1>5. line' = [line EXCEPT ![t] = o]
  BY <1>1
<1>6. /\ o.pc \notin {"none", "now", "fopen", "publish"}
      /\ o.pc \notin {"none", "lock"} => o.pc = "time" /\ o.form # "text"
  BY <1>1, <1>2
<1>. HIDE DEF o
<1>. QED BY <1>2, <1>3, <1>4, <1>5, <1>6, QuietLine

LEMMA TickStep ==
  ASSUME FileInv, crashed = "no", Tick, UNCHANGED gone
  PROVE  FileInv'
<1>1. /\ clock \in 1..Len(Instants) /\ clock' = clock + 1 /\ clock < Len(Instants)
      /\ UNCHANGED <<mutex, state, fp, name_time, line, lines, crashed, gone>>
  BY DEF Tick, FileInv, FileTypeOK
<1>2. FileTypeOK'
  BY <1>1, Constants DEF FileInv, FileTypeOK
<1>3. ASSUME NEW t \in Threads PROVE Stamped(t)'
  BY <1>1, Constants DEF FileInv, Stamped
<1>4. (\A t \in Threads : Guarded(t)') /\ (\A i \in Inners : Rotated(i)')
  BY <1>1 DEF FileInv, Guarded, Rotated, InnerOf
<1>. QED BY <1>1, <1>2, <1>3, <1>4 DEF FileInv

\* Steps that do not touch a file.
LEMMA FileKept ==
  ASSUME FileInv, UNCHANGED <<fileVars, gone>>, crashed' \in {crashed, "destroyed"}
  PROVE  FileInv'
<1>1. UNCHANGED <<clock, mutex, state, fp, name_time, line, lines, gone>>
  BY DEF fileVars
<1>2. FileTypeOK'
  BY <1>1 DEF FileInv, FileTypeOK
<1>3. /\ (\A s \in Threads : Stamped(s)' /\ Guarded(s)') /\ (\A i \in Inners : Rotated(i)')
      /\ (\A i \in gone' : i # Empty => fp'[i] = Null)
  BY <1>1 DEF FileInv, Stamped, Guarded, Rotated, InnerOf
<1>. QED BY <1>1, <1>2, <1>3 DEF FileInv, InnerOf

LEMMA LineStepKeeps ==
  ASSUME FileInv, crashed = "no", NEW t \in Threads, UNCHANGED gone, InnerOf(t) \notin gone,
         LineStep(t)
  PROVE  FileInv'
BY QuietSteps, LockForTextStep, SkipReopenStep, CloseFileStep, ReadNowStep, OpenFileStep,
   SetNameTimeStep, TestStateStep, WriteLineStep, WriteStrayStep DEF LineStep

LEMMA FileInvInit == Init => FileInv
<1>. SUFFICES ASSUME Init PROVE FileInv
  OBVIOUS
<1>. USE Constants DEF Init, FileInit
<1>1. FileTypeOK
  <2>1. \A i \in Inners : NamedAt(1) \in 0..Len(Instants)
    BY DEF NamedAt
  <2>2. {Null, 1, Stray} \subseteq Null..Stray
    BY DEF Null, Stray
  <2>3. clock \in 1..Len(Instants) /\ fp \in [Inners -> Null..Stray]
    BY <2>2
  <2>4. /\ mutex \in [Inners -> Threads \cup {NoThread}]
        /\ state \in [Inners -> {"open", "non_associated", "bad_file_descriptor"}]
    OBVIOUS
  <2>5. name_time \in [Inners -> 0..Len(Instants)]
    BY <2>1
  <2>6. /\ line = [t \in Threads |-> NoLine] /\ crashed = "no" /\ lines = {}
    OBVIOUS
  <2>. HIDE DEF Init, FileInit
  <2>7. /\ line \in [Threads -> {NoLine} \cup LineCalls]
        /\ lines \subseteq LineFacts
        /\ crashed \in {"no", "null", "stray", "destroyed"}
    BY <2>6
  <2>. QED BY <2>3, <2>4, <2>5, <2>7 DEF FileTypeOK, LineCalls, LineFacts
<1>2. \A t \in Threads : Stamped(t) /\ Guarded(t)
  BY DEF Stamped, Guarded, NoLine
<1>3. ASSUME NEW i \in Inners PROVE Rotated(i)
  <2>1. 1 # Stray /\ Null # Stray
    BY DEF Null, Stray
  <2>. QED BY <2>1 DEF Rotated
<1>. QED BY <1>1, <1>2, <1>3 DEF FileInv

-----------------------------------------------------------------------------
(***************************************************************************)
(* What the loggers refer to.                                              *)
(***************************************************************************)
\* A logger that is being constructed or destroyed is in no other call.
Alone(s, t) == op[t].kind \in {"copy", "destroy"} => op[t].x \notin {op[s].x, op[s].y}

\* What a call asks of its loggers.
Asked(t) ==
  /\ op[t].pc = "log" <=> op[t].kind = "log"
  /\ op[t].kind \in {"assign", "copy"} => op[t].x # op[t].y
  /\ op[t].kind = "destroy" => op[t].x = op[t].y /\ op[t].pc \in {"store", "drop", "destroy"}
  /\ op[t].kind \in {"assign", "swap", "copy"} => log[op[t].y] # None
  /\ op[t].kind \in {"assign", "swap"} => log[op[t].x] # None
  /\ op[t].kind = "copy" /\ op[t].pc \in {"lock", "count", "read", "store"} => log[op[t].x] = None
  /\ op[t].kind = "destroy" /\ op[t].pc = "store" => log[op[t].x] # None /\ op[t].other = None

\* What a call has read is still there when it stores, and what it drops is its own.
Pending(t) ==
  /\ op[t].pc = "store" /\ op[t].kind \in {"assign", "copy"} => op[t].other = log[op[t].y]
  /\ op[t].pc = "store" /\ op[t].kind = "swap" =>
       /\ op[t].other # None /\ log[op[t].x] = log[op[t].y]
       /\ op[t].x = op[t].y => op[t].other = log[op[t].x]
  /\ op[t].pc \in {"drop", "destroy"} => op[t].other \in Inners
  /\ op[t].pc = "destroy" => use_count[op[t].other] = 0

CallInv ==
  /\ \A t \in Threads : op[t] # NoOp => Asked(t) /\ Pending(t)
  /\ \A s, t \in Threads : s # t /\ op[s] # NoOp /\ op[t] # NoOp => Alone(s, t)

RefInv ==
  /\ CallInv
  /\ calls \in 0..MaxCalls
  /\ use_count \in [Inners -> Nat]
  /\ \A i \in Inners : use_count[i] = References(i) /\ (i \in gone => use_count[i] = 0)

-----------------------------------------------------------------------------
\* The call of a thread that is in one, as far as its loggers go.
LEMMA CallOf ==
  ASSUME LockInv, NEW t \in Threads, op[t] # NoOp
  PROVE  /\ op[t] \in Calls /\ op[t].pc \in Pcs /\ op[t].kind \in Kinds
         /\ op[t].x \in Loggers /\ op[t].y \in Loggers /\ op[t].other \in Inners \cup {None}
         /\ Lower(op[t].x, op[t].y) \in {op[t].x, op[t].y}
         /\ Upper(op[t].x, op[t].y) \in {op[t].x, op[t].y}
         /\ {Lower(op[t].x, op[t].y), Upper(op[t].x, op[t].y)} = {op[t].x, op[t].y}
<1>1. op[t] \in Calls
  BY DEF LockInv, RefType
<1>2. /\ op[t].pc \in Pcs /\ op[t].kind \in Kinds
      /\ op[t].x \in Loggers /\ op[t].y \in Loggers /\ op[t].other \in Inners \cup {None}
  BY <1>1 DEF Calls
<1>3. op[t].x \in Nat /\ op[t].y \in Nat
  BY <1>2, Constants
<1>4. \/ Lower(op[t].x, op[t].y) = op[t].x /\ Upper(op[t].x, op[t].y) = op[t].y
      \/ Lower(op[t].x, op[t].y) = op[t].y /\ Upper(op[t].x, op[t].y) = op[t].x
  BY <1>3 DEF Lower, Upper
<1>. QED BY <1>1, <1>2, <1>4

\* Whoever reads or stores has the locks it needs.
LEMMA HasLocks ==
  ASSUME LockInv, NEW t \in Threads, op[t].pc \in {"read", "store"}
  PROVE  /\ op[t].kind \in {"assign", "swap"} => thread_id[op[t].x] = t
         /\ op[t].kind \in {"assign", "swap", "copy"} => thread_id[op[t].y] = t
<1>1. op[t] # NoOp
  BY DEF NoOp
<1>2. op[t].held = Len(Locks(t)) /\ \A k \in Loggers : Owned(t, k) => thread_id[k] = t
  BY DEF LockInv, Progress, Owner
<1>3. CASE op[t].kind \in {"assign", "swap"}
  <2>1. /\ Locks(t) = <<Lower(op[t].x, op[t].y), Upper(op[t].x, op[t].y)>>
        /\ Len(Locks(t)) = 2
    BY <1>3 DEF Locks, LocksOf
  <2>2. Owned(t, Locks(t)[1]) /\ Owned(t, Locks(t)[2])
    BY <1>2, <2>1 DEF Owned
  <2>3. /\ Locks(t)[1] = Lower(op[t].x, op[t].y) /\ Locks(t)[2] = Upper(op[t].x, op[t].y)
    BY <2>1
  <2>4. Owned(t, op[t].x) /\ Owned(t, op[t].y)
    BY <1>1, <2>2, <2>3, CallOf
  <2>. QED BY <1>1, <1>2, <2>4, CallOf
<1>4. CASE op[t].kind = "copy"
  <2>1. Locks(t) = <<op[t].y>> /\ Len(Locks(t)) = 1
    BY <1>4 DEF Locks, LocksOf
  <2>2. Owned(t, op[t].y)
    BY <1>2, <2>1 DEF Owned
  <2>. QED BY <1>1, <1>2, <1>4, <2>2, CallOf
<1>. QED BY <1>3, <1>4

\* A swap between its two steps is the only one to have the first logger.
TargetRule ==
  \A x \in Loggers :
    /\ \A t \in Threads : Swapping(t, x) => Target(x) = op[t].other /\ thread_id[x] = t
    /\ (\A t \in Threads : ~Swapping(t, x)) => Target(x) = log[x]

LEMMA TargetIs == LockInv => TargetRule
<1>. SUFFICES ASSUME LockInv, NEW x \in Loggers
              PROVE  /\ \A t \in Threads : Swapping(t, x) =>
                          Target(x) = op[t].other /\ thread_id[x] = t
                     /\ (\A t \in Threads : ~Swapping(t, x)) => Target(x) = log[x]
  BY DEF TargetRule
<1>1. ASSUME NEW t \in Threads, Swapping(t, x) PROVE thread_id[x] = t
  <2>1. /\ op[t].pc = "store" /\ op[t].kind = "swap" /\ Lower(op[t].x, op[t].y) = x
        /\ op[t] # NoOp
    BY <1>1 DEF Swapping, OpAt, NoOp
  <2>2. x \in {op[t].x, op[t].y}
    BY <2>1, CallOf
  <2>. QED BY <2>1, <2>2, HasLocks
<1>2. ASSUME NEW t \in Threads, Swapping(t, x) PROVE Target(x) = op[t].other
  <2>1. (CHOOSE s \in Threads : Swapping(s, x)) \in Threads
        /\ Swapping((CHOOSE s \in Threads : Swapping(s, x)), x)
    BY <1>2
  <2>2. (CHOOSE s \in Threads : Swapping(s, x)) = t
    BY <1>1, <1>2, <2>1
  <2>. QED BY <1>2, <2>2 DEF Target
<1>3. (\A t \in Threads : ~Swapping(t, x)) => Target(x) = log[x]
  BY DEF Target
<1>. QED BY <1>1, <1>2, <1>3

LEMMA TargetIsNext == LockInv' => TargetRule'
BY TargetIs, PTL

\* A step of thread t that is not a swap of logger x, and does not overwrite it.
LEMMA TargetStays ==
  ASSUME LockInv, LockInv', NEW t \in Threads, NEW o, op' = [op EXCEPT ![t] = o],
         NEW x \in Loggers, log'[x] = log[x], ~Swapping(t, x), ~Swapping(t, x)'
  PROVE  Target(x)' = Target(x)
<1>1. \A s \in Threads \ {t} : op'[s] = op[s]
  BY DEF LockInv, RefType
<1>2. TargetRule /\ TargetRule'
  BY TargetIs, TargetIsNext
<1>3. CASE \E s \in Threads : Swapping(s, x)
  <2>1. PICK s \in Threads : Swapping(s, x)
    BY <1>3
  <2>2. s # t /\ op'[s] = op[s]
    BY <1>1, <2>1
  <2>3. Swapping(s, x)'
    BY <2>1, <2>2 DEF Swapping, OpAt
  <2>4. Target(x) = op[s].other /\ Target(x)' = op'[s].other
    BY <1>2, <2>1, <2>3 DEF TargetRule
  <2>. QED BY <2>2, <2>4
<1>4. CASE \A s \in Threads : ~Swapping(s, x)
  <2>1. \A s \in Threads : ~Swapping(s, x)'
    BY <1>1, <1>4 DEF Swapping, OpAt
  <2>2. Target(x) = log[x] /\ Target(x)' = log'[x]
    BY <1>2, <1>4, <2>1 DEF TargetRule
  <2>. QED BY <2>2
<1>. QED BY <1>3, <1>4

\* How a step changes the table of loggers.
Still == \A x \in Loggers : Target(x)' = Target(x)
Sets(z, v) == Target(z)' = v /\ \A x \in Loggers \ {z} : Target(x)' = Target(x)
Exchanges(l, u) == /\ Target(l)' = Target(u) /\ Target(u)' = Target(l)
                   /\ \A x \in Loggers \ {l, u} : Target(x)' = Target(x)

\* A step that stores nothing, and is not the first of a swap.
LEMMA StillStep ==
  ASSUME LockInv, LockInv', NEW t \in Threads, NEW o, op' = [op EXCEPT ![t] = o], UNCHANGED log,
         op[t].pc # "store" \/ op[t].kind # "swap", o.pc # "store" \/ o.kind # "swap"
  PROVE  Still
<1>1. op'[t] = o
  BY DEF LockInv, RefType
<1>2. ASSUME NEW x \in Loggers PROVE ~Swapping(t, x) /\ ~Swapping(t, x)'
  BY <1>1 DEF Swapping, OpAt
<1>. QED BY <1>2, TargetStays DEF Still

\* A logger that a thread may write is not in a swap of another.
LEMMA OwnTarget ==
  ASSUME LockInv, CallInv, NEW t \in Threads, op[t] # NoOp, NEW z \in {op[t].x, op[t].y},
         op[t].pc # "store" \/ op[t].kind # "swap" \/ z # Lower(op[t].x, op[t].y),
         thread_id[z] = t \/ (op[t].kind \in {"copy", "destroy"} /\ z = op[t].x)
  PROVE  Target(z) = log[z] /\ \A s \in Threads : ~Swapping(s, z)
<1>1. z \in Loggers
  BY CallOf
<1>2. ASSUME NEW s \in Threads, Swapping(s, z) PROVE FALSE
  <2>1. s # t /\ op[s] # NoOp
    BY <1>2 DEF Swapping, OpAt, NoOp
  <2>2. thread_id[z] = s /\ z \in {op[s].x, op[s].y}
    BY <1>1, <1>2, <2>1, TargetIs, CallOf DEF TargetRule, Swapping
  <2>3. Alone(s, t)
    BY <2>1 DEF CallInv
  <2>. QED BY <2>1, <2>2, <2>3 DEF Alone
<1>. QED BY <1>1, <1>2, TargetIs DEF TargetRule

-----------------------------------------------------------------------------
\* A call goes on at another place, or is over.
Goes(t, from, pcs) ==
  /\ op[t] # NoOp /\ op[t].pc = from
  /\ op' = [op EXCEPT ![t] = op'[t]]
  /\ \/ op'[t] = NoOp
     \/ /\ op'[t] \in Calls /\ op'[t].pc \in pcs
        /\ op'[t].kind = op[t].kind /\ op'[t].x = op[t].x /\ op'[t].y = op[t].y

LEMMA StepsGo ==
  ASSUME LockInv, LockInv', NEW t \in Threads
  PROVE  /\ TakeLock(t) => Goes(t, "lock", {"count"})
         /\ CountUp(t) => Goes(t, "count", {"read", "lock"})
         /\ ReadLog(t) => Goes(t, "read", {"store"})
         /\ StoreLog(t) => Goes(t, "store", {"uncount", "drop"})
         /\ DropReference(t) => Goes(t, "drop", {"destroy", "uncount"})
         /\ DestroyInner(t) => Goes(t, "destroy", {"uncount"})
         /\ CountDown(t) => Goes(t, "uncount", {"release", "uncount"})
         /\ GiveUpLock(t) => Goes(t, "release", {"uncount"})
         /\ LogStep(t) => Goes(t, "log", {"log"})
<1>1. /\ op \in [Threads -> {NoOp} \cup Calls] /\ op' \in [Threads -> {NoOp} \cup Calls]
      /\ op[t] # NoOp => op[t] \in Calls
      /\ op'[t] # NoOp => op'[t] \in Calls
  BY DEF LockInv, RefType
<1>2. op[t].pc # "none" => op[t] # NoOp
  BY DEF NoOp
<1>3. TakeLock(t) => Goes(t, "lock", {"count"})
  BY <1>1, <1>2 DEF TakeLock, Goes, OpAt, Calls
<1>4. CountUp(t) => Goes(t, "count", {"read", "lock"})
  BY <1>1, <1>2 DEF CountUp, Goes, OpAt, Calls
<1>5. ReadLog(t) => Goes(t, "read", {"store"})
  BY <1>1, <1>2 DEF ReadLog, Goes, OpAt, Calls
<1>6. StoreLog(t) => Goes(t, "store", {"uncount", "drop"})
  BY <1>1, <1>2 DEF StoreLog, Continue, Goes, OpAt, Calls
<1>7. DropReference(t) => Goes(t, "drop", {"destroy", "uncount"})
  BY <1>1, <1>2 DEF DropReference, Continue, Goes, OpAt, Calls
<1>8. DestroyInner(t) => Goes(t, "destroy", {"uncount"})
  BY <1>1, <1>2 DEF DestroyInner, Continue, Goes, OpAt, Calls
<1>9. CountDown(t) => Goes(t, "uncount", {"release", "uncount"})
  BY <1>1, <1>2 DEF CountDown, Goes, OpAt, Calls
<1>10. GiveUpLock(t) => Goes(t, "release", {"uncount"})
  BY <1>1, <1>2 DEF GiveUpLock, Goes, OpAt, Calls
<1>11. LogStep(t) => Goes(t, "log", {"log"})
  BY <1>1, <1>2 DEF LogStep, Goes, OpAt, Calls
<1>. QED BY <1>3, <1>4, <1>5, <1>6, <1>7, <1>8, <1>9, <1>10, <1>11

\* The first step of a swap overwrites a pointer that it has taken.
LEMMA ReadLogStill ==
  ASSUME LockInv, LockInv', CallInv, NEW t \in Threads, ReadLog(t)
  PROVE  Still
<1>1. /\ op[t].pc = "read" /\ op[t] # NoOp /\ op' = [op EXCEPT ![t] = op'[t]]
      /\ op'[t] # NoOp => op'[t].kind = op[t].kind /\ op'[t].x = op[t].x /\ op'[t].y = op[t].y
  BY StepsGo DEF Goes
<1>2. CASE op[t].kind # "swap"
  <2>1. UNCHANGED log
    BY <1>2 DEF ReadLog
  <2>2. op'[t].pc # "store" \/ op'[t].kind # "swap"
    BY <1>1, <1>2 DEF NoOp
  <2>. QED BY <1>1, <1>2, <2>1, <2>2, StillStep
<1>3. CASE op[t].kind = "swap"
  <2>0. PICK l \in Loggers, u \in Loggers :
          l = Lower(op[t].x, op[t].y) /\ u = Upper(op[t].x, op[t].y)
    BY <1>1, CallOf
  <2>1. /\ op' = [op EXCEPT ![t].pc = "store", ![t].other = log[l]]
        /\ log' = [log EXCEPT ![l] = log[u]]
    BY <1>3, <2>0 DEF ReadLog
  <2>2. /\ op[t] \in Calls /\ op[t].x \in Loggers /\ op[t].y \in Loggers
        /\ l \in {op[t].x, op[t].y} /\ l \in Loggers
    BY <1>1, <2>0, CallOf
  <2>3. op'[t].pc = "store" /\ op'[t].other = log[l] /\ op'[t].kind = "swap"
        /\ op'[t].x = op[t].x /\ op'[t].y = op[t].y
    BY <1>3, <2>1, <2>2 DEF LockInv, RefType, Calls
  <2>4. ASSUME NEW x \in Loggers, x # l PROVE Target(x)' = Target(x)
    <3>1. ~Swapping(t, x) /\ ~Swapping(t, x)'
      BY <1>1, <2>0, <2>3, <2>4 DEF Swapping, OpAt
    <3>2. log'[x] = log[x]
      BY <2>1, <2>4 DEF LockInv, RefType
    <3>. QED BY <1>1, <3>1, <3>2, TargetStays
  <2>5. Target(l)' = Target(l)
    <3>1. thread_id[l] = t
      BY <1>1, <1>3, <2>2, HasLocks
    <3>2. Target(l) = log[l]
      BY <1>1, <2>2, <3>1, OwnTarget
    <3>3. Swapping(t, l)'
      BY <2>0, <2>3 DEF Swapping, OpAt
    <3>4. Target(l)' = op'[t].other
      BY <2>2, <3>3, TargetIsNext DEF TargetRule
    <3>. QED BY <2>3, <3>2, <3>4
  <2>. QED BY <2>4, <2>5 DEF Still
<1>. QED BY <1>2, <1>3

\* Assignment and copy change one pointer to that of the other logger; destruction clears it.
LEMMA StoreSets ==
  ASSUME LockInv, LockInv', CallInv, NEW t \in Threads, StoreLog(t), op[t].kind # "swap",
         NEW z \in Loggers, z = op[t].x
  PROVE  /\ Target(z) = log[z] /\ Sets(z, op[t].other)
         /\ op[t].kind \in {"assign", "copy", "destroy"}
         /\ op[t].kind \in {"assign", "copy"} => op[t].other = Target(op[t].y)
<1>1. /\ op[t].pc = "store" /\ op[t] # NoOp /\ op' = [op EXCEPT ![t] = op'[t]]
      /\ op'[t].pc # "store"
  BY StepsGo DEF Goes, NoOp
<1>2. /\ op[t].x \in Loggers /\ op[t].y \in Loggers /\ op[t].kind \in Kinds
      /\ op[t].kind \in {"assign", "copy", "destroy"}
  <2>1. op[t].x \in Loggers /\ op[t].y \in Loggers /\ op[t].kind \in Kinds
    BY <1>1, CallOf
  <2>2. op[t].kind # "log"
    BY <1>1 DEF CallInv, Asked
  <2>. QED BY <2>1, <2>2 DEF Kinds
<1>3. thread_id[z] = t \/ op[t].kind \in {"copy", "destroy"}
  BY <1>1, <1>2, HasLocks
<1>4. Target(z) = log[z] /\ \A s \in Threads : ~Swapping(s, z)
  BY <1>1, <1>3, OwnTarget
<1>5. log' = [log EXCEPT ![z] = op[t].other]
  BY DEF StoreLog
<1>6. \A s \in Threads : ~Swapping(s, z)'
  <2>1. \A s \in Threads \ {t} : op'[s] = op[s]
    BY <1>1 DEF LockInv, RefType
  <2>. QED BY <1>1, <1>4, <2>1 DEF Swapping, OpAt
<1>7. Target(z)' = op[t].other
  <2>1. Target(z)' = log'[z]
    BY <1>2, <1>6, TargetIsNext DEF TargetRule
  <2>. QED BY <1>2, <1>5, <2>1 DEF LockInv, RefType
<1>8. ASSUME NEW x \in Loggers \ {z} PROVE Target(x)' = Target(x)
  <2>1. ~Swapping(t, x) /\ ~Swapping(t, x)'
    BY <1>1 DEF Swapping, OpAt
  <2>2. log'[x] = log[x]
    BY <1>5 DEF LockInv, RefType
  <2>. QED BY <1>1, <2>1, <2>2, TargetStays
<1>9. op[t].kind \in {"assign", "copy"} => op[t].other = Target(op[t].y)
  <2>1. SUFFICES ASSUME op[t].kind \in {"assign", "copy"} PROVE op[t].other = Target(op[t].y)
    OBVIOUS
  <2>2. op[t].other = log[op[t].y] /\ thread_id[op[t].y] = t
    BY <1>1, <2>1, HasLocks DEF CallInv, Pending
  <2>. QED BY <1>1, <2>1, <2>2, OwnTarget
<1>. QED BY <1>2, <1>4, <1>7, <1>8, <1>9 DEF Sets

\* The second step of a swap: for the others, the exchange.
LEMMA StoreExchanges ==
  ASSUME LockInv, LockInv', CallInv, NEW t \in Threads, StoreLog(t), op[t].kind = "swap",
         NEW l \in Loggers, l = Lower(op[t].x, op[t].y),
         NEW u \in Loggers, u = Upper(op[t].x, op[t].y)
  PROVE  Exchanges(l, u) /\ Target(l) # None /\ Target(u) # None
<1>1. /\ op[t].pc = "store" /\ op[t] # NoOp /\ op' = [op EXCEPT ![t] = op'[t]]
      /\ op'[t].pc # "store"
  BY StepsGo DEF Goes, NoOp
<1>2. /\ op[t].x \in Loggers /\ op[t].y \in Loggers /\ l \in Loggers /\ u \in Loggers
      /\ l \in {op[t].x, op[t].y} /\ u \in {op[t].x, op[t].y}
  BY <1>1, CallOf
<1>3. thread_id[l] = t /\ thread_id[u] = t
  BY <1>1, <1>2, HasLocks
<1>4. /\ op[t].other # None /\ log[l] = log[u] /\ (l = u => op[t].other = log[u])
      /\ log[u] # None
  <2>1. /\ op[t].other # None /\ log[op[t].x] = log[op[t].y]
        /\ op[t].x = op[t].y => op[t].other = log[op[t].x]
        /\ log[op[t].y] # None
    BY <1>1 DEF CallInv, Pending, Asked
  <2>2. l = u => op[t].x = op[t].y
    BY <1>1, CallOf
  <2>. QED BY <1>2, <2>1, <2>2
<1>5. Target(l) = op[t].other
  <2>1. Swapping(t, l)
    BY <1>1 DEF Swapping, OpAt
  <2>. QED BY <1>2, <2>1, TargetIs DEF TargetRule
<1>6. u # l => Target(u) = log[u]
  BY <1>1, <1>2, <1>3, OwnTarget
<1>7. log' = [log EXCEPT ![u] = op[t].other]
  BY DEF StoreLog
<1>8. ASSUME NEW x \in Loggers \ {l, u} PROVE Target(x)' = Target(x)
  <2>1. ~Swapping(t, x) /\ ~Swapping(t, x)'
    BY <1>1 DEF Swapping, OpAt
  <2>2. log'[x] = log[x]
    BY <1>7 DEF LockInv, RefType
  <2>. QED BY <1>1, <2>1, <2>2, TargetStays
<1>9. ASSUME NEW x \in {l, u} PROVE Target(x)' = log'[x]
  <2>1. ASSUME NEW s \in Threads, Swapping(s, x)' PROVE FALSE
    <3>1. s # t /\ op'[s] = op[s]
      BY <1>1, <2>1 DEF Swapping, OpAt, LockInv, RefType
    <3>2. Swapping(s, x)
      BY <2>1, <3>1 DEF Swapping, OpAt
    <3>. QED BY <1>2, <1>3, <3>1, <3>2, TargetIs DEF TargetRule
  <2>. QED BY <1>2, <2>1, TargetIsNext DEF TargetRule
<1>10. log'[u] = op[t].other /\ (l # u => log'[l] = log[l])
  BY <1>2, <1>7 DEF LockInv, RefType
<1>11. Target(l)' = Target(u) /\ Target(u)' = Target(l)
  BY <1>4, <1>5, <1>6, <1>9, <1>10
<1>12. Target(u) # None
  BY <1>4, <1>5, <1>6
<1>. QED BY <1>4, <1>5, <1>8, <1>11, <1>12 DEF Exchanges

\* A new logger refers to the empty one.
LEMMA ConstructSets ==
  ASSUME LockInv, LockInv', NEW t \in Threads, NEW x \in Loggers, DefaultConstruct(t, x)
  PROVE  Target(x) = None /\ Sets(x, Empty)
<1>1. /\ op' = op /\ log[x] = None /\ ~InUse(x) /\ log' = [log EXCEPT ![x] = Empty]
      /\ op[t] = NoOp /\ op' = [op EXCEPT ![t] = op[t]]
  BY DEF DefaultConstruct, Idle, LockInv, RefType
<1>2. ASSUME NEW s \in Threads PROVE ~Swapping(s, x) /\ ~Swapping(s, x)'
  <2>1. ~Swapping(s, x)
    <3>1. SUFFICES ASSUME Swapping(s, x) PROVE FALSE
      OBVIOUS
    <3>2. op[s] # NoOp
      BY <3>1 DEF Swapping, OpAt, NoOp
    <3>3. x \in {op[s].x, op[s].y}
      BY <3>1, <3>2, CallOf DEF Swapping
    <3>. QED BY <1>1, <3>2, <3>3 DEF InUse, Idle
  <2>. QED BY <1>1, <2>1 DEF Swapping, OpAt
<1>3. Target(x) = log[x] /\ Target(x)' = log'[x]
  BY <1>2, TargetIs, TargetIsNext DEF TargetRule
<1>4. ASSUME NEW z \in Loggers \ {x} PROVE Target(z)' = Target(z)
  <2>1. ~Swapping(t, z) /\ ~Swapping(t, z)'
    BY <1>1 DEF Swapping, OpAt, NoOp
  <2>2. log'[z] = log[z]
    BY <1>1 DEF LockInv, RefType
  <2>. QED BY <1>1, <2>1, <2>2, TargetStays
<1>. QED BY <1>1, <1>3, <1>4 DEF Sets, LockInv, RefType

-----------------------------------------------------------------------------
\* What a step of thread t may do to the loggers of a call of another: it takes no pointer
\* away, and leaves alone what the other has read.
Mild(t) ==
  \A s \in Threads \ {t} : op[s] # NoOp =>
    /\ \/ log'[op[s].y] = log[op[s].y]
       \/ log'[op[s].y] # None /\ op[s].pc # "store"
    /\ \/ log'[op[s].x] = log[op[s].x]
       \/ /\ log'[op[s].x] # None /\ op[s].kind \notin {"copy", "destroy"}
          /\ op[s].pc # "store" \/ op[s].kind # "swap"

\* No internal logger comes back from a count of zero.
StaysDead == \A i \in Inners : use_count[i] = 0 => use_count'[i] = 0

\* A thread writes a logger whose lock it has, or that it constructs or destroys.
LEMMA WriteIsMild ==
  ASSUME LockInv, CallInv, NEW t \in Threads, op[t] # NoOp, NEW z \in {op[t].x, op[t].y}, NEW v,
         thread_id[z] = t \/ (op[t].kind \in {"copy", "destroy"} /\ z = op[t].x),
         v # None \/ (op[t].kind = "destroy" /\ z = op[t].x),
         log' = [log EXCEPT ![z] = v]
  PROVE  Mild(t)
<1>. SUFFICES ASSUME NEW s \in Threads \ {t}, op[s] # NoOp
              PROVE  /\ \/ log'[op[s].y] = log[op[s].y]
                        \/ log'[op[s].y] # None /\ op[s].pc # "store"
                     /\ \/ log'[op[s].x] = log[op[s].x]
                        \/ /\ log'[op[s].x] # None /\ op[s].kind \notin {"copy", "destroy"}
                           /\ op[s].pc # "store" \/ op[s].kind # "swap"
  BY DEF Mild
<1>1. z \in Loggers /\ op[s].x \in Loggers /\ op[s].y \in Loggers /\ op[s].kind \in Kinds
  BY CallOf
<1>2. log'[z] = v /\ \A k \in Loggers \ {z} : log'[k] = log[k]
  BY <1>1 DEF LockInv, RefType
<1>3. Alone(s, t) /\ Alone(t, s) /\ Asked(s)
  BY DEF CallInv
<1>4. z \in {op[s].x, op[s].y} => v # None /\ thread_id[z] # s
  BY <1>3 DEF Alone
<1>5. op[s].x = z => op[s].kind \notin {"copy", "destroy"}
  BY <1>3 DEF Alone
<1>6. op[s].pc = "store" /\ op[s].y = z => FALSE
  <2>1. SUFFICES ASSUME op[s].pc = "store", op[s].y = z PROVE FALSE
    OBVIOUS
  <2>2. op[s].kind # "log" /\ op[s].kind # "destroy"
    BY <1>3, <1>5, <2>1 DEF Asked
  <2>. QED BY <1>1, <1>4, <2>1, <2>2, HasLocks DEF Kinds
<1>7. op[s].pc = "store" /\ op[s].x = z => op[s].kind # "swap"
  BY <1>4, HasLocks
<1>. QED BY <1>1, <1>2, <1>4, <1>5, <1>6, <1>7

LEMMA OthersCalls ==
  ASSUME LockInv, CallInv, NEW t \in Threads, op' = [op EXCEPT ![t] = op'[t]], Mild(t), StaysDead,
         NEW s \in Threads \ {t}, op'[s] # NoOp
  PROVE  Asked(s)' /\ Pending(s)'
<1>1. op'[s] = op[s] /\ op[s] # NoOp
  BY DEF LockInv, RefType
<1>2. Asked(s) /\ Pending(s)
  BY <1>1 DEF CallInv
<1>3. /\ \/ log'[op[s].y] = log[op[s].y]
         \/ log'[op[s].y] # None /\ op[s].pc # "store"
      /\ \/ log'[op[s].x] = log[op[s].x]
         \/ /\ log'[op[s].x] # None /\ op[s].kind \notin {"copy", "destroy"}
            /\ op[s].pc # "store" \/ op[s].kind # "swap"
  BY <1>1 DEF Mild
<1>4. Asked(s)'
  BY <1>1, <1>2, <1>3 DEF Asked
<1>5. op[s].pc \in {"drop", "destroy"} => op[s].other \in Inners
  BY <1>2 DEF Pending
<1>6. op[s].pc = "destroy" => use_count'[op[s].other] = 0
  BY <1>2, <1>5 DEF Pending, StaysDead
<1>7. Pending(s)'
  BY <1>1, <1>2, <1>3, <1>5, <1>6 DEF Pending
<1>. QED BY <1>4, <1>7

\* A call goes on: it is enough to look at its own thread.
LEMMA CallGoesOn ==
  ASSUME LockInv, CallInv, NEW t \in Threads, NEW from, NEW pcs, Goes(t, from, pcs),
         Mild(t), StaysDead, op'[t] # NoOp => Asked(t)' /\ Pending(t)'
  PROVE  CallInv'
<1>1. /\ op[t] # NoOp /\ op' = [op EXCEPT ![t] = op'[t]]
      /\ op'[t] # NoOp => op'[t].kind = op[t].kind /\ op'[t].x = op[t].x /\ op'[t].y = op[t].y
  BY DEF Goes
<1>2. \A s \in Threads \ {t} : op'[s] = op[s]
  BY <1>1 DEF LockInv, RefType
<1>3. ASSUME NEW s \in Threads, op'[s] # NoOp PROVE Asked(s)' /\ Pending(s)'
  BY <1>1, <1>3, OthersCalls
<1>4. ASSUME NEW s \in Threads, NEW r \in Threads, s # r, op'[s] # NoOp, op'[r] # NoOp
      PROVE  Alone(s, r)'
  <2>1. op[s] # NoOp /\ op[r] # NoOp
    BY <1>1, <1>2, <1>4
  <2>2. /\ op'[s].x = op[s].x /\ op'[s].y = op[s].y
        /\ op'[r].kind = op[r].kind /\ op'[r].x = op[r].x
    BY <1>1, <1>2, <1>4
  <2>3. Alone(s, r)
    BY <1>4, <2>1 DEF CallInv
  <2>. QED BY <2>2, <2>3 DEF Alone
<1>. QED BY <1>3, <1>4 DEF CallInv

\* Steps at the locks.
LEMMA LockStepCalls ==
  ASSUME LockInv, LockInv', CallInv, NEW t \in Threads, UNCHANGED <<log, use_count>>,
         TakeLock(t) \/ CountUp(t) \/ CountDown(t) \/ GiveUpLock(t) \/ LogStep(t)
  PROVE  CallInv' /\ Still
<1>1. PICK from \in {"lock", "count", "uncount", "release", "log"},
           pcs \in {{"count"}, {"read", "lock"}, {"release", "uncount"}, {"uncount"}, {"log"}} :
        /\ Goes(t, from, pcs)
        /\ from = "lock" => pcs = {"count"}
        /\ from = "count" => pcs = {"read", "lock"}
        /\ from = "uncount" => pcs = {"release", "uncount"}
        /\ from = "release" => pcs = {"uncount"}
        /\ from = "log" => pcs = {"log"}
  BY StepsGo
<1>2. /\ op[t] # NoOp /\ op[t].pc = from /\ op' = [op EXCEPT ![t] = op'[t]]
      /\ op'[t] # NoOp => /\ op'[t].kind = op[t].kind /\ op'[t].x = op[t].x /\ op'[t].y = op[t].y
                          /\ op'[t].pc \in pcs
  BY <1>1 DEF Goes
<1>3. Asked(t)
  BY <1>2 DEF CallInv
<1>4. op'[t] # NoOp => Asked(t)' /\ Pending(t)'
  <2>1. SUFFICES ASSUME op'[t] # NoOp PROVE Asked(t)' /\ Pending(t)'
    OBVIOUS
  <2>2. Asked(t)'
    BY <1>1, <1>2, <1>3, <2>1 DEF Asked
  <2>3. Pending(t)'
    BY <1>1, <1>2, <2>1 DEF Pending
  <2>. QED BY <2>2, <2>3
<1>5. Mild(t) /\ StaysDead
  BY DEF Mild, StaysDead
<1>6. CallInv'
  BY <1>1, <1>4, <1>5, CallGoesOn
<1>7. op'[t].pc # "store" /\ op[t].pc # "store"
  BY <1>1, <1>2 DEF NoOp
<1>. QED BY <1>2, <1>6, <1>7, StillStep

-----------------------------------------------------------------------------
\* The parts of a reference count.
Base(i) == IF i = Empty THEN 1 ELSE 0
RefsTo(i) == {x \in Loggers : Target(x) = i}
Dropping(i) == {t \in Threads : OpAt(t, "drop") /\ op[t].other = i}

SumRule ==
  \A i \in Inners :
    /\ References(i) = Base(i) + Cardinality(RefsTo(i)) + Cardinality(Dropping(i))
    /\ Base(i) \in Nat /\ Base(Empty) = 1
    /\ IsFiniteSet(RefsTo(i)) /\ Cardinality(RefsTo(i)) \in Nat
    /\ IsFiniteSet(Dropping(i)) /\ Cardinality(Dropping(i)) \in Nat

LEMMA SumIs == SumRule
<1>. SUFFICES ASSUME NEW i \in Inners
              PROVE  /\ References(i) = Base(i) + Cardinality(RefsTo(i)) + Cardinality(Dropping(i))
                     /\ Base(i) \in Nat /\ Base(Empty) = 1
                     /\ IsFiniteSet(RefsTo(i)) /\ Cardinality(RefsTo(i)) \in Nat
                     /\ IsFiniteSet(Dropping(i)) /\ Cardinality(Dropping(i)) \in Nat
  BY DEF SumRule
<1>1. RefsTo(i) \subseteq Loggers /\ Dropping(i) \subseteq Threads
  BY DEF RefsTo, Dropping
<1>2. IsFiniteSet(RefsTo(i)) /\ IsFiniteSet(Dropping(i))
  BY <1>1, LoggerAssumption, FS_Subset
<1>3. Cardinality(RefsTo(i)) \in Nat /\ Cardinality(Dropping(i)) \in Nat
  BY <1>2, FS_CardinalityType
<1>4. References(i) = Base(i) + Cardinality(RefsTo(i)) + Cardinality(Dropping(i))
  BY DEF References, Base, RefsTo, Dropping
<1>5. Base(i) \in Nat /\ Base(Empty) = 1
  BY DEF Base
<1>. QED BY <1>2, <1>3, <1>4, <1>5

LEMMA SumIsNext == SumRule'
BY SumIs, PTL

\* Two finite sets that differ in one member at most.
LEMMA OneMember ==
  ASSUME NEW A, NEW B, NEW z, IsFiniteSet(A), IsFiniteSet(B), A \ {z} = B \ {z}
  PROVE  /\ (z \in A <=> z \in B) => Cardinality(B) = Cardinality(A)
         /\ z \notin A /\ z \in B => Cardinality(B) = Cardinality(A) + 1
         /\ z \in A /\ z \notin B => Cardinality(A) = Cardinality(B) + 1
<1>1. ASSUME z \in A <=> z \in B PROVE Cardinality(B) = Cardinality(A)
  <2>1. A = B
    BY <1>1
  <2>. QED BY <2>1
<1>2. ASSUME z \notin A, z \in B PROVE Cardinality(B) = Cardinality(A) + 1
  <2>1. B = A \cup {z}
    BY <1>2
  <2>. QED BY <1>2, <2>1, FS_AddElement
<1>3. ASSUME z \in A, z \notin B PROVE Cardinality(A) = Cardinality(B) + 1
  <2>1. A = B \cup {z}
    BY <1>3
  <2>. QED BY <1>3, <2>1, FS_AddElement
<1>. QED BY <1>1, <1>2, <1>3

LEMMA NotEmpty ==
  ASSUME NEW A, NEW z \in A, IsFiniteSet(A) PROVE Cardinality(A) \in Nat /\ Cardinality(A) >= 1
<1>1. Cardinality(A) \in Nat /\ (Cardinality(A) = 0 <=> A = {})
  BY FS_CardinalityType, FS_EmptySet
<1>. QED BY <1>1

\* What a step changes of the threads that are about to drop a reference, and of the loggers.
LEMMA DroppingChanges ==
  ASSUME LockInv, NEW t \in Threads, op' = [op EXCEPT ![t] = op'[t]], NEW i \in Inners
  PROVE  /\ t \in Dropping(i) <=> op[t].pc = "drop" /\ op[t].other = i
         /\ t \in Dropping(i)' <=> op'[t].pc = "drop" /\ op'[t].other = i
         /\ (t \in Dropping(i) <=> t \in Dropping(i)') =>
              Cardinality(Dropping(i)') = Cardinality(Dropping(i))
         /\ t \notin Dropping(i) /\ t \in Dropping(i)' =>
              Cardinality(Dropping(i)') = Cardinality(Dropping(i)) + 1
         /\ t \in Dropping(i) /\ t \notin Dropping(i)' =>
              Cardinality(Dropping(i)) = Cardinality(Dropping(i)') + 1
<1>1. \A s \in Threads \ {t} : op'[s] = op[s]
  BY DEF LockInv, RefType
<1>2. Dropping(i) \ {t} = Dropping(i)' \ {t}
  BY <1>1 DEF Dropping, OpAt
<1>3. IsFiniteSet(Dropping(i)) /\ IsFiniteSet(Dropping(i)')
  BY SumIs, SumIsNext DEF SumRule
<1>4. /\ t \in Dropping(i) <=> op[t].pc = "drop" /\ op[t].other = i
      /\ t \in Dropping(i)' <=> op'[t].pc = "drop" /\ op'[t].other = i
  BY DEF Dropping, OpAt
<1>. QED BY <1>2, <1>3, <1>4, OneMember

LEMMA RefsToChanges ==
  ASSUME NEW z \in Loggers, NEW v, Sets(z, v), NEW i \in Inners
  PROVE  /\ (Target(z) = i <=> v = i) => Cardinality(RefsTo(i)') = Cardinality(RefsTo(i))
         /\ Target(z) # i /\ v = i => Cardinality(RefsTo(i)') = Cardinality(RefsTo(i)) + 1
         /\ Target(z) = i /\ v # i => Cardinality(RefsTo(i)) = Cardinality(RefsTo(i)') + 1
<1>1. RefsTo(i) \ {z} = RefsTo(i)' \ {z}
  BY DEF RefsTo, Sets
<1>2. IsFiniteSet(RefsTo(i)) /\ IsFiniteSet(RefsTo(i)')
  BY SumIs, SumIsNext DEF SumRule
<1>3. (z \in RefsTo(i) <=> Target(z) = i) /\ (z \in RefsTo(i)' <=> v = i)
  BY DEF RefsTo, Sets
<1>. QED BY <1>1, <1>2, <1>3, OneMember

LEMMA RefsToExchanged ==
  ASSUME NEW l \in Loggers, NEW u \in Loggers, Exchanges(l, u), NEW i \in Inners
  PROVE  Cardinality(RefsTo(i)') = Cardinality(RefsTo(i))
<1>. DEFINE C == {x \in Loggers : (IF x = l THEN Target(u) ELSE Target(x)) = i}
<1>1. /\ RefsTo(i) \ {l} = C \ {l} /\ C \ {u} = RefsTo(i)' \ {u}
      /\ l \in RefsTo(i) <=> Target(l) = i
      /\ l \in C <=> Target(u) = i
      /\ l # u => (u \in C <=> Target(u) = i)
      /\ u \in RefsTo(i)' <=> Target(l) = i
  BY DEF RefsTo, Exchanges
<1>2. IsFiniteSet(RefsTo(i)) /\ IsFiniteSet(RefsTo(i)') /\ IsFiniteSet(C)
  <2>1. C \subseteq Loggers
    OBVIOUS
  <2>. QED BY <2>1, LoggerAssumption, FS_Subset, SumIs, SumIsNext DEF SumRule
<1>3. /\ Cardinality(RefsTo(i)) \in Nat /\ Cardinality(C) \in Nat
      /\ Cardinality(RefsTo(i)') \in Nat
  BY <1>2, FS_CardinalityType
<1>. HIDE DEF C
<1>4. CASE l = u
  <2>1. RefsTo(i)' = RefsTo(i)
    BY <1>4 DEF RefsTo, Exchanges
  <2>. QED BY <2>1
<1>5. CASE l # u
  <2>1. /\ (Target(l) = i <=> Target(u) = i) => Cardinality(C) = Cardinality(RefsTo(i))
        /\ Target(l) # i /\ Target(u) = i => Cardinality(C) = Cardinality(RefsTo(i)) + 1
        /\ Target(l) = i /\ Target(u) # i => Cardinality(RefsTo(i)) = Cardinality(C) + 1
    BY <1>1, <1>2, OneMember
  <2>2. /\ (Target(l) = i <=> Target(u) = i) => Cardinality(RefsTo(i)') = Cardinality(C)
        /\ Target(u) # i /\ Target(l) = i => Cardinality(RefsTo(i)') = Cardinality(C) + 1
        /\ Target(u) = i /\ Target(l) # i => Cardinality(C) = Cardinality(RefsTo(i)') + 1
    BY <1>1, <1>2, <1>5, OneMember
  <2>. QED BY <1>3, <2>1, <2>2
<1>. QED BY <1>4, <1>5

LEMMA RefsToKept ==
  ASSUME Still, NEW i \in Inners
  PROVE  Cardinality(RefsTo(i)') = Cardinality(RefsTo(i))
<1>1. RefsTo(i)' = RefsTo(i)
  BY DEF RefsTo, Still
<1>. QED BY <1>1

\* The counts are right, and a count that is zero stays so.
CountsRight ==
  /\ use_count \in [Inners -> Nat]
  /\ \A i \in Inners : use_count[i] = References(i)

\* A step that changes neither references nor counts.
LEMMA CountsKept ==
  ASSUME LockInv, CountsRight, NEW t \in Threads, op' = [op EXCEPT ![t] = op'[t]], Still,
         op[t].pc # "drop", op'[t].pc # "drop", UNCHANGED use_count
  PROVE  CountsRight' /\ StaysDead
<1>1. ASSUME NEW i \in Inners PROVE References(i)' = References(i)
  <2>1. Cardinality(Dropping(i)') = Cardinality(Dropping(i))
    BY DroppingChanges
  <2>2. Cardinality(RefsTo(i)') = Cardinality(RefsTo(i))
    BY RefsToKept
  <2>. QED BY <2>1, <2>2, SumIs, SumIsNext DEF SumRule, Base
<1>. QED BY <1>1 DEF CountsRight, StaysDead

-----------------------------------------------------------------------------
\* The two steps of a swap exchange pointers and count nothing.
LEMMA SwapCounts ==
  ASSUME LockInv, LockInv', CallInv, CountsRight, NEW t \in Threads, StoreLog(t),
         op[t].kind = "swap"
  PROVE  CountsRight' /\ StaysDead
<1>1. /\ op[t] # NoOp /\ op[t].pc = "store" /\ op' = [op EXCEPT ![t] = op'[t]]
      /\ UNCHANGED use_count
  BY StepsGo DEF Goes, StoreLog
<1>2. op'[t].pc # "drop"
  <2>1. op' = [op EXCEPT ![t].pc = "uncount"] /\ op[t] \in Calls
    BY <1>1, CallOf DEF StoreLog
  <2>. QED BY <2>1 DEF LockInv, RefType, Calls
<1>3. PICK l \in Loggers, u \in Loggers :
        l = Lower(op[t].x, op[t].y) /\ u = Upper(op[t].x, op[t].y)
  BY <1>1, CallOf
<1>4. Exchanges(l, u)
  BY <1>3, StoreExchanges
<1>5. ASSUME NEW i \in Inners PROVE References(i)' = References(i)
  <2>1. Cardinality(Dropping(i)') = Cardinality(Dropping(i))
    BY <1>1, <1>2, DroppingChanges
  <2>2. Cardinality(RefsTo(i)') = Cardinality(RefsTo(i))
    BY <1>4, RefsToExchanged
  <2>. QED BY <2>1, <2>2, SumIs, SumIsNext DEF SumRule, Base
<1>. QED BY <1>1, <1>5 DEF CountsRight, StaysDead

\* What StoreLog does to a call that is no swap.
LEMMA StoresOther ==
  ASSUME LockInv, LockInv', NEW t \in Threads, StoreLog(t), op[t].kind # "swap",
         NEW old, old = log[op[t].x], NEW new, new = op[t].other
  PROVE  /\ old \in {None, new} => op'[t].pc \in {"none", "uncount"}
         /\ old \notin {None, new} => op'[t].pc = "drop" /\ op'[t].other = old
         /\ use_count' = [i \in Inners |->
                             IF i = new /\ old # new THEN use_count[i] + 1 ELSE use_count[i]]
<1>1. op[t] \in Calls
  BY CallOf DEF StoreLog, OpAt, NoOp
<1>2. /\ IF old \in {None, new} THEN Continue(t)
         ELSE op' = [op EXCEPT ![t].pc = "drop", ![t].other = old]
      /\ use_count' = [i \in Inners |->
                             IF i = new /\ old # new THEN use_count[i] + 1 ELSE use_count[i]]
  BY DEF StoreLog
<1>3. old \in {None, new} => op'[t].pc \in {"none", "uncount"}
  <2>1. Continue(t) => op'[t].pc \in {"none", "uncount"}
    BY <1>1 DEF Continue, LockInv, RefType, Calls, NoOp
  <2>. QED BY <1>2, <2>1
<1>4. old \notin {None, new} => op'[t].pc = "drop" /\ op'[t].other = old
  <2>1. op' = [op EXCEPT ![t].pc = "drop", ![t].other = old] =>
          op'[t].pc = "drop" /\ op'[t].other = old
    BY <1>1 DEF LockInv, RefType, Calls
  <2>. QED BY <1>2, <2>1
<1>. QED BY <1>2, <1>3, <1>4

\* A new reference is counted; the one it replaces stays in the hands of the thread.
LEMMA StoreCounts ==
  ASSUME LockInv, LockInv', CallInv, CountsRight, NEW t \in Threads, StoreLog(t),
         op[t].kind # "swap"
  PROVE  CountsRight' /\ StaysDead
<1>1. /\ op[t] # NoOp /\ op[t].pc = "store" /\ op' = [op EXCEPT ![t] = op'[t]]
  BY StepsGo DEF Goes
<1>2. PICK z \in Loggers : z = op[t].x
  BY <1>1, CallOf
<1>3. PICK old : old = log[z]
  OBVIOUS
<1>4. PICK new : new = op[t].other
  OBVIOUS
<1>5. /\ Target(z) = old /\ Sets(z, new)
      /\ op[t].kind \in {"assign", "copy", "destroy"}
      /\ op[t].kind \in {"assign", "copy"} => new = Target(op[t].y)
  BY <1>2, <1>3, <1>4, StoreSets
<1>6. /\ old \in {None, new} => op'[t].pc \in {"none", "uncount"}
      /\ old \notin {None, new} => op'[t].pc = "drop" /\ op'[t].other = old
      /\ use_count' = [i \in Inners |->
                             IF i = new /\ old # new THEN use_count[i] + 1 ELSE use_count[i]]
  BY <1>2, <1>3, <1>4, StoresOther
<1>7. ASSUME NEW i \in Inners PROVE use_count'[i] = References(i)'
  <2>1. use_count[i] = References(i) /\ use_count[i] \in Nat /\ i # None
    BY Constants DEF CountsRight
  <2>2. /\ References(i) = Base(i) + Cardinality(RefsTo(i)) + Cardinality(Dropping(i))
        /\ References(i)' = Base(i) + Cardinality(RefsTo(i)') + Cardinality(Dropping(i)')
        /\ Base(i) \in Nat
        /\ Cardinality(RefsTo(i)) \in Nat /\ Cardinality(RefsTo(i)') \in Nat
        /\ Cardinality(Dropping(i)) \in Nat /\ Cardinality(Dropping(i)') \in Nat
    BY SumIs, SumIsNext DEF SumRule, Base
  <2>3. /\ (old = i <=> new = i) => Cardinality(RefsTo(i)') = Cardinality(RefsTo(i))
        /\ old # i /\ new = i => Cardinality(RefsTo(i)') = Cardinality(RefsTo(i)) + 1
        /\ old = i /\ new # i => Cardinality(RefsTo(i)) = Cardinality(RefsTo(i)') + 1
    BY <1>5, RefsToChanges
  <2>4. op[t].pc # "drop" /\ (op'[t].pc = "drop" /\ op'[t].other = i <=> old = i /\ new # i)
    BY <1>1, <1>6, <2>1
  <2>5. /\ ~(old = i /\ new # i) => Cardinality(Dropping(i)') = Cardinality(Dropping(i))
        /\ old = i /\ new # i => Cardinality(Dropping(i)') = Cardinality(Dropping(i)) + 1
    BY <1>1, <2>4, DroppingChanges
  <2>6. /\ i = new /\ old # new => use_count'[i] = use_count[i] + 1
        /\ ~(i = new /\ old # new) => use_count'[i] = use_count[i]
    BY <1>6
  <2>7. CASE old = i /\ new # i
    BY <2>1, <2>2, <2>3, <2>5, <2>6, <2>7
  <2>8. CASE old # i /\ new = i
    BY <2>1, <2>2, <2>3, <2>5, <2>6, <2>8
  <2>9. CASE old = i <=> new = i
    BY <2>1, <2>2, <2>3, <2>5, <2>6, <2>9
  <2>. QED BY <2>7, <2>8, <2>9
<1>8. use_count' \in [Inners -> Nat]
  BY <1>6 DEF CountsRight
<1>9. ASSUME NEW i \in Inners, use_count[i] = 0 PROVE use_count'[i] = 0
  <2>1. SUFFICES ASSUME i = new PROVE FALSE
    BY <1>6, <1>9
  <2>2. new = Target(op[t].y) /\ op[t].y \in Loggers
    <3>1. op[t].kind # "destroy"
      BY <1>1, <1>4, <2>1, Constants DEF CallInv, Asked
    <3>. QED BY <1>1, <1>5, <3>1, CallOf
  <2>3. op[t].y \in RefsTo(i)
    BY <2>1, <2>2 DEF RefsTo
  <2>4. /\ References(i) = Base(i) + Cardinality(RefsTo(i)) + Cardinality(Dropping(i))
        /\ Base(i) \in Nat /\ Cardinality(RefsTo(i)) \in Nat /\ IsFiniteSet(RefsTo(i))
        /\ Cardinality(Dropping(i)) \in Nat
    BY SumIs DEF SumRule
  <2>5. Cardinality(RefsTo(i)) >= 1
    BY <2>3, <2>4, NotEmpty
  <2>. QED BY <1>9, <2>4, <2>5 DEF CountsRight
<1>. QED BY <1>7, <1>8, <1>9 DEF CountsRight, StaysDead

\* The reference a thread has is given back.
LEMMA DropCounts ==
  ASSUME LockInv, LockInv', CallInv, CountsRight, NEW t \in Threads, DropReference(t)
  PROVE  CountsRight' /\ StaysDead /\ Still
<1>1. /\ op[t] # NoOp /\ op[t].pc = "drop" /\ op' = [op EXCEPT ![t] = op'[t]]
      /\ op'[t].pc # "drop" /\ op'[t].pc # "store"
  BY StepsGo DEF Goes, NoOp
<1>2. PICK old \in Inners : old = op[t].other
  BY <1>1 DEF CallInv, Pending
<1>3. use_count' = [use_count EXCEPT ![old] = @ - 1] /\ UNCHANGED log
  BY <1>2 DEF DropReference
<1>4. Still
  BY <1>1, <1>3, StillStep
<1>5. ASSUME NEW i \in Inners
      PROVE  /\ use_count'[i] = References(i)' /\ use_count'[i] \in Nat
             /\ use_count[i] = 0 => use_count'[i] = 0
  <2>1. use_count[i] = References(i) /\ use_count[i] \in Nat
    BY DEF CountsRight
  <2>2. /\ References(i) = Base(i) + Cardinality(RefsTo(i)) + Cardinality(Dropping(i))
        /\ References(i)' = Base(i) + Cardinality(RefsTo(i)') + Cardinality(Dropping(i)')
        /\ Base(i) \in Nat
        /\ Cardinality(RefsTo(i)) \in Nat /\ Cardinality(RefsTo(i)') \in Nat
        /\ Cardinality(Dropping(i)) \in Nat /\ Cardinality(Dropping(i)') \in Nat
    BY SumIs, SumIsNext DEF SumRule, Base
  <2>3. Cardinality(RefsTo(i)') = Cardinality(RefsTo(i))
    BY <1>4, RefsToKept
  <2>4. /\ old # i => Cardinality(Dropping(i)') = Cardinality(Dropping(i))
        /\ old = i => Cardinality(Dropping(i)) = Cardinality(Dropping(i)') + 1
    BY <1>1, <1>2, DroppingChanges
  <2>5. /\ old # i => use_count'[i] = use_count[i]
        /\ old = i => use_count'[i] = use_count[i] - 1
    BY <1>3 DEF CountsRight
  <2>. QED BY <2>1, <2>2, <2>3, <2>4, <2>5
<1>6. use_count' \in [Inners -> Nat]
  <2>1. DOMAIN use_count' = Inners /\ use_count' = [i \in Inners |-> use_count'[i]]
    BY <1>3 DEF CountsRight
  <2>. QED BY <1>5, <2>1
<1>. QED BY <1>4, <1>5, <1>6 DEF CountsRight, StaysDead

\* One more reference to the empty logger.
LEMMA ConstructCounts ==
  ASSUME LockInv, LockInv', CountsRight, NEW t \in Threads, NEW x \in Loggers,
         DefaultConstruct(t, x)
  PROVE  CountsRight' /\ StaysDead
<1>1. /\ UNCHANGED op /\ op[t] = NoOp /\ op' = [op EXCEPT ![t] = op'[t]]
      /\ use_count' = [use_count EXCEPT ![Empty] = @ + 1]
  BY DEF DefaultConstruct, Idle, LockInv, RefType
<1>2. Target(x) = None /\ Sets(x, Empty) /\ None # Empty
  BY ConstructSets, Constants
<1>3. ASSUME NEW i \in Inners
      PROVE  /\ use_count'[i] = References(i)' /\ use_count'[i] \in Nat
             /\ use_count[i] = 0 => use_count'[i] = 0
  <2>1. use_count[i] = References(i) /\ use_count[i] \in Nat /\ i # None
    BY Constants DEF CountsRight
  <2>2. /\ References(i) = Base(i) + Cardinality(RefsTo(i)) + Cardinality(Dropping(i))
        /\ References(i)' = Base(i) + Cardinality(RefsTo(i)') + Cardinality(Dropping(i)')
        /\ Base(i) \in Nat
        /\ Cardinality(RefsTo(i)) \in Nat /\ Cardinality(RefsTo(i)') \in Nat
        /\ Cardinality(Dropping(i)) \in Nat /\ Cardinality(Dropping(i)') \in Nat
    BY SumIs, SumIsNext DEF SumRule, Base
  <2>3. i = Empty => Base(i) = 1
    BY DEF Base
  <2>4. /\ i # Empty => Cardinality(RefsTo(i)') = Cardinality(RefsTo(i))
        /\ i = Empty => Cardinality(RefsTo(i)') = Cardinality(RefsTo(i)) + 1
    BY <1>2, <2>1, RefsToChanges
  <2>5. Cardinality(Dropping(i)') = Cardinality(Dropping(i))
    BY <1>1 DEF Dropping, OpAt
  <2>6. /\ i # Empty => use_count'[i] = use_count[i]
        /\ i = Empty => use_count'[i] = use_count[i] + 1
    BY <1>1 DEF CountsRight
  <2>. QED BY <2>1, <2>2, <2>3, <2>4, <2>5, <2>6
<1>4. use_count' \in [Inners -> Nat]
  <2>1. DOMAIN use_count' = Inners /\ use_count' = [i \in Inners |-> use_count'[i]]
    BY <1>1 DEF CountsRight
  <2>. QED BY <1>3, <2>1
<1>. QED BY <1>3, <1>4 DEF CountsRight, StaysDead

-----------------------------------------------------------------------------
\* Reading the pointer of that, or taking that of the first logger.
LEMMA ReadLogCalls ==
  ASSUME LockInv, LockInv', CallInv, NEW t \in Threads, ReadLog(t)
  PROVE  CallInv'
<1>1. /\ Goes(t, "read", {"store"}) /\ op[t] # NoOp /\ op[t].pc = "read"
  BY StepsGo DEF Goes
<1>2. Asked(t)
  BY <1>1 DEF CallInv
<1>3. /\ op[t] \in Calls /\ op[t].x \in Loggers /\ op[t].y \in Loggers /\ op[t].kind \in Kinds
  BY <1>1, CallOf
<1>4. StaysDead
  BY DEF ReadLog, StaysDead
<1>5. CASE op[t].kind = "swap"
  <2>1. PICK l \in Loggers, u \in Loggers :
          /\ l = Lower(op[t].x, op[t].y) /\ u = Upper(op[t].x, op[t].y)
          /\ {l, u} = {op[t].x, op[t].y}
    BY <1>1, CallOf
  <2>2. /\ op' = [op EXCEPT ![t].pc = "store", ![t].other = log[l]]
        /\ log' = [log EXCEPT ![l] = log[u]]
    BY <1>5, <2>1 DEF ReadLog
  <2>3. /\ op'[t].pc = "store" /\ op'[t].kind = "swap" /\ op'[t].other = log[l]
        /\ op'[t].x = op[t].x /\ op'[t].y = op[t].y
    BY <1>3, <1>5, <2>2 DEF LockInv, RefType, Calls
  <2>4. log[l] # None /\ log[u] # None
    BY <1>2, <1>5, <2>1 DEF Asked
  <2>5. thread_id[l] = t
    BY <1>1, <1>5, <2>1, HasLocks
  <2>6. Mild(t)
    BY <1>1, <2>1, <2>2, <2>4, <2>5, WriteIsMild
  <2>7. log'[l] = log[u] /\ log'[u] = log[u]
    BY <2>2 DEF LockInv, RefType
  <2>8. Asked(t)'
    BY <1>2, <1>5, <2>1, <2>3, <2>4, <2>7 DEF Asked
  <2>9. Pending(t)'
    BY <2>1, <2>3, <2>4, <2>7 DEF Pending
  <2>. QED BY <1>1, <1>4, <2>6, <2>8, <2>9, CallGoesOn
<1>6. CASE op[t].kind # "swap"
  <2>1. op' = [op EXCEPT ![t].pc = "store", ![t].other = log[op[t].y]] /\ UNCHANGED log
    BY <1>6 DEF ReadLog
  <2>2. /\ op'[t].pc = "store" /\ op'[t].kind = op[t].kind /\ op'[t].other = log[op[t].y]
        /\ op'[t].x = op[t].x /\ op'[t].y = op[t].y
    BY <1>3, <2>1 DEF LockInv, RefType, Calls
  <2>3. op[t].kind \in {"assign", "copy"}
    BY <1>1, <1>2, <1>3, <1>6 DEF Asked, Kinds
  <2>4. Mild(t)
    BY <2>1 DEF Mild
  <2>5. Asked(t)'
    BY <1>1, <1>2, <2>1, <2>2, <2>3 DEF Asked
  <2>6. Pending(t)'
    BY <2>1, <2>2, <2>3 DEF Pending
  <2>. QED BY <1>1, <1>4, <2>4, <2>5, <2>6, CallGoesOn
<1>. QED BY <1>5, <1>6

\* A destruction, which has no lock, is over when it has dropped its reference.
LEMMA DestroyEnds ==
  ASSUME LockInv, NEW t \in Threads, op[t].kind = "destroy", op[t] # NoOp, Continue(t)
  PROVE  op'[t] = NoOp
<1>1. op[t].held \in 0..2 /\ op[t].held <= Len(Locks(t))
  BY InCall
<1>2. Len(Locks(t)) = 0
  BY DEF Locks, LocksOf
<1>3. op[t].held = 0
  BY <1>1, <1>2
<1>. QED BY <1>3 DEF Continue, LockInv, RefType

\* The pointer is stored.
LEMMA StoreLogCalls ==
  ASSUME LockInv, LockInv', CallInv, NEW t \in Threads, StoreLog(t), StaysDead
  PROVE  CallInv'
<1>1. /\ Goes(t, "store", {"uncount", "drop"}) /\ op[t] # NoOp /\ op[t].pc = "store"
      /\ op'[t] # NoOp => op'[t].kind = op[t].kind /\ op'[t].x = op[t].x /\ op'[t].y = op[t].y
                          /\ op'[t].pc \in {"uncount", "drop"}
  BY StepsGo DEF Goes
<1>2. Asked(t) /\ Pending(t)
  BY <1>1 DEF CallInv
<1>3. /\ op[t] \in Calls /\ op[t].x \in Loggers /\ op[t].y \in Loggers /\ op[t].kind \in Kinds
  BY <1>1, CallOf
<1>4. CASE op[t].kind = "swap"
  <2>1. PICK u \in Loggers : u = Upper(op[t].x, op[t].y) /\ u \in {op[t].x, op[t].y}
    BY <1>1, CallOf
  <2>2. log' = [log EXCEPT ![u] = op[t].other] /\ op' = [op EXCEPT ![t].pc = "uncount"]
    BY <1>4, <2>1 DEF StoreLog
  <2>3. op[t].other # None /\ thread_id[u] = t
    BY <1>1, <1>2, <1>4, <2>1, HasLocks DEF Pending
  <2>4. Mild(t)
    BY <1>1, <2>1, <2>2, <2>3, WriteIsMild
  <2>5. op'[t].pc = "uncount" /\ op'[t].kind = "swap" /\ op'[t].x = op[t].x /\ op'[t].y = op[t].y
    BY <1>3, <1>4, <2>2 DEF LockInv, RefType, Calls
  <2>6. log'[op[t].x] # None /\ log'[op[t].y] # None
    BY <1>2, <1>3, <1>4, <2>2, <2>3 DEF Asked, LockInv, RefType
  <2>7. Asked(t)' /\ Pending(t)'
    BY <2>5, <2>6 DEF Asked, Pending
  <2>. QED BY <1>1, <2>4, <2>7, CallGoesOn
<1>5. CASE op[t].kind # "swap"
  <2>1. PICK z \in Loggers : z = op[t].x
    BY <1>3
  <2>2. log' = [log EXCEPT ![z] = op[t].other]
    BY <1>5, <2>1 DEF StoreLog
  <2>3. op[t].kind \in {"assign", "copy", "destroy"}
    BY <1>1, <1>2, <1>3, <1>5 DEF Asked, Kinds
  <2>4. op[t].kind # "destroy" => op[t].other # None /\ op[t].other = log[op[t].y]
    BY <1>1, <1>2, <2>3 DEF Asked, Pending
  <2>5. thread_id[z] = t \/ op[t].kind \in {"copy", "destroy"}
    BY <1>1, <2>1, <2>3, HasLocks
  <2>6. Mild(t)
    BY <1>1, <2>1, <2>2, <2>4, <2>5, WriteIsMild
  <2>7. /\ op[t].kind = "assign" => log'[op[t].x] # None
        /\ op[t].kind \in {"assign", "copy"} => log'[op[t].y] # None
    <3>1. op[t].kind \in {"assign", "copy"} => z # op[t].y /\ log[op[t].y] # None
      BY <1>2, <2>1 DEF Asked
    <3>. QED BY <1>3, <2>1, <2>2, <2>4, <3>1 DEF LockInv, RefType
  <2>8. PICK old \in Inners \cup {None} : old = log[op[t].x]
    BY <1>3 DEF LockInv, RefType
  <2>9. PICK new : new = op[t].other
    OBVIOUS
  <2>10. /\ old \in {None, new} => op'[t].pc \in {"none", "uncount"}
         /\ old \notin {None, new} => op'[t].pc = "drop" /\ op'[t].other = old
    BY <1>5, <2>8, <2>9, StoresOther
  <2>11. op[t].kind = "destroy" => op'[t].pc \notin {"uncount"}
    BY <1>1, <1>2, <2>8, <2>9, <2>10 DEF Asked
  <2>12. op'[t] # NoOp => Asked(t)'
    BY <1>1, <1>2, <2>3, <2>7, <2>11 DEF Asked
  <2>13. op'[t] # NoOp => Pending(t)'
    BY <1>1, <2>8, <2>10 DEF Pending
  <2>. QED BY <1>1, <2>6, <2>12, <2>13, CallGoesOn
<1>. QED BY <1>4, <1>5

\* The reference is dropped, and its internal logger destroyed if it was the last.
LEMMA DropCalls ==
  ASSUME LockInv, LockInv', CallInv, CountsRight, NEW t \in Threads, StaysDead,
         DropReference(t) \/ DestroyInner(t)
  PROVE  CallInv'
<1>1. PICK from \in {"drop", "destroy"}, pcs \in {{"destroy", "uncount"}, {"uncount"}} :
        Goes(t, from, pcs)
  BY StepsGo
<1>2. /\ op[t] # NoOp /\ op[t].pc = from /\ op' = [op EXCEPT ![t] = op'[t]]
      /\ op'[t] # NoOp => /\ op'[t].kind = op[t].kind /\ op'[t].x = op[t].x /\ op'[t].y = op[t].y
                          /\ op'[t].pc \in {"destroy", "uncount"}
  BY <1>1 DEF Goes
<1>3. Asked(t) /\ Pending(t) /\ op[t].other \in Inners
  BY <1>2 DEF CallInv, Pending
<1>4. Mild(t) /\ UNCHANGED log
  BY DEF Mild, DropReference, DestroyInner
<1>5. Continue(t) \/ (op' = [op EXCEPT ![t].pc = "destroy"]
                       /\ use_count'[op[t].other] = 0)
  <2>1. DropReference(t) /\ use_count[op[t].other] = 1 =>
          op' = [op EXCEPT ![t].pc = "destroy"] /\ use_count'[op[t].other] = 0
    BY <1>3 DEF DropReference, CountsRight
  <2>. QED BY <2>1 DEF DropReference, DestroyInner
<1>6. CASE Continue(t)
  <2>1. op[t].kind = "destroy" => op'[t] = NoOp
    BY <1>2, <1>6, DestroyEnds
  <2>2. op[t] \in Calls
    BY <1>2, CallOf
  <2>3. op'[t] # NoOp => op'[t].pc = "uncount"
    BY <1>6, <2>2 DEF Continue, LockInv, RefType, Calls
  <2>4. op'[t] # NoOp => Asked(t)' /\ Pending(t)'
    <3>1. SUFFICES ASSUME op'[t] # NoOp PROVE Asked(t)' /\ Pending(t)'
      OBVIOUS
    <3>2. Asked(t)'
      BY <1>2, <1>3, <1>4, <2>1, <2>3, <3>1 DEF Asked
    <3>. QED BY <2>3, <3>1, <3>2 DEF Pending
  <2>. QED BY <1>1, <1>4, <2>4, CallGoesOn
<1>7. CASE op' = [op EXCEPT ![t].pc = "destroy"] /\ use_count'[op[t].other] = 0
  <2>1. op[t] \in Calls
    BY <1>2, CallOf
  <2>2. op'[t].pc = "destroy" /\ op'[t].other = op[t].other /\ op'[t] # NoOp
    BY <1>7, <2>1 DEF LockInv, RefType, Calls, NoOp
  <2>3. Asked(t)'
    BY <1>2, <1>3, <1>4, <2>2 DEF Asked
  <2>4. Pending(t)'
    BY <1>3, <1>7, <2>2 DEF Pending
  <2>. QED BY <1>1, <1>4, <2>3, <2>4, CallGoesOn
<1>. QED BY <1>5, <1>6, <1>7

-----------------------------------------------------------------------------
\* A call begins on loggers that nobody constructs or destroys, or that nobody uses.
LEMMA CallBegins ==
  ASSUME LockInv, LockInv', CallInv, NEW t \in Threads, op[t] = NoOp,
         UNCHANGED <<log, use_count>>,
         NEW kind \in Kinds, NEW x \in Loggers, NEW y \in Loggers,
         Shared(y), kind \in {"assign", "swap"} => Shared(x), kind = "assign" => x # y,
         kind = "copy" => log[x] = None /\ ~InUse(x),
         kind = "destroy" => x = y /\ ~InUse(x),
         kind = "log" => x = y,
         NEW pc, kind = "destroy" => pc = "store", kind = "log" => pc = "log",
         kind \notin {"destroy", "log"} => pc = "lock",
         op' = [op EXCEPT ![t] = [pc |-> pc, kind |-> kind, x |-> x, y |-> y,
                                  held |-> 0, other |-> None]]
  PROVE  CallInv' /\ Still /\ op' = [op EXCEPT ![t] = op'[t]] /\ op'[t].pc # "drop"
<1>1. /\ op'[t] = [pc |-> pc, kind |-> kind, x |-> x, y |-> y, held |-> 0, other |-> None]
      /\ \A s \in Threads \ {t} : op'[s] = op[s]
      /\ op' = [op EXCEPT ![t] = op'[t]]
  BY DEF LockInv, RefType
<1>2. /\ op'[t].pc = pc /\ op'[t].kind = kind /\ op'[t].x = x /\ op'[t].y = y
      /\ op'[t].other = None
  BY <1>1
<1>3. log[y] # None /\ (kind \in {"assign", "swap"} => log[x] # None)
  BY DEF Shared
<1>4. Asked(t)' /\ Pending(t)'
  <2>1. Asked(t)'
    BY <1>2, <1>3 DEF Asked, Kinds
  <2>2. Pending(t)'
    BY <1>2 DEF Pending, Kinds
  <2>. QED BY <2>1, <2>2
<1>5. Mild(t) /\ StaysDead
  BY DEF Mild, StaysDead
<1>6. ASSUME NEW s \in Threads, op'[s] # NoOp PROVE Asked(s)' /\ Pending(s)'
  BY <1>1, <1>4, <1>5, <1>6, OthersCalls
<1>7. ASSUME NEW s \in Threads \ {t}, op[s] # NoOp
      PROVE  /\ op[s].kind \in {"copy", "destroy"} => op[s].x \notin {x, y}
             /\ kind \in {"copy", "destroy"} => x \notin {op[s].x, op[s].y}
  <2>1. kind \in {"copy", "destroy"} => x \notin {op[s].x, op[s].y}
    BY <1>7 DEF InUse, Idle
  <2>2. op[s].kind \in {"copy", "destroy"} => op[s].x # y
    BY <1>7 DEF Shared, Idle
  <2>3. op[s].kind \in {"copy", "destroy"} /\ kind \in {"assign", "swap"} => op[s].x # x
    BY <1>7 DEF Shared, Idle
  <2>. QED BY <2>1, <2>2, <2>3 DEF Kinds
<1>8. ASSUME NEW s \in Threads, NEW r \in Threads, s # r, op'[s] # NoOp, op'[r] # NoOp
      PROVE  Alone(s, r)'
  <2>1. CASE s = t
    BY <1>1, <1>2, <1>7, <1>8, <2>1 DEF Alone
  <2>2. CASE r = t
    BY <1>1, <1>2, <1>7, <1>8, <2>2 DEF Alone
  <2>3. CASE s # t /\ r # t
    BY <1>1, <1>8, <2>3 DEF Alone, CallInv
  <2>. QED BY <2>1, <2>2, <2>3
<1>9. CallInv'
  BY <1>6, <1>8 DEF CallInv
<1>10. op[t].pc # "store" /\ (op'[t].pc # "store" \/ op'[t].kind # "swap") /\ op'[t].pc # "drop"
  BY <1>2 DEF NoOp, Kinds
<1>11. Still
  BY <1>1, <1>10, StillStep
<1>. QED BY <1>1, <1>9, <1>10, <1>11

\* A logger is constructed that no call is about.
LEMMA ConstructCalls ==
  ASSUME LockInv, CallInv, NEW t \in Threads, NEW x \in Loggers, DefaultConstruct(t, x), StaysDead
  PROVE  CallInv'
<1>1. /\ UNCHANGED op /\ log' = [log EXCEPT ![x] = Empty] /\ ~InUse(x)
  BY DEF DefaultConstruct
<1>2. ASSUME NEW s \in Threads, op'[s] # NoOp PROVE Asked(s)' /\ Pending(s)'
  <2>1. op'[s] = op[s] /\ op[s] # NoOp /\ op[s].x # x /\ op[s].y # x
    BY <1>1, <1>2 DEF InUse, Idle
  <2>2. log'[op[s].x] = log[op[s].x] /\ log'[op[s].y] = log[op[s].y]
    BY <1>1, <2>1, CallOf DEF LockInv, RefType
  <2>3. Asked(s) /\ Pending(s)
    BY <2>1 DEF CallInv
  <2>4. Asked(s)'
    BY <2>1, <2>2, <2>3 DEF Asked
  <2>5. op[s].pc = "destroy" => use_count'[op[s].other] = 0
    BY <2>3 DEF Pending, StaysDead
  <2>6. Pending(s)'
    BY <2>1, <2>2, <2>3, <2>5 DEF Pending
  <2>. QED BY <2>4, <2>6
<1>3. \A s, r \in Threads : s # r /\ op'[s] # NoOp /\ op'[r] # NoOp => Alone(s, r)'
  BY <1>1 DEF Alone, CallInv
<1>. QED BY <1>2, <1>3 DEF CallInv

-----------------------------------------------------------------------------
\* What a step does to the table that the loggers are.
Moves ==
  \/ Still
  \/ \E x, y \in Loggers : Target(y) # None /\ Sets(x, Target(y))
  \/ \E l, u \in Loggers : Target(l) # None /\ Target(u) # None /\ Exchanges(l, u)
  \/ \E x \in Loggers : Target(x) # None /\ Sets(x, None)
  \/ \E x \in Loggers : Target(x) = None /\ Sets(x, Empty)

LEMMA RefKeeps ==
  ASSUME RefInv, CallInv', CountsRight', StaysDead, calls' \in 0..MaxCalls,
         \A i \in Inners : i \in gone' \ gone => use_count'[i] = 0
  PROVE  RefInv'
BY DEF RefInv, CountsRight, StaysDead

LEMMA RefStepKeeps ==
  ASSUME LockInv, LockInv', RefInv, NEW t \in Threads, RefStep(t)
  PROVE  RefInv' /\ Moves
<1>1. CallInv /\ CountsRight
  BY DEF RefInv, CountsRight
<1>2. calls' \in 0..MaxCalls
  BY DEF RefInv, RefStep, TakeLock, CountUp, ReadLog, StoreLog, DropReference, DestroyInner,
         CountDown, GiveUpLock
<1>3. CASE TakeLock(t) \/ CountUp(t) \/ CountDown(t) \/ GiveUpLock(t)
  <2>1. UNCHANGED <<log, use_count, gone>>
    BY <1>3 DEF TakeLock, CountUp, CountDown, GiveUpLock
  <2>2. CallInv' /\ Still
    BY <1>1, <1>3, <2>1, LockStepCalls
  <2>3. op' = [op EXCEPT ![t] = op'[t]] /\ op[t].pc # "drop" /\ op'[t].pc # "drop"
    BY <1>3, StepsGo DEF Goes, NoOp
  <2>4. CountsRight' /\ StaysDead
    BY <1>1, <2>1, <2>2, <2>3, CountsKept
  <2>. QED BY <1>2, <2>1, <2>2, <2>4, RefKeeps DEF Moves
<1>4. CASE ReadLog(t)
  <2>1. UNCHANGED <<use_count, gone>>
    BY <1>4 DEF ReadLog
  <2>2. CallInv' /\ Still
    BY <1>1, <1>4, ReadLogCalls, ReadLogStill
  <2>3. op' = [op EXCEPT ![t] = op'[t]] /\ op[t].pc # "drop" /\ op'[t].pc # "drop"
    BY <1>4, StepsGo DEF Goes, NoOp
  <2>4. CountsRight' /\ StaysDead
    BY <1>1, <2>1, <2>2, <2>3, CountsKept
  <2>. QED BY <1>2, <2>1, <2>2, <2>4, RefKeeps DEF Moves
<1>5. CASE StoreLog(t)
  <2>1. UNCHANGED gone
    BY <1>5 DEF StoreLog
  <2>2. CountsRight' /\ StaysDead
    BY <1>1, <1>5, SwapCounts, StoreCounts
  <2>3. CallInv'
    BY <1>1, <1>5, <2>2, StoreLogCalls
  <2>4. op[t] # NoOp /\ op[t].pc = "store" /\ Asked(t) /\ Pending(t)
    BY <1>1, <1>5 DEF StoreLog, OpAt, NoOp, CallInv
  <2>5. Moves
    <3>1. CASE op[t].kind = "swap"
      <4>1. PICK l \in Loggers, u \in Loggers :
              l = Lower(op[t].x, op[t].y) /\ u = Upper(op[t].x, op[t].y)
        BY <2>4, CallOf
      <4>2. Exchanges(l, u) /\ Target(l) # None /\ Target(u) # None
        BY <1>1, <1>5, <3>1, <4>1, StoreExchanges
      <4>. QED BY <4>2 DEF Moves
    <3>2. CASE op[t].kind # "swap"
      <4>1. PICK z \in Loggers, y \in Loggers, v \in Inners \cup {None} :
              z = op[t].x /\ y = op[t].y /\ v = op[t].other
        BY <2>4, CallOf
      <4>2. /\ Target(z) = log[z] /\ Sets(z, v)
            /\ op[t].kind \in {"assign", "copy", "destroy"}
            /\ op[t].kind \in {"assign", "copy"} => v = Target(y)
        BY <1>1, <1>5, <3>2, <4>1, StoreSets
      <4>3. op[t].kind \in {"assign", "copy"} => v # None
        BY <2>4, <4>1 DEF Asked, Pending
      <4>4. op[t].kind = "destroy" => v = None /\ Target(z) # None
        BY <2>4, <4>1, <4>2 DEF Asked
      <4>. QED BY <4>2, <4>3, <4>4 DEF Moves
    <3>. QED BY <3>1, <3>2
  <2>. QED BY <1>2, <2>1, <2>2, <2>3, <2>5, RefKeeps
<1>6. CASE DropReference(t)
  <2>1. UNCHANGED gone
    BY <1>6 DEF DropReference
  <2>2. CountsRight' /\ StaysDead /\ Still
    BY <1>1, <1>6, DropCounts
  <2>3. CallInv'
    BY <1>1, <1>6, <2>2, DropCalls
  <2>. QED BY <1>2, <2>1, <2>2, <2>3, RefKeeps DEF Moves
<1>7. CASE DestroyInner(t)
  <2>1. gone' = gone \cup {op[t].other} /\ UNCHANGED <<use_count, log>>
    BY <1>7 DEF DestroyInner
  <2>2. /\ op[t] # NoOp /\ op' = [op EXCEPT ![t] = op'[t]] /\ op[t].pc = "destroy"
        /\ op'[t].pc # "drop" /\ op'[t].pc # "store"
    BY <1>7, StepsGo DEF Goes, NoOp
  <2>3. Still
    BY <2>1, <2>2, StillStep
  <2>4. CountsRight' /\ StaysDead
    BY <1>1, <2>1, <2>2, <2>3, CountsKept
  <2>5. CallInv'
    BY <1>1, <1>7, <2>4, DropCalls
  <2>6. use_count[op[t].other] = 0
    BY <1>1, <2>2 DEF CallInv, Pending
  <2>. QED BY <1>2, <2>1, <2>3, <2>4, <2>5, <2>6, RefKeeps DEF Moves
<1>. QED BY <1>3, <1>4, <1>5, <1>6, <1>7 DEF RefStep

\* What is left of the steps changes nothing here.
LEMMA RefSame ==
  ASSUME RefInv, LockInv, LockInv', UNCHANGED <<log, op, use_count, gone>>,
         calls' \in 0..MaxCalls
  PROVE  RefInv' /\ Still
<1>1. Still
  BY DEF Still, Target, Swapping, OpAt
<1>2. CallInv'
  BY DEF RefInv, CallInv, Asked, Pending, Alone
<1>3. ASSUME NEW i \in Inners PROVE References(i)' = References(i)
  <2>1. RefsTo(i)' = RefsTo(i) /\ Dropping(i)' = Dropping(i)
    BY <1>1 DEF RefsTo, Dropping, Still, OpAt
  <2>. QED BY <2>1, SumIs, SumIsNext DEF SumRule, Base
<1>. QED BY <1>1, <1>2, <1>3 DEF RefInv

\* Every step.
LEMMA RefInvStep ==
  ASSUME LockInv, LockInv', RefInv, [Next]_vars
  PROVE  RefInv' /\ Moves
<1>0. CallInv /\ CountsRight /\ calls \in 0..MaxCalls /\ MaxCalls \in Nat
  BY LoggerAssumption DEF RefInv, CountsRight
<1>1. ASSUME NEW t \in Threads, LogStep(t) PROVE RefInv' /\ Moves
  <2>1. UNCHANGED <<log, use_count, gone, calls>>
    BY <1>1 DEF LogStep
  <2>2. CallInv' /\ Still
    BY <1>0, <1>1, <2>1, LockStepCalls
  <2>3. op' = [op EXCEPT ![t] = op'[t]] /\ op[t].pc # "drop" /\ op'[t].pc # "drop"
    BY <1>1, StepsGo DEF Goes, NoOp
  <2>4. CountsRight' /\ StaysDead
    BY <1>0, <2>1, <2>2, <2>3, CountsKept
  <2>. QED BY <1>0, <2>1, <2>2, <2>4, RefKeeps DEF Moves
<1>2. ASSUME NEW t \in Threads, NEW x \in Loggers, DefaultConstruct(t, x) PROVE RefInv' /\ Moves
  <2>1. UNCHANGED gone /\ calls' \in 0..MaxCalls
    BY <1>0, <1>2 DEF DefaultConstruct, Counts
  <2>2. CountsRight' /\ StaysDead
    BY <1>0, <1>2, ConstructCounts
  <2>3. CallInv'
    BY <1>0, <1>2, <2>2, ConstructCalls
  <2>4. Target(x) = None /\ Sets(x, Empty)
    BY <1>2, ConstructSets
  <2>. QED BY <2>1, <2>2, <2>3, <2>4, RefKeeps DEF Moves
<1>3. ASSUME NEW t \in Threads, op[t] = NoOp,
             CallInv' /\ Still /\ op' = [op EXCEPT ![t] = op'[t]] /\ op'[t].pc # "drop",
             Counts, UNCHANGED <<log, use_count, gone>>
      PROVE  RefInv' /\ Moves
  <2>1. calls' \in 0..MaxCalls
    BY <1>0, <1>3 DEF Counts
  <2>2. op[t].pc # "drop"
    BY <1>3 DEF NoOp
  <2>3. CountsRight' /\ StaysDead
    BY <1>0, <1>3, <2>2, CountsKept
  <2>. QED BY <1>3, <2>1, <2>3, RefKeeps DEF Moves
<1>4. ASSUME NEW t \in Threads, NEW x \in Loggers, NEW form, BeginLog(t, x, form)
      PROVE  RefInv' /\ Moves
  <2>1. /\ op[t] = NoOp /\ Counts /\ Shared(x) /\ UNCHANGED <<log, use_count, gone>>
        /\ op' = [op EXCEPT ![t] = [pc |-> "log", kind |-> "log", x |-> x, y |-> x,
                                    held |-> 0, other |-> None]]
    BY <1>4 DEF BeginLog, Idle
  <2>2. "log" \in Kinds
    BY DEF Kinds
  <2>3. CallInv' /\ Still /\ op' = [op EXCEPT ![t] = op'[t]] /\ op'[t].pc # "drop"
    BY <1>0, <2>1, <2>2, CallBegins
  <2>. QED BY <1>3, <2>1, <2>2, <2>3
<1>5. ASSUME NEW t \in Threads, NEW x \in Loggers, NEW y \in Loggers,
             NEW kind \in Kinds \ {"log"}, Begin(t, kind, x, y)
      PROVE  RefInv' /\ Moves
  <2>1. PICK pc : pc = (IF kind = "destroy" THEN "store" ELSE "lock")
    OBVIOUS
  <2>2. /\ op[t] = NoOp /\ Counts /\ Shared(y) /\ UNCHANGED <<log, use_count, gone>>
        /\ kind \in {"assign", "swap"} => Shared(x)
        /\ kind = "assign" => x # y
        /\ kind = "copy" => log[x] = None /\ ~InUse(x)
        /\ kind = "destroy" => x = y /\ ~InUse(x)
        /\ op' = [op EXCEPT ![t] = [pc |-> pc, kind |-> kind, x |-> x, y |-> y,
                                    held |-> 0, other |-> None]]
    BY <1>5, <2>1 DEF Begin, Idle
  <2>3. CallInv' /\ Still /\ op' = [op EXCEPT ![t] = op'[t]] /\ op'[t].pc # "drop"
    BY <1>0, <2>1, <2>2, CallBegins
  <2>. QED BY <1>3, <2>2, <2>3
<1>6. ASSUME UNCHANGED <<log, op, use_count, gone, calls>> PROVE RefInv' /\ Moves
  BY <1>0, <1>6, RefSame DEF Moves
<1>7. ASSUME NEW t \in Threads, UseDestroyed(t) PROVE RefInv' /\ Moves
  <2>1. UNCHANGED <<log, op, use_count, gone, calls>>
    BY <1>7 DEF UseDestroyed, refVars
  <2>. QED BY <1>6, <2>1
<1>8. CASE Time \/ UNCHANGED vars
  <2>1. UNCHANGED <<log, op, use_count, gone, calls>>
    BY <1>8 DEF Time, vars, refVars
  <2>. QED BY <1>6, <2>1
<1>9. ASSUME NEW t \in Threads, Step(t) PROVE RefInv' /\ Moves
  BY <1>1, <1>7, <1>9, RefStepKeeps DEF Step
<1>10. ASSUME NEW t \in Threads, Call(t) PROVE RefInv' /\ Moves
  BY <1>2, <1>4, <1>5, <1>10 DEF Call
<1>. QED BY <1>8, <1>9, <1>10 DEF Next

-----------------------------------------------------------------------------
LEMMA RefInvInit == Init => RefInv
<1>. SUFFICES ASSUME Init PROVE RefInv
  OBVIOUS
<1>1. \A t \in Threads : op[t] = NoOp
  BY DEF Init
<1>2. CallInv
  BY <1>1 DEF CallInv
<1>3. \A i \in Inners : References(i) \in Nat
  BY SumIs DEF SumRule
<1>4. /\ use_count = [i \in Inners |-> References(i)] /\ gone = {} /\ calls = 0
      /\ MaxCalls \in Nat
  BY LoggerAssumption DEF Init
<1>. QED BY <1>2, <1>3, <1>4 DEF RefInv

\* The files, with what the references say of the one that is destroyed.
LEMMA FileInvStep ==
  ASSUME LockInv, FileInv, RefInv, [Next]_vars
  PROVE  FileInv'
<1>1. ASSUME NEW t \in Threads, RefStep(t), crashed = "no" PROVE FileInv'
  <2>1. CASE DestroyInner(t)
    <3>1. op[t] # NoOp /\ op[t].pc = "destroy"
      BY <2>1 DEF DestroyInner, OpAt, NoOp
    <3>2. op[t].other \in Inners
      BY <3>1 DEF RefInv, CallInv, Pending
    <3>. QED BY <1>1, <2>1, <3>2, DestroyInnerFile DEF LockInv
  <2>2. CASE ~DestroyInner(t)
    <3>1. UNCHANGED <<fileVars, gone>> /\ crashed' = crashed
      BY <1>1, <2>2 DEF RefStep, TakeLock, CountUp, ReadLog, StoreLog, DropReference, CountDown,
                        GiveUpLock
    <3>. QED BY <3>1, FileKept
  <2>. QED BY <2>1, <2>2
<1>2. ASSUME NEW t \in Threads, LogStep(t), crashed = "no" PROVE FileInv'
  BY <1>2, LineStepKeeps DEF LogStep
<1>3. ASSUME NEW t \in Threads, UseDestroyed(t) PROVE FileInv'
  BY <1>3, FileKept DEF UseDestroyed, refVars
<1>4. ASSUME NEW t \in Threads, crashed = "no", Call(t) PROVE FileInv'
  <2>1. ASSUME NEW x \in Loggers, NEW form \in {"format", "text"}, BeginLog(t, x, form)
        PROVE  FileInv'
    <3>1. log[x] \in Inners /\ BeginLine(t, log[x], form) /\ UNCHANGED gone
      BY <2>1 DEF BeginLog, Shared, LockInv, RefType
    <3>. QED BY <1>4, <3>1, BeginLineStep
  <2>2. ASSUME NEW x \in Loggers, DefaultConstruct(t, x) PROVE FileInv'
    BY <2>2, FileKept DEF DefaultConstruct
  <2>3. ASSUME NEW x \in Loggers, NEW y \in Loggers, NEW kind, Begin(t, kind, x, y) PROVE FileInv'
    BY <2>3, FileKept DEF Begin
  <2>. QED BY <1>4, <2>1, <2>2, <2>3 DEF Call
<1>5. ASSUME Time, crashed = "no" PROVE FileInv'
  BY <1>5, TickStep DEF Time, refVars
<1>6. CASE UNCHANGED vars
  BY <1>6, FileKept DEF vars, refVars
<1>. QED BY <1>1, <1>2, <1>3, <1>4, <1>5, <1>6 DEF Next, Step

LoggerInv == LockInv /\ FileInv /\ RefInv

LEMMA LoggerInvInit == Init => LoggerInv
BY LockInvInit, FileInvInit, RefInvInit DEF LoggerInv

LEMMA LoggerInvStep == LoggerInv /\ [Next]_vars => LoggerInv'
<1>. SUFFICES ASSUME LoggerInv, [Next]_vars PROVE LoggerInv'
  OBVIOUS
<1>1. LockInv /\ FileInv /\ RefInv
  BY DEF LoggerInv
<1>2. LockInv'
  BY <1>1, LockInvStep
<1>3. FileInv'
  BY <1>1, FileInvStep
<1>4. RefInv'
  BY <1>1, <1>2, RefInvStep
<1>. QED BY <1>2, <1>3, <1>4 DEF LoggerInv

LEMMA LoggerInvAlways == Spec => []LoggerInv
BY LoggerInvInit, LoggerInvStep, PTL DEF Spec

-----------------------------------------------------------------------------
\* What the table refers to is not destroyed.
LEMMA TargetsExist ==
  ASSUME LoggerInv, NEW x \in Loggers PROVE Target(x) \notin gone
<1>. SUFFICES ASSUME Target(x) \in gone PROVE FALSE
  OBVIOUS
<1>1. PICK i \in Inners : i = Target(x)
  BY DEF LoggerInv, FileInv
<1>2. use_count[i] = 0 /\ use_count[i] = References(i)
  BY <1>1 DEF LoggerInv, RefInv
<1>3. x \in RefsTo(i)
  BY <1>1 DEF RefsTo
<1>4. /\ References(i) = Base(i) + Cardinality(RefsTo(i)) + Cardinality(Dropping(i))
      /\ Base(i) \in Nat /\ IsFiniteSet(RefsTo(i)) /\ Cardinality(RefsTo(i)) \in Nat
      /\ Cardinality(Dropping(i)) \in Nat
  BY SumIs DEF SumRule
<1>5. Cardinality(RefsTo(i)) >= 1
  BY <1>3, <1>4, NotEmpty
<1>. QED BY <1>2, <1>4, <1>5

\* A pointer on its way is that of a logger.
LEMMA PointersAreTargets ==
  ASSUME LoggerInv
  PROVE  /\ \A x \in Loggers : \E z \in Loggers : log[x] = Target(z)
         /\ \A t \in Threads : op[t].pc = "store" =>
              op[t].other = None \/ \E z \in Loggers : op[t].other = Target(z)
<1>. USE DEF LoggerInv
<1>1. CallInv /\ TargetRule
  BY TargetIs DEF RefInv
<1>2. ASSUME NEW t \in Threads, op[t].pc = "store", op[t].kind = "swap"
      PROVE  \E l, u \in Loggers : /\ l = Lower(op[t].x, op[t].y) /\ op[t].other = Target(l)
                                   /\ log[l] = Target(u)
  <2>1. op[t] # NoOp
    BY <1>2 DEF NoOp
  <2>2. PICK l \in Loggers, u \in Loggers :
          /\ l = Lower(op[t].x, op[t].y) /\ u = Upper(op[t].x, op[t].y)
          /\ {l, u} = {op[t].x, op[t].y}
    BY <2>1, CallOf
  <2>3. Swapping(t, l)
    BY <1>2, <2>2 DEF Swapping, OpAt
  <2>4. op[t].other = Target(l)
    BY <1>1, <2>3 DEF TargetRule
  <2>5. log[l] = log[u] /\ (l = u => op[t].other = log[l])
    BY <1>1, <1>2, <2>1, <2>2 DEF CallInv, Pending
  <2>6. l # u => Target(u) = log[u]
    <3>1. thread_id[u] = t
      BY <1>2, <2>2, HasLocks
    <3>. QED BY <1>1, <2>1, <2>2, <3>1, OwnTarget
  <2>. QED BY <2>2, <2>4, <2>5, <2>6
<1>3. ASSUME NEW x \in Loggers PROVE \E z \in Loggers : log[x] = Target(z)
  <2>1. CASE \E t \in Threads : Swapping(t, x)
    <3>1. PICK t \in Threads : Swapping(t, x)
      BY <2>1
    <3>2. op[t].pc = "store" /\ op[t].kind = "swap" /\ x = Lower(op[t].x, op[t].y)
      BY <3>1 DEF Swapping, OpAt
    <3>. QED BY <1>2, <3>2
  <2>2. CASE \A t \in Threads : ~Swapping(t, x)
    BY <1>1, <2>2 DEF TargetRule
  <2>. QED BY <2>1, <2>2
<1>4. ASSUME NEW t \in Threads, op[t].pc = "store"
      PROVE  op[t].other = None \/ \E z \in Loggers : op[t].other = Target(z)
  <2>1. op[t] # NoOp /\ op[t].kind \in Kinds /\ op[t].y \in Loggers
    BY <1>4, CallOf DEF NoOp
  <2>2. CASE op[t].kind = "swap"
    BY <1>2, <1>4, <2>2
  <2>3. CASE op[t].kind # "swap"
    <3>1. op[t].other = None \/ op[t].other = log[op[t].y]
      BY <1>1, <1>4, <2>1, <2>3 DEF CallInv, Asked, Pending, Kinds
    <3>. QED BY <1>3, <2>1, <3>1
  <2>. QED BY <2>2, <2>3
<1>. QED BY <1>3, <1>4

LEMMA LoggerInvCounts == LoggerInv => ReferencesCounted
<1>. SUFFICES ASSUME LoggerInv PROVE ReferencesCounted
  OBVIOUS
<1>1. LockInv /\ FileInv /\ RefInv
  BY DEF LoggerInv
<1>2. TypeOK
  <2>1. op \in [Threads -> {NoOp} \cup Calls]
    BY <1>1 DEF LockInv, RefType
  <2>2. Calls = [pc : {"lock", "count", "read", "store", "drop", "destroy", "uncount", "release",
                       "log"},
                 kind : Kinds, x : Loggers, y : Loggers, held : 0..2,
                 other : Inners \cup {None}]
    BY DEF Calls, Pcs
  <2>3. FileTypeOK /\ gone \subseteq Inners
    BY <1>1 DEF FileInv
  <2>4. use_count \in [Inners -> Nat] /\ calls \in 0..MaxCalls
    BY <1>1 DEF RefInv
  <2>5. Lock!LockTypeOK /\ log \in [Loggers -> Inners \cup {None}]
    BY <1>1 DEF LockInv, RefType, Lock!LockTypeOK
  <2>. QED BY <2>1, <2>2, <2>3, <2>4, <2>5 DEF TypeOK
<1>3. \A i \in Inners : use_count[i] = References(i)
  BY <1>1 DEF RefInv
<1>4. \A x \in Loggers : Target(x) \notin gone
  BY TargetsExist
<1>5. None \notin gone
  BY <1>1, Constants DEF FileInv
<1>6. \A x \in Loggers : log[x] \notin gone
  BY <1>4, PointersAreTargets
<1>7. \A t \in Threads : op[t].pc = "store" => op[t].other \notin gone
  BY <1>4, <1>5, PointersAreTargets
<1>. QED BY <1>2, <1>3, <1>6, <1>7 DEF ReferencesCounted

LEMMA LoggerInvFiles == LoggerInv => OneFile
<1>. SUFFICES ASSUME LoggerInv PROVE OneFile
  OBVIOUS
<1>1. FileInv
  BY DEF LoggerInv
<1>2. ASSUME NEW i \in Inners \ {Empty}
      PROVE  /\ fp[i] = Stray => \E t \in Threads : mutex[i] = t /\ line[t].pc \in {"now", "fopen"}
             /\ i \in gone => fp[i] = Null
  BY <1>1 DEF FileInv, Rotated
<1>3. crashed = "stray" => \E t \in Threads : line[t] # NoLine /\ InnerOf(t) = Empty
  BY <1>1 DEF FileInv
<1>. QED BY <1>2, <1>3 DEF OneFile

\* The pointer of a constructed logger never dangles (logger.h:157-177): the count of an
\* internal_logger is that of the loggers, and of the threads about to drop a reference, that
\* refer to it, and no logger has, reads or hands on one that is destroyed, whatever
\* assignments, swaps, copies and destructions the threads are in.
THEOREM ReferencesAlwaysCounted == Spec => []ReferencesCounted
BY LoggerInvAlways, LoggerInvCounts, PTL

\* Every internal_logger but the empty one has at most one FILE: between the fclose and the
\* fopen of a rotation its mutex is with the thread that opens the next, nothing is closed
\* twice, and the destructor leaves nothing open (simple_logger.cpp:63-113).
THEOREM OneFileAlways == Spec => []OneFile
BY LoggerInvAlways, LoggerInvFiles, PTL

-----------------------------------------------------------------------------
(***************************************************************************)
(* The registry.                                                           *)
(***************************************************************************)
LEMMA RegistryInits == Init => Registry!RegistryInit
<1>. SUFFICES ASSUME Init PROVE Registry!RegistryInit
  OBVIOUS
<1>1. LockInv /\ gone = {} /\ log = InitialLog
  BY LockInvInit DEF Init
<1>2. \A t \in Threads, x \in Loggers : ~Swapping(t, x)
  BY DEF Init, Swapping, OpAt, NoOp
<1>3. \A x \in Loggers : Target(x) \in Inners \cup {None}
  <2>1. \A x \in Loggers : Target(x) = log[x]
    BY <1>2 DEF Target
  <2>. QED BY <1>1, <2>1 DEF LockInv, RefType
<1>. QED BY <1>1, <1>3 DEF Registry!RegistryInit

TargetsLive == \A x \in Loggers : Target(x) \notin gone

LEMMA TargetsLiveNext == LoggerInv' => TargetsLive'
<1>1. LoggerInv => TargetsLive
  BY TargetsExist DEF TargetsLive
<1>. QED BY <1>1, PTL

LEMMA RegistrySteps ==
  LoggerInv /\ LoggerInv' /\ [Next]_vars => [Registry!RegistryNext]_(Registry!registryVars)
<1>. SUFFICES ASSUME LoggerInv, LoggerInv', [Next]_vars PROVE Registry!RegistryNext
  OBVIOUS
<1>. DEFINE old == [x \in Loggers |-> Target(x)]  new == [x \in Loggers |-> Target(x)']
<1>1. Moves
  BY RefInvStep DEF LoggerInv
<1>2. gone \subseteq gone'
  <2>1. ASSUME NEW t \in Threads, RefStep(t) PROVE gone \subseteq gone'
    BY <2>1 DEF RefStep, TakeLock, CountUp, ReadLog, StoreLog, DropReference, DestroyInner,
                CountDown, GiveUpLock
  <2>2. ASSUME NEW t \in Threads, LogStep(t) \/ UseDestroyed(t) PROVE gone' = gone
    BY <2>2 DEF LogStep, UseDestroyed, refVars
  <2>3. ASSUME NEW t \in Threads, Call(t) PROVE gone' = gone
    BY <2>3 DEF Call, BeginLog, DefaultConstruct, Begin
  <2>4. CASE Time \/ UNCHANGED vars
    BY <2>4 DEF Time, vars, refVars
  <2>. QED BY <2>1, <2>2, <2>3, <2>4 DEF Next, Step
<1>3. \A x \in Loggers : Target(x)' \notin gone'
  BY TargetsLiveNext DEF TargetsLive
<1>4. Registry!Collect
  BY <1>2, <1>3 DEF Registry!Collect
<1>5. /\ \A x \in Loggers : old[x] = Target(x) /\ new[x] = Target(x)'
      /\ DOMAIN old = Loggers /\ DOMAIN new = Loggers
  OBVIOUS
<1>6. CASE Still
  <2>1. old = new
    BY <1>6 DEF Still
  <2>. QED BY <1>4, <2>1 DEF Registry!RegistryNext
<1>7. ASSUME NEW x \in Loggers, NEW y \in Loggers, Target(y) # None, Sets(x, Target(y))
      PROVE  Registry!Redirect(x, y)
  <2>1. new = [old EXCEPT ![x] = old[y]]
    BY <1>7 DEF Sets
  <2>. QED BY <1>7, <2>1 DEF Registry!Redirect
<1>8. ASSUME NEW l \in Loggers, NEW u \in Loggers, Target(l) # None, Target(u) # None,
             Exchanges(l, u)
      PROVE  Registry!Exchange(l, u)
  <2>1. new = [old EXCEPT ![l] = old[u], ![u] = old[l]]
    BY <1>8 DEF Exchanges
  <2>. QED BY <1>8, <2>1 DEF Registry!Exchange
<1>9. ASSUME NEW x \in Loggers, Target(x) # None, Sets(x, None) PROVE Registry!Remove(x)
  <2>1. \A z \in Loggers : new[z] = IF z = x THEN None ELSE old[z]
    BY <1>5, <1>9 DEF Sets
  <2>2. new = [old EXCEPT ![x] = None]
    BY <2>1
  <2>. QED BY <1>9, <2>2 DEF Registry!Remove
<1>10. ASSUME NEW x \in Loggers, Target(x) = None, Sets(x, Empty)
       PROVE  Registry!Construct(x, Empty)
  <2>1. new = [old EXCEPT ![x] = Empty]
    BY <1>10 DEF Sets
  <2>. QED BY <1>10, <2>1 DEF Registry!Construct
<1>11. CASE ~Still
  <2>1. Registry!Change
    BY <1>1, <1>7, <1>8, <1>9, <1>10, <1>11, Constants DEF Moves, Registry!Change
  <2>. QED BY <1>4, <2>1 DEF Registry!RegistryNext
<1>. QED BY <1>6, <1>11

\* To the threads that use them, assignment, swap and copy are single steps on one table of
\* loggers, whatever two threads do with the same loggers, and what the table refers to has
\* not been destroyed (logger.h:162, 233): the lock-and-count protocol implements the registry.
THEOREM RegistryImplemented == Spec => ImplementsRegistry
<1>1. Init => Registry!RegistryInit
  BY RegistryInits
<1>2. LoggerInv /\ LoggerInv' /\ [Next]_vars => [Registry!RegistryNext]_(Registry!registryVars)
  BY RegistrySteps
<1>. QED BY <1>1, <1>2, LoggerInvAlways, PTL DEF Spec, ImplementsRegistry, Registry!RegistrySpec

-----------------------------------------------------------------------------
(***************************************************************************)
(* The file a line is written to.                                          *)
(***************************************************************************)
\* The clock goes forward, so a name that is left does not come back; and the comparison of
\* two readings tells their names apart, which simple_logger.cpp:63 relies on.
NamesInOrder ==
  \A i, j, k \in 1..Len(Instants) :
    i <= j /\ j <= k /\ NameAt(i) = NameAt(k) => NameAt(j) = NameAt(k)
NamesCompared ==
  \A j, k \in 1..Len(Instants) : Equal(Instants[j], Instants[k]) => NameAt(j) = NameAt(k)
NamesHold == LogStrategy # no /\ NamesInOrder /\ NamesCompared

LEMMA PeriodsInOrder ==
  ASSUME NamesInOrder, NEW k \in 1..Len(Instants), NEW j \in 1..k
  PROVE  /\ Period(j) <= Period(k)
         /\ Period(j) \in 1..Len(Instants) /\ Period(k) \in 1..Len(Instants)
         /\ NameAt(j) = NameAt(k) => Period(j) = Period(k)
<1>1. /\ Len(Instants) \in Nat /\ k \in Nat /\ j \in Nat /\ j <= k /\ k <= Len(Instants)
      /\ j \in 1..Len(Instants)
  BY Constants
<1>2. /\ Period(j) \in 1..j /\ NameAt(Period(j)) = NameAt(j)
      /\ \A i \in 1..(Period(j) - 1) : NameAt(i) # NameAt(j)
  BY <1>1, PeriodIs
<1>3. /\ Period(k) \in 1..k /\ NameAt(Period(k)) = NameAt(k)
      /\ \A i \in 1..(Period(k) - 1) : NameAt(i) # NameAt(k)
  BY <1>1, PeriodIs
<1>4. Period(j) \in 1..Len(Instants) /\ Period(k) \in 1..Len(Instants)
  BY <1>1, <1>2, <1>3
<1>5. ASSUME Period(j) > Period(k) PROVE FALSE
  <2>1. Period(k) <= j /\ Period(k) \in 1..(Period(j) - 1)
    BY <1>1, <1>2, <1>3, <1>5
  <2>2. NameAt(j) = NameAt(k)
    BY <1>1, <1>3, <1>4, <2>1 DEF NamesInOrder
  <2>. QED BY <1>2, <1>3, <2>1, <2>2
<1>6. Period(j) <= Period(k)
  BY <1>1, <1>2, <1>3, <1>5
<1>7. ASSUME NameAt(j) = NameAt(k), Period(j) < Period(k) PROVE FALSE
  <2>1. Period(j) \in 1..(Period(k) - 1)
    BY <1>1, <1>2, <1>3, <1>7
  <2>. QED BY <1>2, <1>3, <1>7, <2>1
<1>. QED BY <1>1, <1>2, <1>3, <1>4, <1>6, <1>7

\* Readings with one name have one period, and without names there is one for all.
LEMMA SamePeriod ==
  ASSUME NamesInOrder, NEW j \in 1..Len(Instants), NEW k \in 1..Len(Instants)
  PROVE  /\ NameAt(j) = NameAt(k) => Period(j) = Period(k)
         /\ NameStrategy = no => Period(k) = 1
         /\ Period(k) \in 1..Len(Instants)
<1>1. Len(Instants) \in Nat /\ j \in Nat /\ k \in Nat
  BY Constants
<1>2. ASSUME j <= k, NameAt(j) = NameAt(k) PROVE Period(j) = Period(k)
  <2>1. j \in 1..k
    BY <1>1, <1>2
  <2>. QED BY <1>2, <2>1, PeriodsInOrder
<1>3. ASSUME k <= j, NameAt(j) = NameAt(k) PROVE Period(j) = Period(k)
  <2>1. k \in 1..j
    BY <1>1, <1>3
  <2>. QED BY <1>3, <2>1, PeriodsInOrder
<1>4. ASSUME NameStrategy = no PROVE Period(k) = 1
  <2>1. \A i : NameAt(i) = <<>>
    BY <1>4 DEF NameAt, no, hour, day, month
  <2>2. /\ Period(k) \in 1..k /\ \A i \in 1..(Period(k) - 1) : NameAt(i) # NameAt(k)
    BY PeriodIs
  <2>. QED BY <1>1, <2>1, <2>2
<1>5. Period(k) \in 1..Len(Instants)
  BY <1>1, PeriodIs
<1>. QED BY <1>1, <1>2, <1>3, <1>4, <1>5

InFile(i) == fp[i] \in 1..Len(Instants)

\* An open file is named for the recorded time or a later one; while no time is recorded, the
\* thread that has opened it is about to record one.
Named(i) ==
  /\ name_time[i] <= clock
  /\ InFile(i) /\ NameStrategy # no =>
       \/ name_time[i] # 0 /\ Period(name_time[i]) <= fp[i]
       \/ name_time[i] = 0 /\ \E u \in Threads : line[u].pc = "publish" /\ line[u].inner = i

\* Who is in open_file has a time that is no older than its line and the time recorded.
Opener(u) ==
  line[u].pc \in {"fopen", "publish"} =>
    /\ line[u].opened \in 1..clock
    /\ line[u].stamp <= line[u].opened
    /\ name_time[line[u].inner] <= line[u].opened
    /\ line[u].pc = "publish" => fp[line[u].inner] = Period(line[u].opened)

\* Who has compared its time with one that was recorded or not yet sought, and need not open
\* a file, finds one that is not too old, and no thread is about to open one that is.
InTime(t) ==
  /\ \/ line[t].pc \in {"publish", "state", "write"}
     \/ line[t].pc \in {"reopen", "enter"} /\ ~line[t].need
  /\ ~line[t].missed
  => /\ InFile(line[t].inner) => Period(line[t].stamp) <= fp[line[t].inner]
     /\ \A u \in Threads : line[u].pc = "fopen" /\ line[u].inner = line[t].inner =>
          Period(line[t].stamp) <= Period(line[u].opened)

RightInv == /\ RightFile
            /\ \A i \in Inners : Named(i)
            /\ \A t \in Threads : Opener(t) /\ InTime(t)

\* Steps of nobody in open_file: at most a file that nobody is about to open is closed.
LEMMA RightKept ==
  ASSUME FileInv, RightInv, UNCHANGED name_time, clock' \in {clock, clock + 1},
         \A i \in Inners : fp'[i] = fp[i] \/ (fp'[i] \notin 1..Len(Instants) /\ ~Opening(i)),
         \A s \in Threads : \/ line'[s] = line[s]
                            \/ /\ line[s].pc \notin {"fopen", "publish"}
                               /\ line'[s].pc \notin {"fopen", "publish"}
                               /\ InTime(s)',
         \A l \in lines' \ lines : l[1] <= l[2] \/ l[3]
  PROVE  RightInv'
<1>1. RightFile'
  BY DEF RightInv, RightFile
<1>2. clock \in Nat /\ \A i \in Inners : name_time[i] \in Nat
  BY Constants DEF FileInv, FileTypeOK
<1>3. ASSUME NEW i \in Inners PROVE Named(i)'
  <2>1. Named(i)
    BY DEF RightInv
  <2>2. name_time'[i] <= clock'
    BY <1>2, <2>1 DEF Named
  <2>3. ASSUME NEW u \in Threads, line[u].pc = "publish" PROVE line'[u] = line[u]
    BY <2>3
  <2>. QED BY <2>1, <2>2, <2>3 DEF Named, InFile
<1>4. ASSUME NEW u \in Threads PROVE Opener(u)'
  <2>1. SUFFICES ASSUME line'[u].pc \in {"fopen", "publish"} PROVE Opener(u)'
    BY DEF Opener
  <2>2. line'[u] = line[u] /\ line[u].pc \in {"fopen", "publish"}
    BY <2>1
  <2>3. line[u].inner \in Inners /\ Opener(u) /\ InnerOf(u) = line[u].inner
    BY <2>2, InLine DEF RightInv, InnerOf
  <2>4. fp'[line[u].inner] = fp[line[u].inner]
    BY <2>2, <2>3 DEF Opening
  <2>5. line[u].opened \in 1..clock => line[u].opened \in 1..clock'
    BY <1>2
  <2>. QED BY <2>2, <2>3, <2>4, <2>5 DEF Opener
<1>5. ASSUME NEW s \in Threads PROVE InTime(s)'
  <2>1. SUFFICES ASSUME line'[s] = line[s], line[s].pc # "none" PROVE InTime(s)'
    BY DEF InTime
  <2>2. line[s].inner \in Inners /\ InTime(s)
    BY <2>1, InLine DEF RightInv, InnerOf
  <2>3. InFile(line[s].inner)' => fp'[line[s].inner] = fp[line[s].inner]
    BY <2>1, <2>2 DEF InFile
  <2>4. ASSUME NEW u \in Threads, line'[u].pc = "fopen" PROVE line'[u] = line[u]
    BY <2>4
  <2>. QED BY <2>1, <2>2, <2>3, <2>4 DEF InTime, InFile
<1>. QED BY <1>1, <1>3, <1>4, <1>5 DEF RightInv

\* Two threads are not in open_file for one file.
LEMMA OneOpens ==
  ASSUME FileInv, NEW t \in Threads, NEW u \in Threads,
         line[t].pc \in {"now", "fopen", "publish"}, line[u].pc \in {"now", "fopen", "publish"},
         line[u].inner = line[t].inner
  PROVE  u = t
BY DEF FileInv, Guarded, InnerOf

\* Steps of the thread that has read the clock in open_file.
LEMMA RightOpened ==
  ASSUME FileInv, RightInv, NEW t \in Threads, line[t].pc \in {"fopen", "publish"},
         \A s \in Threads \ {t} : line'[s] = line[s], line'[t].pc # "fopen",
         UNCHANGED <<clock, lines>>, NEW i \in Inners, i = line[t].inner,
         \A j \in Inners \ {i} : fp'[j] = fp[j] /\ name_time'[j] = name_time[j],
         Named(i)', Opener(t)', InTime(t)',
         \/ fp'[i] = fp[i]
         \/ fp'[i] \notin 1..Len(Instants)
         \/ line[t].pc = "fopen" /\ fp'[i] = Period(line[t].opened)
  PROVE  RightInv'
<1>1. RightFile'
  BY DEF RightInv, RightFile
<1>2. ASSUME NEW j \in Inners PROVE Named(j)'
  <2>1. CASE i = j
    BY <2>1
  <2>2. CASE i # j
    <3>1. Named(j) /\ fp'[j] = fp[j] /\ name_time'[j] = name_time[j]
      BY <2>2 DEF RightInv
    <3>2. ASSUME NEW u \in Threads, line[u].inner = j PROVE line'[u] = line[u]
      BY <2>2, <3>2
    <3>. QED BY <3>1, <3>2 DEF Named, InFile
  <2>. QED BY <2>1, <2>2
<1>3. ASSUME NEW u \in Threads PROVE Opener(u)'
  <2>1. SUFFICES ASSUME u # t, line[u].pc \in {"fopen", "publish"} PROVE Opener(u)'
    BY DEF Opener
  <2>2. line[u].inner # line[t].inner
    BY <2>1, OneOpens
  <2>3. line[u].inner \in Inners /\ Opener(u) /\ line'[u] = line[u]
    BY <2>1, InLine DEF RightInv, InnerOf
  <2>. QED BY <2>2, <2>3 DEF Opener
<1>4. ASSUME NEW s \in Threads PROVE InTime(s)'
  <2>1. SUFFICES ASSUME s # t, line[s].pc # "none" PROVE InTime(s)'
    BY DEF InTime
  <2>2. line[s].inner \in Inners /\ InTime(s) /\ line'[s] = line[s]
    BY <2>1, InLine DEF RightInv, InnerOf
  <2>3. ASSUME NEW u \in Threads, line'[u].pc = "fopen" PROVE line'[u] = line[u]
    BY <2>3
  <2>4. \/ fp'[line[s].inner] = fp[line[s].inner]
        \/ fp'[line[s].inner] \notin 1..Len(Instants)
        \/ /\ line[t].pc = "fopen" /\ line[s].inner = line[t].inner
           /\ fp'[line[s].inner] = Period(line[t].opened)
    BY <2>2
  <2>. QED BY <2>2, <2>3, <2>4 DEF InTime, InFile
<1>. QED BY <1>1, <1>2, <1>3, <1>4 DEF RightInv

\* Where the step of a call leads to.
LEMMA GoesTo ==
  ASSUME FileInv, NEW t \in Threads, line[t].pc # "none", NEW pc, GoTo(t, pc)
  PROVE  /\ line'[t].pc = pc /\ line'[t].stamp = line[t].stamp /\ line'[t].need = line[t].need
         /\ line'[t].opened = line[t].opened /\ line'[t].missed = line[t].missed
         /\ line'[t].inner = line[t].inner /\ \A s \in Threads \ {t} : line'[s] = line[s]
<1>1. line[t] \in LineCalls /\ line \in [Threads -> {NoLine} \cup LineCalls]
  BY InLine DEF FileInv, FileTypeOK, LineCalls
<1>. QED BY <1>1 DEF GoTo, LineCalls

LEMMA RetryGoes ==
  ASSUME FileInv, NEW t \in Threads, line[t].pc # "none", Retries(t)
  PROVE  /\ line'[t].pc = "enter" /\ line'[t].need = TRUE
         /\ \A s \in Threads \ {t} : line'[s] = line[s]
<1>1. line[t] \in LineCalls /\ line \in [Threads -> {NoLine} \cup LineCalls]
  BY InLine DEF FileInv, FileTypeOK, LineCalls
<1>. QED BY <1>1 DEF Retries, LineCalls

LEMMA LineEnds ==
  ASSUME FileInv, NEW t \in Threads, line' = [line EXCEPT ![t] = NoLine]
  PROVE  line'[t].pc = "none" /\ \A s \in Threads \ {t} : line'[s] = line[s]
BY DEF FileInv, FileTypeOK, NoLine

\* A call that leaves reopen_if_need ends or looks at the state.
LEMMA LeavesTo ==
  ASSUME FileInv, NEW t \in Threads, line[t].pc # "none", LeavesReopen(t)
  PROVE  /\ \A s \in Threads \ {t} : line'[s] = line[s]
         /\ \/ line'[t].pc = "none"
            \/ /\ line'[t].pc = "state" /\ line'[t].stamp = line[t].stamp
               /\ line'[t].missed = line[t].missed /\ line'[t].inner = line[t].inner
<1>1. CASE line[t].stage = "retry"
  BY <1>1, LineEnds DEF LeavesReopen, Returns
<1>2. CASE line[t].stage # "retry"
  BY <1>2, GoesTo DEF LeavesReopen
<1>. QED BY <1>1, <1>2

\* The comparison: what a call finds that need not open a file.
LEMMA ComparedRight ==
  ASSUME NamesHold, FileInv, RightInv, NEW t \in Threads, CompareTime(t)
  PROVE  RightInv'
<1>. DEFINE i == line[t].inner
            none == name_time[i] = 0 /\ Opening(i)
<1>1. /\ line[t].pc = "compare" /\ line[t] \in LineCalls /\ i \in Inners
      /\ line[t].stamp \in 1..Len(Instants) /\ Len(Instants) \in Nat
      /\ name_time[i] \in 0..Len(Instants) /\ clock \in 1..Len(Instants)
  <2>1. line[t].pc = "compare" /\ InnerOf(t) = i
    BY DEF CompareTime, At, InnerOf
  <2>2. line[t] \in LineCalls /\ i \in Inners
    BY <2>1, InLine
  <2>3. line[t].stamp \in 1..clock /\ clock \in 1..Len(Instants)
    BY <2>1 DEF FileInv, FileTypeOK, Stamped
  <2>. QED BY <2>1, <2>2, <2>3, Constants DEF FileInv, FileTypeOK
<1>2. PICK need \in NeedRename(i, line[t].stamp) :
        line' = [line EXCEPT ![t].pc = IF line[t].form = "text" THEN "enter" ELSE "reopen",
                             ![t].need = need, ![t].missed = none]
  BY DEF CompareTime, InnerOf
<1>3. PICK pc \in {"enter", "reopen"} :
        line' = [line EXCEPT ![t].pc = pc, ![t].need = need, ![t].missed = none]
  BY <1>2
<1>. HIDE DEF none
<1>4. /\ line'[t].pc = pc /\ line'[t].stamp = line[t].stamp /\ line'[t].need = need
      /\ line'[t].missed = none
      /\ line'[t].inner = i /\ \A s \in Threads \ {t} : line'[s] = line[s]
  BY <1>1, <1>3 DEF FileInv, FileTypeOK, LineCalls
<1>5. UNCHANGED <<clock, fp, name_time, lines>>
  BY DEF CompareTime
<1>6. ASSUME ~need, ~none
      PROVE  /\ InFile(i) => Period(line[t].stamp) <= fp[i]
             /\ \A u \in Threads : line[u].pc = "fopen" /\ line[u].inner = i =>
                  Period(line[t].stamp) <= Period(line[u].opened)
  <2>1. NamesInOrder /\ LogStrategy # no /\ Named(i)
    BY <1>1 DEF NamesHold, RightInv
  <2>2. ASSUME NEW u \in Threads, line[u].pc = "fopen"
        PROVE  line[u].opened \in 1..Len(Instants) /\ line[u].opened \in Nat
    BY <1>1, <2>2 DEF RightInv, Opener
  <2>3. CASE NameStrategy = no
    <3>1. Period(line[t].stamp) = 1
      BY <1>1, <2>1, <2>3, SamePeriod
    <3>2. ASSUME NEW u \in Threads, line[u].pc = "fopen" PROVE Period(line[u].opened) = 1
      BY <2>1, <2>2, <2>3, <3>2, SamePeriod
    <3>. QED BY <1>1, <3>1, <3>2 DEF InFile
  <2>4. CASE NameStrategy # no /\ name_time[i] = 0
    <3>1. ~Opening(i)
      BY <1>6, <2>4 DEF none
    <3>2. ASSUME NEW u \in Threads, line[u].pc \in {"fopen", "publish"}, line[u].inner = i
          PROVE  FALSE
      BY <3>1, <3>2 DEF Opening, InnerOf
    <3>. QED BY <2>1, <2>4, <3>2 DEF Named
  <2>5. CASE NameStrategy # no /\ name_time[i] # 0
    <3>1. name_time[i] \in 1..Len(Instants)
      BY <1>1, <2>5
    <3>2. Equal(Instants[name_time[i]], Instants[line[t].stamp])
      BY <1>6, <2>1, <2>5 DEF NeedRename
    <3>3. NameAt(name_time[i]) = NameAt(line[t].stamp)
      BY <1>1, <3>1, <3>2 DEF NamesHold, NamesCompared
    <3>4. /\ Period(line[t].stamp) = Period(name_time[i])
          /\ Period(name_time[i]) \in 1..Len(Instants)
      BY <1>1, <2>1, <3>1, <3>3, SamePeriod
    <3>5. ASSUME NEW u \in Threads, line[u].pc = "fopen", line[u].inner = i
          PROVE  Period(name_time[i]) <= Period(line[u].opened)
      <4>1. name_time[i] <= line[u].opened
        BY <3>5 DEF RightInv, Opener
      <4>2. name_time[i] \in 1..line[u].opened
        BY <2>2, <3>1, <3>5, <4>1
      <4>. QED BY <2>1, <2>2, <3>5, <4>2, PeriodsInOrder
    <3>. QED BY <2>1, <2>5, <3>4, <3>5 DEF Named
  <2>. QED BY <2>3, <2>4, <2>5
<1>7. InTime(t)'
  <2>1. ASSUME NEW u \in Threads, line'[u].pc = "fopen" PROVE line'[u] = line[u]
    BY <1>4, <2>1
  <2>. QED BY <1>4, <1>5, <1>6, <2>1 DEF InTime, InFile
<1>. HIDE DEF i
<1>. QED BY <1>1, <1>4, <1>5, <1>7, RightKept

\* The time for the name is no older than any line that has a time.
LEMMA ReadNowRight ==
  ASSUME NamesInOrder, FileInv, RightInv, NEW t \in Threads, ReadNow(t)
  PROVE  RightInv'
<1>1. /\ line[t].pc = "now" /\ UNCHANGED <<clock, fp, name_time, lines>>
      /\ line' = [line EXCEPT ![t].pc = "fopen", ![t].opened = clock]
  BY DEF ReadNow, At
<1>2. line[t] \in LineCalls /\ line[t].inner \in Inners
  BY <1>1, InLine DEF InnerOf
<1>3. /\ line'[t].pc = "fopen" /\ line'[t].opened = clock /\ line'[t].stamp = line[t].stamp
      /\ line'[t].inner = line[t].inner /\ \A s \in Threads \ {t} : line'[s] = line[s]
  BY <1>1, <1>2 DEF FileInv, FileTypeOK, LineCalls
<1>4. clock \in 1..Len(Instants) /\ clock \in Nat /\ clock \in 1..clock
  BY Constants DEF FileInv, FileTypeOK
<1>5. RightFile'
  BY <1>1 DEF RightInv, RightFile
<1>6. ASSUME NEW i \in Inners PROVE Named(i)'
  <2>1. Named(i)
    BY DEF RightInv
  <2>2. ASSUME NEW u \in Threads, line[u].pc = "publish" PROVE line'[u] = line[u]
    BY <1>1, <1>3, <2>2
  <2>. QED BY <1>1, <2>1, <2>2 DEF Named, InFile
<1>7. ASSUME NEW u \in Threads PROVE Opener(u)'
  <2>1. CASE u # t
    BY <1>1, <1>3, <2>1 DEF RightInv, Opener
  <2>2. CASE u = t
    <3>1. line[t].stamp <= clock
      BY <1>1, <1>4 DEF FileInv, Stamped
    <3>2. name_time[line[t].inner] <= clock
      BY <1>2 DEF RightInv, Named
    <3>. QED BY <1>1, <1>3, <1>4, <2>2, <3>1, <3>2 DEF Opener
  <2>. QED BY <2>1, <2>2
<1>8. ASSUME NEW s \in Threads PROVE InTime(s)'
  <2>1. SUFFICES ASSUME s # t, line[s].pc \notin {"none", "lock", "time"} PROVE InTime(s)'
    BY <1>3 DEF InTime
  <2>2. InTime(s) /\ line'[s] = line[s]
    BY <1>3, <2>1 DEF RightInv
  <2>3. Period(line[s].stamp) <= Period(clock)
    <3>1. line[s].stamp \in 1..clock
      BY <2>1 DEF FileInv, Stamped
    <3>. QED BY <1>4, <3>1, PeriodsInOrder
  <2>4. ASSUME NEW u \in Threads PROVE u = t \/ line'[u] = line[u]
    BY <1>3
  <2>. QED BY <1>1, <1>3, <2>2, <2>3, <2>4 DEF InTime, InFile
<1>. QED BY <1>5, <1>6, <1>7, <1>8 DEF RightInv

\* The file is opened under the name of that time, or there is none.
LEMMA OpenFileRight ==
  ASSUME NamesInOrder, FileInv, RightInv, NEW t \in Threads, OpenFile(t)
  PROVE  RightInv'
<1>0. PICK i : i = line[t].inner
  OBVIOUS
<1>1. /\ line[t].pc = "fopen" /\ UNCHANGED <<clock, name_time, lines>> /\ InnerOf(t) = i
      /\ \/ fp' = [fp EXCEPT ![i] = Period(line[t].opened)] /\ GoTo(t, "publish")
         \/ fp' = [fp EXCEPT ![i] = Null] /\ LeavesReopen(t)
  BY <1>0 DEF OpenFile, At, InnerOf
<1>2. i \in Inners /\ fp \in [Inners -> Null..Stray] /\ Null \notin 1..Len(Instants)
  BY <1>0, <1>1, InLine, Constants DEF FileInv, FileTypeOK, Null
<1>3. /\ Opener(t) /\ Named(i) /\ clock \in 1..Len(Instants) /\ Len(Instants) \in Nat
      /\ line[t].stamp \in 1..clock /\ name_time[i] \in 0..Len(Instants)
  BY <1>0, <1>1, <1>2, Constants DEF RightInv, FileInv, FileTypeOK, Stamped
<1>4. line[t].opened \in 1..Len(Instants) /\ line[t].stamp \in 1..line[t].opened
  BY <1>0, <1>1, <1>3 DEF Opener
<1>5. ASSUME NEW u \in Threads, line[u].pc = "fopen", line[u].inner = i PROVE u = t
  BY <1>0, <1>1, <1>5, OneOpens
<1>6. \A j \in Inners \ {i} : fp'[j] = fp[j] /\ name_time'[j] = name_time[j]
  BY <1>0, <1>1, <1>2
<1>7. CASE fp' = [fp EXCEPT ![i] = Period(line[t].opened)] /\ GoTo(t, "publish")
  <2>1. /\ line'[t].pc = "publish" /\ line'[t].stamp = line[t].stamp
        /\ line'[t].opened = line[t].opened /\ line'[t].missed = line[t].missed
        /\ line'[t].inner = i /\ \A s \in Threads \ {t} : line'[s] = line[s]
    BY <1>0, <1>1, <1>7, GoesTo
  <2>2. fp'[i] = Period(line[t].opened)
    BY <1>2, <1>7
  <2>3. Period(line[t].stamp) <= Period(line[t].opened)
    BY <1>4, PeriodsInOrder
  <2>4. name_time[i] # 0 => Period(name_time[i]) <= Period(line[t].opened)
    <3>1. SUFFICES ASSUME name_time[i] # 0
                   PROVE  Period(name_time[i]) <= Period(line[t].opened)
      OBVIOUS
    <3>2. name_time[i] \in 1..line[t].opened
      BY <1>0, <1>1, <1>3, <1>4, <3>1 DEF Opener
    <3>. QED BY <1>4, <3>2, PeriodsInOrder
  <2>5. Named(i)'
    BY <1>0, <1>1, <1>3, <2>1, <2>2, <2>4 DEF Named
  <2>6. Opener(t)'
    BY <1>0, <1>1, <1>3, <2>1, <2>2 DEF Opener
  <2>7. InTime(t)'
    <3>1. ASSUME NEW u \in Threads, line'[u].pc = "fopen", line'[u].inner = i PROVE FALSE
      BY <1>0, <1>5, <2>1, <3>1
    <3>. QED BY <2>1, <2>2, <2>3, <3>1 DEF InTime
  <2>. QED BY <1>0, <1>1, <1>6, <2>1, <2>2, <2>5, <2>6, <2>7, <1>2, RightOpened
<1>8. CASE fp' = [fp EXCEPT ![i] = Null] /\ LeavesReopen(t)
  <2>1. /\ \A s \in Threads \ {t} : line'[s] = line[s]
        /\ \/ line'[t].pc = "none"
           \/ line'[t].pc = "state" /\ line'[t].inner = i
    BY <1>0, <1>1, <1>8, LeavesTo
  <2>2. fp'[i] \notin 1..Len(Instants)
    BY <1>2, <1>8
  <2>3. Named(i)'
    BY <1>0, <1>1, <1>3, <2>2 DEF Named, InFile
  <2>4. Opener(t)'
    BY <2>1 DEF Opener
  <2>5. InTime(t)'
    <3>1. ASSUME NEW u \in Threads, line'[u].pc = "fopen", line'[u].inner = i PROVE FALSE
      BY <1>0, <1>5, <2>1, <3>1
    <3>. QED BY <2>1, <2>2, <3>1 DEF InTime, InFile
  <2>. QED BY <1>0, <1>1, <1>6, <2>1, <2>2, <2>3, <2>4, <2>5, <1>2, RightOpened
<1>. QED BY <1>0, <1>1, <1>7, <1>8

\* The time is recorded that the open file is named for.
LEMMA SetNameTimeRight ==
  ASSUME NamesInOrder, FileInv, RightInv, NEW t \in Threads, SetNameTime(t)
  PROVE  RightInv'
<1>0. PICK i : i = line[t].inner
  OBVIOUS
<1>1. /\ line[t].pc = "publish" /\ UNCHANGED <<clock, fp, lines>> /\ LeavesReopen(t)
      /\ name_time' = [name_time EXCEPT ![i] = NamedAt(line[t].opened)]
  BY <1>0 DEF SetNameTime, At, InnerOf
<1>2. i \in Inners /\ name_time \in [Inners -> 0..Len(Instants)]
  BY <1>0, <1>1, InLine DEF FileInv, FileTypeOK, InnerOf
<1>3. /\ Opener(t) /\ InTime(t) /\ clock \in 1..Len(Instants) /\ Len(Instants) \in Nat
  BY <1>0, <1>2, Constants DEF RightInv, FileInv, FileTypeOK
<1>4. /\ line[t].opened \in 1..clock /\ fp[i] = Period(line[t].opened)
      /\ line[t].opened \in 1..Len(Instants) /\ Period(line[t].opened) \in Nat
  <2>1. line[t].opened \in 1..clock /\ fp[i] = Period(line[t].opened)
    BY <1>0, <1>1, <1>3 DEF Opener
  <2>2. line[t].opened \in 1..Len(Instants)
    BY <1>3, <2>1
  <2>. QED BY <1>3, <2>1, <2>2, SamePeriod
<1>5. /\ \A s \in Threads \ {t} : line'[s] = line[s]
      /\ \/ line'[t].pc = "none"
         \/ /\ line'[t].pc = "state" /\ line'[t].stamp = line[t].stamp
            /\ line'[t].missed = line[t].missed /\ line'[t].inner = i
  BY <1>0, <1>1, LeavesTo
<1>6. /\ \A j \in Inners \ {i} : fp'[j] = fp[j] /\ name_time'[j] = name_time[j]
      /\ name_time'[i] = NamedAt(line[t].opened) /\ fp'[i] = fp[i]
  BY <1>0, <1>1, <1>2
<1>7. Named(i)'
  <2>1. NamedAt(line[t].opened) \in {0, line[t].opened}
    BY DEF NamedAt
  <2>2. name_time'[i] <= clock
    BY <1>3, <1>4, <1>6, <2>1
  <2>3. NameStrategy # no => name_time'[i] = line[t].opened /\ line[t].opened # 0
    BY <1>4, <1>6 DEF NamedAt
  <2>. QED BY <1>0, <1>1, <1>4, <1>6, <2>2, <2>3 DEF Named
<1>8. Opener(t)'
  BY <1>5 DEF Opener
<1>9. InTime(t)'
  <2>1. ASSUME NEW u \in Threads, line'[u].pc = "fopen", line'[u].inner = i PROVE FALSE
    <3>1. u # t /\ line[u].pc = "fopen" /\ line[u].inner = i
      BY <1>5, <2>1
    <3>. QED BY <1>0, <1>1, <3>1, OneOpens
  <2>. QED BY <1>0, <1>1, <1>3, <1>5, <1>6, <2>1 DEF InTime, InFile
<1>. QED BY <1>0, <1>1, <1>5, <1>6, <1>7, <1>8, <1>9, <1>2, RightOpened

\* The other steps of a logging call.
LEMMA QuietRight ==
  ASSUME FileInv, RightInv, NEW t \in Threads, line[t].pc \notin {"none", "fopen", "publish"},
         UNCHANGED <<clock, fp, name_time, lines>>,
         \A s \in Threads \ {t} : line'[s] = line[s],
         line'[t].pc \notin {"fopen", "publish"}, InTime(t)'
  PROVE  RightInv'
BY RightKept

LEMMA RightLineStep ==
  ASSUME NamesHold, FileInv, RightInv, NEW t \in Threads, LineStep(t)
  PROVE  RightInv'
<1>0. NamesInOrder
  BY DEF NamesHold
<1>1. line[t].pc # "none"
  BY DEF LineStep, LockForText, TakeTime, CompareTime, AskReopen, SkipReopen, CloseFile, ReadNow,
         OpenFile, SetNameTime, TestState, WriteLine, WriteStray, At
<1>2. InTime(t) /\ InnerOf(t) \in Inners /\ InnerOf(t) = line[t].inner
  BY <1>1, InLine DEF RightInv, InnerOf
<1>3. CASE LockForText(t)
  <2>1. line[t].pc = "lock" /\ GoTo(t, "time") /\ UNCHANGED <<clock, fp, name_time, lines>>
    BY <1>3 DEF LockForText, At
  <2>2. line'[t].pc = "time" /\ \A s \in Threads \ {t} : line'[s] = line[s]
    BY <1>1, <2>1, GoesTo
  <2>3. InTime(t)'
    BY <2>2 DEF InTime
  <2>. QED BY <2>1, <2>2, <2>3, QuietRight
<1>4. CASE TakeTime(t)
  <2>1. /\ line[t].pc = "time" /\ UNCHANGED <<clock, fp, name_time, lines>>
        /\ line' = [line EXCEPT ![t].pc = "compare", ![t].stamp = clock]
    BY <1>4 DEF TakeTime, At
  <2>2. line'[t].pc = "compare" /\ \A s \in Threads \ {t} : line'[s] = line[s]
    BY <1>1, <2>1, InLine DEF FileInv, FileTypeOK, LineCalls
  <2>3. InTime(t)'
    BY <2>2 DEF InTime
  <2>. QED BY <2>1, <2>2, <2>3, QuietRight
<1>5. CASE AskReopen(t)
  <2>1. PICK pc : /\ pc = (IF line[t].need \/ state[InnerOf(t)] = "non_associated" THEN "enter"
                           ELSE "state")
                  /\ GoTo(t, pc)
    BY <1>5 DEF AskReopen
  <2>2. /\ line[t].pc = "reopen" /\ (pc = "enter" \/ (pc = "state" /\ ~line[t].need))
        /\ UNCHANGED <<clock, fp, name_time, lines>>
    BY <1>5, <2>1 DEF AskReopen, At
  <2>3. /\ line'[t].pc = pc /\ line'[t].stamp = line[t].stamp /\ line'[t].need = line[t].need
        /\ line'[t].missed = line[t].missed
        /\ line'[t].inner = line[t].inner /\ \A s \in Threads \ {t} : line'[s] = line[s]
    BY <1>1, <2>1, GoesTo
  <2>4. ASSUME NEW u \in Threads, line'[u].pc = "fopen" PROVE line'[u] = line[u]
    BY <2>2, <2>3, <2>4
  <2>5. InTime(t)'
    BY <1>2, <2>2, <2>3, <2>4 DEF InTime, InFile
  <2>. QED BY <2>2, <2>3, <2>5, QuietRight
<1>6. CASE SkipReopen(t)
  <2>1. /\ line[t].pc = "enter" /\ ~line[t].need /\ LeavesReopen(t)
        /\ UNCHANGED <<clock, fp, name_time, lines>>
    BY <1>6 DEF SkipReopen, At
  <2>2. /\ \A s \in Threads \ {t} : line'[s] = line[s]
        /\ \/ line'[t].pc = "none"
           \/ /\ line'[t].pc = "state" /\ line'[t].stamp = line[t].stamp
              /\ line'[t].missed = line[t].missed /\ line'[t].inner = line[t].inner
    BY <2>1, LeavesTo
  <2>3. ASSUME NEW u \in Threads, line'[u].pc = "fopen" PROVE line'[u] = line[u]
    BY <2>2, <2>3
  <2>4. InTime(t)'
    BY <1>2, <2>1, <2>2, <2>3 DEF InTime, InFile
  <2>. QED BY <2>1, <2>2, <2>4, QuietRight
<1>7. CASE CloseFile(t)
  <2>1. /\ line[t].pc = "enter" /\ MayEnter(t) /\ GoTo(t, "now")
        /\ UNCHANGED <<clock, name_time, lines>>
        /\ fp' = [fp EXCEPT ![InnerOf(t)] = IF @ = Null THEN Null ELSE Stray]
    BY <1>7 DEF CloseFile, At
  <2>2. line'[t].pc = "now" /\ \A s \in Threads \ {t} : line'[s] = line[s]
    BY <1>1, <2>1, GoesTo
  <2>3. InTime(t)'
    BY <2>2 DEF InTime
  <2>4. ~Opening(InnerOf(t))
    <3>1. ASSUME NEW u \in Threads, line[u].pc \in {"fopen", "publish"},
                 InnerOf(u) = InnerOf(t)
          PROVE  FALSE
      <4>1. mutex[InnerOf(t)] = u
        BY <3>1 DEF FileInv, Guarded
      <4>. QED BY <1>1, <2>1, <3>1, <4>1, InSection, Constants
    <3>. QED BY <3>1 DEF Opening
  <2>5. ASSUME NEW i \in Inners
        PROVE  fp'[i] = fp[i] \/ (fp'[i] \notin 1..Len(Instants) /\ ~Opening(i))
    <3>1. Null \notin 1..Len(Instants) /\ Stray \notin 1..Len(Instants)
      BY Constants DEF Null, Stray
    <3>. QED BY <2>1, <2>4, <3>1 DEF FileInv, FileTypeOK
  <2>6. \A l \in lines' \ lines : l[1] <= l[2] \/ l[3]
    BY <2>1
  <2>. QED BY <2>1, <2>2, <2>3, <2>5, <2>6, RightKept
<1>8. CASE TestState(t)
  <2>1. /\ line[t].pc = "state" /\ UNCHANGED <<clock, fp, name_time, lines>>
        /\ GoTo(t, "write") \/ Retries(t) \/ Returns(t)
    BY <1>8 DEF TestState, At
  <2>2. /\ \A s \in Threads \ {t} : line'[s] = line[s]
        /\ \/ line'[t].pc = "write" /\ line'[t].stamp = line[t].stamp
              /\ line'[t].inner = line[t].inner /\ line'[t].missed = line[t].missed
           \/ line'[t].pc = "enter" /\ line'[t].need = TRUE
           \/ line'[t].pc = "none"
    <3>1. CASE GoTo(t, "write")
      BY <1>1, <3>1, GoesTo
    <3>2. CASE Retries(t)
      BY <1>1, <3>2, RetryGoes
    <3>3. CASE Returns(t)
      BY <3>3, LineEnds DEF Returns
    <3>. QED BY <2>1, <3>1, <3>2, <3>3
  <2>3. ASSUME NEW u \in Threads, line'[u].pc = "fopen" PROVE line'[u] = line[u]
    BY <2>2, <2>3
  <2>4. InTime(t)'
    BY <1>2, <2>1, <2>2, <2>3 DEF InTime, InFile
  <2>5. line'[t].pc \notin {"fopen", "publish"}
    BY <2>2
  <2>. QED BY <2>1, <2>2, <2>4, <2>5, QuietRight
<1>9. CASE WriteLine(t)
  <2>1. /\ line[t].pc = "write" /\ fp[InnerOf(t)] \notin {Null, Stray}
        /\ UNCHANGED <<clock, fp, name_time>>
        /\ \A l \in lines' \ lines :
             l = <<Period(line[t].stamp), fp[InnerOf(t)], line[t].missed>>
        /\ Retries(t) \/ Returns(t)
    BY <1>9 DEF WriteLine, At
  <2>2. InFile(InnerOf(t))
    BY <1>2, <2>1, Constants DEF InFile, Null, Stray, FileInv, FileTypeOK
  <2>3. /\ \A s \in Threads \ {t} : line'[s] = line[s]
        /\ (line'[t].pc = "enter" /\ line'[t].need = TRUE) \/ line'[t].pc = "none"
    <3>1. CASE Retries(t)
      BY <1>1, <3>1, RetryGoes
    <3>2. CASE Returns(t)
      BY <3>2, LineEnds DEF Returns
    <3>. QED BY <2>1, <3>1, <3>2
  <2>4. InTime(t)' /\ line'[t].pc \notin {"fopen", "publish"}
    BY <2>3 DEF InTime
  <2>5. ASSUME NEW l \in lines' \ lines PROVE l[1] <= l[2] \/ l[3]
    <3>1. line[t].missed \/ Period(line[t].stamp) <= fp[InnerOf(t)]
      BY <1>2, <2>1, <2>2 DEF InTime
    <3>. QED BY <2>1, <2>5, <3>1
  <2>. QED BY <2>1, <2>3, <2>4, <2>5, RightKept
<1>10. CASE WriteStray(t)
  <2>1. UNCHANGED <<clock, fp, name_time, line, lines>>
    BY <1>10 DEF WriteStray, fileVars
  <2>. QED BY <2>1, RightKept
<1>. QED BY <1>0, <1>3, <1>4, <1>5, <1>6, <1>7, <1>8, <1>9, <1>10, ComparedRight, ReadNowRight,
            OpenFileRight, SetNameTimeRight DEF LineStep

LEMMA RightInvInit == Init => RightInv
<1>. SUFFICES ASSUME Init PROVE RightInv
  OBVIOUS
<1>1. RightFile /\ \A t \in Threads : Opener(t) /\ InTime(t)
  BY DEF Init, FileInit, RightFile, Opener, InTime, NoLine
<1>2. ASSUME NEW i \in Inners PROVE Named(i)
  <2>1. /\ fp[i] \in {Null, 1, Stray} /\ clock = 1
        /\ name_time[i] = IF fp[i] = 1 THEN NamedAt(1) ELSE 0
    BY DEF Init, FileInit
  <2>2. InFile(i) => fp[i] = 1
    BY <2>1, Constants DEF InFile, Null, Stray
  <2>3. Period(1) = 1
    <3>1. 1 \in 1..Len(Instants)
      BY Constants
    <3>. QED BY <3>1, PeriodIs
  <2>4. NamedAt(1) = IF NameStrategy = no THEN 0 ELSE 1
    BY DEF NamedAt
  <2>. QED BY <2>1, <2>2, <2>3, <2>4 DEF Named
<1>. QED BY <1>1, <1>2 DEF RightInv

LEMMA RightInvStep ==
  ASSUME NamesHold, LoggerInv, RightInv, [Next]_vars
  PROVE  RightInv'
<1>0. FileInv /\ NamesInOrder
  BY DEF LoggerInv, NamesHold
<1>1. ASSUME UNCHANGED <<line, lines, fp, name_time>>, clock' \in {clock, clock + 1}
      PROVE  RightInv'
  BY <1>0, <1>1, RightKept
<1>2. ASSUME NEW t \in Threads, RefStep(t) PROVE RightInv'
  <2>1. CASE DestroyInner(t)
    <3>1. /\ fp' = [fp EXCEPT ![op[t].other] = Null] /\ mutex[op[t].other] = NoThread
          /\ UNCHANGED <<clock, line, lines, name_time>>
      BY <2>1 DEF DestroyInner, DestroyFile
    <3>2. Null \notin 1..Len(Instants) /\ fp \in [Inners -> Null..Stray]
      BY <1>0, Constants DEF Null, FileInv, FileTypeOK
    <3>3. ~Opening(op[t].other)
      BY <1>0, <3>1, Constants DEF Opening, FileInv, Guarded
    <3>4. \A i \in Inners : fp'[i] = fp[i] \/ (fp'[i] \notin 1..Len(Instants) /\ ~Opening(i))
      BY <3>1, <3>2, <3>3
    <3>. QED BY <1>0, <3>1, <3>4, RightKept
  <2>2. CASE ~DestroyInner(t)
    BY <1>1, <1>2, <2>2 DEF RefStep, TakeLock, CountUp, ReadLog, StoreLog, DropReference,
       CountDown, GiveUpLock, fileVars
  <2>. QED BY <2>1, <2>2
<1>3. ASSUME NEW t \in Threads, LogStep(t) PROVE RightInv'
  BY <1>0, <1>3, RightLineStep DEF LogStep
<1>4. ASSUME NEW t \in Threads, UseDestroyed(t) PROVE RightInv'
  BY <1>1, <1>4 DEF UseDestroyed, fileVars
<1>5. ASSUME NEW t \in Threads, NEW x \in Loggers, NEW form \in {"format", "text"},
             BeginLog(t, x, form)
      PROVE  RightInv'
  <2>1. PICK pc \in {"lock", "time"} :
          line' = [line EXCEPT ![t] =
            [pc |-> pc, inner |-> log[x], form |-> form, stamp |-> 0, opened |-> 0,
             need |-> FALSE, missed |-> FALSE, stage |-> "first"]]
    BY <1>5 DEF BeginLog, BeginLine
  <2>2. line'[t].pc \in {"lock", "time"} /\ \A s \in Threads \ {t} : line'[s] = line[s]
    BY <1>0, <2>1 DEF FileInv, FileTypeOK
  <2>3. line[t].pc = "none" /\ UNCHANGED <<clock, fp, name_time, lines>>
    BY <1>5 DEF BeginLog, BeginLine, NoLine
  <2>4. InTime(t)' /\ line'[t].pc \notin {"fopen", "publish"}
    BY <2>2 DEF InTime
  <2>. QED BY <1>0, <2>2, <2>3, <2>4, RightKept
<1>6. ASSUME NEW t \in Threads, Call(t) PROVE RightInv'
  BY <1>1, <1>5, <1>6 DEF Call, DefaultConstruct, Begin, fileVars
<1>7. CASE Time \/ UNCHANGED vars
  BY <1>1, <1>7 DEF Time, Tick, vars, fileVars
<1>. QED BY <1>2, <1>3, <1>4, <1>6, <1>7 DEF Next, Step

\* A line goes to no file of an earlier period than its own, also when another thread rotates
\* the file between the look at the clock and the write, or fails to (simple_logger.cpp:63-113),
\* but for a call that finds name_time unset while another thread is about to set it: with a
\* rotation strategy, and for readings of the clock that log_time::equal tells apart as their
\* names do.
THEOREM RightFileAlways ==
  ASSUME NamesHold PROVE Spec => []RightFile
<1>1. LoggerInv /\ RightInv /\ [Next]_vars => RightInv'
  BY RightInvStep
<1>2. RightInv => RightFile
  BY DEF RightInv
<1>. QED BY <1>1, <1>2, RightInvInit, LoggerInvAlways, PTL DEF Spec
==============================================================================
