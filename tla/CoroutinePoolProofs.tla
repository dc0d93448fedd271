------------------------- MODULE CoroutinePoolProofs -------------------------
(***************************************************************************)
(* Proofs about CoroutinePool, for any number of workers and any forest of *)
(* coroutines.                                                             *)
(***************************************************************************)
EXTENDS CoroutinePool, FiniteSetTheorems, SequenceTheorems, TLAPS

\* The coroutine a task or a resumption belongs to is a coroutine, and the one that awaits a
\* submitted coroutine is the one that has submitted it.
LEMMA Structure ==
  /\ \A n \in Coroutines : Task(n) \in Activity /\ Body(n) \in Activity
  /\ \A n \in Coroutines : Child[n] # None => Child[n] \in Coroutines /\ Child[n] \notin Roots
  /\ \A p \in Coroutines : Child[p] # None => Parent(Child[p]) = p
<1>1. ASSUME NEW p \in Coroutines, Child[p] # None
      PROVE  Parent(Child[p]) = p
  <2>1. \A q \in Coroutines : Child[q] = Child[p] => q = p
    BY <1>1, CoroutineAssumption
  <2> QED BY <2>1 DEF Parent
<1> QED BY <1>1, CoroutineAssumption DEF Activity

-----------------------------------------------------------------------------
(***************************************************************************)
(* Types.                                                                  *)
(***************************************************************************)
\* What runs on top of a stack, and what a worker takes from the queue.
LEMMA StackTypes ==
  ASSUME TypeOK, NEW w \in Workers
  PROVE  /\ \A a \in Activity : [stack EXCEPT ![w] = Append(@, a)] \in [Workers -> Seq(Activity)]
         /\ stack[w] # <<>> =>
              [stack EXCEPT ![w] = SubSeq(@, 1, Len(@) - 1)] \in [Workers -> Seq(Activity)]
<1>1. stack[w] \in Seq(Activity)
  BY DEF TypeOK
<1>2. \A a \in Activity : Append(stack[w], a) \in Seq(Activity)
  BY <1>1
<1>3. ASSUME stack[w] # <<>>
      PROVE  SubSeq(stack[w], 1, Len(stack[w]) - 1) \in Seq(Activity)
  BY <1>1, <1>3
<1> QED BY <1>2, <1>3 DEF TypeOK

-----------------------------------------------------------------------------
(***************************************************************************)
(* The invariant.                                                          *)
(***************************************************************************)
\* Only the task of a coroutine that has been submitted creates it.
Created ==
  \A n \in Coroutines :
    tpc[n] \in {"create", "lock", "mark", "callback", "unlock"} =>
      \E p \in Coroutines : Child[p] = n

\* A coroutine that awaits has something to await, and its callback runs when that is created.
Awaits ==
  \A n \in Coroutines :
    /\ cpc[n] \in {"await", "suspend", "spin", "suspended", "resumed"} => Child[n] # None
    /\ tpc[n] \in {"lock", "mark", "callback", "unlock"} => future[n]

\* The waiters of a coroutine are those that await its end.
WaitersAwait ==
  \A n, p \in Coroutines :
    p \in waiters[n] => Child[p] = n /\ Mode[n] = "end" /\ future[n]

\* A coroutine resumes its waiters after it has a value; the promise that is broken, or is about
\* to be, is one whose end nobody awaits.
Finished ==
  \A n \in Coroutines :
    /\ cpc[n] = "wake" => done[n] = "value"
    /\ cpc[n] = "destroy" /\ done[n] = "no" => Mode[n] = "start"
    /\ done[n] = "broken" => Mode[n] = "start"

Inv == TypeOK /\ Created /\ Awaits /\ WaitersAwait

\* The values come in time where nobody awaits the end of a coroutine that throws.
Values == Finished /\ ValueIsThere

NoThrowIsAwaited == \A n \in Throwing : Mode[n] = "start"

Preserved == Inv' /\ (NoThrowIsAwaited /\ Values => Values')

-----------------------------------------------------------------------------
(***************************************************************************)
(* Steps that change only where tasks and bodies are.                      *)
(***************************************************************************)
\* The initial states.
LEMMA InvInit == Init => Inv /\ Values
BY DEF Init, Inv, Values, TypeOK, Created, Awaits, WaitersAwait, Finished, ValueIsThere

\* A task is enqueued or taken from the queue.
LEMMA QueueSteps ==
  ASSUME Inv, (\E n \in Roots : EnqueueRoot(n)) \/ (\E w \in Workers : PopTask(w))
  PROVE  Preserved
<1>1. ASSUME NEW n \in Roots, EnqueueRoot(n) PROVE Preserved
  <2>1. n \in Coroutines
    BY CoroutineAssumption
  <2>2. TypeOK'
    BY <1>1, <2>1, Structure DEF EnqueueRoot, TaskGoes, Inv, TypeOK
  <2> QED BY <1>1, <2>1, <2>2
             DEF EnqueueRoot, TaskGoes, Inv, Preserved, Values, TypeOK, Created, Awaits,
                 WaitersAwait, Finished, ValueIsThere
<1>2. ASSUME NEW w \in Workers, PopTask(w) PROVE Preserved
  <2>1. Head(m_tasks) \in Activity /\ Tail(m_tasks) \in Seq(Activity)
    BY <1>2 DEF PopTask, Inv, TypeOK
  <2>2. TypeOK'
    BY <1>2, <2>1, StackTypes DEF PopTask, Push, Inv, TypeOK
  <2> QED BY <1>2, <2>2
             DEF PopTask, Inv, Preserved, Values, Created, Awaits, WaitersAwait, Finished,
                 ValueIsThere
<1> QED BY <1>1, <1>2

\* The packaged task, but for the callback.
LEMMA TaskSteps ==
  ASSUME Inv, NEW w \in Workers, NEW n \in Coroutines,
         \/ Publish(w, n) \/ CallbackLock(w, n) \/ CallbackMark(w, n) \/ CallbackUnlock(w, n)
         \/ Resume(w, n) \/ TaskOver(w, n)
  PROVE  Preserved
<1>1. CASE Publish(w, n)
  <2>1. TypeOK'
    BY <1>1 DEF Publish, TaskGoes, Inv, TypeOK
  <2> QED BY <1>1, <2>1
             DEF Publish, AtTask, TaskGoes, Inv, Preserved, Values, TypeOK, Created, Awaits,
                 WaitersAwait, Finished, ValueIsThere
<1>2. CASE CallbackLock(w, n)
  <2>1. TypeOK'
    BY <1>2 DEF CallbackLock, TaskGoes, Inv, TypeOK
  <2> QED BY <1>2, <2>1
             DEF CallbackLock, AtTask, TaskGoes, Inv, Preserved, Values, TypeOK, Created, Awaits,
                 WaitersAwait, Finished, ValueIsThere
<1>3. CASE CallbackMark(w, n)
  <2>1. TypeOK'
    BY <1>3 DEF CallbackMark, Marked, TaskGoes, Inv, TypeOK
  <2> QED BY <1>3, <2>1
             DEF CallbackMark, AtTask, TaskGoes, Inv, Preserved, Values, TypeOK, Created, Awaits,
                 WaitersAwait, Finished, ValueIsThere
<1>4. CASE CallbackUnlock(w, n)
  <2>1. TypeOK'
    BY <1>4 DEF CallbackUnlock, TaskGoes, Inv, TypeOK
  <2> QED BY <1>4, <2>1
             DEF CallbackUnlock, AtTask, TaskGoes, Inv, Preserved, Values, TypeOK, Created, Awaits,
                 WaitersAwait, Finished, ValueIsThere
<1>5. CASE Resume(w, n)
  <2>1. TypeOK'
    BY <1>5, StackTypes, Structure DEF Resume, Push, TaskGoes, BodyGoes, Inv, TypeOK
  <2> QED BY <1>5, <2>1
             DEF Resume, AtTask, TaskGoes, BodyGoes, Inv, Preserved, Values, TypeOK, Created,
                 Awaits, WaitersAwait, Finished, ValueIsThere
<1>6. CASE TaskOver(w, n)
  <2>1. TypeOK'
    BY <1>6, StackTypes DEF TaskOver, AtTask, Runs, Leave, Inv, TypeOK
  <2> QED BY <1>6, <2>1
             DEF TaskOver, Inv, Preserved, Values, Created, Awaits, WaitersAwait, Finished,
                 ValueIsThere
<1> QED BY <1>1, <1>2, <1>3, <1>4, <1>5, <1>6

\* execute_callback runs the callback: the parent is resumed once the coroutine is there, or
\* becomes its waiter.
LEMMA CallbackSteps ==
  ASSUME Inv, NEW w \in Workers, NEW n \in Coroutines,
         CallbackResumes(w, n) \/ CallbackEnqueues(w, n) \/ CallbackWaits(w, n)
  PROVE  Preserved
<1>1. tpc[n] = "callback" /\ future[n]
  BY DEF CallbackResumes, CallbackEnqueues, CallbackWaits, AtTask, Inv, Awaits
<1>2. Parent(n) \in Coroutines /\ Child[Parent(n)] = n /\ n # None
  <2>1. PICK p \in Coroutines : Child[p] = n
    BY <1>1 DEF Inv, Created
  <2> QED BY <2>1, Structure, CoroutineAssumption
<1>3. CASE CallbackResumes(w, n) \/ CallbackEnqueues(w, n)
  <2>1. TypeOK'
    <3>1. Body(Parent(n)) \in Activity
      BY <1>2, Structure
    <3>2. CASE CallbackResumes(w, n)
      BY <1>2, <3>1, <3>2, StackTypes DEF CallbackResumes, Push, TaskGoes, BodyGoes, Inv, TypeOK
    <3>3. CASE CallbackEnqueues(w, n)
      BY <1>2, <3>1, <3>3 DEF CallbackEnqueues, TaskGoes, BodyGoes, Inv, TypeOK
    <3> QED BY <1>3, <3>2, <3>3
  <2>2. /\ tpc' = [tpc EXCEPT ![n] = "unlock"] /\ cpc' = [cpc EXCEPT ![Parent(n)] = "resumed"]
        /\ Mode[n] = "start" /\ UNCHANGED <<future, cb, done, waiters>>
    BY <1>3 DEF CallbackResumes, CallbackEnqueues, TaskGoes, BodyGoes
  <2> QED BY <1>1, <1>2, <2>1, <2>2
             DEF Inv, Preserved, Values, TypeOK, Created, Awaits, WaitersAwait, Finished,
                 ValueIsThere
<1>4. CASE CallbackWaits(w, n)
  <2>1. TypeOK'
    BY <1>2, <1>4 DEF CallbackWaits, TaskGoes, Inv, TypeOK
  <2> QED BY <1>1, <1>2, <1>4, <2>1
             DEF CallbackWaits, TaskGoes, Inv, Preserved, Values, TypeOK, Created, Awaits,
                 WaitersAwait, Finished, ValueIsThere
<1> QED BY <1>3, <1>4

\* co_await: the body goes on only when what it awaits is ready.
LEMMA AwaitSteps ==
  ASSUME Inv, NEW w \in Workers, NEW n \in Coroutines,
         \/ Submit(w, n) \/ NothingToAwait(w, n) \/ Await(w, n) \/ LeaveCallback(w, n)
         \/ TryAgain(w, n) \/ TooLate(w, n) \/ SpinEnds(w, n)
  PROVE  Preserved
<1>1. CASE Submit(w, n)
  <2>1. Child[n] \in Coroutines
    BY <1>1, Structure DEF Submit
  <2>2. TypeOK'
    BY <1>1, <2>1, Structure DEF Submit, BodyGoes, Inv, TypeOK
  <2> QED BY <1>1, <2>1, <2>2
             DEF Submit, BodyGoes, Inv, Preserved, Values, TypeOK, Created, Awaits, WaitersAwait,
                 Finished, ValueIsThere
<1>2. CASE NothingToAwait(w, n)
  <2>1. TypeOK'
    BY <1>2 DEF NothingToAwait, BodyGoes, Inv, TypeOK
  <2> QED BY <1>2, <2>1
             DEF NothingToAwait, BodyGoes, Inv, Preserved, Values, TypeOK, Created, Awaits,
                 WaitersAwait, Finished, ValueIsThere
<1>3. CASE Await(w, n)
  <2>1. TypeOK'
    BY <1>3 DEF Await, BodyGoes, Inv, TypeOK
  <2> QED BY <1>3, <2>1, CoroutineAssumption, Structure
             DEF Await, AwaitReady, AtBody, BodyGoes, Inv, Preserved, Values, TypeOK, Created,
                 Awaits, WaitersAwait, Finished, ValueIsThere
<1>4. CASE LeaveCallback(w, n)
  <2>1. Child[n] \in Coroutines
    BY <1>4, Structure DEF LeaveCallback, AtBody, Inv, Awaits
  <2>2. TypeOK'
    BY <1>4, <2>1, StackTypes DEF LeaveCallback, AtBody, Runs, Leave, BodyGoes, Inv, TypeOK
  <2> QED BY <1>4, <2>2
             DEF LeaveCallback, AtBody, BodyGoes, Inv, Preserved, Values, TypeOK, Created, Awaits,
                 WaitersAwait, Finished, ValueIsThere
<1>5. CASE TryAgain(w, n)
  <2>1. Child[n] \in Coroutines
    BY <1>5, Structure DEF TryAgain, AtBody, Inv, Awaits
  <2>2. cb[Child[n]].tries + 1 \in 0..3
    BY <1>5, <2>1 DEF TryAgain, Inv, TypeOK
  <2>3. TypeOK'
    BY <1>5, <2>1, <2>2, ZenonT(60) DEF TryAgain, Inv, TypeOK
  <2> QED BY <1>5, <2>3
             DEF TryAgain, Inv, Preserved, Values, Created, Awaits, WaitersAwait, Finished,
                 ValueIsThere
<1>6. CASE TooLate(w, n)
  <2>1. TypeOK'
    BY <1>6 DEF TooLate, BodyGoes, Inv, TypeOK
  <2> QED BY <1>6, <2>1
             DEF TooLate, AtBody, BodyGoes, Inv, Preserved, Values, TypeOK, Created, Awaits,
                 WaitersAwait, Finished, ValueIsThere
<1>7. CASE SpinEnds(w, n)
  <2>1. TypeOK'
    BY <1>7 DEF SpinEnds, BodyGoes, Inv, TypeOK
  <2> QED BY <1>7, <2>1, CoroutineAssumption, Structure
             DEF SpinEnds, AwaitReady, AtBody, BodyGoes, Inv, Preserved, Values, TypeOK, Created,
                 Awaits, WaitersAwait, Finished, ValueIsThere
<1> QED BY <1>1, <1>2, <1>3, <1>4, <1>5, <1>6, <1>7

-----------------------------------------------------------------------------
(***************************************************************************)
(* The end of a coroutine.                                                 *)
(***************************************************************************)
\* A body takes the value it has awaited, returns its own or throws.
LEMMA ReturnSteps ==
  ASSUME Inv, NEW w \in Workers, NEW n \in Coroutines,
         AwaitResume(w, n) \/ ReturnValue(w, n) \/ Throws(w, n)
  PROVE  Preserved
<1>1. CASE AwaitResume(w, n)
  <2>1. Child[n] \in Coroutines
    BY <1>1, Structure DEF AwaitResume, AtBody, Inv, Awaits
  <2>2. Values => ~Rethrows(n)
    BY <2>1 DEF Rethrows, Values, Finished
  <2>3. TypeOK'
    BY <1>1 DEF AwaitResume, BodyGoes, Inv, TypeOK
  <2> QED BY <1>1, <2>2, <2>3
             DEF AwaitResume, BodyGoes, Inv, Preserved, Values, TypeOK, Created, Awaits,
                 WaitersAwait, Finished, ValueIsThere
<1>2. CASE ReturnValue(w, n)
  <2>1. TypeOK'
    BY <1>2 DEF ReturnValue, BodyGoes, Inv, TypeOK
  <2> QED BY <1>2, <2>1, CoroutineAssumption, Structure
             DEF ReturnValue, AtBody, BodyGoes, Inv, Preserved, Values, TypeOK, Created, Awaits,
                 WaitersAwait, Finished, ValueIsThere
<1>3. CASE Throws(w, n)
  <2>1. TypeOK'
    BY <1>3 DEF Throws, BodyGoes, Inv, TypeOK
  <2> QED BY <1>3, <2>1
             DEF Throws, NoThrowIsAwaited, AtBody, BodyGoes, Inv, Preserved, Values, TypeOK,
                 Created, Awaits, WaitersAwait, Finished, ValueIsThere
<1> QED BY <1>1, <1>2, <1>3

\* return_value and ~promise_type resume the waiters; the frame goes when there is none left.
LEMMA EndSteps ==
  ASSUME Inv, NEW w \in Workers, NEW n \in Coroutines,
         ResumeWaitor(w, n) \/ FinalSuspend(w, n) \/ Destroy(w, n)
  PROVE  Preserved
<1>1. CASE ResumeWaitor(w, n)
  <2>1. PICK p \in waiters[n] :
          /\ waiters' = [waiters EXCEPT ![n] = @ \ {p}]
          /\ Push(w, Body(p))
          /\ BodyGoes(p, "resumed")
    BY <1>1 DEF ResumeWaitor
  <2>2. /\ p \in Coroutines /\ Child[p] = n /\ n # None /\ future[n]
        /\ Values => done[n] # "no"
    BY <1>1, <2>1, CoroutineAssumption
       DEF ResumeWaitor, AtBody, Inv, TypeOK, WaitersAwait, Values, Finished
  <2>3. TypeOK'
    BY <1>1, <2>1, <2>2, StackTypes, Structure
       DEF ResumeWaitor, Push, BodyGoes, Inv, TypeOK
  <2> QED BY <1>1, <2>1, <2>2, <2>3
             DEF ResumeWaitor, BodyGoes, Inv, Preserved, Values, TypeOK, Created, Awaits,
                 WaitersAwait, Finished, ValueIsThere
<1>2. CASE FinalSuspend(w, n)
  <2>1. TypeOK'
    BY <1>2 DEF FinalSuspend, BodyGoes, Inv, TypeOK
  <2> QED BY <1>2, <2>1
             DEF FinalSuspend, AtBody, BodyGoes, Inv, Preserved, Values, TypeOK, Created, Awaits,
                 WaitersAwait, Finished, ValueIsThere
<1>3. CASE Destroy(w, n)
  <2>1. TypeOK'
    BY <1>3, StackTypes DEF Destroy, AtBody, Runs, Leave, BodyGoes, Inv, TypeOK
  <2> QED BY <1>3, <2>1, CoroutineAssumption, Structure
             DEF Destroy, AtBody, BodyGoes, Inv, Preserved, Values, TypeOK, Created, Awaits,
                 WaitersAwait, Finished, ValueIsThere
<1> QED BY <1>1, <1>2, <1>3

LEMMA NextPreserves ==
  ASSUME Inv, [Next]_vars
  PROVE  Preserved
<1>1. CASE UNCHANGED vars
  BY <1>1 DEF vars, Inv, Preserved, Values, TypeOK, Created, Awaits, WaitersAwait, Finished,
              ValueIsThere
<1>2. ASSUME NEW w \in Workers, NEW n \in Coroutines, TaskStep(w, n) PROVE Preserved
  BY <1>2, TaskSteps, CallbackSteps DEF TaskStep
<1>3. ASSUME NEW w \in Workers, NEW n \in Coroutines, BodyStep(w, n) PROVE Preserved
  BY <1>3, AwaitSteps, ReturnSteps, EndSteps DEF BodyStep
<1> QED BY <1>1, <1>2, <1>3, QueueSteps DEF Next, WorkerStep

(***************************************************************************)
(* Whoever resumes a coroutine, the callback in either way, a waiters list *)
(* or the end of its spinning, does so when get() returns at once: for any *)
(* workers and any forest of coroutines in which nobody awaits the end of  *)
(* one that throws.                                                        *)
(***************************************************************************)
THEOREM ResumedHasItsValue ==
  ASSUME \A n \in Throwing : Mode[n] = "start"
  PROVE  Spec => []ValueIsThere
<1>1. Inv /\ Values /\ [Next]_vars => Inv' /\ Values'
  BY NextPreserves DEF Preserved, NoThrowIsAwaited
<1>2. Inv /\ Values => ValueIsThere
  BY DEF Values
<1> QED BY <1>1, <1>2, InvInit, PTL DEF Spec

-----------------------------------------------------------------------------
(***************************************************************************)
(* Where a coroutine is: on the stack of a worker, in the queue, among the *)
(* waiters of the coroutine whose end it awaits, or in the callback of the *)
(* coroutine it has submitted.                                             *)
(***************************************************************************)
Spots(st) == UNION {{w} \X (1..Len(st[w])) : w \in Workers}

OnStack(st, n) == {at \in Spots(st) : st[at[1]][at[2]] = Body(n)}
InQueue(q, n) == {k \in 1..Len(q) : q[k] = Body(n)}
Awaited(wt, n) == {m \in Coroutines : n \in wt[m]}
InCallback(c, pc, n) ==
  Child[n] # None /\ c[Child[n]].set /\ pc[Child[n]] \in {"create", "lock", "mark", "callback"}

\* In which order a coroutine, its task and its callback come: the task creates it and resumes
\* it once; a callback is run only if it was left, and left only where it can still be run; and
\* a coroutine is submitted by its parent once.
Turns ==
  \A n \in Coroutines :
    /\ cpc[n] = "unborn" <=> tpc[n] # "over"
    /\ tpc[n] = "new" => ~cb[n].set
    /\ tpc[n] = "callback" => cb[n].set
    /\ n \notin Roots /\ tpc[n] \in {"callback", "unlock", "resume", "over"} => cb[n].has_ran
    /\ Child[n] # None =>
         (tpc[Child[n]] = "new" <=> cpc[n] \in {"unborn", "body"})

InOnePlace == \A n \in Coroutines : Places(n) = IF cpc[n] \in {"unborn", "gone"} THEN 0 ELSE 1

TurnsInv == Inv /\ Turns /\ InOnePlace

-----------------------------------------------------------------------------
(***************************************************************************)
(* How these places change with the stacks, the queue and the waiters.     *)
(***************************************************************************)
LEMMA Names ==
  ASSUME NEW m, NEW n
  PROVE  (Body(m) = Body(n) <=> m = n) /\ Task(m) # Body(n)
BY DEF Body, Task

\* The activity a is one place more for n, or none.
Gains(after, before, a, n) ==
  /\ a = Body(n) => after = before + 1
  /\ a # Body(n) => after = before

LEMMA OneMore ==
  ASSUME NEW S, IsFiniteSet(S), NEW x, x \notin S, NEW a, NEW n,
         NEW T, a = Body(n) => T = S \cup {x}, a # Body(n) => T = S
  PROVE  Gains(Cardinality(T), Cardinality(S), a, n)
<1>1. CASE a = Body(n)
  <2>1. Cardinality(T) = Cardinality(S) + 1
    BY <1>1, FS_AddElement
  <2> QED BY <1>1, <2>1 DEF Gains
<1>2. CASE a # Body(n)
  BY <1>2 DEF Gains
<1> QED BY <1>1, <1>2

LEMMA SpotsFinite ==
  ASSUME NEW st \in [Workers -> Seq(Activity)]
  PROVE  /\ \A at : at \in Spots(st) <=> \E w \in Workers : \E k \in 1..Len(st[w]) : at = <<w, k>>
         /\ IsFiniteSet(Spots(st))
<1> DEFINE Of == [w \in Workers |-> {w} \X (1..Len(st[w]))]
           Parts == {{w} \X (1..Len(st[w])) : w \in Workers}
<1>1. \A at : at \in Spots(st) <=> \E w \in Workers : \E k \in 1..Len(st[w]) : at = <<w, k>>
  BY DEF Spots
<1>2. IsFiniteSet(Parts)
  <2>1. Of \in Surjection(Workers, Parts)
    BY DEF Surjection
  <2> HIDE DEF Of, Parts
  <2> QED BY <2>1, CoroutineAssumption, FS_Surjection
<1>3. ASSUME NEW T \in Parts PROVE IsFiniteSet(T)
  <2>1. PICK w \in Workers : T = {w} \X (1..Len(st[w]))
    BY <1>3
  <2>2. Len(st[w]) \in Nat
    <3>1. st[w] \in Seq(Activity)
      OBVIOUS
    <3> QED BY <3>1
  <2>3. \A n \in Nat : IsFiniteSet(1..n)
    BY FS_Interval
  <2>4. IsFiniteSet({w})
    BY FS_Singleton
  <2> QED BY <2>1, <2>2, <2>3, <2>4, FS_Product
<1>4. IsFiniteSet(UNION Parts)
  <2> HIDE DEF Parts
  <2> QED BY <1>2, <1>3, FS_UNION
<1> QED BY <1>1, <1>4 DEF Spots

LEMMA StackSet ==
  ASSUME NEW st \in [Workers -> Seq(Activity)], NEW n
  PROVE  /\ \A at : at \in OnStack(st, n)
                    <=> \E w \in Workers : \E k \in 1..Len(st[w]) :
                          at = <<w, k>> /\ st[w][k] = Body(n)
         /\ IsFiniteSet(OnStack(st, n))
<1>1. \A at : at \in Spots(st) <=> \E w \in Workers : \E k \in 1..Len(st[w]) : at = <<w, k>>
  BY SpotsFinite
<1>2. OnStack(st, n) \in SUBSET Spots(st)
  BY DEF OnStack
<1>3. IsFiniteSet(OnStack(st, n))
  BY <1>2, SpotsFinite, FS_Subset
<1> QED BY <1>1, <1>3 DEF OnStack

LEMMA StackPushed ==
  ASSUME NEW st \in [Workers -> Seq(Activity)], NEW w \in Workers, NEW a \in Activity, NEW n
  PROVE  Gains(Cardinality(OnStack([st EXCEPT ![w] = Append(@, a)], n)),
               Cardinality(OnStack(st, n)), a, n)
<1> DEFINE t == [st EXCEPT ![w] = Append(@, a)]
           x == <<w, Len(st[w]) + 1>>
<1>1. /\ st[w] \in Seq(Activity) /\ Len(st[w]) \in Nat /\ t \in [Workers -> Seq(Activity)]
      /\ t[w] = Append(st[w], a) /\ \A v \in Workers \ {w} : t[v] = st[v]
      /\ Len(Append(st[w], a)) = Len(st[w]) + 1
      /\ \A k \in 1..Len(st[w]) : Append(st[w], a)[k] = st[w][k]
      /\ Append(st[w], a)[Len(st[w]) + 1] = a
  OBVIOUS
<1> HIDE DEF t
<1>2. \A at : at \in OnStack(st, n) <=> \E v \in Workers : \E k \in 1..Len(st[v]) :
                                          at = <<v, k>> /\ st[v][k] = Body(n)
  BY StackSet
<1>3. \A at : at \in OnStack(t, n) <=> \E v \in Workers : \E k \in 1..Len(t[v]) :
                                         at = <<v, k>> /\ t[v][k] = Body(n)
  BY <1>1, StackSet
<1>4. x \notin OnStack(st, n)
  BY <1>1, <1>2
<1>5. /\ a = Body(n) => OnStack(t, n) = OnStack(st, n) \cup {x}
      /\ a # Body(n) => OnStack(t, n) = OnStack(st, n)
  <2>1. ASSUME NEW at \in OnStack(t, n), at \notin OnStack(st, n)
        PROVE  at = x /\ a = Body(n)
    <3>1. PICK v, k : v \in Workers /\ k \in 1..Len(t[v]) /\ at = <<v, k>> /\ t[v][k] = Body(n)
      BY <1>3
    <3>2. v = w
      BY <1>1, <1>2, <2>1, <3>1
    <3>3. k \notin 1..Len(st[w])
      BY <1>1, <1>2, <2>1, <3>1, <3>2
    <3>4. k = Len(st[w]) + 1
      BY <1>1, <3>1, <3>2, <3>3
    <3> QED BY <1>1, <3>1, <3>2, <3>4
  <2>2. ASSUME NEW at \in OnStack(st, n) PROVE at \in OnStack(t, n)
    <3>1. PICK v, k : v \in Workers /\ k \in 1..Len(st[v]) /\ at = <<v, k>> /\ st[v][k] = Body(n)
      BY <1>2
    <3>2. k \in 1..Len(t[v]) /\ t[v][k] = st[v][k]
      <4>1. CASE v = w
        <5>1. k \in 1..Len(st[w]) /\ k \in 1..(Len(st[w]) + 1)
          BY <1>1, <3>1, <4>1
        <5> QED BY <1>1, <4>1, <5>1
      <4>2. CASE v # w
        BY <1>1, <3>1, <4>2
      <4> QED BY <4>1, <4>2
    <3> QED BY <1>3, <3>1, <3>2
  <2>3. ASSUME a = Body(n) PROVE x \in OnStack(t, n)
    <3>1. Len(st[w]) + 1 \in 1..Len(t[w]) /\ t[w][Len(st[w]) + 1] = Body(n)
      BY <1>1, <2>3
    <3> QED BY <1>3, <3>1
  <2> HIDE DEF x
  <2> QED BY <2>1, <2>2, <2>3
<1>6. IsFiniteSet(OnStack(st, n))
  BY StackSet
<1> HIDE DEF x
<1>7. Gains(Cardinality(OnStack(t, n)), Cardinality(OnStack(st, n)), a, n)
  BY <1>4, <1>5, <1>6, OneMore
<1> QED BY <1>7 DEF t

LEMMA StackLeft ==
  ASSUME NEW st \in [Workers -> Seq(Activity)], NEW w \in Workers, st[w] # <<>>, NEW n
  PROVE  Gains(Cardinality(OnStack(st, n)),
               Cardinality(OnStack([st EXCEPT ![w] = SubSeq(@, 1, Len(@) - 1)], n)),
               st[w][Len(st[w])], n)
<1> DEFINE f == SubSeq(st[w], 1, Len(st[w]) - 1)
           a == st[w][Len(st[w])]
           t == [st EXCEPT ![w] = f]
<1>1. /\ st[w] \in Seq(Activity) /\ Len(st[w]) \in Nat /\ Len(st[w]) > 0
      /\ f \in Seq(Activity) /\ Len(f) = Len(st[w]) - 1 /\ a \in Activity
      /\ \A k \in 1..Len(f) : f[k] = st[w][k]
  <2>1. st[w] \in Seq(Activity) /\ Len(st[w]) \in Nat /\ Len(st[w]) > 0
    <3>1. st[w] \in Seq(Activity)
      OBVIOUS
    <3> QED BY <3>1
  <2>2. \A s \in Seq(Activity) : Len(s) > 0 =>
          /\ SubSeq(s, 1, Len(s) - 1) \in Seq(Activity)
          /\ Len(SubSeq(s, 1, Len(s) - 1)) = Len(s) - 1
          /\ \A k \in 1..(Len(s) - 1) : SubSeq(s, 1, Len(s) - 1)[k] = s[k]
    <3> SUFFICES ASSUME NEW s \in Seq(Activity), Len(s) > 0
                 PROVE  /\ SubSeq(s, 1, Len(s) - 1) \in Seq(Activity)
                        /\ Len(SubSeq(s, 1, Len(s) - 1)) = Len(s) - 1
                        /\ \A k \in 1..(Len(s) - 1) : SubSeq(s, 1, Len(s) - 1)[k] = s[k]
      OBVIOUS
    <3>1. 1 \in Int /\ Len(s) - 1 \in Int /\ \A i \in 1..(Len(s) - 1) : s[i] \in Activity
      OBVIOUS
    <3>2. /\ SubSeq(s, 1, Len(s) - 1) \in Seq(Activity)
          /\ Len(SubSeq(s, 1, Len(s) - 1)) = IF 1 <= Len(s) - 1 THEN Len(s) - 1 - 1 + 1 ELSE 0
          /\ \A i \in 1..(Len(s) - 1 - 1 + 1) : SubSeq(s, 1, Len(s) - 1)[i] = s[1 + i - 1]
      BY <3>1, SubSeqProperties
    <3>3. Len(s) \in Nat /\ Len(s) - 1 - 1 + 1 = Len(s) - 1
      OBVIOUS
    <3>4. \A i \in 1..(Len(s) - 1) : SubSeq(s, 1, Len(s) - 1)[i] = s[i]
      <4> TAKE i \in 1..(Len(s) - 1)
      <4>1. 1 + i - 1 = i
        OBVIOUS
      <4>2. SubSeq(s, 1, Len(s) - 1)[i] = s[1 + i - 1]
        BY <3>2, <3>3
      <4> QED BY <4>1, <4>2
    <3>5. Len(SubSeq(s, 1, Len(s) - 1)) = Len(s) - 1
      BY <3>2, <3>3
    <3> QED BY <3>2, <3>4, <3>5
  <2>3. \A s \in Seq(Activity) : Len(s) > 0 => s[Len(s)] \in Activity
    OBVIOUS
  <2> QED BY <2>1, <2>2, <2>3
<1>2. Append(f, a) = st[w]
  <2> HIDE DEF f
  <2>1. Append(f, a) \in Seq(Activity) /\ Len(Append(f, a)) = Len(st[w])
    BY <1>1
  <2>2. \A k \in 1..Len(st[w]) : Append(f, a)[k] = st[w][k]
    <3> TAKE k \in 1..Len(st[w])
    <3>1. CASE k \in 1..Len(f)
      BY <1>1, <3>1
    <3>2. CASE k = Len(st[w])
      BY <1>1, <3>2
    <3> QED BY <1>1, <3>1, <3>2
  <2> QED BY <1>1, <2>1, <2>2
<1>3. t \in [Workers -> Seq(Activity)] /\ t[w] = f
  BY <1>1
<1>4. [t EXCEPT ![w] = Append(@, a)] = st
  <2> HIDE DEF f, a
  <2>1. [t EXCEPT ![w] = Append(@, a)] = [t EXCEPT ![w] = st[w]]
    BY <1>2, <1>3
  <2> QED BY <1>1, <2>1
<1> HIDE DEF f, a, t
<1>5. Gains(Cardinality(OnStack([t EXCEPT ![w] = Append(@, a)], n)),
            Cardinality(OnStack(t, n)), a, n)
  BY <1>1, <1>3, StackPushed
<1> QED BY <1>4, <1>5 DEF a, t, f

LEMMA QueueSet ==
  ASSUME NEW q \in Seq(Activity), NEW n
  PROVE  IsFiniteSet(InQueue(q, n)) /\ Cardinality(InQueue(q, n)) \in Nat
<1>1. Len(q) \in Nat /\ InQueue(q, n) \in SUBSET (1..Len(q))
  BY DEF InQueue
<1>2. IsFiniteSet(1..Len(q))
  BY <1>1, FS_Interval
<1> QED BY <1>1, <1>2, FS_Subset, FS_CardinalityType

LEMMA QueueAppended ==
  ASSUME NEW q \in Seq(Activity), NEW a \in Activity, NEW n
  PROVE  Gains(Cardinality(InQueue(Append(q, a), n)), Cardinality(InQueue(q, n)), a, n)
<1>1. /\ Len(q) \in Nat /\ Len(Append(q, a)) = Len(q) + 1
      /\ \A k \in 1..Len(q) : Append(q, a)[k] = q[k]
      /\ Append(q, a)[Len(q) + 1] = a
  OBVIOUS
<1>2. /\ a = Body(n) => InQueue(Append(q, a), n) = InQueue(q, n) \cup {Len(q) + 1}
      /\ a # Body(n) => InQueue(Append(q, a), n) = InQueue(q, n)
  BY <1>1 DEF InQueue
<1>3. Len(q) + 1 \notin InQueue(q, n)
  BY <1>1 DEF InQueue
<1>4. IsFiniteSet(InQueue(q, n))
  BY QueueSet
<1> QED BY <1>2, <1>3, <1>4, OneMore

LEMMA QueueTaken ==
  ASSUME NEW q \in Seq(Activity), q # <<>>, NEW n
  PROVE  Gains(Cardinality(InQueue(q, n)), Cardinality(InQueue(Tail(q), n)), Head(q), n)
<1> DEFINE S == InQueue(Tail(q), n)
           M == {k \in InQueue(q, n) : k > 1}
           f == [k \in S |-> k + 1]
<1>1. /\ Len(q) \in Nat /\ Len(q) > 0 /\ Tail(q) \in Seq(Activity) /\ Len(Tail(q)) = Len(q) - 1
      /\ \A k \in 1..(Len(q) - 1) : Tail(q)[k] = q[k + 1]
      /\ Head(q) = q[1]
  OBVIOUS
<1>2. f \in [S -> M]
  BY <1>1 DEF InQueue
<1>3. ASSUME NEW k \in M PROVE k - 1 \in S
  <2>1. k \in 1..Len(q) /\ q[k] = Body(n) /\ k > 1
    BY DEF InQueue
  <2>2. k - 1 \in 1..(Len(q) - 1) /\ (k - 1) + 1 = k
    BY <1>1, <2>1
  <2> QED BY <1>1, <2>1, <2>2 DEF InQueue
<1>4. f \in Bijection(S, M)
  <2>1. ASSUME NEW x \in S, NEW y \in S, f[x] = f[y] PROVE x = y
    BY <2>1 DEF InQueue
  <2>2. ASSUME NEW y \in M PROVE \E x \in S : f[x] = y
    <3>1. y - 1 \in S /\ (y - 1) + 1 = y
      BY <1>3 DEF InQueue
    <3> QED BY <3>1
  <2> HIDE DEF f, S, M
  <2> QED BY <1>2, <2>1, <2>2 DEF Bijection, Injection, Surjection, IsInjective
<1>5. IsFiniteSet(S) /\ IsFiniteSet(M) /\ Cardinality(M) = Cardinality(S)
  <2>1. IsFiniteSet(S)
    BY <1>1, QueueSet
  <2> HIDE DEF f, S, M
  <2> QED BY <1>4, <2>1, FS_Bijection DEF ExistsBijection
<1>6. /\ Head(q) = Body(n) => InQueue(q, n) = M \cup {1}
      /\ Head(q) # Body(n) => InQueue(q, n) = M
      /\ 1 \notin M
  BY <1>1 DEF InQueue
<1> HIDE DEF S, M
<1>7. Gains(Cardinality(InQueue(q, n)), Cardinality(M), Head(q), n)
  BY <1>5, <1>6, OneMore
<1> QED BY <1>5, <1>7 DEF S

\* A coroutine waits for one other at most: the one it has submitted.
Waits(wt, n) == Child[n] \in Coroutines /\ n \in wt[Child[n]]

LEMMA AwaitedCount ==
  ASSUME NEW wt, \A m, p \in Coroutines : p \in wt[m] => Child[p] = m, NEW n \in Coroutines
  PROVE  Cardinality(Awaited(wt, n)) = IF Waits(wt, n) THEN 1 ELSE 0
<1>1. CASE Waits(wt, n)
  <2>1. Awaited(wt, n) = {Child[n]}
    BY <1>1 DEF Awaited, Waits
  <2>2. Cardinality({Child[n]}) = 1
    BY FS_Singleton
  <2> QED BY <1>1, <2>1, <2>2
<1>2. CASE ~Waits(wt, n)
  <2>1. Awaited(wt, n) = {}
    BY <1>2 DEF Awaited, Waits
  <2> QED BY <1>2, <2>1, FS_EmptySet
<1> QED BY <1>1, <1>2

LEMMA Counted ==
  ASSUME NEW st \in [Workers -> Seq(Activity)], NEW q \in Seq(Activity), NEW n
  PROVE  Cardinality(OnStack(st, n)) \in Nat /\ Cardinality(InQueue(q, n)) \in Nat
BY StackSet, QueueSet, FS_CardinalityType

\* The number of places, before and after a step.
LEMMA PlacesAre ==
  ASSUME Inv, Inv', NEW n \in Coroutines
  PROVE  /\ Places(n) = Cardinality(OnStack(stack, n)) + Cardinality(InQueue(m_tasks, n))
                        + (IF Waits(waiters, n) THEN 1 ELSE 0)
                        + (IF InCallback(cb, tpc, n) THEN 1 ELSE 0)
         /\ Places(n)' = Cardinality(OnStack(stack', n)) + Cardinality(InQueue(m_tasks', n))
                         + (IF Waits(waiters', n) THEN 1 ELSE 0)
                         + (IF InCallback(cb', tpc', n) THEN 1 ELSE 0)
         /\ Cardinality(OnStack(stack, n)) \in Nat /\ Cardinality(InQueue(m_tasks, n)) \in Nat
         /\ Cardinality(OnStack(stack', n)) \in Nat /\ Cardinality(InQueue(m_tasks', n)) \in Nat
<1>1. Cardinality(Awaited(waiters, n)) = IF Waits(waiters, n) THEN 1 ELSE 0
  <2>1. \A m, p \in Coroutines : p \in waiters[m] => Child[p] = m
    BY DEF Inv, WaitersAwait
  <2> QED BY <2>1, AwaitedCount
<1>2. Cardinality(Awaited(waiters', n)) = IF Waits(waiters', n) THEN 1 ELSE 0
  <2>1. \A m, p \in Coroutines : p \in waiters'[m] => Child[p] = m
    BY DEF Inv, WaitersAwait
  <2> QED BY <2>1, AwaitedCount
<1>3. stack \in [Workers -> Seq(Activity)] /\ m_tasks \in Seq(Activity)
  BY DEF Inv, TypeOK
<1>4. stack' \in [Workers -> Seq(Activity)] /\ m_tasks' \in Seq(Activity)
  BY DEF Inv, TypeOK
<1>5. Cardinality(OnStack(stack, n)) \in Nat /\ Cardinality(InQueue(m_tasks, n)) \in Nat
  BY <1>3, Counted
<1>6. Cardinality(OnStack(stack', n)) \in Nat /\ Cardinality(InQueue(m_tasks', n)) \in Nat
  BY <1>4, Counted
<1>7. Places(n) = Cardinality(OnStack(stack, n)) + Cardinality(InQueue(m_tasks, n))
                  + Cardinality(Awaited(waiters, n))
                  + (IF InCallback(cb, tpc, n) THEN 1 ELSE 0)
  BY Zenon DEF Places, OnStack, Spots, InQueue, Awaited, InCallback
<1>8. Places(n)' = Cardinality(OnStack(stack', n)) + Cardinality(InQueue(m_tasks', n))
                   + Cardinality(Awaited(waiters', n))
                   + (IF InCallback(cb', tpc', n) THEN 1 ELSE 0)
  BY Zenon DEF Places, OnStack, Spots, InQueue, Awaited, InCallback
<1> QED BY <1>1, <1>2, <1>5, <1>6, <1>7, <1>8

-----------------------------------------------------------------------------
(***************************************************************************)
(* The turns are kept by every step.                                       *)
(***************************************************************************)
LEMMA TurnsInit == Init => Turns /\ InOnePlace
<1> SUFFICES ASSUME Init PROVE Turns /\ InOnePlace
  OBVIOUS
<1>1. Turns
  BY Structure, CoroutineAssumption DEF Init, Turns
<1>2. ASSUME NEW n \in Coroutines PROVE Places(n) = 0
  <2>1. {at \in UNION {{w} \X (1..Len(stack[w])) : w \in Workers} :
           stack[at[1]][at[2]] = Body(n)} = {}
    BY DEF Init
  <2>2. {k \in 1..Len(m_tasks) : m_tasks[k] = Body(n)} = {}
    BY DEF Init
  <2>3. {m \in Coroutines : n \in waiters[m]} = {}
    BY DEF Init
  <2>4. Child[n] # None => ~cb[Child[n]].set
    BY Structure DEF Init
  <2>5. Cardinality({}) = 0 /\ 0 + 0 + 0 + 0 = 0
    BY FS_EmptySet
  <2> QED BY <2>1, <2>2, <2>3, <2>4, <2>5 DEF Places
<1>3. InOnePlace
  BY <1>2 DEF Init, InOnePlace
<1> QED BY <1>1, <1>3

LEMMA TaskTurns ==
  ASSUME Inv, Turns, NEW w \in Workers, NEW n \in Coroutines, TaskStep(w, n)
  PROVE  Turns'
<1>1. CASE Publish(w, n) \/ CallbackLock(w, n) \/ CallbackMark(w, n) \/ CallbackUnlock(w, n)
  <2>1. CASE Publish(w, n)
    BY <2>1, Structure DEF Publish, AtTask, TaskGoes, Inv, TypeOK, Turns
  <2>2. CASE CallbackLock(w, n)
    BY <2>2, Structure DEF CallbackLock, AtTask, TaskGoes, Inv, TypeOK, Turns
  <2>3. CASE CallbackMark(w, n)
    BY <2>3, Structure DEF CallbackMark, Marked, AtTask, TaskGoes, Inv, TypeOK, Turns
  <2>4. CASE CallbackUnlock(w, n)
    BY <2>4, Structure DEF CallbackUnlock, AtTask, TaskGoes, Inv, TypeOK, Turns
  <2> QED BY <1>1, <2>1, <2>2, <2>3, <2>4
<1>2. CASE Resume(w, n) \/ TaskOver(w, n)
  BY <1>2, Structure DEF Resume, TaskOver, AtTask, TaskGoes, BodyGoes, Inv, TypeOK, Turns
<1>3. CASE CallbackResumes(w, n) \/ CallbackEnqueues(w, n) \/ CallbackWaits(w, n)
  <2>1. tpc[n] = "callback" /\ tpc' = [tpc EXCEPT ![n] = "unlock"] /\ UNCHANGED cb
    BY <1>3 DEF CallbackResumes, CallbackEnqueues, CallbackWaits, AtTask, TaskGoes
  <2>2. Parent(n) \in Coroutines /\ Child[Parent(n)] = n /\ n # None
    <3>1. PICK p \in Coroutines : Child[p] = n
      BY <2>1 DEF Inv, Created
    <3> QED BY <3>1, Structure, CoroutineAssumption
  <2>3. cpc' = [cpc EXCEPT ![Parent(n)] = "resumed"] \/ UNCHANGED cpc
    BY <1>3 DEF CallbackResumes, CallbackEnqueues, CallbackWaits, BodyGoes
  <2>4. cpc[Parent(n)] \notin {"unborn", "body"}
    BY <2>1, <2>2 DEF Turns
  <2> QED BY <2>1, <2>2, <2>3, <2>4, Structure DEF Inv, TypeOK, Turns
<1> QED BY <1>1, <1>2, <1>3 DEF TaskStep

LEMMA BodyTurns ==
  ASSUME Inv, Turns, NEW w \in Workers, NEW n \in Coroutines, BodyStep(w, n)
  PROVE  Turns'
<1>1. CASE Submit(w, n)
  BY <1>1, Structure, CoroutineAssumption
     DEF Submit, AtBody, BodyGoes, Inv, TypeOK, Turns
<1>2. CASE LeaveCallback(w, n)
  <2>1. Child[n] # None
    BY <1>2 DEF LeaveCallback, AtBody, Inv, Awaits
  <2> QED BY <1>2, <2>1, Structure
             DEF LeaveCallback, AtBody, BodyGoes, Inv, TypeOK, Turns
<1>3. CASE TryAgain(w, n)
  <2>1. Child[n] # None
    BY <1>3 DEF TryAgain, AtBody, Inv, Awaits
  <2> QED BY <1>3, <2>1, Structure DEF TryAgain, Inv, TypeOK, Turns
<1>4. CASE \/ NothingToAwait(w, n) \/ Await(w, n) \/ TooLate(w, n) \/ SpinEnds(w, n)
           \/ AwaitResume(w, n) \/ ReturnValue(w, n) \/ Throws(w, n) \/ FinalSuspend(w, n)
           \/ Destroy(w, n)
  <2>1. cpc[n] # "unborn" /\ (Child[n] # None => cpc[n] # "body")
    BY <1>4 DEF NothingToAwait, Await, TooLate, SpinEnds, AwaitResume, ReturnValue, Throws,
                FinalSuspend, Destroy, AtBody
  <2>2. /\ UNCHANGED <<tpc, cb>>
        /\ \E pc \in {"return", "resumed", "suspend", "spin", "destroy", "wake", "gone"} :
             cpc' = [cpc EXCEPT ![n] = pc]
    BY <1>4 DEF NothingToAwait, Await, TooLate, SpinEnds, AwaitResume, ReturnValue, Throws,
                FinalSuspend, Destroy, BodyGoes
  <2> QED BY <2>1, <2>2, Structure DEF Inv, TypeOK, Turns
<1>5. CASE ResumeWaitor(w, n)
  <2>1. PICK p \in waiters[n] : BodyGoes(p, "resumed")
    BY <1>5 DEF ResumeWaitor
  <2>2. p \in Coroutines /\ Child[p] = n /\ n # None
    BY <2>1, CoroutineAssumption DEF Inv, TypeOK, WaitersAwait
  <2>3. tpc[n] = "over"
    BY <1>5 DEF ResumeWaitor, AtBody, Turns
  <2>4. cpc[p] \notin {"unborn", "body"}
    BY <2>2, <2>3 DEF Turns
  <2> QED BY <1>5, <2>1, <2>2, <2>4, Structure DEF ResumeWaitor, BodyGoes, Inv, TypeOK, Turns
<1> QED BY <1>1, <1>2, <1>3, <1>4, <1>5 DEF BodyStep

LEMMA QueueTurns ==
  ASSUME Inv, Turns, (\E n \in Roots : EnqueueRoot(n)) \/ (\E w \in Workers : PopTask(w))
  PROVE  Turns'
<1>1. ASSUME NEW n \in Roots, EnqueueRoot(n) PROVE Turns'
  <2>1. n \in Coroutines /\ \A p \in Coroutines : Child[p] # n
    BY CoroutineAssumption, Structure
  <2> QED BY <1>1, <2>1, Structure DEF EnqueueRoot, TaskGoes, Inv, TypeOK, Turns
<1>2. ASSUME NEW w \in Workers, PopTask(w) PROVE Turns'
  BY <1>2 DEF PopTask, Turns
<1> QED BY <1>1, <1>2

-----------------------------------------------------------------------------
(***************************************************************************)
(* The places after a step.                                                *)
(***************************************************************************)
LEMMA Pushed ==
  ASSUME Inv, NEW w \in Workers, NEW a \in Activity, Push(w, a), NEW n
  PROVE  Gains(Cardinality(OnStack(stack', n)), Cardinality(OnStack(stack, n)), a, n)
<1>1. stack \in [Workers -> Seq(Activity)]
  BY DEF Inv, TypeOK
<1>2. Gains(Cardinality(OnStack([stack EXCEPT ![w] = Append(@, a)], n)),
            Cardinality(OnStack(stack, n)), a, n)
  BY <1>1, StackPushed
<1> QED BY <1>2 DEF Push

LEMMA Left ==
  ASSUME Inv, NEW w \in Workers, NEW a, Runs(w, a), Leave(w), NEW n
  PROVE  Gains(Cardinality(OnStack(stack, n)), Cardinality(OnStack(stack', n)), a, n)
<1>1. /\ stack \in [Workers -> Seq(Activity)] /\ stack[w] # <<>> /\ stack[w][Len(stack[w])] = a
      /\ stack' = [stack EXCEPT ![w] = SubSeq(@, 1, Len(@) - 1)]
  BY DEF Inv, TypeOK, Leave, Runs, Top
<1>2. Gains(Cardinality(OnStack(stack, n)),
            Cardinality(OnStack([stack EXCEPT ![w] = SubSeq(@, 1, Len(@) - 1)], n)),
            stack[w][Len(stack[w])], n)
  BY <1>1, StackLeft
<1> QED BY <1>1, <1>2

\* A coroutine that runs is on a stack.
LEMMA Running ==
  ASSUME Inv, NEW w \in Workers, NEW n, Runs(w, Body(n))
  PROVE  Cardinality(OnStack(stack, n)) > 0
<1>1. /\ stack \in [Workers -> Seq(Activity)] /\ stack[w] # <<>>
      /\ stack[w][Len(stack[w])] = Body(n)
  BY DEF Inv, TypeOK, Runs, Top
<1>2. [stack EXCEPT ![w] = SubSeq(@, 1, Len(@) - 1)] \in [Workers -> Seq(Activity)]
  BY <1>1, StackTypes DEF Inv
<1>3. Cardinality(OnStack([stack EXCEPT ![w] = SubSeq(@, 1, Len(@) - 1)], n)) \in Nat
  BY <1>2, StackSet, FS_CardinalityType
<1>4. Gains(Cardinality(OnStack(stack, n)),
            Cardinality(OnStack([stack EXCEPT ![w] = SubSeq(@, 1, Len(@) - 1)], n)),
            stack[w][Len(stack[w])], n)
  BY <1>1, StackLeft
<1> QED BY <1>1, <1>3, <1>4 DEF Gains

Ended(pc) == pc \in {"unborn", "gone"}

\* Steps that move nothing.
LEMMA Unmoved ==
  ASSUME Inv, Inv', InOnePlace, UNCHANGED <<stack, m_tasks, waiters>>,
         \A n \in Coroutines : InCallback(cb', tpc', n) <=> InCallback(cb, tpc, n),
         \A n \in Coroutines : Ended(cpc'[n]) <=> Ended(cpc[n])
  PROVE  InOnePlace'
<1>1. ASSUME NEW n \in Coroutines PROVE Places(n)' = Places(n)
  BY PlacesAre
<1> QED BY <1>1 DEF InOnePlace, Ended

LEMMA UnmovedTask ==
  ASSUME Inv, Inv', InOnePlace, Turns, NEW w \in Workers, NEW n \in Coroutines,
         Publish(w, n) \/ CallbackLock(w, n) \/ CallbackMark(w, n) \/ CallbackUnlock(w, n)
  PROVE  InOnePlace'
<1>1. UNCHANGED <<stack, m_tasks, waiters, cpc>>
  BY DEF Publish, CallbackLock, CallbackMark, CallbackUnlock
<1>2. ASSUME NEW m \in Coroutines PROVE cb'[m].set = cb[m].set
  <2>1. CASE Publish(w, n)
    BY <2>1 DEF Publish
  <2>2. CASE CallbackLock(w, n)
    BY <2>2 DEF CallbackLock, Inv, TypeOK
  <2>3. CASE CallbackMark(w, n)
    BY <2>3 DEF CallbackMark, Marked, Inv, TypeOK
  <2>4. CASE CallbackUnlock(w, n)
    BY <2>4 DEF CallbackUnlock, Inv, TypeOK
  <2> QED BY <2>1, <2>2, <2>3, <2>4
<1>3. ASSUME NEW m \in Coroutines, cb[m].set
      PROVE  tpc'[m] \in {"create", "lock", "mark", "callback"}
             <=> tpc[m] \in {"create", "lock", "mark", "callback"}
  BY <1>3 DEF Publish, CallbackLock, CallbackMark, CallbackUnlock, AtTask, TaskGoes, Inv, TypeOK
<1>4. \A m \in Coroutines : InCallback(cb', tpc', m) <=> InCallback(cb, tpc, m)
  BY <1>2, <1>3, Structure DEF InCallback
<1> QED BY <1>1, <1>4, Unmoved

LEMMA UnmovedBody ==
  ASSUME Inv, Inv', InOnePlace, Turns, NEW w \in Workers, NEW n \in Coroutines,
         \/ NothingToAwait(w, n) \/ Await(w, n) \/ TryAgain(w, n) \/ TooLate(w, n)
         \/ SpinEnds(w, n) \/ AwaitResume(w, n) \/ ReturnValue(w, n) \/ Throws(w, n)
         \/ FinalSuspend(w, n)
  PROVE  InOnePlace'
<1>1. UNCHANGED <<stack, m_tasks, waiters, tpc>>
  BY DEF NothingToAwait, Await, TryAgain, TooLate, SpinEnds, AwaitResume, ReturnValue, Throws,
         FinalSuspend
<1>2. ASSUME NEW m \in Coroutines PROVE cb'[m].set = cb[m].set
  <2>1. CASE TryAgain(w, n)
    BY <2>1 DEF TryAgain, Inv, TypeOK
  <2>2. CASE ~TryAgain(w, n)
    BY <2>2 DEF NothingToAwait, Await, TooLate, SpinEnds, AwaitResume, ReturnValue, Throws,
                FinalSuspend
  <2> QED BY <2>1, <2>2
<1>3. ASSUME NEW m \in Coroutines PROVE Ended(cpc'[m]) <=> Ended(cpc[m])
  BY DEF NothingToAwait, Await, TryAgain, TooLate, SpinEnds, AwaitResume, ReturnValue, Throws,
         FinalSuspend, AtBody, BodyGoes, Inv, TypeOK, Ended
<1>4. \A m \in Coroutines : InCallback(cb', tpc', m) <=> InCallback(cb, tpc, m)
  BY <1>1, <1>2, Structure DEF InCallback
<1> QED BY <1>1, <1>3, <1>4, Unmoved

\* Tasks come and go: no body moves.
LEMMA TasksMoved ==
  ASSUME Inv, Inv', InOnePlace, Turns, NEW w \in Workers, NEW n \in Coroutines,
         EnqueueRoot(n) \/ Submit(w, n) \/ TaskOver(w, n)
  PROVE  InOnePlace'
<1> SUFFICES ASSUME NEW m \in Coroutines
             PROVE  Places(m)' = IF Ended(cpc'[m]) THEN 0 ELSE 1
  BY DEF InOnePlace, Ended
<1>1. Cardinality(OnStack(stack', m)) = Cardinality(OnStack(stack, m))
  <2>1. CASE TaskOver(w, n)
    <3>1. Runs(w, Task(n)) /\ Leave(w) /\ Task(n) # Body(m)
      BY <2>1, Names DEF TaskOver, AtTask
    <3>2. Gains(Cardinality(OnStack(stack, m)), Cardinality(OnStack(stack', m)), Task(n), m)
      BY <3>1, Left
    <3> QED BY <3>1, <3>2 DEF Gains
  <2>2. CASE EnqueueRoot(n) \/ Submit(w, n)
    BY <2>2 DEF EnqueueRoot, Submit
  <2> QED BY <2>1, <2>2
<1>2. Cardinality(InQueue(m_tasks', m)) = Cardinality(InQueue(m_tasks, m))
  <2>1. CASE TaskOver(w, n)
    BY <2>1 DEF TaskOver
  <2>2. CASE EnqueueRoot(n) \/ Submit(w, n)
    <3>1. PICK k \in Coroutines : m_tasks' = Append(m_tasks, Task(k))
      BY <2>2, Structure DEF EnqueueRoot, Submit
    <3>2. m_tasks \in Seq(Activity) /\ Task(k) \in Activity /\ Task(k) # Body(m)
      BY <3>1, Structure, Names DEF Inv, TypeOK
    <3>3. Gains(Cardinality(InQueue(m_tasks', m)), Cardinality(InQueue(m_tasks, m)), Task(k), m)
      BY <3>1, <3>2, QueueAppended
    <3> QED BY <3>2, <3>3 DEF Gains
  <2> QED BY <2>1, <2>2
<1>3. InCallback(cb', tpc', m) <=> InCallback(cb, tpc, m)
  <2>1. CASE EnqueueRoot(n)
    BY <2>1, Structure DEF EnqueueRoot, TaskGoes, Inv, TypeOK, InCallback
  <2>2. CASE Submit(w, n)
    BY <2>2, Structure DEF Submit, AtBody, Inv, TypeOK, Turns, InCallback
  <2>3. CASE TaskOver(w, n)
    BY <2>3 DEF TaskOver
  <2> QED BY <2>1, <2>2, <2>3
<1>4. UNCHANGED waiters /\ (Ended(cpc'[m]) <=> Ended(cpc[m]))
  BY DEF EnqueueRoot, Submit, TaskOver, AtBody, BodyGoes, Inv, TypeOK, Ended
<1>5. Places(m)' = Places(m)
  BY <1>1, <1>2, <1>3, <1>4, PlacesAre
<1> QED BY <1>4, <1>5 DEF InOnePlace, Ended

\* A worker takes a body or a task from the queue.
LEMMA Popped ==
  ASSUME Inv, Inv', InOnePlace, NEW w \in Workers, PopTask(w)
  PROVE  InOnePlace'
<1> SUFFICES ASSUME NEW m \in Coroutines
             PROVE  Places(m)' = IF Ended(cpc'[m]) THEN 0 ELSE 1
  BY DEF InOnePlace, Ended
<1>1. /\ m_tasks \in Seq(Activity) /\ m_tasks # <<>> /\ Head(m_tasks) \in Activity
      /\ Push(w, Head(m_tasks)) /\ m_tasks' = Tail(m_tasks)
      /\ UNCHANGED <<tpc, cpc, cb, waiters>>
  BY DEF PopTask, Inv, TypeOK
<1>2. Gains(Cardinality(OnStack(stack', m)), Cardinality(OnStack(stack, m)), Head(m_tasks), m)
  BY <1>1, Pushed
<1>3. Gains(Cardinality(InQueue(m_tasks, m)), Cardinality(InQueue(m_tasks', m)), Head(m_tasks), m)
  BY <1>1, QueueTaken
<1>4. Places(m)' = Places(m)
  BY <1>1, <1>2, <1>3, PlacesAre DEF Gains
<1> QED BY <1>1, <1>4 DEF InOnePlace, Ended

\* The task resumes the coroutine it has created: once.
LEMMA Begun ==
  ASSUME Inv, Inv', Turns, InOnePlace, NEW w \in Workers, NEW n \in Coroutines, Resume(w, n)
  PROVE  InOnePlace'
<1> SUFFICES ASSUME NEW m \in Coroutines
             PROVE  Places(m)' = IF Ended(cpc'[m]) THEN 0 ELSE 1
  BY DEF InOnePlace, Ended
<1>1. /\ Push(w, Body(n)) /\ Body(n) \in Activity /\ UNCHANGED <<m_tasks, waiters, cb>>
      /\ cpc' = [cpc EXCEPT ![n] = "body"] /\ tpc' = [tpc EXCEPT ![n] = "over"]
      /\ tpc[n] = "resume"
  BY Structure DEF Resume, AtTask, TaskGoes, BodyGoes
<1>2. Gains(Cardinality(OnStack(stack', m)), Cardinality(OnStack(stack, m)), Body(n), m)
  BY <1>1, Pushed
<1>3. cpc[n] = "unborn"
  BY <1>1 DEF Turns
<1>4. InCallback(cb', tpc', m) <=> InCallback(cb, tpc, m)
  BY <1>1, Structure DEF Inv, TypeOK, InCallback
<1>5. CASE m = n
  <2>1. Places(m) = 0
    BY <1>3, <1>5 DEF InOnePlace
  <2>2. Cardinality(OnStack(stack', m)) = Cardinality(OnStack(stack, m)) + 1
    BY <1>2, <1>5 DEF Gains
  <2>3. m_tasks' = m_tasks /\ (Waits(waiters', m) <=> Waits(waiters, m))
    BY <1>1
  <2>4. Places(m)' = 1
    BY <1>4, <2>1, <2>2, <2>3, PlacesAre
  <2>5. cpc'[m] = "body"
    BY <1>1, <1>5 DEF Inv, TypeOK
  <2> QED BY <2>4, <2>5 DEF Ended
<1>6. CASE m # n
  <2>1. Places(m)' = Places(m)
    BY <1>1, <1>2, <1>4, <1>6, PlacesAre, Names, ZenonT(60) DEF Gains
  <2>2. cpc'[m] = cpc[m]
    BY <1>1, <1>6 DEF Inv, TypeOK
  <2> QED BY <2>1, <2>2 DEF InOnePlace, Ended
<1> QED BY <1>5, <1>6

\* The parent leaves its stack and a callback that is still to be run.
LEMMA LeftToCallback ==
  ASSUME Inv, Inv', Turns, InOnePlace, NEW w \in Workers, NEW n \in Coroutines,
         LeaveCallback(w, n)
  PROVE  InOnePlace'
<1> SUFFICES ASSUME NEW m \in Coroutines
             PROVE  Places(m)' = IF Ended(cpc'[m]) THEN 0 ELSE 1
  BY DEF InOnePlace, Ended
<1>1. /\ Runs(w, Body(n)) /\ Leave(w) /\ UNCHANGED <<m_tasks, waiters, tpc>>
      /\ cpc' = [cpc EXCEPT ![n] = "suspended"] /\ cpc[n] = "suspend"
      /\ cb' = [cb EXCEPT ![Child[n]].set = TRUE] /\ ~cb[Child[n]].has_ran
  BY DEF LeaveCallback, AtBody, BodyGoes, MayLeaveCallback
<1>2. Child[n] # None /\ Child[n] \in Coroutines /\ Child[n] \notin Roots
  BY <1>1, Structure DEF Inv, Awaits
<1>3. Gains(Cardinality(OnStack(stack, m)), Cardinality(OnStack(stack', m)), Body(n), m)
  BY <1>1, Left
<1>4. InCallback(cb', tpc', n)
  <2>1. cb'[Child[n]].set
    BY <1>1, <1>2 DEF Inv, TypeOK
  <2>2. tpc[Child[n]] \notin {"new", "callback", "unlock", "resume", "over"}
    BY <1>1, <1>2 DEF Turns
  <2>3. tpc[Child[n]] \in {"create", "lock", "mark"}
    BY <1>2, <2>2 DEF Inv, TypeOK
  <2> QED BY <1>1, <1>2, <2>1, <2>3 DEF InCallback
<1>5. m_tasks' = m_tasks /\ (Waits(waiters', m) <=> Waits(waiters, m))
  BY <1>1
<1>6. CASE m = n
  <2>1. Places(m) = 1
    BY <1>1, <1>6 DEF InOnePlace
  <2>2. Cardinality(OnStack(stack, m)) = Cardinality(OnStack(stack', m)) + 1
    BY <1>3, <1>6 DEF Gains
  <2>3. Places(m)' = 1
    BY <1>4, <1>5, <1>6, <2>1, <2>2, PlacesAre
  <2>4. cpc'[m] = "suspended"
    BY <1>1, <1>6 DEF Inv, TypeOK
  <2> QED BY <2>3, <2>4 DEF Ended
<1>7. CASE m # n
  <2>1. InCallback(cb', tpc', m) <=> InCallback(cb, tpc, m)
    <3>1. CASE Child[m] = None
      BY <3>1 DEF InCallback
    <3>2. CASE Child[m] # None
      <4>1. Child[m] # Child[n] /\ Child[m] \in Coroutines
        BY <1>2, <1>7, <3>2, CoroutineAssumption
      <4>2. cb'[Child[m]] = cb[Child[m]]
        BY <1>1, <4>1 DEF Inv, TypeOK
      <4> QED BY <1>1, <4>2 DEF InCallback
    <3> QED BY <3>1, <3>2
  <2>2. Cardinality(OnStack(stack, m)) = Cardinality(OnStack(stack', m))
    BY <1>3, <1>7, Names DEF Gains
  <2>3. Places(m)' = Places(m)
    BY <1>5, <2>1, <2>2, PlacesAre
  <2>4. cpc'[m] = cpc[m]
    BY <1>1, <1>7 DEF Inv, TypeOK
  <2> QED BY <2>3, <2>4 DEF InOnePlace, Ended
<1> QED BY <1>6, <1>7

\* The callback is run: the parent goes on a stack, in the queue or among the waiters.
LEMMA CallbackRun ==
  ASSUME Inv, Inv', Turns, InOnePlace, NEW w \in Workers, NEW n \in Coroutines,
         CallbackResumes(w, n) \/ CallbackEnqueues(w, n) \/ CallbackWaits(w, n)
  PROVE  InOnePlace'
<1> SUFFICES ASSUME NEW m \in Coroutines
             PROVE  Places(m)' = IF Ended(cpc'[m]) THEN 0 ELSE 1
  BY DEF InOnePlace, Ended
<1> DEFINE p == Parent(n)
<1>1. tpc[n] = "callback" /\ tpc' = [tpc EXCEPT ![n] = "unlock"] /\ UNCHANGED cb
  BY DEF CallbackResumes, CallbackEnqueues, CallbackWaits, AtTask, TaskGoes
<1>2. p \in Coroutines /\ Child[p] = n /\ n # None
  <2>1. PICK q \in Coroutines : Child[q] = n
    BY <1>1 DEF Inv, Created
  <2> QED BY <2>1, Structure, CoroutineAssumption
<1>3. Body(p) \in Activity
  BY <1>2, Structure
<1> HIDE DEF p
<1>4. InCallback(cb, tpc, p) /\ ~InCallback(cb', tpc', p)
  BY <1>1, <1>2 DEF InCallback, Turns, Inv, TypeOK
<1>5. Places(p) = 1 /\ ~Ended(cpc[p])
  <2>1. Places(p) > 0
    BY <1>2, <1>4, PlacesAre
  <2> QED BY <1>2, <2>1 DEF InOnePlace, Ended
<1>6. /\ Cardinality(OnStack(stack, p)) = 0 /\ Cardinality(InQueue(m_tasks, p)) = 0
      /\ ~Waits(waiters, p)
  BY <1>2, <1>4, <1>5, PlacesAre
<1>7. CASE m = p
  <2>1. ~Ended(cpc'[m])
    BY <1>2, <1>5, <1>7
       DEF p, CallbackResumes, CallbackEnqueues, CallbackWaits, BodyGoes, Inv, TypeOK, Ended
  <2>2. Places(m)' = 1
    <3>1. CASE CallbackResumes(w, n)
      <4>1. Push(w, Body(p)) /\ UNCHANGED <<m_tasks, waiters>>
        BY <3>1 DEF CallbackResumes, p
      <4>2. Gains(Cardinality(OnStack(stack', p)), Cardinality(OnStack(stack, p)), Body(p), p)
        BY <1>3, <4>1, Pushed
      <4>3. /\ Cardinality(OnStack(stack', p)) = 1 /\ Cardinality(InQueue(m_tasks', p)) = 0
            /\ ~Waits(waiters', p)
        BY <1>6, <4>1, <4>2 DEF Gains
      <4> QED BY <1>2, <1>4, <1>7, <4>3, PlacesAre
    <3>2. CASE CallbackEnqueues(w, n)
      <4>1. /\ m_tasks \in Seq(Activity) /\ m_tasks' = Append(m_tasks, Body(p))
            /\ UNCHANGED <<stack, waiters>>
        BY <3>2 DEF CallbackEnqueues, p, Inv, TypeOK
      <4>2. Gains(Cardinality(InQueue(m_tasks', p)), Cardinality(InQueue(m_tasks, p)), Body(p), p)
        BY <1>3, <4>1, QueueAppended
      <4>3. /\ Cardinality(OnStack(stack', p)) = 0 /\ Cardinality(InQueue(m_tasks', p)) = 1
            /\ ~Waits(waiters', p)
        BY <1>6, <4>1, <4>2 DEF Gains
      <4> QED BY <1>2, <1>4, <1>7, <4>3, PlacesAre
    <3>3. CASE CallbackWaits(w, n)
      <4>1. /\ waiters' = [waiters EXCEPT ![n] = @ \cup {p}]
            /\ UNCHANGED <<stack, m_tasks>>
        BY <3>3 DEF CallbackWaits, p
      <4>2. Waits(waiters', p)
        BY <1>2, <4>1 DEF Waits, Inv, TypeOK
      <4>3. Cardinality(OnStack(stack', p)) = 0 /\ Cardinality(InQueue(m_tasks', p)) = 0
        BY <1>6, <4>1
      <4> QED BY <1>2, <1>4, <1>7, <4>2, <4>3, PlacesAre
    <3> QED BY <3>1, <3>2, <3>3
  <2> QED BY <2>1, <2>2
<1>8. CASE m # p
  <2>1. InCallback(cb', tpc', m) <=> InCallback(cb, tpc, m)
    <3>1. Child[m] # n
      BY <1>2, <1>8, CoroutineAssumption
    <3>2. Child[m] # None => tpc'[Child[m]] = tpc[Child[m]]
      BY <1>1, <3>1, Structure DEF Inv, TypeOK
    <3> QED BY <1>1, <3>2 DEF InCallback
  <2>2. Body(p) # Body(m)
    BY <1>8, Names
  <2>3. Cardinality(OnStack(stack', m)) = Cardinality(OnStack(stack, m))
    <3>1. CASE CallbackResumes(w, n)
      <4>1. Push(w, Body(p))
        BY <3>1 DEF CallbackResumes, p
      <4>2. Gains(Cardinality(OnStack(stack', m)), Cardinality(OnStack(stack, m)), Body(p), m)
        BY <1>3, <4>1, Pushed
      <4> QED BY <2>2, <4>2 DEF Gains
    <3>2. CASE UNCHANGED stack
      BY <3>2
    <3> QED BY <3>1, <3>2 DEF CallbackEnqueues, CallbackWaits
  <2>4. Cardinality(InQueue(m_tasks', m)) = Cardinality(InQueue(m_tasks, m))
    <3>1. CASE CallbackEnqueues(w, n)
      <4>1. m_tasks \in Seq(Activity) /\ m_tasks' = Append(m_tasks, Body(p))
        BY <3>1 DEF CallbackEnqueues, p, Inv, TypeOK
      <4>2. Gains(Cardinality(InQueue(m_tasks', m)), Cardinality(InQueue(m_tasks, m)), Body(p), m)
        BY <1>3, <4>1, QueueAppended
      <4> QED BY <2>2, <4>2 DEF Gains
    <3>2. CASE UNCHANGED m_tasks
      BY <3>2
    <3> QED BY <3>1, <3>2 DEF CallbackResumes, CallbackWaits
  <2>5. Waits(waiters', m) <=> Waits(waiters, m)
    <3>1. CASE CallbackWaits(w, n)
      <4>1. waiters' = [waiters EXCEPT ![n] = @ \cup {p}]
        BY <3>1 DEF CallbackWaits, p
      <4> QED BY <1>8, <4>1 DEF Waits, Inv, TypeOK
    <3>2. CASE UNCHANGED waiters
      BY <3>2
    <3> QED BY <3>1, <3>2 DEF CallbackResumes, CallbackEnqueues
  <2>6. Places(m)' = Places(m)
    BY <2>1, <2>3, <2>4, <2>5, PlacesAre
  <2>7. cpc'[m] = cpc[m]
    BY <1>2, <1>8 DEF CallbackResumes, CallbackEnqueues, CallbackWaits, p, BodyGoes, Inv, TypeOK
  <2> QED BY <2>6, <2>7 DEF InOnePlace, Ended
<1> QED BY <1>7, <1>8

\* A waiter leaves the list that resumes it.
LEMMA WaitorResumed ==
  ASSUME Inv, Inv', Turns, InOnePlace, NEW w \in Workers, NEW n \in Coroutines,
         ResumeWaitor(w, n)
  PROVE  InOnePlace'
<1> SUFFICES ASSUME NEW m \in Coroutines
             PROVE  Places(m)' = IF Ended(cpc'[m]) THEN 0 ELSE 1
  BY DEF InOnePlace, Ended
<1>1. PICK p \in waiters[n] :
        /\ waiters' = [waiters EXCEPT ![n] = @ \ {p}]
        /\ Push(w, Body(p))
        /\ cpc' = [cpc EXCEPT ![p] = "resumed"]
  BY DEF ResumeWaitor, BodyGoes
<1>2. UNCHANGED <<m_tasks, tpc, cb>>
  BY DEF ResumeWaitor
<1>3. p \in Coroutines /\ Child[p] = n /\ Waits(waiters, p) /\ Body(p) \in Activity
  BY <1>1, Structure DEF Inv, TypeOK, WaitersAwait, Waits
<1>4. Gains(Cardinality(OnStack(stack', m)), Cardinality(OnStack(stack, m)), Body(p), m)
  BY <1>1, <1>3, Pushed
<1>5. m_tasks' = m_tasks /\ (InCallback(cb', tpc', m) <=> InCallback(cb, tpc, m))
  BY <1>2
<1>6. CASE m = p
  <2>1. Places(m) = 1
    <3>1. Places(m) > 0
      BY <1>3, <1>6, PlacesAre
    <3> QED BY <3>1 DEF InOnePlace
  <2>2. ~Waits(waiters', m)
    BY <1>1, <1>3, <1>6 DEF Waits, Inv, TypeOK
  <2>3. Cardinality(OnStack(stack', m)) = Cardinality(OnStack(stack, m)) + 1
    BY <1>4, <1>6 DEF Gains
  <2>4. Places(m)' = 1
    BY <1>3, <1>5, <1>6, <2>1, <2>2, <2>3, PlacesAre
  <2>5. cpc'[m] = "resumed"
    BY <1>1, <1>6 DEF Inv, TypeOK
  <2> QED BY <2>4, <2>5 DEF Ended
<1>7. CASE m # p
  <2>1. Cardinality(OnStack(stack', m)) = Cardinality(OnStack(stack, m))
    BY <1>4, <1>7, Names DEF Gains
  <2>2. Waits(waiters', m) <=> Waits(waiters, m)
    BY <1>1, <1>7 DEF Waits, Inv, TypeOK
  <2>3. Places(m)' = Places(m)
    BY <1>5, <2>1, <2>2, PlacesAre
  <2>4. cpc'[m] = cpc[m]
    BY <1>1, <1>7 DEF Inv, TypeOK
  <2> QED BY <2>3, <2>4 DEF InOnePlace, Ended
<1> QED BY <1>6, <1>7

\* The frame is destroyed where it runs: nowhere else is it known.
LEMMA Destroyed ==
  ASSUME Inv, Inv', Turns, InOnePlace, NEW w \in Workers, NEW n \in Coroutines, Destroy(w, n)
  PROVE  InOnePlace'
<1> SUFFICES ASSUME NEW m \in Coroutines
             PROVE  Places(m)' = IF Ended(cpc'[m]) THEN 0 ELSE 1
  BY DEF InOnePlace, Ended
<1>1. /\ Runs(w, Body(n)) /\ Leave(w) /\ cpc[n] = "destroy"
      /\ cpc' = [cpc EXCEPT ![n] = "gone"] /\ UNCHANGED <<m_tasks, tpc, cb, waiters>>
  BY DEF Destroy, AtBody, BodyGoes
<1>2. Gains(Cardinality(OnStack(stack, m)), Cardinality(OnStack(stack', m)), Body(n), m)
  BY <1>1, Left
<1>3. /\ m_tasks' = m_tasks /\ (Waits(waiters', m) <=> Waits(waiters, m))
      /\ (InCallback(cb', tpc', m) <=> InCallback(cb, tpc, m))
  BY <1>1
<1>4. CASE m = n
  <2>1. Places(m) = 1
    BY <1>1, <1>4 DEF InOnePlace
  <2>2. Cardinality(OnStack(stack, m)) = Cardinality(OnStack(stack', m)) + 1
    BY <1>2, <1>4 DEF Gains
  <2>3. Places(m)' = 0
    BY <1>3, <2>1, <2>2, PlacesAre
  <2>4. cpc'[m] = "gone"
    BY <1>1, <1>4 DEF Inv, TypeOK
  <2> QED BY <2>3, <2>4 DEF Ended
<1>5. CASE m # n
  <2>1. Cardinality(OnStack(stack, m)) = Cardinality(OnStack(stack', m))
    BY <1>2, <1>5, Names DEF Gains
  <2>2. Places(m)' = Places(m)
    BY <1>3, <2>1, PlacesAre
  <2>3. cpc'[m] = cpc[m]
    BY <1>1, <1>5 DEF Inv, TypeOK
  <2> QED BY <2>2, <2>3 DEF InOnePlace, Ended
<1> QED BY <1>4, <1>5

LEMMA TurnsStep ==
  ASSUME TurnsInv, [Next]_vars
  PROVE  TurnsInv'
<1>1. Inv /\ Turns /\ InOnePlace /\ Inv'
  BY NextPreserves DEF TurnsInv, Preserved
<1>2. CASE UNCHANGED vars
  BY <1>1, <1>2 DEF vars, TurnsInv, Turns, InOnePlace, Places
<1>3. ASSUME NEW w \in Workers, NEW n \in Coroutines, TaskStep(w, n)
      PROVE  Turns' /\ InOnePlace'
  <2>1. Turns'
    BY <1>1, <1>3, TaskTurns
  <2>2. InOnePlace'
    BY <1>1, <1>3, UnmovedTask, CallbackRun, Begun, TasksMoved DEF TaskStep
  <2> QED BY <2>1, <2>2
<1>4. ASSUME NEW w \in Workers, NEW n \in Coroutines, BodyStep(w, n)
      PROVE  Turns' /\ InOnePlace'
  <2>1. Turns'
    BY <1>1, <1>4, BodyTurns
  <2>2. InOnePlace'
    BY <1>1, <1>4, UnmovedBody, TasksMoved, LeftToCallback, WaitorResumed, Destroyed
       DEF BodyStep
  <2> QED BY <2>1, <2>2
<1>5. ASSUME NEW w \in Workers, PopTask(w) PROVE Turns' /\ InOnePlace'
  BY <1>1, <1>5, QueueTurns, Popped
<1>6. ASSUME NEW n \in Roots, EnqueueRoot(n) PROVE Turns' /\ InOnePlace'
  <2>1. n \in Coroutines /\ \E w \in Workers : TRUE
    BY CoroutineAssumption
  <2>2. InOnePlace'
    BY <1>1, <1>6, <2>1, TasksMoved
  <2> QED BY <1>1, <1>6, <2>2, QueueTurns
<1>7. Next => Turns' /\ InOnePlace'
  BY <1>3, <1>4, <1>5, <1>6 DEF Next, WorkerStep
<1> QED BY <1>1, <1>2, <1>7 DEF TurnsInv

(***************************************************************************)
(* However the task that runs a callback and the body that leaves it meet, *)
(* a coroutine that has begun and not ended runs on one stack, or one      *)
(* callback, one waiters list or one queue entry will resume it: it is     *)
(* neither resumed twice nor lost.  Exceptions included.                   *)
(***************************************************************************)
THEOREM OneResumerAlways == Spec => []OneResumer
<1>1. Init => TurnsInv
  BY InvInit, TurnsInit DEF TurnsInv
<1>2. TurnsInv /\ [Next]_vars => TurnsInv'
  BY TurnsStep
<1>3. TurnsInv => OneResumer
  BY DEF TurnsInv, InOnePlace, OneResumer, Inv
<1> QED BY <1>1, <1>2, <1>3, PTL DEF Spec
=============================================================================
