--------------------------- MODULE EventLoopProofs ---------------------------
(***************************************************************************)
(* Theorems about EventLoop for any number of clients, tasks and ios, any  *)
(* pipe capacity of at least one byte and any set of failing system calls. *)
(***************************************************************************)
EXTENDS EventLoop, TLAPS

\* One name per step of the system; NextSplit ties them to Next.
StepNames ==
  \/ WInitCas \/ WInitInvalid \/ WReadyWaiting \/ WRunTask \/ WTasksEmpty
  \/ WServeWrite \/ WWritesEmpty \/ WStop \/ WWaiting
  \/ WEpollReturns \/ WWorking \/ WGiveUp \/ WReadPipe \/ WSeeClose
  \/ (\E i \in Ios : WIoEvent(i)) \/ WBatchDone
  \/ Flush
  \/ (\E c \in Clients : LoadStatus(c)) \/ (\E c \in Clients : WritePipe(c))
  \/ CtorPublish \/ CtorReturn \/ DtorWrite \/ DtorWriteStray \/ DtorJoin
  \/ WEpollInterrupted \/ WEpollFails \/ (\E i \in Ios : Arrive(i))
  \/ CtorFails \/ DtorStore
  \/ (\E c \in Clients : \E t \in Tasks : AddTask(c, t))
  \/ (\E c \in Clients : \E i \in Ios : AddWrite(c, i))

\* Every step of Next is one of the named steps.
LEMMA NextSplit == Next => StepNames
  BY DEF Next, WorkerStep, ClientContinues, OwnerContinues, Environment, StepNames

\* What a loop callback leaves behind, whichever call it makes.
LEMMA LoopCallTypes ==
  ASSUME TypeOK, NEW STATE rtw, rtw \in Seq(Ios), LoopCall(rtw)
  PROVE  /\ ready_to_write' \in Seq(Ios)
         /\ kready' \subseteq Ios
         /\ io_map' \subseteq Ios
         /\ pipe_added' \in BOOLEAN
         /\ added' \subseteq Tasks
         /\ nwrites' \in Nat
<1> USE DEF TypeOK, ioVars
<1>1. CASE CallNothing(rtw)
  BY <1>1 DEF CallNothing
<1>2. CASE CallAddTask(rtw)
  BY <1>2 DEF CallAddTask
<1>3. CASE CallAddWrite(rtw)
  BY <1>3 DEF CallAddWrite
<1>4. CASE CallAddIo(rtw)
  BY <1>4 DEF CallAddIo
<1>5. CASE CallRemoveIo(rtw)
  BY <1>5 DEF CallRemoveIo
<1> QED BY <1>1, <1>2, <1>3, <1>4, <1>5 DEF LoopCall

\* A store of the worker keeps status and the store buffer well typed.
LEMMA WStoreTypes ==
  ASSUME TypeOK, NEW s \in StatusCode, WStore(s)
  PROVE  status' \in StatusCode /\ sbuf' \in Seq(StatusCode)
<1>1. CASE StoreBuffering
  BY <1>1, SMTT(30) DEF TypeOK, WStore
<1>2. CASE ~StoreBuffering
  BY <1>2 DEF TypeOK, WStore
<1> QED BY <1>1, <1>2

\* Every variable keeps the range of the member of event_processor it stands for.
THEOREM TypeCorrect == Spec => []TypeOK
<1>1. Init => TypeOK
  <2> SUFFICES ASSUME Init PROVE TypeOK
    OBVIOUS
  <2>1. sbuf \in Seq(StatusCode) /\ task_list \in Seq(Tasks) /\ ready_to_write \in Seq(Ios)
    BY DEF Init
  <2>2. ran \in Seq(Tasks) /\ cpc \in [Clients -> {"idle", "pushed", "signal"}]
    BY DEF Init
  <2>3. pipe \in 0..PipeCapacity /\ nwrites \in Nat
    BY LoopAssumption DEF Init
  <2> QED BY <2>1, <2>2, <2>3 DEF Init, TypeOK, StatusCode, WorkerPC, OwnerPC
<1>2. TypeOK /\ [Next]_vars => TypeOK'
  <2> SUFFICES ASSUME TypeOK, [Next]_vars PROVE TypeOK'
    OBVIOUS
  <2> USE LoopAssumption DEF TypeOK, workerVars, queueVars, ioVars, histVars
  <2>1. CASE UNCHANGED vars
    BY <2>1 DEF vars
  <2>2. CASE WInitCas
    BY <2>2 DEF WInitCas, StatusCode, WorkerPC
  <2>3. CASE WInitInvalid
    BY <2>3 DEF WInitInvalid, WorkerPC
  <2>4. CASE WReadyWaiting
    BY <2>4, WStoreTypes DEF WReadyWaiting, StatusCode, WorkerPC
  <2>5. CASE WRunTask
    <3>1. task_list' \in Seq(Tasks) /\ ran' \in Seq(Tasks)
      BY <2>5 DEF WRunTask, Rest
    <3> QED BY <3>1, <2>5, LoopCallTypes DEF WRunTask
  <2>6. CASE WTasksEmpty
    BY <2>6 DEF WTasksEmpty, WorkerPC
  <2>7. CASE WServeWrite
    <3>1. Tail(ready_to_write) \in Seq(Ios) /\ LoopCall(Tail(ready_to_write))
      BY <2>7 DEF WServeWrite
    <3> QED BY <3>1, <2>7, LoopCallTypes DEF WServeWrite
  <2>8. CASE WWritesEmpty
    BY <2>8 DEF WWritesEmpty, WorkerPC
  <2>9. CASE WStop
    BY <2>9, WStoreTypes DEF WStop, StatusCode, WorkerPC
  <2>10. CASE WWaiting
    BY <2>10, WStoreTypes DEF WWaiting, StatusCode, WorkerPC
  <2>11. CASE WEpollReturns
    BY <2>11 DEF WEpollReturns, ReadyPipe, WorkerPC
  <2>12. CASE WWorking
    BY <2>12, WStoreTypes DEF WWorking, StatusCode, WorkerPC
  <2>13. CASE WGiveUp
    BY <2>13, WStoreTypes DEF WGiveUp, StatusCode, WorkerPC
  <2>14. CASE WReadPipe
    BY <2>14 DEF WReadPipe, WorkerPC
  <2>15. CASE WSeeClose
    BY <2>15 DEF WSeeClose, CloseSeen, WorkerPC
  <2>16. ASSUME NEW i \in Ios, WIoEvent(i) PROVE TypeOK'
    <3>1. LoopCall(ready_to_write)
      BY <2>16 DEF WIoEvent, LoopCall
    <3> QED BY <3>1, <2>16, LoopCallTypes DEF WIoEvent
  <2>17. CASE WBatchDone
    BY <2>17 DEF WBatchDone, WorkerPC
  <2>18. CASE Flush
    BY <2>18 DEF Flush
  <2>19. ASSUME NEW c \in Clients, LoadStatus(c) PROVE TypeOK'
    BY <2>19 DEF LoadStatus
  <2>20. ASSUME NEW c \in Clients, WritePipe(c) PROVE TypeOK'
    BY <2>20 DEF WritePipe, PipeTakes
  <2>21. CASE CtorPublish \/ CtorReturn \/ CtorFails
    BY <2>21 DEF CtorPublish, CtorReturn, CtorFails, StatusCode, OwnerPC
  <2>22. CASE DtorWrite \/ DtorWriteStray \/ DtorJoin \/ DtorStore
    BY <2>22 DEF DtorWrite, PipeTakes, DtorWriteStray, DtorJoin, DtorStore, StatusCode, OwnerPC
  <2>23. CASE WEpollInterrupted \/ WEpollFails
    BY <2>23 DEF WEpollInterrupted, WEpollFails, WorkerPC
  <2>24. ASSUME NEW i \in Ios, Arrive(i) PROVE TypeOK'
    BY <2>24 DEF Arrive
  <2>25. ASSUME NEW c \in Clients, NEW t \in Tasks, AddTask(c, t) PROVE TypeOK'
    BY <2>25 DEF AddTask
  <2>26. ASSUME NEW c \in Clients, NEW i \in Ios, AddWrite(c, i) PROVE TypeOK'
    BY <2>26 DEF AddWrite
  <2> QED
    BY <2>1, <2>2, <2>3, <2>4, <2>5, <2>6, <2>7, <2>8, <2>9, <2>10, <2>11, <2>12, <2>13,
       <2>14, <2>15, <2>16, <2>17, <2>18, <2>19, <2>20, <2>21, <2>22, <2>23, <2>24, <2>25,
       <2>26, NextSplit DEF StepNames
<1> QED BY <1>1, <1>2, PTL DEF Spec

-----------------------------------------------------------------------------
(***************************************************************************)
(* No lost wake-up, when the stores of the worker take effect at once.     *)
(***************************************************************************)
\* While the worker looks at the queues for the last time before epoll_wait it has
\* already announced that it needs a byte; this makes NoLostTask inductive.
WakeInv ==
  /\ sbuf = <<>>
  /\ wpc \in {"tasks", "writes", "check", "epoll"} => status # "working"
  /\ NoLostTask
  /\ NoLostWrite

\* If the worker's stores to status are not delayed, no task and no instant write is left
\* in its queue with the worker on its way into epoll_wait and nobody about to wake it.
THEOREM NoLostWakeup ==
  ASSUME ~StoreBuffering
  PROVE  Spec => [](NoLostTask /\ NoLostWrite)
<1>1. Init => WakeInv
  BY DEF Init, WakeInv, NoLostTask, NoLostWrite
<1>2. TypeOK /\ WakeInv /\ [Next]_vars => WakeInv'
  <2> SUFFICES ASSUME TypeOK, WakeInv, [Next]_vars PROVE WakeInv'
    OBVIOUS
  <2> USE DEF WakeInv, NoLostTask, NoLostWrite, Notifying, workerVars, queueVars, ioVars,
              histVars
  <2>1. CASE UNCHANGED vars
    BY <2>1 DEF vars
  <2>2. CASE WInitCas \/ WInitInvalid \/ WEpollReturns \/ WEpollInterrupted \/ WEpollFails
    BY <2>2 DEF WInitCas, WInitInvalid, WEpollReturns, WEpollInterrupted, WEpollFails
  <2>3. CASE WReadyWaiting \/ WWorking \/ WGiveUp \/ WStop
    BY <2>3 DEF WReadyWaiting, WWorking, WGiveUp, WStop, WStore
  <2>4. CASE WWaiting
    BY <2>4 DEF WWaiting, WStore
  <2>5. CASE WRunTask \/ WTasksEmpty
    BY <2>5 DEF WRunTask, WTasksEmpty
  <2>6. CASE WServeWrite \/ WWritesEmpty
    BY <2>6 DEF WServeWrite, WWritesEmpty
  <2>7. CASE WReadPipe \/ WSeeClose \/ WBatchDone
    BY <2>7 DEF WReadPipe, WSeeClose, WBatchDone
  <2>8. ASSUME NEW i \in Ios, WIoEvent(i) \/ Arrive(i) PROVE WakeInv'
    BY <2>8 DEF WIoEvent, Arrive
  <2>9. CASE Flush
    BY <2>9 DEF Flush
  <2>10. ASSUME NEW c \in Clients, LoadStatus(c) PROVE WakeInv'
    \* A client that reads working has raced with a worker that is not at the queues yet.
    <3>1. status # "working" => cpc'[c] = "signal"
      BY <2>10 DEF LoadStatus, NeedsSignal, TypeOK
    <3>2. wpc \in {"writes", "check", "epoll"} => Notifying'
      BY <3>1, <2>10 DEF LoadStatus
    <3> QED BY <3>2, <2>10 DEF LoadStatus
  <2>11. ASSUME NEW c \in Clients, WritePipe(c) PROVE WakeInv'
    <3>1. pipe' > 0
      BY <2>11, LoopAssumption DEF WritePipe, PipeTakes, TypeOK
    <3> QED BY <3>1, <2>11 DEF WritePipe, PipeTakes
  <2>12. CASE CtorPublish \/ CtorReturn \/ CtorFails
    BY <2>12 DEF CtorPublish, CtorReturn, CtorFails
  <2>13. CASE DtorStore \/ DtorWriteStray \/ DtorJoin
    BY <2>13 DEF DtorStore, DtorWriteStray, DtorJoin
  <2>14. CASE DtorWrite
    BY <2>14, LoopAssumption DEF DtorWrite, PipeTakes, TypeOK
  <2>15. ASSUME NEW c \in Clients, NEW t \in Tasks, AddTask(c, t) PROVE WakeInv'
    <3>1. cpc'[c] = "pushed"
      BY <2>15 DEF AddTask, TypeOK
    <3> QED BY <3>1, <2>15 DEF AddTask
  <2>16. ASSUME NEW c \in Clients, NEW i \in Ios, AddWrite(c, i) PROVE WakeInv'
    <3>1. cpc'[c] = "pushed"
      BY <2>16 DEF AddWrite, TypeOK
    <3> QED BY <3>1, <2>16 DEF AddWrite
  <2> QED
    BY <2>1, <2>2, <2>3, <2>4, <2>5, <2>6, <2>7, <2>8, <2>9, <2>10, <2>11, <2>12, <2>13,
       <2>14, <2>15, <2>16, NextSplit DEF StepNames
<1>3. WakeInv => NoLostTask /\ NoLostWrite
  BY DEF WakeInv
<1> QED BY <1>1, <1>2, <1>3, TypeCorrect, PTL DEF Spec

\* The half of it that is about add_write_instant_task: the loop does not sleep on an
\* operation in ready_to_write.
THEOREM NoWriteForgotten ==
  ASSUME ~StoreBuffering
  PROVE  Spec => []NoLostWrite
<1> QED BY NoLostWakeup, PTL

-----------------------------------------------------------------------------
(***************************************************************************)
(* Construction and shutdown, with or without store buffering.             *)
(***************************************************************************)
Closing == {"dtor_write", "joining", "destroyed", "terminated"}

\* Before the constructor has published and after it has failed the worker is outside
\* process() and has stored nothing.
CtorInv ==
  /\ opc = "ctor" => status = "initializing"
  /\ opc = "failed" => status = "invalid"
  /\ opc = "dtor_write_bad" => status = "ready_close"
  /\ opc \in {"ctor", "failed", "dtor_write_bad"} => wpc \in {"init", "exited"} /\ sbuf = <<>>

\* A request comes from the destructor, and the worker never stores one.
RequestInv ==
  /\ status = "ready_close" => opc \in Closing \cup {"dtor_write_bad"}
  /\ \A k \in 1..Len(sbuf) : sbuf[k] # "ready_close"
  /\ close_flag => opc \in Closing

\* Once close_flag is set nobody can push, so a queue found empty stays empty.
DrainInv ==
  /\ close_flag /\ wpc \in {"writes", "check"} => task_list = <<>>
  /\ close_flag /\ wpc = "check" => ready_to_write = <<>>
  /\ (status = "stop_work" \/ \E k \in 1..Len(sbuf) : sbuf[k] = "stop_work") =>
        wpc = "exited" /\ close_flag /\ task_list = <<>> /\ ready_to_write = <<>>

CloseInv == CtorInv /\ RequestInv /\ DrainInv

\* The values of the store buffer after a store of the worker are old ones or the new one.
LEMMA WStoreValues ==
  ASSUME TypeOK, NEW s \in StatusCode, WStore(s)
  PROVE  /\ \A k \in 1..Len(sbuf') : sbuf'[k] = s \/ (k \in 1..Len(sbuf) /\ sbuf'[k] = sbuf[k])
         /\ status' = s \/ status' = status
<1>1. CASE StoreBuffering
  BY <1>1 DEF TypeOK, WStore
<1>2. CASE ~StoreBuffering
  BY <1>2 DEF TypeOK, WStore
<1> QED BY <1>1, <1>2

\* A flush moves one value from the buffer to memory.
LEMMA FlushValues ==
  ASSUME TypeOK, Flush
  PROVE  /\ \E k \in 1..Len(sbuf) : status' = sbuf[k]
         /\ \A k \in 1..Len(sbuf') : \E m \in 1..Len(sbuf) : sbuf'[k] = sbuf[m]
<1>1. status' = sbuf[1] /\ 1 \in 1..Len(sbuf)
  BY DEF Flush, TypeOK
<1>2. ASSUME NEW k \in 1..Len(sbuf') PROVE k + 1 \in 1..Len(sbuf) /\ sbuf'[k] = sbuf[k + 1]
  BY <1>2 DEF Flush, TypeOK
<1> QED BY <1>1, <1>2

\* The close protocol holds its invariant in every step.
LEMMA CloseInvStep == TypeOK /\ CloseInv /\ [Next]_vars => CloseInv'
<1> SUFFICES ASSUME TypeOK, CloseInv, [Next]_vars PROVE CloseInv'
  OBVIOUS
<1> USE DEF CloseInv, CtorInv, RequestInv, DrainInv, Closing, workerVars, queueVars, ioVars,
            histVars
<1>1. CASE UNCHANGED vars
  BY <1>1 DEF vars
<1>2. CASE WInitCas \/ WInitInvalid
  BY <1>2 DEF WInitCas, WInitInvalid, MayStart
<1>3. CASE WReadyWaiting
  <2>1. WStore("ready_waiting") /\ "ready_waiting" \in StatusCode
    BY <1>3 DEF WReadyWaiting, StatusCode
  <2> QED BY <2>1, <1>3, WStoreValues DEF WReadyWaiting
<1>4. CASE WWaiting
  <2>1. WStore("waiting") /\ "waiting" \in StatusCode
    BY <1>4 DEF WWaiting, StatusCode
  <2> QED BY <2>1, <1>4, WStoreValues DEF WWaiting, CloseNow
<1>5. CASE WWorking \/ WGiveUp
  <2>1. WStore("working") /\ "working" \in StatusCode
    BY <1>5 DEF WWorking, WGiveUp, StatusCode
  <2> QED BY <2>1, <1>5, WStoreValues DEF WWorking, WGiveUp
<1>6. CASE WStop
  <2>1. WStore("stop_work") /\ "stop_work" \in StatusCode
    BY <1>6 DEF WStop, StatusCode
  <2> QED BY <2>1, <1>6, WStoreValues DEF WStop, AtCloseTest, CloseNow
<1>7. CASE WRunTask \/ WTasksEmpty
  BY <1>7 DEF WRunTask, WTasksEmpty
<1>8. CASE WServeWrite \/ WWritesEmpty
  BY <1>8 DEF WServeWrite, WWritesEmpty
<1>9. CASE WEpollReturns \/ WEpollInterrupted \/ WEpollFails
  BY <1>9 DEF WEpollReturns, WEpollInterrupted, WEpollFails
<1>10. CASE WReadPipe \/ WBatchDone
  BY <1>10 DEF WReadPipe, WBatchDone
<1>11. CASE WSeeClose
  BY <1>11 DEF WSeeClose, CloseSeen
<1>12. ASSUME NEW i \in Ios, WIoEvent(i) \/ Arrive(i) PROVE CloseInv'
  BY <1>12 DEF WIoEvent, Arrive
<1>13. CASE Flush
  BY <1>13, FlushValues DEF Flush
<1>14. ASSUME NEW c \in Clients, LoadStatus(c) \/ WritePipe(c) PROVE CloseInv'
  BY <1>14 DEF LoadStatus, WritePipe
<1>15. CASE CtorPublish \/ CtorReturn \/ CtorFails
  BY <1>15 DEF CtorPublish, CtorReturn, CtorFails
<1>16. CASE DtorStore
  BY <1>16 DEF DtorStore
<1>17. CASE DtorWrite \/ DtorWriteStray \/ DtorJoin
  BY <1>17 DEF DtorWrite, DtorWriteStray, DtorJoin
<1>18. ASSUME NEW c \in Clients, NEW t \in Tasks, AddTask(c, t) PROVE CloseInv'
  BY <1>18 DEF AddTask
<1>19. ASSUME NEW c \in Clients, NEW i \in Ios, AddWrite(c, i) PROVE CloseInv'
  BY <1>19 DEF AddWrite
<1> QED
  BY <1>1, <1>2, <1>3, <1>4, <1>5, <1>6, <1>7, <1>8, <1>9, <1>10, <1>11, <1>12, <1>13,
     <1>14, <1>15, <1>16, <1>17, <1>18, <1>19, NextSplit DEF StepNames

\* CloseInv, what ~event_processor and process() agree on about stopping, holds in every
\* reachable state.
LEMMA CloseInvHolds == Spec => []CloseInv
<1>1. Init => CloseInv
  BY DEF Init, CloseInv, CtorInv, RequestInv, DrainInv, Closing
<1> QED BY <1>1, CloseInvStep, TypeCorrect, PTL DEF Spec

\* The worker runs process() only on a completely constructed object.
THEOREM WorkerStartsAfterConstruction == Spec => []HandshakeSafe
<1>1. CloseInv => HandshakeSafe
  BY DEF CloseInv, CtorInv, HandshakeSafe
<1> QED BY <1>1, CloseInvHolds, PTL

\* A loop that has stopped on request has nothing left in its queues.
THEOREM StoppedLoopIsDrained == Spec => []StopDrained
<1>1. CloseInv => StopDrained
  BY DEF CloseInv, DrainInv, StopDrained
<1> QED BY <1>1, CloseInvHolds, PTL

\* Only a destructor makes the loop stop.
THEOREM LoopStopsOnlyOnRequest == Spec => []StopOnlyOnRequest
<1>1. CloseInv => StopOnlyOnRequest
  BY DEF CloseInv, RequestInv, DrainInv, Closing, StopOnlyOnRequest
<1> QED BY <1>1, CloseInvHolds, PTL

-----------------------------------------------------------------------------
(***************************************************************************)
(* task_list implements TaskService (safety).                              *)
(***************************************************************************)
\* A worker on its way into or out of epoll_wait has not been asked to stop.
LEMMA NoRequestInEpoll ==
  Spec => [](wpc \in {"init", "epoll", "woken", "error"} => ~close_flag)
<1> DEFINE J == wpc \in {"init", "epoll", "woken", "error"} => ~close_flag
<1>1. Init => J
  BY DEF Init
<1>2. J /\ [Next]_vars => J'
  <2> SUFFICES ASSUME J, [Next]_vars PROVE J'
    OBVIOUS
  <2> USE DEF workerVars, queueVars, ioVars, histVars
  <2>1. CASE UNCHANGED vars
    BY <2>1 DEF vars
  <2>2. CASE WInitCas \/ WInitInvalid \/ WReadyWaiting \/ WStop \/ WWorking \/ WGiveUp
    BY <2>2 DEF WInitCas, WInitInvalid, WReadyWaiting, WStop, WWorking, WGiveUp
  <2>3. CASE WWaiting
    BY <2>3 DEF WWaiting, CloseNow
  <2>4. CASE WRunTask \/ WTasksEmpty \/ WServeWrite \/ WWritesEmpty
    BY <2>4 DEF WRunTask, WTasksEmpty, WServeWrite, WWritesEmpty
  <2>5. CASE WEpollReturns \/ WEpollInterrupted \/ WEpollFails
    BY <2>5 DEF WEpollReturns, WEpollInterrupted, WEpollFails
  <2>6. CASE WReadPipe \/ WSeeClose \/ WBatchDone \/ Flush
    BY <2>6 DEF WReadPipe, WSeeClose, WBatchDone, Flush
  <2>7. ASSUME NEW i \in Ios, WIoEvent(i) \/ Arrive(i) PROVE J'
    BY <2>7 DEF WIoEvent, Arrive
  <2>8. ASSUME NEW c \in Clients, LoadStatus(c) \/ WritePipe(c) PROVE J'
    BY <2>8 DEF LoadStatus, WritePipe
  <2>9. CASE CtorPublish \/ CtorReturn \/ CtorFails \/ DtorStore
    BY <2>9 DEF CtorPublish, CtorReturn, CtorFails, DtorStore
  <2>10. CASE DtorWrite \/ DtorWriteStray \/ DtorJoin
    BY <2>10 DEF DtorWrite, DtorWriteStray, DtorJoin
  <2>11. ASSUME NEW c \in Clients, NEW t \in Tasks, AddTask(c, t) PROVE J'
    BY <2>11 DEF AddTask
  <2>12. ASSUME NEW c \in Clients, NEW i \in Ios, AddWrite(c, i) PROVE J'
    BY <2>12 DEF AddWrite
  <2> QED
    BY <2>1, <2>2, <2>3, <2>4, <2>5, <2>6, <2>7, <2>8, <2>9, <2>10, <2>11, <2>12, NextSplit
       DEF StepNames
<1> QED BY <1>1, <1>2, PTL DEF Spec

\* A step that leaves task_list and ran alone maps to BreakDown or to a stutter.
LEMMA QuietStep ==
  ASSUME UNCHANGED <<task_list, ran>>, BrokenDown => BrokenDown'
  PROVE  [Service!ServiceNext]_(Service!serviceVars)
<1>1. CASE BrokenDown' = BrokenDown
  BY <1>1 DEF Service!serviceVars
<1>2. CASE ~BrokenDown /\ BrokenDown'
  BY <1>2 DEF Service!ServiceNext, Service!BreakDown
<1> QED BY <1>1, <1>2 DEF BrokenDown

\* Tasks pushed to task_list by other threads run at most once and in the order in which
\* they were pushed, whatever the interleaving, the faults and the callbacks.
THEOREM LoopImplementsService == Spec => ImplementsServiceSafety
<1> DEFINE J == wpc \in {"init", "epoll", "woken", "error"} => ~close_flag
<1>1. Init => Service!ServiceInit
  BY DEF Init, Service!ServiceInit, BrokenDown
<1>2. TypeOK /\ J /\ [Next]_vars => [Service!ServiceNext]_(Service!serviceVars)
  <2> SUFFICES ASSUME TypeOK, J, [Next]_vars
               PROVE  [Service!ServiceNext]_(Service!serviceVars)
    OBVIOUS
  <2> USE DEF BrokenDown, Running, workerVars, queueVars, ioVars, histVars
  <2>1. CASE UNCHANGED vars
    BY <2>1, QuietStep DEF vars
  <2>2. CASE WInitCas \/ WInitInvalid
    BY <2>2, QuietStep DEF WInitCas, WInitInvalid
  <2>3. CASE WReadyWaiting \/ WStop \/ WWaiting \/ WWorking \/ WGiveUp
    BY <2>3, QuietStep DEF WReadyWaiting, WStop, WWaiting, WWorking, WGiveUp
  <2>4. CASE WRunTask
    \* The head of task_list moves to the end of ran.
    <3>1. Service!RunOldest
      BY <2>4 DEF WRunTask, Rest, Service!RunOldest
    <3> QED BY <3>1 DEF Service!ServiceNext
  <2>5. CASE WTasksEmpty \/ WWritesEmpty
    BY <2>5, QuietStep DEF WTasksEmpty, WWritesEmpty
  <2>6. CASE WServeWrite
    BY <2>6, QuietStep DEF WServeWrite
  <2>7. CASE WEpollReturns \/ WEpollInterrupted \/ WEpollFails
    BY <2>7, QuietStep DEF WEpollReturns, WEpollInterrupted, WEpollFails
  <2>8. CASE WReadPipe \/ WSeeClose \/ WBatchDone \/ Flush
    BY <2>8, QuietStep DEF WReadPipe, WSeeClose, WBatchDone, Flush
  <2>9. ASSUME NEW i \in Ios, WIoEvent(i) \/ Arrive(i)
        PROVE  [Service!ServiceNext]_(Service!serviceVars)
    BY <2>9, QuietStep DEF WIoEvent, Arrive
  <2>10. ASSUME NEW c \in Clients, LoadStatus(c) \/ WritePipe(c)
         PROVE  [Service!ServiceNext]_(Service!serviceVars)
    BY <2>10, QuietStep DEF LoadStatus, WritePipe
  <2>11. CASE CtorPublish \/ CtorReturn \/ CtorFails \/ DtorStore
    BY <2>11, QuietStep DEF CtorPublish, CtorReturn, CtorFails, DtorStore
  <2>12. CASE DtorWrite \/ DtorWriteStray \/ DtorJoin
    BY <2>12, QuietStep DEF DtorWrite, DtorWriteStray, DtorJoin
  <2>13. ASSUME NEW c \in Clients, NEW t \in Tasks, AddTask(c, t)
         PROVE  [Service!ServiceNext]_(Service!serviceVars)
    <3>1. Service!Submit(t)
      BY <2>13 DEF AddTask, Service!Submit
    <3> QED BY <3>1 DEF Service!ServiceNext
  <2>14. ASSUME NEW c \in Clients, NEW i \in Ios, AddWrite(c, i)
         PROVE  [Service!ServiceNext]_(Service!serviceVars)
    BY <2>14, QuietStep DEF AddWrite
  <2> QED
    BY <2>1, <2>2, <2>3, <2>4, <2>5, <2>6, <2>7, <2>8, <2>9, <2>10, <2>11, <2>12, <2>13,
       <2>14, NextSplit DEF StepNames
<1> QED BY <1>1, <1>2, TypeCorrect, NoRequestInEpoll, PTL
        DEF Spec, ImplementsServiceSafety, Service!ServiceSafety
==============================================================================
