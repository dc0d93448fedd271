-------------------------------- MODULE Logger -------------------------------
(***************************************************************************)
(* src/src/sulog/logger.{h,cpp}: a logger is a reentrant_spin_lock and a   *)
(* shared_ptr to an internal_logger.  operator=, swap and the copy         *)
(* constructor take the locks of the loggers they read or write, two of    *)
(* them in the order of their addresses; a logging call reads the pointer  *)
(* without a lock.  A step is one access to what other threads use         *)
(* without the lock or the mutex it is under; a counter of references goes *)
(* up with the store of the pointer it counts.                             *)
(***************************************************************************)
EXTENDS LogFile, FiniteSets

CONSTANTS Loggers,   \* the addresses of the logger objects
          None,      \* the pointer of an object that is not constructed
          InitialLog,\* what each logger refers to at first
          MaxCalls   \* bound on the calls made

ASSUME LoggerAssumption ==
  /\ Loggers \subseteq Nat /\ IsFiniteSet(Loggers) /\ IsFiniteSet(Threads)
  /\ None \notin Inners
  /\ InitialLog \in [Loggers -> Inners \cup {None}]
  /\ MaxCalls \in Nat

VARIABLES
  thread_id, count, \* the locks of the loggers (SpinLock)
  log,              \* log: the internal logger each logger refers to
  use_count,        \* the reference count of each internal logger
  gone,             \* the internal loggers that are destroyed
  op,               \* the assignment, swap, copy or destruction each thread is in
  calls             \* how many calls have begun

refVars == <<thread_id, count, log, use_count, gone, op>>
vars == <<fileVars, crashed, refVars, calls>>

Lock == INSTANCE SpinLock WITH Locks <- Loggers

NoOp == [pc |-> "none", held |-> 0]

\* operator=, swap and the copy constructor, on the loggers that are *this (or first) and
\* that (or second); the destructor of *this; and a logging call on it.
Kinds == {"assign", "swap", "copy", "destroy", "log"}

\* first and second of operator=, logger1 and logger2 of swap.
Lower(x, y) == IF x < y THEN x ELSE y
Upper(x, y) == IF x < y THEN y ELSE x

\* The locks in the order in which they are taken.  The mutants take them in the order of
\* the arguments, and only that of *this.
LocksAsWritten(kind, x, y) ==
  CASE kind = "destroy" -> <<>>
    [] kind = "copy"    -> <<y>>
    [] OTHER            -> <<x, y>>

LockOfThis(kind, x, y) ==
  CASE kind = "destroy" -> <<>>
    [] kind = "copy"    -> <<y>>
    [] OTHER            -> <<x>>

LocksOf(kind, x, y) ==
  CASE kind = "destroy" -> <<>>
    [] kind = "copy"    -> <<y>>
    [] OTHER            -> <<Lower(x, y), Upper(x, y)>>

-----------------------------------------------------------------------------
\* Types.
TypeOK ==
  /\ FileTypeOK
  /\ Lock!LockTypeOK
  /\ log \in [Loggers -> Inners \cup {None}]
  /\ use_count \in [Inners -> Nat]
  /\ gone \subseteq Inners
  /\ op \in [Threads ->
       {NoOp} \cup
       [pc : {"lock", "count", "read", "store", "drop", "destroy", "uncount", "release", "log"},
        kind : Kinds, x : Loggers, y : Loggers, held : 0..2,
        other : Inners \cup {None}]]
  /\ calls \in 0..MaxCalls

Locks(t) == LocksOf(op[t].kind, op[t].x, op[t].y)
OpAt(t, pc) == op[t].pc = pc

\* What a logger refers to, seen from outside: between its two steps a swap has overwritten
\* the pointer it has taken.
Swapping(t, x) ==
  OpAt(t, "store") /\ op[t].kind = "swap" /\ Lower(op[t].x, op[t].y) = x
Target(x) == IF \E t \in Threads : Swapping(t, x)
             THEN op[CHOOSE t \in Threads : Swapping(t, x)].other
             ELSE log[x]

\* The references to an internal logger: of the static empty_logger, of the loggers, and of
\* a thread that is about to drop one.
References(i) == (IF i = Empty THEN 1 ELSE 0)
                 + Cardinality({x \in Loggers : Target(x) = i})
                 + Cardinality({t \in Threads : OpAt(t, "drop") /\ op[t].other = i})

Init ==
  /\ FileInit
  /\ Lock!LockInit
  /\ log = InitialLog
  /\ op = [t \in Threads |-> NoOp]
  /\ use_count = [i \in Inners |-> References(i)]
  /\ gone = {}
  /\ calls = 0

-----------------------------------------------------------------------------
Idle(t) == op[t] = NoOp

\* A caller uses constructed loggers that others may share, and destroys one nobody uses.
InUse(x) == \E t \in Threads : ~Idle(t) /\ x \in {op[t].x, op[t].y}
Shared(x) == /\ log[x] # None
             /\ \A t \in Threads : ~Idle(t) /\ op[t].kind \in {"copy", "destroy"} => op[t].x # x

Counts == calls < MaxCalls /\ calls' = calls + 1

\* A call begins.  *this of a copy is an object nobody else knows.
Begin(t, kind, x, y) ==
  /\ Idle(t) /\ Counts
  /\ Shared(y)
  /\ kind \in {"assign", "swap"} => Shared(x)
  /\ kind = "assign" => x # y
  /\ kind = "copy" => log[x] = None /\ ~InUse(x)
  /\ kind = "destroy" => x = y /\ ~InUse(x)
  /\ op' = [op EXCEPT ![t] = [pc |-> IF kind = "destroy" THEN "store" ELSE "lock",
                              kind |-> kind, x |-> x, y |-> y, held |-> 0, other |-> None]]
  /\ UNCHANGED <<fileVars, crashed, thread_id, count, log, use_count, gone>>

TakeLock(t) ==
  /\ OpAt(t, "lock")
  /\ Lock!TakeLock(t, Locks(t)[op[t].held + 1])
  /\ op' = [op EXCEPT ![t].pc = "count"]
  /\ UNCHANGED <<fileVars, crashed, log, use_count, gone, calls>>

CountUp(t) ==
  /\ OpAt(t, "count")
  /\ Lock!CountUp(Locks(t)[op[t].held + 1])
  /\ op' = [op EXCEPT ![t].held = @ + 1,
                      ![t].pc = IF op[t].held + 1 = Len(Locks(t)) THEN "read" ELSE "lock"]
  /\ UNCHANGED <<fileVars, crashed, log, use_count, gone, calls>>

\* The first half of the copy of a shared_ptr, or of the exchange of two.
ReadLog(t) ==
  /\ OpAt(t, "read")
  /\ LET lower == Lower(op[t].x, op[t].y) IN
     IF op[t].kind = "swap"
     THEN /\ op' = [op EXCEPT ![t].pc = "store", ![t].other = log[lower]]
          /\ log' = [log EXCEPT ![lower] = log[Upper(op[t].x, op[t].y)]]
     ELSE /\ op' = [op EXCEPT ![t].pc = "store", ![t].other = log[op[t].y]]
          /\ UNCHANGED log
  /\ UNCHANGED <<fileVars, crashed, thread_id, count, use_count, gone, calls>>

\* What is left of a call: the locks it has.
Continue(t) ==
  op' = [op EXCEPT ![t] = IF op[t].held = 0 THEN NoOp ELSE [op[t] EXCEPT !.pc = "uncount"]]

\* The second half.  A new reference is counted before the old one is dropped; the mutant
\* does not count it.
UncountedStore(t) ==
  /\ OpAt(t, "store")
  /\ log' = [log EXCEPT ![op[t].x] = op[t].other]
  /\ op' = [op EXCEPT ![t].pc = "drop", ![t].other = log[op[t].x]]
  /\ log[op[t].x] \notin {None, op[t].other}
  /\ UNCHANGED <<fileVars, crashed, thread_id, count, use_count, gone, calls>>

StoreLog(t) ==
  /\ OpAt(t, "store")
  /\ IF op[t].kind = "swap"
     THEN /\ log' = [log EXCEPT ![Upper(op[t].x, op[t].y)] = op[t].other]
          /\ op' = [op EXCEPT ![t].pc = "uncount"]
          /\ UNCHANGED use_count
     ELSE LET old == log[op[t].x] new == op[t].other IN
          /\ log' = [log EXCEPT ![op[t].x] = new]
          /\ IF old \in {None, new}
             THEN Continue(t)
             ELSE op' = [op EXCEPT ![t].pc = "drop", ![t].other = old]
          /\ use_count' = [i \in Inners |->
                             IF i = new /\ old # new THEN use_count[i] + 1 ELSE use_count[i]]
  /\ UNCHANGED <<fileVars, crashed, thread_id, count, gone, calls>>

DropReference(t) ==
  LET old == op[t].other
  IN /\ OpAt(t, "drop")
     /\ use_count' = [use_count EXCEPT ![old] = @ - 1]
     /\ IF use_count[old] = 1 THEN op' = [op EXCEPT ![t].pc = "destroy"] ELSE Continue(t)
     /\ UNCHANGED <<fileVars, crashed, thread_id, count, log, gone, calls>>

\* ~internal_logger waits for its mutex, with the spin locks held.
DestroyInner(t) ==
  LET old == op[t].other
  IN /\ OpAt(t, "destroy")
     /\ DestroyFile(old)
     /\ gone' = gone \cup {old}
     /\ Continue(t)
     /\ UNCHANGED <<clock, mutex, state, name_time, line, lines, crashed,
                    thread_id, count, log, use_count, calls>>

CountDown(t) ==
  LET k == Locks(t)[op[t].held]
  IN /\ OpAt(t, "uncount")
     /\ Lock!CountDown(t, k)
     /\ op' = [op EXCEPT ![t] = IF count[k] = 1 THEN [op[t] EXCEPT !.pc = "release"]
                                               ELSE [op[t] EXCEPT !.held = @ - 1]]
     /\ UNCHANGED <<fileVars, crashed, log, use_count, gone, calls>>

GiveUpLock(t) ==
  /\ OpAt(t, "release")
  /\ Lock!GiveUpLock(Locks(t)[op[t].held])
  /\ op' = [op EXCEPT ![t] = IF op[t].held = 1 THEN NoOp
                             ELSE [op[t] EXCEPT !.held = @ - 1, !.pc = "uncount"]]
  /\ UNCHANGED <<fileVars, crashed, log, use_count, gone, calls>>

-----------------------------------------------------------------------------
\* A logging call: the pointer is read without the lock.
BeginLog(t, x, form) ==
  /\ Idle(t) /\ Counts
  /\ Shared(x)
  /\ BeginLine(t, log[x], form)
  /\ op' = [op EXCEPT ![t] = [pc |-> "log", kind |-> "log", x |-> x, y |-> x,
                              held |-> 0, other |-> None]]
  /\ UNCHANGED <<thread_id, count, log, use_count, gone>>

\* The internal logger a call works on may be destroyed under it.
LogStep(t) == /\ OpAt(t, "log") /\ InnerOf(t) \notin gone
              /\ LineStep(t)
              /\ op' = IF line'[t] = NoLine THEN [op EXCEPT ![t] = NoOp] ELSE op
              /\ UNCHANGED <<thread_id, count, log, use_count, gone, calls>>

UseDestroyed(t) == /\ OpAt(t, "log") /\ InnerOf(t) \in gone
                   /\ crashed' = "destroyed"
                   /\ UNCHANGED <<fileVars, refVars, calls>>

\* logger(): one more reference to the empty logger.
DefaultConstruct(t, x) ==
  /\ Idle(t) /\ Counts
  /\ log[x] = None /\ ~InUse(x)
  /\ log' = [log EXCEPT ![x] = Empty]
  /\ use_count' = [use_count EXCEPT ![Empty] = @ + 1]
  /\ UNCHANGED <<fileVars, crashed, thread_id, count, gone, op>>

Time == Tick /\ UNCHANGED <<refVars, calls>>

-----------------------------------------------------------------------------
RefStep(t) == \/ TakeLock(t) \/ CountUp(t) \/ ReadLog(t) \/ StoreLog(t)
              \/ DropReference(t) \/ DestroyInner(t) \/ CountDown(t) \/ GiveUpLock(t)

\* The rest of a call that has begun.
Step(t) == crashed = "no" /\ (RefStep(t) \/ LogStep(t) \/ UseDestroyed(t))

Call(t) == \E x \in Loggers :
             \/ DefaultConstruct(t, x)
             \/ \E form \in {"format", "text"} : BeginLog(t, x, form)
             \/ \E y \in Loggers, kind \in Kinds \ {"log"} : Begin(t, kind, x, y)

Next == \/ crashed = "no" /\ Time
        \/ \E t \in Threads : Step(t) \/ (crashed = "no" /\ Call(t))

Spec == Init /\ [][Next]_vars

\* A thread in a call runs on.  As threads make finitely many calls, a lock that is free
\* again and again is taken in the end.
FairSpec == Spec /\ \A t \in Threads : WF_vars(Step(t))

-----------------------------------------------------------------------------
(***************************************************************************)
(* Properties.                                                             *)
(***************************************************************************)
\* The pointer of a constructed logger never dangles (logger.h:157-177): the reference
\* counts are exact, and an internal logger that is referred to has not been destroyed.
ReferencesCounted ==
  /\ TypeOK
  /\ \A i \in Inners : use_count[i] = References(i)
  /\ \A x \in Loggers : log[x] \notin gone
  /\ \A t \in Threads : op[t].pc = "store" => op[t].other \notin gone

\* Assignment, swap and copy are atomic to each other, whatever two threads do with the
\* same loggers (logger.h:162, 233).
Registry == INSTANCE LoggerRegistry WITH target <- [x \in Loggers |-> Target(x)]
ImplementsRegistry == Registry!RegistrySpec

\* A reentrant_spin_lock is owned by a thread whose calls have counted it or are about to,
\* and its count is the number of times that thread has it (spin_lock.h:86-138).
Holds(t, k) ==
  {n \in 1..op[t].held : Locks(t)[n] = k /\ (OpAt(t, "release") => n # op[t].held)}

LocksHeld ==
  \A t \in Threads, k \in Loggers :
    /\ Holds(t, k) # {} => thread_id[k] = t /\ count[k] = Cardinality(Holds(t, k))
    /\ thread_id[k] = t /\ Holds(t, k) = {} => op[t].pc \in {"count", "release"}

\* A line goes to no file of an earlier period than its own, also when another thread rotates
\* the file or fails to.  The one exception is what the code lets by: the call found name_time
\* unset while another thread had read the clock for it (simple_logger.cpp:123-128, 229).
RightFile == \A l \in lines : l[1] <= l[2] \/ l[3]

\* Each internal logger has at most the one FILE it writes to: what a rotation closes is in
\* the hands of the thread that opens the next, nothing is closed twice, and the destructor
\* leaves nothing open.  The empty logger, which has no file, is the exception.
OneFile ==
  /\ \A i \in Inners \ {Empty} :
       /\ fp[i] = Stray => \E t \in Threads : mutex[i] = t /\ line[t].pc \in {"now", "fopen"}
       /\ i \in gone => fp[i] = Null
  /\ crashed = "stray" => \E t \in Threads : line[t] # NoLine /\ InnerOf(t) = Empty

\* Every call returns: no order of the locks, and no wait for a file with locks held, is a
\* deadlock (logger.h:166).
CallsReturn == \A t \in Threads : ~Idle(t) ~> (Idle(t) \/ crashed # "no")
==============================================================================
