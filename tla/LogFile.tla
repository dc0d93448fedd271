-------------------------------- MODULE LogFile ------------------------------
(***************************************************************************)
(* One logging call on an internal_logger: src/src/sulog/simple_logger.    *)
(* {h,cpp} with the overrides of logger.h.  print(level, format, args)     *)
(* looks at name_time and state without the mutex and takes it for         *)
(* reopen_if_need and for vfprintf; print(level, text) holds it            *)
(* throughout.  open_file is three steps: others log while a thread has    *)
(* read the clock for the name, and while it has opened the file but not   *)
(* yet set name_time.                                                      *)
(* A FILE* that is used while it is not open ends the program.             *)
(***************************************************************************)
EXTENDS Naturals, Sequences

CONSTANTS Threads, NoThread,
          Inners,        \* the internal_logger objects
          Empty,         \* empty_logger: it has no file and its level is NO
          Instants,      \* the readings of the clock: [year, month, date, hour]
          NameStrategy,  \* name_strategy, as numbered by log_time_strategy
          LogStrategy,   \* log_strategy
          FileFaults     \* the calls that may fail: fopen, write, EBADF

no == 0   hour == 8   day == 9   month == 10

ASSUME FileAssumption ==
  /\ NoThread \notin Threads
  /\ Empty \in Inners
  /\ Instants \in Seq([year : Nat, month : 0..11, date : 1..31, hour : 0..23])
  /\ Len(Instants) > 0
  /\ NameStrategy \in {no, hour, day, month}
  /\ LogStrategy \in {no} \cup 5..10
  /\ FileFaults \subseteq {"fopen", "write", "EBADF"}

Null == 0
Stray == Len(Instants) + 1   \* neither NULL nor an open FILE

VARIABLES
  clock,      \* the time: an index into Instants
  mutex,      \* _mutex of each internal logger
  state,      \* state
  fp,         \* fp: the period the open file is named for, or Null, or Stray
  name_time,  \* name_time: the time of the last fopen, 0 while it is not set
  line,       \* the logging call each thread is in
  lines,      \* history: for each line written, its period, that of its file, and `missed`
  crashed     \* the undefined behaviour that has been met, or "no"

fileVars == <<clock, mutex, state, fp, name_time, line, lines>>

NoLine == [pc |-> "none"]

-----------------------------------------------------------------------------
(***************************************************************************)
(* Times and names.                                                        *)
(***************************************************************************)
\* The unit of the name: what strftime puts into it.
NameAt(k) ==
  LET now == Instants[k]
  IN CASE NameStrategy = no    -> <<>>
       [] NameStrategy = month -> <<now.year, now.month>>
       [] NameStrategy = day   -> <<now.year, now.month, now.date>>
       [] NameStrategy = hour  -> <<now.year, now.month, now.date, now.hour>>

\* The period of an instant: the first instant with the same file name.
Period(k) == CHOOSE j \in 1..k : /\ NameAt(j) = NameAt(k)
                                 /\ \A i \in 1..(j - 1) : NameAt(i) # NameAt(k)

\* log_time::equal.  Inside the class `month` and `hour` name its own fields, so the
\* strategy is compared with the recorded month and hour, and with day = 9.
Equal(then, now) ==
  /\ NameStrategy > then.month \/ (then.year = now.year /\ then.month = now.month)
  /\ NameStrategy > day \/ then.date = now.date
  /\ NameStrategy > then.hour \/ then.hour = now.hour

\* What time() can leave in need_rename, which it sets only in two cases.  It loads name_time
\* twice; as that is never unset again, the load that decides is the one that counts.
NeedRename(i, now) ==
  CASE LogStrategy = no -> BOOLEAN
    [] LogStrategy # no /\ name_time[i] = 0 -> {FALSE}
    [] LogStrategy # no /\ name_time[i] # 0 ->
         IF Equal(Instants[name_time[i]], Instants[now]) THEN BOOLEAN ELSE {TRUE}

\* The period of an instant, as time(name_strategy, now) hands it to open_file: `now` stays
\* unset without a strategy.
NamedAt(k) == IF NameStrategy = no THEN 0 ELSE k

-----------------------------------------------------------------------------
FileTypeOK ==
  /\ clock \in 1..Len(Instants)
  /\ mutex \in [Inners -> Threads \cup {NoThread}]
  /\ state \in [Inners -> {"open", "non_associated", "bad_file_descriptor"}]
  /\ fp \in [Inners -> Null..Stray]
  /\ name_time \in [Inners -> 0..Len(Instants)]
  /\ line \in [Threads ->
       {NoLine} \cup
       [pc : {"lock", "time", "compare", "reopen", "enter", "now", "fopen", "publish",
              "state", "write"},
        inner : Inners, form : {"format", "text"}, stamp : 0..Len(Instants),
        opened : 0..Len(Instants), need : BOOLEAN, missed : BOOLEAN,
        stage : {"first", "retry"}]]
  /\ lines \subseteq (1..Len(Instants)) \X (1..Len(Instants)) \X BOOLEAN
  /\ crashed \in {"no", "null", "stray", "destroyed"}

\* The constructor opens the file; the default constructor leaves fp undefined and state 0,
\* which is `open`.
FileInit ==
  /\ clock = 1
  /\ mutex = [i \in Inners |-> NoThread]
  /\ fp \in [Inners -> {Null, 1, Stray}]
  /\ \A i \in Inners : IF i = Empty THEN fp[i] = Stray
                                    ELSE fp[i] = 1 \/ (fp[i] = Null /\ "fopen" \in FileFaults)
  /\ state = [i \in Inners |-> IF fp[i] = Null THEN "non_associated" ELSE "open"]
  /\ name_time = [i \in Inners |-> IF fp[i] = 1 THEN NamedAt(1) ELSE 0]
  /\ line = [t \in Threads |-> NoLine]
  /\ lines = {}
  /\ crashed = "no"

-----------------------------------------------------------------------------
(***************************************************************************)
(* The steps of a logging call.                                            *)
(***************************************************************************)
\* A call through internal logger i.  error(text) prints whatever the level; the others
\* return at once when the level is above theirs, as for the empty logger.
BeginLine(t, i, form) ==
  /\ line[t] = NoLine
  /\ i = Empty => form = "text"
  /\ line' = [line EXCEPT ![t] =
       [pc |-> IF form = "text" THEN "lock" ELSE "time", inner |-> i, form |-> form,
        stamp |-> 0, opened |-> 0, need |-> FALSE, missed |-> FALSE, stage |-> "first"]]
  /\ UNCHANGED <<clock, mutex, state, fp, name_time, lines, crashed>>

At(t, pc) == line[t].pc = pc
InnerOf(t) == line[t].inner
GoTo(t, pc) == line' = [line EXCEPT ![t].pc = pc]

\* print(level, text) takes the mutex before it looks at the time.
LockForText(t) ==
  /\ At(t, "lock") /\ mutex[InnerOf(t)] = NoThread
  /\ mutex' = [mutex EXCEPT ![InnerOf(t)] = t]
  /\ GoTo(t, "time")
  /\ UNCHANGED <<clock, state, fp, name_time, lines, crashed>>

\* time(log_strategy, need_rename): the clock, then the comparison with name_time.
TakeTime(t) ==
  /\ At(t, "time")
  /\ line' = [line EXCEPT ![t].pc = "compare", ![t].stamp = clock]
  /\ UNCHANGED <<clock, mutex, state, fp, name_time, lines, crashed>>

\* Another thread is in open_file and has read the clock.
Opening(i) == \E u \in Threads : line[u].pc \in {"fopen", "publish"} /\ InnerOf(u) = i

\* `missed` is history: there was nothing to compare with, and soon would be.
CompareTime(t) ==
  /\ At(t, "compare")
  /\ \E need \in NeedRename(InnerOf(t), line[t].stamp) :
       line' = [line EXCEPT ![t].pc = IF line[t].form = "text" THEN "enter" ELSE "reopen",
                            ![t].need = need,
                            ![t].missed = name_time[InnerOf(t)] = 0 /\ Opening(InnerOf(t))]
  /\ UNCHANGED <<clock, mutex, state, fp, name_time, lines, crashed>>

\* internal_logger::reopen_if_need looks before it locks, and not at bad_file_descriptor.
AskReopen(t) ==
  /\ At(t, "reopen")
  /\ GoTo(t, IF line[t].need \/ state[InnerOf(t)] = "non_associated" THEN "enter" ELSE "state")
  /\ UNCHANGED <<clock, mutex, state, fp, name_time, lines, crashed>>

\* The end of a call, or of a critical section within it: text holds the mutex to the end.
Returns(t) == /\ line' = [line EXCEPT ![t] = NoLine]
              /\ mutex' = [mutex EXCEPT ![InnerOf(t)] = IF @ = t THEN NoThread ELSE @]

LeavesReopen(t) ==
  IF line[t].stage = "retry" THEN Returns(t)
  ELSE /\ GoTo(t, "state")
       /\ mutex' = [mutex EXCEPT ![InnerOf(t)] = IF line[t].form = "text" THEN t ELSE NoThread]

\* The mutex, for who does not hold it yet; the mutant does without.
AnyEntry(t) == TRUE
MayEnter(t) == mutex[InnerOf(t)] = IF line[t].form = "text" THEN t ELSE NoThread

\* simple_logger::reopen_if_need: fclose, then open_file.
SkipReopen(t) ==
  LET i == InnerOf(t)
  IN /\ At(t, "enter") /\ MayEnter(t)
     /\ ~line[t].need /\ state[i] = "open"
     /\ LeavesReopen(t)
     /\ UNCHANGED <<clock, state, fp, name_time, lines, crashed>>

CloseFile(t) ==
  LET i == InnerOf(t)
  IN /\ At(t, "enter") /\ MayEnter(t)
     /\ line[t].need \/ state[i] # "open"
     /\ crashed' = IF fp[i] = Stray THEN "stray" ELSE "no"
     /\ fp' = [fp EXCEPT ![i] = IF @ = Null THEN Null ELSE Stray]
     /\ mutex' = [mutex EXCEPT ![i] = t]
     /\ GoTo(t, "now")
     /\ UNCHANGED <<clock, state, name_time, lines>>

\* open_file: the time for the name, then fopen and set_file_state (fp is for who has the
\* mutex), then set_name_time.
ReadNow(t) ==
  /\ At(t, "now")
  /\ line' = [line EXCEPT ![t].pc = "fopen", ![t].opened = clock]
  /\ UNCHANGED <<clock, mutex, state, fp, name_time, lines, crashed>>

OpenFile(t) ==
  LET i == InnerOf(t)
  IN /\ At(t, "fopen")
     /\ \/ /\ fp' = [fp EXCEPT ![i] = Period(line[t].opened)]
           /\ state' = [state EXCEPT ![i] = "open"]
           /\ GoTo(t, "publish")
           /\ UNCHANGED mutex
        \/ /\ "fopen" \in FileFaults
           /\ fp' = [fp EXCEPT ![i] = Null]
           /\ state' = [state EXCEPT ![i] = "non_associated"]
           /\ LeavesReopen(t)
     /\ UNCHANGED <<clock, name_time, lines, crashed>>

\* The mutant reads the clock again for name_time.
SetNameTimeNow(t) ==
  /\ At(t, "publish")
  /\ name_time' = [name_time EXCEPT ![InnerOf(t)] = NamedAt(clock)]
  /\ LeavesReopen(t)
  /\ UNCHANGED <<clock, state, fp, lines, crashed>>

SetNameTime(t) ==
  /\ At(t, "publish")
  /\ name_time' = [name_time EXCEPT ![InnerOf(t)] = NamedAt(line[t].opened)]
  /\ LeavesReopen(t)
  /\ UNCHANGED <<clock, state, fp, lines, crashed>>

\* What a failed or skipped write leads to: reopen_if_need(true).
Retries(t) == line' = [line EXCEPT ![t].pc = "enter", ![t].need = TRUE, ![t].stage = "retry"]

\* A file that is not open is not written.  print(level, text) then has an undefined
\* write_success, and may return.
TestState(t) ==
  /\ At(t, "state")
  /\ \/ /\ state[InnerOf(t)] = "open"
        /\ GoTo(t, "write")
        /\ UNCHANGED mutex
     \/ /\ state[InnerOf(t)] # "open"
        /\ Retries(t)
        /\ UNCHANGED mutex
     \/ /\ state[InnerOf(t)] # "open" /\ line[t].form = "text"
        /\ Returns(t)
  /\ UNCHANGED <<clock, state, fp, name_time, lines, crashed>>

\* vfprintf or fprintf.  A line that is written may still be taken for a failure: by print
\* (level, text), whose result starts undefined.  errno may be EBADF from any earlier call.
WriteLine(t) ==
  LET i == InnerOf(t)
      Written == lines' = lines \cup {<<Period(line[t].stamp), fp[i], line[t].missed>>}
  IN /\ At(t, "write") /\ MayEnter(t)
     /\ fp[i] \notin {Null, Stray}
     /\ \/ /\ Written /\ Returns(t)
        \/ /\ line[t].form = "text" /\ Written /\ Retries(t) /\ UNCHANGED mutex
        \/ /\ "write" \in FileFaults /\ UNCHANGED lines
           /\ Retries(t) /\ UNCHANGED mutex
     /\ \/ UNCHANGED state
        \/ /\ "EBADF" \in FileFaults /\ line[t].form = "format"
           /\ state' = [state EXCEPT ![i] = "bad_file_descriptor"]
     /\ UNCHANGED <<clock, fp, name_time, crashed>>

WriteStray(t) ==
  /\ At(t, "write") /\ MayEnter(t)
  /\ fp[InnerOf(t)] \in {Null, Stray}
  /\ crashed' = IF fp[InnerOf(t)] = Null THEN "null" ELSE "stray"
  /\ UNCHANGED fileVars

Tick == /\ clock < Len(Instants)
        /\ clock' = clock + 1
        /\ UNCHANGED <<mutex, state, fp, name_time, line, lines, crashed>>

\* ~internal_logger: it waits for the mutex and closes the file.
DestroyFile(i) == /\ mutex[i] = NoThread
                  /\ fp' = [fp EXCEPT ![i] = Null]

LineStep(t) == \/ LockForText(t) \/ TakeTime(t) \/ CompareTime(t) \/ AskReopen(t)
               \/ SkipReopen(t) \/ CloseFile(t) \/ ReadNow(t) \/ OpenFile(t)
               \/ SetNameTime(t) \/ TestState(t) \/ WriteLine(t) \/ WriteStray(t)
==============================================================================
