------------------------------- MODULE IoBuffer -------------------------------
(***************************************************************************)
(* src/src/iobuffer/io_buffer.{h,cpp} and the page pool of buffer.h: a     *)
(* buffer is a deque of pages and the positions begin and end of its bytes *)
(* in them; bytes move between buffers page by page where the positions    *)
(* allow it, and byte by byte where they do not.                           *)
(*                                                                         *)
(* Every operation is a function of the state [heap, pool, buf].  The      *)
(* block pointers the loops keep are looked up at each byte.  Positions    *)
(* are size_t; where a subtraction wraps the code's outcome is spelled out.*)
(***************************************************************************)
EXTENDS Integers, Sequences, FiniteSets, SequencesExt

CONSTANTS Buffers,
          PageSize,   \* DEFAULT_SIZE
          MaxPool,    \* mem_container::max_size
          Inputs,     \* the byte strings that are pushed
          Sizes,      \* the sizes that are popped and moved
          MaxBytes,   \* bound: bytes in all buffers together
          Junk        \* the content of memory nothing was written to

ASSUME IoBufferAssumption ==
  /\ PageSize \in Nat \ {0} /\ MaxPool \in Nat
  /\ IsFiniteSet(Buffers) /\ "pool" \notin Buffers
  /\ Inputs \subseteq Seq(Nat)
  /\ Sizes \subseteq Nat \ {0}  \* no caller asks for nothing: begin + size - 1 could wrap

VARIABLES
  heap,   \* the allocated pages and their bytes
  pool,   \* mem: mem_container::container
  buf,    \* per buffer: control_block [pages, begin, end]
  out     \* what the last pop copied to dest

vars == <<heap, pool, buf, out>>

Offsets == 0..PageSize - 1
NoPosition == -1  \* (size_t) -1

St == [heap |-> heap, pool |-> pool, buf |-> buf]

Init ==
  /\ heap = <<>> /\ pool = <<>>
  /\ buf = [b \in Buffers |-> [pages |-> <<>>, begin |-> NoPosition, end |-> 0]]
  /\ out = <<>>

-----------------------------------------------------------------------------
(***************************************************************************)
(* Pages.                                                                  *)
(***************************************************************************)
Pages(s, b) == s.buf[b].pages
Begin(s, b) == s.buf[b].begin
End(s, b) == s.buf[b].end
SetPages(s, b, ps) == [s EXCEPT !.buf[b].pages = ps]
SetRange(s, b, from, to) == [s EXCEPT !.buf[b].begin = from, !.buf[b].end = to]
Shift(s, b, n) == SetRange(s, b, Begin(s, b) + n, End(s, b) + n)

\* The page of a position.
PageAt(s, b, pos) == Pages(s, b)[(pos \div PageSize) + 1]
ByteAt(s, b, pos) == s.heap[PageAt(s, b, pos)][pos % PageSize]
PutByte(s, b, pos, x) == [s EXCEPT !.heap[PageAt(s, b, pos)][pos % PageSize] = x]

\* new char[DEFAULT_SIZE]
NewPage(s) ==
  CHOOSE p \in {<<"new", i>> : i \in 1..Cardinality(DOMAIN s.heap) + 1} : p \notin DOMAIN s.heap
Allocate(s, p) ==
  [s EXCEPT !.heap =
    [q \in DOMAIN @ \cup {p} |-> IF q = p THEN [o \in Offsets |-> Junk] ELSE @[q]]]

\* mem_container::get gives page p
MemPage(s) == IF s.pool = <<>> THEN NewPage(s) ELSE Head(s.pool)
MemGet(s) == IF s.pool = <<>> THEN Allocate(s, NewPage(s)) ELSE [s EXCEPT !.pool = Tail(@)]

\* mem_container::push.  The mutant does not delete the page the pool has no room for.
MemPushLeaks(s, p) ==
  IF Len(s.pool) <= MaxPool THEN [s EXCEPT !.pool = Append(@, p)] ELSE s
MemPush(s, p) ==
  IF Len(s.pool) <= MaxPool
  THEN [s EXCEPT !.pool = Append(@, p)]
  ELSE [s EXCEPT !.heap = [q \in DOMAIN @ \ {p} |-> @[q]]]

AddBack(s, b) == SetPages(MemGet(s), b, Append(Pages(s, b), MemPage(s)))
AddBacks == INSTANCE Loop WITH Step <- AddBack

\* A page in front moves the bytes of a buffer that has some.
AddFront(s, b) ==
  LET t == SetPages(MemGet(s), b, <<MemPage(s)>> \o Pages(s, b))
  IN IF Begin(s, b) = NoPosition THEN t ELSE Shift(t, b, PageSize)
AddFronts == INSTANCE Loop WITH Step <- AddFront

CeilDiv(n) == (n + PageSize - 1) \div PageSize

\* check(): it throws only if end - begin exceeds the pages, which WithinPages excludes.
Check(s, b) ==
  IF Begin(s, b) = NoPosition \/ End(s, b) = 0 \/ Begin(s, b) >= End(s, b)
  THEN SetRange(s, b, NoPosition, 0) ELSE s

ReleaseFront(s, b) == SetPages(MemPush(s, Head(Pages(s, b))), b, Tail(Pages(s, b)))
ReleaseBack(s, b) == SetPages(MemPush(s, Last(Pages(s, b))), b, Front(Pages(s, b)))

FrontReleases == INSTANCE Loop WITH Step <- ReleaseFront
BackReleases == INSTANCE Loop WITH Step <- ReleaseBack

\* A page before the bytes is released.
ReleaseBefore(s, b) == Shift(ReleaseFront(s, b), b, -PageSize)
ReleasesBefore == INSTANCE Loop WITH Step <- ReleaseBefore

\* __shrink_size(): pages before begin and pages after the one of end go to the pool.
\* The mutant keeps the positions when it drops the pages in front.
ShrinkStays(s, b) ==
  LET t == Check(s, b)
  IN IF Begin(t, b) = NoPosition THEN t
     ELSE FrontReleases!Times(Begin(t, b) \div PageSize, t, b)
Shrink(s, b) ==
  LET t == Check(s, b)
      u == ReleasesBefore!Times(Begin(t, b) \div PageSize, t, b)
      after == Len(Pages(u, b)) - (End(u, b) \div PageSize + 1)
  IN IF Begin(t, b) = NoPosition THEN FrontReleases!Times(Len(Pages(t, b)), t, b)
     ELSE BackReleases!Times(after, u, b)

-----------------------------------------------------------------------------
(***************************************************************************)
(* Pushes and pops.                                                        *)
(***************************************************************************)
Length(s, b) == IF Begin(s, b) = NoPosition THEN 0 ELSE End(s, b) - Begin(s, b)
Bytes(s, b, from, n) == [i \in 1..n |-> ByteAt(s, b, from + i - 1)]
\* Each byte goes to the cell of its position.
Write(s, b, from, data) ==
  LET Written(p, o) == {i \in 1..Len(data) : PageAt(s, b, from + i - 1) = p
                                              /\ (from + i - 1) % PageSize = o}
      After(p, o) == IF Written(p, o) = {} THEN s.heap[p][o]
                     ELSE data[CHOOSE i \in Written(p, o) : \A j \in Written(p, o) : j <= i]
  IN [s EXCEPT !.heap = [p \in DOMAIN @ |-> [o \in Offsets |-> After(p, o)]]]

\* push_back_n
PushBackN(s0, b, data) ==
  LET s == Check(s0, b)
      t == IF Begin(s, b) = NoPosition THEN SetRange(s, b, 0, 0) ELSE s
      u == AddBacks!Times(CeilDiv(Len(data) + End(t, b)) - Len(Pages(t, b)), t, b)
  IN IF data = <<>> THEN s
     ELSE SetRange(Write(u, b, End(u, b), data), b, Begin(u, b), End(u, b) + Len(data))

\* push_front_n
PushFrontN(s0, b, data) ==
  LET s == Check(s0, b)
      n == Len(data)
      more == IF Begin(s, b) = NoPosition THEN CeilDiv(n) - Len(Pages(s, b))
              ELSE CeilDiv(n - Begin(s, b))
      t == AddFronts!Times(more, s, b)
      u == IF Begin(s, b) = NoPosition THEN SetRange(t, b, 0, n)
           ELSE SetRange(t, b, Begin(t, b) - n, End(t, b))
  IN IF data = <<>> THEN s0 ELSE Write(u, b, Begin(u, b), data)

\* pop_front_n(size), pop_back_n(size)
DropFrontN(s0, b, n) ==
  LET s == Check(s0, b)
  IN IF Begin(s, b) = NoPosition THEN s
     ELSE Shrink(IF n > Length(s, b) THEN SetRange(s, b, NoPosition, 0)
                 ELSE SetRange(s, b, Begin(s, b) + n, End(s, b)), b)

DropBackN(s0, b, n) ==
  LET s == Check(s0, b)
  IN IF Begin(s, b) = NoPosition THEN s
     ELSE Shrink(IF n > Length(s, b) THEN SetRange(s, b, NoPosition, 0)
                 ELSE SetRange(s, b, Begin(s, b), End(s, b) - n), b)

\* How much pop_front_n(dest, size) takes.
TakenFront(s, b, n) ==
  IF Begin(s, b) + n - 1 >= End(s, b) THEN Length(s, b) ELSE n

\* pop_back_n(dest, size) copies from begin + n with n = end - size, not end - begin - size:
\* unless begin is 0 it copies the wrong bytes, fewer than asked, or none.
CopiedFrom(s, b, n) == IF Length(s, b) >= n THEN End(s, b) - n ELSE 0
TakenBack(s, b, n) ==
  IF CopiedFrom(s, b, n) >= Length(s, b) THEN 0
  ELSE IF CopiedFrom(s, b, n) + n > Length(s, b) THEN Length(s, b) - CopiedFrom(s, b, n)
  ELSE n

-----------------------------------------------------------------------------
(***************************************************************************)
(* pop_front_to_other_back_n and pop_back_to_other_front_n.  The variants  *)
(* for one and for two buffers have the same loops; here b = c is the      *)
(* first.                                                                  *)
(***************************************************************************)
Spare(s, b) == End(s, b) > 0 /\ (End(s, b) - 1) \div PageSize < Len(Pages(s, b)) - 1

FrontToBack(s, b, c) ==
  LET t == SetPages(s, b, Tail(Pages(s, b)))
  IN SetPages(t, c, Append(Pages(t, c), Head(Pages(s, b))))
BackToFront(s, b, c) ==
  LET t == SetPages(s, b, Front(Pages(s, b)))
  IN SetPages(t, c, <<Last(Pages(s, b))>> \o Pages(t, c))
BackToBack(s, b, c) ==
  SetPages(SetPages(s, b, Front(Pages(s, b))), c, Append(Pages(s, c), Last(Pages(s, b))))
FreshBack(s, c) == SetPages(Allocate(s, NewPage(s)), c, Append(Pages(s, c), NewPage(s)))
FreshFront(s, c) == SetPages(Allocate(s, NewPage(s)), c, <<NewPage(s)>> \o Pages(s, c))

\* An empty c gets a page and the offset of the bytes to come.
Open(s, b, c, offset) ==
  LET t == IF Pages(s, c) # <<>> THEN s
           ELSE IF Spare(s, b) THEN BackToBack(s, b, c)
           ELSE IF Begin(s, b) >= PageSize THEN Shift(FrontToBack(s, b, c), b, -PageSize)
           ELSE FreshBack(s, c)
  IN IF Begin(s, c) = NoPosition THEN SetRange(t, c, offset, offset) ELSE s

\* Room for a byte behind c: a page b or c no longer needs, or a new one.
RoomBehind(s, b, c) ==
  IF End(s, c) # Len(Pages(s, c)) * PageSize THEN s
  ELSE IF Begin(s, b) >= PageSize THEN Shift(FrontToBack(s, b, c), b, -PageSize)
  ELSE IF Begin(s, c) >= PageSize THEN Shift(FrontToBack(s, c, c), c, -PageSize)
  ELSE FreshBack(s, c)

RoomBefore(s, b, c) ==
  IF Begin(s, c) # 0 THEN s
  ELSE Shift(IF Spare(s, b) THEN BackToFront(s, b, c)
             ELSE IF Spare(s, c) THEN BackToFront(s, c, c)
             ELSE FreshFront(s, c), c, PageSize)

\* b loses n bytes at the front as c gains n at the back; and the other way round.
Advance(s, b, c, n) == [s EXCEPT !.buf[b].begin = @ + n, !.buf[c].end = @ + n]
Retreat(s, b, c, n) == [s EXCEPT !.buf[b].end = @ - n, !.buf[c].begin = @ - n]

ByteBehind(s, b, c) ==
  LET t == RoomBehind(s, b, c)
      u == PutByte(t, c, End(t, c), ByteAt(t, b, Begin(t, b)))
  IN Advance(u, b, c, 1)
ByteBefore(s, b, c) ==
  LET t == RoomBefore(s, b, c)
      u == PutByte(t, c, Begin(t, c) - 1, ByteAt(t, b, End(t, b) - 1))
  IN Retreat(u, b, c, 1)

\* Page k of b and page l of c change places.
Swap(s, b, k, c, l) ==
  LET t == SetPages(s, c, [Pages(s, c) EXCEPT ![l] = Pages(s, b)[k]])
  IN SetPages(t, b, [Pages(t, b) EXCEPT ![k] = Pages(s, c)[l]])

\* The bytes of b end one page sooner, then those of c one page later.
EndsPass(s, b, c) ==
  LET t == [s EXCEPT !.buf[b].end = @ - PageSize]
  IN [t EXCEPT !.buf[c].end = @ + PageSize]

\* A whole page changes places with an unused one of c, or is handed over.
PageBehind(s, b, c) ==
  LET k == Begin(s, b) \div PageSize + 1
      t == SetPages(s, b, Tail([Pages(s, b) EXCEPT ![k] = Head(Pages(s, b))]))
  IN IF End(s, c) # Len(Pages(s, c)) * PageSize
     THEN Advance(Swap(s, b, k, c, End(s, c) \div PageSize + 1), b, c, PageSize)
     ELSE EndsPass(SetPages(t, c, Append(Pages(t, c), Pages(s, b)[k])), b, c)
\* The mutant forgets that the bytes of c now end one page later.
PageBeforeUncounted(s, b, c) ==
  LET k == (End(s, b) - 1) \div PageSize + 1
      t == SetPages(s, b, Front([Pages(s, b) EXCEPT ![k] = Last(Pages(s, b))]))
      u == SetPages(t, c, <<Pages(s, b)[k]>> \o Pages(t, c))
  IN IF Begin(s, c) # 0
     THEN Retreat(Swap(s, b, k, c, (Begin(s, c) - 1) \div PageSize + 1), b, c, PageSize)
     ELSE SetRange(u, b, Begin(u, b), End(u, b) - PageSize)
PageBefore(s, b, c) ==
  LET k == (End(s, b) - 1) \div PageSize + 1
      t == SetPages(s, b, Front([Pages(s, b) EXCEPT ![k] = Last(Pages(s, b))]))
  IN IF Begin(s, c) # 0
     THEN Retreat(Swap(s, b, k, c, (Begin(s, c) - 1) \div PageSize + 1), b, c, PageSize)
     ELSE EndsPass(SetPages(t, c, <<Pages(s, b)[k]>> \o Pages(t, c)), b, c)

BytesBehind == INSTANCE Loop WITH Step <- LAMBDA s, m : ByteBehind(s, m[1], m[2])
PagesBehind == INSTANCE Loop WITH Step <- LAMBDA s, m : PageBehind(s, m[1], m[2])
BytesBefore == INSTANCE Loop WITH Step <- LAMBDA s, m : ByteBefore(s, m[1], m[2])
PagesBefore == INSTANCE Loop WITH Step <- LAMBDA s, m : PageBefore(s, m[1], m[2])

\* Whole pages move when both positions have one offset and there are more than two pages of
\* bytes: first the bytes up to a page boundary, then pages while more than a page is left.
AllBehind(s, b, c, n) ==
  LET fast == (Begin(s, b) - End(s, c)) % PageSize = 0 /\ n > 2 * PageSize
      a == IF fast THEN (-Begin(s, b)) % PageSize ELSE 0
      k == IF fast THEN CeilDiv(n - a) - 1 ELSE 0
      t == PagesBehind!Times(k, BytesBehind!Times(a, s, <<b, c>>), <<b, c>>)
  IN BytesBehind!Times(n - a - k * PageSize, t, <<b, c>>)
AllBefore(s, b, c, n) ==
  LET fast == (End(s, b) - Begin(s, c)) % PageSize = 0 /\ n > 2 * PageSize
      a == IF fast THEN End(s, b) % PageSize ELSE 0
      k == IF fast THEN CeilDiv(n - a) - 1 ELSE 0
      t == PagesBefore!Times(k, BytesBefore!Times(a, s, <<b, c>>), <<b, c>>)
  IN BytesBefore!Times(n - a - k * PageSize, t, <<b, c>>)

\* How many bytes may move: within one buffer a move of all of them does nothing.
Movable(s, b, c, n) ==
  IF n < Length(s, b) THEN n ELSE IF b = c THEN 0 ELSE Length(s, b)

MoveBehind(s0, b, c, n0) ==
  LET s == Check(Check(s0, b), c)
      n == Movable(s, b, c, n0)
      t == IF b = c THEN s ELSE Open(s, b, c, Begin(s, b) % PageSize)
  IN IF n = 0 THEN s ELSE Shrink(Shrink(AllBehind(t, b, c, n), b), c)
MoveBefore(s0, b, c, n0) ==
  LET s == Check(Check(s0, b), c)
      n == Movable(s, b, c, n0)
      t == IF b = c THEN s ELSE Open(s, b, c, End(s, b) % PageSize)
  IN IF n = 0 THEN s ELSE Shrink(Shrink(AllBefore(t, b, c, n), b), c)

-----------------------------------------------------------------------------
\* The places a page is held in: a buffer or the pool, and an index.
Row(s, h) == IF h = "pool" THEN s.pool ELSE Pages(s, h)
Places(s) == UNION {{h} \X (1..Len(Row(s, h))) : h \in Buffers \cup {"pool"}}
PageIn(s, at) == Row(s, at[1])[at[2]]

\* What lies outside begin..end is of no use to anyone: an operation leaves Junk there.  Addresses
\* do not matter either: a page is named anew, after the place it is held in.
Positions(s, b) == (Begin(s, b)..End(s, b) - 1) \cap (0..Len(Pages(s, b)) * PageSize - 1)
Live(s) ==
  UNION {{<<PageAt(s, b, pos), pos % PageSize>> : pos \in Positions(s, b)} : b \in Buffers}
Name(s, p) ==
  LET held == {at \in Places(s) : PageIn(s, at) = p}
  IN IF held = {} THEN <<"leaked", p>> ELSE CHOOSE at \in held : TRUE
Renamed(s, ps) == [i \in 1..Len(ps) |-> Name(s, ps[i])]
Becomes(result) ==
  \E s \in {result} :
    /\ \E live \in {Live(s)}, name \in {[p \in DOMAIN s.heap |-> Name(s, p)]} :
         heap' = [x \in {name[p] : p \in DOMAIN s.heap} |->
                   LET page == CHOOSE p \in DOMAIN s.heap : name[p] = x
                   IN [o \in Offsets |-> IF <<page, o>> \in live THEN s.heap[page][o] ELSE Junk]]
    /\ pool' = Renamed(s, s.pool)
    /\ buf' = [b \in Buffers |-> [s.buf[b] EXCEPT !.pages = Renamed(s, @)]]

AllBytes == FoldSet(LAMBDA b, n : Length(St, b) + n, 0, Buffers)

PushBack(b, data) ==
  /\ AllBytes + Len(data) <= MaxBytes
  /\ Becomes(PushBackN(St, b, data))
  /\ out' = <<>>

PushFront(b, data) ==
  /\ AllBytes + Len(data) <= MaxBytes
  /\ Becomes(PushFrontN(St, b, data))
  /\ out' = <<>>

DropFront(b, n) == Becomes(DropFrontN(St, b, n)) /\ out' = <<>>
DropBack(b, n) == Becomes(DropBackN(St, b, n)) /\ out' = <<>>

TakeFront(b, n) ==
  LET k == TakenFront(St, b, n)
  IN IF Begin(St, b) = NoPosition THEN UNCHANGED <<heap, pool, buf>> /\ out' = <<>>
     ELSE /\ out' = Bytes(St, b, Begin(St, b), k)
          /\ Becomes(Shrink(SetRange(St, b, Begin(St, b) + k, End(St, b)), b))

TakeBack(b, n) ==
  LET k == TakenBack(St, b, n)
  IN IF Begin(St, b) = NoPosition \/ k = 0 THEN UNCHANGED <<heap, pool, buf>> /\ out' = <<>>
     ELSE /\ out' = Bytes(St, b, Begin(St, b) + CopiedFrom(St, b, n), k)
          /\ Becomes(Shrink(SetRange(St, b, Begin(St, b), End(St, b) - k), b))

MoveFrontToBack(b, c, n) == Becomes(MoveBehind(St, b, c, n)) /\ out' = <<>>
MoveBackToFront(b, c, n) == Becomes(MoveBefore(St, b, c, n)) /\ out' = <<>>

\* io::direct_read (io.cpp:122): read() until EAGAIN, each time into the page of end, and into a
\* new one when the last is full: a page without bytes is left behind at times.
DirectReadN(s, b, data) ==
  LET end == End(s, b) + Len(data)
      t == AddBacks!Times(end \div PageSize + 1 - Len(Pages(s, b)), s, b)
  IN IF data = <<>> THEN t
     ELSE SetRange(Write(t, b, End(s, b), data), b,
                   IF Begin(s, b) = NoPosition THEN 0 ELSE Begin(s, b), end)

DirectRead(b, data) ==
  /\ AllBytes + Len(data) <= MaxBytes
  /\ Becomes(DirectReadN(St, b, data))
  /\ out' = <<>>

\* io::direct_write (io.cpp:193): the kernel has taken n bytes.  Which ones it was given after
\* a partial write is another matter: each write() starts at the start of the page.
DirectWriteN(s, b, n) ==
  LET t == IF n = Length(s, b) THEN SetRange(s, b, NoPosition, 0)
           ELSE SetRange(s, b, Begin(s, b) + n, End(s, b))
  IN Shrink(IF Length(s, b) = 0 THEN s ELSE t, b)

DirectWrite(b, n) ==
  /\ n <= Length(St, b)
  /\ Becomes(DirectWriteN(St, b, n))
  /\ out' = <<>>

\* shrink_size
ShrinkSize(b) == Becomes(Shrink(St, b)) /\ UNCHANGED out

Next ==
  \E b \in Buffers :
    \/ ShrinkSize(b)
    \/ \E data \in Inputs : PushBack(b, data) \/ PushFront(b, data)
    \/ \E n \in Sizes : DropFront(b, n) \/ DropBack(b, n) \/ TakeFront(b, n) \/ TakeBack(b, n)
    \/ \E data \in Inputs \cup {<<>>} : DirectRead(b, data)
    \/ \E n \in Sizes \cup {0, Length(St, b)} : DirectWrite(b, n)
    \/ \E c \in Buffers, n \in Sizes : MoveFrontToBack(b, c, n) \/ MoveBackToFront(b, c, n)

Spec == Init /\ [][Next]_vars

-----------------------------------------------------------------------------
\* Types: among them, a pop never hands out memory that nothing was written to.
TypeOK ==
  /\ IsFiniteSet(DOMAIN heap)
  /\ \A p \in DOMAIN heap : heap[p] \in [Offsets -> Nat \cup {Junk}]
  /\ pool \in Seq(DOMAIN heap)
  /\ buf \in [Buffers -> [pages : Seq(DOMAIN heap), begin : Nat \cup {NoPosition}, end : Nat]]
  /\ out \in Seq(Nat)  \* never Junk

(***************************************************************************)
(* Pages are raw pointers without counts: each allocated page is in one    *)
(* place, a buffer or the pool, and in no second one, whatever swaps and   *)
(* hand-overs the moves make.                                              *)
(***************************************************************************)
PagesOwnedOnce ==
  /\ \A at \in Places(St) : PageIn(St, at) \in DOMAIN heap
  /\ \A p \in DOMAIN heap :
       \E at \in Places(St) : {other \in Places(St) : PageIn(St, other) = p} = {at}

(***************************************************************************)
(* begin and end stay within the pages of their buffer: no operation reads *)
(* or writes beside a page, and check() never throws "io_buffer overflow!".*)
(***************************************************************************)
WithinPages ==
  /\ TypeOK
  /\ \A b \in Buffers :
       \/ buf[b].begin = NoPosition /\ buf[b].end = 0
       \/ /\ 0 <= buf[b].begin /\ buf[b].begin < buf[b].end
          /\ buf[b].end <= Len(buf[b].pages) * PageSize

(***************************************************************************)
(* Whatever pages the bytes are on, an io_buffer is a sequence of bytes:   *)
(* pushes, pops and moves do to the bytes what ByteBuffers says.           *)
(***************************************************************************)
Content(b) ==
  LET first == buf[b].begin
      At(pos) == heap[buf[b].pages[pos \div PageSize + 1]][pos % PageSize]
  IN IF first = NoPosition THEN <<>> ELSE [i \in 1..buf[b].end - first |-> At(first + i - 1)]
Abstract == INSTANCE ByteBuffers WITH bytes <- [b \in Buffers |-> Content(b)]
IsByteBuffers == Abstract!ByteSpec
==============================================================================
