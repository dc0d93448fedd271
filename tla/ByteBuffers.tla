----------------------------- MODULE ByteBuffers -----------------------------
(***************************************************************************)
(* What io_buffer promises: each buffer is a sequence of bytes with pushes *)
(* and pops at both ends, and bytes move from one buffer to another in     *)
(* their order.                                                            *)
(***************************************************************************)
EXTENDS Integers, Sequences

CONSTANTS Buffers, Inputs, Sizes

VARIABLES bytes,  \* per buffer
          out     \* what the last operation copied out: a copying pop, else nothing

byteVars == <<bytes, out>>

Front(s, n) == SubSeq(s, 1, IF n < Len(s) THEN n ELSE Len(s))
WithoutFront(s, n) == SubSeq(s, n + 1, Len(s))
Back(s, n) == SubSeq(s, (IF n < Len(s) THEN Len(s) - n ELSE 0) + 1, Len(s))
WithoutBack(s, n) == SubSeq(s, 1, Len(s) - n)

ByteInit ==
  /\ bytes = [b \in Buffers |-> <<>>]
  /\ out = <<>>

PushBack(b, s) == bytes' = [bytes EXCEPT ![b] = @ \o s] /\ out' = <<>>
PushFront(b, s) == bytes' = [bytes EXCEPT ![b] = s \o @] /\ out' = <<>>

RemoveFront(b, n) == bytes' = [bytes EXCEPT ![b] = WithoutFront(@, n)]
RemoveBack(b, n) == bytes' = [bytes EXCEPT ![b] = WithoutBack(@, n)]

DropFront(b, n) == RemoveFront(b, n) /\ out' = <<>>
DropBack(b, n) == RemoveBack(b, n) /\ out' = <<>>

TakeFront(b, n) == RemoveFront(b, n) /\ out' = Front(bytes[b], n)

\* A copying pop at the back removes at most n bytes, and copies as many: the right ones if it
\* removes them all.  Which ones it copies otherwise is not promised.
TakeBack(b, n) ==
  \E k \in 0..Len(bytes[b]) :
    /\ k <= n
    /\ RemoveBack(b, k)
    /\ Len(out') = k
    /\ k = Len(bytes[b]) => out' = bytes[b]

\* Within one buffer only a part moves: all of it is already in its place.
MoveFrontToBack(b, c, n) ==
  /\ bytes' =
       IF b # c THEN [bytes EXCEPT ![b] = WithoutFront(@, n), ![c] = @ \o Front(bytes[b], n)]
       ELSE IF n < Len(bytes[b]) THEN [bytes EXCEPT ![b] = WithoutFront(@, n) \o Front(@, n)]
       ELSE bytes
  /\ out' = <<>>

MoveBackToFront(b, c, n) ==
  /\ bytes' =
       IF b # c THEN [bytes EXCEPT ![b] = WithoutBack(@, n), ![c] = Back(bytes[b], n) \o @]
       ELSE IF n < Len(bytes[b]) THEN [bytes EXCEPT ![b] = Back(@, n) \o WithoutBack(@, n)]
       ELSE bytes
  /\ out' = <<>>

\* The loop sends from the front as many bytes as the kernel takes.
Send(b) == \E n \in 0..Len(bytes[b]) : DropFront(b, n)

ByteNext ==
  \E b \in Buffers :
    \/ Send(b)
    \/ \E s \in Inputs : PushBack(b, s) \/ PushFront(b, s)
    \/ \E n \in Sizes : DropFront(b, n) \/ DropBack(b, n) \/ TakeFront(b, n) \/ TakeBack(b, n)
    \/ \E c \in Buffers, n \in Sizes : MoveFrontToBack(b, c, n) \/ MoveBackToFront(b, c, n)

ByteSpec == ByteInit /\ [][ByteNext]_byteVars
==============================================================================
