------------------------------ MODULE TcpProofs ------------------------------
(***************************************************************************)
(* Proofs about Tcp: the descriptor of a connection, whatever operations,  *)
(* sizes and faults.                                                       *)
(***************************************************************************)
EXTENDS Tcp, FiniteSetTheorems, SequenceTheorems, TLAPS

IsTcp(s) ==
  DOMAIN s = {"status", "managed", "closes", "told", "busy", "reads", "rbuf", "write_list",
              "wait_write_list", "unsent", "have_write", "answers"}

\* What an object says of its descriptor: a connection that has closed it is out of the loop
\* and closed for good.
FdOk(s) == /\ IsTcp(s)
           /\ s.closes \in {0, 1}
           /\ s.closes = 1 => ~s.managed /\ s.status = "closed"

\* t has the descriptor s has.
SameFd(s, t) == IsTcp(t) /\ t.status = s.status /\ t.managed = s.managed /\ t.closes = s.closes

-----------------------------------------------------------------------------
(***************************************************************************)
(* The read and write path does not touch the descriptor.                  *)
(***************************************************************************)
LEMMA NotifyKeepsFd ==
  ASSUME NEW s, IsTcp(s), NEW ops, NEW r
  PROVE  SameFd(s, Io!Notify(s, ops, r))
BY DEF IsTcp, SameFd, Io!Notify

LEMMA ReadsKeepFd ==
  ASSUME NEW s, IsTcp(s)
  PROVE  SameFd(s, Io!ProcessRead(s)) /\ SameFd(s, Io!CleanRead(s))
<1>1. ASSUME NEW k PROVE SameFd(s, Io!CompleteReads(s, k))
  <2>. DEFINE u == [s EXCEPT !.reads = Io!After(@, k),
                             !.rbuf = @ - Io!Total(SubSeq(s.reads, 1, k))]
  <2>1. SameFd(s, u)
    BY DEF IsTcp, SameFd
  <2>2. SameFd(u, Io!Notify(u, SubSeq(s.reads, 1, k), "Done"))
    <3>. HIDE DEF u
    <3>. QED BY <2>1, NotifyKeepsFd DEF SameFd
  <2>. QED BY <2>1, <2>2 DEF SameFd, Io!CompleteReads
<1>. QED BY <1>1 DEF Io!ProcessRead, Io!CleanRead

LEMMA WritesKeepFd ==
  ASSUME NEW s, IsTcp(s)
  PROVE  SameFd(s, Io!WriteFlush(s)) /\ SameFd(s, Io!CleanWrite(s)) /\ SameFd(s, Io!ProcessWrite(s))
<1>1. SameFd(s, Io!WriteFlush(s))
  BY DEF IsTcp, SameFd, Io!WriteFlush
<1>2. SameFd(s, Io!CleanWrite(s))
  <2>. DEFINE u == [s EXCEPT !.write_list = <<>>]
  <2>1. SameFd(s, u)
    BY DEF IsTcp, SameFd
  <2>2. SameFd(u, Io!Notify(u, s.write_list, "IOError"))
    <3>. HIDE DEF u
    <3>. QED BY <2>1, NotifyKeepsFd DEF SameFd
  <2>. QED BY <2>1, <2>2 DEF SameFd, Io!CleanWrite
<1>3. ASSUME NEW k PROVE SameFd(s, Io!CompleteWrites(s, k))
  <2>. DEFINE u == [s EXCEPT !.wait_write_list = Io!After(@, k),
                             !.have_write = @ - Io!Total(SubSeq(s.wait_write_list, 1, k))]
  <2>1. SameFd(s, u)
    BY DEF IsTcp, SameFd
  <2>2. SameFd(u, Io!Notify(u, SubSeq(s.wait_write_list, 1, k), "Done"))
    <3>. HIDE DEF u
    <3>. QED BY <2>1, NotifyKeepsFd DEF SameFd
  <2>. QED BY <2>1, <2>2 DEF SameFd, Io!CompleteWrites
<1>. QED BY <1>1, <1>2, <1>3 DEF Io!ProcessWrite

LEMMA PathKeepsFd ==
  ASSUME NEW s, FdOk(s)
  PROVE  /\ FdOk(Io!ProcessRead(s)) /\ FdOk(Io!CleanRead(s))
         /\ FdOk(Io!WriteFlush(s)) /\ FdOk(Io!CleanWrite(s)) /\ FdOk(Io!ProcessWrite(s))
BY ReadsKeepFd, WritesKeepFd DEF FdOk, SameFd

\* close() releases a descriptor that is not released, and only that.
LEMMA CloseFd ==
  ASSUME NEW s, FdOk(s)
  PROVE  FdOk(Close(s))
<1>. DEFINE u == Io!CleanWrite(Io!CleanRead(s))
            t == [u EXCEPT !.managed = FALSE]
<1>1. SameFd(s, u)
  BY ReadsKeepFd, WritesKeepFd DEF FdOk, SameFd
<1>2. IsTcp(t) /\ t.status = s.status /\ t.closes = s.closes /\ ~t.managed
  BY <1>1 DEF SameFd, IsTcp
<1>3. Close(s) = IF t.status \in {"invalid", "closed"} THEN t
                 ELSE [t EXCEPT !.status = "closed", !.closes = @ + 1]
  BY DEF Close
<1>4. CASE t.status \in {"invalid", "closed"}
  BY <1>2, <1>3, <1>4 DEF FdOk
<1>5. CASE t.status \notin {"invalid", "closed"}
  <2>1. s.closes = 0
    BY <1>2, <1>5 DEF FdOk
  <2>. HIDE DEF t
  <2>. QED BY <1>2, <1>3, <1>5, <2>1 DEF FdOk, IsTcp
<1>. QED BY <1>4, <1>5

\* A change of the status that leaves closed alone is none of the descriptor.
LEMMA SetStatus ==
  ASSUME NEW s, FdOk(s)
  PROVE  /\ FdOk(TcpSetReadable(s, FALSE))
         /\ FdOk(TcpSetWritable(s, FALSE))
<1>1. FdOk(TcpSetReadable(s, FALSE))
  BY DEF FdOk, IsTcp, TcpSetReadable
<1>2. FdOk(TcpSetWritable(s, FALSE))
  BY DEF FdOk, IsTcp, TcpSetWritable
<1>. QED BY <1>1, <1>2

LEMMA DirectReadFd ==
  ASSUME NEW s, FdOk(s), NEW n, NEW eof \in BOOLEAN
  PROVE  FdOk(TcpDirectRead(s, n, eof))
<1>. DEFINE u == [s EXCEPT !.rbuf = @ + n]
            t == Io!DirectRead(s, n, eof)
<1>1. FdOk(u)
  BY DEF FdOk, IsTcp
<1>2. t \in {s, u, TcpSetReadable(u, FALSE)}
  BY DEF Io!DirectRead
<1>3. FdOk(t)
  <2>. HIDE DEF u, t
  <2>. QED BY <1>1, <1>2, SetStatus
<1>. QED BY <1>3, CloseFd DEF TcpDirectRead

LEMMA DirectWriteFd ==
  ASSUME NEW s, FdOk(s), NEW n, NEW why
  PROVE  FdOk(TcpDirectWrite(s, n, why))
<1>. DEFINE u == [s EXCEPT !.unsent = @ - n, !.have_write = @ + n]
            t == Io!DirectWrite(s, n, why)
<1>1. FdOk(u) /\ FdOk([u EXCEPT !.busy = TRUE])
  BY DEF FdOk, IsTcp
<1>2. t \in {s, u, [u EXCEPT !.busy = TRUE], TcpSetWritable(u, FALSE)}
  BY DEF Io!DirectWrite
<1>3. FdOk(t)
  <2>. HIDE DEF u, t
  <2>. QED BY <1>1, <1>2, SetStatus
<1>. QED BY <1>3, CloseFd DEF TcpDirectWrite

LEMMA AfterWritesFd ==
  ASSUME NEW s, FdOk(s), NEW t \in AfterWrites(s)
  PROVE  FdOk(t)
<1>1. PICK n \in Accepts(s), why \in WriteEnds : t = Io!ProcessWrite(TcpDirectWrite(s, n, why))
  BY DEF AfterWrites
<1>2. FdOk(TcpDirectWrite(s, n, why))
  BY DirectWriteFd
<1>. QED BY <1>1, <1>2, PathKeepsFd

LEMMA ResultKeepsFd ==
  ASSUME NEW s, FdOk(s), NEW r
  PROVE  FdOk(ConnectResult(s, r))
BY DEF FdOk, IsTcp, ConnectResult

LEMMA ConnectSuccessFd ==
  ASSUME NEW s, FdOk(s), s.status # "closed"
  PROVE  FdOk(ConnectSuccess(s))
<1>. DEFINE u == [s EXCEPT !.status = "connected", !.busy = FALSE]
<1>1. FdOk(u)
  BY DEF FdOk, IsTcp
<1>. HIDE DEF u
<1>2. FdOk(ConnectResult(u, "ok"))
  BY <1>1, ResultKeepsFd
<1>. QED BY <1>2 DEF ConnectSuccess, u

LEMMA ConnectFailFd ==
  ASSUME NEW s, FdOk(s)
  PROVE  FdOk(ConnectFail(s))
BY ResultKeepsFd, CloseFd DEF ConnectFail

\* What the loop hands to tcp::process_event, and the states of the object between its stages.
EventsNow == IF reading THEN {"in"} ELSE armed \cap Pending

Stages(eof, s0, s1, s2, s3, s4, s6) ==
  /\ eof \in BOOLEAN
  /\ s0 = IF tcp.status = "connecting" THEN ConnectSuccess(tcp) ELSE tcp
  /\ s1 = IF "in" \in EventsNow THEN TcpDirectRead(s0, net.incoming, eof) ELSE s0
  /\ s2 = IF "in" \in EventsNow THEN Io!ProcessRead(s1) ELSE s1
  /\ s3 = IF TcpReadable(s2) THEN s2 ELSE Io!CleanRead(s2)
  /\ s4 = IF "rdhup" \in EventsNow THEN Io!CleanRead(TcpSetReadable(s3, FALSE)) ELSE s3
  /\ s6 \in IF Io!WriteFlush(s4).busy THEN {Io!WriteFlush(s4)} ELSE AfterWrites(Io!WriteFlush(s4))
  /\ tcp' = IF s6.status \in {"closed", "peer_shutdown_write"} THEN Close(s6) ELSE s6
  /\ armed' = Rearm(tcp, tcp')
  /\ net' = [net EXCEPT !.incoming = IF "in" \in EventsNow THEN 0 ELSE @,
                        !.space = @ /\ (tcp'.busy => s0.busy)]

LEMMA EstablishedStages ==
  ASSUME EstablishedEvent
  PROVE  \E eof, s0, s1, s2, s3, s4, s6 : Stages(eof, s0, s1, s2, s3, s4, s6)
<1>. DEFINE After7(s0, s7) ==
              /\ tcp' = s7
              /\ armed' = Rearm(tcp, s7)
              /\ net' = [net EXCEPT !.incoming = IF "in" \in EventsNow THEN 0 ELSE @,
                                    !.space = @ /\ (s7.busy => s0.busy)]
            After6(s0, s6) ==
              \E s7 \in {IF s6.status \in {"closed", "peer_shutdown_write"}
                         THEN Close(s6) ELSE s6} :
                After7(s0, s7)
            After5(s0, s5) ==
              \E s6 \in IF s5.busy THEN {s5} ELSE AfterWrites(s5) : After6(s0, s6)
            After4(s0, s4) == \E s5 \in {Io!WriteFlush(s4)} : After5(s0, s5)
            After3(s0, s3) ==
              \E s4 \in {IF "rdhup" \in EventsNow THEN Io!CleanRead(TcpSetReadable(s3, FALSE))
                                                  ELSE s3} :
                After4(s0, s4)
            After2(s0, s2) ==
              \E s3 \in {IF TcpReadable(s2) THEN s2 ELSE Io!CleanRead(s2)} : After3(s0, s3)
            After1(s0, s1) ==
              \E s2 \in {IF "in" \in EventsNow THEN Io!ProcessRead(s1) ELSE s1} : After2(s0, s2)
            After0(s0, eof) ==
              \E s1 \in {IF "in" \in EventsNow THEN TcpDirectRead(s0, net.incoming, eof) ELSE s0} :
                After1(s0, s1)
<1>1. PICK s0 \in {IF tcp.status = "connecting" THEN ConnectSuccess(tcp) ELSE tcp} :
        \E eof \in IF net.fin THEN {TRUE} ELSE IF net.reset THEN BOOLEAN ELSE {FALSE} :
          After0(s0, eof)
  BY DEF EstablishedEvent, EventsNow
<1>2. PICK eof \in BOOLEAN : After0(s0, eof)
  <2>. HIDE DEF After0
  <2>. QED BY <1>1
<1>. HIDE DEF After7, After6, After5, After4, After3, After2, After1, After0
<1>3. PICK s1 : /\ s1 = IF "in" \in EventsNow THEN TcpDirectRead(s0, net.incoming, eof) ELSE s0
                /\ After1(s0, s1)
  BY <1>2 DEF After0
<1>4. PICK s2 : /\ s2 = IF "in" \in EventsNow THEN Io!ProcessRead(s1) ELSE s1
                /\ After2(s0, s2)
  BY <1>3 DEF After1
<1>5. PICK s3 : /\ s3 = IF TcpReadable(s2) THEN s2 ELSE Io!CleanRead(s2)
                /\ After3(s0, s3)
  BY <1>4 DEF After2
<1>6. PICK s4 : /\ s4 = IF "rdhup" \in EventsNow
                          THEN Io!CleanRead(TcpSetReadable(s3, FALSE)) ELSE s3
                /\ After4(s0, s4)
  BY <1>5 DEF After3
<1>7. PICK s6 : /\ s6 \in IF Io!WriteFlush(s4).busy THEN {Io!WriteFlush(s4)}
                          ELSE AfterWrites(Io!WriteFlush(s4))
                /\ After6(s0, s6)
  BY <1>6 DEF After4, After5
<1>8. /\ tcp' = IF s6.status \in {"closed", "peer_shutdown_write"} THEN Close(s6) ELSE s6
      /\ armed' = Rearm(tcp, tcp')
      /\ net' = [net EXCEPT !.incoming = IF "in" \in EventsNow THEN 0 ELSE @,
                            !.space = @ /\ (tcp'.busy => s0.busy)]
  BY <1>7 DEF After6, After7
<1>9. Stages(eof, s0, s1, s2, s3, s4, s6)
  BY <1>1, <1>2, <1>3, <1>4, <1>5, <1>6, <1>7, <1>8 DEF Stages
<1>. QED BY <1>9

\* Stage by stage, the descriptor stays as it is or is closed.
LEMMA EstablishedFd ==
  ASSUME FdOk(tcp), EstablishedEvent
  PROVE  FdOk(tcp')
<1>1. PICK eof, s0, s1, s2, s3, s4, s6 : Stages(eof, s0, s1, s2, s3, s4, s6)
  BY EstablishedStages
<1>. USE <1>1 DEF Stages
<1>2. FdOk(s0)
  BY ConnectSuccessFd
<1>3. FdOk(s1)
  BY <1>2, DirectReadFd
<1>4. FdOk(s2)
  BY <1>3, PathKeepsFd
<1>5. FdOk(s3)
  BY <1>4, PathKeepsFd
<1>6. FdOk(s4)
  <2>1. FdOk(Io!CleanRead(TcpSetReadable(s3, FALSE)))
    BY <1>5, SetStatus, PathKeepsFd
  <2>. QED BY <1>5, <2>1
<1>7. FdOk(s6)
  <2>1. FdOk(Io!WriteFlush(s4))
    BY <1>6, PathKeepsFd
  <2>. QED BY <2>1, AfterWritesFd
<1>. QED BY <1>7, CloseFd

-----------------------------------------------------------------------------
(***************************************************************************)
(* The descriptor of the connection, and of none while an acceptor has yet *)
(* to make it: nothing refers to it then.                                  *)
(***************************************************************************)
FdInv == /\ IsTcp(tcp)
         /\ ~destroyed => FdOk(tcp)
         /\ acceptor # "none" => /\ tcp.closes = 0 /\ ~tcp.managed /\ ~destroyed
                                 /\ instant = 0 /\ reg = [o \in Ops |-> "new"]

LEMMA InitFd == Init => FdInv
<1>. SUFFICES ASSUME Init PROVE FdInv
  OBVIOUS
<1>1. IsTcp(tcp) /\ tcp.closes = 0 /\ tcp.managed = (acceptor = "none")
  BY DEF Init, NewTcp, IsTcp
<1>2. FdOk(tcp)
  BY <1>1 DEF FdOk
<1>. QED BY <1>1, <1>2 DEF Init, FdInv

\* What is left to show for a step of a connection that exists.
LEMMA ConnectionStep ==
  ASSUME FdInv, acceptor' = "none", FdOk(tcp')
  PROVE  FdInv'
BY DEF FdInv, FdOk, IsTcp

LEMMA NextFd == FdInv /\ [Next]_vars => FdInv'
<1>. SUFFICES ASSUME FdInv, [Next]_vars PROVE FdInv'
  OBVIOUS
<1>. USE DEF Exists, Served, HasPointer
<1>1. CASE UNCHANGED vars
  BY <1>1 DEF vars, FdInv, FdOk, IsTcp
<1>2. CASE \/ ReadBlocks \/ PeerConnects \/ HandshakeEnds \/ PeerSends \/ PeerDrains
           \/ PeerShutsDown \/ PeerResets
  BY <1>2 DEF ReadBlocks, PeerConnects, HandshakeEnds, PeerSends, PeerDrains,
       PeerShutsDown, PeerResets, FdInv, FdOk, IsTcp
<1>3. CASE StartAccept \/ AcceptorCloses
  BY <1>3 DEF StartAccept, AcceptorCloses, FdInv, FdOk, IsTcp
<1>4. ASSUME NEW o \in Ops, RegisterChecks(o)
      PROVE  FdInv'
  BY <1>4 DEF RegisterChecks, FdInv, FdOk, IsTcp
<1>5. ASSUME NEW o \in Ops, RegisterStep(o)
      PROVE  FdInv'
  <2>1. acceptor = "none" /\ acceptor' = acceptor /\ destroyed' = destroyed
    BY <1>5 DEF RegisterStep, RegisterPushesRead, RegisterPushesWrite, RegisterNotifies, FdInv
  <2>2. IsTcp(tcp') /\ SameFd(tcp, tcp')
    BY <1>5 DEF RegisterStep, RegisterPushesRead, RegisterPushesWrite, RegisterNotifies,
         FdInv, IsTcp, SameFd
  <2>. QED BY <2>1, <2>2 DEF FdInv, FdOk, IsTcp, SameFd
<1>6. CASE ConnectStarts \/ SockoptFails
  <2>1. acceptor' = "none" /\ FdOk(tcp) /\ tcp.status # "closed"
    BY <1>6 DEF ConnectStarts, SockoptFails, AttemptFailed, FdInv
  <2>2. FdOk(tcp')
    BY <1>6, <2>1 DEF ConnectStarts, SockoptFails, FdOk, IsTcp
  <2>. QED BY <2>1, <2>2, ConnectionStep
<1>7. CASE ConnectAtOnce
  <2>1. acceptor' = "none" /\ FdOk(tcp) /\ tcp.status # "closed"
    BY <1>7 DEF ConnectAtOnce, FdInv
  <2>2. FdOk(tcp')
    BY <1>7, <2>1, ConnectSuccessFd DEF ConnectAtOnce
  <2>. QED BY <2>1, <2>2, ConnectionStep
<1>8. CASE ConnectRefused \/ RefusedEvent
  <2>1. acceptor' = "none" /\ FdOk(tcp) /\ tcp' = ConnectFail(tcp)
    BY <1>8 DEF ConnectRefused, RefusedEvent, FdInv
  <2>2. FdOk(tcp')
    BY <2>1, ConnectFailFd
  <2>. QED BY <2>1, <2>2, ConnectionStep
<1>9. CASE EstablishedEvent
  <2>1. acceptor' = "none" /\ FdOk(tcp)
    BY <1>9 DEF EstablishedEvent, FdInv
  <2>2. FdOk(tcp')
    BY <1>9, <2>1, EstablishedFd
  <2>. QED BY <2>1, <2>2, ConnectionStep
<1>10. CASE UnconnectedEvent
  <2>1. acceptor' = "none" /\ FdOk(tcp)
    BY <1>10 DEF UnconnectedEvent, FdInv
  <2>2. FdOk(Io!WriteFlush(Io!CleanRead(tcp)))
    BY <2>1, PathKeepsFd
  <2>3. FdOk(tcp')
    BY <1>10, <2>2, DirectWriteFd DEF UnconnectedEvent
  <2>. QED BY <2>1, <2>3, ConnectionStep
<1>11. CASE ClosedEvent \/ UserCloses
  <2>1. acceptor' = "none" /\ FdOk(tcp) /\ tcp' = Close(tcp)
    BY <1>11 DEF ClosedEvent, UserCloses, FdInv
  <2>. QED BY <2>1, CloseFd, ConnectionStep
<1>12. CASE InstantWrite
  <2>1. acceptor' = "none" /\ FdOk(tcp)
    BY <1>12 DEF InstantWrite, FdInv
  <2>2. FdOk(Io!WriteFlush(tcp))
    BY <2>1, PathKeepsFd
  <2>3. FdOk(tcp')
    BY <1>12, <2>2, AfterWritesFd DEF InstantWrite
  <2>. QED BY <2>1, <2>3, ConnectionStep
<1>13. CASE Accepted
  <2>1. FdOk(tcp) /\ tcp.closes = 0
    BY <1>13 DEF Accepted, FdInv
  <2>2. FdOk(tcp') /\ acceptor' = "none"
    BY <1>13, <2>1 DEF Accepted, FdOk, IsTcp
  <2>. QED BY <2>2, ConnectionStep
<1>14. CASE AcceptFails
  <2>1. IsTcp(tcp') /\ SameFd(tcp, tcp')
    BY <1>14 DEF AcceptFails, FdInv, SameFd, IsTcp
  <2>. QED BY <1>14, <2>1 DEF AcceptFails, FdInv, FdOk, IsTcp, SameFd
<1>15. CASE AddIo
  <2>1. acceptor' = "none" /\ FdOk(tcp)
    BY <1>15 DEF AddIo, FdInv
  <2>2. CASE tcp.status = "closed"
    BY <1>15, <2>1, <2>2, CloseFd, ConnectionStep DEF AddIo
  <2>3. CASE tcp.status # "closed"
    <3>1. FdOk(tcp')
      BY <1>15, <2>1, <2>3 DEF AddIo, FdOk, IsTcp
    <3>. QED BY <2>1, <3>1, ConnectionStep
  <2>. QED BY <2>2, <2>3
<1>16. CASE Destroy
  <2>1. IsTcp(tcp')
    BY <1>16 DEF Destroy, FdInv, IsTcp
  <2>. QED BY <1>16, <2>1 DEF Destroy, FdInv
<1>. QED
  BY <1>1, <1>2, <1>3, <1>4, <1>5, <1>6, <1>7, <1>8, <1>9, <1>10, <1>11, <1>12, <1>13, <1>14,
     <1>15, <1>16 DEF Next, LoopStep, Connect

\* close() before the destructor releases the fd once, and never one that the event loop still
\* maps to this connection: whatever is registered, accepted, reset and closed in which order.
THEOREM DescriptorReleasedOnce == Spec => []FdReleasedOnce
<1>1. FdInv => FdReleasedOnce
  BY DEF FdInv, FdOk, FdReleasedOnce
<1>. QED BY <1>1, InitFd, NextFd, PTL DEF Spec

-----------------------------------------------------------------------------
(***************************************************************************)
(* The operations and the bytes, whatever is registered, received, sent,   *)
(* closed and reset, in which order.                                       *)
(***************************************************************************)
-----------------------------------------------------------------------------
(***************************************************************************)
(* Lists of operations: how often one occurs, how many bytes they have.    *)
(***************************************************************************)
\* How often o is in a list.
Count(l, o) == Cardinality({k \in DOMAIN l : l[k] = o})

\* Every non-empty set of natural numbers has a least element.
LEMMA LeastNumber ==
  ASSUME NEW T \in SUBSET Nat, T # {}
  PROVE  \E m \in T : \A k \in T : m <= k
<1>. DEFINE R == OpToRel(<, Nat)
<1>1. IsWellFoundedOn(R, Nat)
  BY NatLessThanWellFounded
<1>2. \A y \in Nat, x \in Nat : (<<y, x>> \in R) <=> y < x
  BY DEF OpToRel
<1>. HIDE DEF R
<1>3. PICK m \in T : \A y \in T : ~(<<y, m>> \in R)
  BY <1>1, WFMin
<1>4. \A k \in T : ~(k < m)
  BY <1>2, <1>3
<1>. QED BY <1>4

\* Sets of the same size: one is the other, moved by f, whose inverse is g.
LEMMA Moved ==
  ASSUME NEW S, IsFiniteSet(S), NEW T, NEW f \in [S -> T], NEW g \in [T -> S],
         \A x \in S : g[f[x]] = x, \A y \in T : f[g[y]] = y
  PROVE  IsFiniteSet(T) /\ Cardinality(T) = Cardinality(S)
<1>1. f \in Bijection(S, T)
  BY DEF Bijection, Injection, Surjection, IsInjective
<1>. QED BY <1>1, FS_Bijection DEF ExistsBijection

LEMMA Disjoint ==
  ASSUME NEW S, IsFiniteSet(S), NEW T, IsFiniteSet(T), S \cap T = {}
  PROVE  /\ IsFiniteSet(S \cup T)
         /\ Cardinality(S) \in Nat /\ Cardinality(T) \in Nat
         /\ Cardinality(S \cup T) = Cardinality(S) + Cardinality(T)
<1>1. /\ IsFiniteSet(S \cup T)
      /\ Cardinality(S \cup T) = Cardinality(S) + Cardinality(T) - Cardinality(S \cap T)
  BY FS_Union
<1>2. Cardinality(S) \in Nat /\ Cardinality(T) \in Nat
  BY FS_CardinalityType
<1>3. Cardinality(S \cap T) = 0
  BY FS_EmptySet
<1>. QED BY <1>1, <1>2, <1>3

\* IoOps counts with the operator of the module FiniteSets that it extends itself.
LEMMA SameCardinality == ASSUME NEW S PROVE Io!Cardinality(S) = Cardinality(S)
BY DEF Cardinality, Io!Cardinality

LEMMA CountType ==
  ASSUME NEW S, NEW l \in Seq(S), NEW o
  PROVE  /\ IsFiniteSet({k \in DOMAIN l : l[k] = o})
         /\ Count(l, o) \in Nat
         /\ Count(l, o) = 0 <=> \A k \in 1..Len(l) : l[k] # o
<1>1. DOMAIN l = 1..Len(l) /\ Len(l) \in Nat
  OBVIOUS
<1>2. IsFiniteSet({k \in DOMAIN l : l[k] = o})
  <2>1. IsFiniteSet(1..Len(l))
    BY <1>1, FS_Interval
  <2>2. {k \in DOMAIN l : l[k] = o} \in SUBSET (1..Len(l))
    BY <1>1
  <2>. QED BY <2>1, <2>2, FS_Subset
<1>. DEFINE K == {k \in DOMAIN l : l[k] = o}
<1>3. Count(l, o) = Cardinality(K) /\ (K = {} <=> \A k \in 1..Len(l) : l[k] # o)
  BY <1>1 DEF Count
<1>4. Cardinality(K) \in Nat /\ (Cardinality(K) = 0 <=> K = {})
  <2>. HIDE DEF K
  <2>. QED BY <1>2, FS_CardinalityType, FS_EmptySet DEF K
<1>. QED BY <1>2, <1>3, <1>4

LEMMA CountConcat ==
  ASSUME NEW S, NEW a \in Seq(S), NEW b \in Seq(S), NEW o
  PROVE  Count(a \o b, o) = Count(a, o) + Count(b, o)
<1>. DEFINE A == {k \in DOMAIN a : a[k] = o}
            B == {k \in DOMAIN b : b[k] = o}
            C == {k \in DOMAIN (a \o b) : (a \o b)[k] = o}
            M == {k \in C : k > Len(a)}
<1>1. /\ DOMAIN a = 1..Len(a) /\ DOMAIN b = 1..Len(b) /\ Len(a) \in Nat /\ Len(b) \in Nat
      /\ DOMAIN (a \o b) = 1..(Len(a) + Len(b))
      /\ \A k \in 1..(Len(a) + Len(b)) :
           (a \o b)[k] = IF k <= Len(a) THEN a[k] ELSE b[k - Len(a)]
  BY ConcatProperties
<1>2. IsFiniteSet(A) /\ IsFiniteSet(B)
  BY CountType
<1>3. IsFiniteSet(M) /\ Cardinality(M) = Cardinality(B)
  <2>. DEFINE f == [k \in B |-> k + Len(a)]
              g == [k \in M |-> k - Len(a)]
  <2>1. f \in [B -> M]
    BY <1>1
  <2>2. g \in [M -> B]
    BY <1>1
  <2>3. \A k \in B : g[f[k]] = k
    BY <1>1, <2>1
  <2>4. \A k \in M : f[g[k]] = k
    BY <1>1, <2>2
  <2>5. IsFiniteSet(B)
    BY <1>2
  <2>. HIDE DEF f, g, M, B, A, C
  <2>. QED BY <2>1, <2>2, <2>3, <2>4, <2>5, Moved
<1>4. C = A \cup M /\ A \cap M = {}
  BY <1>1
<1>5. Cardinality(C) = Cardinality(A) + Cardinality(M)
  <2>. HIDE DEF A, B, C, M
  <2>. QED BY <1>2, <1>3, <1>4, Disjoint
<1>. QED BY <1>3, <1>5 DEF Count

LEMMA CountAppend ==
  ASSUME NEW S, NEW l \in Seq(S), NEW x \in S, NEW o
  PROVE  Count(Append(l, x), o) = Count(l, o) + (IF x = o THEN 1 ELSE 0)
<1>1. <<x>> \in Seq(S) /\ DOMAIN <<x>> = {1} /\ <<x>>[1] = x
  OBVIOUS
<1>2. {k \in DOMAIN <<x>> : <<x>>[k] = o} = IF x = o THEN {1} ELSE {}
  BY <1>1
<1>3. Count(<<x>>, o) = IF x = o THEN 1 ELSE 0
  BY <1>2, FS_Singleton, FS_EmptySet DEF Count
<1>4. Append(l, x) = l \o <<x>>
  BY AppendIsConcat
<1>5. Count(l \o <<x>>, o) = Count(l, o) + Count(<<x>>, o)
  BY <1>1, CountConcat
<1>. QED BY <1>3, <1>4, <1>5

LEMMA CountEmpty == ASSUME NEW o PROVE Count(<<>>, o) = 0
<1>1. {k \in DOMAIN <<>> : <<>>[k] = o} = {}
  OBVIOUS
<1>. QED BY <1>1, FS_EmptySet DEF Count

\* A list is what it begins with and what is after that.
LEMMA SplitList ==
  ASSUME NEW S, NEW l \in Seq(S), NEW k \in 0..Len(l)
  PROVE  /\ SubSeq(l, 1, k) \in Seq(S) /\ Len(SubSeq(l, 1, k)) = k
         /\ Io!After(l, k) \in Seq(S)
         /\ l = SubSeq(l, 1, k) \o Io!After(l, k)
<1>1. Len(l) \in Nat
  OBVIOUS
<1>2. SubSeq(l, 1, k) \in Seq(S) /\ Len(SubSeq(l, 1, k)) = k
  BY <1>1, SubSeqProperties, ElementOfSeq
<1>3. Io!After(l, k) \in Seq(S)
  BY <1>1, SubSeqProperties, ElementOfSeq DEF Io!After
<1>4. 1 \in 1..(Len(l) + 1) /\ k \in (1 - 1)..Len(l) /\ Len(l) \in k..Len(l)
  BY <1>1
<1>5. SubSeq(l, 1, k) \o SubSeq(l, k + 1, Len(l)) = SubSeq(l, 1, Len(l))
  BY <1>4, ConcatAdjacentSubSeq
<1>. QED BY <1>2, <1>3, <1>5, SubSeqFull DEF Io!After

\* The bytes of a list, one by one.
LEMMA BytesAre ==
  ASSUME NEW l \in Seq(Ops)
  PROVE  /\ \A p : p \in Io!Bytes(l)
                  <=> \E k \in 1..Len(l) : \E b \in 1..OpSize[l[k]] : p = <<k, b>>
         /\ IsFiniteSet(Io!Bytes(l))
         /\ Io!Total(l) \in Nat
<1>1. DOMAIN l = 1..Len(l) /\ Len(l) \in Nat /\ \A k \in 1..Len(l) : l[k] \in Ops
  BY ElementOfSeq
<1>. DEFINE Of == [k \in 1..Len(l) |-> {k} \X (1..OpSize[l[k]])]
            Parts == {{k} \X (1..OpSize[l[k]]) : k \in DOMAIN l}
<1>2. \A p : p \in Io!Bytes(l) <=> \E k \in 1..Len(l) : \E b \in 1..OpSize[l[k]] : p = <<k, b>>
  BY <1>1 DEF Io!Bytes
<1>3. IsFiniteSet(Parts)
  <2>1. Of \in Surjection(1..Len(l), Parts)
    BY <1>1 DEF Surjection
  <2>. QED BY <1>1, <2>1, FS_Interval, FS_Surjection
<1>4. ASSUME NEW T \in Parts PROVE IsFiniteSet(T)
  <2>1. PICK k \in 1..Len(l) : T = {k} \X (1..OpSize[l[k]])
    BY <1>1, <1>4
  <2>2. OpSize[l[k]] \in Nat
    BY <1>1, TcpAssumption
  <2>3. IsFiniteSet({k})
    BY FS_Singleton
  <2>4. \A n \in Nat : IsFiniteSet(1..n)
    BY FS_Interval
  <2>. QED BY <2>1, <2>2, <2>3, <2>4, FS_Product
<1>5. IsFiniteSet(Io!Bytes(l))
  <2>. HIDE DEF Parts
  <2>1. IsFiniteSet(UNION Parts)
    BY <1>3, <1>4, FS_UNION
  <2>. QED BY <2>1 DEF Io!Bytes, Parts
<1>. QED BY <1>2, <1>5, FS_CardinalityType, SameCardinality DEF Io!Total

LEMMA TotalConcat ==
  ASSUME NEW a \in Seq(Ops), NEW b \in Seq(Ops)
  PROVE  Io!Total(a \o b) = Io!Total(a) + Io!Total(b)
<1>. DEFINE A == Io!Bytes(a)
            B == Io!Bytes(b)
            C == Io!Bytes(a \o b)
            M == {p \in C : p[1] > Len(a)}
<1>1. /\ Len(a) \in Nat /\ Len(b) \in Nat /\ a \o b \in Seq(Ops)
      /\ Len(a \o b) = Len(a) + Len(b)
      /\ \A k \in 1..(Len(a) + Len(b)) :
           (a \o b)[k] = IF k <= Len(a) THEN a[k] ELSE b[k - Len(a)]
  BY ConcatProperties
<1>2. IsFiniteSet(A) /\ IsFiniteSet(B) /\ IsFiniteSet(C)
  BY <1>1, BytesAre
<1>3. \A p : p \in A <=> \E k \in 1..Len(a) : \E i \in 1..OpSize[a[k]] : p = <<k, i>>
  BY BytesAre
<1>4. \A p : p \in B <=> \E k \in 1..Len(b) : \E i \in 1..OpSize[b[k]] : p = <<k, i>>
  BY BytesAre
<1>5. \A p : p \in C
        <=> \E k \in 1..(Len(a) + Len(b)) : \E i \in 1..OpSize[(a \o b)[k]] : p = <<k, i>>
  <2>1. \A p : p \in C <=> \E k \in 1..Len(a \o b) : \E i \in 1..OpSize[(a \o b)[k]] : p = <<k, i>>
    BY <1>1, BytesAre
  <2>. QED BY <1>1, <2>1
<1>6. \A p : p \in M <=> \E k \in 1..Len(b) : \E i \in 1..OpSize[b[k]] : p = <<k + Len(a), i>>
  <2>. HIDE DEF C
  <2>1. ASSUME NEW p \in M
        PROVE  \E k \in 1..Len(b) : \E i \in 1..OpSize[b[k]] : p = <<k + Len(a), i>>
    <3>1. PICK k, i : k \in 1..(Len(a) + Len(b)) /\ i \in 1..OpSize[(a \o b)[k]] /\ p = <<k, i>>
      BY <1>5, <2>1
    <3>2. k > Len(a) /\ k - Len(a) \in 1..Len(b) /\ k = (k - Len(a)) + Len(a)
      BY <1>1, <2>1, <3>1
    <3>3. i \in 1..OpSize[b[k - Len(a)]]
      BY <1>1, <3>1, <3>2
    <3>. QED BY <3>1, <3>2, <3>3
  <2>2. ASSUME NEW k \in 1..Len(b), NEW i \in 1..OpSize[b[k]]
        PROVE  <<k + Len(a), i>> \in M
    <3>1. k + Len(a) \in 1..(Len(a) + Len(b)) /\ ~(k + Len(a) <= Len(a))
          /\ k + Len(a) - Len(a) = k
      BY <1>1
    <3>2. i \in 1..OpSize[(a \o b)[k + Len(a)]]
      BY <1>1, <3>1
    <3>3. <<k + Len(a), i>> \in C
      BY <1>5, <3>1, <3>2
    <3>. QED BY <1>1, <3>1, <3>3
  <2>. HIDE DEF M
  <2>. QED BY <2>1, <2>2
<1>7. Cardinality(M) = Cardinality(B) /\ IsFiniteSet(M)
  <2>. DEFINE f == [p \in B |-> <<p[1] + Len(a), p[2]>>]
              g == [p \in M |-> <<p[1] - Len(a), p[2]>>]
  <2>. HIDE DEF B, M
  <2>1. f \in [B -> M]
    BY <1>4, <1>6
  <2>2. g \in [M -> B]
    <3>. SUFFICES ASSUME NEW p \in M PROVE <<p[1] - Len(a), p[2]>> \in B
      OBVIOUS
    <3>1. PICK k, i : k \in 1..Len(b) /\ i \in 1..OpSize[b[k]] /\ p = <<k + Len(a), i>>
      BY <1>6
    <3>2. <<p[1] - Len(a), p[2]>> = <<k, i>>
      BY <1>1, <3>1
    <3>. QED BY <1>4, <3>1, <3>2
  <2>3. ASSUME NEW p \in B PROVE g[f[p]] = p
    <3>1. PICK k, i : k \in 1..Len(b) /\ i \in 1..OpSize[b[k]] /\ p = <<k, i>>
      BY <1>4
    <3>2. f[p] = <<k + Len(a), i>> /\ f[p] \in M
      BY <2>1, <3>1
    <3>. QED BY <1>1, <3>1, <3>2
  <2>4. ASSUME NEW p \in M PROVE f[g[p]] = p
    <3>1. PICK k, i : k \in 1..Len(b) /\ i \in 1..OpSize[b[k]] /\ p = <<k + Len(a), i>>
      BY <1>6
    <3>2. g[p] = <<k, i>> /\ g[p] \in B
      BY <1>1, <2>2, <3>1
    <3>. QED BY <3>1, <3>2
  <2>. HIDE DEF f, g
  <2>. QED BY <1>2, <2>1, <2>2, <2>3, <2>4, Moved
<1>8. C = A \cup M /\ A \cap M = {}
  <2>. HIDE DEF A, B, C
  <2>1. ASSUME NEW p \in A PROVE p \in C /\ p \notin M
    <3>1. PICK k, i : k \in 1..Len(a) /\ i \in 1..OpSize[a[k]] /\ p = <<k, i>>
      BY <1>3
    <3>2. k \in 1..(Len(a) + Len(b)) /\ (a \o b)[k] = a[k]
      BY <1>1, <3>1
    <3>. QED BY <1>1, <1>5, <3>1, <3>2
  <2>2. ASSUME NEW p \in C, p \notin M PROVE p \in A
    <3>1. PICK k, i : k \in 1..(Len(a) + Len(b)) /\ i \in 1..OpSize[(a \o b)[k]] /\ p = <<k, i>>
      BY <1>5
    <3>2. k <= Len(a) /\ k \in 1..Len(a)
      BY <1>1, <2>2, <3>1
    <3>. QED BY <1>1, <1>3, <3>1, <3>2
  <2>. QED BY <2>1, <2>2
<1>. QED
  <2>. HIDE DEF A, B, C, M
  <2>1. Cardinality(C) = Cardinality(A) + Cardinality(M)
    BY <1>2, <1>7, <1>8, Disjoint
  <2>2. Io!Total(a \o b) = Cardinality(C) /\ Io!Total(a) = Cardinality(A)
        /\ Io!Total(b) = Cardinality(B)
    BY SameCardinality DEF A, B, C, Io!Total
  <2>. QED BY <1>7, <2>1, <2>2

LEMMA TotalEmpty == Io!Total(<<>>) = 0
<1>1. Io!Bytes(<<>>) = {}
  BY DEF Io!Bytes
<1>. QED BY <1>1, FS_EmptySet, SameCardinality DEF Io!Total

\* Covered is what it says: the choice it makes is never of nothing.
LEMMA CoveredIs ==
  ASSUME NEW l \in Seq(Ops), NEW bytes \in Nat
  PROVE  /\ Io!Covered(l, bytes) \in 0..Len(l)
         /\ Io!Total(SubSeq(l, 1, Io!Covered(l, bytes))) <= bytes
<1>. DEFINE Exceeds(m) == m < Len(l) => Io!Total(SubSeq(l, 1, m + 1)) > bytes
            T == {m \in 0..Len(l) : Exceeds(m)}
<1>1. Len(l) \in Nat
  OBVIOUS
<1>2. T \in SUBSET Nat /\ Len(l) \in T
  BY <1>1
<1>3. PICK m \in T : \A k \in T : m <= k
  BY <1>2, LeastNumber
<1>4. Io!Total(SubSeq(l, 1, m)) <= bytes
  <2>1. CASE m = 0
    <3>1. SubSeq(l, 1, m) = <<>>
      BY <2>1
    <3>2. Io!Total(SubSeq(l, 1, m)) = 0
      BY <3>1, TotalEmpty
    <3>. QED BY <3>2
  <2>2. CASE m # 0
    <3>1. m - 1 \in 0..Len(l) /\ m - 1 < Len(l) /\ (m - 1) + 1 = m /\ ~(m <= m - 1)
      BY <1>1, <1>3, <2>2
    <3>2. m - 1 \notin T
      BY <1>3, <3>1
    <3>3. ~(Io!Total(SubSeq(l, 1, m)) > bytes)
      BY <3>1, <3>2
    <3>4. Io!Total(SubSeq(l, 1, m)) \in Nat
      BY <1>1, <1>3, SplitList, BytesAre
    <3>. QED BY <3>3, <3>4
  <2>. QED BY <2>1, <2>2
<1>. QED BY <1>3, <1>4 DEF Io!Covered

-----------------------------------------------------------------------------
(***************************************************************************)
(* An object: its fields, where its operations are, and its bytes.         *)
(***************************************************************************)
Results == {"Done", "IOError"}

Fields(s) ==
  /\ IsTcp(s)
  /\ s.status \in TcpStatus /\ s.managed \in BOOLEAN /\ s.busy \in BOOLEAN
  /\ s.told \in {<<>>, <<"ok">>, <<"fail">>}
  /\ s.reads \in Seq(Reads)
  /\ s.write_list \in Seq(Writes) /\ s.wait_write_list \in Seq(Writes)
  /\ s.rbuf \in Nat /\ s.unsent \in Nat /\ s.have_write \in Nat
  /\ s.answers \in [Ops -> Seq(Results)]

\* The places and answers an operation has: never more than one.
Held(s, o) == Count(s.reads, o) + Count(s.write_list, o) + Count(s.wait_write_list, o)
              + Len(s.answers[o])

Sound(s) == /\ Fields(s)
            /\ \A o \in Ops : Held(s, o) <= 1
            /\ s.unsent + s.have_write = Io!Total(s.wait_write_list)

\* Bytes that reads have got or can get from the buffer.
Got(s) == Taken(s) + s.rbuf

\* t comes from s with n more bytes: no operation is lost or held twice, and no byte is lost.
Keeps(s, t, n) == /\ Sound(t)
                  /\ \A o \in Ops : Held(t, o) = Held(s, o)
                  /\ Got(t) = Got(s) + n

\* Nothing on the way puts the object back into the loop, either.
Follows(s, t, n) == Keeps(s, t, n) /\ (t.managed => s.managed)

\* A list of reads or of writes is one of operations.
LEMMA ListTypes ==
  /\ \A l \in Seq(Reads) : l \in Seq(Ops)
  /\ \A l \in Seq(Writes) : l \in Seq(Ops)
<1>1. Reads \subseteq Ops /\ Writes \subseteq Ops
  BY DEF Ops
<1>. QED BY <1>1, SeqMonotonic

LEMMA HeldType ==
  ASSUME NEW s, Fields(s), NEW o \in Ops
  PROVE  /\ Count(s.reads, o) \in Nat /\ Count(s.write_list, o) \in Nat
         /\ Count(s.wait_write_list, o) \in Nat /\ Len(s.answers[o]) \in Nat
         /\ Held(s, o) \in Nat
<1>1. s.reads \in Seq(Reads) /\ s.write_list \in Seq(Writes) /\ s.wait_write_list \in Seq(Writes)
      /\ s.answers[o] \in Seq(Results)
  BY DEF Fields
<1>2. Count(s.reads, o) \in Nat /\ Count(s.write_list, o) \in Nat
      /\ Count(s.wait_write_list, o) \in Nat
  BY <1>1, CountType
<1>3. Len(s.answers[o]) \in Nat
  BY <1>1
<1>. QED BY <1>2, <1>3 DEF Held

\* An operation that occurs once at most has one place.
LEMMA CountOnce ==
  ASSUME NEW S, NEW l \in Seq(S), NEW i \in 1..Len(l), NEW j \in 1..Len(l),
         l[i] = l[j], Count(l, l[i]) <= 1
  PROVE  i = j
<1>. DEFINE A == {k \in DOMAIN l : l[k] = l[i]}
<1>1. i \in A /\ j \in A
  OBVIOUS
<1>2. IsFiniteSet(A) /\ Cardinality(A) \in Nat /\ Cardinality(A) <= 1
  BY CountType DEF Count
<1>. HIDE DEF A
<1>3. Cardinality(A) # 0
  BY <1>1, <1>2, FS_EmptySet
<1>4. Cardinality(A) = 1
  BY <1>2, <1>3
<1>5. PICK x : A = {x}
  BY <1>2, <1>4, FS_Singleton
<1>. QED BY <1>1, <1>5

-----------------------------------------------------------------------------
\* The bytes taken by reads.
LEMMA TakenType == ASSUME NEW s PROVE IsFiniteSet(TakenBytes(s)) /\ Taken(s) \in Nat
<1>. DEFINE A == {o \in Reads : s.answers[o] # <<>>}
            Of == [o \in A |-> {o} \X (1..OpSize[o])]
            Parts == {{o} \X (1..OpSize[o]) : o \in A}
<1>1. IsFiniteSet(A)
  <2>1. A \in SUBSET Ops
    BY DEF Ops
  <2>. QED BY <2>1, TcpAssumption, FS_Subset
<1>2. IsFiniteSet(Parts)
  <2>1. Of \in Surjection(A, Parts)
    BY DEF Surjection
  <2>. HIDE DEF A, Of, Parts
  <2>. QED BY <1>1, <2>1, FS_Surjection
<1>3. ASSUME NEW T \in Parts PROVE IsFiniteSet(T)
  <2>1. PICK o \in A : T = {o} \X (1..OpSize[o])
    BY <1>3
  <2>2. OpSize[o] \in Nat
    BY <2>1, TcpAssumption DEF Ops
  <2>3. IsFiniteSet({o})
    BY FS_Singleton
  <2>4. \A n \in Nat : IsFiniteSet(1..n)
    BY FS_Interval
  <2>. QED BY <2>1, <2>2, <2>3, <2>4, FS_Product
<1>4. IsFiniteSet(TakenBytes(s))
  <2>. HIDE DEF Parts
  <2>1. IsFiniteSet(UNION Parts)
    BY <1>2, <1>3, FS_UNION
  <2>. QED BY <2>1 DEF TakenBytes, Parts
<1>. QED BY <1>4, FS_CardinalityType DEF Taken

\* Who has an answer decides what is taken.
LEMMA TakenSame ==
  ASSUME NEW s, NEW t, \A o \in Reads : t.answers[o] # <<>> <=> s.answers[o] # <<>>
  PROVE  Taken(t) = Taken(s)
<1>1. {o \in Reads : t.answers[o] # <<>>} = {o \in Reads : s.answers[o] # <<>>}
  OBVIOUS
<1>. QED BY <1>1 DEF Taken, TakenBytes

LEMMA TakenGrows ==
  ASSUME NEW s, NEW t, NEW p \in Seq(Reads),
         \A o \in Reads : Count(p, o) <= 1,
         \A o \in Reads : Count(p, o) > 0 => s.answers[o] = <<>>,
         \A o \in Reads : t.answers[o] # <<>> <=> s.answers[o] # <<>> \/ Count(p, o) > 0
  PROVE  Taken(t) = Taken(s) + Io!Total(p)
<1>. DEFINE A == TakenBytes(s)
            B == Io!Bytes(p)
            C == TakenBytes(t)
            M == C \ A
<1>1. p \in Seq(Ops) /\ Len(p) \in Nat /\ \A k \in 1..Len(p) : p[k] \in Reads
  BY ListTypes, ElementOfSeq
<1>2. ASSUME NEW o \in Reads
      PROVE  /\ Count(p, o) \in Nat
             /\ Count(p, o) = 0 <=> \A k \in 1..Len(p) : p[k] # o
  BY CountType
<1>3. \A z : z \in B <=> \E k \in 1..Len(p) : \E b \in 1..OpSize[p[k]] : z = <<k, b>>
  BY <1>1, BytesAre
<1>4. \A z : z \in A
        <=> \E o \in Reads : s.answers[o] # <<>> /\ \E b \in 1..OpSize[o] : z = <<o, b>>
  BY DEF TakenBytes
<1>5. \A z : z \in C
        <=> \E o \in Reads : t.answers[o] # <<>> /\ \E b \in 1..OpSize[o] : z = <<o, b>>
  BY DEF TakenBytes
<1>6. A \subseteq C
  <2>. HIDE DEF A, C
  <2>. QED BY <1>4, <1>5
<1>7. \A z : z \in M <=> \E k \in 1..Len(p) : \E b \in 1..OpSize[p[k]] : z = <<p[k], b>>
  <2>1. ASSUME NEW z \in M
        PROVE  \E k \in 1..Len(p) : \E b \in 1..OpSize[p[k]] : z = <<p[k], b>>
    <3>1. PICK o, b : o \in Reads /\ t.answers[o] # <<>> /\ b \in 1..OpSize[o] /\ z = <<o, b>>
      BY <1>5, <2>1
    <3>2. s.answers[o] = <<>>
      BY <1>4, <2>1, <3>1
    <3>3. PICK k \in 1..Len(p) : p[k] = o
      BY <1>2, <3>1, <3>2
    <3>. QED BY <3>1, <3>3
  <2>2. ASSUME NEW k \in 1..Len(p), NEW b \in 1..OpSize[p[k]]
        PROVE  <<p[k], b>> \in M
    <3>1. p[k] \in Reads /\ Count(p, p[k]) > 0
      BY <1>1, <1>2
    <3>2. s.answers[p[k]] = <<>> /\ t.answers[p[k]] # <<>>
      BY <3>1
    <3>3. <<p[k], b>> \in C
      BY <1>5, <3>1, <3>2
    <3>4. <<p[k], b>> \notin A
      BY <1>4, <3>2
    <3>. QED BY <3>3, <3>4
  <2>. HIDE DEF M
  <2>. QED BY <2>1, <2>2
<1>8. IsFiniteSet(A) /\ IsFiniteSet(B) /\ IsFiniteSet(M)
  BY <1>1, BytesAre, TakenType, FS_Difference
<1>9. Cardinality(M) = Cardinality(B)
  <2>. DEFINE f == [z \in B |-> <<p[z[1]], z[2]>>]
  <2>. HIDE DEF B, M
  <2>1. f \in [B -> M]
    <3>. SUFFICES ASSUME NEW z \in B PROVE <<p[z[1]], z[2]>> \in M
      OBVIOUS
    <3>1. PICK k, b : k \in 1..Len(p) /\ b \in 1..OpSize[p[k]] /\ z = <<k, b>>
      BY <1>3
    <3>2. <<p[z[1]], z[2]>> = <<p[k], b>>
      BY <3>1
    <3>. QED BY <1>7, <3>1, <3>2
  <2>2. ASSUME NEW z \in M PROVE \E y \in B : f[y] = z
    <3>1. PICK k, b : k \in 1..Len(p) /\ b \in 1..OpSize[p[k]] /\ z = <<p[k], b>>
      BY <1>7
    <3>2. <<k, b>> \in B
      BY <1>3, <3>1
    <3>. QED BY <3>1, <3>2
  <2>3. ASSUME NEW y \in B, NEW z \in B, f[y] = f[z] PROVE y = z
    <3>1. PICK k, b : k \in 1..Len(p) /\ b \in 1..OpSize[p[k]] /\ y = <<k, b>>
      BY <1>3
    <3>2. PICK j, c : j \in 1..Len(p) /\ c \in 1..OpSize[p[j]] /\ z = <<j, c>>
      BY <1>3
    <3>3. f[y] = <<p[k], b>> /\ f[z] = <<p[j], c>>
      BY <3>1, <3>2
    <3>4. p[k] = p[j] /\ b = c
      BY <2>3, <3>3
    <3>5. k = j
      BY <1>1, <3>1, <3>2, <3>4, CountOnce
    <3>. QED BY <3>1, <3>2, <3>4, <3>5
  <2>4. f \in Bijection(B, M)
    <3>. HIDE DEF f
    <3>. QED BY <2>1, <2>2, <2>3 DEF Bijection, Injection, Surjection, IsInjective
  <2>. QED BY <1>8, <2>4, FS_Bijection DEF ExistsBijection
<1>10. Cardinality(C) = Cardinality(A) + Cardinality(M)
  <2>. HIDE DEF A, C
  <2>1. C = A \cup M /\ A \cap M = {}
    BY <1>6
  <2>. HIDE DEF M
  <2>. QED BY <1>8, <2>1, Disjoint
<1>11. Io!Total(p) = Cardinality(B)
  BY SameCardinality DEF Io!Total
<1>. QED BY <1>9, <1>10, <1>11 DEF Taken

-----------------------------------------------------------------------------
(***************************************************************************)
(* The operators of the object, one by one.                                *)
(***************************************************************************)
\* The bytes are numbers.
LEMMA GotType == ASSUME NEW s, Fields(s) PROVE Got(s) \in Nat /\ Taken(s) \in Nat
<1>1. Taken(s) \in Nat /\ s.rbuf \in Nat
  BY TakenType DEF Fields
<1>. QED BY <1>1 DEF Got

\* Following is transitive, and what does not touch operations and bytes follows.
LEMMA FollowsOn ==
  ASSUME NEW s, NEW t, NEW u, NEW n \in Nat, NEW m \in Nat, Sound(s),
         Follows(s, t, n), Follows(t, u, m)
  PROVE  Follows(s, u, n + m)
<1>1. Got(s) \in Nat /\ Got(t) \in Nat /\ Got(u) \in Nat
  BY GotType DEF Follows, Keeps, Sound
<1>2. Sound(u) /\ (u.managed => s.managed) /\ \A o \in Ops : Held(u, o) = Held(s, o)
  BY DEF Follows, Keeps
<1>3. Got(t) = Got(s) + n /\ Got(u) = Got(t) + m
  BY DEF Follows, Keeps
<1>4. Got(u) = Got(s) + (n + m)
  BY <1>1, <1>3
<1>. QED BY <1>2, <1>4 DEF Follows, Keeps

LEMMA Unmoved ==
  ASSUME NEW s, NEW t, Sound(s), Fields(t),
         t.reads = s.reads, t.write_list = s.write_list, t.wait_write_list = s.wait_write_list,
         t.rbuf = s.rbuf, t.unsent + t.have_write = s.unsent + s.have_write,
         t.answers = s.answers
  PROVE  Keeps(s, t, 0)
<1>1. \A o \in Ops : Held(t, o) = Held(s, o)
  BY DEF Held
<1>2. Taken(t) = Taken(s) /\ Taken(s) \in Nat
  BY TakenSame, TakenType
<1>3. s.rbuf \in Nat
  BY DEF Sound, Fields
<1>4. Got(t) = Got(s) + 0
  BY <1>2, <1>3 DEF Got
<1>. QED BY <1>1, <1>4 DEF Keeps, Sound

\* notify() of a list of operations: an answer more for who is in it.
LEMMA NotifyIs ==
  ASSUME NEW s, Fields(s), NEW l \in Seq(Ops), NEW r \in Results
  PROVE  LET t == Io!Notify(s, l, r) IN
         /\ Fields(t)
         /\ t.reads = s.reads /\ t.write_list = s.write_list
         /\ t.wait_write_list = s.wait_write_list /\ t.rbuf = s.rbuf /\ t.unsent = s.unsent
         /\ t.have_write = s.have_write /\ t.managed = s.managed /\ t.busy = s.busy
         /\ t.status = s.status
         /\ \A o \in Ops : t.answers[o] = IF Count(l, o) > 0 THEN Append(s.answers[o], r)
                                                          ELSE s.answers[o]
<1>. DEFINE t == Io!Notify(s, l, r)
            a == [o \in Ops |-> IF \E k \in 1..Len(l) : l[k] = o THEN Append(s.answers[o], r)
                                                               ELSE s.answers[o]]
<1>1. DOMAIN l = 1..Len(l) /\ DOMAIN s.answers = Ops
  BY DEF Fields
<1>2. t = [s EXCEPT !.answers = a]
  BY <1>1 DEF Io!Notify
<1>3. a \in [Ops -> Seq(Results)]
  BY DEF Fields
<1>4. ASSUME NEW o \in Ops
      PROVE  Count(l, o) > 0 <=> \E k \in 1..Len(l) : l[k] = o
  <2>1. Count(l, o) \in Nat /\ (Count(l, o) = 0 <=> \A k \in 1..Len(l) : l[k] # o)
    BY CountType
  <2>. QED BY <2>1
<1>5. \A o \in Ops : a[o] = IF Count(l, o) > 0 THEN Append(s.answers[o], r) ELSE s.answers[o]
  BY <1>4
<1>. HIDE DEF t, a
<1>6. t.answers = a
  BY <1>2 DEF Fields, IsTcp
<1>7. /\ IsTcp(t) /\ t.reads = s.reads /\ t.write_list = s.write_list
      /\ t.wait_write_list = s.wait_write_list /\ t.rbuf = s.rbuf /\ t.unsent = s.unsent
      /\ t.have_write = s.have_write /\ t.managed = s.managed /\ t.busy = s.busy
      /\ t.status = s.status /\ t.told = s.told
  BY <1>2 DEF Fields, IsTcp
<1>8. Fields(t)
  BY <1>3, <1>6, <1>7 DEF Fields
<1>. QED BY <1>5, <1>6, <1>7, <1>8 DEF t

LEMMA NotifyAnswers ==
  ASSUME NEW s, Fields(s), NEW l \in Seq(Ops), NEW r \in Results, NEW o \in Ops
  PROVE  Io!Notify(s, l, r).answers[o] = IF Count(l, o) > 0 THEN Append(s.answers[o], r)
                                                        ELSE s.answers[o]
<1>1. \A p \in Ops : Io!Notify(s, l, r).answers[p] = IF Count(l, p) > 0
                                                    THEN Append(s.answers[p], r) ELSE s.answers[p]
  BY NotifyIs
<1>. QED BY <1>1

\* The answers given to a list in which nobody is twice.
LEMMA AnswersGrow ==
  ASSUME NEW s, Fields(s), NEW l \in Seq(Ops), NEW r \in Results, NEW o \in Ops, Count(l, o) <= 1
  PROVE  Len(Io!Notify(s, l, r).answers[o]) = Len(s.answers[o]) + Count(l, o)
<1>1. Count(l, o) \in Nat /\ s.answers[o] \in Seq(Results)
  BY CountType DEF Fields
<1>2. CASE Count(l, o) = 1
  <2>1. Count(l, o) > 0
    BY <1>2
  <2>2. Io!Notify(s, l, r).answers[o] = Append(s.answers[o], r)
    BY <2>1, NotifyAnswers
  <2>. QED BY <1>1, <1>2, <2>2
<1>3. CASE Count(l, o) = 0
  <2>1. Io!Notify(s, l, r).answers[o] = s.answers[o]
    BY <1>3, NotifyAnswers
  <2>. QED BY <1>1, <1>3, <2>1
<1>. QED BY <1>1, <1>2, <1>3

\* An answered operation is one with a non-empty list of answers.
LEMMA AnsweredIs ==
  ASSUME NEW s, Fields(s), NEW l \in Seq(Ops), NEW r \in Results, NEW o \in Ops
  PROVE  Io!Notify(s, l, r).answers[o] # <<>> <=> s.answers[o] # <<>> \/ Count(l, o) > 0
<1>1. Append(s.answers[o], r) # <<>>
  <2>1. s.answers[o] \in Seq(Results)
    BY DEF Fields
  <2>. QED BY <2>1, AppendProperties
<1>. QED BY <1>1, NotifyAnswers

\* The first k reads are done, and their bytes taken out of read_buffer.
LEMMA CompleteReadsFollows ==
  ASSUME NEW s, Sound(s), NEW k \in 0..Len(s.reads), Io!Total(SubSeq(s.reads, 1, k)) <= s.rbuf
  PROVE  Follows(s, Io!CompleteReads(s, k), 0)
<1>. DEFINE p == SubSeq(s.reads, 1, k)
            q == Io!After(s.reads, k)
            u == [s EXCEPT !.reads = q, !.rbuf = @ - Io!Total(p)]
            t == Io!Notify(u, p, "Done")
<1>1. Fields(s) /\ s.reads \in Seq(Reads) /\ s.rbuf \in Nat
  BY DEF Sound, Fields
<1>2. p \in Seq(Reads) /\ q \in Seq(Reads) /\ s.reads = p \o q
  BY <1>1, SplitList
<1>3. p \in Seq(Ops) /\ Io!Total(p) \in Nat /\ s.rbuf - Io!Total(p) \in Nat
  <2>1. p \in Seq(Ops)
    BY <1>2, ListTypes
  <2>2. Io!Total(p) \in Nat
    BY <2>1, BytesAre
  <2>. QED BY <1>1, <2>1, <2>2
<1>. HIDE DEF p, q
<1>4. /\ Fields(u) /\ u.reads = q /\ u.write_list = s.write_list
      /\ u.wait_write_list = s.wait_write_list /\ u.rbuf = s.rbuf - Io!Total(p)
      /\ u.unsent = s.unsent /\ u.have_write = s.have_write /\ u.managed = s.managed
      /\ u.answers = s.answers
  BY <1>1, <1>2, <1>3 DEF Fields, IsTcp
<1>. HIDE DEF u
<1>5. "Done" \in Results
  BY DEF Results
<1>6. /\ Fields(t) /\ t.reads = q /\ t.write_list = s.write_list
      /\ t.wait_write_list = s.wait_write_list /\ t.rbuf = s.rbuf - Io!Total(p)
      /\ t.unsent = s.unsent /\ t.have_write = s.have_write /\ t.managed = s.managed
  BY <1>3, <1>4, <1>5, NotifyIs
<1>7. ASSUME NEW o \in Ops
      PROVE  /\ Count(p, o) \in Nat /\ Count(q, o) \in Nat
             /\ Count(s.reads, o) = Count(p, o) + Count(q, o)
             /\ Count(p, o) + Len(s.answers[o]) <= 1 /\ Len(s.answers[o]) \in Nat
  <2>1. Count(p, o) \in Nat /\ Count(q, o) \in Nat
        /\ Count(s.reads, o) = Count(p, o) + Count(q, o)
    <3>1. Count(p, o) \in Nat /\ Count(q, o) \in Nat
      BY <1>2, CountType
    <3>2. Count(p \o q, o) = Count(p, o) + Count(q, o)
      BY <1>2, CountConcat
    <3>. QED BY <1>2, <3>1, <3>2
  <2>2. /\ Count(s.write_list, o) \in Nat /\ Count(s.wait_write_list, o) \in Nat
        /\ Len(s.answers[o]) \in Nat
    BY <1>1, HeldType
  <2>3. Count(s.reads, o) + Count(s.write_list, o) + Count(s.wait_write_list, o)
        + Len(s.answers[o]) <= 1
    BY DEF Sound, Held
  <2>. QED BY <2>1, <2>2, <2>3
<1>8. ASSUME NEW o \in Ops PROVE Held(t, o) = Held(s, o)
  <2>1. Len(t.answers[o]) = Len(s.answers[o]) + Count(p, o)
    BY <1>3, <1>4, <1>5, <1>7, AnswersGrow
  <2>2. /\ Count(s.write_list, o) \in Nat /\ Count(s.wait_write_list, o) \in Nat
        /\ Len(s.answers[o]) \in Nat
    BY <1>1, HeldType
  <2>. QED BY <1>6, <1>7, <2>1, <2>2 DEF Held
<1>9. Taken(t) = Taken(s) + Io!Total(p)
  <2>1. ASSUME NEW o \in Reads
        PROVE  /\ Count(p, o) <= 1
               /\ Count(p, o) > 0 => s.answers[o] = <<>>
               /\ t.answers[o] # <<>> <=> s.answers[o] # <<>> \/ Count(p, o) > 0
    <3>1. o \in Ops
      BY DEF Ops
    <3>2. s.answers[o] \in Seq(Results)
      BY <1>1, <3>1 DEF Fields
    <3>3. Count(p, o) <= 1 /\ (Count(p, o) > 0 => s.answers[o] = <<>>)
      BY <1>7, <3>1, <3>2, EmptySeq
    <3>. QED BY <1>3, <1>4, <1>5, <3>1, <3>3, AnsweredIs
  <2>. HIDE DEF t
  <2>. QED BY <1>2, <2>1, TakenGrows
<1>10. Got(t) = Got(s) + 0
  BY <1>1, <1>3, <1>6, <1>9, TakenType DEF Got
<1>11. Sound(t)
  BY <1>6, <1>8 DEF Sound
<1>12. Io!CompleteReads(s, k) = t
  BY DEF Io!CompleteReads, t, u, p, q
<1>. QED BY <1>6, <1>8, <1>10, <1>11, <1>12 DEF Follows, Keeps

LEMMA ProcessReadFollows ==
  ASSUME NEW s, Sound(s)
  PROVE  Follows(s, Io!ProcessRead(s), 0) /\ Follows(s, Io!CleanRead(s), 0)
<1>1. s.reads \in Seq(Ops) /\ s.rbuf \in Nat
  BY ListTypes DEF Sound, Fields
<1>2. Io!Covered(s.reads, s.rbuf) \in 0..Len(s.reads)
      /\ Io!Total(SubSeq(s.reads, 1, Io!Covered(s.reads, s.rbuf))) <= s.rbuf
  BY <1>1, CoveredIs
<1>. QED BY <1>2, CompleteReadsFollows DEF Io!ProcessRead, Io!CleanRead

\* Registered writes go to the buffer, all of them.
LEMMA WriteFlushFollows ==
  ASSUME NEW s, Sound(s)
  PROVE  Follows(s, Io!WriteFlush(s), 0)
<1>. DEFINE t == Io!WriteFlush(s)
            w == s.wait_write_list \o s.write_list
<1>1. Fields(s) /\ s.write_list \in Seq(Writes) /\ s.wait_write_list \in Seq(Writes)
      /\ s.unsent \in Nat /\ s.have_write \in Nat
  BY DEF Sound, Fields
<1>2. w \in Seq(Writes)
  BY <1>1, ConcatProperties
<1>3. /\ Io!Total(s.write_list) \in Nat /\ Io!Total(s.wait_write_list) \in Nat
      /\ Io!Total(w) = Io!Total(s.wait_write_list) + Io!Total(s.write_list)
  <2>1. s.write_list \in Seq(Ops) /\ s.wait_write_list \in Seq(Ops)
    BY <1>1, ListTypes
  <2>2. Io!Total(s.write_list) \in Nat /\ Io!Total(s.wait_write_list) \in Nat
    BY <2>1, BytesAre
  <2>. QED BY <2>1, <2>2, TotalConcat
<1>4. <<>> \in Seq(Writes)
  OBVIOUS
<1>. HIDE DEF w
<1>5. t = [s EXCEPT !.wait_write_list = w, !.unsent = @ + Io!Total(s.write_list),
                    !.write_list = <<>>]
  BY DEF Io!WriteFlush, w
<1>. HIDE DEF t
<1>6. /\ IsTcp(t) /\ t.status = s.status /\ t.managed = s.managed /\ t.busy = s.busy
      /\ t.told = s.told /\ t.reads = s.reads /\ t.rbuf = s.rbuf /\ t.answers = s.answers
      /\ t.have_write = s.have_write /\ t.wait_write_list = w /\ t.write_list = <<>>
      /\ t.unsent = s.unsent + Io!Total(s.write_list)
  BY <1>1, <1>5 DEF Fields, IsTcp
<1>7. Fields(t)
  BY <1>1, <1>2, <1>3, <1>4, <1>6 DEF Fields
<1>8. ASSUME NEW o \in Ops PROVE Held(t, o) = Held(s, o)
  <2>1. Count(w, o) = Count(s.wait_write_list, o) + Count(s.write_list, o)
    BY <1>1, CountConcat DEF w
  <2>2. Count(<<>>, o) = 0
    BY CountEmpty
  <2>3. /\ Count(s.write_list, o) \in Nat /\ Count(s.wait_write_list, o) \in Nat
        /\ Count(s.reads, o) \in Nat /\ Len(s.answers[o]) \in Nat
    BY <1>1, HeldType
  <2>. QED BY <1>6, <2>1, <2>2, <2>3 DEF Held
<1>9. Got(t) = Got(s) + 0
  <2>1. Taken(t) = Taken(s)
    BY <1>6, TakenSame
  <2>. QED BY <1>1, <1>6, <2>1, GotType DEF Got
<1>10. t.unsent + t.have_write = Io!Total(t.wait_write_list)
  <2>1. s.unsent + s.have_write = Io!Total(s.wait_write_list)
    BY DEF Sound
  <2>. QED BY <1>1, <1>3, <1>6, <2>1
<1>11. Sound(t)
  BY <1>7, <1>8, <1>10 DEF Sound
<1>. QED BY <1>6, <1>8, <1>9, <1>11 DEF Follows, Keeps, t

\* No read is in a list of writes.
LEMMA NoReadAmong ==
  ASSUME NEW l \in Seq(Writes), NEW o \in Reads
  PROVE  Count(l, o) = 0
<1>1. \A k \in 1..Len(l) : l[k] # o
  BY ElementOfSeq, TcpAssumption
<1>. QED BY <1>1, CountType

\* What answering a list of writes does to the answers.
LEMMA AnswerWrites ==
  ASSUME NEW s, Fields(s), NEW p \in Seq(Writes), NEW r \in Results,
         \A o \in Ops : Count(p, o) <= 1
  PROVE  /\ \A o \in Ops : Len(Io!Notify(s, p, r).answers[o]) = Len(s.answers[o]) + Count(p, o)
         /\ Taken(Io!Notify(s, p, r)) = Taken(s)
<1>1. p \in Seq(Ops)
  BY ListTypes
<1>2. \A o \in Ops : Len(Io!Notify(s, p, r).answers[o]) = Len(s.answers[o]) + Count(p, o)
  BY <1>1, AnswersGrow
<1>3. ASSUME NEW o \in Reads
      PROVE  Io!Notify(s, p, r).answers[o] # <<>> <=> s.answers[o] # <<>>
  <2>1. o \in Ops
    BY DEF Ops
  <2>2. Count(p, o) = 0
    BY NoReadAmong
  <2>. QED BY <1>1, <2>1, <2>2, AnsweredIs
<1>. QED BY <1>2, <1>3, TakenSame

\* clean_write answers the registered writes, and nothing else.
LEMMA CleanWriteFollows ==
  ASSUME NEW s, Sound(s)
  PROVE  Follows(s, Io!CleanWrite(s), 0)
<1>. DEFINE p == s.write_list
            u == [s EXCEPT !.write_list = <<>>]
            t == Io!Notify(u, p, "IOError")
<1>1. Fields(s) /\ p \in Seq(Writes) /\ <<>> \in Seq(Writes) /\ "IOError" \in Results
      /\ p \in Seq(Ops)
  BY ListTypes DEF Sound, Fields, Results
<1>2. ASSUME NEW o \in Ops
      PROVE  /\ Count(s.reads, o) \in Nat /\ Count(p, o) \in Nat
             /\ Count(s.wait_write_list, o) \in Nat /\ Len(s.answers[o]) \in Nat
             /\ Count(p, o) <= 1
  <2>1. /\ Count(s.reads, o) \in Nat /\ Count(p, o) \in Nat
        /\ Count(s.wait_write_list, o) \in Nat /\ Len(s.answers[o]) \in Nat
    BY <1>1, HeldType
  <2>2. Count(s.reads, o) + Count(p, o) + Count(s.wait_write_list, o) + Len(s.answers[o]) <= 1
    BY DEF Sound, Held
  <2>. QED BY <2>1, <2>2
<1>3. /\ Fields(u) /\ u.reads = s.reads /\ u.write_list = <<>>
      /\ u.wait_write_list = s.wait_write_list /\ u.rbuf = s.rbuf
      /\ u.unsent = s.unsent /\ u.have_write = s.have_write /\ u.managed = s.managed
      /\ u.answers = s.answers
  BY <1>1 DEF Fields, IsTcp
<1>. HIDE DEF u, p
<1>4. /\ Fields(t) /\ t.reads = s.reads /\ t.write_list = <<>>
      /\ t.wait_write_list = s.wait_write_list /\ t.rbuf = s.rbuf
      /\ t.unsent = s.unsent /\ t.have_write = s.have_write /\ t.managed = s.managed
  BY <1>1, <1>3, NotifyIs
<1>5. /\ \A o \in Ops : Len(t.answers[o]) = Len(u.answers[o]) + Count(p, o)
      /\ Taken(t) = Taken(u)
  BY <1>1, <1>2, <1>3, AnswerWrites
<1>6. ASSUME NEW o \in Ops PROVE Held(t, o) = Held(s, o)
  <2>1. Count(<<>>, o) = 0
    BY CountEmpty
  <2>2. Len(t.answers[o]) = Len(s.answers[o]) + Count(p, o)
    BY <1>3, <1>5
  <2>. HIDE DEF t
  <2>. QED BY <1>2, <1>4, <2>1, <2>2 DEF Held, p
<1>7. Got(t) = Got(s) + 0
  <2>1. Taken(u) = Taken(s)
    BY <1>3, TakenSame
  <2>. HIDE DEF t
  <2>. QED BY <1>1, <1>4, <1>5, <2>1, GotType DEF Got
<1>8. Sound(t)
  <2>. HIDE DEF t
  <2>. QED BY <1>4, <1>6 DEF Sound
<1>9. Io!CleanWrite(s) = t
  BY DEF Io!CleanWrite, t, u, p
<1>. QED BY <1>4, <1>6, <1>7, <1>8, <1>9 DEF Follows, Keeps

\* The first k writes are done, and their bytes taken out of have_write.
LEMMA CompleteWritesFollows ==
  ASSUME NEW s, Sound(s), NEW k \in 0..Len(s.wait_write_list),
         Io!Total(SubSeq(s.wait_write_list, 1, k)) <= s.have_write
  PROVE  Follows(s, Io!CompleteWrites(s, k), 0)
<1>. DEFINE p == SubSeq(s.wait_write_list, 1, k)
            q == Io!After(s.wait_write_list, k)
            u == [s EXCEPT !.wait_write_list = q, !.have_write = @ - Io!Total(p)]
            t == Io!Notify(u, p, "Done")
<1>1. Fields(s) /\ s.wait_write_list \in Seq(Writes) /\ s.have_write \in Nat /\ s.unsent \in Nat
      /\ "Done" \in Results
  BY DEF Sound, Fields, Results
<1>2. p \in Seq(Writes) /\ q \in Seq(Writes) /\ s.wait_write_list = p \o q
  BY <1>1, SplitList
<1>3. /\ p \in Seq(Ops) /\ Io!Total(p) \in Nat /\ Io!Total(q) \in Nat
      /\ Io!Total(s.wait_write_list) = Io!Total(p) + Io!Total(q)
      /\ s.have_write - Io!Total(p) \in Nat
  <2>1. p \in Seq(Ops) /\ q \in Seq(Ops)
    BY <1>2, ListTypes
  <2>2. Io!Total(p) \in Nat /\ Io!Total(q) \in Nat
    BY <2>1, BytesAre
  <2>3. Io!Total(p \o q) = Io!Total(p) + Io!Total(q)
    BY <2>1, TotalConcat
  <2>4. Io!Total(s.wait_write_list) = Io!Total(p) + Io!Total(q)
    BY <1>2, <2>3
  <2>5. Io!Total(p) <= s.have_write
    OBVIOUS
  <2>6. s.have_write - Io!Total(p) \in Nat
    <3>. HIDE DEF p
    <3>. QED BY <1>1, <2>2, <2>5
  <2>. QED BY <2>1, <2>2, <2>4, <2>6
<1>. HIDE DEF p, q
<1>4. /\ Fields(u) /\ u.reads = s.reads /\ u.write_list = s.write_list
      /\ u.wait_write_list = q /\ u.rbuf = s.rbuf
      /\ u.unsent = s.unsent /\ u.have_write = s.have_write - Io!Total(p)
      /\ u.managed = s.managed /\ u.answers = s.answers
  BY <1>1, <1>2, <1>3 DEF Fields, IsTcp
<1>. HIDE DEF u
<1>5. /\ Fields(t) /\ t.reads = s.reads /\ t.write_list = s.write_list
      /\ t.wait_write_list = q /\ t.rbuf = s.rbuf
      /\ t.unsent = s.unsent /\ t.have_write = s.have_write - Io!Total(p)
      /\ t.managed = s.managed
  BY <1>1, <1>3, <1>4, NotifyIs
<1>6. ASSUME NEW o \in Ops
      PROVE  /\ Count(p, o) \in Nat /\ Count(q, o) \in Nat
             /\ Count(s.reads, o) \in Nat /\ Count(s.write_list, o) \in Nat
             /\ Len(s.answers[o]) \in Nat
             /\ Count(s.wait_write_list, o) = Count(p, o) + Count(q, o)
             /\ Count(p, o) <= 1
  <2>1. Count(p, o) \in Nat /\ Count(q, o) \in Nat
    BY <1>2, CountType
  <2>2. Count(p \o q, o) = Count(p, o) + Count(q, o)
    BY <1>2, CountConcat
  <2>3. /\ Count(s.reads, o) \in Nat /\ Count(s.write_list, o) \in Nat
        /\ Len(s.answers[o]) \in Nat
    BY <1>1, HeldType
  <2>4. Count(s.reads, o) + Count(s.write_list, o) + Count(s.wait_write_list, o)
        + Len(s.answers[o]) <= 1
    BY DEF Sound, Held
  <2>. QED BY <1>2, <2>1, <2>2, <2>3, <2>4
<1>7. /\ \A o \in Ops : Len(t.answers[o]) = Len(u.answers[o]) + Count(p, o)
      /\ Taken(t) = Taken(u)
  BY <1>1, <1>2, <1>4, <1>6, AnswerWrites
<1>8. ASSUME NEW o \in Ops PROVE Held(t, o) = Held(s, o)
  <2>1. Len(t.answers[o]) = Len(s.answers[o]) + Count(p, o)
    BY <1>4, <1>7
  <2>. HIDE DEF t
  <2>. QED BY <1>5, <1>6, <2>1 DEF Held
<1>9. Got(t) = Got(s) + 0
  <2>1. Taken(u) = Taken(s)
    BY <1>4, TakenSame
  <2>. HIDE DEF t
  <2>. QED BY <1>1, <1>5, <1>7, <2>1, GotType DEF Got
<1>10. t.unsent + t.have_write = Io!Total(t.wait_write_list)
  <2>1. s.unsent + s.have_write = Io!Total(p) + Io!Total(q)
    BY <1>3 DEF Sound
  <2>2. s.unsent + (s.have_write - Io!Total(p)) = Io!Total(q)
    BY <1>1, <1>3, <2>1
  <2>. HIDE DEF t
  <2>. QED BY <1>5, <2>2
<1>11. Sound(t)
  <2>. HIDE DEF t
  <2>. QED BY <1>5, <1>8, <1>10 DEF Sound
<1>12. Io!CompleteWrites(s, k) = t
  BY DEF Io!CompleteWrites, t, u, p, q
<1>. QED BY <1>5, <1>8, <1>9, <1>11, <1>12 DEF Follows, Keeps

LEMMA ProcessWriteFollows ==
  ASSUME NEW s, Sound(s)
  PROVE  Follows(s, Io!ProcessWrite(s), 0)
<1>1. s.wait_write_list \in Seq(Ops) /\ s.have_write \in Nat
  BY ListTypes DEF Sound, Fields
<1>2. Io!Covered(s.wait_write_list, s.have_write) \in 0..Len(s.wait_write_list)
      /\ Io!Total(SubSeq(s.wait_write_list, 1, Io!Covered(s.wait_write_list, s.have_write)))
         <= s.have_write
  BY <1>1, CoveredIs
<1>. QED BY <1>2, CompleteWritesFollows DEF Io!ProcessWrite

\* A field that has nothing to do with operations and bytes.
LEMMA StatusFollows ==
  ASSUME NEW s, Sound(s), NEW st \in TcpStatus
  PROVE  Follows(s, [s EXCEPT !.status = st], 0)
<1>. DEFINE t == [s EXCEPT !.status = st]
<1>1. /\ Fields(t) /\ t.reads = s.reads /\ t.write_list = s.write_list
      /\ t.wait_write_list = s.wait_write_list /\ t.rbuf = s.rbuf /\ t.unsent = s.unsent
      /\ t.have_write = s.have_write /\ t.managed = s.managed /\ t.answers = s.answers
  BY DEF Sound, Fields, IsTcp
<1>. HIDE DEF t
<1>2. Keeps(s, t, 0)
  BY <1>1, Unmoved
<1>. QED BY <1>1, <1>2 DEF Follows, t

LEMMA SetStatusFollows ==
  ASSUME NEW s, Sound(s)
  PROVE  /\ Follows(s, TcpSetReadable(s, FALSE), 0)
         /\ Follows(s, TcpSetWritable(s, FALSE), 0)
<1>1. s.status \in TcpStatus
  BY DEF Sound, Fields
<1>2. \A st \in TcpStatus : Follows(s, [s EXCEPT !.status = st], 0)
  BY StatusFollows
<1>3. \E st \in TcpStatus : TcpSetReadable(s, FALSE) = [s EXCEPT !.status = st]
  BY <1>1 DEF TcpSetReadable, TcpStatus
<1>4. \E st \in TcpStatus : TcpSetWritable(s, FALSE) = [s EXCEPT !.status = st]
  BY <1>1 DEF TcpSetWritable, TcpStatus
<1>. QED BY <1>2, <1>3, <1>4

\* close() takes the connection out of the loop, and answers what is registered for writing.
LEMMA CloseFollows ==
  ASSUME NEW s, Sound(s)
  PROVE  Follows(s, Close(s), 0) /\ ~Close(s).managed
<1>. DEFINE r == Io!CleanRead(s)
            u == Io!CleanWrite(r)
            t == [u EXCEPT !.managed = FALSE]
            v == IF t.status \in {"invalid", "closed"} THEN t
                 ELSE [t EXCEPT !.status = "closed", !.closes = @ + 1]
<1>1. Follows(s, r, 0)
  BY ProcessReadFollows
<1>2. Follows(r, u, 0)
  <2>1. Sound(r)
    BY <1>1 DEF Follows, Keeps
  <2>. QED BY <2>1, CleanWriteFollows
<1>3. Follows(s, u, 0)
  <2>. HIDE DEF r, u
  <2>1. Follows(s, u, 0 + 0)
    BY <1>1, <1>2, FollowsOn
  <2>. QED BY <2>1
<1>4. /\ Fields(v) /\ v.reads = u.reads /\ v.write_list = u.write_list
      /\ v.wait_write_list = u.wait_write_list /\ v.rbuf = u.rbuf /\ v.unsent = u.unsent
      /\ v.have_write = u.have_write /\ ~v.managed /\ v.answers = u.answers
  <2>. HIDE DEF u
  <2>1. Fields(u)
    BY <1>3 DEF Follows, Keeps, Sound
  <2>2. /\ Fields(t) /\ t.reads = u.reads /\ t.write_list = u.write_list
        /\ t.wait_write_list = u.wait_write_list /\ t.rbuf = u.rbuf /\ t.unsent = u.unsent
        /\ t.have_write = u.have_write /\ ~t.managed /\ t.answers = u.answers
    BY <2>1 DEF Fields, IsTcp
  <2>. HIDE DEF t
  <2>3. "closed" \in TcpStatus
    BY DEF TcpStatus
  <2>. QED BY <2>2, <2>3 DEF Fields, IsTcp
<1>5. Follows(u, v, 0)
  <2>. HIDE DEF u, v
  <2>1. Keeps(u, v, 0)
    BY <1>3, <1>4, Unmoved DEF Follows, Keeps
  <2>. QED BY <1>4, <2>1 DEF Follows
<1>6. Follows(s, v, 0)
  <2>. HIDE DEF u, v
  <2>1. Follows(s, v, 0 + 0)
    BY <1>3, <1>5, FollowsOn
  <2>. QED BY <2>1
<1>7. Close(s) = v
  BY DEF Close
<1>. QED BY <1>4, <1>6, <1>7

\* read() takes n bytes from a socket that can be read.
LEMMA DirectReadFollows ==
  ASSUME NEW s, Sound(s), NEW n \in Nat, NEW eof \in BOOLEAN, TcpReadable(s)
  PROVE  Follows(s, TcpDirectRead(s, n, eof), n)
<1>. DEFINE u == [s EXCEPT !.rbuf = @ + n]
            t == Io!DirectRead(s, n, eof)
<1>1. /\ Fields(u) /\ u.reads = s.reads /\ u.write_list = s.write_list
      /\ u.wait_write_list = s.wait_write_list /\ u.rbuf = s.rbuf + n /\ u.unsent = s.unsent
      /\ u.have_write = s.have_write /\ u.managed = s.managed /\ u.answers = s.answers
  BY DEF Sound, Fields, IsTcp
<1>2. Follows(s, u, n)
  <2>. HIDE DEF u
  <2>1. \A o \in Ops : Held(u, o) = Held(s, o)
    BY <1>1 DEF Held
  <2>2. Sound(u)
    BY <1>1, <2>1 DEF Sound
  <2>3. Taken(u) = Taken(s)
    BY <1>1, TakenSame
  <2>4. Taken(s) \in Nat /\ s.rbuf \in Nat
    BY TakenType DEF Sound, Fields
  <2>5. Got(u) = Got(s) + n
    BY <1>1, <2>3, <2>4 DEF Got
  <2>. QED BY <1>1, <2>1, <2>2, <2>5 DEF Follows, Keeps
<1>3. t = u \/ t = TcpSetReadable(u, FALSE)
  BY DEF Io!DirectRead
<1>4. Follows(s, t, n)
  <2>. HIDE DEF u, t
  <2>1. Sound(u)
    BY <1>2 DEF Follows, Keeps
  <2>2. Follows(u, TcpSetReadable(u, FALSE), 0)
    BY <2>1, SetStatusFollows
  <2>3. Follows(s, TcpSetReadable(u, FALSE), n + 0)
    BY <1>2, <2>2, FollowsOn
  <2>4. n + 0 = n
    OBVIOUS
  <2>. QED BY <1>2, <1>3, <2>3, <2>4
<1>5. Follows(s, Close(t), n)
  <2>. HIDE DEF u, t
  <2>1. Follows(t, Close(t), 0)
    BY <1>4, CloseFollows DEF Follows, Keeps
  <2>2. Follows(s, Close(t), n + 0)
    BY <1>4, <2>1, FollowsOn
  <2>3. n + 0 = n
    OBVIOUS
  <2>. QED BY <2>2, <2>3
<1>. QED BY <1>4, <1>5 DEF TcpDirectRead

\* write() gives the kernel some of the bytes that are not sent.
LEMMA DirectWriteFollows ==
  ASSUME NEW s, Sound(s), NEW n \in 0..s.unsent, NEW why
  PROVE  Follows(s, TcpDirectWrite(s, n, why), 0)
<1>. DEFINE u == [s EXCEPT !.unsent = @ - n, !.have_write = @ + n]
            b == [u EXCEPT !.busy = TRUE]
            t == Io!DirectWrite(s, n, why)
<1>1. s.unsent \in Nat /\ s.have_write \in Nat /\ n \in Nat /\ s.unsent - n \in Nat
      /\ (s.unsent - n) + (s.have_write + n) = s.unsent + s.have_write
  BY DEF Sound, Fields
<1>2. /\ Fields(u) /\ u.reads = s.reads /\ u.write_list = s.write_list
      /\ u.wait_write_list = s.wait_write_list /\ u.rbuf = s.rbuf /\ u.unsent = s.unsent - n
      /\ u.have_write = s.have_write + n /\ u.managed = s.managed /\ u.answers = s.answers
  BY <1>1 DEF Sound, Fields, IsTcp
<1>3. /\ Fields(b) /\ b.reads = u.reads /\ b.write_list = u.write_list
      /\ b.wait_write_list = u.wait_write_list /\ b.rbuf = u.rbuf /\ b.unsent = u.unsent
      /\ b.have_write = u.have_write /\ b.managed = u.managed /\ b.answers = u.answers
  <2>. HIDE DEF u
  <2>. QED BY <1>2 DEF Fields, IsTcp
<1>4. Follows(s, u, 0)
  <2>. HIDE DEF u
  <2>1. u.unsent + u.have_write = s.unsent + s.have_write
    BY <1>1, <1>2
  <2>2. Keeps(s, u, 0)
    BY <1>2, <2>1, Unmoved
  <2>. QED BY <1>2, <2>2 DEF Follows
<1>5. Follows(s, b, 0)
  <2>. HIDE DEF u, b
  <2>1. b.unsent + b.have_write = s.unsent + s.have_write
    BY <1>1, <1>2, <1>3
  <2>2. /\ b.reads = s.reads /\ b.write_list = s.write_list
        /\ b.wait_write_list = s.wait_write_list /\ b.rbuf = s.rbuf /\ b.answers = s.answers
    BY <1>2, <1>3
  <2>3. Keeps(s, b, 0)
    BY <1>3, <2>1, <2>2, Unmoved
  <2>. QED BY <1>2, <1>3, <2>3 DEF Follows
<1>6. Follows(s, s, 0)
  <2>1. Keeps(s, s, 0)
    BY Unmoved DEF Sound
  <2>. QED BY <2>1 DEF Follows
<1>7. t \in {s, u, b, TcpSetWritable(u, FALSE)}
  BY DEF Io!DirectWrite
<1>8. Follows(s, t, 0)
  <2>. HIDE DEF u, b, t
  <2>1. Follows(u, TcpSetWritable(u, FALSE), 0)
    BY <1>4, SetStatusFollows DEF Follows, Keeps
  <2>2. Follows(s, TcpSetWritable(u, FALSE), 0 + 0)
    BY <1>4, <2>1, FollowsOn
  <2>3. 0 + 0 = 0
    OBVIOUS
  <2>4. Follows(s, TcpSetWritable(u, FALSE), 0)
    BY <2>2, <2>3
  <2>. QED BY <1>4, <1>5, <1>6, <1>7, <2>4
<1>9. Follows(s, Close(t), 0)
  <2>. HIDE DEF u, b, t
  <2>1. Follows(t, Close(t), 0)
    BY <1>8, CloseFollows DEF Follows, Keeps
  <2>2. Follows(s, Close(t), 0 + 0)
    BY <1>8, <2>1, FollowsOn
  <2>. QED BY <2>2
<1>. QED BY <1>8, <1>9 DEF TcpDirectWrite

LEMMA AfterWritesFollows ==
  ASSUME NEW s, Sound(s), NEW t \in AfterWrites(s)
  PROVE  Follows(s, t, 0)
<1>1. PICK u : /\ \E n \in Accepts(s), why \in WriteEnds : u = TcpDirectWrite(s, n, why)
               /\ t = Io!ProcessWrite(u)
  BY DEF AfterWrites
<1>2. PICK n \in Accepts(s), why \in WriteEnds : u = TcpDirectWrite(s, n, why)
  BY <1>1
<1>3. n \in 0..s.unsent
  BY DEF Accepts, Sound, Fields
<1>4. Follows(s, u, 0)
  BY <1>2, <1>3, DirectWriteFollows
<1>5. Follows(u, t, 0)
  BY <1>1, <1>4, ProcessWriteFollows DEF Follows, Keeps
<1>6. Follows(s, t, 0 + 0)
  BY <1>4, <1>5, FollowsOn
<1>. QED BY <1>6

LEMMA ResultFollows ==
  ASSUME NEW s, Sound(s), NEW r \in {"ok", "fail"}
  PROVE  Follows(s, ConnectResult(s, r), 0)
<1>. DEFINE t == ConnectResult(s, r)
<1>1. /\ Fields(t) /\ t.reads = s.reads /\ t.write_list = s.write_list
      /\ t.wait_write_list = s.wait_write_list /\ t.rbuf = s.rbuf /\ t.unsent = s.unsent
      /\ t.have_write = s.have_write /\ t.managed = s.managed /\ t.answers = s.answers
  BY DEF Sound, Fields, IsTcp, ConnectResult
<1>. HIDE DEF t
<1>2. Keeps(s, t, 0)
  BY <1>1, Unmoved
<1>. QED BY <1>1, <1>2 DEF Follows, t

LEMMA ConnectSuccessFollows ==
  ASSUME NEW s, Sound(s)
  PROVE  /\ Follows(s, ConnectSuccess(s), 0)
         /\ ConnectSuccess(s).status = "connected" /\ ~ConnectSuccess(s).busy
<1>. DEFINE u == [s EXCEPT !.status = "connected", !.busy = FALSE]
<1>1. /\ Fields(u) /\ u.reads = s.reads /\ u.write_list = s.write_list
      /\ u.wait_write_list = s.wait_write_list /\ u.rbuf = s.rbuf /\ u.unsent = s.unsent
      /\ u.have_write = s.have_write /\ u.managed = s.managed /\ u.answers = s.answers
      /\ u.status = "connected" /\ ~u.busy
  BY DEF Sound, Fields, IsTcp, TcpStatus
<1>2. ConnectSuccess(s) = ConnectResult(u, "ok")
  BY DEF ConnectSuccess
<1>. HIDE DEF u
<1>3. Follows(s, u, 0)
  <2>1. Keeps(s, u, 0)
    BY <1>1, Unmoved
  <2>. QED BY <1>1, <2>1 DEF Follows
<1>4. Follows(u, ConnectResult(u, "ok"), 0)
  BY <1>3, ResultFollows DEF Follows, Keeps
<1>5. Follows(s, ConnectResult(u, "ok"), 0 + 0)
  BY <1>3, <1>4, FollowsOn
<1>6. ConnectResult(u, "ok").status = "connected" /\ ~ConnectResult(u, "ok").busy
  BY <1>1 DEF ConnectResult, Fields, IsTcp
<1>. QED BY <1>2, <1>5, <1>6

LEMMA ConnectFailFollows ==
  ASSUME NEW s, Sound(s)
  PROVE  Follows(s, ConnectFail(s), 0) /\ ~ConnectFail(s).managed
<1>. DEFINE u == ConnectResult(s, "fail")
<1>1. Follows(s, u, 0)
  BY ResultFollows
<1>2. Follows(u, Close(u), 0) /\ ~Close(u).managed
  <2>. HIDE DEF u
  <2>. QED BY <1>1, CloseFollows DEF Follows, Keeps
<1>3. Follows(s, Close(u), 0 + 0)
  <2>. HIDE DEF u
  <2>. QED BY <1>1, <1>2, FollowsOn
<1>. QED BY <1>2, <1>3 DEF ConnectFail

\* Stage by stage, an event moves the bytes of the socket to the object, or none.
LEMMA EstablishedFollows ==
  ASSUME Sound(tcp), EstablishedEvent, net.incoming \in Nat
  PROVE  /\ Follows(tcp, tcp', IF "in" \in EventsNow THEN net.incoming ELSE 0)
         /\ armed' = Rearm(tcp, tcp')
         /\ \E b \in BOOLEAN : net' = [net EXCEPT
              !.incoming = IF "in" \in EventsNow THEN 0 ELSE @, !.space = @ /\ b]
<1>1. PICK eof, s0, s1, s2, s3, s4, s6 : Stages(eof, s0, s1, s2, s3, s4, s6)
  BY EstablishedStages
<1>. DEFINE n == IF "in" \in EventsNow THEN net.incoming ELSE 0
<1>2. n \in Nat /\ n + 0 = n /\ 0 + n = n
  OBVIOUS
<1>. HIDE DEF n
<1>3. tcp.status \in {"connecting", "connected"}
  BY DEF EstablishedEvent
<1>4. \A s : Sound(s) => Follows(s, s, 0)
  <2>1. ASSUME NEW s, Sound(s) PROVE Keeps(s, s, 0)
    BY <2>1, Unmoved DEF Sound
  <2>. QED BY <2>1 DEF Follows
<1>5. \A s, t : Follows(tcp, s, n) /\ Follows(s, t, 0) => Follows(tcp, t, n)
  BY <1>2, FollowsOn
<1>6. Follows(tcp, s0, 0) /\ TcpReadable(s0)
  <2>1. CASE tcp.status = "connecting"
    <3>1. s0 = ConnectSuccess(tcp)
      BY <1>1, <2>1 DEF Stages
    <3>. QED BY <3>1, ConnectSuccessFollows DEF TcpReadable
  <2>2. CASE tcp.status = "connected"
    <3>1. s0 = tcp
      BY <1>1, <2>2 DEF Stages
    <3>. QED BY <1>4, <2>2, <3>1 DEF TcpReadable
  <2>. QED BY <1>3, <2>1, <2>2
<1>7. Follows(tcp, s1, n)
  <2>1. Sound(s0)
    BY <1>6 DEF Follows, Keeps
  <2>2. CASE "in" \in EventsNow
    <3>1. s1 = TcpDirectRead(s0, net.incoming, eof) /\ n = net.incoming /\ eof \in BOOLEAN
      BY <1>1, <2>2 DEF Stages, n
    <3>2. Follows(s0, s1, n)
      BY <1>6, <2>1, <3>1, DirectReadFollows
    <3>3. Follows(tcp, s1, 0 + n)
      BY <1>2, <1>6, <3>2, FollowsOn
    <3>. QED BY <1>2, <3>3
  <2>3. CASE "in" \notin EventsNow
    <3>1. s1 = s0 /\ n = 0
      BY <1>1, <2>3 DEF Stages, n
    <3>. QED BY <1>6, <3>1
  <2>. QED BY <2>2, <2>3
<1>8. Follows(tcp, s2, n)
  <2>1. Follows(s1, Io!ProcessRead(s1), 0) /\ Follows(s1, s1, 0)
    BY <1>4, <1>7, ProcessReadFollows DEF Follows, Keeps
  <2>2. s2 = Io!ProcessRead(s1) \/ s2 = s1
    BY <1>1 DEF Stages
  <2>. QED BY <1>5, <1>7, <2>1, <2>2
<1>9. Follows(tcp, s3, n)
  <2>1. Follows(s2, Io!CleanRead(s2), 0) /\ Follows(s2, s2, 0)
    BY <1>4, <1>8, ProcessReadFollows DEF Follows, Keeps
  <2>2. s3 = Io!CleanRead(s2) \/ s3 = s2
    BY <1>1 DEF Stages
  <2>. QED BY <1>5, <1>8, <2>1, <2>2
<1>10. Follows(tcp, s4, n)
  <2>. DEFINE u == TcpSetReadable(s3, FALSE)
  <2>1. Follows(s3, u, 0)
    BY <1>9, SetStatusFollows DEF Follows, Keeps
  <2>. HIDE DEF u
  <2>2. Follows(u, Io!CleanRead(u), 0)
    BY <2>1, ProcessReadFollows DEF Follows, Keeps
  <2>3. Follows(tcp, Io!CleanRead(u), n)
    BY <1>5, <1>9, <2>1, <2>2
  <2>4. s4 = Io!CleanRead(u) \/ s4 = s3
    BY <1>1 DEF Stages, u
  <2>. QED BY <1>9, <2>3, <2>4
<1>11. Follows(tcp, s6, n)
  <2>. DEFINE u == Io!WriteFlush(s4)
  <2>1. Follows(s4, u, 0)
    BY <1>10, WriteFlushFollows DEF Follows, Keeps
  <2>2. Follows(tcp, u, n)
    BY <1>5, <1>10, <2>1
  <2>3. s6 = u \/ s6 \in AfterWrites(u)
    BY <1>1 DEF Stages
  <2>. HIDE DEF u
  <2>4. ASSUME s6 \in AfterWrites(u) PROVE Follows(u, s6, 0)
    BY <2>2, <2>4, AfterWritesFollows DEF Follows, Keeps
  <2>. QED BY <1>5, <2>2, <2>3, <2>4
<1>12. Follows(tcp, tcp', n)
  <2>1. Follows(s6, Close(s6), 0)
    BY <1>11, CloseFollows DEF Follows, Keeps
  <2>2. tcp' = Close(s6) \/ tcp' = s6
    BY <1>1 DEF Stages
  <2>. QED BY <1>5, <1>11, <2>1, <2>2
<1>13. /\ armed' = Rearm(tcp, tcp')
       /\ net' = [net EXCEPT !.incoming = IF "in" \in EventsNow THEN 0 ELSE @,
                             !.space = @ /\ (tcp'.busy => s0.busy)]
  BY <1>1 DEF Stages
<1>. QED BY <1>12, <1>13 DEF n

-----------------------------------------------------------------------------
(***************************************************************************)
(* The inductive invariant.  An operation has one place or answer from the *)
(* moment its do_register pushes it; a byte of the peer is in the socket,  *)
(* in read_buffer or with a read, unless a reset has destroyed it; and a   *)
(* write that has not asked for an instant write yet still may.            *)
(***************************************************************************)
Operations ==
  Sound(tcp) /\ \A o \in Ops : Held(tcp, o) = IF reg[o] \in {"pushed", "accepted"} THEN 1 ELSE 0

Received ==
  /\ received \in 0..MaxIncoming /\ net.incoming \in Nat
  /\ Got(tcp) + net.incoming <= received
  /\ ~net.reset => Got(tcp) + net.incoming = received

Surroundings ==
  /\ net \in [hs : {"none", "syn", "established", "refused", "unconnected", "backlog"},
              incoming : Nat, fin : BOOLEAN, reset : BOOLEAN, space : BOOLEAN,
              blocking : BOOLEAN]
  /\ acceptor \in {"none", "created", "listening", "closed", "invalid"}
  /\ reading \in BOOLEAN /\ destroyed \in BOOLEAN
  /\ armed \subseteq {"in", "out", "rdhup"}
  /\ tcp.closes \in 0..2

ToAsk == {o \in Writes : reg[o] # "accepted"}

Registered ==
  /\ reg \in [Ops -> {"new", "checked", "pushed", "accepted", "rejected"}]
  /\ \A o \in Reads : reg[o] # "pushed"
  /\ instant \in Nat /\ instant + Cardinality(ToAsk) <= Cardinality(Writes)

OpsInv == Operations /\ Received /\ Surroundings /\ Registered /\ FullBufferIsArmed

LEMMA InitOps == Init => OpsInv
<1>. SUFFICES ASSUME Init PROVE OpsInv
  OBVIOUS
<1>1. tcp = NewTcp(acceptor = "none") /\ reg = [o \in Ops |-> "new"] /\ instant = 0
      /\ received = 0 /\ net.incoming = 0
  BY DEF Init
<1>2. /\ IsTcp(tcp) /\ tcp.status = "initializing" /\ tcp.managed = (acceptor = "none")
      /\ tcp.told = <<>> /\ ~tcp.busy /\ tcp.reads = <<>> /\ tcp.write_list = <<>>
      /\ tcp.wait_write_list = <<>> /\ tcp.rbuf = 0 /\ tcp.unsent = 0 /\ tcp.have_write = 0
      /\ tcp.answers = [o \in Ops |-> <<>>] /\ tcp.closes = 0 /\ tcp.busy = FALSE
  BY <1>1 DEF NewTcp, IsTcp
<1>3. Fields(tcp)
  <2>1. tcp.managed \in BOOLEAN
    BY <1>2
  <2>2. tcp.status \in TcpStatus
    BY <1>2 DEF TcpStatus
  <2>3. \A S : <<>> \in Seq(S)
    OBVIOUS
  <2>4. tcp.answers \in [Ops -> Seq(Results)]
    BY <1>2, <2>3
  <2>5. tcp.busy \in BOOLEAN /\ tcp.told \in {<<>>, <<"ok">>, <<"fail">>}
    BY <1>2
  <2>6. /\ tcp.reads \in Seq(Reads)
        /\ tcp.write_list \in Seq(Writes) /\ tcp.wait_write_list \in Seq(Writes)
    BY <1>2, <2>3
  <2>7. tcp.rbuf \in Nat /\ tcp.unsent \in Nat /\ tcp.have_write \in Nat
    BY <1>2
  <2>8. IsTcp(tcp)
    BY <1>2
  <2>. QED BY <2>1, <2>2, <2>4, <2>5, <2>6, <2>7, <2>8 DEF Fields
<1>4. \A o \in Ops : Held(tcp, o) = 0
  <2>. SUFFICES ASSUME NEW o \in Ops PROVE Held(tcp, o) = 0
    OBVIOUS
  <2>1. Count(<<>>, o) = 0
    BY CountEmpty
  <2>2. tcp.answers[o] = <<>>
    BY <1>2
  <2>. QED BY <1>2, <2>1, <2>2 DEF Held
<1>5. Operations
  <2>1. tcp.unsent + tcp.have_write = Io!Total(tcp.wait_write_list)
    BY <1>2, TotalEmpty
  <2>. QED BY <1>1, <1>3, <1>4, <2>1 DEF Operations, Sound
<1>6. Received
  <2>1. TakenBytes(tcp) = {}
    BY <1>2 DEF TakenBytes, Ops
  <2>2. Taken(tcp) = 0
    BY <2>1, FS_EmptySet DEF Taken
  <2>3. Got(tcp) = 0
    BY <1>2, <2>2 DEF Got
  <2>. QED BY <1>1, <2>3, TcpAssumption DEF Received
<1>7. Registered
  <2>1. ToAsk = Writes
    BY <1>1 DEF ToAsk, Ops
  <2>2. Cardinality(Writes) \in Nat
    BY TcpAssumption, FS_Subset, FS_CardinalityType DEF Ops
  <2>. QED BY <1>1, <2>1, <2>2 DEF Registered, Ops
<1>8. Surroundings /\ FullBufferIsArmed
  <2>1. /\ acceptor \in {"none", "created", "listening", "closed", "invalid"}
        /\ reading \in BOOLEAN /\ destroyed \in BOOLEAN
        /\ armed \subseteq {"in", "out", "rdhup"}
    BY DEF Init
  <2>2. net \in [hs : {"none", "syn", "established", "refused", "unconnected", "backlog"},
                incoming : Nat, fin : BOOLEAN, reset : BOOLEAN, space : BOOLEAN,
                blocking : BOOLEAN]
    BY DEF Init
  <2>. QED BY <1>2, <2>1, <2>2 DEF Surroundings, FullBufferIsArmed
<1>. QED BY <1>5, <1>6, <1>7, <1>8 DEF OpsInv

\* A step that moves n bytes of the socket to the object.
LEMMA Transfer ==
  ASSUME Operations, Received, NEW n \in Nat, Keeps(tcp, tcp', n), reg' = reg,
         received' = received, net'.reset = net.reset,
         net'.incoming \in Nat, net.incoming = net'.incoming + n
  PROVE  Operations' /\ Received'
<1>1. Operations'
  BY DEF Operations, Keeps
<1>2. Received'
  <2>1. Got(tcp) \in Nat /\ Got(tcp)' = Got(tcp) + n
    BY GotType DEF Operations, Sound, Keeps
  <2>. QED BY <2>1 DEF Received
<1>. QED BY <1>1, <1>2

LEMMA StaysItself == ASSUME NEW s, Sound(s) PROVE Follows(s, s, 0)
<1>1. Keeps(s, s, 0)
  BY Unmoved DEF Sound
<1>. QED BY <1>1 DEF Follows

\* A socket that nobody connects cannot be written, and is closed.
LEMMA UnconnectedFollows ==
  ASSUME Sound(tcp), UnconnectedEvent
  PROVE  Follows(tcp, tcp', 0) /\ ~tcp'.managed
<1>. DEFINE r == Io!CleanRead(tcp)
            u == Io!WriteFlush(r)
<1>1. Follows(tcp, r, 0) /\ SameFd(tcp, r)
  BY ProcessReadFollows, ReadsKeepFd DEF Sound, Fields
<1>2. tcp.status = "initializing" /\ tcp' = TcpDirectWrite(u, 0, "EAGAIN")
  BY DEF UnconnectedEvent
<1>. HIDE DEF r
<1>3. Follows(r, u, 0) /\ SameFd(r, u)
  BY <1>1, WriteFlushFollows, WritesKeepFd DEF Follows, Keeps, SameFd
<1>. HIDE DEF u
<1>4. Follows(tcp, u, 0 + 0)
  BY <1>1, <1>3, FollowsOn
<1>5. u.status = "initializing"
  BY <1>1, <1>2, <1>3 DEF SameFd
<1>6. tcp' = Close(u)
  BY <1>2, <1>5 DEF TcpDirectWrite, Io!DirectWrite, TcpWritable
<1>7. Follows(u, Close(u), 0) /\ ~Close(u).managed
  BY <1>4, CloseFollows DEF Follows, Keeps
<1>8. Follows(tcp, Close(u), (0 + 0) + 0)
  BY <1>4, <1>7, FollowsOn
<1>. QED BY <1>6, <1>7, <1>8

LEMMA InstantFollows ==
  ASSUME Sound(tcp), InstantWrite
  PROVE  Follows(tcp, tcp', 0)
<1>. DEFINE u == Io!WriteFlush(tcp)
<1>1. Follows(tcp, u, 0)
  BY WriteFlushFollows
<1>2. tcp' \in AfterWrites(u)
  BY DEF InstantWrite
<1>. HIDE DEF u
<1>3. Follows(u, tcp', 0)
  BY <1>1, <1>2, AfterWritesFollows DEF Follows, Keeps
<1>4. Follows(tcp, tcp', 0 + 0)
  BY <1>1, <1>3, FollowsOn
<1>. QED BY <1>4

\* The steps of the loop thread and of its tasks: those of a connection that exists, and those
\* of the acceptor that makes it.
LoopOrUser == \/ LoopStep \/ SockoptFails \/ UserCloses \/ AddIo \/ Destroy

LEMMA LoopFollows ==
  ASSUME Operations, LoopOrUser, ~AddIo, ~EstablishedEvent, ~Accepted
  PROVE  Follows(tcp, tcp', 0)
<1>. USE DEF Operations
<1>1. CASE ConnectStarts \/ SockoptFails
  <2>1. "connecting" \in TcpStatus /\ "closed" \in TcpStatus
    BY DEF TcpStatus
  <2>. QED BY <1>1, <2>1, StatusFollows DEF ConnectStarts, SockoptFails
<1>2. CASE ConnectAtOnce
  BY <1>2, ConnectSuccessFollows DEF ConnectAtOnce
<1>3. CASE ConnectRefused \/ RefusedEvent
  BY <1>3, ConnectFailFollows DEF ConnectRefused, RefusedEvent
<1>4. CASE ClosedEvent \/ UserCloses
  BY <1>4, CloseFollows DEF ClosedEvent, UserCloses
<1>5. CASE UnconnectedEvent
  BY <1>5, UnconnectedFollows
<1>6. CASE InstantWrite
  BY <1>6, InstantFollows
<1>7. CASE ReadBlocks
  BY <1>7, StaysItself DEF ReadBlocks
<1>8. CASE AcceptFails \/ Destroy
  <2>1. /\ Fields(tcp') /\ tcp'.reads = tcp.reads /\ tcp'.write_list = tcp.write_list
        /\ tcp'.wait_write_list = tcp.wait_write_list /\ tcp'.rbuf = tcp.rbuf
        /\ tcp'.unsent = tcp.unsent /\ tcp'.have_write = tcp.have_write
        /\ tcp'.managed = tcp.managed /\ tcp'.answers = tcp.answers
    BY <1>8 DEF AcceptFails, Destroy, Sound, Fields, IsTcp
  <2>2. Keeps(tcp, tcp', 0)
    BY <2>1, Unmoved
  <2>. QED BY <2>1, <2>2 DEF Follows
<1>. QED BY <1>1, <1>2, <1>3, <1>4, <1>5, <1>6, <1>7, <1>8 DEF LoopOrUser, LoopStep, Connect

\* An operation that is pushed on one of the lists, where it was in none and had no answer.
LEMMA Pushed ==
  ASSUME Operations, NEW o \in Ops, reg[o] = "checked",
         reg' = [reg EXCEPT ![o] = IF o \in Reads THEN "accepted" ELSE "pushed"],
         DOMAIN reg = Ops,
         \/ o \in Reads /\ tcp' = [tcp EXCEPT !.reads = Append(@, o)]
         \/ o \in Writes /\ tcp' = [tcp EXCEPT !.write_list = Append(@, o)]
  PROVE  Operations' /\ Got(tcp') = Got(tcp)
<1>1. Fields(tcp) /\ tcp.reads \in Seq(Reads) /\ tcp.write_list \in Seq(Writes)
  BY DEF Operations, Sound, Fields
<1>2. /\ tcp'.wait_write_list = tcp.wait_write_list /\ tcp'.rbuf = tcp.rbuf
      /\ tcp'.unsent = tcp.unsent /\ tcp'.have_write = tcp.have_write
      /\ tcp'.answers = tcp.answers
  BY <1>1 DEF Fields, IsTcp
<1>3. Fields(tcp')
  <2>1. CASE o \in Reads /\ tcp' = [tcp EXCEPT !.reads = Append(@, o)]
    <3>1. Append(tcp.reads, o) \in Seq(Reads)
      BY <1>1, <2>1, AppendProperties
    <3>. QED BY <1>1, <2>1, <3>1 DEF Fields, IsTcp
  <2>2. CASE o \in Writes /\ tcp' = [tcp EXCEPT !.write_list = Append(@, o)]
    <3>1. Append(tcp.write_list, o) \in Seq(Writes)
      BY <1>1, <2>2, AppendProperties
    <3>. QED BY <1>1, <2>2, <3>1 DEF Fields, IsTcp
  <2>. QED BY <2>1, <2>2
<1>4. ASSUME NEW p \in Ops
      PROVE  Count(tcp'.reads, p) + Count(tcp'.write_list, p)
             = Count(tcp.reads, p) + Count(tcp.write_list, p) + (IF p = o THEN 1 ELSE 0)
  <2>1. Count(tcp.reads, p) \in Nat /\ Count(tcp.write_list, p) \in Nat
    BY <1>1, HeldType
  <2>2. CASE o \in Reads /\ tcp' = [tcp EXCEPT !.reads = Append(@, o)]
    <3>1. Count(Append(tcp.reads, o), p) = Count(tcp.reads, p) + (IF o = p THEN 1 ELSE 0)
      BY <1>1, <2>2, CountAppend
    <3>2. tcp'.reads = Append(tcp.reads, o) /\ tcp'.write_list = tcp.write_list
      BY <1>1, <2>2 DEF Fields, IsTcp
    <3>. QED BY <2>1, <3>1, <3>2
  <2>3. CASE o \in Writes /\ tcp' = [tcp EXCEPT !.write_list = Append(@, o)]
    <3>1. Count(Append(tcp.write_list, o), p)
          = Count(tcp.write_list, p) + (IF o = p THEN 1 ELSE 0)
      BY <1>1, <2>3, CountAppend
    <3>2. tcp'.write_list = Append(tcp.write_list, o) /\ tcp'.reads = tcp.reads
      BY <1>1, <2>3 DEF Fields, IsTcp
    <3>. QED BY <2>1, <3>1, <3>2
  <2>. QED BY <2>2, <2>3
<1>5. ASSUME NEW p \in Ops
      PROVE  Held(tcp', p) = Held(tcp, p) + (IF p = o THEN 1 ELSE 0)
  <2>1. /\ Count(tcp.reads, p) \in Nat /\ Count(tcp.write_list, p) \in Nat
        /\ Count(tcp.wait_write_list, p) \in Nat /\ Len(tcp.answers[p]) \in Nat
    BY <1>1, HeldType
  <2>2. Count(tcp'.reads, p) + Count(tcp'.write_list, p)
        = Count(tcp.reads, p) + Count(tcp.write_list, p) + (IF p = o THEN 1 ELSE 0)
    BY <1>4
  <2>3. Held(tcp', p) = Count(tcp'.reads, p) + Count(tcp'.write_list, p)
                        + Count(tcp.wait_write_list, p) + Len(tcp.answers[p])
    BY <1>2 DEF Held
  <2>4. Held(tcp, p) = Count(tcp.reads, p) + Count(tcp.write_list, p)
                       + Count(tcp.wait_write_list, p) + Len(tcp.answers[p])
    BY DEF Held
  <2>5. PICK j \in Nat, k \in Nat, l \in Nat, m \in Nat :
          /\ j = Count(tcp.reads, p) /\ k = Count(tcp.write_list, p)
          /\ l = Count(tcp.wait_write_list, p) /\ m = Len(tcp.answers[p])
    BY <2>1
  <2>6. Held(tcp, p) = j + k + l + m
    BY <2>4, <2>5
  <2>7. PICK r \in Nat, w \in Nat :
          r = Count(tcp'.reads, p) /\ w = Count(tcp'.write_list, p)
    <3>1. PICK s : s = tcp'
      OBVIOUS
    <3>2. Fields(s)
      BY <1>3, <3>1
    <3>3. Count(s.reads, p) \in Nat /\ Count(s.write_list, p) \in Nat
      BY <3>2, HeldType
    <3>. QED BY <3>1, <3>3
  <2>8. r + w = j + k + (IF p = o THEN 1 ELSE 0)
    BY <2>2, <2>5, <2>7
  <2>9. Held(tcp', p) = r + w + l + m
    BY <2>3, <2>5, <2>7
  <2>. QED BY <2>6, <2>8, <2>9
<1>6. \A p \in Ops : Held(tcp', p) = IF reg'[p] \in {"pushed", "accepted"} THEN 1 ELSE 0
  <2>. SUFFICES ASSUME NEW p \in Ops
                PROVE  Held(tcp', p) = IF reg'[p] \in {"pushed", "accepted"} THEN 1 ELSE 0
    OBVIOUS
  <2>1. Held(tcp, p) = IF reg[p] \in {"pushed", "accepted"} THEN 1 ELSE 0
    BY DEF Operations
  <2>2. Held(tcp', p) = Held(tcp, p) + (IF p = o THEN 1 ELSE 0)
    BY <1>5
  <2>3. CASE p = o
    BY <2>1, <2>2, <2>3
  <2>4. CASE p # o
    BY <2>1, <2>2, <2>4
  <2>. QED BY <2>3, <2>4
<1>7. Sound(tcp')
  BY <1>2, <1>3, <1>6 DEF Sound, Operations
<1>8. Got(tcp') = Got(tcp)
  <2>1. Taken(tcp') = Taken(tcp)
    BY <1>2, TakenSame
  <2>. QED BY <1>2, <2>1 DEF Got
<1>. QED BY <1>6, <1>7, <1>8 DEF Operations

LEMMA NextOperations ==
  ASSUME OpsInv, Next
  PROVE  Operations' /\ Received'
<1>. USE DEF OpsInv
<1>1. Sound(tcp) /\ net.incoming \in Nat /\ Got(tcp) \in Nat /\ received \in Nat
  BY GotType DEF Operations, Sound, Received
<1>2. CASE LoopOrUser /\ ~AddIo /\ ~EstablishedEvent /\ ~Accepted
  <2>1. Keeps(tcp, tcp', 0)
    BY <1>2, LoopFollows DEF Follows
  <2>2. net'.reset = net.reset /\ net'.incoming = net.incoming
    BY <1>2 DEF LoopOrUser, LoopStep, Connect, ConnectStarts, ConnectAtOnce, ConnectRefused,
         ReadBlocks, UnconnectedEvent, RefusedEvent, ClosedEvent, InstantWrite, AcceptFails,
         SockoptFails, UserCloses, Destroy, Surroundings
  <2>3. reg' = reg /\ received' = received
    BY <1>2 DEF LoopOrUser, LoopStep, Connect, ConnectStarts, ConnectAtOnce, ConnectRefused,
         ReadBlocks, UnconnectedEvent, RefusedEvent, ClosedEvent, InstantWrite, AcceptFails,
         SockoptFails, UserCloses, Destroy
  <2>4. net.incoming = net'.incoming + 0
    BY <1>1, <2>2
  <2>. QED BY <1>1, <2>1, <2>2, <2>3, <2>4, Transfer
<1>3. CASE EstablishedEvent
  <2>. DEFINE n == IF "in" \in EventsNow THEN net.incoming ELSE 0
  <2>1. /\ Follows(tcp, tcp', n)
        /\ \E b \in BOOLEAN : net' = [net EXCEPT
             !.incoming = IF "in" \in EventsNow THEN 0 ELSE @, !.space = @ /\ b]
    BY <1>1, <1>3, EstablishedFollows
  <2>2. n \in Nat /\ net'.reset = net.reset /\ net'.incoming \in Nat
        /\ net.incoming = net'.incoming + n
    BY <1>1, <2>1 DEF Surroundings
  <2>3. reg' = reg /\ received' = received
    BY <1>3 DEF EstablishedEvent
  <2>4. Keeps(tcp, tcp', n)
    BY <2>1 DEF Follows
  <2>. HIDE DEF n
  <2>. QED BY <2>2, <2>3, <2>4, Transfer
<1>4. CASE Accepted
  <2>1. /\ Fields(tcp') /\ tcp'.reads = tcp.reads /\ tcp'.write_list = tcp.write_list
        /\ tcp'.wait_write_list = tcp.wait_write_list /\ tcp'.rbuf = tcp.rbuf
        /\ tcp'.unsent = tcp.unsent /\ tcp'.have_write = tcp.have_write
        /\ tcp'.answers = tcp.answers
    BY <1>1, <1>4 DEF Accepted, Sound, Fields, IsTcp, TcpStatus
  <2>2. Keeps(tcp, tcp', 0)
    BY <1>1, <2>1, Unmoved
  <2>3. /\ net'.reset = net.reset /\ net'.incoming = net.incoming
        /\ reg' = reg /\ received' = received
    BY <1>4 DEF Accepted, Surroundings
  <2>4. net.incoming = net'.incoming + 0
    BY <1>1, <2>3
  <2>. QED BY <1>1, <2>2, <2>3, <2>4, Transfer
<1>5. CASE AddIo
  <2>1. Keeps(tcp, tcp', 0)
    <3>1. CASE tcp.status = "closed"
      BY <1>1, <1>5, <3>1, CloseFollows DEF AddIo, Follows
    <3>2. CASE tcp.status # "closed"
      <4>1. /\ Fields(tcp') /\ tcp'.reads = tcp.reads /\ tcp'.write_list = tcp.write_list
            /\ tcp'.wait_write_list = tcp.wait_write_list /\ tcp'.rbuf = tcp.rbuf
            /\ tcp'.unsent = tcp.unsent /\ tcp'.have_write = tcp.have_write
            /\ tcp'.answers = tcp.answers
        BY <1>1, <1>5, <3>2 DEF AddIo, Sound, Fields, IsTcp
      <4>. QED BY <1>1, <4>1, Unmoved
    <3>. QED BY <3>1, <3>2
  <2>2. /\ net'.reset = net.reset /\ net'.incoming = net.incoming
        /\ reg' = reg /\ received' = received
    BY <1>5 DEF AddIo
  <2>3. net.incoming = net'.incoming + 0
    BY <1>1, <2>2
  <2>. QED BY <1>1, <2>1, <2>2, <2>3, Transfer
<1>6. ASSUME NEW o \in Ops, RegisterPushesRead(o) \/ RegisterPushesWrite(o)
      PROVE  Operations' /\ Received'
  <2>1. reg' = [reg EXCEPT ![o] = IF o \in Reads THEN "accepted" ELSE "pushed"]
    BY <1>6, TcpAssumption DEF RegisterPushesRead, RegisterPushesWrite
  <2>2. /\ reg[o] = "checked" /\ DOMAIN reg = Ops
        /\ \/ o \in Reads /\ tcp' = [tcp EXCEPT !.reads = Append(@, o)]
           \/ o \in Writes /\ tcp' = [tcp EXCEPT !.write_list = Append(@, o)]
        /\ net' = net /\ received' = received
    BY <1>6 DEF RegisterPushesRead, RegisterPushesWrite, Registered
  <2>3. Operations' /\ Got(tcp') = Got(tcp)
    BY <2>1, <2>2, Pushed
  <2>. QED BY <2>2, <2>3 DEF Received
<1>7. ASSUME NEW o \in Ops, RegisterChecks(o) \/ RegisterNotifies(o)
      PROVE  Operations' /\ Received'
  <2>1. tcp' = tcp /\ net' = net /\ received' = received
    BY <1>7 DEF RegisterChecks, RegisterNotifies
  <2>2. \A p \in Ops : reg'[p] \in {"pushed", "accepted"} <=> reg[p] \in {"pushed", "accepted"}
    BY <1>7 DEF RegisterChecks, RegisterNotifies, Registered
  <2>3. Operations'
    BY <2>1, <2>2 DEF Operations
  <2>. QED BY <2>1, <2>3 DEF Received
<1>8. CASE StartAccept \/ PeerConnects \/ AcceptorCloses \/ HandshakeEnds \/ PeerDrains
           \/ PeerShutsDown
  <2>1. /\ tcp' = tcp /\ reg' = reg /\ received' = received
        /\ net'.incoming = net.incoming /\ net'.reset = net.reset
    BY <1>8 DEF StartAccept, PeerConnects, AcceptorCloses, HandshakeEnds, PeerDrains,
         PeerShutsDown, Surroundings
  <2>. QED BY <2>1 DEF Operations, Received
<1>9. CASE PeerSends
  <2>1. /\ tcp' = tcp /\ reg' = reg /\ received' = received + 1 /\ received < MaxIncoming
        /\ net'.incoming = net.incoming + 1 /\ net'.reset = net.reset
    BY <1>9 DEF PeerSends, Surroundings
  <2>2. Operations'
    BY <2>1 DEF Operations
  <2>3. Received'
    BY <1>1, <2>1, TcpAssumption DEF Received
  <2>. QED BY <2>2, <2>3
<1>10. CASE PeerResets
  <2>1. /\ tcp' = tcp /\ reg' = reg /\ received' = received
        /\ net'.incoming = 0 /\ net'.reset = TRUE
    BY <1>10 DEF PeerResets, Surroundings
  <2>2. Operations'
    BY <2>1 DEF Operations
  <2>3. Received'
    BY <1>1, <2>1 DEF Received
  <2>. QED BY <2>2, <2>3
<1>. QED BY <1>2, <1>3, <1>4, <1>5, <1>6, <1>7, <1>8, <1>9, <1>10
     DEF Next, LoopOrUser, LoopStep, RegisterStep

LEMMA InterestIs ==
  ASSUME NEW s
  PROVE  /\ Interest(s) \subseteq {"in", "out", "rdhup"}
         /\ s.status = "connected" /\ s.busy => "out" \in Interest(s)
BY DEF Interest

\* compare_status sees the buffer fill, and sees the connection become one that can be written.
LEMMA RearmArms ==
  ASSUME FullBufferIsArmed, Fields(tcp), Fields(tcp'), tcp'.managed => tcp.managed,
         armed' = Rearm(tcp, tcp')
  PROVE  FullBufferIsArmed'
<1>. SUFFICES ASSUME tcp'.managed, tcp'.status = "connected", tcp'.busy
              PROVE  "out" \in armed'
  BY DEF FullBufferIsArmed
<1>1. "out" \in Interest(tcp')
  BY InterestIs
<1>2. CASE Changed(tcp, tcp')
  BY <1>1, <1>2 DEF Rearm
<1>3. CASE ~Changed(tcp, tcp')
  <2>1. TcpReadable(tcp') /\ TcpWritable(tcp')
    BY DEF TcpReadable, TcpWritable
  <2>2. TcpReadable(tcp) /\ TcpWritable(tcp) /\ tcp.busy
    BY <1>3, <2>1 DEF Changed, Fields
  <2>3. tcp.status = "connected"
    BY <2>2 DEF TcpReadable, TcpWritable
  <2>4. armed' = armed
    BY <1>3 DEF Rearm
  <2>. QED BY <2>2, <2>3, <2>4 DEF FullBufferIsArmed
<1>. QED BY <1>2, <1>3

LEMMA NextArmed ==
  ASSUME OpsInv, FdInv, Operations', Next
  PROVE  FullBufferIsArmed' /\ armed' \subseteq {"in", "out", "rdhup"}
<1>. USE DEF OpsInv
<1>1. Fields(tcp) /\ Fields(tcp') /\ Sound(tcp) /\ FullBufferIsArmed
      /\ armed \subseteq {"in", "out", "rdhup"}
  BY DEF Operations, Sound, Surroundings
<1>2. CASE EstablishedEvent \/ InstantWrite
  <2>1. armed' = Rearm(tcp, tcp') /\ (tcp'.managed => tcp.managed)
    <3>1. CASE EstablishedEvent
      <4>1. net.incoming \in Nat
        BY DEF Received
      <4>. QED BY <1>1, <3>1, <4>1, EstablishedFollows DEF Follows
    <3>2. CASE InstantWrite
      <4>1. Follows(tcp, tcp', 0)
        BY <1>1, <3>2, InstantFollows
      <4>. QED BY <3>2, <4>1 DEF InstantWrite, Follows
    <3>. QED BY <1>2, <3>1, <3>2
  <2>2. FullBufferIsArmed'
    BY <1>1, <2>1, RearmArms
  <2>. QED BY <1>1, <2>1, <2>2, InterestIs DEF Rearm
<1>3. CASE ConnectStarts \/ ConnectAtOnce \/ SockoptFails
  <2>1. armed' = armed /\ ~(tcp'.status = "connected" /\ tcp'.busy)
    BY <1>1, <1>3, ConnectSuccessFollows DEF ConnectStarts, ConnectAtOnce, SockoptFails,
         Fields, IsTcp
  <2>. QED BY <1>1, <2>1 DEF FullBufferIsArmed
<1>4. CASE ConnectRefused \/ RefusedEvent \/ ClosedEvent \/ UserCloses
  <2>1. armed' = armed /\ ~tcp'.managed
    BY <1>1, <1>4, ConnectFailFollows, CloseFollows
       DEF ConnectRefused, RefusedEvent, ClosedEvent, UserCloses
  <2>. QED BY <1>1, <2>1 DEF FullBufferIsArmed
<1>5. CASE UnconnectedEvent
  <2>1. armed' = armed /\ ~tcp'.managed
    BY <1>1, <1>5, UnconnectedFollows DEF UnconnectedEvent
  <2>. QED BY <1>1, <2>1 DEF FullBufferIsArmed
<1>6. CASE AddIo
  <2>1. CASE tcp.status = "closed"
    <3>1. armed' = armed /\ ~tcp'.managed
      BY <1>1, <1>6, <2>1, CloseFollows DEF AddIo
    <3>. QED BY <1>1, <3>1 DEF FullBufferIsArmed
  <2>2. CASE tcp.status # "closed"
    <3>1. armed' = Interest(tcp) /\ tcp'.status = tcp.status /\ tcp'.busy = tcp.busy
      BY <1>1, <1>6, <2>2 DEF AddIo, Fields, IsTcp
    <3>. QED BY <3>1, InterestIs DEF FullBufferIsArmed
  <2>. QED BY <2>1, <2>2
<1>7. CASE Accepted \/ AcceptFails \/ Destroy
  <2>1. ~tcp.managed
    BY <1>7 DEF Accepted, AcceptFails, Destroy, FdInv
  <2>2. armed' = armed /\ tcp'.managed = tcp.managed
    BY <1>1, <1>7 DEF Accepted, AcceptFails, Destroy, Fields, IsTcp
  <2>. QED BY <1>1, <2>1, <2>2 DEF FullBufferIsArmed
<1>8. ASSUME NEW o \in Ops, RegisterChecks(o) \/ RegisterStep(o)
      PROVE  FullBufferIsArmed' /\ armed' \subseteq {"in", "out", "rdhup"}
  <2>1. /\ armed' = armed /\ tcp'.managed = tcp.managed /\ tcp'.status = tcp.status
        /\ tcp'.busy = tcp.busy
    BY <1>1, <1>8 DEF RegisterChecks, RegisterStep, RegisterPushesRead, RegisterPushesWrite,
         RegisterNotifies, Fields, IsTcp
  <2>. QED BY <1>1, <2>1 DEF FullBufferIsArmed
<1>9. CASE \/ ReadBlocks \/ StartAccept \/ PeerConnects \/ AcceptorCloses \/ HandshakeEnds
           \/ PeerSends \/ PeerDrains \/ PeerShutsDown \/ PeerResets
  <2>1. tcp' = tcp /\ armed' = armed
    BY <1>9 DEF ReadBlocks, StartAccept, PeerConnects, AcceptorCloses, HandshakeEnds,
         PeerSends, PeerDrains, PeerShutsDown, PeerResets
  <2>. QED BY <1>1, <2>1 DEF FullBufferIsArmed
<1>. QED BY <1>2, <1>3, <1>4, <1>5, <1>6, <1>7, <1>8, <1>9 DEF Next, LoopStep, Connect

LEMMA ToAskFinite ==
  IsFiniteSet(ToAsk) /\ Cardinality(ToAsk) \in Nat /\ Cardinality(Writes) \in Nat
<1>1. Writes \in SUBSET Ops /\ ToAsk \in SUBSET Ops
  BY DEF Ops, ToAsk
<1>2. IsFiniteSet(Ops)
  BY TcpAssumption
<1>3. IsFiniteSet(Writes) /\ IsFiniteSet(ToAsk)
  BY <1>1, <1>2, FS_Subset
<1>. QED BY <1>3, FS_CardinalityType

\* A step that registers nothing, and may serve an entry of ready_to_write.
LEMMA RegisteredStays ==
  ASSUME Registered, reg' = reg, instant' \in Nat, instant' <= instant
  PROVE  Registered'
<1>1. ToAsk' = ToAsk
  BY DEF ToAsk
<1>2. Cardinality(ToAsk') = Cardinality(ToAsk)
  BY <1>1
<1>3. instant' + Cardinality(ToAsk) <= Cardinality(Writes)
  BY ToAskFinite DEF Registered
<1>. QED BY <1>2, <1>3 DEF Registered

LEMMA NextRegistered ==
  ASSUME OpsInv, Next
  PROVE  Registered'
<1>. DEFINE N == Cardinality(Writes)
<1>1. /\ reg \in [Ops -> {"new", "checked", "pushed", "accepted", "rejected"}]
      /\ \A o \in Reads : reg[o] # "pushed"
      /\ instant \in Nat /\ instant + Cardinality(ToAsk) <= N /\ Registered
  BY DEF OpsInv, Registered
<1>2. IsFiniteSet(ToAsk) /\ Cardinality(ToAsk) \in Nat /\ N \in Nat
  BY ToAskFinite
<1>. HIDE DEF N
<1>4. ASSUME NEW o \in Ops, RegisterChecks(o) \/ RegisterPushesRead(o) \/ RegisterPushesWrite(o)
      PROVE  Registered'
  <2>1. /\ reg' \in [Ops -> {"new", "checked", "pushed", "accepted", "rejected"}]
        /\ \A p \in Reads : reg'[p] # "pushed"
        /\ \A p \in Writes : reg'[p] = "accepted" <=> reg[p] = "accepted"
        /\ instant' = instant
    BY <1>1, <1>4, TcpAssumption
       DEF RegisterChecks, RegisterPushesRead, RegisterPushesWrite, Ops
  <2>2. ToAsk' = ToAsk
    BY <2>1 DEF ToAsk
  <2>3. Cardinality(ToAsk') = Cardinality(ToAsk)
    BY <2>2
  <2>. QED BY <1>1, <2>1, <2>3 DEF Registered, N
<1>5. ASSUME NEW o \in Ops, RegisterNotifies(o)
      PROVE  Registered'
  <2>1. /\ reg' = [reg EXCEPT ![o] = "accepted"] /\ reg[o] = "pushed"
        /\ instant' = instant \/ instant' = instant + 1
    BY <1>5 DEF RegisterNotifies
  <2>2. o \in ToAsk /\ ToAsk' = ToAsk \ {o}
    BY <1>1, <2>1 DEF ToAsk, Ops
  <2>3. Cardinality(ToAsk') = Cardinality(ToAsk) - 1
    <3>1. Cardinality(ToAsk \ {o}) = Cardinality(ToAsk) - 1
      BY <1>2, <2>2, FS_RemoveElement
    <3>. QED BY <2>2, <3>1
  <2>4. instant' \in Nat /\ instant' + Cardinality(ToAsk') <= N
    BY <1>1, <1>2, <2>1, <2>3
  <2>5. /\ reg' \in [Ops -> {"new", "checked", "pushed", "accepted", "rejected"}]
        /\ \A p \in Reads : reg'[p] # "pushed"
    BY <1>1, <2>1 DEF Ops
  <2>. QED BY <2>4, <2>5 DEF Registered, N
<1>6. CASE LoopOrUser
  <2>1. CASE EstablishedEvent
    <3>1. reg' = reg /\ instant' = instant
      BY <2>1 DEF EstablishedEvent
    <3>. QED BY <1>1, <3>1, RegisteredStays
  <2>2. CASE InstantWrite
    <3>1. reg' = reg /\ instant' = instant - 1 /\ instant > 0
      BY <2>2 DEF InstantWrite
    <3>2. instant' \in Nat /\ instant' <= instant
      BY <1>1, <3>1
    <3>. QED BY <1>1, <3>1, <3>2, RegisteredStays
  <2>3. CASE ~EstablishedEvent /\ ~InstantWrite
    <3>1. reg' = reg /\ instant' = instant
      BY <1>6, <2>3 DEF LoopOrUser, LoopStep, Connect, ConnectStarts, ConnectAtOnce,
           ConnectRefused, ReadBlocks, UnconnectedEvent, RefusedEvent, ClosedEvent,
           Accepted, AcceptFails, SockoptFails, UserCloses, AddIo, Destroy
    <3>. QED BY <1>1, <3>1, RegisteredStays
  <2>. QED BY <2>1, <2>2, <2>3
<1>7. CASE \/ StartAccept \/ PeerConnects \/ AcceptorCloses \/ HandshakeEnds
           \/ PeerSends \/ PeerDrains \/ PeerShutsDown \/ PeerResets
  <2>1. reg' = reg /\ instant' = instant
    BY <1>7 DEF StartAccept, PeerConnects, AcceptorCloses, HandshakeEnds,
         PeerSends, PeerDrains, PeerShutsDown, PeerResets
  <2>. QED BY <1>1, <2>1, RegisteredStays
<1>. QED BY <1>4, <1>5, <1>6, <1>7 DEF Next, LoopOrUser, RegisterStep

\* What is around the object stays of its type; ~io closes the descriptor for the last time.
LEMMA NextSurroundings ==
  ASSUME OpsInv, FdInv, FdInv', armed' \subseteq {"in", "out", "rdhup"}, Next
  PROVE  Surroundings'
<1>. DEFINE NetType == [hs : {"none", "syn", "established", "refused", "unconnected", "backlog"},
                        incoming : Nat, fin : BOOLEAN, reset : BOOLEAN, space : BOOLEAN,
                        blocking : BOOLEAN]
<1>1. /\ net \in NetType
      /\ acceptor \in {"none", "created", "listening", "closed", "invalid"}
      /\ reading \in BOOLEAN /\ destroyed \in BOOLEAN /\ tcp.closes \in 0..2
      /\ Sound(tcp) /\ net.incoming \in Nat
  BY DEF OpsInv, Surroundings, Operations, Received
<1>2. net' \in NetType
  <2>1. CASE EstablishedEvent
    <3>1. \E b \in BOOLEAN : net' = [net EXCEPT
             !.incoming = IF "in" \in EventsNow THEN 0 ELSE @, !.space = @ /\ b]
      BY <1>1, <2>1, EstablishedFollows
    <3>2. PICK b \in BOOLEAN : net' = [net EXCEPT
             !.incoming = IF "in" \in EventsNow THEN 0 ELSE @, !.space = @ /\ b]
      BY <3>1
    <3>3. (net.space /\ b) \in BOOLEAN
      OBVIOUS
    <3>. QED BY <1>1, <3>2, <3>3
  <2>2. CASE InstantWrite
    <3>1. \E b \in BOOLEAN : net' = [net EXCEPT !.space = @ /\ b]
      <4>1. PICK t : net' = [net EXCEPT !.space = @ /\ ~(t.busy /\ t.unsent > 0)]
        BY <2>2 DEF InstantWrite
      <4>. QED BY <4>1
    <3>2. PICK b \in BOOLEAN : net' = [net EXCEPT !.space = @ /\ b]
      BY <3>1
    <3>3. (net.space /\ b) \in BOOLEAN
      OBVIOUS
    <3>. QED BY <1>1, <3>2, <3>3
  <2>3. CASE LoopOrUser /\ ~EstablishedEvent /\ ~InstantWrite
    BY <1>1, <2>3 DEF LoopOrUser, LoopStep, Connect, ConnectStarts, ConnectAtOnce,
         ConnectRefused, ReadBlocks, UnconnectedEvent, RefusedEvent, ClosedEvent,
         Accepted, AcceptFails, SockoptFails, UserCloses, AddIo, Destroy
  <2>4. CASE \/ StartAccept \/ PeerConnects \/ AcceptorCloses \/ HandshakeEnds
             \/ PeerSends \/ PeerDrains \/ PeerShutsDown \/ PeerResets
    <3>1. CASE HandshakeEnds \/ PeerConnects \/ AcceptorCloses \/ StartAccept
      BY <1>1, <3>1 DEF HandshakeEnds, PeerConnects, AcceptorCloses, StartAccept
    <3>2. CASE PeerSends
      BY <1>1, <3>2 DEF PeerSends
    <3>3. CASE PeerResets
      BY <1>1, <3>3 DEF PeerResets
    <3>4. CASE PeerDrains \/ PeerShutsDown
      BY <1>1, <3>4 DEF PeerDrains, PeerShutsDown
    <3>. QED BY <2>4, <3>1, <3>2, <3>3, <3>4
  <2>5. ASSUME NEW o \in Ops, RegisterChecks(o) \/ RegisterStep(o)
        PROVE  net' = net
    BY <2>5 DEF RegisterChecks, RegisterStep, RegisterPushesRead, RegisterPushesWrite,
         RegisterNotifies
  <2>. HIDE DEF NetType
  <2>. QED BY <1>1, <2>1, <2>2, <2>3, <2>4, <2>5 DEF Next, LoopOrUser
<1>3. /\ acceptor' \in {"none", "created", "listening", "closed", "invalid"}
      /\ reading' \in BOOLEAN /\ destroyed' \in BOOLEAN
  BY <1>1 DEF Next, LoopStep, Connect, ConnectStarts, ConnectAtOnce, ConnectRefused,
       EstablishedEvent, ReadBlocks, UnconnectedEvent, RefusedEvent, ClosedEvent,
       InstantWrite, Accepted, AcceptFails, SockoptFails, UserCloses, AddIo, Destroy,
       StartAccept, PeerConnects, AcceptorCloses, HandshakeEnds, PeerSends, PeerDrains,
       PeerShutsDown, PeerResets, RegisterChecks, RegisterStep, RegisterPushesRead,
       RegisterPushesWrite, RegisterNotifies
<1>4. tcp'.closes \in 0..2
  <2>1. CASE ~destroyed'
    BY <2>1 DEF FdInv, FdOk
  <2>2. CASE Destroy
    <3>1. tcp.closes \in {0, 1}
      BY <2>2 DEF Destroy, Exists, FdInv, FdOk
    <3>. QED BY <1>1, <2>2, <3>1 DEF Destroy, Sound, Fields, IsTcp
  <2>3. CASE destroyed' /\ ~Destroy
    <3>1. destroyed /\ acceptor = "none"
      BY <1>1, <2>3 DEF FdInv, Next, LoopStep, Connect, ConnectStarts, ConnectAtOnce,
           ConnectRefused, EstablishedEvent, ReadBlocks, UnconnectedEvent, RefusedEvent, ClosedEvent,
           InstantWrite, Accepted, AcceptFails, SockoptFails, UserCloses, AddIo,
           StartAccept, PeerConnects, AcceptorCloses, HandshakeEnds, PeerSends, PeerDrains,
           PeerShutsDown, PeerResets, RegisterChecks, RegisterStep, RegisterPushesRead,
           RegisterPushesWrite, RegisterNotifies
    <3>2. tcp'.closes = tcp.closes
      <4>1. ASSUME NEW o \in Ops, RegisterChecks(o) \/ RegisterStep(o)
            PROVE  tcp'.closes = tcp.closes
        BY <1>1, <4>1 DEF RegisterChecks, RegisterStep, RegisterPushesRead,
             RegisterPushesWrite, RegisterNotifies, Sound, Fields, IsTcp
      <4>2. CASE \/ StartAccept \/ PeerConnects \/ AcceptorCloses \/ HandshakeEnds
                 \/ PeerSends \/ PeerDrains \/ PeerShutsDown \/ PeerResets
        BY <4>2 DEF StartAccept, PeerConnects, AcceptorCloses, HandshakeEnds,
             PeerSends, PeerDrains, PeerShutsDown, PeerResets
      <4>3. ~LoopOrUser
        BY <2>3, <3>1 DEF LoopOrUser, LoopStep, Connect, ConnectStarts, ConnectAtOnce,
             ConnectRefused, EstablishedEvent, ReadBlocks, UnconnectedEvent, RefusedEvent,
             ClosedEvent, InstantWrite, Accepted, AcceptFails, SockoptFails, UserCloses,
             AddIo, Served, Exists, HasPointer
      <4>. QED BY <4>1, <4>2, <4>3 DEF Next, LoopOrUser
    <3>. QED BY <1>1, <3>2
  <2>. QED BY <2>1, <2>2, <2>3
<1>. QED BY <1>2, <1>3, <1>4 DEF Surroundings

LEMMA NextOps == OpsInv /\ FdInv /\ FdInv' /\ [Next]_vars => OpsInv'
<1>. SUFFICES ASSUME OpsInv, FdInv, FdInv', [Next]_vars PROVE OpsInv'
  OBVIOUS
<1>1. CASE Next
  <2>1. Operations' /\ Received'
    BY <1>1, NextOperations
  <2>2. FullBufferIsArmed' /\ armed' \subseteq {"in", "out", "rdhup"}
    BY <1>1, <2>1, NextArmed
  <2>3. Registered'
    BY <1>1, NextRegistered
  <2>4. Surroundings'
    BY <1>1, <2>2, NextSurroundings
  <2>. QED BY <2>1, <2>2, <2>3, <2>4 DEF OpsInv
<1>2. CASE UNCHANGED vars
  <2>1. /\ tcp' = tcp /\ net' = net /\ acceptor' = acceptor /\ reading' = reading
        /\ armed' = armed /\ instant' = instant /\ reg' = reg /\ received' = received
        /\ destroyed' = destroyed
    BY <1>2 DEF vars
  <2>2. Operations' /\ Received'
    BY <2>1 DEF OpsInv, Operations, Received
  <2>3. Surroundings' /\ FullBufferIsArmed'
    BY <2>1 DEF OpsInv, Surroundings, FullBufferIsArmed
  <2>4. Registered'
    <3>1. ToAsk' = ToAsk
      BY <2>1 DEF ToAsk
    <3>2. Cardinality(ToAsk)' = Cardinality(ToAsk)
      BY <3>1
    <3>. QED BY <2>1, <3>2 DEF OpsInv, Registered
  <2>. QED BY <2>2, <2>3, <2>4 DEF OpsInv
<1>. QED BY <1>1, <1>2

LEMMA OpsInvariant == Spec => []OpsInv
<1>1. Spec => []FdInv
  BY InitFd, NextFd, PTL DEF Spec
<1>2. FdInv /\ FdInv' /\ OpsInv /\ [Next]_vars => OpsInv'
  BY NextOps
<1>. QED BY <1>1, <1>2, InitOps, PTL DEF Spec

-----------------------------------------------------------------------------
\* Every field and variable stays in its type, whatever operations are registered.
LEMMA OpsTypes == OpsInv => TypeOK
<1>. SUFFICES ASSUME OpsInv PROVE TypeOK
  OBVIOUS
<1>1. Fields(tcp)
  BY DEF OpsInv, Operations, Sound
<1>2. /\ net.incoming \in 0..MaxIncoming /\ tcp.rbuf \in 0..MaxIncoming
      /\ received \in 0..MaxIncoming
  <2>1. Taken(tcp) \in Nat /\ tcp.rbuf \in Nat /\ net.incoming \in Nat
    BY <1>1, GotType DEF Fields, OpsInv, Received
  <2>2. Taken(tcp) + tcp.rbuf + net.incoming <= received /\ received \in 0..MaxIncoming
    BY DEF OpsInv, Received, Got
  <2>. QED BY <2>1, <2>2, TcpAssumption
<1>3. instant \in 0..Cardinality(Writes)
  <2>1. Cardinality(ToAsk) \in Nat /\ Cardinality(Writes) \in Nat
    BY ToAskFinite
  <2>. QED BY <2>1 DEF OpsInv, Registered
<1>4. net \in [hs : {"none", "syn", "established", "refused", "unconnected", "backlog"},
               incoming : 0..MaxIncoming, fin : BOOLEAN, reset : BOOLEAN, space : BOOLEAN,
               blocking : BOOLEAN]
  BY <1>2 DEF OpsInv, Surroundings
<1>. QED BY <1>1, <1>2, <1>3, <1>4 DEF OpsInv, Surroundings, Registered, Fields, TypeOK

\* do_register, on any thread, and the handlers of the loop thread: an operation that was
\* pushed is waiting in one list, once, or has had one answer.
THEOREM OperationsAnsweredOnce == Spec => []OneAnswer
<1>1. OpsInv => OneAnswer
  <2>. SUFFICES ASSUME OpsInv, NEW o \in Ops
                PROVE  Waiting(o) + Len(tcp.answers[o])
                       = (IF reg[o] \in {"pushed", "accepted"} THEN 1 ELSE 0)
    BY DEF OneAnswer
  <2>1. Held(tcp, o) = IF reg[o] \in {"pushed", "accepted"} THEN 1 ELSE 0
    BY DEF OpsInv, Operations
  <2>2. Waiting(o) + Len(tcp.answers[o]) = Held(tcp, o)
    BY DEF Waiting, Held, Count
  <2>. QED BY <2>1, <2>2
<1>. QED BY <1>1, OpsInvariant, PTL

\* process_write answers a write when the kernel has taken all its bytes, and close() answers
\* only what is not in write_buffer: the buffer always holds the writes not yet answered.
THEOREM BufferHoldsTheWrites == Spec => []WritesAccounted
<1>1. OpsInv => WritesAccounted
  BY OpsTypes DEF OpsInv, Operations, Sound, WritesAccounted
<1>. QED BY <1>1, OpsInvariant, PTL

\* direct_read and process_read: unless the peer resets the connection, every byte it sent is
\* in the socket, in read_buffer, or with a read that has been answered.
THEOREM NoByteIsLost == Spec => []ReadsAccounted
<1>1. OpsInv => ReadsAccounted
  BY DEF OpsInv, Received, Got, ReadsAccounted
<1>. QED BY <1>1, OpsInvariant, PTL

\* compare_status and get_event: whoever sets write_busy, EPOLLOUT is asked for.
THEOREM FullBufferAsksForEpollout == Spec => []FullBufferIsArmed
<1>1. OpsInv => FullBufferIsArmed
  BY DEF OpsInv
<1>. QED BY <1>1, OpsInvariant, PTL
=============================================================================
