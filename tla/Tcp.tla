--------------------------------- MODULE Tcp ---------------------------------
(***************************************************************************)
(* src/src/io/tcp.{h,cpp} and tcp_acceptor.cpp: one connection, made by    *)
(* connect() or accepted, from its creation to its destruction.  A handler *)
(* that runs on the event loop thread is one step; do_register, which      *)
(* other threads call, is three: it tests the status, pushes the           *)
(* operation, and looks at write_busy.  The kernel and the peer are        *)
(* modelled from the system calls the code makes.                          *)
(***************************************************************************)
EXTENDS Naturals, Sequences, FiniteSets

CONSTANTS Reads, Writes,   \* the operations, each registered at most once
          OpSize,          \* bytes per operation
          MaxIncoming,     \* bound on the bytes the peer sends
          Faults           \* system calls that fail in this instance

Ops == Reads \cup Writes

ASSUME TcpAssumption ==
  /\ Reads \cap Writes = {} /\ IsFiniteSet(Ops)
  /\ OpSize \in [Ops -> Nat \ {0}]
  /\ MaxIncoming \in Nat

VARIABLES
  tcp,        \* the object: the fields of IoOps and
              \*   status   __status
              \*   managed  manager # nullptr, and the fd is in io_map
              \*   closes   how often ::close(fd) was called
              \*   told     the result last passed to connect_callback or to the
              \*            callback of the acceptor
  net,        \* the socket: hs (handshake), incoming, fin, reset, space, blocking
  acceptor,   \* the tcp_acceptor the connection is to come from, until it has
  reading,    \* the loop is inside a read() of the (blocking) socket
  armed,      \* the events registered with epoll_ctl
  instant,    \* entries of this connection in ready_to_write
  reg,        \* per operation: how far its do_register call is
  received,   \* history: bytes the peer has sent
  destroyed   \* ~io has run

vars == <<tcp, net, acceptor, reading, armed, instant, reg, received, destroyed>>

TcpStatus == {"initializing", "connecting", "connected", "peer_shutdown_write",
              "shutdown_write", "closed", "invalid"}

-----------------------------------------------------------------------------
(***************************************************************************)
(* The virtual members of io that tcp derives from __status.               *)
(***************************************************************************)
TcpReadable(s) == s.status \in {"connected", "shutdown_write"}
TcpWritable(s) == s.status \in {"connected", "peer_shutdown_write"}

TcpSetReadable(s, on) ==
  [s EXCEPT !.status =
     CASE on /\ @ \in {"initializing", "connecting", "peer_shutdown_write"} -> "connected"
       [] ~on /\ @ = "connected" -> "peer_shutdown_write"
       [] ~on /\ @ = "shutdown_write" -> "closed"
       [] OTHER -> @]

TcpSetWritable(s, on) ==
  [s EXCEPT !.status =
     CASE on /\ @ \in {"initializing", "connecting", "shutdown_write"} -> "connected"
       [] ~on /\ @ = "connected" -> "shutdown_write"
       [] ~on /\ @ = "peer_shutdown_write" -> "closed"
       [] OTHER -> @]

Io == INSTANCE IoOps WITH Readable <- TcpReadable, Writable <- TcpWritable,
                          SetReadable <- TcpSetReadable, SetWritable <- TcpSetWritable

\* tcp::close(); the mutant skips remove_io.
CloseKeepsManager(s) ==
  LET t == Io!CleanWrite(Io!CleanRead(s))
  IN IF t.status \in {"invalid", "closed"} THEN t
     ELSE [t EXCEPT !.status = "closed", !.closes = @ + 1]

Close(s) ==
  LET t == [Io!CleanWrite(Io!CleanRead(s)) EXCEPT !.managed = FALSE]
  IN IF t.status \in {"invalid", "closed"} THEN t
     ELSE [t EXCEPT !.status = "closed", !.closes = @ + 1]

TcpDirectRead(s, n, eof) ==
  LET t == Io!DirectRead(s, n, eof)
  IN IF t.status = "closed" THEN Close(t) ELSE t

\* A connection that cannot be written is closed: set_writable(FALSE) has already left
\* connected, so the branch that would only note shutdown_write is not taken.
TcpDirectWrite(s, n, why) ==
  LET t == Io!DirectWrite(s, n, why)
  IN IF t.status # "invalid" /\ ~TcpWritable(t) THEN Close(t) ELSE t

\* handle_connect_result: the callback is taken by its first result.
ConnectResult(s, result) == [s EXCEPT !.told = IF @ = <<>> THEN <<result>> ELSE @]

ConnectSuccess(s) ==
  ConnectResult([s EXCEPT !.status = "connected", !.busy = FALSE], "ok")

\* The callback of a failed attempt, then close; the mutant closes without the callback.
ConnectFailSilent(s) == Close(s)
ConnectFail(s) == Close(ConnectResult(s, "fail"))

\* tcp::get_event: what the status asks epoll for; the mutant never asks for EPOLLOUT.
InterestNoOut(s) == {"in", "rdhup"}
Interest(s) ==
  CASE s.status \in {"initializing", "connecting"} -> {"in", "out"}
    [] s.status = "connected" -> {"in", "rdhup"} \cup (IF s.busy THEN {"out"} ELSE {})
    [] s.status = "peer_shutdown_write" -> {"out"}
    [] s.status = "shutdown_write" -> {"in", "rdhup"}
    [] OTHER -> {}

\* compare_status: epoll_ctl(MOD) is called only if one of these changed.
Changed(s, t) == \/ TcpReadable(s) # TcpReadable(t)
                 \/ TcpWritable(s) # TcpWritable(t)
                 \/ s.busy # t.busy

Rearm(s, t) == IF t.managed /\ Changed(s, t) THEN Interest(t) ELSE armed

-----------------------------------------------------------------------------
\* Types: among them, the fd is closed twice at most, by close() and by ~io.
TypeOK ==
  /\ tcp.status \in TcpStatus
  /\ tcp.managed \in BOOLEAN /\ tcp.busy \in BOOLEAN
  /\ tcp.closes \in 0..2
  /\ tcp.told \in {<<>>, <<"ok">>, <<"fail">>}
  /\ tcp.rbuf \in 0..MaxIncoming
  /\ tcp.unsent \in Nat /\ tcp.have_write \in Nat
  /\ tcp.reads \in Seq(Reads)
  /\ tcp.write_list \in Seq(Writes) /\ tcp.wait_write_list \in Seq(Writes)
  /\ net \in [hs : {"none", "syn", "established", "refused", "unconnected", "backlog"},
              incoming : 0..MaxIncoming, fin : BOOLEAN, reset : BOOLEAN, space : BOOLEAN,
              blocking : BOOLEAN]
  /\ acceptor \in {"none", "created", "listening", "closed", "invalid"}
  /\ reading \in BOOLEAN
  /\ armed \subseteq {"in", "out", "rdhup"}
  /\ instant \in 0..Cardinality(Writes)
  /\ reg \in [Ops -> {"new", "checked", "pushed", "accepted", "rejected"}]
  /\ received \in 0..MaxIncoming
  /\ destroyed \in BOOLEAN

\* Before a connection does anything: connect() is about to be called in the task in which
\* the factory has constructed it and add_io has put it into the loop; create_io has done so
\* and nobody will connect it; or there is an acceptor from which it is to come.
NewTcp(managed) ==
  [status |-> "initializing", managed |-> managed, closes |-> 0, told |-> <<>>,
   busy |-> FALSE, reads |-> <<>>, rbuf |-> 0, write_list |-> <<>>,
   wait_write_list |-> <<>>, unsent |-> 0, have_write |-> 0,
   answers |-> [o \in Ops |-> <<>>]]

Init ==
  /\ \E hs \in {"none", "unconnected"} :
       net = [hs |-> hs, incoming |-> 0, fin |-> FALSE, reset |-> FALSE, space |-> TRUE,
              blocking |-> FALSE]
  /\ acceptor \in IF net.hs = "none" THEN {"none", "created"} ELSE {"none"}
  /\ tcp = NewTcp(acceptor = "none")
  /\ armed = IF tcp.managed THEN {"in", "out"} ELSE {}
  /\ reading = FALSE
  /\ instant = 0
  /\ reg = [o \in Ops |-> "new"]
  /\ received = 0
  /\ destroyed = FALSE

-----------------------------------------------------------------------------
(***************************************************************************)
(* The event loop thread.                                                  *)
(***************************************************************************)
\* The object is constructed; and the loop thread is free to serve it.
Exists == acceptor = "none" /\ ~destroyed
Served == Exists /\ tcp.managed /\ ~reading

\* tcp::connect, in the task that created the connection.
ConnectStarts ==
  /\ Exists /\ tcp.status = "initializing" /\ net.hs = "none"
  /\ tcp' = [tcp EXCEPT !.status = "connecting"]
  /\ net' = [net EXCEPT !.hs = "syn"]
  /\ UNCHANGED <<acceptor, reading, armed, instant, reg, received, destroyed>>

ConnectAtOnce ==
  /\ Exists /\ tcp.status = "initializing" /\ net.hs = "none"
  /\ tcp' = ConnectSuccess(tcp)
  /\ net' = [net EXCEPT !.hs = "established"]
  /\ UNCHANGED <<acceptor, reading, armed, instant, reg, received, destroyed>>

ConnectRefused ==
  /\ Exists /\ tcp.status = "initializing" /\ net.hs = "none"
  /\ tcp' = ConnectFail(tcp)
  /\ net' = [net EXCEPT !.hs = "refused"]
  /\ UNCHANGED <<acceptor, reading, armed, instant, reg, received, destroyed>>

\* What epoll_wait would report for the socket.
Pending ==
  CASE net.hs = "refused" -> {"in", "out"}
    [] net.hs = "established" ->
         (IF net.incoming > 0 \/ net.fin \/ net.reset THEN {"in"} ELSE {})
         \cup (IF net.space \/ net.reset THEN {"out"} ELSE {})
         \cup (IF net.fin \/ net.reset THEN {"rdhup"} ELSE {})
    [] OTHER -> {}

\* Why a write() loop ends early: the send buffer is full, the peer has reset, or an
\* error (or the third EINTR) that changes nothing.
WriteEnds == (IF net.reset THEN {"EPIPE"} ELSE {"EAGAIN"}) \cup (Faults \cap {"EIO"})

\* How many of the bytes in write_buffer the kernel takes; a blocking write() takes all.
Accepts(s) == IF ~TcpWritable(s) \/ net.reset \/ ~net.space THEN {0}
              ELSE IF net.blocking THEN {s.unsent} ELSE 0..s.unsent

\* The states direct_write followed by process_write can leave.
AfterWrites(s) ==
  {Io!ProcessWrite(t) : t \in {TcpDirectWrite(s, n, why) : n \in Accepts(s), why \in WriteEnds}}

\* The second ::connect of reconnect() finds an error: refused, or reset in the meantime.
AttemptFailed == tcp.status = "connecting" /\ (net.hs = "refused" \/ net.reset)

\* An event on an established connection, including the one that completes the connect:
\* tcp::process_event, stage by stage.  \E x \in {e} names the state after a stage.
EstablishedEvent ==
  /\ Exists /\ tcp.managed
  /\ net.hs = "established" /\ ~AttemptFailed
  /\ tcp.status \in {"connecting", "connected"}
  /\ armed \cap Pending # {} \/ net.reset
  /\ net.blocking => net.fin \/ net.reset
  /\ LET ev == IF reading THEN {"in"} ELSE armed \cap Pending IN
     \E s0 \in {IF tcp.status = "connecting" THEN ConnectSuccess(tcp) ELSE tcp} :
     \E eof \in IF net.fin THEN {TRUE} ELSE IF net.reset THEN BOOLEAN ELSE {FALSE} :
     \E s1 \in {IF "in" \in ev THEN TcpDirectRead(s0, net.incoming, eof) ELSE s0} :
     \E s2 \in {IF "in" \in ev THEN Io!ProcessRead(s1) ELSE s1} :
     \E s3 \in {IF TcpReadable(s2) THEN s2 ELSE Io!CleanRead(s2)} :
     \E s4 \in {IF "rdhup" \in ev THEN Io!CleanRead(TcpSetReadable(s3, FALSE)) ELSE s3} :
     \E s5 \in {Io!WriteFlush(s4)} :
     \E s6 \in IF s5.busy THEN {s5} ELSE AfterWrites(s5) :
     \E s7 \in {IF s6.status \in {"closed", "peer_shutdown_write"} THEN Close(s6) ELSE s6} :
       /\ tcp' = s7
       /\ armed' = Rearm(tcp, s7)
       /\ net' = [net EXCEPT !.incoming = IF "in" \in ev THEN 0 ELSE @,
                             !.space = @ /\ (s7.busy => s0.busy)]
  /\ reading' = FALSE
  /\ UNCHANGED <<acceptor, instant, reg, received, destroyed>>

\* accept() gives a blocking socket and nothing changes that: direct_read, which reads until
\* EAGAIN, comes back from it only when the peer shuts down or resets (EstablishedEvent).
ReadBlocks ==
  /\ Served
  /\ net.blocking /\ tcp.status = "connected"
  /\ "in" \in armed \cap Pending /\ ~net.fin /\ ~net.reset
  /\ reading' = TRUE
  /\ UNCHANGED <<tcp, net, acceptor, armed, instant, reg, received, destroyed>>

\* epoll reports EPOLLOUT and EPOLLHUP for a socket that nobody connects; direct_write finds
\* it not writable and closes it.
UnconnectedEvent ==
  /\ Served
  /\ net.hs = "unconnected" /\ tcp.status = "initializing"
  /\ tcp' = TcpDirectWrite(Io!WriteFlush(Io!CleanRead(tcp)), 0, "EAGAIN")
  /\ UNCHANGED <<net, acceptor, reading, armed, instant, reg, received, destroyed>>

RefusedEvent ==
  /\ Served
  /\ AttemptFailed
  /\ tcp' = ConnectFail(tcp)
  /\ UNCHANGED <<acceptor, reading, net, armed, instant, reg, received, destroyed>>

\* getsockopt fails in reconnect(): the status is closed, close() comes with the next event.
SockoptFails ==
  /\ Served
  /\ "getsockopt" \in Faults
  /\ AttemptFailed
  /\ tcp' = [tcp EXCEPT !.status = "closed"]
  /\ UNCHANGED <<acceptor, reading, net, armed, instant, reg, received, destroyed>>

ClosedEvent ==
  /\ Served
  /\ tcp.status = "closed" /\ armed \cap Pending # {}
  /\ tcp' = Close(tcp)
  /\ UNCHANGED <<acceptor, reading, net, armed, instant, reg, received, destroyed>>

\* process_instant_write takes the connection from ready_to_write, in whatever status.
InstantWrite ==
  /\ ~destroyed /\ ~reading /\ instant > 0
  /\ instant' = instant - 1
  /\ \E s1 \in {Io!WriteFlush(tcp)} :
     \E s2 \in AfterWrites(s1) :
       /\ tcp' = s2
       /\ armed' = Rearm(tcp, s2)
       /\ net' = [net EXCEPT !.space = @ /\ ~(s2.busy /\ s2.unsent > 0)]
  /\ UNCHANGED <<acceptor, reading, reg, received, destroyed>>

\* A task or a callback on the loop thread calls close(); the creator has the pointer
\* once a callback, or create_io, has passed it.
HasPointer == Exists /\ (tcp.told = <<"ok">> \/ net.hs = "unconnected")

UserCloses ==
  /\ HasPointer /\ ~reading
  /\ tcp' = Close(tcp)
  /\ UNCHANGED <<acceptor, reading, net, armed, instant, reg, received, destroyed>>

\* event_processor::add_io, which an accepted connection needs: get_event closes one that is
\* closed once more, and refuses.
AddIo ==
  /\ HasPointer /\ ~reading /\ ~tcp.managed
  /\ IF tcp.status = "closed"
     THEN tcp' = Close(tcp) /\ UNCHANGED armed
     ELSE tcp' = [tcp EXCEPT !.managed = TRUE] /\ armed' = Interest(tcp)
  /\ UNCHANGED <<net, acceptor, reading, instant, reg, received, destroyed>>

\* The last shared_ptr is gone: io::valid was never cleared, so ~io closes the fd.
Destroy ==
  /\ Exists /\ ~tcp.managed /\ instant = 0
  /\ \A o \in Ops : reg[o] \notin {"checked", "pushed"}
  /\ destroyed' = TRUE
  /\ tcp' = [tcp EXCEPT !.closes = @ + 1]
  /\ UNCHANGED <<acceptor, reading, net, armed, instant, reg, received>>

-----------------------------------------------------------------------------
(***************************************************************************)
(* tcp_acceptor: what becomes of the listening socket until it has given   *)
(* the connection away.                                                    *)
(***************************************************************************)
\* start_accept: bind, listen and add_io; when it fails the factory returns no acceptor.
StartAccept ==
  /\ acceptor = "created"
  /\ acceptor' \in {"listening"} \cup (IF "bind" \in Faults THEN {"invalid"} ELSE {})
  /\ UNCHANGED <<tcp, net, reading, armed, instant, reg, received, destroyed>>

PeerConnects ==
  /\ acceptor = "listening" /\ net.hs = "none"
  /\ net' = [net EXCEPT !.hs = "backlog"]
  /\ UNCHANGED <<tcp, acceptor, reading, armed, instant, reg, received, destroyed>>

\* tcp_acceptor::direct_read: one accept() per event, and the callback with its result.
\* With a connection that is made, the acceptor's further life is of no interest here.
Accepted ==
  /\ acceptor = "listening" /\ net.hs = "backlog"
  /\ tcp' = [tcp EXCEPT !.status = "connected", !.told = <<"ok">>]
  /\ net' = [net EXCEPT !.hs = "established", !.blocking = TRUE]
  /\ acceptor' = "none"
  /\ UNCHANGED <<reading, armed, instant, reg, received, destroyed>>

\* EMFILE and the like: the connection stays in the backlog and is reported again.
AcceptFails ==
  /\ acceptor = "listening" /\ net.hs = "backlog"
  /\ "accept" \in Faults
  /\ tcp' = [tcp EXCEPT !.told = <<"fail">>]
  /\ UNCHANGED <<net, acceptor, reading, armed, instant, reg, received, destroyed>>

\* close(), by the user or after EINVAL: the kernel resets what is in the backlog.
AcceptorCloses ==
  /\ acceptor = "listening"
  /\ acceptor' = "closed"
  /\ net' = [net EXCEPT !.hs = "none"]
  /\ UNCHANGED <<tcp, reading, armed, instant, reg, received, destroyed>>

-----------------------------------------------------------------------------
(***************************************************************************)
(* io::do_register, on any thread.                                         *)
(***************************************************************************)
RegisterChecks(o) ==
  /\ Exists /\ reg[o] = "new"
  /\ reg' = [reg EXCEPT ![o] =
       IF /\ tcp.status # "invalid" /\ tcp.managed
          /\ IF o \in Reads THEN TcpReadable(tcp) ELSE TcpWritable(tcp)
       THEN "checked" ELSE "rejected"]
  /\ UNCHANGED <<acceptor, reading, tcp, net, armed, instant, received, destroyed>>

RegisterPushesRead(o) ==
  /\ o \in Reads /\ reg[o] = "checked"
  /\ tcp' = [tcp EXCEPT !.reads = Append(@, o)]
  /\ reg' = [reg EXCEPT ![o] = "accepted"]
  /\ UNCHANGED <<acceptor, reading, net, armed, instant, received, destroyed>>

RegisterPushesWrite(o) ==
  /\ o \in Writes /\ reg[o] = "checked"
  /\ tcp' = [tcp EXCEPT !.write_list = Append(@, o)]
  /\ reg' = [reg EXCEPT ![o] = "pushed"]
  /\ UNCHANGED <<acceptor, reading, net, armed, instant, received, destroyed>>

\* add_write_instant_task, unless the send buffer was full; the mutant tests the opposite.
AsksInstantWhenBusy == tcp.busy /\ tcp.managed
AsksInstant == ~tcp.busy /\ tcp.managed

RegisterNotifies(o) ==
  /\ reg[o] = "pushed"
  /\ instant' = IF AsksInstant THEN instant + 1 ELSE instant
  /\ reg' = [reg EXCEPT ![o] = "accepted"]
  /\ UNCHANGED <<acceptor, reading, tcp, net, armed, received, destroyed>>

-----------------------------------------------------------------------------
(***************************************************************************)
(* The kernel and the peer, as long as the fd is open.                     *)
(***************************************************************************)
HandshakeEnds ==
  /\ tcp.closes = 0 /\ net.hs = "syn"
  /\ \E r \in {"established", "refused"} : net' = [net EXCEPT !.hs = r]
  /\ UNCHANGED <<acceptor, reading, tcp, armed, instant, reg, received, destroyed>>

PeerSends ==
  /\ tcp.closes = 0 /\ net.hs = "established" /\ ~net.fin /\ ~net.reset /\ received < MaxIncoming
  /\ net' = [net EXCEPT !.incoming = @ + 1]
  /\ received' = received + 1
  /\ UNCHANGED <<acceptor, reading, tcp, armed, instant, reg, destroyed>>

PeerDrains ==
  /\ tcp.closes = 0 /\ net.hs = "established" /\ ~net.reset /\ ~net.space
  /\ net' = [net EXCEPT !.space = TRUE]
  /\ UNCHANGED <<acceptor, reading, tcp, armed, instant, reg, received, destroyed>>

PeerShutsDown ==
  /\ tcp.closes = 0 /\ net.hs = "established" /\ ~net.fin /\ ~net.reset
  /\ net' = [net EXCEPT !.fin = TRUE]
  /\ UNCHANGED <<acceptor, reading, tcp, armed, instant, reg, received, destroyed>>

PeerResets ==
  /\ tcp.closes = 0 /\ net.hs = "established" /\ ~net.reset
  /\ net' = [net EXCEPT !.reset = TRUE, !.incoming = 0]
  /\ UNCHANGED <<acceptor, reading, tcp, armed, instant, reg, received, destroyed>>

-----------------------------------------------------------------------------
Connect == ConnectStarts \/ ConnectAtOnce \/ ConnectRefused
LoopStep == \/ Connect \/ EstablishedEvent \/ ReadBlocks \/ UnconnectedEvent \/ RefusedEvent
            \/ ClosedEvent \/ InstantWrite \/ Accepted \/ AcceptFails
RegisterStep(o) == RegisterPushesRead(o) \/ RegisterPushesWrite(o) \/ RegisterNotifies(o)

Next == \/ LoopStep \/ SockoptFails \/ UserCloses \/ AddIo \/ Destroy
        \/ StartAccept \/ PeerConnects \/ AcceptorCloses
        \/ \E o \in Ops : RegisterChecks(o) \/ RegisterStep(o)
        \/ HandshakeEnds \/ PeerSends \/ PeerDrains \/ PeerShutsDown \/ PeerResets

Spec == Init /\ [][Next]_vars

\* The loop serves what is ready (EventLoop), a call of do_register runs to its end, the
\* network answers a connect and a live peer goes on reading.
Fairness == /\ WF_vars(LoopStep)
            /\ \A o \in Ops : WF_vars(RegisterStep(o))
            /\ WF_vars(HandshakeEnds)
            /\ WF_vars(PeerDrains)

FairSpec == Spec /\ Fairness

-----------------------------------------------------------------------------
\* An accepted operation is in one place: still waiting in one list, or answered once.
Waiting(o) == Cardinality({k \in DOMAIN tcp.reads : tcp.reads[k] = o})
              + Cardinality({k \in DOMAIN tcp.write_list : tcp.write_list[k] = o})
              + Cardinality({k \in DOMAIN tcp.wait_write_list : tcp.wait_write_list[k] = o})

\* No operation is lost, duplicated or answered twice by flushing, completing, closing.
OneAnswer ==
  \A o \in Ops : Waiting(o) + Len(tcp.answers[o])
                 = (IF reg[o] \in {"pushed", "accepted"} THEN 1 ELSE 0)

\* write_buffer and have_write account for exactly the writes not yet answered, so a Done
\* always stands for bytes the kernel has taken.
WritesAccounted ==
  TypeOK /\ tcp.unsent + tcp.have_write = Io!Total(tcp.wait_write_list)

\* The bytes of the reads that have been answered.
TakenBytes(s) == UNION {{o} \X (1..OpSize[o]) : o \in {o \in Reads : s.answers[o] # <<>>}}
Taken(s) == Cardinality(TakenBytes(s))

\* Bytes handed to reads, bytes still buffered and bytes in the socket are the bytes sent.
ReadsAccounted ==
  ~net.reset => Taken(tcp) + tcp.rbuf + net.incoming = received

\* close() before the destructor releases the fd once, and never one that the event loop
\* still maps to this connection (the number may be reused by the next socket()).
FdReleasedOnce ==
  ~destroyed => tcp.closes <= 1 /\ (tcp.closes = 1 => ~tcp.managed)

\* A connection that found its send buffer full is registered for EPOLLOUT.
FullBufferIsArmed ==
  (tcp.managed /\ tcp.status = "connected" /\ tcp.busy) => "out" \in armed

\* connect_callback hears of the end of every attempt, except one whose error getsockopt
\* does not deliver: that one is only marked closed.  The callback of an acceptor hears of
\* every connection in its backlog, as long as the acceptor is not closed.
ConnectAnswered ==
  (tcp.status = "connecting" \/ net.hs = "backlog") ~>
    \/ tcp.told # <<>> \/ acceptor = "closed"
    \/ tcp.status = "closed" /\ "getsockopt" \in Faults /\ tcp.closes = 0

\* A write registered on a connection that stays open, never meets a full send buffer and
\* does not block the loop in read() is answered.
WritesAnsweredUnlessFull ==
  \A o \in Writes : (reg[o] = "accepted") ~>
    (tcp.answers[o] # <<>> \/ tcp.busy \/ reading \/ tcp.status # "connected")

\* A read that is registered before the last of its bytes comes is answered when they have
\* come, as long as the loop is not blocked in read() (io.cpp:281, tcp_acceptor.cpp:78).  One
\* that is registered after them waits for the next event, though its bytes are buffered.
BytesCame(o) == \E k \in DOMAIN tcp.reads :
                  /\ tcp.reads[k] = o /\ net.incoming > 0
                  /\ Io!Total(SubSeq(tcp.reads, 1, k)) <= tcp.rbuf + net.incoming
ReadsAnswered ==
  \A o \in Reads : BytesCame(o) ~>
    (tcp.answers[o] # <<>> \/ reading \/ tcp.status # "connected" \/ ~tcp.managed)

-----------------------------------------------------------------------------
\* "some io doesn't need to wait EPOLLOUT event" (event_processor.h:112): the others do,
\* and are served by it.  A write on a live connection whose peer reads is answered.
WritesAnswered ==
  \A o \in Writes : (reg[o] = "accepted") ~>
    (tcp.answers[o] # <<>> \/ tcp.status # "connected")
==============================================================================
