-------------------------------- MODULE IoOps --------------------------------
(***************************************************************************)
(* The read and write path of class io (src/src/io/io.cpp), as functions   *)
(* of the object's state.  They run on the event loop thread.  A state is  *)
(* a record with at least the fields                                       *)
(*   reads           temp_read_event followed by read_list                 *)
(*   rbuf            bytes in read_buffer                                  *)
(*   write_list      registered writes not yet in write_buffer             *)
(*   wait_write_list writes in write_buffer that are not completely sent   *)
(*   unsent          bytes in write_buffer                                 *)
(*   have_write      bytes sent and not yet attributed to a write          *)
(*   busy            write_busy                                            *)
(*   answers         per operation, the results passed to notify()         *)
(* The operator constants are the virtual members a subclass overrides.    *)
(***************************************************************************)
EXTENDS Naturals, Sequences, FiniteSets

CONSTANTS OpSize,              \* io_op::size() of a write, bytes a read needs
          Readable(_),         \* readable_unsafe()
          Writable(_),         \* writable_unsafe()
          SetReadable(_, _),   \* set_readable()
          SetWritable(_, _)    \* set_writable()

\* The bytes of a list of operations: byte b of the k-th one.
Bytes(ops) == UNION {{k} \X (1..OpSize[ops[k]]) : k \in DOMAIN ops}
Total(ops) == Cardinality(Bytes(ops))

\* How many operations of a list, from its head, a number of bytes covers.
Covered(ops, bytes) ==
  CHOOSE m \in 0..Len(ops) :
    /\ Total(SubSeq(ops, 1, m)) <= bytes
    /\ m < Len(ops) => Total(SubSeq(ops, 1, m + 1)) > bytes

Notify(s, ops, result) ==
  [s EXCEPT !.answers =
     [o \in DOMAIN @ |-> IF \E k \in DOMAIN ops : ops[k] = o THEN Append(@[o], result)
                                                           ELSE @[o]]]

\* A list without its first k members.
After(ops, k) == SubSeq(ops, k + 1, Len(ops))

\* Reads complete in the order of registration, each when read_buffer holds its bytes;
\* the mutant forgets to take the bytes out.
CompleteReadsKeeps(s, k) ==
  Notify([s EXCEPT !.reads = After(@, k)], SubSeq(s.reads, 1, k), "Done")

CompleteReads(s, k) ==
  Notify([s EXCEPT !.reads = After(@, k), !.rbuf = @ - Total(SubSeq(s.reads, 1, k))],
         SubSeq(s.reads, 1, k), "Done")

\* The mutant leaves the reads alone when the bytes are just enough.
ProcessReadStrict(s) ==
  IF s.rbuf = Total(s.reads) THEN s ELSE CompleteReads(s, Covered(s.reads, s.rbuf))

ProcessRead(s) == CompleteReads(s, Covered(s.reads, s.rbuf))

\* clean_read completes what the buffer still covers; the reads left over stay registered.
CleanRead(s) == ProcessRead(s)

\* The mutant forgets to empty write_list.
WriteFlushKeeps(s) ==
  [s EXCEPT !.wait_write_list = @ \o s.write_list, !.unsent = @ + Total(s.write_list)]

WriteFlush(s) ==
  [s EXCEPT !.wait_write_list = @ \o s.write_list,
            !.unsent = @ + Total(s.write_list),
            !.write_list = <<>>]

\* Only write_list is answered: what is in wait_write_list stays there.
CleanWrite(s) == Notify([s EXCEPT !.write_list = <<>>], s.write_list, "IOError")

\* read() until EAGAIN: n bytes, and perhaps the end of the stream.
DirectRead(s, n, eof) ==
  IF ~Readable(s) THEN s
  ELSE LET t == [s EXCEPT !.rbuf = @ + n]
       IN IF eof THEN SetReadable(t, FALSE) ELSE t

\* write() until write_buffer is empty or the kernel takes no more: n bytes go out, and
\* if that is not all, why is the errno that ended the loop.
DirectWrite(s, n, why) ==
  IF ~Writable(s) THEN s
  ELSE LET t == [s EXCEPT !.unsent = @ - n, !.have_write = @ + n]
       IN CASE n = s.unsent    -> t
            [] why = "EAGAIN"  -> [t EXCEPT !.busy = TRUE]
            [] why = "EPIPE"   -> SetWritable(t, FALSE)
            [] OTHER           -> t

\* The first k writes of wait_write_list are done.
CompleteWrites(s, k) ==
  Notify([s EXCEPT !.wait_write_list = After(@, k),
                   !.have_write = @ - Total(SubSeq(s.wait_write_list, 1, k))],
         SubSeq(s.wait_write_list, 1, k), "Done")

\* A write is done when all its bytes are out; the mutant answers one that has only begun.
ProcessWriteEarly(s) ==
  IF s.have_write > 0 /\ Covered(s.wait_write_list, s.have_write) = 0
  THEN Notify([s EXCEPT !.wait_write_list = Tail(@), !.have_write = 0],
              SubSeq(s.wait_write_list, 1, 1), "Done")
  ELSE CompleteWrites(s, Covered(s.wait_write_list, s.have_write))

ProcessWrite(s) == CompleteWrites(s, Covered(s.wait_write_list, s.have_write))
==============================================================================
