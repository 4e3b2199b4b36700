---------------------------- MODULE FileDescriptor ----------------------------
(***************************************************************************)
(* What a FileDescriptor remembers (util/file_descriptor.cc), and the      *)
(* kernel's byte channels behind it: one direction of a pipe or of a       *)
(* connected pair of stream sockets.                                       *)
(***************************************************************************)
EXTENDS Integers, Sequences

CONSTANT ChannelCapacity   \* how many bytes the kernel holds in one direction

\* The counters of reads and writes are only compared before and after one
\* callback, so whether they moved since then is kept.
NewFD == [eof |-> FALSE, closed |-> FALSE, was_read |-> FALSE, was_written |-> FALSE]

register_read(fd) == [fd EXCEPT !.was_read = TRUE]

register_write(fd) == [fd EXCEPT !.was_written = TRUE]

\* The call to read(limit) that returned count bytes.
read(fd, limit, count) == register_read([fd EXCEPT !.eof = @ \/ (limit > 0 /\ count = 0)])

close(fd) == [fd EXCEPT !.eof = TRUE, !.closed = TRUE]

-------------------------------------------------------------------------------
\* A channel ends when its writer shuts down its side, and refuses bytes when its
\* reader does.
NewChannel == [queue |-> <<>>, ended |-> FALSE, refused |-> FALSE]

HasInput(ch) == ch.queue # <<>> \/ ch.ended

HasRoom(ch) == Len(ch.queue) < ChannelCapacity

\* How many bytes a read of at most limit bytes may return.
ReadCounts(ch, limit) ==
    {n \in 0 .. limit : n <= Len(ch.queue) /\ (n = 0 => limit = 0 \/ ch.queue = <<>>)}

TakeBytes(ch, n) == [ch EXCEPT !.queue = SubSeq(@, n + 1, Len(@))]

\* How many of len bytes a write that does not wait may take.
WriteCounts(ch, len) ==
    {n \in 0 .. len : n <= ChannelCapacity - Len(ch.queue) /\ (n = 0 => len = 0)}

PutBytes(ch, bytes) == [ch EXCEPT !.queue = @ \o bytes]

\* A write of at least one byte fails with EPIPE, which SystemCall throws.  (The
\* kernel also sends SIGPIPE, which nothing under src/ ignores or handles: the
\* process ends there, without the exception.  Both end the copy or the thread.)
Broken(ch, len) == len > 0 /\ (ch.ended \/ ch.refused)
===============================================================================
