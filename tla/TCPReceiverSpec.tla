---------------------------- MODULE TCPReceiverSpec ----------------------------
(***************************************************************************)
(* The receiver against a peer that sends a stream longer than the 32-bit  *)
(* sequence space, over a network that reorders, repeats and loses         *)
(* segments but keeps none of them for ever.                               *)
(***************************************************************************)
EXTENDS TCPReceiver, PeerStream

CONSTANTS Isns,      \* the peer's initial sequence number is one of these
          Reach,     \* how far a segment in the network may be from the ackno
          LateSyn    \* whether a SYN may arrive again after the stream started

ASSUME ReceiverAssumption ==
    /\ Reach \in Nat \ {0}
    /\ Isns \subseteq WrappingInt32
    /\ LateSyn \in BOOLEAN
    \* A segment is within half the sequence space of the one before it, from
    \* which the ackno may have moved on by a window.
    /\ 2 * Reach + Capacity + 1 < Half32
    \* No absolute sequence number comes within 2^32 of 2^64.
    /\ StreamLength + 1 + Mod32 < Mod64

VARIABLES rcv,
          arrived    \* the absolute sequence number of the last segment accepted

vars == <<rcv, arrived>>

Init ==
    /\ rcv = NewReceiver(Capacity)
    /\ arrived = 0

\* The peer's initial sequence number, known once its SYN is in.
SynSegment(isn) == [EmptySegment EXCEPT !.seqno = wrap(0, isn), !.syn = TRUE]

\* The peer's segment with the absolute sequence number abs and len bytes.
DataSegment(abs, len, is_fin) ==
    [EmptySegment EXCEPT !.seqno = wrap(abs, rcv.isn), !.fin = is_fin,
                         !.payload = Run(abs - 1, len)]

InReach(abs) == abs - abs_ackno(rcv) \in -Reach .. Reach

ReceiveSyn(isn) ==
    /\ rcv.syn_recived => isn = rcv.isn /\ LateSyn /\ InReach(0)
    /\ rcv' = segment_received(rcv, SynSegment(isn))
    /\ arrived' = 0

\* Data, a FIN, both, or an empty segment that only acknowledges.
ReceiveData(abs, len, is_fin) ==
    /\ rcv.syn_recived
    /\ InReach(abs)
    /\ abs + len <= StreamLength + 1 \/ (len = 0 /\ ~is_fin /\ abs = StreamLength + 2)
    /\ is_fin => abs + len = StreamLength + 1
    /\ rcv' = segment_received(rcv, DataSegment(abs, len, is_fin))
    /\ arrived' = abs

\* A segment that arrives before any SYN is dropped.
ReceiveBeforeSyn ==
    /\ ~rcv.syn_recived
    /\ rcv' = segment_received(rcv, DataSegment(1, 1, FALSE))
    /\ UNCHANGED arrived

Read(len) ==
    /\ Len(stream_out(rcv).buffer) >= len
    /\ rcv' = [rcv EXCEPT !.reassembler.output = pop_output(@, len)]
    /\ UNCHANGED arrived

ReadSome == \E len \in 1 .. Capacity : Read(len)

Next ==
    \/ \E isn \in Isns : ReceiveSyn(isn)
    \/ \E abs \in 1 .. StreamLength + 2, len \in 0 .. Capacity + 1, is_fin \in BOOLEAN :
          ReceiveData(abs, len, is_fin)
    \/ ReceiveBeforeSyn
    \/ ReadSome

Spec == Init /\ [][Next]_vars

\* The peer's TCPSender sends its first unacknowledged segment again until it
\* is acknowledged: the byte at the next index, after the last byte the FIN.
FirstUnacked ==
    IF rcv.reassembler.next_index < StreamLength
    THEN [abs |-> abs_ackno(rcv), len |-> 1, fin |-> FALSE]
    ELSE [abs |-> StreamLength + 1, len |-> 0, fin |-> TRUE]

Retransmit == ReceiveData(FirstUnacked.abs, FirstUnacked.len, FirstUnacked.fin)

CanRetransmit ==
    /\ rcv.syn_recived
    /\ LET seg == DataSegment(FirstUnacked.abs, FirstUnacked.len, FirstUnacked.fin)
       IN  arrived # FirstUnacked.abs \/ segment_received(rcv, seg) # rcv

\* Weak fairness of the SYN, of the retransmission and of the reading
\* application, with the enabling condition of each step spelled out.
FairSpec ==
    /\ Spec
    /\ []<>(rcv.syn_recived) \/ []<><<\E isn \in Isns : ReceiveSyn(isn)>>_vars
    /\ []<>(~CanRetransmit) \/ []<><<Retransmit>>_vars
    /\ []<>(stream_out(rcv).buffer = <<>>) \/ []<><<ReadSome>>_vars

-------------------------------------------------------------------------------
\* segment_received recovers the place in the stream of every segment, also
\* after the sequence numbers have wrapped around, and whichever segment was
\* the previous one (its place is the checkpoint of unwrap).
StreamNoRecovered ==
    arrived > 0 => rcv.last_stream_no = arrived - 1

\* wrapping_integers.hh: unwrap returns "the absolute sequence number that wraps
\* to `n` and is closest to `checkpoint`".  It does so for every 32-bit number
\* and every checkpoint the receiver passes through, in the first wrap and in
\* the later ones, but in one corner: the number of the SYN, seen from the first
\* half of the first 32-bit space.
UnwrapIsClosest ==
    \A n \in WrappingInt32 :
        LET checkpoint == rcv.last_stream_no
            u == unwrap(n, rcv.isn, checkpoint)
            SameWrap == {v \in 0 .. Mod64 - 1 : wrap(v, rcv.isn) = n}
        IN  ~(n = rcv.isn /\ 0 < checkpoint /\ checkpoint < Half32) =>
                /\ u \in SameWrap
                /\ \A v \in SameWrap : Distance(u, checkpoint) <= Distance(v, checkpoint)

\* Whatever order the segments come in, and however often the sequence numbers
\* have wrapped, the inbound stream is a prefix of the peer's stream.
InOrderDelivery ==
    /\ InOrder(stream_out(rcv))
    /\ rcv.reassembler.next_index = stream_out(rcv).bytes_written
    /\ \A i \in Stored(rcv.reassembler) : rcv.reassembler.reassembler[i] = i

\* The first sequence number the advertised window does not accept.
RightEdge == abs_ackno(rcv) + window_size(rcv)

\* What ackno() and window_size() promised is kept: the right edge of the
\* window never moves left, and a byte once acknowledged stays acknowledged.
PromisesKept ==
    [][RightEdge' >= RightEdge /\ abs_ackno(rcv)' >= abs_ackno(rcv)]_vars

\* A peer that retransmits gets its whole stream and its FIN across.
EventuallyEof == <>(eof(stream_out(rcv)) /\ stream_out(rcv).bytes_read = StreamLength)
===============================================================================
