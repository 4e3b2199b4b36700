------------------------------ MODULE TCPReceiver ------------------------------
(***************************************************************************)
(* The receiving half of a connection (libsponge/tcp_receiver.cc).  The    *)
(* member _fin_recived is never used.                                      *)
(***************************************************************************)
EXTENDS StreamReassembler, TCPSegment

NewReceiver(capacity) ==
    [syn_recived |-> FALSE, isn |-> 0, last_stream_no |-> 0,
     reassembler |-> NewReassembler(capacity)]

stream_out(rcv) == rcv.reassembler.output

\* Mutant of segment_received: the SYN is not subtracted from the place of data.
segment_received_no_offset(rcv, seg) ==
    LET isn == IF rcv.syn_recived THEN rcv.isn ELSE seg.seqno
        stream_no == unwrap(seg.seqno, isn, rcv.last_stream_no)
    IN  IF ~rcv.syn_recived /\ ~seg.syn THEN rcv
        ELSE [rcv EXCEPT !.syn_recived = TRUE,
                         !.isn = isn,
                         !.last_stream_no = stream_no,
                         !.reassembler = push_substring(@, seg.payload, stream_no, seg.fin)]

\* Mutant of segment_received: the checkpoint does not follow the stream.
segment_received_no_checkpoint(rcv, seg) ==
    LET opening == ~rcv.syn_recived
        isn == IF opening THEN seg.seqno ELSE rcv.isn
        stream_no == U64(unwrap(seg.seqno, isn, 0) - (IF opening THEN 0 ELSE 1))
    IN  IF opening /\ ~seg.syn THEN rcv
        ELSE [rcv EXCEPT !.syn_recived = TRUE,
                         !.isn = isn,
                         !.last_stream_no = stream_no,
                         !.reassembler = push_substring(@, seg.payload, stream_no, seg.fin)]

\* Mutant of segment_received: data goes where the stream ends, not where the
\* sequence number says.
segment_received_append(rcv, seg) ==
    LET isn == IF rcv.syn_recived THEN rcv.isn ELSE seg.seqno
        next == rcv.reassembler.next_index
    IN  IF ~rcv.syn_recived /\ ~seg.syn THEN rcv
        ELSE [rcv EXCEPT !.syn_recived = TRUE,
                         !.isn = isn,
                         !.last_stream_no = next,
                         !.reassembler = push_substring(@, seg.payload, next, seg.fin)]

segment_received(rcv, seg) ==
    LET opening == ~rcv.syn_recived
        isn == IF opening THEN seg.seqno ELSE rcv.isn
        abs_seqno == unwrap(seg.seqno, isn, rcv.last_stream_no)
        stream_no == IF opening THEN abs_seqno ELSE U64(abs_seqno - 1)
    IN  IF opening /\ ~seg.syn THEN rcv
        ELSE [rcv EXCEPT !.syn_recived = TRUE,
                         !.isn = isn,
                         !.last_stream_no = stream_no,
                         !.reassembler = push_substring(@, seg.payload, stream_no, seg.fin)]

has_ackno(rcv) == rcv.syn_recived

abs_ackno(rcv) ==
    rcv.reassembler.next_index + 1 + (IF stream_out(rcv).end_input THEN 1 ELSE 0)

ackno(rcv) == wrap(abs_ackno(rcv), rcv.isn)

\* Mutant of window_size: the bytes that wait take from the window.
window_size_less_waiting(rcv) ==
    remaining_capacity(stream_out(rcv)) - unassembled_bytes(rcv.reassembler)

window_size(rcv) == remaining_capacity(stream_out(rcv))
===============================================================================
