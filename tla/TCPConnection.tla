----------------------------- MODULE TCPConnection -----------------------------
(***************************************************************************)
(* One endpoint of a connection (libsponge/tcp_connection.cc): a sender    *)
(* and a receiver, and the handlers that chain their methods.  Each        *)
(* handler is one operator from a connection to a connection, and ends     *)
(* with the segments it produced in segments_out.                          *)
(***************************************************************************)
EXTENDS TCPSegment

CONSTANTS Mod32, Mod64, MAX_PAYLOAD_SIZE, RtTimeout,
          MAX_RETX_ATTEMPTS,   \* TCPConfig::MAX_RETX_ATTEMPTS
          LingerTimeouts,      \* how many RtTimeouts active() lingers: 10 in the code
          MaxWin               \* the largest window a header can hold, 2^16 - 1

R == INSTANCE TCPReceiver
S == INSTANCE TCPSender

LingerTime == LingerTimeouts * RtTimeout

NewConnection(send_capacity, recv_capacity, isn) ==
    [sender |-> S!NewSender(send_capacity, isn),
     receiver |-> R!NewReceiver(recv_capacity),
     segments_out |-> <<>>,
     linger_after_streams_finish |-> TRUE,
     time_since_last_segment_received |-> 0]

outbound(c) == c.sender.stream
inbound(c) == R!stream_out(c.receiver)

\* Mutant of active: what is still in flight does not keep the connection open.
active_ignoring_flight(c) ==
    IF S!eof(outbound(c)) /\ S!eof(inbound(c))
    THEN /\ c.linger_after_streams_finish
         /\ c.time_since_last_segment_received < LingerTime
    ELSE ~outbound(c).error /\ ~inbound(c).error

active(c) ==
    IF S!eof(outbound(c)) /\ S!eof(inbound(c))
    THEN \/ S!bytes_in_flight(c.sender) # 0
         \/ /\ c.linger_after_streams_finish
            /\ c.time_since_last_segment_received < LingerTime
    ELSE ~outbound(c).error /\ ~inbound(c).error

\* Every segment the sender put out leaves with the current ackno and window.
\* The sender sets neither, so the tests for a header that has them pass.
pop_and_send_segments(c) ==
    LET win_size == R!min(R!window_size(c.receiver), MaxWin)
        Stamped(seg) ==
            IF R!has_ackno(c.receiver)
            THEN [seg EXCEPT !.ack = TRUE, !.ackno = R!ackno(c.receiver), !.win = win_size]
            ELSE [seg EXCEPT !.win = win_size]
        out == c.sender.segments_out
    IN  [c EXCEPT !.sender.segments_out = <<>>,
                  !.segments_out = @ \o [i \in 1 .. Len(out) |-> Stamped(out[i])]]

set_errors(c) ==
    [c EXCEPT !.sender.stream.error = TRUE, !.receiver.reassembler.output.error = TRUE]

positive_unclean_shutdown(c) ==
    LET cleared == [c.sender EXCEPT !.segments_out = <<>>]
        rst == [EmptySegment EXCEPT !.rst = TRUE]
        reset == S!send_empty_segment_with_this_header(cleared, rst)
    IN  set_errors(pop_and_send_segments([c EXCEPT !.sender = reset]))

\* Mutant of Answer: a segment is only acknowledged along with data.
Answer_no_pure_ack(snd, rcv, seg) ==
    LET acked == IF seg.ack THEN S!ack_received(snd, seg.ackno, seg.win) ELSE snd
    IN  IF length_in_sequence_space(seg) = 0 THEN acked ELSE S!fill_window(acked)

\* The answer of the sender to a segment the receiver has already taken.
Answer(snd, rcv, seg) ==
    LET acked == IF seg.ack THEN S!ack_received(snd, seg.ackno, seg.win) ELSE snd
        keep_alive == /\ R!has_ackno(rcv)
                      /\ length_in_sequence_space(seg) = 0
                      /\ seg.seqno = R!U32(R!ackno(rcv) - 1)
        answered == IF keep_alive THEN S!send_empty_segment(acked) ELSE acked
        filled == S!fill_window(answered)
    IN  IF length_in_sequence_space(seg) = 0 THEN answered
        ELSE IF filled.segments_out = <<>> THEN S!send_empty_segment(filled) ELSE filled

\* Mutant of Lingers: a FIN ends the lingering of the side that closed first, too.
Lingers_not_after_fin(c, seg) == c.linger_after_streams_finish /\ ~seg.fin

Lingers(c, seg) ==
    c.linger_after_streams_finish /\ ~(seg.fin /\ ~outbound(c).end_input)

segment_received(c, seg) ==
    LET heard == [c EXCEPT !.time_since_last_segment_received = 0]
        rcv == R!segment_received(c.receiver, seg)
        taken == [heard EXCEPT
                     !.linger_after_streams_finish = Lingers(c, seg),
                     !.receiver = rcv,
                     !.sender = Answer(c.sender, rcv, seg)]
    IN  IF ~active(c) THEN c
        ELSE IF seg.rst THEN set_errors(heard)
        ELSE pop_and_send_segments(taken)

FillAndSend(c) == pop_and_send_segments([c EXCEPT !.sender = S!fill_window(@)])

connect(c) == FillAndSend(c)

write(c, data) == FillAndSend([c EXCEPT !.sender.stream = S!write(@, data)])

end_input_stream(c) == FillAndSend([c EXCEPT !.sender.stream = S!end_input(@)])

\* The time since the last segment only matters up to the linger time.
tick(c, ms_since_last_tick) ==
    LET ticked == [c EXCEPT !.sender = S!tick(@, ms_since_last_tick)]
        tired == ticked.sender.consecutive_retransmissions > MAX_RETX_ATTEMPTS
        sent == pop_and_send_segments(IF tired THEN positive_unclean_shutdown(ticked)
                                      ELSE ticked)
    IN  [sent EXCEPT !.time_since_last_segment_received =
                         R!min(@ + ms_since_last_tick, LingerTime)]

\* The destructor of a connection that is still open.
destruct(c) == IF active(c) THEN positive_unclean_shutdown(c) ELSE c
===============================================================================
