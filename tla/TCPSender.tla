------------------------------- MODULE TCPSender -------------------------------
(***************************************************************************)
(* The sending half of a connection (libsponge/tcp_sender.cc).  A sender   *)
(* is a record with the members of the class, and each method is an        *)
(* operator from a sender to a sender.  The loops of fill_window and       *)
(* remove_outstanding_segments are given in closed form.                   *)
(***************************************************************************)
EXTENDS ByteStream, WrappingIntegers, TCPSegment

CONSTANTS MAX_PAYLOAD_SIZE,   \* TCPConfig::MAX_PAYLOAD_SIZE
          RtTimeout           \* TCPConfig::rt_timeout, in milliseconds

ASSUME SenderConfigAssumption ==
    /\ MAX_PAYLOAD_SIZE \in Nat \ {0}
    /\ RtTimeout \in Nat \ {0}

\* _init_timer_backup is RtTimeout.  The two timer members keep their odd names:
\* initial_retransmission_timeout is the timeout that runs now, and
\* retransmission_timeout the time that has passed.
NewSender(capacity, isn) ==
    [isn |-> isn, segments_out |-> <<>>, segments_outstanding |-> <<>>,
     initial_retransmission_timeout |-> RtTimeout, retransmission_timeout |-> 0,
     timer_enable |-> FALSE, consecutive_retransmissions |-> 0,
     stream |-> NewByteStream(capacity), next_seqno |-> 0, last_ackno |-> 0,
     window_size |-> 1, window_zero_valid |-> FALSE, fin_sent |-> FALSE]

\* The sequence numbers after the last one that segment o occupies.
OutstandingEnd(o) == o.abs_seqno + length_in_sequence_space(o.seg)

\* The lengths of the outstanding segments added up.
bytes_in_flight(s) ==
    LET o == s.segments_outstanding
        sum[i \in 0 .. Len(o)] ==
            IF i = 0 THEN 0 ELSE sum[i - 1] + length_in_sequence_space(o[i].seg)
    IN  sum[Len(o)]

\* An empty segment is sent but never outstanding.
send_empty_segment_with_this_header(s, header) ==
    [s EXCEPT !.segments_out = Append(@, [header EXCEPT !.seqno = wrap(s.next_seqno, s.isn)])]

send_empty_segment(s) == send_empty_segment_with_this_header(s, EmptySegment)

\* send_segment for a non-empty segment.
send_segment(s, seg, window_zero_flag) ==
    LET out == [seg EXCEPT !.seqno = wrap(s.next_seqno, s.isn)]
    IN  [s EXCEPT !.next_seqno = @ + length_in_sequence_space(seg),
                  !.segments_out = Append(@, out),
                  !.timer_enable = TRUE,
                  !.segments_outstanding =
                      Append(@, [abs_seqno |-> s.next_seqno, zero |-> window_zero_flag,
                                 seg |-> out])]

\* Mutant of WindowRoom: what is in flight does not count against the window.
WindowRoom_ignoring_flight(s) == s.window_size

\* How many sequence numbers fit between next_seqno and the end of the window.
WindowRoom(s) ==
    IF s.last_ackno + s.window_size >= s.next_seqno
    THEN s.last_ackno + s.window_size - s.next_seqno ELSE 0

\* Mutant of Chunk: every segment gets the sequence number of the first.
Chunk_same_seqno(s, len, fin, i) ==
    LET last == min(i * MAX_PAYLOAD_SIZE, len)
    IN  [EmptySegment EXCEPT !.seqno = wrap(s.next_seqno, s.isn),
                             !.payload = SubSeq(s.stream.buffer, (i - 1) * MAX_PAYLOAD_SIZE + 1,
                                                last),
                             !.fin = fin /\ last = len]

\* The i-th segment of those that carry the next len bytes of the stream, and
\* the FIN on the last one when fin is set.
Chunk(s, len, fin, i) ==
    LET first == (i - 1) * MAX_PAYLOAD_SIZE
        last == min(i * MAX_PAYLOAD_SIZE, len)
    IN  [EmptySegment EXCEPT !.seqno = wrap(s.next_seqno + first, s.isn),
                             !.payload = SubSeq(s.stream.buffer, first + 1, last),
                             !.fin = fin /\ last = len]

\* SendFromStream once the bytes, the FIN and the number of segments are known.
SendChunks(s, len, fin, count, window_zero_flag) ==
    LET segs == [i \in 1 .. count |-> Chunk(s, len, fin, i)]
    IN  [s EXCEPT !.stream = pop_output(@, len),
                  !.fin_sent = fin,
                  !.next_seqno = @ + len + (IF fin THEN 1 ELSE 0),
                  !.segments_out = @ \o segs,
                  !.timer_enable = @ \/ count > 0,
                  !.segments_outstanding =
                      @ \o [i \in 1 .. count |->
                              [abs_seqno |-> s.next_seqno + (i - 1) * MAX_PAYLOAD_SIZE,
                               zero |-> window_zero_flag, seg |-> segs[i]]]]

\* How many segments carry len bytes, or the FIN alone.
SegmentCount(len, fin) ==
    IF len = 0 THEN (IF fin THEN 1 ELSE 0) ELSE (len - 1) \div MAX_PAYLOAD_SIZE + 1

\* Mutant of SendFromStream: the FIN does not wait for the stream to be empty.
SendFromStream_early_fin(s, num_bytes_to_send, window_zero_flag) ==
    LET len == min(num_bytes_to_send, Len(s.stream.buffer))
        fin == s.stream.end_input /\ num_bytes_to_send > 0
    IN  SendChunks(s, len, fin, SegmentCount(len, fin), window_zero_flag)

\* The loop of fill_window: num_bytes_to_send sequence numbers may be used.  The
\* FIN takes one of them, and goes out once the stream is empty.
SendFromStream(s, num_bytes_to_send, window_zero_flag) ==
    LET len == min(num_bytes_to_send, Len(s.stream.buffer))
        fin == /\ s.stream.end_input
               /\ len = Len(s.stream.buffer)
               /\ num_bytes_to_send > len
    IN  SendChunks(s, len, fin, SegmentCount(len, fin), window_zero_flag)

fill_window(s) ==
    LET opened == IF s.next_seqno = 0
                  THEN send_segment(s, [EmptySegment EXCEPT !.syn = TRUE], FALSE) ELSE s
        window_zero_flag == opened.window_size = 0 /\ opened.window_zero_valid
        num_bytes_to_send == WindowRoom(opened) + (IF window_zero_flag THEN 1 ELSE 0)
        probing == [opened EXCEPT !.window_zero_valid = @ /\ ~window_zero_flag]
    IN  IF s.fin_sent THEN s
        ELSE SendFromStream(probing, num_bytes_to_send, window_zero_flag)

\* The index of the first outstanding segment that is not fully acknowledged.
FirstUnacknowledged(s) ==
    LET o == s.segments_outstanding
    IN  CHOOSE k \in 1 .. Len(o) + 1 :
            /\ \A i \in 1 .. k - 1 : OutstandingEnd(o[i]) <= s.last_ackno
            /\ k <= Len(o) => OutstandingEnd(o[k]) > s.last_ackno

\* Mutant of remove_outstanding_segments: one that ends right at the ackno stays.
remove_outstanding_segments_keep_one(s) ==
    LET first == FirstUnacknowledged([s EXCEPT !.last_ackno = @ - 1])
    IN  IF first = 1 THEN s
        ELSE [s EXCEPT !.segments_outstanding = SubSeq(@, first, Len(@)),
                       !.retransmission_timeout = 0,
                       !.initial_retransmission_timeout = RtTimeout,
                       !.timer_enable = first <= Len(s.segments_outstanding),
                       !.consecutive_retransmissions = 0]

\* Mutant of remove_outstanding_segments: the timer is not stopped.
remove_outstanding_segments_timer_on(s) ==
    LET first == FirstUnacknowledged(s)
    IN  IF first = 1 THEN s
        ELSE [s EXCEPT !.segments_outstanding = SubSeq(@, first, Len(@)),
                       !.retransmission_timeout = 0,
                       !.initial_retransmission_timeout = RtTimeout,
                       !.consecutive_retransmissions = 0]

\* The outstanding segments are in order, so the loop drops those in front of
\* the first one that is not fully acknowledged.
remove_outstanding_segments(s) ==
    LET first == FirstUnacknowledged(s)
    IN  IF first = 1 THEN s
        ELSE [s EXCEPT !.segments_outstanding = SubSeq(@, first, Len(@)),
                       !.retransmission_timeout = 0,
                       !.initial_retransmission_timeout = RtTimeout,
                       !.timer_enable = first <= Len(s.segments_outstanding),
                       !.consecutive_retransmissions = 0]

\* Mutant of ack_received: the window of an old acknowledgment is taken as if
\* it started at the newest one.
ack_received_stale_window(s, ackno, window_size) ==
    LET new_ackno == unwrap(ackno, s.isn, s.last_ackno)
        last_ackno == IF new_ackno > s.last_ackno THEN new_ackno ELSE s.last_ackno
        updated == [s EXCEPT !.last_ackno = last_ackno,
                             !.window_size = window_size,
                             !.window_zero_valid = @ \/ window_size = 0]
    IN  IF s.next_seqno = 0 \/ new_ackno > s.next_seqno THEN s
        ELSE fill_window(remove_outstanding_segments(updated))

\* Mutant of ack_received: the window it opened is not filled.
ack_received_no_fill(s, ackno, window_size) ==
    LET new_ackno == unwrap(ackno, s.isn, s.last_ackno)
        last_ackno == IF new_ackno > s.last_ackno THEN new_ackno ELSE s.last_ackno
        room == new_ackno + window_size - last_ackno
    IN  IF s.next_seqno = 0 \/ new_ackno > s.next_seqno THEN s
        ELSE remove_outstanding_segments(
                 [s EXCEPT !.last_ackno = last_ackno,
                           !.window_size = IF room > 0 THEN room ELSE 0,
                           !.window_zero_valid = @ \/ room <= 0])

ack_received(s, ackno, window_size) ==
    LET new_ackno == unwrap(ackno, s.isn, s.last_ackno)
        last_ackno == IF new_ackno > s.last_ackno THEN new_ackno ELSE s.last_ackno
        open == new_ackno + window_size > last_ackno
        updated == [s EXCEPT !.last_ackno = last_ackno,
                             !.window_size = IF open THEN new_ackno + window_size - last_ackno
                                             ELSE 0,
                             !.window_zero_valid = @ \/ ~open]
    IN  IF s.next_seqno = 0 \/ new_ackno > s.next_seqno THEN s
        ELSE fill_window(remove_outstanding_segments(updated))

\* Mutant of timeout_retransmission: a window probe counts, but does not back off.
timeout_retransmission_count_probes(s) ==
    LET front == Head(s.segments_outstanding)
    IN  [s EXCEPT !.segments_out = Append(@, front.seg),
                  !.initial_retransmission_timeout = IF front.zero THEN @ ELSE 2 * @,
                  !.consecutive_retransmissions = @ + 1]

\* The first outstanding segment goes out again.  The timeout doubles unless
\* that segment probes a zero window.
timeout_retransmission(s) ==
    LET front == Head(s.segments_outstanding)
    IN  IF s.segments_outstanding = <<>>
        THEN [s EXCEPT !.timer_enable = FALSE,
                       !.retransmission_timeout = 0,
                       !.initial_retransmission_timeout = RtTimeout,
                       !.consecutive_retransmissions = 0]
        ELSE [s EXCEPT !.segments_out = Append(@, front.seg),
                       !.initial_retransmission_timeout = IF front.zero THEN @ ELSE 2 * @,
                       !.consecutive_retransmissions = IF front.zero THEN @ ELSE @ + 1]

tick(s, ms_since_last_tick) ==
    LET elapsed == s.retransmission_timeout + ms_since_last_tick
    IN  IF ~s.timer_enable THEN s
        ELSE IF elapsed >= s.initial_retransmission_timeout
        THEN [timeout_retransmission([s EXCEPT !.retransmission_timeout = elapsed])
                  EXCEPT !.timer_enable = TRUE, !.retransmission_timeout = 0]
        ELSE [s EXCEPT !.retransmission_timeout = elapsed]
===============================================================================
