---------------------------- MODULE TCPSenderLoops ----------------------------
(***************************************************************************)
(* The loops of TCPSender, iteration by iteration, against the closed      *)
(* forms TCPSender gives for them, in every state the sender reaches.      *)
(***************************************************************************)
EXTENDS TCPSenderSpec

\* The while loop of fill_window: read up to a segment's payload, put the FIN on
\* the segment that empties the stream if there is room for it, and stop at the
\* first segment that would be empty.
RECURSIVE SendLoop(_, _, _)
SendLoop(s, num_bytes_to_send, window_zero_flag) ==
    LET payload == peek_output(s.stream, min(num_bytes_to_send, MAX_PAYLOAD_SIZE))
        read == pop_output(s.stream, min(num_bytes_to_send, MAX_PAYLOAD_SIZE))
        left == num_bytes_to_send - Len(payload)
        fin == eof(read) /\ left > 0 /\ ~s.fin_sent
        seg == [EmptySegment EXCEPT !.payload = payload, !.fin = fin]
        sent == send_segment([s EXCEPT !.stream = read, !.fin_sent = @ \/ fin],
                             seg, window_zero_flag)
    IN  IF num_bytes_to_send = 0 \/ length_in_sequence_space(seg) = 0 THEN s
        ELSE SendLoop(sent, left - (IF fin THEN 1 ELSE 0), window_zero_flag)

\* The while loop of remove_outstanding_segments.
RECURSIVE PopAcknowledged(_, _)
PopAcknowledged(o, last_ackno) ==
    IF o # <<>> /\ OutstandingEnd(Head(o)) <= last_ackno
    THEN PopAcknowledged(Tail(o), last_ackno) ELSE o

-------------------------------------------------------------------------------
\* The loops do what the closed forms of TCPSender say: fill_window's sends the segments of
\* SendFromStream, whatever the stream holds, however much room there is and wherever payloads are cut;
\* remove_outstanding_segments pops the same segments for every acknowledgment, also one that cuts a
\* segment in two.
LoopsAreTheirClosedForms ==
    /\ ~snd.fin_sent =>
          \A room \in 0 .. SendCapacity + 2, zero \in BOOLEAN :
              SendFromStream(snd, room, zero) = SendLoop(snd, room, zero)
    /\ \A ack \in 0 .. snd.next_seqno :
          remove_outstanding_segments([snd EXCEPT !.last_ackno = ack]).segments_outstanding
              = PopAcknowledged(snd.segments_outstanding, ack)
===============================================================================
