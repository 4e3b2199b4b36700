------------------------------- MODULE TCPState -------------------------------
(***************************************************************************)
(* The names of the states of a connection (tcp_helpers/tcp_state.cc).     *)
(* TCPSpongeSocket decides with them when connect() and                    *)
(* listen_and_accept() return.                                             *)
(***************************************************************************)
EXTENDS TCPConnection

state_summary_receiver(rcv) ==
    IF R!stream_out(rcv).error THEN "ERROR"
    ELSE IF ~R!has_ackno(rcv) THEN "LISTEN"
    ELSE IF R!stream_out(rcv).end_input THEN "FIN_RECV" ELSE "SYN_RECV"

state_summary_sender(snd) ==
    LET fin_sent == /\ S!eof(snd.stream)
                    /\ snd.next_seqno >= snd.stream.bytes_written + 2
    IN  IF snd.stream.error THEN "ERROR"
        ELSE IF snd.next_seqno = 0 THEN "CLOSED"
        ELSE IF snd.next_seqno = S!bytes_in_flight(snd) THEN "SYN_SENT"
        ELSE IF ~fin_sent THEN "SYN_ACKED"
        ELSE IF S!bytes_in_flight(snd) # 0 THEN "FIN_SENT" ELSE "FIN_ACKED"

Summary(receiver, sender, linger, is_active) ==
    [receiver |-> receiver, sender |-> sender, linger |-> is_active /\ linger,
     active |-> is_active]

state(c) ==
    Summary(state_summary_receiver(c.receiver), state_summary_sender(c.sender),
            c.linger_after_streams_finish, active(c))

\* The constructor from one of the official names.
State ==
    [LISTEN      |-> Summary("LISTEN",   "CLOSED",    TRUE,  TRUE),
     SYN_RCVD    |-> Summary("SYN_RECV", "SYN_SENT",  TRUE,  TRUE),
     SYN_SENT    |-> Summary("LISTEN",   "SYN_SENT",  TRUE,  TRUE),
     ESTABLISHED |-> Summary("SYN_RECV", "SYN_ACKED", TRUE,  TRUE),
     CLOSE_WAIT  |-> Summary("FIN_RECV", "SYN_ACKED", FALSE, TRUE),
     LAST_ACK    |-> Summary("FIN_RECV", "FIN_SENT",  FALSE, TRUE),
     CLOSING     |-> Summary("FIN_RECV", "FIN_SENT",  TRUE,  TRUE),
     FIN_WAIT_1  |-> Summary("SYN_RECV", "FIN_SENT",  TRUE,  TRUE),
     FIN_WAIT_2  |-> Summary("SYN_RECV", "FIN_ACKED", TRUE,  TRUE),
     TIME_WAIT   |-> Summary("FIN_RECV", "FIN_ACKED", TRUE,  TRUE),
     RESET       |-> Summary("ERROR",    "ERROR",     FALSE, FALSE),
     CLOSED      |-> Summary("FIN_RECV", "FIN_ACKED", FALSE, FALSE)]
===============================================================================
