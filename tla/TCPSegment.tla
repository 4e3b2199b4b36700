------------------------------ MODULE TCPSegment ------------------------------
(***************************************************************************)
(* The parts of a TCP segment the protocol looks at                        *)
(* (tcp_helpers/tcp_header.hh, tcp_helpers/tcp_segment.cc).  The ports and *)
(* the checksum play no part once a segment is parsed.                     *)
(***************************************************************************)
EXTENDS Integers, Sequences

\* A default-constructed segment: empty payload, no flag set, window 0.
EmptySegment ==
    [seqno |-> 0, ackno |-> 0, syn |-> FALSE, ack |-> FALSE, rst |-> FALSE,
     fin |-> FALSE, win |-> 0, payload |-> <<>>]

length_in_sequence_space(seg) ==
    Len(seg.payload) + (IF seg.syn THEN 1 ELSE 0) + (IF seg.fin THEN 1 ELSE 0)
===============================================================================
