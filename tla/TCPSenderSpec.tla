----------------------------- MODULE TCPSenderSpec -----------------------------
(***************************************************************************)
(* The sender between an application that writes a stream and a network    *)
(* that brings acknowledgments in any order, old and repeated ones and     *)
(* ones for data that was never sent included.                             *)
(***************************************************************************)
EXTENDS TCPSender

CONSTANTS SendCapacity,       \* the capacity of the outbound stream
          Isns,               \* the initial sequence number is one of these
          MAX_RETX_ATTEMPTS,  \* TCPConfig::MAX_RETX_ATTEMPTS
          StreamLimit,        \* bound: the application writes this many bytes
          Windows,            \* bound: the window sizes the peer advertises
          Delays              \* bound: the milliseconds between two ticks

ASSUME SenderAssumption ==
    /\ SendCapacity \in Nat /\ StreamLimit \in Nat /\ MAX_RETX_ATTEMPTS \in Nat
    /\ Isns \subseteq WrappingInt32
    /\ Windows \subseteq Nat /\ Delays \subseteq Nat

VARIABLE snd

Init == \E isn \in Isns : snd = NewSender(SendCapacity, isn)

\* TCPConnection empties segments_out at the end of each of its calls, so it
\* holds what the last call sent.
Popped(s) == [s EXCEPT !.segments_out = <<>>]

FillWindow == snd' = fill_window(Popped(snd))

\* The application writes len more bytes, or as many as there is space for.
Write(len) ==
    /\ snd.stream.bytes_written + len <= StreamLimit
    /\ LET data == Run(snd.stream.bytes_written, len)
       IN  snd' = fill_window([Popped(snd) EXCEPT !.stream = write(@, data)])

EndInput == snd' = fill_window([Popped(snd) EXCEPT !.stream = end_input(@)])

\* The acknowledgment of everything before abs, with a window.
AckReceived(abs, win) ==
    snd' = ack_received(Popped(snd), wrap(abs, snd.isn), win)

\* TCPConnection resets the connection after too many retransmissions.
Tick(ms) ==
    /\ snd.consecutive_retransmissions <= MAX_RETX_ATTEMPTS
    /\ snd' = tick(Popped(snd), ms)

SendEmpty == snd' = send_empty_segment(Popped(snd))

Next ==
    \/ FillWindow
    \/ \E len \in 1 .. StreamLimit : Write(len)
    \/ EndInput
    \/ \E abs \in 1 .. StreamLimit + 3, win \in Windows : AckReceived(abs, win)
    \/ \E ms \in Delays : Tick(ms)
    \/ SendEmpty

Spec == Init /\ [][Next]_snd

-------------------------------------------------------------------------------
\* What send_segment adds and remove_outstanding_segments takes away always
\* tile the sequence numbers from the first one that is not acknowledged up to
\* next_seqno: nothing that was sent and not acknowledged is ever forgotten,
\* nothing is kept after it was acknowledged.
OutstandingTilesFlight ==
    LET o == snd.segments_outstanding
    IN  /\ o = <<>> => snd.last_ackno = snd.next_seqno
        /\ o # <<>> => /\ o[1].abs_seqno <= snd.last_ackno
                       /\ snd.last_ackno < OutstandingEnd(o[1])
                       /\ OutstandingEnd(o[Len(o)]) = snd.next_seqno
        /\ \A i \in 1 .. Len(o) - 1 : OutstandingEnd(o[i]) = o[i + 1].abs_seqno

\* The retransmission timer runs exactly while something is outstanding, and
\* tick never leaves it expired.
TimerRunsWhileOutstanding ==
    /\ snd.timer_enable <=> snd.segments_outstanding # <<>>
    /\ IF snd.timer_enable
       THEN snd.retransmission_timeout < snd.initial_retransmission_timeout
       ELSE snd.retransmission_timeout = 0

\* next_seqno counts the SYN, the bytes fill_window took from the stream and
\* the FIN, which goes out only after the last byte; each outstanding segment
\* carries the SYN, the bytes or the FIN its sequence number stands for, and no
\* more than MAX_PAYLOAD_SIZE bytes; and what a call sends is one of those or an
\* empty segment at next_seqno, so a retransmission repeats what was sent first.
SegmentsCarryTheirBytes ==
    LET outstanding == {snd.segments_outstanding[i] : i \in DOMAIN snd.segments_outstanding}
        sent == {snd.segments_out[i] : i \in DOMAIN snd.segments_out}
    IN  /\ snd.next_seqno = IF snd.next_seqno = 0 THEN 0
                            ELSE 1 + snd.stream.bytes_read + (IF snd.fin_sent THEN 1 ELSE 0)
        /\ snd.fin_sent => eof(snd.stream)
        /\ \A o \in outstanding :
            /\ o.seg.seqno = wrap(o.abs_seqno, snd.isn)
            /\ o.seg.syn <=> o.abs_seqno = 0
            /\ o.seg.payload = Run(o.abs_seqno - 1, Len(o.seg.payload))
            /\ Len(o.seg.payload) <= MAX_PAYLOAD_SIZE
            /\ o.seg.fin <=> (snd.fin_sent /\ OutstandingEnd(o) = snd.next_seqno)
        /\ \A seg \in sent :
            \/ \E o \in outstanding : seg = o.seg
            \/ seg = [EmptySegment EXCEPT !.seqno = wrap(snd.next_seqno, snd.isn)]

\* The exponential backoff: the timeout is the initial one doubled once for
\* each consecutive retransmission, however acknowledgments and zero-window
\* probes are mixed with the timeouts.
BackoffMatchesCount ==
    snd.initial_retransmission_timeout = RtTimeout * 2^snd.consecutive_retransmissions

\* The comment on fill_window: it sends until the window is filled.  While the
\* window is open, data or a FIN waits only for want of window.
OpenWindowIsFilled ==
    (snd.next_seqno > 0 /\ ~snd.fin_sent /\ snd.window_size > 0) =>
        \/ snd.next_seqno >= snd.last_ackno + snd.window_size
        \/ snd.stream.buffer = <<>> /\ ~snd.stream.end_input

\* New data stays inside an open window; beyond it, fill_window sends the SYN
\* and, against a closed window, one sequence number at a time.
NothingPastWindow ==
    [][snd'.next_seqno > snd.next_seqno =>
          \/ snd.next_seqno = 0
          \/ snd'.next_seqno <= snd'.last_ackno + snd'.window_size
          \/ snd'.window_size = 0 /\ snd'.next_seqno = snd.next_seqno + 1]_snd
===============================================================================
