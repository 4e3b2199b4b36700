------------------------------ MODULE TCPNetwork ------------------------------
(***************************************************************************)
(* Two connections, the owners that drive them as TCPSpongeSocket does,    *)
(* and a network between them.  A limited number of faults may happen: a   *)
(* segment is lost, a segment is delivered twice, or a timer runs ahead of *)
(* a segment that is still on its way.                                     *)
(***************************************************************************)
EXTENDS TCPState, SequencesExt, TLC

CONSTANTS Client, Server,   \* the two peers; the client opens the connection
          Isn,              \* Isn[p]: the initial sequence number of p
          SendCapacity, RecvCapacity,
          Reordering,       \* whether segments may overtake each other
          Clocks,           \* the sets of peers whose clocks may advance together
          Workloads         \* bound: how much is written and how many faults happen

Peer == {Client, Server}

Other(p) == IF p = Client THEN Server ELSE Client

ASSUME NetworkAssumption ==
    /\ Client # Server
    /\ Isn \in [Peer -> 0 .. Mod32 - 1]
    /\ Reordering \in BOOLEAN
    /\ Clocks \subseteq SUBSET Peer
    /\ \A w \in Workloads : w.length \in [Peer -> Nat] /\ w.faults \in Nat

VARIABLES conn,   \* conn[p]: the TCPConnection of p
          net,    \* net[p]: the segments on their way to p
          work    \* the workload, with the faults that may still happen

vars == <<conn, net, work>>

\* How many bytes the application of p writes.
StreamLength(p) == work.length[p]

Init ==
    /\ conn = [p \in Peer |-> NewConnection(SendCapacity, RecvCapacity, Isn[p])]
    /\ net = [p \in Peer |-> <<>>]
    /\ \E w \in Workloads : work = [length |-> w.length, faults |-> w.faults, faultless |-> TRUE]

\* The owners in who hand the segments of their connections to the network.
Emit(who, next, arriving) ==
    /\ conn' = [p \in Peer |-> IF p \in who THEN [next[p] EXCEPT !.segments_out = <<>>]
                               ELSE next[p]]
    /\ net' = [p \in Peer |-> IF Other(p) \in who
                              THEN arriving[p] \o next[Other(p)].segments_out
                              ELSE arriving[p]]

Step(p, c) == Emit({p}, [conn EXCEPT ![p] = c], net)

Fault ==
    /\ work.faults > 0
    /\ work' = [work EXCEPT !.faults = @ - 1, !.faultless = FALSE]

\* The handshake is done in both directions and the connection lives, so the
\* owner's connect() or listen_and_accept() has returned and the application
\* can write to the socket.
CanWrite(p) ==
    /\ conn[p].sender.last_ackno > 0 /\ R!has_ackno(conn[p].receiver)
    /\ active(conn[p])
    /\ ~outbound(conn[p]).end_input

CanConnect == conn[Client].sender.next_seqno = 0

Connect ==
    /\ CanConnect
    /\ Step(Client, connect(conn[Client]))
    /\ UNCHANGED work

Unwritten(p) == StreamLength(p) - outbound(conn[p]).bytes_written

Write(p, len) ==
    /\ CanWrite(p)
    /\ len <= S!min(Unwritten(p), S!remaining_capacity(outbound(conn[p])))
    /\ Step(p, write(conn[p], S!Run(outbound(conn[p]).bytes_written, len)))
    /\ UNCHANGED work

\* At the end of the application's data the owner reads, and writes, no byte.
EndInput(p) ==
    /\ CanWrite(p) /\ Unwritten(p) = 0
    /\ S!remaining_capacity(outbound(conn[p])) > 0
    /\ Step(p, end_input_stream(write(conn[p], <<>>)))
    /\ UNCHANGED work

\* The application's pipe takes len bytes of the inbound stream.
Read(p, len) ==
    /\ len <= Len(inbound(conn[p]).buffer)
    /\ conn' = [conn EXCEPT ![p].receiver.reassembler.output = S!pop_output(@, len)]
    /\ UNCHANGED <<net, work>>

\* The segments that may be the next one to reach p.
Deliverable(p) == {i \in DOMAIN net[p] : Reordering \/ i = 1}

Deliver(p, i) ==
    /\ Emit({p}, [conn EXCEPT ![p] = segment_received(@, net[p][i])],
                 [net EXCEPT ![p] = RemoveAt(@, i)])
    /\ UNCHANGED work

DeliverTwice(p, i) ==
    /\ Fault
    /\ Step(p, segment_received(conn[p], net[p][i]))

Lose(p, i) ==
    /\ Fault
    /\ net' = [net EXCEPT ![p] = RemoveAt(@, i)]
    /\ UNCHANGED conn

\* Bound: the clock of a connection that was reset stops (active() can stay true
\* there, and the timeout would double for ever).
Ticks(p) == active(conn[p]) /\ ~outbound(conn[p]).error

Quiet == \A p \in Peer : net[p] = <<>>

\* One retransmission timeout passes on the clocks of who.  Without a fault this
\* takes longer than a segment needs to arrive.
Tick(who) ==
    /\ \E p \in who : Ticks(p)
    /\ IF Quiet THEN UNCHANGED work ELSE Fault
    /\ Emit(who, [p \in Peer |-> IF p \in who /\ Ticks(p) THEN tick(conn[p], RtTimeout)
                                 ELSE conn[p]], net)

Next ==
    \/ Connect
    \/ \E p \in Peer :
          \/ \E len \in 1 .. StreamLength(p) : Write(p, len)
          \/ EndInput(p)
          \/ \E len \in 1 .. RecvCapacity : Read(p, len)
          \/ \E i \in Deliverable(p) : Deliver(p, i) \/ DeliverTwice(p, i) \/ Lose(p, i)
    \/ \E who \in Clocks : Tick(who)

Spec == Init /\ [][Next]_vars

\* A tick changes something while a timer runs.
TimerRuns(p) ==
    /\ Ticks(p)
    /\ \/ conn[p].sender.timer_enable
       \/ conn[p].time_since_last_segment_received < LingerTime

-------------------------------------------------------------------------------
\* What one application reads is a prefix of what the other one wrote, in
\* order and complete, whatever the network does to the segments.
StreamsArriveInOrder ==
    \A p \in Peer :
        /\ S!InOrder(inbound(conn[p]))
        /\ inbound(conn[p]).bytes_written <= outbound(conn[Other(p)]).bytes_read

\* An inbound stream ends only after the last byte the peer wrote, and only
\* once the peer's application closed its side.
EndIsTheEnd ==
    \A p \in Peer : inbound(conn[p]).end_input =>
        /\ outbound(conn[Other(p)]).end_input
        /\ inbound(conn[p]).bytes_written = outbound(conn[Other(p)]).bytes_written

\* A sender never takes for acknowledged what its peer's receiver has not
\* assembled, and never thinks the window reaches further than it does, so
\* everything fill_window sends inside the window is accepted.
SenderKnowsNoMoreThanReceiver ==
    \A p \in Peer :
        LET snd == conn[p].sender
            rcv == conn[Other(p)].receiver
        IN  snd.last_ackno > 0 =>
                /\ R!has_ackno(rcv)
                /\ snd.last_ackno <= R!abs_ackno(rcv)
                /\ snd.last_ackno + snd.window_size <= R!abs_ackno(rcv) + R!window_size(rcv)

\* A connection that is over without an error has sent its whole stream and the
\* peer has it, and has received the peer's whole stream.
CleanCloseIsComplete ==
    \A p \in Peer :
        (~active(conn[p]) /\ ~inbound(conn[p]).error) =>
            /\ inbound(conn[Other(p)]).end_input
            /\ inbound(conn[p]).end_input /\ inbound(conn[p]).buffer = <<>>
            /\ inbound(conn[Other(p)]).bytes_written = StreamLength(p)

\* As long as nothing was lost, repeated or late, no connection is reset,
\* whatever the order in which the segments arrive and the applications act.
FaultFreeIsClean ==
    work.faultless => \A p \in Peer : ~inbound(conn[p]).error /\ ~outbound(conn[p]).error

\* The arcs of the state diagram of RFC 793.
Arcs ==
    {<<"LISTEN", "SYN_SENT">>, <<"LISTEN", "SYN_RCVD">>, <<"SYN_SENT", "SYN_RCVD">>,
     <<"SYN_SENT", "ESTABLISHED">>, <<"SYN_RCVD", "ESTABLISHED">>, <<"ESTABLISHED", "FIN_WAIT_1">>,
     <<"ESTABLISHED", "CLOSE_WAIT">>, <<"FIN_WAIT_1", "FIN_WAIT_2">>, <<"FIN_WAIT_1", "CLOSING">>,
     <<"FIN_WAIT_1", "TIME_WAIT">>, <<"FIN_WAIT_2", "TIME_WAIT">>, <<"CLOSING", "TIME_WAIT">>,
     <<"CLOSE_WAIT", "LAST_ACK">>, <<"LAST_ACK", "CLOSED">>, <<"TIME_WAIT", "CLOSED">>}

\* The states that tcp_state.cc has no name for.  HALF_OPEN: an acknowledgment came
\* before the SYN it should be on.  EARLY_...: a FIN that overtook data has ended
\* lingering, and the inbound stream has not ended.  UNREAD: only the application
\* has not read to the end.  GIVEN_UP...: in error, with both streams at their ends
\* and a segment in flight, which active() looks at first.
Unnamed ==
    [HALF_OPEN          |-> Summary("LISTEN",   "SYN_ACKED", TRUE,  TRUE),
     EARLY_CLOSE_WAIT   |-> Summary("SYN_RECV", "SYN_ACKED", FALSE, TRUE),
     EARLY_LAST_ACK     |-> Summary("SYN_RECV", "FIN_SENT",  FALSE, TRUE),
     EARLY_CLOSED       |-> Summary("SYN_RECV", "FIN_ACKED", FALSE, TRUE),
     UNREAD             |-> Summary("FIN_RECV", "FIN_ACKED", FALSE, TRUE),
     GIVEN_UP           |-> Summary("ERROR",    "ERROR",     FALSE, TRUE),
     GIVEN_UP_LINGERING |-> Summary("ERROR",    "ERROR",     TRUE,  TRUE)]

\* The ways through them, and the FIN that also acknowledges the SYN, which takes
\* two arcs at once.
Detours ==
    {<<"SYN_SENT", "HALF_OPEN">>, <<"HALF_OPEN", "ESTABLISHED">>, <<"SYN_RCVD", "CLOSE_WAIT">>,
     <<"SYN_RCVD", "EARLY_CLOSE_WAIT">>, <<"ESTABLISHED", "EARLY_CLOSE_WAIT">>,
     <<"EARLY_CLOSE_WAIT", "CLOSE_WAIT">>, <<"EARLY_CLOSE_WAIT", "EARLY_LAST_ACK">>,
     <<"EARLY_LAST_ACK", "LAST_ACK">>, <<"EARLY_LAST_ACK", "EARLY_CLOSED">>,
     <<"EARLY_LAST_ACK", "UNREAD">>, <<"EARLY_CLOSED", "UNREAD">>,
     <<"LAST_ACK", "UNREAD">>, <<"UNREAD", "CLOSED">>,
     <<"LAST_ACK", "GIVEN_UP">>, <<"CLOSING", "GIVEN_UP_LINGERING">>,
     <<"RESET", "GIVEN_UP">>, <<"RESET", "GIVEN_UP_LINGERING">>}

\* However segments are reordered, lost and repeated, whenever the summary that
\* tcp_state.cc computes of a connection changes, it goes along an arc of RFC 793
\* or one of the detours above, or to RESET: the two sides of the diagram, of the
\* peer that closes first and of the other, are never mixed, and no other state
\* without a name is ever passed through.
StatesFollowDiagram ==
    [][\A p \in Peer :
          LET old == state(conn[p])
              new == state(conn'[p])
              named == State @@ Unnamed
          IN  \/ new \in {old, State.RESET}
              \/ \E arc \in Arcs \cup Detours : named[arc[1]] = old /\ named[arc[2]] = new]_vars

\* tcp_connection.hh: a connection lingers "in case the remote TCPConnection
\* doesn't know we've received its whole stream".  So one that is over without
\* lingering has a peer that knows it: nothing of the peer is unacknowledged.
NoLingerOnlyIfPeerKnows ==
    \A p \in Peer :
        (~active(conn[p]) /\ ~inbound(conn[p]).error
            /\ ~conn[p].linger_after_streams_finish) =>
                conn[Other(p)].sender.segments_outstanding = <<>>

\* Both connections end without an error, and each application has read all the
\* other one wrote.
Completed ==
    \A p \in Peer :
        /\ ~active(conn[p]) /\ ~inbound(conn[p]).error
        /\ inbound(conn[p]).bytes_read = StreamLength(Other(p))
===============================================================================
