--------------------------- MODULE TCPSpongeSocket ---------------------------
(***************************************************************************)
(* A TCPSpongeSocket (tcp_helpers/tcp_sponge_socket.cc): an application,   *)
(* the thread that runs the connection in an EventLoop, and the pair of    *)
(* local stream sockets between them.  The socket is one of the two peers  *)
(* of TCPNetwork; the other one is driven as there.                        *)
(***************************************************************************)
EXTENDS TCPNetwork, FileDescriptor

CONSTANTS SocketPeers,   \* the peers that may be the socket
          MayDestroy     \* whether the application may leave a socket in use

VARIABLES self,   \* the peer that is the socket
          sock,   \* what the thread uses of the TCPSpongeSocket, and where it is
          up,     \* the bytes from the application to the thread
          down,   \* the bytes from the thread to the application
          app     \* the application

peer == Other(self)

svars == <<vars, self, sock, up, down, app>>

\* The socket with its connection, as the callbacks see it.
View == [tcp |-> conn[self]] @@ sock

Commit(s) ==
    /\ conn' = [conn EXCEPT ![self] = s.tcp]
    /\ sock' = [f \in DOMAIN sock |-> s[f]]

\* Mutant of Interest: rule 3 stops with the connection.
Interest_while_active(rule, s) ==
    LET in == inbound(s.tcp)
        room == S!remaining_capacity(outbound(s.tcp)) > 0
    IN  [segment_in  |-> active(s.tcp),
         outbound    |-> active(s.tcp) /\ ~s.outbound_shutdown /\ room,
         inbound     |-> active(s.tcp) /\ (in.buffer # <<>> \/ (S!eof(in) /\ ~s.inbound_shutdown)),
         segment_out |-> s.tcp.segments_out # <<>>][rule.name]

Interest(rule, s) ==
    LET in == inbound(s.tcp)
        room == S!remaining_capacity(outbound(s.tcp)) > 0
    IN  [segment_in  |-> active(s.tcp),
         outbound    |-> active(s.tcp) /\ ~s.outbound_shutdown /\ room,
         inbound     |-> in.buffer # <<>> \/ ((S!eof(in) \/ in.error) /\ ~s.inbound_shutdown),
         segment_out |-> s.tcp.segments_out # <<>>][rule.name]

\* The second half of rule 2, and its cancel callback; the others have none.
EndOutbound(s) == [s EXCEPT !.tcp = end_input_stream(@), !.outbound_shutdown = TRUE]

Cancel(rule, s) == IF rule.name = "outbound" THEN EndOutbound(s) ELSE s

INSTANCE EventLoop

\* _initialize_TCP: the four rules, in the order in which they are added.
SocketRules == <<Rule("segment_in", "datagram", "In"), Rule("outbound", "data", "In"),
                 Rule("inbound", "data", "Out"), Rule("segment_out", "datagram", "Out")>>

SocketInit ==
    /\ Init
    /\ self \in SocketPeers
    /\ sock = [loop |-> NewLoop(SocketRules, [fd \in {"datagram", "data"} |-> NewFD]),
               inbound_shutdown |-> FALSE, outbound_shutdown |-> FALSE,
               abort |-> FALSE, elapsed |-> 0, connecting |-> TRUE, pc |-> "new"]
    /\ up = NewChannel /\ down = NewChannel
    /\ app = [pc |-> "opening", read |-> 0, eof |-> FALSE]

-------------------------------------------------------------------------------
\* connect() and listen_and_accept(), up to their loop.
Open ==
    /\ sock.pc = "new"
    /\ LET tcp == IF self = Client THEN connect(conn[self]) ELSE conn[self]
           expected == self = Client => state(tcp) = State.SYN_SENT
       IN  Commit([View EXCEPT !.tcp = tcp, !.pc = IF expected THEN "loop" ELSE "thrown"])
    /\ UNCHANGED <<net, work, self, up, down, app>>

\* The condition of the loop in which connect() or listen_and_accept() waits.
Waiting ==
    LET names == IF self = Client THEN {"SYN_SENT"} ELSE {"LISTEN", "SYN_RCVD", "SYN_SENT"}
    IN  \E n \in names : state(conn[self]) = State[n]

\* That loop is over: the thread is started and the application goes on.
Opened ==
    /\ sock.connecting
    /\ sock.pc = "exit" \/ (sock.pc = "loop" /\ ~Waiting)
    /\ sock' = [sock EXCEPT !.connecting = FALSE, !.pc = "loop"]
    /\ app' = [app EXCEPT !.pc = "open"]
    /\ UNCHANGED <<vars, self, up, down>>

\* What poll() can report of the two descriptors.
Ready(rule) ==
    [segment_in  |-> net[self] # <<>>, outbound |-> HasInput(up),
     inbound     |-> HasRoom(down),    segment_out |-> TRUE][rule.name]

Hup == {fd \in {"data"} : up.ended /\ (down.ended \/ down.refused)}

\* Mutant of EndOfRound: the connection does not learn that time passes.
EndOfRound_no_tick(s) ==
    [s EXCEPT !.pc = IF s.abort THEN "exit" ELSE "loop", !.elapsed = 0]

\* The rest of a round of _tcp_loop, once every rule of the results was handled.
\* (abort and elapsed change at any time; a change after this is seen in the next
\* round.)  Bound: as in Ticks, the clock of a connection that was reset stops.
EndOfRound(s) ==
    IF s.abort THEN [s EXCEPT !.pc = "exit"]
    ELSE LET ticks == active(s.tcp) /\ ~outbound(s.tcp).error
         IN  [s EXCEPT !.pc = "loop", !.elapsed = 0,
                       !.tcp = IF ticks THEN tick(@, s.elapsed) ELSE @]

Continue(s) ==
    Commit(IF s.loop.todo = <<>> THEN EndOfRound(s) ELSE [s EXCEPT !.pc = "rules"])

\* wait_next_event up to its callbacks.  After its set-up it comes back when there
\* is no event to wait for or one has happened, and otherwise after 10 ms, which
\* is a step when there is something new to see.
Prepared == SetUp(View)

\* (The pair is only ever shut down, and the datagram socket is not connected:
\* poll() reports no error of either.)
PollResult(set) == Polled(set.s, set.events, {rule \in set.events : Ready(rule)}, Hup, {})

Returns(set) ==
    \/ sock.elapsed > 0 \/ sock.abort \/ set.events = {}
    \/ \E rule \in set.events : Ready(rule) \/ rule.fd \in Hup
    \/ set.s.loop.rules # sock.loop.rules

CanWaitNextEvent ==
    sock.pc = "loop" /\ (sock.connecting => Waiting) /\ Returns(Prepared)

WaitNextEvent ==
    /\ sock.pc = "loop" /\ (sock.connecting => Waiting)
    /\ LET set == Prepared
       IN  /\ Returns(set)
           /\ IF set.events = {} THEN Commit([set.s EXCEPT !.pc = "exit"])
              ELSE Continue(PollResult(set))
    /\ UNCHANGED <<net, work, self, up, down, app>>

\* The next rule of the results, ready or hung up.
Handles(name, hung) ==
    /\ sock.pc = "rules"
    /\ NextRule(sock).name = name
    /\ (NextRule(sock) \in sock.loop.hung) = hung

Handled(s, thrown) ==
    IF thrown \/ BusyWait(s, NextRule(sock)) THEN Commit([s EXCEPT !.pc = "thrown"])
    ELSE Continue(Counted(s, NextRule(sock)))

HungUp ==
    /\ \E name \in {"outbound", "inbound"} : Handles(name, TRUE)
    /\ Continue(Cancel(NextRule(sock), Erase(Taken(View), NextRule(sock))))
    /\ UNCHANGED <<net, work, self, up, down, app>>

\* Rule 1: a datagram arrives.
SegmentIn ==
    /\ Handles("segment_in", FALSE)
    /\ Handled([Taken(View) EXCEPT !.tcp = segment_received(@, Head(net[self])),
                                   !.loop.fds["datagram"] = register_read(@)], FALSE)
    /\ net' = [net EXCEPT ![self] = Tail(@)]
    /\ UNCHANGED <<work, self, up, down, app>>

\* Rule 2: bytes of the application arrive.
Outbound ==
    /\ Handles("outbound", FALSE)
    /\ LET room == S!remaining_capacity(outbound(conn[self]))
       IN  \E len \in ReadCounts(up, room) :
              LET data == SubSeq(up.queue, 1, len)
                  s == [Taken(View) EXCEPT !.tcp = write(@, data),
                                           !.loop.fds["data"] = read(@, room, len)]
                  amount_written == outbound(s.tcp).bytes_written
                                        - outbound(conn[self]).bytes_written
              IN  /\ Handled(IF s.loop.fds["data"].eof THEN EndOutbound(s) ELSE s,
                             amount_written # len)
                  /\ up' = TakeBytes(up, len)
    /\ UNCHANGED <<net, work, self, down, app>>

\* Mutant of PopWritten: what was peeked is popped, not what was written.
PopWritten_all(tcp, len) ==
    [tcp EXCEPT !.receiver.reassembler.output = S!pop_output(@, Len(@.buffer))]

PopWritten(tcp, len) ==
    [tcp EXCEPT !.receiver.reassembler.output = S!pop_output(@, len)]

\* Mutants of Over: the stream was ended, or there is nothing in it now.
Over_end_input(in) == in.end_input \/ in.error
Over_when_empty(in) == in.buffer = <<>> \/ in.error

Over(in) == S!eof(in) \/ in.error

\* Rule 3: bytes go to the application; at the end, or after a reset, its input ends.
Inbound ==
    /\ Handles("inbound", FALSE)
    /\ LET buffer == inbound(conn[self]).buffer
           broken == Broken(down, Len(buffer))
       IN  \E len \in IF broken THEN {0} ELSE WriteCounts(down, Len(buffer)) :
              LET s == [Taken(View) EXCEPT !.tcp = PopWritten(@, len),
                                           !.loop.fds["data"] = register_write(@)]
                  over == Over(inbound(s.tcp)) /\ ~broken
              IN  /\ Handled([s EXCEPT !.inbound_shutdown = @ \/ over], broken)
                  /\ down' = [PutBytes(down, SubSeq(buffer, 1, len)) EXCEPT !.ended = @ \/ over]
    /\ UNCHANGED <<net, work, self, up, app>>

\* Rule 4: the segments of the connection leave.
SegmentOut ==
    /\ Handles("segment_out", FALSE)
    /\ Handled([Taken(View) EXCEPT !.tcp.segments_out = <<>>,
                                   !.loop.fds["datagram"] = register_write(@)], FALSE)
    /\ net' = [net EXCEPT ![peer] = @ \o conn[self].segments_out]
    /\ UNCHANGED <<work, self, up, down, app>>

\* The end of _tcp_main: the application's end of the pair is shut down in both
\* directions and the connection is destroyed, with what it has in segments_out.
Finish ==
    /\ sock.pc = "exit" /\ ~sock.connecting
    /\ Commit([View EXCEPT !.tcp = destruct(@), !.pc = "ended"])
    /\ up' = [up EXCEPT !.ended = TRUE]
    /\ down' = [down EXCEPT !.ended = TRUE, !.refused = TRUE]
    /\ UNCHANGED <<net, work, self, app>>

-------------------------------------------------------------------------------
\* The application.  It writes its stream and shuts down its side, reads to the
\* end, and then calls wait_until_closed.
Written == outbound(conn[self]).bytes_written + Len(up.queue)

CanAppWrite == app.pc = "open" /\ ~up.ended /\ Written < StreamLength(self) /\ HasRoom(up)

AppWrite ==
    /\ CanAppWrite
    /\ \E len \in WriteCounts(up, StreamLength(self) - Written) :
          up' = PutBytes(up, S!Run(Written, len))
    /\ UNCHANGED <<vars, self, sock, down, app>>

CanAppShutdown == app.pc = "open" /\ ~up.ended /\ Written = StreamLength(self)

AppShutdown ==
    /\ CanAppShutdown
    /\ up' = [up EXCEPT !.ended = TRUE]
    /\ UNCHANGED <<vars, self, sock, down, app>>

CanAppRead == app.pc = "open" /\ ~app.eof /\ HasInput(down)

AppRead ==
    /\ CanAppRead
    /\ \E len \in ReadCounts(down, RecvCapacity) :
          /\ down' = TakeBytes(down, len)
          /\ app' = [app EXCEPT !.read = @ + len, !.eof = len = 0]
    /\ UNCHANGED <<vars, self, sock, up>>

CanWaitUntilClosed == app.pc = "open" /\ app.eof /\ up.ended

\* It is "only advisable if the socket has reached EOF"; to call it before is a
\* fault of the application.
wait_until_closed ==
    /\ \/ CanWaitUntilClosed /\ UNCHANGED work
       \/ MayDestroy /\ app.pc = "open" /\ ~app.eof /\ Fault
    /\ app' = [app EXCEPT !.pc = "joining"]
    /\ up' = [up EXCEPT !.ended = TRUE]
    /\ down' = [down EXCEPT !.refused = TRUE]
    /\ UNCHANGED <<conn, net, self, sock>>

\* The application called wait_until_closed before it had read to the end.
LeftEarly == app.pc \in {"joining", "closed"} /\ ~app.eof /\ ~sock.abort

\* The destructor of a socket whose thread was not joined.
Destroy ==
    /\ MayDestroy /\ app.pc = "open" /\ Fault
    /\ app' = [app EXCEPT !.pc = "joining"]
    /\ sock' = [sock EXCEPT !.abort = TRUE]
    /\ UNCHANGED <<conn, net, self, up, down>>

CanJoin == app.pc = "joining" /\ sock.pc = "ended"

Join ==
    /\ CanJoin
    /\ app' = [app EXCEPT !.pc = "closed"]
    /\ UNCHANGED <<vars, self, sock, up, down>>

-------------------------------------------------------------------------------
\* The peer of the socket is driven as in TCPNetwork, by an application that writes
\* its stream at once and reads what arrives at once.  A datagram that is lost was
\* not yet seen by poll(); one for a socket that is gone is dropped.
PeerWrites == Unwritten(peer) > 0 /\ Write(peer, Unwritten(peer))

ReadAll(c) == PopWritten(c, Len(inbound(c).buffer))

PeerHears ==
    /\ net[peer] # <<>>
    /\ Emit({peer}, [conn EXCEPT ![peer] = ReadAll(segment_received(@, Head(net[peer])))],
                    [net EXCEPT ![peer] = Tail(@)])
    /\ UNCHANGED work

PeerStep ==
    /\ \/ peer = Client /\ Connect
       \/ PeerWrites \/ EndInput(peer) \/ PeerHears
       \/ net[peer] # <<>> /\ Lose(peer, 1)
       \/ net[self] # <<>> /\ sock.pc # "rules" /\ Lose(self, 1)
    /\ UNCHANGED <<self, sock, up, down, app>>

CanDrop == sock.pc = "ended" /\ net[self] # <<>>

Drop ==
    /\ CanDrop
    /\ net' = [net EXCEPT ![self] = Tail(@)]
    /\ UNCHANGED <<conn, work, self, sock, up, down, app>>

SocketTicks == Ticks(self) /\ sock.pc \notin {"new", "ended", "thrown"}

\* A retransmission timeout passes for both.  The thread sees it in its next round,
\* and the next one does not pass before; without a fault nothing else is pending.
CanRunThread ==
    \/ sock.pc \in {"new", "rules", "exit"}
    \/ sock.pc = "loop" /\ sock.connecting /\ ~Waiting
    \/ CanWaitNextEvent

TimePasses ==
    /\ Quiet
    /\ sock.elapsed = 0 \/ ~SocketTicks
    /\ SocketTicks \/ Ticks(peer)
    /\ sock' = [sock EXCEPT !.elapsed = IF SocketTicks THEN RtTimeout ELSE @]
    /\ ~CanRunThread
    /\ Emit({peer}, [conn EXCEPT ![peer] = IF Ticks(peer) THEN tick(@, RtTimeout) ELSE @], net)
    /\ UNCHANGED <<work, self, up, down, app>>

-------------------------------------------------------------------------------
RunThread ==
    \/ Open \/ Opened \/ WaitNextEvent \/ HungUp
    \/ SegmentIn \/ Outbound \/ Inbound \/ SegmentOut
    \/ Finish

RunApp == AppWrite \/ AppShutdown \/ AppRead \/ wait_until_closed \/ Join

SocketNext == RunThread \/ RunApp \/ Destroy \/ PeerStep \/ Drop \/ TimePasses

SocketSpec == SocketInit /\ [][SocketNext]_svars

\* Weak fairness of the thread, of the rest (the applications, the network and the
\* peer, which all come to rest without it), and of the clock.  That the
\* application destroys its socket is never assumed.
CanRunApp == CanAppWrite \/ CanAppShutdown \/ CanAppRead \/ CanWaitUntilClosed \/ CanJoin

CanRunPeer ==
    \/ peer = Client /\ CanConnect
    \/ CanWrite(peer) /\ S!remaining_capacity(outbound(conn[peer])) > 0
    \/ net[peer] # <<>>
    \/ CanDrop

ClockRuns == Quiet /\ (TimerRuns(peer) \/ (SocketTicks /\ TimerRuns(self))) /\ ~CanRunThread

\* Every step of the thread moves it, its loop, or the time it has to see.
ThreadMoves ==
    sock'.pc # sock.pc \/ sock'.loop # sock.loop \/ sock'.elapsed < sock.elapsed

\* A step that leaves the thread alone is one of the rest, or of the clock.
RestMoves == UNCHANGED sock /\ ~TimePasses

SocketFairSpec ==
    /\ SocketSpec
    /\ []<>~CanRunThread \/ []<><<ThreadMoves>>_svars
    /\ []<>~(CanRunApp \/ CanRunPeer) \/ []<><<RestMoves>>_svars
    /\ []<>~ClockRuns \/ []<><<TimePasses>>_svars

-------------------------------------------------------------------------------
\* The thread never ends with an exception: no callback leaves its descriptor
\* alone while it is still interested, no write is short, and none goes into a
\* pair that is shut down (EPIPE, or the death of the process by SIGPIPE), unless
\* the application left before the end.
NeverThrows == sock.pc = "thrown" => LeftEarly

\* What the application wrote and not yet reached the connection, and what left
\* the connection and was not yet read, is in the pair, in order.
PairInOrder ==
    /\ up.queue = S!Run(outbound(conn[self]).bytes_written, Len(up.queue))
    /\ down.queue = S!Run(app.read, Len(down.queue))
    /\ inbound(conn[self]).bytes_read = app.read + Len(down.queue)

\* An application that reads the end of its input has all the peer wrote, unless
\* the connection was reset or the socket destroyed.
EofIsTheEnd ==
    app.eof /\ ~inbound(conn[self]).error /\ ~sock.abort =>
        app.read = StreamLength(peer) /\ outbound(conn[peer]).end_input

\* The loop leaves by itself, with no rule interested, only when the connection
\* is over, has sent all its segments, and nothing of its input remains to be
\* handed on to an application that is still there to read it.
ExitsOnlyWhenDone ==
    sock.pc \in {"exit", "ended"} /\ ~sock.abort =>
        /\ ~active(conn[self]) /\ conn[self].segments_out = <<>>
        /\ LeftEarly \/ (inbound(conn[self]).buffer = <<>> /\ sock.inbound_shutdown)

\* A socket whose application reads to the end completes, and its join returns;
\* it also returns when the socket is destroyed.
EventuallyClosed ==
    /\ <>(app.pc = "closed" \/ LeftEarly)
    /\ <>[](sock.abort \/ LeftEarly \/ Completed)

\* tcp_sponge_socket.hh: "When a connected socket is destructed, it will send a RST".
\* So once the thread of a destroyed socket has destroyed a connection that was
\* open (which leaves its error flag), the peer's is over or the RST is on its way.
DestructionResetsPeer ==
    sock.abort /\ sock.pc = "ended" /\ outbound(conn[self]).error =>
        ~active(conn[peer]) \/ \E i \in DOMAIN net[peer] : net[peer][i].rst
===============================================================================
