------------------------------ MODULE StreamCopy ------------------------------
(***************************************************************************)
(* bidirectional_stream_copy (apps/bidirectional_stream_copy.cc): standard *)
(* input is copied to a socket, and the socket to standard output, by an   *)
(* event loop with four rules.  Around it are the process that writes the  *)
(* input, the far end of the socket, and the process that reads the        *)
(* output.                                                                 *)
(***************************************************************************)
EXTENDS FileDescriptor, SequencesExt

B == INSTANCE ByteStream

CONSTANTS BufferSize,     \* buffer_size
          InputLength,    \* how many bytes standard input has
          ReplyLength     \* how many bytes the far end sends

ASSUME CopyAssumption == BufferSize \in Nat \ {0} /\ {InputLength, ReplyLength} \subseteq Nat

VARIABLES copy,           \* the variables of bidirectional_stream_copy
          in, up, down, out,   \* what is in standard input, to and from the far end, in the output
          env             \* what the processes around it did

vars == <<copy, in, up, down, out, env>>

\* Mutant of Room: the bytes that wait in the stream are not counted.
Room_total(stream) == stream.capacity

Room(stream) == B!remaining_capacity(stream)

\* Mutants of Unsent: the end of a stream is not sent, or is sent over and over.
Unsent_only_bytes(stream, shutdown) == stream.buffer # <<>>
Unsent_forever(stream, shutdown) == stream.buffer # <<>> \/ B!eof(stream)

Unsent(stream, shutdown) == stream.buffer # <<>> \/ (B!eof(stream) /\ ~shutdown)

Interest(rule, s) ==
    LET reading == ~s.outbound.error /\ ~s.inbound.error
    IN  [stdin   |-> reading /\ B!remaining_capacity(s.outbound) > 0,
         send    |-> Unsent(s.outbound, s.outbound_shutdown),
         receive |-> reading /\ B!remaining_capacity(s.inbound) > 0,
         stdout  |-> Unsent(s.inbound, s.inbound_shutdown)][rule.name]

Cancel(rule, s) ==
    IF rule.name \in {"stdin", "send"} THEN [s EXCEPT !.outbound = B!end_input(@)]
    ELSE [s EXCEPT !.inbound = B!end_input(@)]

INSTANCE EventLoop

CopyRules == <<Rule("stdin", "input", "In"), Rule("send", "socket", "Out"),
               Rule("receive", "socket", "In"), Rule("stdout", "output", "Out")>>

Init ==
    /\ copy = [loop |-> NewLoop(CopyRules, [fd \in {"input", "socket", "output"} |-> NewFD]),
               outbound |-> B!NewByteStream(BufferSize), inbound |-> B!NewByteStream(BufferSize),
               outbound_shutdown |-> FALSE, inbound_shutdown |-> FALSE, pc |-> "loop"]
    /\ in = NewChannel /\ up = NewChannel /\ down = NewChannel /\ out = NewChannel
    \* Standard input is a pipe, whose end shows as a hangup, or a file.
    /\ env \in [in_is_pipe: BOOLEAN, typed: {0}, heard: {0}, replied: {0}, shown: {0},
                gone: {FALSE}]

-------------------------------------------------------------------------------
Ready(rule) ==
    [stdin   |-> in.queue # <<>> \/ (in.ended /\ ~env.in_is_pipe),
     send    |-> HasRoom(up),
     receive |-> HasInput(down),
     stdout  |-> HasRoom(out)][rule.name]

Hup == {fd \in {"input"} : in.ended /\ env.in_is_pipe}
       \cup {fd \in {"socket"} : down.ended /\ (up.ended \/ up.refused)}

\* Standard output is a pipe, which is in error when nobody reads it any more.
Err == {fd \in {"output"} : out.refused}

\* wait_next_event(-1) up to its callbacks.  When poll() only reports a hangup that
\* no rule asks about, nothing changes.
PollResult(set) ==
    Polled(set.s, set.events, {rule \in set.events : Ready(rule)}, Hup, Err)

CanWait ==
    LET set == SetUp(copy)
    IN  /\ copy.pc = "loop"
        /\ set.events = {} \/ PollResult(set).loop.todo # <<>> \/ set.s # copy

WaitNextEvent ==
    LET set == SetUp(copy)
        polled == PollResult(set)
    IN  /\ CanWait
        /\ copy' = IF set.events = {} THEN [set.s EXCEPT !.pc = "exit"]
                   ELSE [polled EXCEPT !.pc = IF polled.loop.todo = <<>> THEN "loop" ELSE "rules"]
        /\ UNCHANGED <<in, up, down, out, env>>

\* "error on polled file descriptor"
Fail ==
    /\ copy.pc = "rules" /\ PollError(copy)
    /\ copy' = [copy EXCEPT !.pc = "thrown"]
    /\ UNCHANGED <<in, up, down, out, env>>

Handles(name, hung) ==
    /\ copy.pc = "rules" /\ ~PollError(copy)
    /\ NextRule(copy).name = name
    /\ (NextRule(copy) \in copy.loop.hung) = hung

Continue(s) == copy' = [s EXCEPT !.pc = IF s.loop.todo = <<>> THEN "loop" ELSE "rules"]

Handled(s, thrown) ==
    IF thrown \/ BusyWait(s, NextRule(copy)) THEN copy' = [s EXCEPT !.pc = "thrown"]
    ELSE Continue(Counted(s, NextRule(copy)))

HungUp ==
    /\ \E rule \in Range(CopyRules) : Handles(rule.name, TRUE)
    /\ Continue(Cancel(NextRule(copy), Erase(Taken(copy), NextRule(copy))))
    /\ UNCHANGED <<in, up, down, out, env>>

\* The callbacks of rules 1 and 3: from a channel into a stream.
Fill(stream, bytes, fd) ==
    LET written == B!write(stream, bytes)
    IN  IF fd.eof THEN B!end_input(written) ELSE written

\* Rule 1: standard input into the outbound stream.
ReadInput ==
    /\ Handles("stdin", FALSE)
    /\ LET room == Room(copy.outbound)
       IN  \E len \in ReadCounts(in, room) :
              LET fd == read(copy.loop.fds["input"], room, len)
              IN  /\ Handled([Taken(copy) EXCEPT
                                 !.loop.fds["input"] = fd,
                                 !.outbound = Fill(@, SubSeq(in.queue, 1, len), fd)], FALSE)
                  /\ in' = TakeBytes(in, len)
    /\ UNCHANGED <<up, down, out, env>>

\* Rule 3: the socket into the inbound stream.
Receive ==
    /\ Handles("receive", FALSE)
    /\ LET room == Room(copy.inbound)
       IN  \E len \in ReadCounts(down, room) :
              LET fd == read(copy.loop.fds["socket"], room, len)
              IN  /\ Handled([Taken(copy) EXCEPT
                                 !.loop.fds["socket"] = fd,
                                 !.inbound = Fill(@, SubSeq(down.queue, 1, len), fd)], FALSE)
                  /\ down' = TakeBytes(down, len)
    /\ UNCHANGED <<in, up, out, env>>

\* Mutant of Finished: nothing is left now.
Finished_when_empty(stream) == stream.buffer = <<>>

Finished(stream) == B!eof(stream)

\* Rule 2: the outbound stream into the socket, and its end.
Send ==
    /\ Handles("send", FALSE)
    /\ LET buffer == copy.outbound.buffer
           broken == Broken(up, Len(buffer))
       IN  \E len \in IF broken THEN {0} ELSE WriteCounts(up, Len(buffer)) :
              LET outbound == B!pop_output(copy.outbound, len)
                  over == Finished(outbound) /\ ~broken
              IN  /\ Handled([Taken(copy) EXCEPT
                                 !.outbound = outbound, !.outbound_shutdown = @ \/ over,
                                 !.loop.fds["socket"] = register_write(@)], broken)
                  /\ up' = [PutBytes(up, SubSeq(buffer, 1, len)) EXCEPT !.ended = @ \/ over]
    /\ UNCHANGED <<in, down, out, env>>

\* Rule 4: the inbound stream into standard output, which is closed at the end.
WriteOutput ==
    /\ Handles("stdout", FALSE)
    /\ LET buffer == copy.inbound.buffer
           broken == Broken(out, Len(buffer))
       IN  \E len \in IF broken THEN {0} ELSE WriteCounts(out, Len(buffer)) :
              LET inbound == B!pop_output(copy.inbound, len)
                  over == Finished(inbound) /\ ~broken
                  fd == register_write(copy.loop.fds["output"])
              IN  /\ Handled([Taken(copy) EXCEPT
                                 !.inbound = inbound, !.inbound_shutdown = @ \/ over,
                                 !.loop.fds["output"] = IF over THEN close(fd) ELSE fd], broken)
                  /\ out' = [PutBytes(out, SubSeq(buffer, 1, len)) EXCEPT !.ended = @ \/ over]
    /\ UNCHANGED <<in, up, down, env>>

-------------------------------------------------------------------------------
\* The process before standard input.
Type ==
    /\ env.typed < InputLength /\ HasRoom(in)
    /\ in' = PutBytes(in, <<env.typed>>)
    /\ env' = [env EXCEPT !.typed = @ + 1]
    /\ UNCHANGED <<copy, up, down, out>>

EndInput ==
    /\ env.typed = InputLength /\ ~in.ended
    /\ in' = [in EXCEPT !.ended = TRUE]
    /\ UNCHANGED <<copy, up, down, out, env>>

\* The far end, until it is gone: it reads and replies at its own pace.
Hear ==
    /\ up.queue # <<>> /\ ~env.gone
    /\ up' = TakeBytes(up, 1)
    /\ env' = [env EXCEPT !.heard = @ + 1]
    /\ UNCHANGED <<copy, in, down, out>>

Reply ==
    /\ env.replied < ReplyLength /\ HasRoom(down) /\ ~env.gone
    /\ down' = PutBytes(down, <<env.replied>>)
    /\ env' = [env EXCEPT !.replied = @ + 1]
    /\ UNCHANGED <<copy, in, up, out>>

EndReply ==
    /\ env.replied = ReplyLength /\ ~down.ended
    /\ down' = [down EXCEPT !.ended = TRUE]
    /\ UNCHANGED <<copy, in, up, out, env>>

\* The connection is reset: the thread of the socket shuts down both directions.
Vanish ==
    /\ ~env.gone /\ ~(up.ended /\ down.ended)
    /\ env' = [env EXCEPT !.gone = TRUE]
    /\ up' = [up EXCEPT !.refused = TRUE]
    /\ down' = [down EXCEPT !.ended = TRUE]
    /\ UNCHANGED <<copy, in, out>>

\* The process after standard output, which may leave before the end.
Show ==
    /\ out.queue # <<>> /\ ~out.refused
    /\ out' = TakeBytes(out, 1)
    /\ env' = [env EXCEPT !.shown = @ + 1]
    /\ UNCHANGED <<copy, in, up, down>>

Leave ==
    /\ ~out.refused /\ ~out.ended
    /\ out' = [out EXCEPT !.refused = TRUE]
    /\ UNCHANGED <<copy, in, up, down, env>>

Loop == WaitNextEvent \/ Fail \/ HungUp \/ ReadInput \/ Receive \/ Send \/ WriteOutput

Around == Type \/ EndInput \/ Hear \/ Reply \/ EndReply \/ Show

Next == Loop \/ Around \/ Vanish \/ Leave

CanLoop == copy.pc = "rules" \/ CanWait

CanAround ==
    \/ env.typed < InputLength /\ HasRoom(in)
    \/ env.typed = InputLength /\ ~in.ended
    \/ ~env.gone /\ (up.queue # <<>> \/ (env.replied < ReplyLength /\ HasRoom(down)))
    \/ env.replied = ReplyLength /\ ~down.ended
    \/ out.queue # <<>> /\ ~out.refused

\* The loop is scheduled, and the processes around it write all they have, end
\* it, and read what they get.
Spec ==
    /\ Init /\ [][Next]_vars
    /\ []<>~CanLoop \/ []<><<Loop>>_vars
    /\ []<>~CanAround \/ []<><<Around>>_vars

-------------------------------------------------------------------------------
\* The bytes in a direction, from the ones that arrived to the ones in the source's
\* channel, follow each other: none is lost, repeated or swapped on the way.
InSequence(arrived, channel, stream, source) ==
    LET bytes == channel.queue \o stream.buffer \o source.queue
    IN  bytes = B!Run(arrived, Len(bytes))

\* Each direction of the copy hands on the bytes it reads, in order.  (What is read
\* from standard input when the far end is gone may be dropped.)
CopiesInOrder ==
    /\ InSequence(env.heard, up, copy.outbound, IF env.gone THEN NewChannel ELSE in)
    /\ InSequence(env.shown, out, copy.inbound, down)

\* An end of file is handed on after the last byte before it, and not earlier: the
\* far end sees it when standard input has ended, and the output is closed when the
\* far end has.
EndsAreCopied ==
    /\ up.ended => in.ended /\ env.heard + Len(up.queue) = InputLength
    /\ out.ended => down.ended /\ env.shown + Len(out.queue) = env.replied

\* The loop leaves by itself once both directions are done: when the far end is gone
\* it leaves what it cannot send, and still copies what came from there.  It ends
\* with an exception only when bytes wait for a far end that is gone, or when nobody
\* reads the output any more.
LeavesWhenDone ==
    /\ copy.pc = "thrown" => out.refused \/ (env.gone /\ copy.outbound.buffer # <<>>)
    /\ copy.pc = "exit" => out.ended /\ (up.ended \/ env.gone)

\* The copy comes to its end, however the processes around it are scheduled.
EventuallyLeaves == <>(copy.pc \in {"exit", "thrown"})
===============================================================================
