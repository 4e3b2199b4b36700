------------------------------- MODULE EventLoop -------------------------------
(***************************************************************************)
(* One call of EventLoop::wait_next_event (util/eventloop.cc), in the two  *)
(* halves that the wait in poll() separates.  The owner of the loop keeps  *)
(* a record s with the loop in its field "loop", and instantiates this     *)
(* module with what the callbacks of its rules do to s.                    *)
(***************************************************************************)
LOCAL INSTANCE SequencesExt

CONSTANTS Interest(_, _),   \* whether the rule is interested, in the state s
          Cancel(_, _)      \* what s becomes when the rule is canceled

Rule(name, fd, direction) == [name |-> name, fd |-> fd, direction |-> direction]

\* The rules that were added, the descriptors they watch, and what poll() found
\* and has not been handled: todo in the order of the rules, hung for a hangup,
\* failed for an error.
NewLoop(rules, fds) ==
    [rules |-> rules, fds |-> fds, todo |-> <<>>, hung |-> {}, failed |-> {}]

Erase(s, rule) == [s EXCEPT !.loop.rules = Remove(@, rule)]

\* Whether the rule can never be served again.
Defunct(loop, rule) ==
    \/ rule.direction = "In" /\ loop.fds[rule.fd].eof
    \/ loop.fds[rule.fd].closed

\* Up to poll(): the defunct rules are canceled, and the interested ones of the
\* others are the events to wait for.  With no event the result is Exit.
SetUp(s) ==
    FoldLeft(LAMBDA acc, rule :
                IF Defunct(acc.s.loop, rule)
                THEN [acc EXCEPT !.s = Cancel(rule, Erase(@, rule))]
                ELSE IF Interest(rule, acc.s) THEN [acc EXCEPT !.events = @ \cup {rule}]
                ELSE acc,
             [s |-> s, events |-> {}], s.loop.rules)

\* The rules that poll() has something for: ready are the ones it found ready, hup
\* the descriptors that are hung up, err the ones in error, which it reports to the
\* rules without interest too.
Found(s, events, ready, hup, err) ==
    SelectSeq(s.loop.rules, LAMBDA rule :
        rule.fd \in err \/ (rule \in events /\ (rule \in ready \/ rule.fd \in hup)))

\* The return of poll().
Polled(s, events, ready, hup, err) ==
    LET found == Found(s, events, ready, hup, err)
    IN  [s EXCEPT !.loop.todo = found,
                  !.loop.hung = {rule \in events \ ready : rule.fd \in hup},
                  !.loop.failed = {rule \in ToSet(found) : rule.fd \in err}]

\* The next rule to handle is taken from the results.
NextRule(s) == Head(s.loop.todo)

Taken(s) == [s EXCEPT !.loop.todo = Tail(@), !.loop.hung = @ \ {NextRule(s)}]

\* For a descriptor in error the loop throws before it looks at the rule.
PollError(s) == NextRule(s) \in s.loop.failed

\* After its callback a rule that is still interested has used its descriptor;
\* otherwise the loop throws "busy wait detected".
BusyWait(s, rule) ==
    /\ IF rule.direction = "In" THEN ~s.loop.fds[rule.fd].was_read
       ELSE ~s.loop.fds[rule.fd].was_written
    /\ Interest(rule, s)

\* The counts are compared from this moment on.
Counted(s, rule) ==
    [s EXCEPT !.loop.fds[rule.fd].was_read = FALSE, !.loop.fds[rule.fd].was_written = FALSE]
===============================================================================
