# Verification of the Sponge TCP stack

TLA+ modules for the user-space TCP stack under `libsponge/` and the programs
over it: what they model, what TLC checks on small instances, and what TLAPS
proves for all instances. File names below are relative to `src/`.

## The system

| part | source | role |
|---|---|---|
| byte stream | `libsponge/byte_stream.cc` | bounded in-order queue of bytes |
| wrapping integers | `libsponge/wrapping_integers.cc` | 32-bit sequence numbers and their 64-bit absolute values |
| reassembler | `libsponge/stream_reassembler.cc` | puts overlapping, early and repeated substrings back in order |
| receiver | `libsponge/tcp_receiver.cc` | feeds segments to the reassembler, computes ackno and window |
| sender | `libsponge/tcp_sender.cc` | cuts the outbound stream into segments, retransmits, keeps the window |
| connection | `libsponge/tcp_connection.cc` | one receiver and one sender; decides when the connection is over |
| state summaries | `libsponge/tcp_helpers/tcp_state.cc` | names the state of a connection |
| event loop | `libsponge/util/eventloop.cc`, `file_descriptor.cc` | polls descriptors, calls and cancels rules |
| socket | `libsponge/tcp_helpers/tcp_sponge_socket.cc` | owns a connection: a thread, an event loop with four rules, a pair of local sockets to the application |
| formats | `libsponge/tcp_helpers/*_header.cc`, `*_segment.cc`, `*_datagram.cc`, `*_frame.cc`, `*_message.cc`, `libsponge/util/parser.cc` | bytes of segments, datagrams, frames and ARP messages |
| adapters | `libsponge/tcp_helpers/fd_adapter.cc`, `tcp_over_ip.cc`, `tuntap_adapter.cc`, `lossy_fd_adapter.hh` | carry segments in datagrams, admit those of one peer, drop some |
| network interface | `libsponge/network_interface.cc` | placeholder without behaviour in this repository |
| stream copy | `apps/bidirectional_stream_copy.cc` | standard input to a socket, the socket to standard output |
| programs | `apps/` | read a command line, set an adapter up, run a socket |

The application writes to a pipe; the socket's thread moves the bytes to the
connection's outbound stream (rule 2), hands the connection's segments to an
adapter (rule 4), gives it the segments that arrive (rule 1), moves inbound
bytes to the pipe (rule 3), and calls `tick` on every turn of its loop.

## Modules

Each class is a record with the members of the class, and each method is an
operator of the same name from an old record to a new one.  The modules with
VARIABLES put such records into an environment.

| module | models |
|---|---|
| `ByteStream` | the stream. The code never looks at a byte's value, so a byte *is* its index in the stream: a lost, repeated or misplaced byte shows as a wrong number (`InOrder`) |
| `WrappingIntegers` | `wrap`, `unwrap`; the widths 2^32 and 2^64 are the constants `Mod32`, `Mod64` |
| `StreamReassembler`, `StreamReassemblerSpec` | the reassembler, byte by byte, fed with pieces of one peer's stream (`PeerStream`): the stored bytes are a function from indices to bytes |
| `StreamReassemblerMap` | the reassembler as coded: an ordered map of substrings, `resize_segment`, the gap-filling loop, the draining loop |
| `TCPSegment` | the header fields the protocol reads, `length_in_sequence_space` |
| `TCPReceiver`, `TCPReceiverSpec` | the receiver, and a peer whose stream is longer than the sequence space |
| `TCPSender`, `TCPSenderSpec` | the sender with its loops in closed form, and writes, ticks and acknowledgments of any kind |
| `TCPSenderLoops` | the two loops of the sender, iteration by iteration, compared with the closed forms |
| `TCPConnection` | the handlers of a connection, `active()`, the destructor |
| `TCPState` | `state_summary` of receiver and sender, and the official states |
| `TCPNetwork` | two connections driven by the socket's rules over a network |
| `FileDescriptor` | what a descriptor remembers, and the kernel's byte channel behind it |
| `EventLoop` | `add_rule` and `wait_next_event`, instantiated with the interest and cancel callbacks of the rules |
| `TCPSpongeSocket` | both threads of a socket and the pipes between them, over `TCPNetwork` and `EventLoop` |
| `StreamCopy` | `bidirectional_stream_copy` over `EventLoop`, and the processes around it |
| `NetParser` | `NetParser`, `NetUnparser`, `BufferList`, `InternetChecksum` |
| `Packets` | `parse` and `serialize` of TCP, IPv4, Ethernet and ARP |
| `FdAdapter` | `read` and `write` of the adapters over UDP, TUN and TAP, and of the lossy one |
| `Programs` | how the programs of `apps/` read their options and configure their adapter |
| `Wire` | hosts, each with a program and an adapter, over a wire that loses, repeats, damages and cuts |
| `MC...` | instances for TLC |
| `...Proofs`, `StreamReassemblerLemmas` | theorems and the lemmas they rest on |

One action stands for one call from outside, with everything the call does. In
`TCPNetwork`, `Deliver` is rule 1, the whole of
`TCPConnection::segment_received` with both halves' handlers, and the transfer
of the resulting segments (rule 4). In `TCPSpongeSocket` the grain is finer:
one action for the first half of `wait_next_event` (interest, poll), then one
for each callback, so that the application, the network and the clock come
between any two of them, as they do between two threads.  Operators marked
"Mutant of" are deliberately wrong variants; they record that the properties
notice such a mistake.

What the abstraction drops: payload values (except in `Packets` and `Wire`,
which are about bytes), the unused member `_fin_recived`, return values nobody
reads, debugging output, and the two size members of the reassembler in the
byte-by-byte module (recomputed at the start of each call;
`StreamReassemblerMap` keeps them). 32-bit fields of headers are pairs of
16-bit halves. An argument of a command line is the record of its text and of
what the library functions make of it.

`Wire` and `TCPNetwork` meet at the segment: `Wire` shows that an adapter hands
up exactly segments its peer wrote, possibly not, possibly more than once, and
that is the network `TCPNetwork` and `TCPSpongeSocket` assume.

## What TLC checks

| run | instance | states | shows |
|---|---|---|---|
| `reassembler` | capacity 5, stream of 8 bytes, all substrings | 1 246 | in-order delivery, memory bound, exact end, window never shrinks; `StreamReassemblerMap` implements `StreamReassemblerSpec`, and its substrings never overlap |
| `receiver` | 2^32 → 16 | 1 171 | every segment is put in its place across wraps, `unwrap` is the closest candidate outside one corner, promises of the window are kept, the end is reached |
| `sender` | payload 2, capacity 3, 4 bytes, windows 0, 1, 3 | 21 819 | outstanding segments tile the flight, timer and backoff agree with the queue, the window is filled and not exceeded, closed forms are the loops |
| `network` | reordering; without a fault 2 bytes one way or 1 each way, with one fault 1 byte or none | 315 613 | streams arrive intact, a clean close is complete, without faults there is no reset, the states of `tcp_state.cc` follow the arcs of RFC 793's diagram and seventeen named detours from it |
| `wire` | 3 hosts, 5 segments, 3 kinds of adapter, 38 sets of command lines | 83 612 | command lines are read without losing host and port; what is handed up was sent, by the peer, and is undamaged; what is undamaged is handed up; a listener keeps its first caller |
| `socket` | 2 bytes in one direction, pipes of 1 byte, client or server, one fault: a loss, a destruction, or an application that leaves early | 256 248 | no exception while the application reads, bytes in order through the pipes, end of file means the end, the loop leaves only when done, and everything closes |
| `copy` | pipes and buffers of 2 bytes, 4 bytes out, 2 back, a far end that may vanish, a reader of the output that may leave | 136 710 | bytes and ends in order, the copy ends, and it throws only when that reader has left or bytes wait for a far end that is gone |

Violated on purpose, each one a statement of the repository's own documentation
or comments that the code does not meet:

| run | property | what happens |
|---|---|---|
| `receiver_late_syn` | `StreamNoRecovered` | `unwrap` maps the SYN's number to 2^32 instead of 0 when the checkpoint is small (`wrapping_integers.cc:45`, `>` where `>=` is meant); after a SYN that arrives again, the receiver's checkpoint is one sequence space ahead and later data is dropped |
| `network_small_window` | `CleanCloseIsComplete` | the last byte fills the window, the FIN waits, everything is acknowledged, and `active()` is false (`tcp_connection.cc:70`): the FIN is never sent |
| `network_linger` | `NoLingerOnlyIfPeerKnows` | a FIN that overtakes data switches lingering off (`tcp_connection.cc:40`), and the connection leaves a peer that still retransmits |
| `socket_reset` | `NeverThrows` | after a reset, rule 3 shuts the pipe down although a partial write left bytes in the stream (`tcp_sponge_socket.cc:136`), and its next write throws |
| `socket_destroyed` | `DestructionResetsPeer` | the RST of the destructor is queued when nobody is left to send it (`tcp_connection.cc:120`) |

In `socket` one fault is too little for the socket's own connection to be
reset, and `NeverThrows` holds; in `socket_reset` the connection gives up at
its first timeout, and it does not. An application that calls
`wait_until_closed()` before it has read to the end shuts both pipes under the
thread: the next write into them throws, or, when the pipe is full, the rule is
dropped because its descriptor hung up. The header calls that inadvisable
(`tcp_sponge_socket.hh:65`), and the properties of `socket` name it as the one
exception (`LeftEarly`).

### Known limits of the code

Seen in the same models and left without a run of their own:

* `fill_window` uses up `_window_zero_valid` also when the stream is empty
  (`tcp_sender.cc:54`), so data written later at the same closed window is not
  probed for, against the test's "treat a '0' window size as equal to '1'"
  (`tests/send_extra.cc:309`).
* `active()` looks at the bytes in flight before it looks at the error flags
  (`tcp_connection.cc:71`), so a connection that gave up with its FIN
  unacknowledged stays active and keeps retransmitting.
* A FIN that overtakes data switches lingering off before the inbound stream has
  ended (`tcp_connection.cc:40`): the connection is then in a combination that
  `tcp_state.cc` has no name for, and may go on to its end without ever being in
  `CLOSE_WAIT`. So are an acknowledgment that arrives before the SYN, a
  connection that is over but for what the application has not read, and one
  that gave up with its streams at their ends. `Unnamed` and `Detours` in
  `TCPNetwork` list these states and the ways through them; the property
  `StatesFollowDiagram` says that there are no others.
* After a reset, `active()` turns true again when the application has read the
  inbound stream to its end while a segment is in flight: the pairs from `RESET`
  in `Detours`.
* The usage texts of the programs give `MAX_PAYLOAD_SIZE` as the default of
  `-w`; the default is `TCPConfig::DEFAULT_CAPACITY`.

### Bounds

* `Mod32` = 16 keeps the arithmetic of the code and lets streams wrap after a
  few bytes. Windows, and the distance between segments under way, stay below
  half of it, as they do below 2^31 in practice; `ReceiverAssumption` states
  the exact relation.
* A reassembler capacity of 5 with 8 bytes allows two separate stored
  substrings, a third that spans both, a full buffer, and a window that moves
  past every one of its first positions.
* The sender's 4 bytes with payloads of 2 give several segments in flight,
  partial acknowledgments and a FIN alone or on data. Acknowledgments range
  over every number up to one never sent.
* `Workloads` bounds what the applications write and how many faults happen; one
  workload is chosen initially. Two bytes, each in a segment of its own, are the
  least that can arrive in the wrong order. With reordering, a fault is combined
  with one byte only: two bytes and a fault are millions of states. A fault is a
  loss, a repetition, a timer that fires while a segment is under way, the
  destruction of the socket, or a `wait_until_closed()` that comes too early. A
  tick is one retransmission timeout.
* `LingerTimeouts` stands for the 10 of the code. Two outlast the only
  retransmission that `MAX_RETX_ATTEMPTS` = 1 allows.
* `Ticks` stops the clock of a connection that was reset (see the second known
  limit).
* `CanWrite` starts the applications after the handshake, as `connect()` and
  `listen_and_accept()` do.
* In `socket`, `ChannelCapacity` = 1 makes every write of two bytes a partial
  one, and every pipe full or empty. In `copy` it is 2, so that a pipe can hold
  more than a stream has room for.
* In `wire`, a packet is damaged or cut once, a damaged byte changes its lowest
  or its highest bit, and the first packet is written when every program runs.
  The segments have options, an odd payload, and the flags the adapters look at;
  two of them have sums that carry again when their carries are folded in, one in
  a UDP datagram and one in an IP datagram; the two callers share an IP address, so that
  only ports tell them apart. The command lines repeat, reorder, omit and
  mistake options.

`CHECK_DEADLOCK FALSE` is set where connections and programs end: in the
network, socket and copy runs.

### Fairness

The enabling conditions are written out (`CanWrite`, `TimerRuns`, ...).

* Receiver: the peer retransmits its first unacknowledged byte or FIN
  (`TCPSender::tick`), and the application reads (rule 3).
* `socket`: the thread takes a step while it can, since nothing in it blocks but
  `poll()`; the applications, the network and the peer do, since each comes to
  rest without the thread; and time passes while a timer runs and nothing else
  is pending. Nothing is assumed about lost segments except that there are at
  most as many as the workload says, nor that the application destroys its socket or leaves early.
* `copy`: the loop takes a step while `poll()` would return, and the processes
  around it write what they have, end it, and read what they get, unless they
  have left. That the far end vanishes, or the reader of the output leaves, is not
  assumed.

## What TLAPS proves

The theorems hold for every value of the constants that satisfies the named
assumptions, so for the widths 2^32 and 2^64 and the sizes of the code too. Each
inductive invariant below (`IInv` in its module) was first checked by TLC as an
invariant of the component's run.

| component | theorem | property |
|---|---|---|
| reassembler | `TypeCorrect`, `DeliversInOrder`, `EndsWithStream`, `StoresInWindow`, `BoundedMemory`, `NeverShrinks` | `TypeOK`, `InOrderDelivery`, `EndsExactly`, `StoredInWindow`, `MemoryBound`, `WindowNeverShrinks` |
| receiver | `PlacesRecovered`, `DeliversInOrder`, `PicksClosest`, `KeepsPromises` | `StreamNoRecovered`, `InOrderDelivery`, `UnwrapIsClosest`, `PromisesKept` |
| receiver | `ImplementsReassembler` | refinement of `StreamReassemblerSpec` |
| sender | `TilesFlight`, `TimerRuns`, `CarriesItsBytes`, `FillsWindow`, `StaysInWindow` | `OutstandingTilesFlight`, `TimerRunsWhileOutstanding`, `SegmentsCarryTheirBytes`, `OpenWindowIsFilled`, `NothingPastWindow` |
| programs, adapters | `HostAndPortStay`, `PeerStays` | `HostAndPortAreLeft`, `PeerIsKept` |

### Reassembler

`StreamReassemblerProofs`, with `StreamLength + Capacity < Mod64`. The inductive
invariant has two parts. `Sound(x)` holds of every reassembler also in the
middle of `push_substring`: the output is in order, `next_index` counts what was
written, each stored byte is the byte of its index and lies in the free space,
and a known end is the true end. Between calls, moreover, the next expected byte
is not stored. The middle state is needed because `fit_in_reassembler` may store
the next expected byte and `push_into_output` then removes it: `FitSound` and
`PushSound` prove the two halves and `PushSubstringSound` joins them.
`push_into_output` writes the run of bytes up to `FirstGap`; that there is such a
gap inside the window is `FirstGapBounds`, from the well-foundedness of `<` on
Nat. `MemoryBound` follows from counting: the stored indices are a subset of an
interval as long as the free space. These lemmas are in
`StreamReassemblerLemmas`, over `PeerStream`, because the receiver needs them
too. `ByteStreamProofs` proves that `write` and `pop_output` keep a stream in
order.

### Sequence numbers and receiver

`WrappingIntegersProofs` reasons about `wrap` and `unwrap` with `Mod32` any even
number and `Mod64` any larger multiple of it. `UnwrapRecovers`: a number within
half the sequence space of the checkpoint is recovered, except that 0 is only
recovered from the checkpoint 0 (the corner of `receiver_late_syn`).
`UnwrapClosest`: outside that corner the result is the closest candidate.

`TCPReceiverProofs` uses them for a stream of any length. All its theorems have
the hypothesis `~LateSyn`: with a SYN that comes again they are false, as the
run `receiver_late_syn` shows. `ReceiverAssumption` says how far the segments in
the network may be from the ackno. The proof found the exact relation: the
checkpoint is the segment that came last, it was within `Reach` of the ackno
then, and the ackno may have moved on by a window since, so two segments within
reach can be `2 * Reach + Capacity + 1` apart, which has to be less than half
the sequence space; `Reach` must not be 0, since a FIN moves the ackno past
itself; and no absolute number may come within 2^32 of 2^64, where
`abs_seqno + (1ul << 32)` would overflow. The invariant says where the
checkpoint is (`CheckpointNear`) and that the reassembler is `Sound`.
`ImplementsReassembler` maps every segment to the push of its bytes at their
index, a SYN or an empty segment to the push of nothing.

### Sender

`TCPSenderProofs`, for any payload size, timeout, capacity, window and
acknowledgment, those of data never sent included. The invariant `Good` has
three parts. `Kept` holds also in the middle of the handlers: the outstanding
segments are a `Queue` (each carries what belongs at its number, starts where
the one before it ends, and the last ends at `next_seqno`), the numbers used are
those of the SYN, of the bytes taken from the stream, and of the FIN. `Trimmed`
says that the first outstanding segment is not yet acknowledged and that the
timer runs exactly while there is one; it is broken between the assignment of
the ackno and `remove_outstanding_segments`, and holds again after it
(`RemoveKept`). `Filled` is what the loop of `fill_window` leaves
(`FillKept`). `SendChunksKept` is the core: the segments that the loop cuts from
the stream are a queue that continues the one before (`ChunksQueue`,
`QueueExtends`), from the arithmetic of cutting `len` bytes into pieces of
`MAX_PAYLOAD_SIZE`. `Announced` is the second conjunct of the invariant: what
waits in `segments_out` echoes an outstanding segment, or is empty and has the
number `next_seqno` (`EchoesExtend`, `NoneEchoes`). With it, `CarriesItsBytes`
covers what is sent and not only what is kept for retransmission.

### Programs and adapters

`WireProofs`, for any set of hosts, any command lines (`WireAssumption`: with
every kind of adapter a sequence of arguments for each host), any segments and
any damage. The inductive invariant says that each program is reading its
options with the last two arguments left, or has ended, or runs; that one that
does not run has not touched its adapter; and that an adapter with a peer does
not listen. The first part is `ParseOptionLeavesTwo`, from the arithmetic of the
loop's condition and of `check_argc`. The second and third are what `PeerIsKept`
needs: `read()` changes an adapter only while it listens (`ReadingKeepsPeer`,
over the early returns of the three adapters), and `Start` changes one only
before its program runs.

### Only model-checked

* Liveness, which the provers do not reach.
* `BackoffMatchesCount`, a power of two: there is no theory of exponents.
* `LoopsAreTheirClosedForms` and the refinement by `StreamReassemblerMap`: they
  compare with recursive definitions and folds, which would need induction over
  data.
* `OnlyWhatWasSent`, `BoundToACaller` and `IntactIsRead`: they rest on the
  checksum, a fold over the bytes.
* The properties of two connections together, of the socket and of the copy.

## Not modelled

* Wrappers of one system call (`util/socket.cc`, `address.cc`, `tun.cc`, most
  of `util.cc`): they hold no state. The kernel behind them is modelled by the
  channels of `FileDescriptor` and by `Wire`, and marked external.
* Signals that interrupt `poll()`: no program installs a handler.
* `SIGPIPE`. A write that fails with EPIPE is an exception in the models
  (`FileDescriptor::write` throws). No program changes the signal's disposition,
  and by default it ends the whole process before the exception is thrown; both
  are the same state here, `thrown`.
* `POLLERR` where it cannot come up: the pair of local sockets of a
  `TCPSpongeSocket`, whose ends are shut down but not closed while they are
  polled, only reports hangups. `EventLoop` has the throw, and the copy's output,
  a pipe, reaches it. A copy over the kernel's TCP (`tcp_native`), whose socket a
  reset puts in error, is not modelled.
* Output: `to_string`, `summary`, `name`, usage texts, `udp_tcpdump`.
* The network interface, whose methods are empty: over a TAP device only the
  formats and the adapter's early returns are there to be checked.
* `tcp_native` uses the kernel's TCP. `tcp_benchmark` lets two connections call
  each other in one thread, which is among the behaviours of `TCPNetwork`.
* A second `connect()` or `listen_and_accept()` on one socket throws at once.
* A segment that is parsed with the checksum of a different one: the 16-bit
  checksum detects the damage of one byte, not every damage of several.
