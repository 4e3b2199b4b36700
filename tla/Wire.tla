-------------------------------- MODULE Wire --------------------------------
(***************************************************************************)
(* Hosts that exchange TCP segments through their adapters over a wire     *)
(* that loses, duplicates, damages and cuts packets.  Each host runs a     *)
(* program of apps/ that sets up its adapter; one, Listener, waits for a   *)
(* connection and the others call it.  The wire holds the packet written   *)
(* last: it can be read any number of times, by the host it is for over    *)
(* UDP and by every host on a TUN device, and an intact one may be         *)
(* overtaken by the next that is written.  Over a TAP device the wire      *)
(* carries the ARP messages of the repository's classes, because the       *)
(* network interface that would send frames is a dummy.                    *)
(*                                                                         *)
(* Bounds: a packet is damaged or cut once; a damaged byte differs from    *)
(* the written one by a member of Errors; the first packet is written when *)
(* every program runs.                                                     *)
(***************************************************************************)
EXTENDS Programs

CONSTANTS Hosts, Listener,
          Endpoint,       \* the address every host is meant to have
          CommandLines,   \* with each kind of adapter, the command lines of the hosts
          RandomPort,     \* the random port of every host
          SocketUsers,    \* those that use CS144TCPSocket or FullStackSocket, except over UDP
          Segments,       \* what TCPConnection hands to write()
          Messages,       \* ARP messages
          Errors          \* what is added to a damaged byte

ASSUME WireAssumption ==
  /\ Listener \in Hosts
  /\ CommandLines \in [{"udp", "tun", "tap"} -> SUBSET [Hosts -> Seq([text : STRING, ip : Seq(Nat), num : Nat])]]

VARIABLES via,        \* the adapter in use: "udp", "tun" or "tap"
          program,    \* the program of every host
          adapter,    \* the adapter of every host
          packet,     \* the packet on the wire; from = to = NoAddress before the first
          handed,     \* what the last read() handed to its TCPConnection
          callers     \* the hosts that have sent Listener a SYN without RST

wire == <<via, packet, handed, callers>>

vars == <<program, adapter, wire>>

Unread == [by |-> Listener, ret |-> <<>>]

Frame(m) ==
  [header |-> [dst |-> m.target_ethernet_address, src |-> m.sender_ethernet_address, type |-> TYPE_ARP],
   payload |-> ARPMessage_serialize(m)]

\* The dummy frame the TAP adapter's constructor writes.
DummyFrame == [header |-> [dst |-> [i \in 1..6 |-> 0], src |-> [i \in 1..6 |-> 0], type |-> 0], payload |-> <<>>]

Silent(bytes) == [from |-> NoAddress, to |-> NoAddress, bytes |-> bytes, carries |-> <<>>, intact |-> TRUE]

Init ==
  /\ via \in {"udp", "tun", "tap"}
  /\ \E argv \in CommandLines[via] : program = [h \in Hosts |-> NewProgram(argv[h], RandomPort[h])]
  /\ adapter = [h \in Hosts |-> Adapter(NoAddress, NoAddress, FALSE)]
  /\ packet = Silent(IF via = "tap" THEN concatenate(EthernetFrame_serialize(DummyFrame)) ELSE <<>>)
  /\ handed = Unread
  /\ callers = {}

-----------------------------------------------------------------------------
Running == [pc |-> "runs"]

ReadOption(h) ==
  /\ program[h].pc = "options" /\ MoreOptions(program[h])
  /\ program' = [program EXCEPT ![h] = ParseOption(@, via)]
  /\ UNCHANGED <<adapter, wire>>

\* The host and the port are left: connect() or listen_and_accept().
Start(h) ==
  /\ program[h].pc = "options" /\ ~MoreOptions(program[h])
  /\ IF Refuses(program[h], via)
     THEN program' = [program EXCEPT ![h].pc = "exit"] /\ UNCHANGED adapter
     ELSE /\ program' = [program EXCEPT ![h] = Running]
          /\ adapter' = [adapter EXCEPT ![h] =
                           IF h \in SocketUsers /\ via # "udp" THEN socket_connect(program[h], via)
                           ELSE Configured(program[h], via)]
  /\ UNCHANGED wire

AllRun == \A h \in Hosts : program[h] = Running

OnWire(h, seg) ==
  [from |-> Endpoint[h], to |-> adapter[h].destination, intact |-> TRUE,
   carries |-> <<Addressed(adapter[h], seg)>>,
   bytes |-> IF via = "udp" THEN udp_write(adapter[h], seg).payload ELSE tun_write(adapter[h], seg)]

\* write() of a TCPConnection's segment, inside a LossyFdAdapter.
Write(h, seg, should_drop) ==
  /\ via # "tap" /\ AllRun /\ ~adapter[h].listening /\ packet.intact
  /\ MayReturn(should_drop, adapter[h].loss_rate_up)
  /\ IF should_drop THEN UNCHANGED wire
     ELSE /\ packet' = OnWire(h, seg)
          /\ handed' = Unread
          /\ callers' = IF h # Listener /\ Opens(seg) THEN callers \union {h} ELSE callers
          /\ UNCHANGED via
  /\ UNCHANGED <<program, adapter>>

\* An ARP message in an Ethernet frame.
WriteArp(m) ==
  /\ via = "tap" /\ AllRun /\ packet.intact
  /\ packet' = [Silent(concatenate(EthernetFrame_serialize(Frame(m)))) EXCEPT !.carries = <<m>>]
  /\ UNCHANGED <<via, program, adapter, handed, callers>>

Damage ==
  /\ AllRun /\ packet.intact
  /\ \E i \in DOMAIN packet.bytes, e \in Errors :
       packet' = [packet EXCEPT !.intact = FALSE, !.bytes[i] = (@ + e) % 256]
  /\ handed' = Unread
  /\ UNCHANGED <<via, program, adapter, callers>>

\* Not over UDP, which carries its own length.
Cut ==
  /\ via # "udp" /\ AllRun /\ packet.intact
  /\ \E n \in 0..Len(packet.bytes) - 1 :
       packet' = [packet EXCEPT !.intact = FALSE, !.bytes = SubSeq(@, 1, n)]
  /\ handed' = Unread
  /\ UNCHANGED <<via, program, adapter, callers>>

Lose ==
  /\ packet' = Silent(<<>>)
  /\ handed' = Unread
  /\ UNCHANGED <<via, program, adapter, callers>>

Reading(h) ==
  CASE via = "udp" -> udp_read(adapter[h], [source_address |-> packet.from, payload |-> packet.bytes])
    [] via = "tun" -> tun_read(adapter[h], packet.bytes)
    [] via = "tap" -> tap_read(adapter[h], packet.bytes)

Reaches(h) == packet.bytes # <<>> /\ (via = "udp" => packet.to = Endpoint[h])

\* read() of the adapter, inside a LossyFdAdapter.
Read(h, should_drop) ==
  /\ AllRun /\ Reaches(h) /\ MayReturn(should_drop, adapter[h].loss_rate_dn)
  /\ LET r == lossy_read(Reading(h), should_drop)
     IN  /\ adapter' = [adapter EXCEPT ![h] = r.adapter]
         /\ handed' = [by |-> h, ret |-> r.ret]
  /\ UNCHANGED <<via, program, packet, callers>>

Next ==
  \/ \E h \in Hosts : ReadOption(h) \/ Start(h)
  \/ \E h \in Hosts, seg \in Segments, should_drop \in BOOLEAN : Write(h, seg, should_drop)
  \/ \E m \in Messages : WriteArp(m)
  \/ Damage
  \/ Cut
  \/ Lose
  \/ \E h \in Hosts, should_drop \in BOOLEAN : Read(h, should_drop)

Spec == Init /\ [][Next]_vars

-----------------------------------------------------------------------------
\* However the options are arranged, get_config leaves the last two arguments, the host and the port:
\* check_argc never lets an option take one of them as its value.
HostAndPortAreLeft ==
  \A h \in Hosts : program[h].pc = "options" => program[h].curr <= argc(program[h]) - 2

\* A segment up to the checksum, which only the wire carries.
Same(seg, sent) == [seg EXCEPT !.header.cksum = 0] = [sent EXCEPT !.header.cksum = 0]

\* Whatever the wire does to a packet, a segment an adapter hands up is one its peer wrote to it,
\* bit for bit: TCPSegment::parse refuses the rest by its checksum and IPv4Datagram::parse by its
\* length, although both ignore the result of their header's parse().
OnlyWhatWasSent ==
  handed.ret # <<>> =>
    /\ Same(handed.ret[1], packet.carries[1])
    /\ packet.from = adapter[handed.by].destination
    /\ packet.to = Endpoint[handed.by]

\* An adapter that has left the listening state is bound to a host that called it with a SYN (without
\* RST), and answers from the address that host called, even if the SYN came damaged or was dropped by
\* LossyFdAdapter after the adapter read it.
BoundToACaller ==
  via # "tap" /\ AllRun /\ ~adapter[Listener].listening =>
    /\ \E h \in callers : adapter[Listener].destination = Endpoint[h]
    /\ via = "tun" => adapter[Listener].source = Endpoint[Listener]

\* Once an adapter has a peer it never changes it: the SYN of another caller, or the same SYN again,
\* does not move it.
PeerIsKept ==
  [][\A h \in Hosts : adapter[h].destination # NoAddress => adapter'[h] = adapter[h]]_vars

\* RFC 1071: the 16-bit big-endian words of a checked packet, the last one padded with zero, add up to 0
\* in ones' complement.
ChecksOut(bytes) ==
  LET words == [i \in 1..(Len(bytes) + 1) \div 2 |->
                  256 * bytes[2 * i - 1] + (IF 2 * i <= Len(bytes) THEN bytes[2 * i] ELSE 0)]
  IN  FoldLeft(+, 0, words) % 65535 = 0

\* What was written and not damaged is read back whole: a segment by the peer it is for (options
\* skipped, odd payloads included), an ARP message out of its Ethernet frame; and any other reader,
\* the program tun among them, finds the checksums that serialize() filled in right by the definition of
\* RFC 1071.
IntactIsRead ==
  packet.intact /\ packet.carries # <<>> =>
    IF via = "tap"
    THEN LET frame == EthernetFrame_parse(packet.bytes)
         IN  /\ frame.result = "NoError" /\ frame.header.type = TYPE_ARP
             /\ ARPMessage_parse(frame.payload) = [message |-> packet.carries[1], result |-> "NoError"]
    ELSE /\ ChecksOut(IF via = "tun" THEN SubSeq(packet.bytes, 1, IP_LENGTH) ELSE packet.bytes)
         /\ via = "tun" => tun_finds(packet.bytes) = <<packet.carries[1].payload>>
         /\ \A h \in Hosts :
              /\ packet.to = Endpoint[h]
              /\ IF adapter[h].listening THEN Opens(packet.carries[1])
                 ELSE adapter[h].destination = packet.from
              => Reading(h).ret # <<>> /\ Same(Reading(h).ret[1], packet.carries[1])
=============================================================================
