------------------------------- MODULE Packets -------------------------------
(***************************************************************************)
(* The packet formats of tcp_helpers/: TCP header and segment, IPv4 header *)
(* and datagram, Ethernet header and frame, ARP message.  parse() is an    *)
(* operator from bytes to the object it fills and its ParseResult;         *)
(* serialize() is an operator from the object to bytes, none if it throws. *)
(***************************************************************************)
EXTENDS NetParser

Thrown == <<>>

TCP_LENGTH == 20

TCPHeader ==
  [sport |-> 0, dport |-> 0, seqno |-> <<0, 0>>, ackno |-> <<0, 0>>, doff |-> TCP_LENGTH \div 4,
   urg |-> FALSE, ack |-> FALSE, psh |-> FALSE, rst |-> FALSE, syn |-> FALSE, fin |-> FALSE,
   win |-> 0, cksum |-> 0, uptr |-> 0]

\* The header in the integers r.out, with the parser r.p behind them.
TCPHeader_of(r) ==
  LET v == r.out
      doff == v[5] \div 16
      q == IF doff < 5 THEN r.p ELSE remove_prefix(r.p, doff * 4 - TCP_LENGTH)
  IN  [p |-> q,
       header |-> [sport |-> v[1], dport |-> v[2], seqno |-> v[3], ackno |-> v[4], doff |-> doff,
                   urg |-> Bit(v[6], 5), ack |-> Bit(v[6], 4), psh |-> Bit(v[6], 3),
                   rst |-> Bit(v[6], 2), syn |-> Bit(v[6], 1), fin |-> Bit(v[6], 0),
                   win |-> v[7], cksum |-> v[8], uptr |-> v[9]],
       result |-> IF doff < 5 THEN "HeaderTooShort" ELSE q.error]

TCPHeader_parse(p) == TCPHeader_of(Ints(p, <<2, 2, 4, 4, 1, 1, 2, 2, 2>>))

TCPHeader_serialize(h) ==
  Resize(u16(h.sport) \o u16(h.dport) \o u32(h.seqno) \o u32(h.ackno) \o u8(h.doff * 16)
           \o u8(Flag(h.urg, 5) + Flag(h.ack, 4) + Flag(h.psh, 3)
                   + Flag(h.rst, 2) + Flag(h.syn, 1) + Flag(h.fin, 0))
           \o u16(h.win) \o u16(h.cksum) \o u16(h.uptr),
         4 * h.doff)

\* Mutant of TCPSegment_parse: the checksum is computed and not looked at.
TCPSegment_parse_unchecked(buffer, datagram_layer_checksum) ==
  LET h == TCPHeader_parse(Parser(buffer))
  IN  [result |-> h.p.error, header |-> h.header, payload |-> h.p.buffer]

\* The result of the header's parse() is not looked at: only the parser's error.
TCPSegment_parse(buffer, datagram_layer_checksum) ==
  LET h == TCPHeader_parse(Parser(buffer))
  IN  IF value(add(Checksum(datagram_layer_checksum), buffer)) # 0
      THEN [result |-> "BadChecksum", header |-> TCPHeader, payload |-> <<>>]
      ELSE [result |-> h.p.error, header |-> h.header, payload |-> h.p.buffer]

TCPSegment_serialize(seg, datagram_layer_checksum) ==
  LET zeroed == [seg.header EXCEPT !.cksum = 0]
      check == add(add(Checksum(datagram_layer_checksum), TCPHeader_serialize(zeroed)), seg.payload)
  IN  IF seg.header.doff < 5 THEN Thrown ELSE
      append(BufferList(TCPHeader_serialize([zeroed EXCEPT !.cksum = value(check)])),
             BufferList(seg.payload))

-----------------------------------------------------------------------------
IP_LENGTH == 20

PROTO_TCP == 6

IPv4Header ==
  [ver |-> 4, hlen |-> IP_LENGTH \div 4, tos |-> 0, len |-> 0, id |-> 0, df |-> TRUE, mf |-> FALSE,
   offset |-> 0, ttl |-> 128, proto |-> PROTO_TCP, cksum |-> 0, src |-> <<0, 0>>, dst |-> <<0, 0>>]

\* The header of the packet in p in the integers r.out, with the parser r.p behind them.
IPv4Header_of(p, r) ==
  LET data_size == Len(p.buffer)
      v == r.out
      h == [ver |-> v[1] \div 16, hlen |-> v[1] % 16, tos |-> v[2], len |-> v[3], id |-> v[4],
            df |-> Bit(v[5], 14), mf |-> Bit(v[5], 13), offset |-> v[5] % 8192, ttl |-> v[6],
            proto |-> v[7], cksum |-> v[8], src |-> v[9], dst |-> v[10]]
      early == IF data_size < 4 * h.hlen THEN "PacketTooShort"
               ELSE IF h.ver # 4 THEN "WrongIPVersion"
               ELSE IF h.hlen < 5 THEN "HeaderTooShort"
               ELSE IF data_size # h.len THEN "TruncatedPacket"
               ELSE "NoError"
      q == remove_prefix(r.p, 4 * h.hlen - IP_LENGTH)
      check == add(Checksum(0), SubSeq(p.buffer, 1, 4 * h.hlen))
  IN  IF data_size < IP_LENGTH THEN [p |-> p, header |-> IPv4Header, result |-> "PacketTooShort"]
      ELSE IF early # "NoError" THEN [p |-> r.p, header |-> h, result |-> early]
      ELSE [p |-> q, header |-> h,
            result |-> IF q.error = "NoError" /\ value(check) # 0 THEN "BadChecksum" ELSE q.error]

IPv4Header_parse(p) == IPv4Header_of(p, Ints(p, <<1, 1, 2, 2, 2, 1, 1, 2, 4, 4>>))

IPv4Header_serialize(h) ==
  Resize(u8(h.ver * 16 + (h.hlen % 16)) \o u8(h.tos) \o u16(h.len) \o u16(h.id)
           \o u16(Flag(h.df, 14) + Flag(h.mf, 13) + (h.offset % 8192)) \o u8(h.ttl) \o u8(h.proto)
           \o u16(h.cksum) \o u32(h.src) \o u32(h.dst),
         4 * h.hlen)

payload_length(h) == (h.len - 4 * h.hlen) % 65536

\* Without the addresses a segment re-addressed on the way checks out.
pseudo_cksum_without_addresses(h) == h.proto + payload_length(h)

pseudo_cksum(h) ==
  h.src[1] + h.src[2] + h.dst[1] + h.dst[2] + h.proto + payload_length(h)

\* As in TCPSegment::parse the result of the header's parse() is ignored.
IPv4Datagram_parse(buffer) ==
  LET h == IPv4Header_parse(Parser(buffer))
  IN  [header |-> h.header, payload |-> BufferList(h.p.buffer),
       result |-> IF Len(h.p.buffer) # payload_length(h.header) THEN "PacketTooShort" ELSE h.p.error]

IPv4Datagram_serialize(d) ==
  LET zeroed == [d.header EXCEPT !.cksum = 0]
      check == add(Checksum(0), IPv4Header_serialize(zeroed))
  IN  IF size(d.payload) # payload_length(d.header) \/ d.header.ver # 4 \/ 4 * d.header.hlen < IP_LENGTH
      THEN Thrown
      ELSE append(BufferList(IPv4Header_serialize([zeroed EXCEPT !.cksum = value(check)])), d.payload)

-----------------------------------------------------------------------------
ETHERNET_LENGTH == 14

TYPE_IPv4 == 2048

TYPE_ARP == 2054

EthernetHeader_parse(p) ==
  LET r == Ints(p, <<6, 6, 2>>)
  IN  IF Len(p.buffer) < ETHERNET_LENGTH
      THEN [p |-> p, header |-> [dst |-> <<>>, src |-> <<>>, type |-> 0], result |-> "PacketTooShort"]
      ELSE [p |-> r.p, result |-> r.p.error,
            header |-> [dst |-> r.out[1], src |-> r.out[2], type |-> r.out[3]]]

EthernetHeader_serialize(h) == h.dst \o h.src \o u16(h.type)

EthernetFrame_parse(buffer) ==
  LET h == EthernetHeader_parse(Parser(buffer))
  IN  [header |-> h.header, payload |-> h.p.buffer, result |-> h.p.error]

EthernetFrame_serialize(f) ==
  append(BufferList(EthernetHeader_serialize(f.header)), BufferList(f.payload))

-----------------------------------------------------------------------------
ARP_LENGTH == 28

ARPMessage(opcode, sender_ethernet, sender_ip, target_ethernet, target_ip) ==
  [hardware_type |-> 1, protocol_type |-> TYPE_IPv4, hardware_address_size |-> 6,
   protocol_address_size |-> 4, opcode |-> opcode,
   sender_ethernet_address |-> sender_ethernet, sender_ip_address |-> sender_ip,
   target_ethernet_address |-> target_ethernet, target_ip_address |-> target_ip]

supported(m) ==
  /\ m.hardware_type = 1 /\ m.protocol_type = TYPE_IPv4
  /\ m.hardware_address_size = 6 /\ m.protocol_address_size = 4
  /\ m.opcode \in {1, 2}

ARPMessage_parse(buffer) ==
  LET v == Ints(Parser(buffer), <<2, 2, 1, 1, 2, 6, 4, 6, 4>>).out
      m == [hardware_type |-> v[1], protocol_type |-> v[2], hardware_address_size |-> v[3],
            protocol_address_size |-> v[4], opcode |-> v[5],
            sender_ethernet_address |-> v[6], sender_ip_address |-> v[7],
            target_ethernet_address |-> v[8], target_ip_address |-> v[9]]
  IN  [message |-> m,
       result |-> IF Len(buffer) < ARP_LENGTH THEN "PacketTooShort"
                  ELSE IF ~supported(m) THEN "Unsupported" ELSE "NoError"]

ARPMessage_serialize(m) ==
  IF ~supported(m) THEN Thrown ELSE
  u16(m.hardware_type) \o u16(m.protocol_type) \o u8(m.hardware_address_size)
    \o u8(m.protocol_address_size) \o u16(m.opcode)
    \o m.sender_ethernet_address \o u32(m.sender_ip_address)
    \o m.target_ethernet_address \o u32(m.target_ip_address)
=============================================================================
