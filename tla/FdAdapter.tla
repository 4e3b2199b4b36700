------------------------------ MODULE FdAdapter ------------------------------
(***************************************************************************)
(* The adapters between TCPConnection and the network: FdAdapterBase and   *)
(* TCPOverUDPSocketAdapter (fd_adapter), TCPOverIPv4Adapter (tcp_over_ip)  *)
(* with the TUN and TAP adapters (tuntap_adapter), and LossyFdAdapter.     *)
(*                                                                         *)
(* An adapter is the record of its _listen flag and its configuration:     *)
(* the addresses, which are records [ip, port], and the loss rates.  A     *)
(* read() is an operator to [adapter, ret], where ret, a std::optional, is *)
(* a sequence of at most one segment.                                      *)
(***************************************************************************)
EXTENDS Packets

Adapter(source, destination, listening) ==
  [source |-> source, destination |-> destination, listening |-> listening,
   loss_rate_dn |-> 0, loss_rate_up |-> 0]

Nothing(a) == [adapter |-> a, ret |-> <<>>]

Returns(a, seg) == [adapter |-> a, ret |-> <<[header |-> seg.header, payload |-> seg.payload]>>]

Opens(seg) == seg.header.syn /\ ~seg.header.rst

\* Mutant of Accept: the flag stays up, every SYN to come moves the adapter to a new peer.
Accept_still_listening(a, source, destination) ==
  [a EXCEPT !.source = source, !.destination = destination]

Accept(a, source, destination) ==
  [a EXCEPT !.source = source, !.destination = destination, !.listening = FALSE]

Addressed(a, seg) ==
  [seg EXCEPT !.header.sport = a.source.port, !.header.dport = a.destination.port]

-----------------------------------------------------------------------------
(* TCPOverUDPSocketAdapter.  The ports in the TCP header are written and    *)
(* never looked at: the source of the UDP datagram identifies the peer.     *)

udp_read(a, datagram) ==
  LET seg == TCPSegment_parse(datagram.payload, 0)
  IN  IF ~a.listening /\ datagram.source_address # a.destination THEN Nothing(a)
      ELSE IF seg.result # "NoError" THEN Nothing(a)
      ELSE IF ~a.listening THEN Returns(a, seg)
      ELSE IF Opens(seg) THEN Returns(Accept(a, a.source, datagram.source_address), seg)
      ELSE Nothing(a)

udp_write(a, seg) ==
  [to |-> a.destination, payload |-> concatenate(TCPSegment_serialize(Addressed(a, seg), 0))]

-----------------------------------------------------------------------------
(* TCPOverIPv4Adapter and the TUN adapter                                   *)

unwrap_tcp_in_ip(a, ip_dgram) ==
  LET h == ip_dgram.header
      seg == TCPSegment_parse(concatenate(ip_dgram.payload), pseudo_cksum(h))
      b == IF a.listening
           THEN Accept(a, [ip |-> h.dst, port |-> a.source.port], [ip |-> h.src, port |-> seg.header.sport])
           ELSE a
  IN  IF ~a.listening /\ (h.dst # a.source.ip \/ h.src # a.destination.ip) THEN Nothing(a)
      ELSE IF h.proto # PROTO_TCP \/ seg.result # "NoError" THEN Nothing(a)
      ELSE IF seg.header.dport # a.source.port THEN Nothing(a)
      ELSE IF a.listening /\ ~Opens(seg) THEN Nothing(a)
      ELSE IF seg.header.sport # b.destination.port THEN Nothing(b)
      ELSE Returns(b, seg)

wrap_tcp_in_ip(a, seg) ==
  LET header == [IPv4Header EXCEPT
                   !.src = a.source.ip, !.dst = a.destination.ip,
                   !.len = IPv4Header.hlen * 4 + seg.header.doff * 4 + Len(seg.payload)]
  IN  [header |-> header, payload |-> TCPSegment_serialize(Addressed(a, seg), pseudo_cksum(header))]

tun_read(a, bytes) ==
  LET ip_dgram == IPv4Datagram_parse(bytes)
  IN  IF ip_dgram.result # "NoError" THEN Nothing(a) ELSE unwrap_tcp_in_ip(a, ip_dgram)

tun_write(a, seg) == concatenate(IPv4Datagram_serialize(wrap_tcp_in_ip(a, seg)))

-----------------------------------------------------------------------------
(* TCPOverIPv4OverEthernetAdapter.  NetworkInterface is the dummy of the    *)
(* lab hand-out: recv_frame() returns no datagram, and send_datagram() and  *)
(* tick() queue no frame, so that write() and send_pending() write nothing. *)

recv_frame(frame) == <<>>

tap_read(a, bytes) ==
  LET frame == EthernetFrame_parse(bytes)
      ip_dgram == recv_frame(frame)
  IN  IF frame.result # "NoError" \/ ip_dgram = <<>> THEN Nothing(a)
      ELSE unwrap_tcp_in_ip(a, ip_dgram[1])

-----------------------------------------------------------------------------
(* LossyFdAdapter: the segment is dropped after the adapter has read it, so *)
(* that what the read changed in the adapter stays changed.                 *)

\* Whether _should_drop can return that: loss != 0 && uint16_t(_rand()) < loss.
MayReturn(should_drop, loss) == should_drop => loss # 0

lossy_read(r, should_drop) == IF should_drop THEN Nothing(r.adapter) ELSE r
=============================================================================
