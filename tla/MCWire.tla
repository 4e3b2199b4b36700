------------------------------- MODULE MCWire -------------------------------
(***************************************************************************)
(* Three hosts for TLC.  The two callers share an address and differ in    *)
(* their ports, so that only the port filters tell them apart on a TUN     *)
(* device.                                                                 *)
(***************************************************************************)
EXTENDS Wire

CONSTANTS Server, Client, Neighbour

MCEndpoint ==
  (Server :> [ip |-> <<2560, 1>>, port |-> 80])
    @@ (Client :> [ip |-> <<2560, 258>>, port |-> 4098])
    @@ (Neighbour :> [ip |-> <<2560, 258>>, port |-> 4099])

-----------------------------------------------------------------------------
(* The command lines.  An option is followed by its value; a word is an     *)
(* option, a host or a port by where it stands.                             *)

Word(text) == [text |-> text, ip |-> <<0, 0>>, num |-> 0]

Number(n) == [Word("n") EXCEPT !.num = n]

HostAndPort(h, port) ==
  <<[Word("host") EXCEPT !.ip = MCEndpoint[h].ip], Number(port)>>

\* The caller's options: its address and port in either order, before or after ones that say nothing
\* of the adapter; an option that is repeated, that is unknown, and that lacks its value.
CallerOptions(kind) ==
  LET a == <<Word("-a"), [Word("addr") EXCEPT !.ip = MCEndpoint[Client].ip]>>
      s == <<Word("-s"), Number(MCEndpoint[Client].port)>>
      d == <<Word("-d"), Word("-l")>>
      loss == <<Word("-Lu"), Number(1), Word("-Ld"), Number(1)>>
  IN  IF kind = "udp" THEN {loss, <<Word("-w"), Number(9)>> \o loss, <<Word("-s")>>, <<Word("-w")>>}
      ELSE {a \o s \o d, d \o s \o a, <<Word("-s"), Number(7)>> \o s, a \o <<Word("-s")>>, s \o <<Word("-h")>>}

ServerOptions(kind) ==
  IF kind = "tap" THEN {<<Word("-n"), Word("hop")>>, <<Word("-l")>>}
  ELSE {<<Word("-l"), Word("-Ld"), Number(1)>>, <<Word("-t"), Word("-l"), Word("-l")>>}

MCCommandLines ==
  [kind \in {"udp", "tun", "tap"} |->
    {(Server :> (server \o HostAndPort(Client, port)))
       @@ (Client :> (caller \o HostAndPort(Server, MCEndpoint[Server].port)))
       @@ (Neighbour :> HostAndPort(Server, MCEndpoint[Server].port)) :
     server \in ServerOptions(kind), caller \in CallerOptions(kind), port \in {MCEndpoint[Server].port} \union (IF kind = "tun" THEN {0} ELSE {})}]

MCRandomPort == [h \in Hosts |-> IF h = Client THEN 5000 ELSE MCEndpoint[h].port]

MCLocalAddress == MCEndpoint[Client].ip

-----------------------------------------------------------------------------
Segment(flags, seqno, ackno, win, doff, payload) ==
  [header |-> [TCPHeader EXCEPT !.syn = "syn" \in flags, !.ack = "ack" \in flags, !.fin = "fin" \in flags,
                                !.rst = "rst" \in flags, !.psh = "psh" \in flags,
                                !.seqno = seqno, !.ackno = ackno, !.win = win, !.doff = doff],
   payload |-> payload]

\* A SYN with options, the end of a stream with an odd payload, data, a reset, a SYN that is also a
\* reset.  The numbers of the second and the third are such that folding the carries of the sum
\* carries again: with the second in a UDP datagram, with the third in an IP one.
MCSegments ==
  {Segment({"syn"}, <<65535, 65535>>, <<0, 0>>, 64000, 6, <<>>),
   Segment({"ack", "fin"}, <<0, 0>>, <<1, 65535>>, 39323, 5, <<255, 0, 7>>),
   Segment({"ack", "psh"}, <<65535, 65280>>, <<65535, 65535>>, 65535, 5, <<139, 120>>),
   Segment({"rst"}, <<0, 1>>, <<0, 0>>, 0, 5, <<>>),
   Segment({"syn", "rst"}, <<0, 1>>, <<0, 0>>, 0, 5, <<>>)}

Mac(n) == <<2, 0, 0, 0, 0, n>>

MCMessages ==
  {ARPMessage(1, Mac(1), <<2560, 1>>, <<255, 255, 255, 255, 255, 255>>, <<2560, 258>>),
   ARPMessage(2, Mac(2), <<2560, 258>>, Mac(1), <<2560, 1>>)}

MCErrors == {1, 128}
=============================================================================
