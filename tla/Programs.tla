------------------------------ MODULE Programs ------------------------------
(***************************************************************************)
(* How the programs of apps/ set up an adapter: tcp_udp ("udp"), tcp_ipv4  *)
(* ("tun") and tcp_ip_ethernet ("tap") from their command lines, and those *)
(* that use CS144TCPSocket, as webget does, or FullStackSocket.            *)
(*                                                                         *)
(* An argument is the record [text, ip, num] of its characters and of what *)
(* Address, strtol and strtof make of them; -Lu and -Ld are compared       *)
(* without what follows them, which text leaves out.  A program p holds    *)
(* the arguments without argv[0], so that argv[curr] is as in the code.    *)
(* The options that set no part of the adapter (-w, -t, -d, -n) are read   *)
(* and left: the TCPConfig is in the constants of TCPConnection.           *)
(* LOCAL_ADDRESS_DFLT is the default address for the device in use.        *)
(***************************************************************************)
EXTENDS FdAdapter

CONSTANT LOCAL_ADDRESS_DFLT

NoAddress == [ip |-> <<0, 0>>, port |-> 0]

argc(p) == Len(p.argv) + 1

\* main() up to the loop of get_config; the source port is random.
NewProgram(argv, random_port) ==
  [pc |-> IF Len(argv) + 1 < 3 THEN "exit" ELSE "options", argv |-> argv, curr |-> 1, listen |-> FALSE,
   source |-> [ip |-> LOCAL_ADDRESS_DFLT, port |-> random_port], loss_rate_up |-> 0, loss_rate_dn |-> 0]

\* The options of each program that take a value.
udp_options == {"-w", "-t", "-Lu", "-Ld"}

tun_options == {"-a", "-s", "-w", "-t", "-d", "-Lu", "-Ld"}

tap_options == {"-a", "-s", "-n", "-w", "-t", "-d"}

Valued == [udp |-> udp_options, tun |-> tun_options, tap |-> tap_options]

SetOption(p, opt, arg) ==
  CASE opt = "-a" -> [p EXCEPT !.source.ip = arg.ip]
    [] opt = "-s" -> [p EXCEPT !.source.port = arg.num]
    [] opt = "-Lu" -> [p EXCEPT !.loss_rate_up = 65535 * arg.num]
    [] opt = "-Ld" -> [p EXCEPT !.loss_rate_dn = 65535 * arg.num]
    [] OTHER -> p

\* Mutant of check_argc: the port is left, but not the host.
check_argc_one_less(p) == p.curr + 2 < argc(p)

\* The value of the option at curr is none of the last two arguments.
check_argc(p) == p.curr + 3 < argc(p)

\* One round of the loop of get_config; -h and any other word exit.
ParseOption(p, via) ==
  LET opt == p.argv[p.curr].text
  IN  IF opt = "-l" /\ via # "tap" THEN [p EXCEPT !.listen = TRUE, !.curr = @ + 1]
      ELSE IF opt \in Valued[via] /\ check_argc(p)
      THEN [SetOption(p, opt, p.argv[p.curr + 1]) EXCEPT !.curr = @ + 2]
      ELSE [p EXCEPT !.pc = "exit"]

MoreOptions(p) == argc(p) - p.curr > 2

-----------------------------------------------------------------------------
(* The rest of get_config and of main: the adapter after connect() or       *)
(* listen_and_accept() has set it up.                                       *)

Listening(port) == Adapter([NoAddress EXCEPT !.port = port.num], NoAddress, TRUE)

Calling(source, host, port) == Adapter(source, [ip |-> host.ip, port |-> port.num], FALSE)

\* A client has no source; the last arguments are counted from the end.
tcp_udp(p) ==
  LET port == p.argv[argc(p) - 1]
  IN  IF p.listen THEN Listening(port) ELSE Calling(NoAddress, p.argv[argc(p) - 2], port)

\* It does not listen on port 0.
Refuses(p, via) == via = "tun" /\ p.listen /\ p.argv[p.curr + 1].num = 0

tcp_ipv4(p) ==
  LET port == p.argv[p.curr + 1]
  IN  IF p.listen THEN Listening(port) ELSE Calling(p.source, p.argv[p.curr], port)

tcp_ip_ethernet(p) == Calling(p.source, p.argv[p.curr], p.argv[p.curr + 1])

WithLoss(a, up, dn) == [a EXCEPT !.loss_rate_up = up, !.loss_rate_dn = dn]

Configured(p, via) ==
  LET config == CASE via = "udp" -> tcp_udp(p) [] via = "tun" -> tcp_ipv4(p) [] via = "tap" -> tcp_ip_ethernet(p)
  IN  WithLoss(config, p.loss_rate_up, p.loss_rate_dn)

\* connect() of the sockets that bring their own configuration, without loss.
CS144TCPSocket_connect(p, host, port) == Calling(p.source, host, port)

FullStackSocket_connect(p, host, port) == Calling(p.source, host, port)

socket_connect(p, via) ==
  IF via = "tun" THEN CS144TCPSocket_connect(p, p.argv[1], p.argv[2])
                 ELSE FullStackSocket_connect(p, p.argv[1], p.argv[2])

\* What the program tun finds in a packet.
tun_finds(bytes) ==
  LET ip_dgram == IPv4Datagram_parse(bytes)
      seg == TCPSegment_parse(concatenate(ip_dgram.payload), pseudo_cksum(ip_dgram.header))
  IN  IF ip_dgram.result # "NoError" \/ ip_dgram.header.proto # PROTO_TCP THEN <<>>
      ELSE IF seg.result # "NoError" THEN <<>> ELSE <<seg.payload>>
=============================================================================
