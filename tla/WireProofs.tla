----------------------------- MODULE WireProofs -----------------------------
(***************************************************************************)
(* Proofs about the programs and the adapters of Wire, for any set of      *)
(* hosts, any command lines, any segments and any damage.                  *)
(***************************************************************************)
EXTENDS Wire, TLAPS

Argument == [text : STRING, ip : Seq(Nat), num : Nat]

Device == {"udp", "tun", "tap"}

\* A program that reads its options, and one that has ended.
Reader(p) ==
  /\ p = [pc |-> p.pc, argv |-> p.argv, curr |-> p.curr, listen |-> p.listen, source |-> p.source,
          loss_rate_up |-> p.loss_rate_up, loss_rate_dn |-> p.loss_rate_dn]
  /\ p.pc \in {"options", "exit"}
  /\ p.argv \in Seq(Argument)
  /\ p.curr \in Int
  /\ p.pc = "options" => p.curr <= argc(p) - 2

IsAdapter(a) == DOMAIN a = {"source", "destination", "listening", "loss_rate_dn", "loss_rate_up"}

\* What Accept and the setting of the loss rates leave of an adapter.
LEMMA AdapterExcept ==
  ASSUME NEW a, IsAdapter(a), NEW s, NEW d, NEW dn, NEW up
  PROVE  /\ IsAdapter(Accept(a, s, d)) /\ ~Accept(a, s, d).listening
         /\ IsAdapter(WithLoss(a, up, dn))
         /\ WithLoss(a, up, dn).listening = a.listening
         /\ WithLoss(a, up, dn).destination = a.destination
<1>1. IsAdapter(Accept(a, s, d))
  BY DEF Accept, IsAdapter
<1>2. ~Accept(a, s, d).listening
  BY DEF Accept, IsAdapter
<1>3. IsAdapter(WithLoss(a, up, dn))
  BY DEF WithLoss, IsAdapter
<1>4. WithLoss(a, up, dn).listening = a.listening
  BY DEF WithLoss, IsAdapter
<1>5. WithLoss(a, up, dn).destination = a.destination
  BY DEF WithLoss, IsAdapter
<1> QED BY <1>1, <1>2, <1>3, <1>4, <1>5

\* q has the members of a program, and the arguments and the position of p.
KeepsPlace(p, q) ==
  /\ q = [pc |-> q.pc, argv |-> q.argv, curr |-> q.curr, listen |-> q.listen, source |-> q.source,
          loss_rate_up |-> q.loss_rate_up, loss_rate_dn |-> q.loss_rate_dn]
  /\ q.pc = p.pc /\ q.argv = p.argv /\ q.curr = p.curr

\* An option that is read leaves the arguments as they are and the position where it is.
LEMMA SetOptionKeepsPlace ==
  ASSUME NEW p, Reader(p), NEW opt, NEW arg, NEW q, q = SetOption(p, opt, arg)
  PROVE  KeepsPlace(p, q)
<1> USE DEF KeepsPlace
<1>1. CASE opt = "-a"
  BY <1>1 DEF SetOption, Reader
<1>2. CASE opt = "-s"
  BY <1>2 DEF SetOption, Reader
<1>3. CASE opt = "-Lu"
  BY <1>3, SMTT(30) DEF SetOption, Reader
<1>4. CASE opt = "-Ld"
  BY <1>4 DEF SetOption, Reader
<1>5. CASE opt \notin {"-a", "-s", "-Lu", "-Ld"}
  BY <1>5 DEF SetOption, Reader
<1> QED BY <1>1, <1>2, <1>3, <1>4, <1>5

\* One round of the loop of get_config leaves the last two arguments, by the arithmetic of its condition
\* and of check_argc.
LEMMA ParseOptionLeavesTwo ==
  ASSUME NEW p, Reader(p), p.pc = "options", MoreOptions(p), NEW v \in Device
  PROVE  Reader(ParseOption(p, v))
<1> DEFINE opt == p.argv[p.curr].text
           set == SetOption(p, opt, p.argv[p.curr + 1])
<1>1. Len(p.argv) \in Nat
  BY DEF Reader
<1>2. CASE opt = "-l" /\ v # "tap"
  <2>1. ParseOption(p, v) = [p EXCEPT !.listen = TRUE, !.curr = @ + 1]
    BY <1>2 DEF ParseOption
  <2>2. /\ ParseOption(p, v) =
             [pc |-> p.pc, argv |-> p.argv, curr |-> p.curr + 1, listen |-> TRUE, source |-> p.source,
              loss_rate_up |-> p.loss_rate_up, loss_rate_dn |-> p.loss_rate_dn]
        /\ p.argv \in Seq(Argument) /\ p.curr \in Int
    BY <2>1 DEF Reader
  <2>3. p.curr + 1 <= argc(p) - 2
    BY <1>1, <2>2 DEF MoreOptions, argc
  <2> QED BY <1>1, <2>2, <2>3 DEF Reader, argc
<1>3. CASE ~(opt = "-l" /\ v # "tap") /\ opt \in Valued[v] /\ check_argc(p)
  <2>1. ParseOption(p, v) = [set EXCEPT !.curr = @ + 2]
    BY <1>3 DEF ParseOption
  <2>2. KeepsPlace(p, set)
    BY SetOptionKeepsPlace, Zenon
  <2> HIDE DEF set
  <2> QED BY <1>1, <1>3, <2>1, <2>2, SMTT(30) DEF KeepsPlace, Reader, check_argc, argc
<1>4. CASE ~(opt = "-l" /\ v # "tap") /\ ~(opt \in Valued[v] /\ check_argc(p))
  <2>1. ParseOption(p, v) = [p EXCEPT !.pc = "exit"]
    BY <1>4 DEF ParseOption
  <2> QED BY <2>1 DEF Reader
<1> QED BY <1>2, <1>3, <1>4

-----------------------------------------------------------------------------
\* The inductive invariant: every program is reading its options, with the last two arguments left, or
\* has ended, or runs; one that does not run has not set its adapter up; and an adapter that has a peer
\* does not listen.
IInv ==
  /\ via \in Device
  /\ DOMAIN program = Hosts /\ DOMAIN adapter = Hosts
  /\ \A h \in Hosts : program[h] = Running \/ Reader(program[h])
  /\ \A h \in Hosts : program[h] # Running => adapter[h] = Adapter(NoAddress, NoAddress, FALSE)
  /\ \A h \in Hosts : IsAdapter(adapter[h])
  /\ \A h \in Hosts : adapter[h].destination # NoAddress => ~adapter[h].listening

\* The state before any program has read its command line satisfies it.
LEMMA InitIInv == Init => IInv
<1> SUFFICES ASSUME Init PROVE IInv
  OBVIOUS
<1>1. PICK argv \in CommandLines[via] : program = [h \in Hosts |-> NewProgram(argv[h], RandomPort[h])]
  BY DEF Init
<1>2. via \in Device
  BY DEF Init, Device
<1>3. argv \in [Hosts -> Seq(Argument)]
  BY <1>1, <1>2, WireAssumption DEF Device, Argument
<1>4. ASSUME NEW h \in Hosts
      PROVE  Reader(program[h])
  <2>1. program[h] = NewProgram(argv[h], RandomPort[h]) /\ argv[h] \in Seq(Argument)
    BY <1>1, <1>3
  <2>2. Len(argv[h]) \in Nat
    BY <2>1
  <2> QED BY <2>1, <2>2 DEF Reader, NewProgram, argc
<1>5. DOMAIN program = Hosts
  BY <1>1
<1>6. adapter = [h \in Hosts |-> Adapter(NoAddress, NoAddress, FALSE)]
  BY DEF Init
<1> QED BY <1>2, <1>4, <1>5, <1>6 DEF IInv, IsAdapter, Adapter

\* A read() of an adapter that does not listen leaves it as it is, whatever arrived; one of an adapter
\* that listens may set it up, and then it listens no more.
LEMMA ReadingKeepsPeer ==
  ASSUME IInv, NEW h \in Hosts
  PROVE  /\ IsAdapter(Reading(h).adapter)
         /\ ~adapter[h].listening => Reading(h).adapter = adapter[h]
         /\ Reading(h).adapter = adapter[h] \/ ~Reading(h).adapter.listening
<1> DEFINE a == adapter[h]
           Kept(b) == IsAdapter(b) /\ (b = a \/ (a.listening /\ ~b.listening))
<1>1. IsAdapter(a) /\ Kept(a)
  BY DEF IInv
<1>2. ASSUME NEW source, NEW destination, a.listening
      PROVE  Kept(Accept(a, source, destination))
  BY <1>1, <1>2, AdapterExcept
<1> HIDE DEF Kept
<1>3. CASE via = "udp"
  <2> DEFINE d == [source_address |-> packet.from, payload |-> packet.bytes]
  <2>1. Reading(h) = udp_read(a, d)
    BY <1>3 DEF Reading
  <2> HIDE DEF d
  <2>2. Kept(udp_read(a, d).adapter)
    BY <1>1, <1>2 DEF udp_read, Nothing, Returns
  <2> QED BY <1>1, <2>1, <2>2 DEF Kept
<1>4. ASSUME NEW ip_dgram
      PROVE  Kept(unwrap_tcp_in_ip(a, ip_dgram).adapter)
  BY <1>1, <1>2 DEF unwrap_tcp_in_ip, Nothing, Returns
<1>5. CASE via = "tun"
  <2>1. Reading(h) = tun_read(a, packet.bytes)
    BY <1>5 DEF Reading
  <2>2. Kept(tun_read(a, packet.bytes).adapter)
    BY <1>1, <1>4 DEF tun_read, Nothing
  <2> QED BY <1>1, <2>1, <2>2 DEF Kept
<1>6. CASE via = "tap"
  <2>1. Reading(h) = tap_read(a, packet.bytes)
    BY <1>6 DEF Reading
  <2>2. Kept(tap_read(a, packet.bytes).adapter)
    BY <1>1, <1>4 DEF tap_read, Nothing
  <2> QED BY <1>1, <2>1, <2>2 DEF Kept
<1> QED BY <1>3, <1>5, <1>6 DEF IInv, Device

SetUp(a) == IsAdapter(a) /\ (a.destination # NoAddress => ~a.listening)

\* connect() gives an adapter a peer and leaves it deaf to others; listen_and_accept() gives it none.
LEMMA StartsSetUp ==
  ASSUME NEW p, NEW v \in Device
  PROVE  SetUp(Configured(p, v)) /\ SetUp(socket_connect(p, v))
<1>1. ASSUME NEW port PROVE SetUp(Listening(port))
  BY DEF Listening, Adapter, IsAdapter, SetUp
<1>2. ASSUME NEW source, NEW host, NEW port PROVE SetUp(Calling(source, host, port))
  BY DEF Calling, Adapter, IsAdapter, SetUp
<1>3. ASSUME NEW a, SetUp(a), NEW up, NEW dn
      PROVE  SetUp(WithLoss(a, up, dn))
  BY <1>3, AdapterExcept DEF SetUp
<1>4. SetUp(tcp_udp(p)) /\ SetUp(tcp_ipv4(p)) /\ SetUp(tcp_ip_ethernet(p))
  BY <1>1, <1>2 DEF tcp_udp, tcp_ipv4, tcp_ip_ethernet
<1>5. PICK a : SetUp(a) /\ Configured(p, v) = WithLoss(a, p.loss_rate_up, p.loss_rate_dn)
  BY <1>4 DEF Configured, Device
<1>6. SetUp(Configured(p, v))
  BY <1>3, <1>5
<1>7. SetUp(socket_connect(p, v))
  BY <1>2 DEF socket_connect, CS144TCPSocket_connect, FullStackSocket_connect
<1> QED BY <1>6, <1>7

-----------------------------------------------------------------------------
\* Every step keeps the invariant, and keeps the adapter of a host that has a peer.
LEMMA NextIInv ==
  ASSUME IInv, [Next]_vars
  PROVE  /\ IInv'
         /\ \A h \in Hosts : adapter[h].destination # NoAddress => adapter'[h] = adapter[h]
<1> DEFINE Goal == IInv' /\ \A h \in Hosts : adapter[h].destination # NoAddress => adapter'[h] = adapter[h]
<1>1. ASSUME UNCHANGED <<via, program, adapter>>
      PROVE  Goal
  BY <1>1 DEF IInv
<1>2. ASSUME NEW h \in Hosts, ReadOption(h)
      PROVE  Goal
  <2>1. program[h] # Running /\ Reader(program[h])
    BY <1>2 DEF ReadOption, Running, IInv
  <2>2. Reader(ParseOption(program[h], via))
    <3>1. program[h].pc = "options" /\ MoreOptions(program[h])
      BY <1>2 DEF ReadOption
    <3>2. via \in Device
      BY DEF IInv
    <3> QED BY <2>1, <3>1, <3>2, ParseOptionLeavesTwo
  <2>3. /\ program' = [program EXCEPT ![h] = ParseOption(@, via)]
        /\ UNCHANGED <<via, adapter>>
    BY <1>2 DEF ReadOption, wire
  <2> QED BY <2>1, <2>2, <2>3 DEF IInv
<1>3. ASSUME NEW h \in Hosts, Start(h)
      PROVE  Goal
  <2>1. program[h] # Running /\ Reader(program[h]) /\ adapter[h] = Adapter(NoAddress, NoAddress, FALSE)
    <3>1. program[h].pc = "options"
      BY <1>3 DEF Start
    <3>2. program[h] # Running
      BY <3>1 DEF Running
    <3> QED BY <3>2 DEF IInv
  <2>2. UNCHANGED via
    BY <1>3 DEF Start, wire
  <2>3. CASE Refuses(program[h], via)
    <3>1. program' = [program EXCEPT ![h].pc = "exit"] /\ UNCHANGED adapter
      BY <1>3, <2>3 DEF Start
    <3>2. Reader(program'[h])
      BY <2>1, <3>1 DEF Reader, IInv
    <3> QED BY <2>1, <2>2, <3>1, <3>2 DEF IInv
  <2>4. CASE ~Refuses(program[h], via)
    <3>1. PICK a : SetUp(a) /\ program' = [program EXCEPT ![h] = Running]
                            /\ adapter' = [adapter EXCEPT ![h] = a]
      BY <1>3, <2>4, StartsSetUp DEF Start, IInv
    <3>2. adapter[h].destination = NoAddress
      BY <2>1 DEF Adapter
    <3> QED BY <2>2, <3>1, <3>2 DEF IInv, SetUp
  <2> QED BY <2>3, <2>4
<1>4. ASSUME NEW h \in Hosts, NEW should_drop \in BOOLEAN, Read(h, should_drop)
      PROVE  Goal
  <2>1. /\ program[h] = Running
        /\ adapter' = [adapter EXCEPT ![h] = lossy_read(Reading(h), should_drop).adapter]
        /\ UNCHANGED <<via, program>>
    BY <1>4 DEF Read, AllRun
  <2>2. lossy_read(Reading(h), should_drop).adapter = Reading(h).adapter
    BY DEF lossy_read, Nothing
  <2>3. /\ IsAdapter(Reading(h).adapter)
        /\ ~adapter[h].listening => Reading(h).adapter = adapter[h]
        /\ Reading(h).adapter = adapter[h] \/ ~Reading(h).adapter.listening
    BY ReadingKeepsPeer
  <2> QED BY <2>1, <2>2, <2>3 DEF IInv
<1>5. CASE UNCHANGED vars
  BY <1>1, <1>5 DEF vars, wire
<1>6. ASSUME NEW h \in Hosts, NEW seg \in Segments, NEW should_drop \in BOOLEAN, Write(h, seg, should_drop)
      PROVE  Goal
  BY <1>1, <1>6 DEF Write, wire
<1>7. ASSUME NEW m \in Messages, WriteArp(m)
      PROVE  Goal
  BY <1>1, <1>7 DEF WriteArp
<1>8. CASE Damage
  BY <1>1, <1>8 DEF Damage
<1>9. CASE Cut
  BY <1>1, <1>9 DEF Cut
<1>10. CASE Lose
  BY <1>1, <1>10 DEF Lose
<1> QED BY <1>2, <1>3, <1>4, <1>5, <1>6, <1>7, <1>8, <1>9, <1>10 DEF Next

\* For every command line: get_config never takes the host or the port for the value of an option.
THEOREM HostAndPortStay == Spec => []HostAndPortAreLeft
<1>1. IInv => HostAndPortAreLeft
  BY DEF IInv, Reader, Running, HostAndPortAreLeft
<1>2. IInv /\ [Next]_vars => IInv'
  BY NextIInv
<1> QED BY InitIInv, <1>1, <1>2, PTL DEF Spec

\* Whatever the wire does, with any number of hosts: no read() moves an adapter from the peer it has,
\* and no program sets its adapter up twice.
THEOREM PeerStays == Spec => PeerIsKept
<1>1. IInv /\ [Next]_vars => IInv'
  BY NextIInv
<1>2. IInv /\ [Next]_vars => [\A h \in Hosts : adapter[h].destination # NoAddress => adapter'[h] = adapter[h]]_vars
  BY NextIInv
<1> QED BY InitIInv, <1>1, <1>2, PTL DEF Spec, PeerIsKept
=============================================================================
