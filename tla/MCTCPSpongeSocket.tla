-------------------------- MODULE MCTCPSpongeSocket --------------------------
(***************************************************************************)
(* Instances of TCPSpongeSocket.                                           *)
(***************************************************************************)
EXTENDS TCPSpongeSocket

CONSTANTS ClientIsn, ServerIsn

\* Each peer's own numbers.
PerPeer(c, s) == [p \in {Client, Server} |-> IF p = Client THEN c ELSE s]
MCIsn == PerPeer(ClientIsn, ServerIsn)

\* Up to one fault while the client sends two bytes, or nobody any.
TwoBytesOneFault == {[length |-> PerPeer(2, 0), faults |-> 1]}
OneFault == {[length |-> PerPeer(0, 0), faults |-> 1]}

\* Not used here: TimePasses moves both clocks.
CommonClock == {{Client, Server}}

ServerOnly == {Server}
Both == {Client, Server}
===============================================================================
