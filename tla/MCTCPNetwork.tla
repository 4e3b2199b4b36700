----------------------------- MODULE MCTCPNetwork -----------------------------
(***************************************************************************)
(* Instances of TCPNetwork.                                                *)
(***************************************************************************)
EXTENDS TCPNetwork

CONSTANTS ClientIsn, ServerIsn

\* Each peer's own numbers.
PerPeer(c, s) == [p \in {Client, Server} |-> IF p = Client THEN c ELSE s]
MCIsn == PerPeer(ClientIsn, ServerIsn)

Workload(c, s, n) == [length |-> PerPeer(c, s), faults |-> n]

\* Without a fault: two bytes one way, so that bytes can arrive in the wrong order,
\* or a byte each way.  With a fault: a byte one way, or only the two ends.
Mixed == {Workload(2, 0, 0), Workload(1, 1, 0), Workload(1, 0, 1), Workload(0, 0, 1)}
OneByteOneFault == {Workload(1, 0, 1)}
TwoBytes == {Workload(2, 0, 0)}

\* The clocks of the two hosts run freely.
FreeClocks == {{Client}, {Server}}
===============================================================================
