------------------------------ MODULE PeerStream ------------------------------
(***************************************************************************)
(* A reassembler of some capacity and the one stream that a peer sends to  *)
(* it: what StreamReassemblerSpec and TCPReceiverSpec have in common.      *)
(***************************************************************************)
EXTENDS StreamReassembler

CONSTANTS Capacity,      \* the capacity of the reassembler and of its output
          StreamLength   \* the number of bytes of the peer's stream

ASSUME ReassemblerAssumption ==
    /\ Capacity \in Nat
    /\ StreamLength \in Nat
    /\ StreamLength + Capacity < Mod64
===============================================================================
