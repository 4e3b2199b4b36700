------------------------- MODULE MCStreamReassembler -------------------------
(***************************************************************************)
(* The reassembler of StreamReassemblerSpec, byte by byte, and the one of  *)
(* StreamReassemblerMap, as the code stores it, side by side: the same     *)
(* substrings are pushed into both and the same bytes are read from both.  *)
(***************************************************************************)
EXTENDS StreamReassemblerSpec

VARIABLE m

M == INSTANCE StreamReassemblerMap

BothInit == Init /\ M!Init

BothNext ==
    \/ \E index, len \in 0 .. StreamLength, is_eof \in BOOLEAN :
          Push(index, len, is_eof) /\ M!Push(index, len, is_eof)
    \/ \E len \in 1 .. Capacity : Read(len) /\ M!Read(len)

BothSpec == BothInit /\ [][BothNext]_<<r, m>>

-----------------------------------------------------------------------------
\* Every push_substring on the map of substrings does to the stored bytes what the byte-by-byte
\* description says: the loops over the map lose nothing, overwrite nothing and stop at the right
\* places.
ImplementsByteReassembler == M!ImplementsByteReassembler

\* fit_in_reassembler never stores an empty substring or one that overlaps another, so
\* unassembled_bytes(), which adds up lengths, counts each byte once.
DisjointSubstrings == M!DisjointSubstrings
=============================================================================
