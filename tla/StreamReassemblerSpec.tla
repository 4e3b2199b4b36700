------------------------- MODULE StreamReassemblerSpec -------------------------
(***************************************************************************)
(* The reassembler between a network that delivers the substrings of one   *)
(* stream in any order, overlapping and repeated, and an application that  *)
(* reads the output stream.                                                *)
(***************************************************************************)
EXTENDS PeerStream

VARIABLE r

Init == r = NewReassembler(Capacity)

\* push_substring with len bytes of the peer's stream; only a substring that
\* reaches the end of the stream may carry the end mark.
Push(index, len, is_eof) ==
    /\ index + len <= StreamLength
    /\ is_eof => index + len = StreamLength
    /\ r' = push_substring(r, Run(index, len), index, is_eof)

\* The application pops len bytes of the output stream.
Read(len) ==
    /\ Len(r.output.buffer) >= len
    /\ r' = [r EXCEPT !.output = pop_output(@, len)]

Next ==
    \/ \E index, len \in 0 .. StreamLength, is_eof \in BOOLEAN : Push(index, len, is_eof)
    \/ \E len \in 1 .. Capacity : Read(len)

Spec == Init /\ [][Next]_r

-------------------------------------------------------------------------------
\* The members of StreamReassembler have their types, no index lies past the end
\* of the peer's stream, and the capacity never changes.
TypeOK ==
    /\ Stored(r) \subseteq 0 .. StreamLength - 1
    /\ r.reassembler \in [Stored(r) -> Byte]
    /\ r.next_index \in 0 .. StreamLength
    /\ r.output \in ByteStreamState /\ r.output.capacity = Capacity
    /\ r.eof \in BOOLEAN /\ r.eof_index \in 0 .. StreamLength

\* push_substring puts every byte where it belongs: the output stream is a
\* prefix of the peer's stream however the substrings overlap, the bytes that
\* wait sit at their own indices, and next_index counts what was written.
InOrderDelivery ==
    /\ InOrder(r.output)
    /\ r.next_index = r.output.bytes_written
    /\ \A i \in Stored(r) : r.reassembler[i] = i

\* The bytes that wait lie strictly after the next expected one and inside the
\* space the output has left.  So update_free_space never subtracts below zero,
\* write() in push_into_output never drops a byte for want of space, and bytes
\* that arrived early never take the place of the next expected byte.
StoredInWindow ==
    \A i \in Stored(r) :
        r.next_index < i /\ i < r.next_index + remaining_capacity(r.output)

\* stream_reassembler.hh: the capacity limits the bytes that have been
\* reassembled and those that have not, together.
MemoryBound == Len(r.output.buffer) + unassembled_bytes(r) <= Capacity

\* push_into_output ends the output stream only after its last byte, and never
\* with a byte still waiting.
EndsExactly ==
    r.output.end_input => r.output.bytes_written = StreamLength /\ Stored(r) = {}

\* The index up to which the peer was allowed to send.
RightEdge == r.next_index + remaining_capacity(r.output)

\* push_substring and pop_output never move the right edge of the window to the
\* left, although pushing takes space and reading gives it back.
WindowNeverShrinks == [][RightEdge' >= RightEdge]_r
===============================================================================
