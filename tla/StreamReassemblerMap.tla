------------------------- MODULE StreamReassemblerMap -------------------------
(***************************************************************************)
(* The reassembler as the code stores it: _reassembler is an ordered map   *)
(* from an index to a substring, a new substring fills the gaps between    *)
(* the stored ones from left to right, and push_into_output moves whole    *)
(* substrings.  It implements StreamReassemblerSpec, where the same bytes  *)
(* are one function from indices to bytes.                                 *)
(***************************************************************************)
EXTENDS ByteStream, WrappingIntegers, SequencesExt

CONSTANTS Capacity, StreamLength

max(a, b) == IF a >= b THEN a ELSE b

NewReassembler ==
    [map |-> [i \in {} |-> <<>>], capacity_for_reassmbler |-> Capacity,
     num_bytes_free |-> Capacity, next_index |-> 0, output |-> NewByteStream(Capacity),
     eof |-> FALSE, eof_index |-> 0]

Keys(r) == SetToSortSeq(DOMAIN r.map, <)

unassembled_bytes(r) == FoldFunction(LAMBDA seg, n : n + Len(seg), 0, r.map)

update_free_space(r) ==
    LET remaining == remaining_capacity(r.output)
    IN  [r EXCEPT !.capacity_for_reassmbler = remaining,
                  !.num_bytes_free = U64(remaining - unassembled_bytes(r))]

\* The part of data, which starts at index, between begin_idx and end_idx.
resize_segment(data, index, begin_idx, end_idx) ==
    LET data_end == U64(index + Len(data))
        begin == min(data_end, max(index, begin_idx))
        end == max(begin, min(data_end, end_idx))
        pos == U64(begin - index)
    IN  [data |-> SubSeq(data, pos + 1, min(pos + U64(end - begin), Len(data))),
         index |-> begin]

\* std::map::insert leaves an entry with the same key alone.
insert_in_reassembler(r, slot) ==
    LET size_insert == min(r.num_bytes_free, Len(slot.data))
        entry == slot.index :> SubSeq(slot.data, 1, size_insert)
    IN  IF slot.data = <<>> THEN r
        ELSE [r EXCEPT !.map = @ @@ entry, !.num_bytes_free = @ - size_insert]

\* Mutant of FillGapBefore: a gap is filled past the substring that ends it.
FillGapBefore_overlapping(acc, key, data, index) ==
    LET next_index == key + Len(acc.r.map[key])
        slot == resize_segment(data, index, acc.next_index, next_index)
    IN  IF acc.stop \/ acc.r.num_bytes_free = 0 THEN acc
        ELSE [r |-> insert_in_reassembler(acc.r, slot),
              next_index |-> next_index,
              stop |-> next_index >= U64(index + Len(data))]

\* One iteration of the loop over the stored substrings: data fills the gap
\* between the end of the previous one and the one at key.
FillGapBefore(acc, key, data, index) ==
    LET next_index == key + Len(acc.r.map[key])
        slot == resize_segment(data, index, acc.next_index, key)
    IN  IF acc.stop \/ acc.r.num_bytes_free = 0 THEN acc
        ELSE [r |-> insert_in_reassembler(acc.r, slot),
              next_index |-> next_index,
              stop |-> next_index >= U64(index + Len(data))]

\* Mutant of fit_in_reassembler: nothing is stored after the last substring.
fit_in_reassembler_no_tail(r, data_in, index_in) ==
    LET clipped == resize_segment(data_in, index_in, r.next_index,
                                  r.next_index + r.capacity_for_reassmbler)
        Fill(acc, key) == FillGapBefore(acc, key, clipped.data, clipped.index)
    IN  IF r.num_bytes_free = 0 \/ clipped.data = <<>> THEN r
        ELSE IF DOMAIN r.map = {} THEN insert_in_reassembler(r, clipped)
        ELSE FoldLeft(Fill, [r |-> r, next_index |-> r.next_index, stop |-> FALSE], Keys(r)).r

fit_in_reassembler(r, data_in, index_in) ==
    LET clipped == resize_segment(data_in, index_in, r.next_index,
                                  r.next_index + r.capacity_for_reassmbler)
        data == clipped.data
        index == clipped.index
        gaps == FoldLeft(LAMBDA acc, key : FillGapBefore(acc, key, data, index),
                         [r |-> r, next_index |-> r.next_index, stop |-> FALSE], Keys(r)).r
        last == Last(Keys(gaps))
        tail == resize_segment(data, index, last + Len(gaps.map[last]), index + Len(data))
    IN  IF r.num_bytes_free = 0 \/ data = <<>> THEN r
        ELSE IF DOMAIN r.map = {} THEN insert_in_reassembler(r, clipped)
        ELSE IF gaps.num_bytes_free = 0 THEN gaps
        ELSE insert_in_reassembler(gaps, tail)

\* The front substring leaves the map when it starts at the next index.
Drain(r, key) ==
    LET seg == r.map[key]
    IN  IF key # r.next_index THEN r
        ELSE [r EXCEPT !.output = write(@, seg),
                       !.next_index = @ + Len(seg),
                       !.num_bytes_free = @ + Len(seg),
                       !.map = [k \in DOMAIN @ \ {key} |-> @[k]]]

push_into_output(r) ==
    LET drained == FoldLeft(Drain, r, Keys(r))
        ended == /\ unassembled_bytes(drained) = 0
                 /\ drained.eof
                 /\ drained.next_index = drained.eof_index
    IN  IF ended THEN [drained EXCEPT !.output = end_input(@)] ELSE drained

push_substring(r, data, index, is_eof) ==
    LET noted == [r EXCEPT !.eof = @ \/ is_eof,
                           !.eof_index = IF is_eof THEN U64(index + Len(data)) ELSE @]
        sized == update_free_space(noted)
    IN  IF sized.num_bytes_free = 0 THEN sized
        ELSE push_into_output(fit_in_reassembler(sized, data, index))

-------------------------------------------------------------------------------
VARIABLE m

Init == m = NewReassembler

Push(index, len, is_eof) ==
    /\ index + len <= StreamLength
    /\ is_eof => index + len = StreamLength
    /\ m' = push_substring(m, Run(index, len), index, is_eof)

Read(len) ==
    /\ Len(m.output.buffer) >= len
    /\ m' = [m EXCEPT !.output = pop_output(@, len)]

Next ==
    \/ \E index, len \in 0 .. StreamLength, is_eof \in BOOLEAN : Push(index, len, is_eof)
    \/ \E len \in 1 .. Capacity : Read(len)

Spec == Init /\ [][Next]_m

-------------------------------------------------------------------------------
\* The indices a stored substring occupies.
Span(key) == key .. key + Len(m.map[key]) - 1

\* The stored bytes as one function from indices to bytes.
Flattened ==
    [i \in UNION {Span(key) : key \in DOMAIN m.map} |->
        LET key == CHOOSE k \in DOMAIN m.map : i \in Span(k) IN m.map[key][i - key + 1]]

Bytes == INSTANCE StreamReassemblerSpec
             WITH r <- [reassembler |-> Flattened, next_index |-> m.next_index,
                        output |-> m.output, eof |-> m.eof, eof_index |-> m.eof_index]

\* Every push_substring on the map of substrings does to the stored bytes what
\* the byte-by-byte description says: the loops over the map lose nothing,
\* overwrite nothing and stop at the right places.
ImplementsByteReassembler == Bytes!Spec

\* fit_in_reassembler never stores an empty substring or one that overlaps
\* another, so unassembled_bytes(), which adds up lengths, counts each byte once.
DisjointSubstrings ==
    \A j, k \in DOMAIN m.map :
        m.map[j] # <<>> /\ (j < k => j + Len(m.map[j]) <= k)
===============================================================================
