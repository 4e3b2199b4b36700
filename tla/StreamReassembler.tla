--------------------------- MODULE StreamReassembler ---------------------------
(***************************************************************************)
(* The stream reassembler (libsponge/stream_reassembler.cc), byte by byte. *)
(* The code keeps the bytes that wait for an earlier one as a map from an  *)
(* index to a substring; here they are a function from their indices to    *)
(* the bytes.  StreamReassemblerMap keeps the substrings and is shown to   *)
(* implement this module.  The members _capacity_for_reassmbler and        *)
(* _num_bytes_free are recomputed at the start of every push_substring and *)
(* used nowhere else, so they are local definitions.                       *)
(***************************************************************************)
EXTENDS ByteStream, WrappingIntegers, FiniteSets

NewReassembler(capacity) ==
    [reassembler |-> [i \in {} |-> 0], next_index |-> 0, output |-> NewByteStream(capacity),
     eof |-> FALSE, eof_index |-> 0]

Stored(r) == DOMAIN r.reassembler

unassembled_bytes(r) == Cardinality(Stored(r))

\* Mutant of Fitting: the end of the space is off by one.
Fitting_one_more(r, data, index) ==
    {i \in index .. index + Len(data) - 1 :
        r.next_index <= i /\ i <= r.next_index + remaining_capacity(r.output)
            /\ i \notin Stored(r)}

\* The indices of data that no stored substring holds yet and that lie between
\* the next index and the end of the space left.  An index range that runs past
\* the end of size_t is clipped to nothing.
Fitting(r, data, index) ==
    IF index + Len(data) >= Mod64 THEN {}
    ELSE {i \in index .. index + Len(data) - 1 :
             /\ r.next_index <= i
             /\ i < r.next_index + remaining_capacity(r.output)
             /\ i \notin Stored(r)}

\* Mutant of fit_in_reassembler: data loses its end where it should lose the
\* front that was already written.
fit_in_reassembler_wrong_end(r, data, index, num_bytes_free) ==
    LET fitting == Fitting(r, data, index)
        kept == {i \in fitting : Cardinality({j \in fitting : j < i}) < num_bytes_free}
        begin == IF index >= r.next_index THEN index ELSE r.next_index
    IN  [r EXCEPT !.reassembler = [i \in Stored(r) \cup kept |->
                                     IF i \in kept THEN data[i - begin + 1] ELSE @[i]]]

\* At most num_bytes_free of the new bytes are kept, the first ones first.
fit_in_reassembler(r, data, index, num_bytes_free) ==
    LET fitting == Fitting(r, data, index)
        kept == {i \in fitting : Cardinality({j \in fitting : j < i}) < num_bytes_free}
    IN  [r EXCEPT !.reassembler = [i \in Stored(r) \cup kept |->
                                     IF i \in kept THEN data[i - index + 1] ELSE @[i]]]

\* The index of the first byte at or after next_index that is not stored.
FirstGap(r) ==
    CHOOSE g \in r.next_index .. r.next_index + r.output.capacity :
        g \notin Stored(r) /\ (r.next_index .. g - 1) \subseteq Stored(r)

\* Mutant of push_into_output: the end is not compared with eof_index.
push_into_output_early_end(r) ==
    LET gap == FirstGap(r)
        rest == Stored(r) \ (r.next_index .. gap - 1)
        run == [j \in 1 .. gap - r.next_index |-> r.reassembler[r.next_index + j - 1]]
        out == write(r.output, run)
    IN  [r EXCEPT !.next_index = gap,
                  !.reassembler = [i \in rest |-> @[i]],
                  !.output = IF rest = {} /\ r.eof
                             THEN end_input(out) ELSE out]

\* Mutant of push_into_output: next_index stays behind what was written.
push_into_output_no_advance(r) ==
    LET gap == FirstGap(r)
        rest == Stored(r) \ (r.next_index .. gap - 1)
        run == [j \in 1 .. gap - r.next_index |-> r.reassembler[r.next_index + j - 1]]
        out == write(r.output, run)
    IN  [r EXCEPT !.next_index = r.next_index,
                  !.reassembler = [i \in rest |-> @[i]],
                  !.output = IF rest = {} /\ r.eof /\ gap = r.eof_index
                             THEN end_input(out) ELSE out]

push_into_output(r) ==
    LET gap == FirstGap(r)
        rest == Stored(r) \ (r.next_index .. gap - 1)
        run == [j \in 1 .. gap - r.next_index |-> r.reassembler[r.next_index + j - 1]]
        out == write(r.output, run)
    IN  [r EXCEPT !.next_index = gap,
                  !.reassembler = [i \in rest |-> @[i]],
                  !.output = IF rest = {} /\ r.eof /\ gap = r.eof_index
                             THEN end_input(out) ELSE out]

\* Mutant of push_substring: the end mark is put one byte too far.
push_substring_late_end(r, data, index, is_eof) ==
    LET noted == [r EXCEPT !.eof = @ \/ is_eof,
                           !.eof_index = IF is_eof THEN U64(index + Len(data) + 1) ELSE @]
        num_bytes_free == U64(remaining_capacity(r.output) - unassembled_bytes(r))
    IN  IF num_bytes_free = 0 THEN noted
        ELSE push_into_output(fit_in_reassembler(noted, data, index, num_bytes_free))

push_substring(r, data, index, is_eof) ==
    LET noted == [r EXCEPT !.eof = @ \/ is_eof,
                           !.eof_index = IF is_eof THEN U64(index + Len(data)) ELSE @]
        num_bytes_free == U64(remaining_capacity(r.output) - unassembled_bytes(r))
    IN  IF num_bytes_free = 0 THEN noted
        ELSE push_into_output(fit_in_reassembler(noted, data, index, num_bytes_free))
===============================================================================
