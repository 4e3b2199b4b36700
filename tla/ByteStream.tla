------------------------------ MODULE ByteStream ------------------------------
(***************************************************************************)
(* The bounded in-order byte stream (libsponge/byte_stream.cc).  A stream  *)
(* is a record with the members of the class, and each method that changes *)
(* the stream is an operator from a stream to a stream.                    *)
(*                                                                         *)
(* The code never looks at the value of a byte, so a byte is identified    *)
(* with its position in the stream its first writer writes: the byte at    *)
(* index i of a stream is the number i.  A byte that is lost, repeated or  *)
(* misplaced on its way is then visible as a wrong number.                 *)
(***************************************************************************)
EXTENDS Integers, Sequences

Byte == Nat

min(a, b) == IF a <= b THEN a ELSE b

ByteStreamState ==
    [capacity: Nat, buffer: Seq(Byte), error: BOOLEAN, end_input: BOOLEAN,
     bytes_read: Nat, bytes_written: Nat]

NewByteStream(capacity) ==
    [capacity |-> capacity, buffer |-> <<>>, error |-> FALSE,
     end_input |-> FALSE, bytes_read |-> 0, bytes_written |-> 0]

\* Mutant of remaining_capacity: the buffered bytes are not subtracted.
remaining_capacity_total(s) == s.capacity

remaining_capacity(s) == s.capacity - Len(s.buffer)

eof(s) == s.buffer = <<>> /\ s.end_input

write(s, data) ==
    LET max_bytes_written == min(Len(data), remaining_capacity(s))
    IN  IF s.end_input THEN s
        ELSE [s EXCEPT !.buffer = @ \o SubSeq(data, 1, max_bytes_written),
                       !.bytes_written = @ + max_bytes_written]

peek_output(s, len) == SubSeq(s.buffer, 1, min(len, Len(s.buffer)))

pop_output(s, len) ==
    LET max_bytes_pop == min(len, Len(s.buffer))
    IN  [s EXCEPT !.buffer = SubSeq(@, max_bytes_pop + 1, Len(@)),
                  !.bytes_read = @ + max_bytes_pop]

end_input(s) == [s EXCEPT !.end_input = TRUE]

set_error(s) == [s EXCEPT !.error = TRUE]

\* The substring that holds the bytes index, ..., index + len - 1.
Run(index, len) == [j \in 1 .. len |-> index + j - 1]

(***************************************************************************)
(* A stream is in order when its buffer holds exactly the bytes after the  *)
(* ones that were read: nothing lost, repeated or swapped.                 *)
(***************************************************************************)
InOrder(s) ==
    /\ s.bytes_written = s.bytes_read + Len(s.buffer)
    /\ \A j \in 1 .. Len(s.buffer) : s.buffer[j] = s.bytes_read + j - 1
===============================================================================
