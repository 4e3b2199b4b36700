------------------------------ MODULE NetParser ------------------------------
(***************************************************************************)
(* How packets are read from and written to bytes: the buffers of          *)
(* util/buffer.hh, NetParser and NetUnparser of util/parser.cc and         *)
(* InternetChecksum of util/util.cc.                                       *)
(*                                                                         *)
(* A Buffer is the sequence of bytes it still shows: its storage is shared *)
(* and never written, so the offset into it tells nothing more.  A         *)
(* BufferList is a sequence of Buffers.  A 32-bit value is the pair of its *)
(* 16-bit halves, because TLC's integers are 32-bit and signed.            *)
(***************************************************************************)
EXTENDS Integers, Sequences, SequencesExt

Byte == 0..255

BufferList(buffer) == <<buffer>>

append(list, other) == list \o other

concatenate(list) == FlattenSeq(list)

size(list) == Len(concatenate(list))

-----------------------------------------------------------------------------
(* NetParser: the buffer still to be read and the first error met.          *)

Parser(buffer) == [buffer |-> buffer, error |-> "NoError"]

check_size(p, n) ==
  IF n > Len(p.buffer) THEN [p EXCEPT !.error = "PacketTooShort"] ELSE p

remove_prefix(p, n) ==
  LET q == check_size(p, n)
  IN  IF q.error # "NoError" THEN q
      ELSE [q EXCEPT !.buffer = SubSeq(@, n + 1, Len(@))]

\* What _parse_int returns for an integer of n bytes, 0 once in error; an Ethernet address (n = 6) is
\* the array its six u8() fill.
parse_int(p, n) ==
  LET b == IF check_size(p, n).error # "NoError" THEN [i \in 1..n |-> 0] ELSE SubSeq(p.buffer, 1, n)
  IN  CASE n = 1 -> b[1]
        [] n = 2 -> b[1] * 256 + b[2]
        [] n = 4 -> <<b[1] * 256 + b[2], b[3] * 256 + b[4]>>
        [] n = 6 -> b

\* A run of integers of the given widths, as a header's parse() reads them.
Ints(p, widths) ==
  FoldLeft(LAMBDA r, n : [p |-> remove_prefix(r.p, n),
                          out |-> Append(r.out, parse_int(r.p, n))],
           [p |-> p, out |-> <<>>], widths)

-----------------------------------------------------------------------------
(* NetUnparser                                                              *)

u8(val) == <<val % 256>>

u16(val) == <<(val \div 256) % 256, val % 256>>

u32(val) == u16(val[1]) \o u16(val[2])

\* string::resize: cut, or filled up with zero bytes.
Resize(s, n) == [i \in 1..n |-> IF i <= Len(s) THEN s[i] ELSE 0]

Bit(val, k) == (val \div 2^k) % 2 = 1

Flag(b, k) == IF b THEN 2^k ELSE 0

-----------------------------------------------------------------------------
(* InternetChecksum                                                         *)

Checksum(initial_sum) == [sum |-> initial_sum, parity |-> FALSE]

\* The loop adds one weight per byte; the sum is taken in halves, which keeps TLC's stack small.
add(c, data) ==
  LET weight(i) == IF c.parity = (i % 2 = 0) THEN 256 * data[i] ELSE data[i]
      total[lo, hi \in 0..Len(data)] ==
        IF lo = hi THEN weight(lo)
        ELSE LET mid == (lo + hi) \div 2 IN total[lo, mid] + total[mid + 1, hi]
  IN  IF data = <<>> THEN c
      ELSE [sum |-> c.sum + total[1, Len(data)], parity |-> c.parity # (Len(data) % 2 = 1)]

FoldCarries[n \in Nat] ==
  IF n > 65535 THEN FoldCarries[(n \div 65536) + (n % 65536)] ELSE n

\* Mutant of value: the carries are folded in once, by an `if` in place of the `while`.
value_one_fold(c) ==
  (65535 - (IF c.sum > 65535 THEN (c.sum \div 65536) + (c.sum % 65536) ELSE c.sum)) % 65536

value(c) == 65535 - FoldCarries[c.sum]
=============================================================================
