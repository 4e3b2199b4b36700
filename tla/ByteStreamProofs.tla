--------------------------- MODULE ByteStreamProofs ---------------------------
(***************************************************************************)
(* What the methods of ByteStream do to a stream that is in order.         *)
(***************************************************************************)
EXTENDS ByteStream, SequenceTheorems, TLAPS

\* The elements of a concatenation, for sequences of bytes.
LEMMA ConcatBytes ==
    ASSUME NEW a \in Seq(Byte), NEW b \in Seq(Byte)
    PROVE  /\ a \o b \in Seq(Byte)
           /\ Len(a \o b) = Len(a) + Len(b)
           /\ \A j \in 1 .. Len(a) + Len(b) :
                 (a \o b)[j] = IF j <= Len(a) THEN a[j] ELSE b[j - Len(a)]
  BY ConcatProperties

\* ByteStream::write of the bytes that come next, when there is space for all of
\* them, appends exactly those; a stream that has ended takes nothing.
LEMMA WriteInOrder ==
    ASSUME NEW s \in ByteStreamState, InOrder(s),
           NEW data \in Seq(Byte),
           Len(data) <= remaining_capacity(s),
           \A j \in 1 .. Len(data) : data[j] = s.bytes_written + j - 1,
           s.end_input => Len(data) = 0
    PROVE  /\ write(s, data) \in ByteStreamState
           /\ InOrder(write(s, data))
           /\ write(s, data).capacity = s.capacity
           /\ write(s, data).end_input = s.end_input
           /\ write(s, data).bytes_read = s.bytes_read
           /\ write(s, data).bytes_written = s.bytes_written + Len(data)
           /\ Len(write(s, data).buffer) = Len(s.buffer) + Len(data)
<1> DEFINE cut == SubSeq(data, 1, Len(data))
           longer == s.buffer \o cut
<1>1. /\ Len(s.buffer) \in Nat /\ Len(data) \in Nat /\ s.buffer \in Seq(Byte)
      /\ s.bytes_read \in Nat /\ s.bytes_written \in Nat
  BY DEF ByteStreamState
<1>2. min(Len(data), remaining_capacity(s)) = Len(data)
  BY <1>1 DEF min, remaining_capacity, ByteStreamState
<1>3. /\ cut \in Seq(Byte) /\ Len(cut) = Len(data)
      /\ \A j \in 1 .. Len(data) : cut[j] = data[j]
  BY <1>1
<1>4. ASSUME s.end_input
      PROVE  write(s, data) = s /\ Len(data) = 0
  BY <1>4 DEF write
<1>5. ASSUME ~s.end_input
      PROVE  write(s, data) = [s EXCEPT !.buffer = longer, !.bytes_read = s.bytes_read,
                                        !.bytes_written = s.bytes_written + Len(data)]
  <2>1. write(s, data) = [s EXCEPT !.buffer = longer,
                                   !.bytes_written = s.bytes_written + Len(data)]
    BY <1>2, <1>5 DEF write
  <2> HIDE DEF longer
  <2> QED
    BY <2>1 DEF ByteStreamState
<1> HIDE DEF cut
<1>6. /\ longer \in Seq(Byte)
      /\ Len(longer) = Len(s.buffer) + Len(data)
      /\ \A j \in 1 .. Len(s.buffer) + Len(data) :
            longer[j] = IF j <= Len(s.buffer) THEN s.buffer[j] ELSE cut[j - Len(s.buffer)]
  <2>1. /\ longer \in Seq(Byte)
        /\ Len(longer) = Len(s.buffer) + Len(cut)
        /\ \A j \in 1 .. Len(s.buffer) + Len(cut) :
              longer[j] = IF j <= Len(s.buffer) THEN s.buffer[j] ELSE cut[j - Len(s.buffer)]
    BY <1>1, <1>3, ConcatBytes
  <2> QED
    BY <2>1, <1>3, Zenon
<1> HIDE DEF longer
<1>7. s.bytes_written = s.bytes_read + Len(s.buffer)
      /\ \A j \in 1 .. Len(s.buffer) : s.buffer[j] = s.bytes_read + j - 1
  BY DEF InOrder
<1>8. ASSUME NEW j \in 1 .. Len(s.buffer) + Len(data)
      PROVE  longer[j] = s.bytes_read + j - 1
  <2>1. CASE j <= Len(s.buffer)
    BY <2>1, <1>1, <1>6, <1>7
  <2>2. CASE ~(j <= Len(s.buffer))
    <3> DEFINE k == j - Len(s.buffer)
    <3>1. k \in 1 .. Len(data) /\ j = Len(s.buffer) + k
      BY <2>2, <1>1
    <3>2. longer[j] = cut[k]
      BY <1>6, <2>2
    <3> HIDE DEF k
    <3>3. cut[k] = s.bytes_written + k - 1
      BY <3>1, <1>3
    <3> QED
      BY <3>1, <3>2, <3>3, <1>1, <1>7
  <2> QED
    BY <2>1, <2>2
<1>9. CASE s.end_input
  <2>1. write(s, data) = s /\ Len(data) = 0
    BY <1>4, <1>9
  <2>2. s.bytes_written = s.bytes_written + 0 /\ Len(s.buffer) = Len(s.buffer) + 0
    BY <1>1
  <2> QED
    BY <2>1, <2>2, Zenon
<1>10. CASE ~s.end_input
  <2>1. /\ write(s, data) \in ByteStreamState
        /\ write(s, data).buffer = longer
        /\ write(s, data).bytes_read = s.bytes_read
        /\ write(s, data).bytes_written = s.bytes_written + Len(data)
        /\ write(s, data).capacity = s.capacity
        /\ write(s, data).end_input = s.end_input
    <3>1. s.bytes_written + Len(data) \in Nat
      BY <1>1
    <3> QED
      BY <1>1, <1>5, <1>6, <1>10, <3>1 DEF ByteStreamState
  <2>2. InOrder(write(s, data))
    BY <2>1, <1>1, <1>6, <1>7, <1>8 DEF InOrder
  <2> QED
    BY <2>1, <2>2, <1>6
<1> QED
  BY <1>9, <1>10

\* ByteStream::pop_output takes len bytes from the front and leaves the rest in
\* order.
LEMMA PopInOrder ==
    ASSUME NEW s \in ByteStreamState, InOrder(s),
           NEW len \in Nat, len <= Len(s.buffer)
    PROVE  /\ pop_output(s, len) \in ByteStreamState
           /\ InOrder(pop_output(s, len))
           /\ pop_output(s, len).capacity = s.capacity
           /\ pop_output(s, len).end_input = s.end_input
           /\ pop_output(s, len).bytes_written = s.bytes_written
           /\ Len(pop_output(s, len).buffer) = Len(s.buffer) - len
<1> DEFINE rest == SubSeq(s.buffer, len + 1, Len(s.buffer))
<1>1. /\ Len(s.buffer) \in Nat /\ s.buffer \in Seq(Byte)
      /\ s.bytes_read \in Nat /\ s.bytes_written \in Nat
  BY DEF ByteStreamState
<1>2. min(len, Len(s.buffer)) = len
  BY <1>1 DEF min
<1>3. /\ rest \in Seq(Byte) /\ Len(rest) = Len(s.buffer) - len
      /\ \A j \in 1 .. Len(s.buffer) - len : rest[j] = s.buffer[len + j]
  BY <1>1
<1>4. pop_output(s, len) = [s EXCEPT !.buffer = rest, !.bytes_read = s.bytes_read + len]
  BY <1>2 DEF pop_output
<1> HIDE DEF rest
<1>5. pop_output(s, len) = [s EXCEPT !.buffer = rest, !.bytes_read = s.bytes_read + len,
                                     !.bytes_written = s.bytes_written]
  BY <1>4 DEF ByteStreamState
<1>6. /\ pop_output(s, len) \in ByteStreamState
      /\ pop_output(s, len).buffer = rest
      /\ pop_output(s, len).bytes_read = s.bytes_read + len
      /\ pop_output(s, len).capacity = s.capacity
      /\ pop_output(s, len).end_input = s.end_input
      /\ pop_output(s, len).bytes_written = s.bytes_written
  <2>1. s.bytes_read + len \in Nat
    BY <1>1
  <2> QED
    BY <1>1, <1>3, <1>5, <2>1 DEF ByteStreamState
<1>7. /\ s.bytes_written = s.bytes_read + Len(s.buffer)
      /\ \A j \in 1 .. Len(s.buffer) : s.buffer[j] = s.bytes_read + j - 1
  BY DEF InOrder
<1>8. ASSUME NEW j \in 1 .. Len(rest)
      PROVE  rest[j] = s.bytes_read + len + j - 1
  <2>1. len + j \in 1 .. Len(s.buffer)
    BY <1>1, <1>3
  <2> QED
    BY <2>1, <1>1, <1>3, <1>7
<1>9. InOrder(pop_output(s, len))
  BY <1>1, <1>3, <1>6, <1>7, <1>8 DEF InOrder
<1> QED
  BY <1>3, <1>6, <1>9
===============================================================================
