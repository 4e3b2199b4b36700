---------------------------- MODULE TCPSenderProofs ----------------------------
(***************************************************************************)
(* The safety properties of TCPSenderSpec for every payload size, timeout, *)
(* capacity, stream length, window and width of the sequence numbers.  The *)
(* backoff, a power of two, is left to TLC: the provers have no theory of  *)
(* exponents.                                                              *)
(***************************************************************************)
EXTENDS TCPSenderSpec, ByteStreamProofs, WrappingIntegersProofs, WellFoundedInduction,
        NaturalsInduction

Segment ==
    [seqno : Nat, ackno : Nat, syn : BOOLEAN, ack : BOOLEAN, rst : BOOLEAN,
     fin : BOOLEAN, win : Nat, payload : Seq(Byte)]

Outstanding == [abs_seqno : Nat, zero : BOOLEAN, seg : Segment]

\* What an outstanding segment carries, when the sender whose isn this is has
\* used the sequence numbers before next, the last one for its FIN if fin_sent.
Carries(e, isn, fin_sent, next) ==
    /\ e.seg.seqno = wrap(e.abs_seqno, isn)
    /\ e.seg.syn <=> e.abs_seqno = 0
    /\ e.seg.payload = Run(e.abs_seqno - 1, Len(e.seg.payload))
    /\ Len(e.seg.payload) <= MAX_PAYLOAD_SIZE
    /\ e.seg.fin <=> (fin_sent /\ OutstandingEnd(e) = next)
    /\ e.abs_seqno < OutstandingEnd(e)
    /\ OutstandingEnd(e) <= next

\* A queue of outstanding segments: each follows the one before it, and the last
\* one ends where the next new sequence number is.
Queue(o, isn, fin_sent, next) ==
    /\ o \in Seq(Outstanding)
    /\ \A i \in 1 .. Len(o) : Carries(o[i], isn, fin_sent, next)
    /\ \A i \in 1 .. Len(o) - 1 : OutstandingEnd(o[i]) = o[i + 1].abs_seqno
    /\ Len(o) > 0 => OutstandingEnd(o[Len(o)]) = next

\* The number after a segment is a number.
LEMMA EndType ==
    ASSUME NEW e \in Outstanding
    PROVE  OutstandingEnd(e) \in Nat /\ e.abs_seqno \in Nat /\ e.seg \in Segment
<1>1. e.abs_seqno \in Nat /\ e.seg \in Segment
  BY DEF Outstanding
<1>2. Len(e.seg.payload) \in Nat
  BY <1>1 DEF Segment
<1>3. ASSUME NEW b PROVE (IF b THEN 1 ELSE 0) \in Nat
  OBVIOUS
<1>4. length_in_sequence_space(e.seg) \in Nat
  <2> DEFINE a == Len(e.seg.payload)
             b == IF e.seg.syn THEN 1 ELSE 0
             c == IF e.seg.fin THEN 1 ELSE 0
  <2>1. a \in Nat /\ b \in Nat /\ c \in Nat
    BY <1>2, <1>3
  <2>2. length_in_sequence_space(e.seg) = a + b + c
    BY DEF length_in_sequence_space
  <2> HIDE DEF a, b, c
  <2> QED BY <2>1, <2>2
<1> QED BY <1>1, <1>4 DEF OutstandingEnd

\* The elements of a concatenation.
LEMMA ConcatElements ==
    ASSUME NEW S, NEW a \in Seq(S), NEW b \in Seq(S)
    PROVE  /\ a \o b \in Seq(S)
           /\ Len(a \o b) = Len(a) + Len(b)
           /\ \A i \in 1 .. Len(a) : (a \o b)[i] = a[i]
           /\ \A i \in 1 .. Len(b) : (a \o b)[Len(a) + i] = b[i]
  BY ConcatProperties

\* New segments that start at next extend a queue: none of the old ones is the
\* one that carries the FIN.
LEMMA QueueExtends ==
    ASSUME NEW o, NEW new, NEW isn, NEW next \in Nat, NEW next2 \in Nat,
           NEW fin_sent \in BOOLEAN,
           Queue(o, isn, FALSE, next), Queue(new, isn, fin_sent, next2),
           Len(new) > 0 => new[1].abs_seqno = next,
           Len(new) = 0 => next2 = next /\ ~fin_sent,
           next <= next2, fin_sent => next < next2
    PROVE  Queue(o \o new, isn, fin_sent, next2)
<1> DEFINE q == o \o new
<1>1. o \in Seq(Outstanding) /\ new \in Seq(Outstanding)
  BY DEF Queue
<1>2. /\ q \in Seq(Outstanding) /\ Len(q) = Len(o) + Len(new)
      /\ \A i \in 1 .. Len(o) : q[i] = o[i]
      /\ \A i \in 1 .. Len(new) : q[Len(o) + i] = new[i]
      /\ Len(o) \in Nat /\ Len(new) \in Nat
  BY <1>1, ConcatElements
<1> HIDE DEF q
<1>3. ASSUME NEW i \in 1 .. Len(o)
      PROVE  Carries(o[i], isn, fin_sent, next2)
  <2>1. o[i] \in Outstanding
    BY <1>1
  <2>2. Carries(o[i], isn, FALSE, next) /\ OutstandingEnd(o[i]) \in Nat
    BY <2>1, EndType DEF Queue
  <2>3. OutstandingEnd(o[i]) <= next
    BY <2>2 DEF Carries
  <2>4. OutstandingEnd(o[i]) <= next2 /\ ~(fin_sent /\ OutstandingEnd(o[i]) = next2)
    BY <2>2, <2>3
  <2> QED BY <2>2, <2>4 DEF Carries
<1>4. ASSUME NEW i \in 1 .. Len(q)
      PROVE  \/ i \in 1 .. Len(o) /\ q[i] = o[i]
             \/ i - Len(o) \in 1 .. Len(new) /\ q[i] = new[i - Len(o)]
  <2>1. CASE i <= Len(o)
    BY <1>2, <2>1
  <2>2. CASE i > Len(o)
    <3>1. i - Len(o) \in 1 .. Len(new) /\ i = Len(o) + (i - Len(o))
      BY <1>2, <2>2
    <3> QED BY <1>2, <3>1
  <2> QED BY <1>2, <2>1, <2>2
<1>5. \A i \in 1 .. Len(q) : Carries(q[i], isn, fin_sent, next2)
  BY <1>3, <1>4 DEF Queue
<1>6. ASSUME NEW i \in 1 .. Len(q) - 1
      PROVE  OutstandingEnd(q[i]) = q[i + 1].abs_seqno
  <2>1. CASE i < Len(o)
    <3>1. q[i] = o[i] /\ q[i + 1] = o[i + 1] /\ i \in 1 .. Len(o) - 1
      BY <1>2, <2>1
    <3> QED BY <3>1 DEF Queue
  <2>2. CASE i = Len(o)
    <3>1. 1 \in 1 .. Len(new) /\ Len(o) > 0
      BY <1>2, <2>2
    <3>2. q[i] = o[Len(o)] /\ q[i + 1] = new[1]
      BY <1>2, <2>2, <3>1
    <3> QED BY <1>2, <3>1, <3>2 DEF Queue
  <2>3. CASE i > Len(o)
    <3> DEFINE j == i - Len(o)
    <3>1. j \in 1 .. Len(new) - 1 /\ i = Len(o) + j /\ i + 1 = Len(o) + (j + 1)
          /\ j \in 1 .. Len(new) /\ j + 1 \in 1 .. Len(new)
      BY <1>2, <2>3
    <3> HIDE DEF j
    <3>2. q[i] = new[j] /\ q[i + 1] = new[j + 1]
      BY <1>2, <3>1
    <3> QED BY <3>1, <3>2 DEF Queue
  <2> QED BY <1>2, <2>1, <2>2, <2>3
<1>7. Len(q) > 0 => OutstandingEnd(q[Len(q)]) = next2
  <2>1. CASE Len(new) > 0
    <3>1. q[Len(q)] = new[Len(new)]
      BY <1>2, <2>1
    <3> QED BY <2>1, <3>1 DEF Queue
  <2>2. CASE Len(new) = 0
    BY <1>2, <2>2 DEF Queue
  <2> QED BY <1>2, <2>1, <2>2
<1> QED BY <1>2, <1>5, <1>6, <1>7 DEF Queue, q

\* remove_outstanding_segments leaves a queue.
LEMMA QueueSuffix ==
    ASSUME NEW o, NEW isn, NEW fin_sent, NEW next, Queue(o, isn, fin_sent, next),
           NEW k \in 1 .. Len(o) + 1
    PROVE  /\ Queue(SubSeq(o, k, Len(o)), isn, fin_sent, next)
           /\ Len(SubSeq(o, k, Len(o))) = Len(o) + 1 - k
           /\ k <= Len(o) => SubSeq(o, k, Len(o))[1] = o[k]
<1> DEFINE q == SubSeq(o, k, Len(o))
<1>1. o \in Seq(Outstanding) /\ Len(o) \in Nat
  BY DEF Queue
<1>2. /\ q \in Seq(Outstanding) /\ Len(q) = Len(o) + 1 - k
      /\ \A i \in 1 .. Len(o) + 1 - k : q[i] = o[k + i - 1]
  <2>1. \A i \in k .. Len(o) : o[i] \in Outstanding
    BY <1>1
  <2> QED BY <1>1, <2>1, SubSeqProperties
<1> HIDE DEF q
<1>3. ASSUME NEW i \in 1 .. Len(q)
      PROVE  Carries(q[i], isn, fin_sent, next)
  <2>1. k + i - 1 \in 1 .. Len(o) /\ q[i] = o[k + i - 1]
    BY <1>1, <1>2
  <2> QED BY <2>1 DEF Queue
<1>4. ASSUME NEW i \in 1 .. Len(q) - 1
      PROVE  OutstandingEnd(q[i]) = q[i + 1].abs_seqno
  <2> DEFINE j == k + i - 1
  <2>1. j \in 1 .. Len(o) - 1 /\ q[i] = o[j] /\ q[i + 1] = o[j + 1]
    BY <1>1, <1>2
  <2> HIDE DEF j
  <2> QED BY <2>1 DEF Queue
<1>5. Len(q) > 0 => OutstandingEnd(q[Len(q)]) = next
  <2>1. ASSUME Len(q) > 0 PROVE q[Len(q)] = o[Len(o)] /\ Len(o) > 0
    BY <1>1, <1>2, <2>1
  <2> QED BY <2>1 DEF Queue
<1>6. k <= Len(o) => q[1] = o[k]
  BY <1>1, <1>2
<1> QED BY <1>2, <1>3, <1>4, <1>5, <1>6 DEF Queue, q

-------------------------------------------------------------------------------
\* Multiplication by a payload size is monotonic.
LEMMA TimesPayload ==
    ASSUME NEW a \in Int, NEW b \in Int, a <= b, NEW m \in Nat
    PROVE  a * m <= b * m
<1>1. (b - a) * m >= 0
  OBVIOUS
<1>2. (b - a) * m = b * m - a * m
  OBVIOUS
<1> QED BY <1>1, <1>2

\* Where fill_window cuts len bytes into payloads: all are full but the last
\* one, the last one ends with the last byte, and only a lone FIN has none.
LEMMA ChunkCuts ==
    ASSUME NEW len \in Nat, NEW fin \in BOOLEAN,
           NEW count, count = SegmentCount(len, fin)
    PROVE  /\ count \in Nat
           /\ count = 0 <=> len = 0 /\ ~fin
           /\ \A i \in 1 .. count :
                /\ (i - 1) * MAX_PAYLOAD_SIZE \in Nat
                /\ i * MAX_PAYLOAD_SIZE = (i - 1) * MAX_PAYLOAD_SIZE + MAX_PAYLOAD_SIZE
                /\ (i - 1) * MAX_PAYLOAD_SIZE <= len
                /\ (i - 1) * MAX_PAYLOAD_SIZE < len \/ (len = 0 /\ fin)
                /\ i < count => i * MAX_PAYLOAD_SIZE < len
                /\ i = count => i * MAX_PAYLOAD_SIZE >= len
<1> DEFINE M == MAX_PAYLOAD_SIZE
<1>1. M \in Nat \ {0}
  BY SenderConfigAssumption
<1> HIDE DEF M
<1>2. CASE len = 0
  <2>1. count = IF fin THEN 1 ELSE 0
    BY <1>2 DEF SegmentCount
  <2>2. \A i \in 1 .. count : i = 1 /\ fin /\ count = 1
    BY <2>1
  <2>3. (1 - 1) * M = 0 /\ 1 * M = M
    BY <1>1
  <2> QED BY <1>1, <1>2, <2>1, <2>2, <2>3 DEF M
<1>3. CASE len > 0
  <2> DEFINE q == (len - 1) \div M
             l == (len - 1) % M
  <2>1. q \in Int /\ l \in Int /\ 0 <= l /\ l < M /\ len - 1 = M * q + l
    BY <1>1, DivMod
  <2>2. count = q + 1
    BY <1>3 DEF SegmentCount, M
  <2> HIDE DEF q, l
  <2>3. M * q = q * M /\ q * M \in Int /\ (q + 1) * M = q * M + M
    BY <1>1, <2>1
  <2>4. q \in Nat
    <3>1. ASSUME q <= -1 PROVE FALSE
      <4>1. q * M <= (-1) * M
        BY <1>1, <2>1, <3>1, TimesPayload
      <4>2. (-1) * M = -M
        BY <1>1
      <4> QED BY <1>1, <1>3, <2>1, <2>3, <4>1, <4>2
    <3> QED BY <2>1, <3>1
  <2>5. ASSUME NEW i \in 1 .. count
        PROVE  /\ (i - 1) * M \in Nat /\ i * M = (i - 1) * M + M
               /\ (i - 1) * M < len
               /\ i < count => i * M < len
               /\ i = count => i * M >= len
    <3>1. i \in Int /\ 1 <= i /\ i - 1 <= q /\ i - 1 \in Nat
      BY <2>2, <2>4
    <3>2. (i - 1) * M <= q * M
      BY <1>1, <2>1, <3>1, TimesPayload
    <3>3. (i - 1) * M \in Nat /\ i * M = (i - 1) * M + M
      BY <1>1, <3>1
    <3>4. ASSUME i < count PROVE i * M < len
      <4>1. i * M <= q * M
        BY <1>1, <2>1, <2>2, <3>1, <3>4, TimesPayload
      <4> QED BY <1>1, <2>1, <2>3, <3>3, <4>1
    <3>5. ASSUME i = count PROVE i * M >= len
      BY <1>1, <2>1, <2>2, <2>3, <3>5
    <3> QED BY <1>1, <2>1, <2>3, <3>2, <3>3, <3>4, <3>5
  <2> QED BY <1>1, <1>3, <2>2, <2>4, <2>5 DEF M
<1> QED BY <1>2, <1>3

\* The i-th outstanding segment that SendChunks adds.
ChunkOutstanding(s, len, fin, zero, i) ==
    [abs_seqno |-> s.next_seqno + (i - 1) * MAX_PAYLOAD_SIZE, zero |-> zero,
     seg |-> Chunk(s, len, fin, i)]

\* The next sequence number after len bytes and perhaps a FIN.
After(next, len, fin) == next + len + (IF fin THEN 1 ELSE 0)

\* The bytes of the stream that are not sent yet go with the sequence numbers
\* from next_seqno on.
NextBytes(s) ==
    /\ s.isn \in WrappingInt32
    /\ s.next_seqno \in Nat \ {0}
    /\ s.stream.buffer \in Seq(Byte)
    /\ \A j \in 1 .. Len(s.stream.buffer) : s.stream.buffer[j] = s.next_seqno + j - 2

\* Each new segment carries the bytes its sequence number stands for, and it ends
\* where the next one starts.
LEMMA ChunkCarries ==
    ASSUME NEW s, NextBytes(s),
           NEW len \in Nat, len <= Len(s.stream.buffer), NEW fin \in BOOLEAN,
           NEW zero \in BOOLEAN,
           NEW count, count = SegmentCount(len, fin), NEW i \in 1 .. count,
           NEW e, e = ChunkOutstanding(s, len, fin, zero, i)
    PROVE  /\ e \in Outstanding
           /\ Carries(e, s.isn, fin, After(s.next_seqno, len, fin))
           /\ e.abs_seqno = s.next_seqno + (i - 1) * MAX_PAYLOAD_SIZE
           /\ i < count => OutstandingEnd(e) = s.next_seqno + i * MAX_PAYLOAD_SIZE
           /\ i = count => OutstandingEnd(e) = After(s.next_seqno, len, fin)
<1> DEFINE first == (i - 1) * MAX_PAYLOAD_SIZE
           last == min(i * MAX_PAYLOAD_SIZE, len)
           next == s.next_seqno
           buf == s.stream.buffer
           payload == SubSeq(buf, first + 1, last)
           ended == fin /\ last = len
           seqno == wrap(next + first, s.isn)
<1>1. /\ count \in Nat /\ first \in Nat /\ first <= len
      /\ first < len \/ (len = 0 /\ fin)
      /\ i * MAX_PAYLOAD_SIZE = first + MAX_PAYLOAD_SIZE
      /\ i < count => i * MAX_PAYLOAD_SIZE < len
      /\ i = count => i * MAX_PAYLOAD_SIZE >= len
  BY ChunkCuts, ZenonT(60)
<1>2. MAX_PAYLOAD_SIZE \in Nat \ {0}
  BY SenderConfigAssumption
<1> HIDE DEF first
<1>3. /\ last \in Nat /\ first <= last /\ last <= len
      /\ first < last \/ (len = 0 /\ fin /\ last = 0 /\ first = 0)
      /\ i < count => last = i * MAX_PAYLOAD_SIZE /\ last < len
      /\ i = count => last = len
  BY <1>1, <1>2 DEF min
<1> HIDE DEF last
<1>4. next \in Nat \ {0} /\ buf \in Seq(Byte) /\ Len(buf) \in Nat /\ s.isn \in WrappingInt32
      /\ \A j \in 1 .. Len(buf) : buf[j] = next + j - 2
  BY DEF NextBytes
<1> HIDE DEF next, buf
<1>5. len <= Len(buf)
  BY DEF buf
<1>6. /\ payload \in Seq(Byte) /\ Len(payload) = last - first
      /\ \A j \in 1 .. last - first : payload[j] = buf[first + j]
  <2>1. \A j \in first + 1 .. last : buf[j] \in Byte
    BY <1>1, <1>3, <1>4, <1>5
  <2>2. /\ payload \in Seq(Byte)
        /\ Len(payload) = IF first + 1 <= last THEN last - (first + 1) + 1 ELSE 0
        /\ \A j \in 1 .. last - (first + 1) + 1 : payload[j] = buf[first + 1 + j - 1]
    BY <1>1, <1>3, <2>1, SubSeqProperties
  <2>3. last - (first + 1) + 1 = last - first
        /\ \A j \in Int : first + 1 + j - 1 = first + j
    BY <1>1, <1>3
  <2> QED BY <1>1, <1>3, <2>2, <2>3
<1> HIDE DEF payload
<1>7. payload = Run((next + first) - 1, Len(payload))
  <2>1. \A j \in 1 .. last - first : payload[j] = (next + first) - 1 + j - 1
    BY <1>1, <1>3, <1>4, <1>5, <1>6, SMTT(30)
  <2>2. DOMAIN payload = 1 .. last - first /\ payload = [j \in 1 .. last - first |-> payload[j]]
    BY <1>6
  <2> QED BY <1>6, <2>1, <2>2 DEF Run
<1>8. seqno \in Nat
  <2>1. next + first \in Int
    BY <1>1, <1>4
  <2>2. seqno \in WrappingInt32
    BY <1>4, <2>1, WrapResidue
  <2> HIDE DEF seqno
  <2> QED BY <2>2, Widths DEF WrappingInt32
<1> HIDE DEF seqno
<1>9. /\ e.abs_seqno = next + first /\ e.zero = zero
      /\ e.seg = [EmptySegment EXCEPT !.seqno = seqno, !.payload = payload, !.fin = ended]
      /\ e = [abs_seqno |-> next + first, zero |-> zero, seg |-> e.seg]
  BY DEF ChunkOutstanding, Chunk, first, last, next, buf, payload, ended, seqno
<1>10. ended \in BOOLEAN
  OBVIOUS
<1> HIDE DEF ended
<1>11. /\ e.seg \in Segment /\ e.seg.seqno = seqno /\ e.seg.payload = payload
       /\ e.seg.fin = ended /\ e.seg.syn = FALSE
  <2>1. e.seg = [seqno |-> seqno, ackno |-> 0, syn |-> FALSE, ack |-> FALSE, rst |-> FALSE,
                 fin |-> ended, win |-> 0, payload |-> payload]
    BY <1>9 DEF EmptySegment
  <2> QED BY <1>6, <1>8, <1>10, <2>1 DEF Segment
<1>12. e \in Outstanding
  BY <1>1, <1>4, <1>9, <1>11 DEF Outstanding
<1>13. OutstandingEnd(e) = next + last + (IF ended THEN 1 ELSE 0)
  <2>1. length_in_sequence_space(e.seg) = last - first + (IF ended THEN 1 ELSE 0)
    <3>1. /\ (IF e.seg.syn THEN 1 ELSE 0) = 0
          /\ (IF e.seg.fin THEN 1 ELSE 0) = (IF ended THEN 1 ELSE 0)
          /\ Len(e.seg.payload) = last - first
      BY <1>6, <1>11
    <3>2. (last - first) + 0 = last - first
      BY <1>1, <1>3
    <3> QED BY <3>1, <3>2 DEF length_in_sequence_space
  <2> QED BY <1>1, <1>3, <1>4, <1>9, <2>1 DEF OutstandingEnd
<1>14. /\ i < count => OutstandingEnd(e) = next + i * MAX_PAYLOAD_SIZE /\ ~ended
       /\ i = count => OutstandingEnd(e) = After(next, len, fin) /\ ended = fin
  BY <1>1, <1>3, <1>4, <1>13 DEF After, ended
<1>15. i < count \/ i = count
  BY <1>1
<1>16. /\ e.abs_seqno < OutstandingEnd(e) /\ OutstandingEnd(e) <= After(next, len, fin)
       /\ e.abs_seqno # 0
       /\ i < count => OutstandingEnd(e) # After(next, len, fin)
  BY <1>1, <1>3, <1>4, <1>9, <1>13, <1>14, <1>15 DEF After
<1>17. Carries(e, s.isn, fin, After(next, len, fin))
  <2>1. e.seg.seqno = wrap(e.abs_seqno, s.isn)
    BY <1>9, <1>11 DEF seqno
  <2>2. e.seg.payload = Run(e.abs_seqno - 1, Len(e.seg.payload))
    <3>1. e.abs_seqno = next + first
      BY <1>9
    <3>2. e.seg.payload = payload
      BY <1>11
    <3>3. Run(e.abs_seqno - 1, Len(e.seg.payload)) = Run((next + first) - 1, Len(payload))
      BY <3>1, <3>2
    <3> QED BY <1>7, <3>2, <3>3
  <2>3. e.seg.fin <=> (fin /\ OutstandingEnd(e) = After(next, len, fin))
    BY <1>11, <1>14, <1>15, <1>16
  <2>4. e.seg.syn <=> e.abs_seqno = 0
    BY <1>11, <1>16
  <2>5. Len(e.seg.payload) <= MAX_PAYLOAD_SIZE
    <3>1. last - first <= MAX_PAYLOAD_SIZE
      BY <1>1, <1>2, <1>3, <1>15
    <3> QED BY <1>6, <1>11, <3>1
  <2> QED BY <1>16, <2>1, <2>2, <2>3, <2>4, <2>5 DEF Carries
<1> QED BY <1>9, <1>12, <1>14, <1>17 DEF next, first

\* The segments SendChunks adds are a queue of their own.
LEMMA ChunksQueue ==
    ASSUME NEW s, NextBytes(s),
           NEW len \in Nat, len <= Len(s.stream.buffer), NEW fin \in BOOLEAN,
           NEW zero \in BOOLEAN, NEW count, count = SegmentCount(len, fin),
           NEW new, new = [i \in 1 .. count |-> ChunkOutstanding(s, len, fin, zero, i)]
    PROVE  /\ Queue(new, s.isn, fin, After(s.next_seqno, len, fin))
           /\ Len(new) = count /\ count \in Nat
           /\ count > 0 => new[1].abs_seqno = s.next_seqno
           /\ count = 0 <=> len = 0 /\ ~fin
<1>1. count \in Nat /\ (count = 0 <=> len = 0 /\ ~fin)
      /\ \A i \in 1 .. count : (i - 1) * MAX_PAYLOAD_SIZE \in Nat
      /\ s.next_seqno \in Nat
  BY ChunkCuts DEF NextBytes
<1>2. ASSUME NEW i \in 1 .. count
      PROVE  /\ new[i] \in Outstanding
             /\ Carries(new[i], s.isn, fin, After(s.next_seqno, len, fin))
             /\ new[i].abs_seqno = s.next_seqno + (i - 1) * MAX_PAYLOAD_SIZE
             /\ i < count => OutstandingEnd(new[i]) = s.next_seqno + i * MAX_PAYLOAD_SIZE
             /\ i = count => OutstandingEnd(new[i]) = After(s.next_seqno, len, fin)
  <2>1. new[i] = ChunkOutstanding(s, len, fin, zero, i)
    OBVIOUS
  <2> QED BY <2>1, ChunkCarries
<1>3. new \in Seq(Outstanding) /\ Len(new) = count
  <2>1. new \in [1 .. count -> Outstanding]
    BY <1>2
  <2> QED BY <1>1, <2>1, SMTT(30)
<1>4. ASSUME NEW i \in 1 .. Len(new) - 1
      PROVE  OutstandingEnd(new[i]) = new[i + 1].abs_seqno
  <2>1. i \in 1 .. count /\ i + 1 \in 1 .. count /\ i < count /\ (i + 1) - 1 = i
    BY <1>1, <1>3
  <2> QED BY <1>2, <2>1
<1>5. Len(new) > 0 => OutstandingEnd(new[Len(new)]) = After(s.next_seqno, len, fin)
  BY <1>1, <1>2, <1>3
<1>6. count > 0 => new[1].abs_seqno = s.next_seqno
  <2>1. ASSUME count > 0 PROVE new[1].abs_seqno = s.next_seqno + (1 - 1) * MAX_PAYLOAD_SIZE
    BY <1>1, <1>2, <2>1
  <2>2. (1 - 1) * MAX_PAYLOAD_SIZE = 0
    BY SenderConfigAssumption
  <2> QED BY <1>1, <2>1, <2>2
<1> QED BY <1>1, <1>2, <1>3, <1>4, <1>5, <1>6 DEF Queue

-------------------------------------------------------------------------------
Members ==
    {"isn", "segments_out", "segments_outstanding", "initial_retransmission_timeout",
     "retransmission_timeout", "timer_enable", "consecutive_retransmissions", "stream",
     "next_seqno", "last_ackno", "window_size", "window_zero_valid", "fin_sent"}

Types(s) ==
    /\ DOMAIN s = Members
    /\ s.isn \in WrappingInt32
    /\ s.initial_retransmission_timeout \in Nat \ {0}
    /\ s.retransmission_timeout \in Nat
    /\ s.timer_enable \in BOOLEAN
    /\ s.stream \in ByteStreamState
    /\ s.next_seqno \in Nat /\ s.last_ackno \in Nat /\ s.window_size \in Nat
    /\ s.window_zero_valid \in BOOLEAN /\ s.fin_sent \in BOOLEAN

\* The stream that is still to be sent, and how much of it the sequence numbers
\* before next_seqno stand for.
StreamPart(s) ==
    /\ InOrder(s.stream) /\ Len(s.stream.buffer) <= s.stream.capacity
    /\ IF s.next_seqno = 0
       THEN s.stream.bytes_read = 0 /\ ~s.fin_sent /\ Len(s.segments_outstanding) = 0
       ELSE s.next_seqno = After(1, s.stream.bytes_read, s.fin_sent)
    /\ s.fin_sent => eof(s.stream)

\* The queue, the acknowledgments and the timer.
FlightPart(s) ==
    /\ Queue(s.segments_outstanding, s.isn, s.fin_sent, s.next_seqno)
    /\ s.last_ackno <= s.next_seqno
    /\ IF Len(s.segments_outstanding) = 0 THEN s.last_ackno = s.next_seqno
       ELSE s.segments_outstanding[1].abs_seqno <= s.last_ackno
    /\ s.timer_enable <=> Len(s.segments_outstanding) > 0
    /\ IF s.timer_enable
       THEN s.retransmission_timeout < s.initial_retransmission_timeout
       ELSE s.retransmission_timeout = 0

\* What every sender satisfies, also inside a call.
Kept(s) == Types(s) /\ StreamPart(s) /\ FlightPart(s)

\* Nothing that is acknowledged is still outstanding.
Trimmed(s) ==
    Len(s.segments_outstanding) > 0 => s.last_ackno < OutstandingEnd(s.segments_outstanding[1])

\* The window is used up as far as there is something to send.
Filled(s) ==
    (s.next_seqno > 0 /\ ~s.fin_sent /\ s.window_size > 0) =>
        \/ s.next_seqno >= s.last_ackno + s.window_size
        \/ Len(s.stream.buffer) = 0 /\ ~s.stream.end_input

\* What goes out is outstanding.
Echoes(out, outstanding) ==
    /\ out \in Seq(Segment)
    /\ \A i \in 1 .. Len(out) : \E j \in 1 .. Len(outstanding) : out[i] = outstanding[j].seg

Echoing(s) == Echoes(s.segments_out, s.segments_outstanding)

\* What the last call sent is outstanding, or it is one empty segment.
Announced(s) ==
    \/ Echoing(s)
    \/ s.segments_out = <<[EmptySegment EXCEPT !.seqno = wrap(s.next_seqno, s.isn)]>>

\* The inductive invariant: between two calls, acknowledged segments are gone,
\* the window is used up, and what went out is accounted for.
Good(s) == Kept(s) /\ Trimmed(s) /\ Filled(s)
IInv == Good(snd) /\ Announced(snd)

\* What goes out stays outstanding when more is sent and outstanding, as an
\* implication: without its hypotheses in sight the facts on \o are at hand.
LEMMA EchoesConcat ==
    ASSUME NEW out \in Seq(Segment), NEW o \in Seq(Outstanding),
           NEW segs \in Seq(Segment), NEW new \in Seq(Outstanding)
    PROVE  /\ Echoes(out, o)
           /\ Len(segs) = Len(new) /\ \A i \in 1 .. Len(new) : segs[i] = new[i].seg
           => Echoes(out \o segs, o \o new)
<1> DEFINE q == out \o segs
           p == o \o new
<1>1. /\ q \in Seq(Segment)
      /\ Len(q) = Len(out) + Len(segs)
      /\ \A i \in 1 .. Len(out) : q[i] = out[i]
      /\ \A i \in 1 .. Len(segs) : q[Len(out) + i] = segs[i]
  BY ConcatElements
<1>2. /\ p \in Seq(Outstanding)
      /\ Len(p) = Len(o) + Len(new)
      /\ \A i \in 1 .. Len(o) : p[i] = o[i]
      /\ \A i \in 1 .. Len(new) : p[Len(o) + i] = new[i]
  BY ConcatElements
<1> HIDE DEF q, p
<1>3. /\ Len(out) \in Nat /\ Len(segs) \in Nat
      /\ Len(o) \in Nat /\ Len(new) \in Nat
  BY LenProperties
<1> SUFFICES ASSUME Echoes(out, o), Len(segs) = Len(new),
                    \A i \in 1 .. Len(new) : segs[i] = new[i].seg
             PROVE  Echoes(out \o segs, o \o new)
  OBVIOUS
<1>4. ASSUME NEW i \in 1 .. Len(q)
      PROVE  \E j \in 1 .. Len(p) : q[i] = p[j].seg
  <2>1. CASE i <= Len(out)
    <3>1. i \in 1 .. Len(out) /\ q[i] = out[i]
      BY <1>1, <1>3, <2>1
    <3>2. PICK j \in 1 .. Len(o) : out[i] = o[j].seg
      BY <3>1 DEF Echoes
    <3>3. j \in 1 .. Len(p) /\ p[j] = o[j]
      BY <1>2, <1>3
    <3> QED BY <3>1, <3>2, <3>3
  <2>2. CASE i > Len(out)
    <3> DEFINE k == i - Len(out)
    <3>1. k \in 1 .. Len(new) /\ k \in 1 .. Len(segs) /\ i = Len(out) + k
      BY <1>1, <1>3, <2>2
    <3> HIDE DEF k
    <3>2. q[i] = new[k].seg
      BY <1>1, <3>1
    <3>3. Len(o) + k \in 1 .. Len(p) /\ p[Len(o) + k] = new[k]
      BY <1>2, <1>3, <3>1
    <3> QED BY <3>2, <3>3
  <2> QED BY <1>1, <1>3, <2>1, <2>2
<1> QED BY <1>1, <1>4 DEF Echoes, q, p

\* What fill_window sends goes to both queues, and what was in segments_out stays
\* outstanding.
LEMMA EchoesExtend ==
    ASSUME NEW out, NEW o \in Seq(Outstanding), Echoes(out, o),
           NEW segs \in Seq(Segment), NEW new \in Seq(Outstanding),
           Len(segs) = Len(new), \A i \in 1 .. Len(new) : segs[i] = new[i].seg
    PROVE  Echoes(out \o segs, o \o new)
<1>1. out \in Seq(Segment)
  BY DEF Echoes
<1> QED BY <1>1, EchoesConcat

\* What send_segment and the loop of fill_window assign.
Sending(s, stream, fin_sent, next_seqno, out, timer, outstanding) ==
    [s EXCEPT !.stream = stream, !.fin_sent = fin_sent, !.next_seqno = next_seqno,
              !.segments_out = out, !.timer_enable = timer,
              !.segments_outstanding = outstanding]

\* The members after that.
LEMMA SendingMembers ==
    ASSUME NEW s, DOMAIN s = Members, NEW stream, NEW fin_sent, NEW next_seqno, NEW out,
           NEW timer, NEW outstanding,
           NEW y, y = Sending(s, stream, fin_sent, next_seqno, out, timer, outstanding)
    PROVE  /\ DOMAIN y = Members
           /\ y.stream = stream /\ y.fin_sent = fin_sent /\ y.next_seqno = next_seqno
           /\ y.timer_enable = timer /\ y.segments_outstanding = outstanding
           /\ y.segments_out = out
           /\ y.isn = s.isn
           /\ y.initial_retransmission_timeout = s.initial_retransmission_timeout
           /\ y.retransmission_timeout = s.retransmission_timeout
           /\ y.last_ackno = s.last_ackno /\ y.window_size = s.window_size
           /\ y.window_zero_valid = s.window_zero_valid
  BY DEF Sending, Members

\* y is s after the segments of the queue new were sent.
Extends(s, y, new) ==
    /\ y.isn = s.isn /\ y.last_ackno = s.last_ackno
    /\ y.initial_retransmission_timeout = s.initial_retransmission_timeout
    /\ y.retransmission_timeout = s.retransmission_timeout
    /\ y.fin_sent \in BOOLEAN /\ y.next_seqno \in Nat
    /\ y.segments_outstanding = s.segments_outstanding \o new
    /\ Queue(new, s.isn, y.fin_sent, y.next_seqno)
    /\ Len(new) > 0 => new[1].abs_seqno = s.next_seqno
    /\ Len(new) = 0 => y.next_seqno = s.next_seqno /\ ~y.fin_sent
    /\ s.next_seqno <= y.next_seqno /\ (y.fin_sent => s.next_seqno < y.next_seqno)
    /\ y.timer_enable <=> s.timer_enable \/ Len(new) > 0

\* Sending new segments keeps the queue, the acknowledgments and the timer in
\* step with each other.
LEMMA FlightExtends ==
    ASSUME NEW s, Types(s), FlightPart(s), ~s.fin_sent, NEW y, NEW new, Extends(s, y, new)
    PROVE  FlightPart(y) /\ (Trimmed(s) => Trimmed(y))
<1> DEFINE o == s.segments_outstanding
           q == y.segments_outstanding
<1> USE DEF Extends
<1>1. /\ s.next_seqno \in Nat /\ s.last_ackno \in Nat /\ s.fin_sent = FALSE
      /\ s.initial_retransmission_timeout \in Nat \ {0} /\ s.retransmission_timeout \in Nat
  BY DEF Types
<1>2. /\ Queue(o, s.isn, FALSE, s.next_seqno) /\ s.last_ackno <= s.next_seqno
      /\ IF Len(o) = 0 THEN s.last_ackno = s.next_seqno
         ELSE o[1].abs_seqno <= s.last_ackno
      /\ s.timer_enable <=> Len(o) > 0
      /\ IF s.timer_enable
         THEN s.retransmission_timeout < s.initial_retransmission_timeout
         ELSE s.retransmission_timeout = 0
  BY <1>1 DEF FlightPart
<1>3. Queue(q, s.isn, y.fin_sent, y.next_seqno)
  <2>1. Queue(o \o new, s.isn, y.fin_sent, y.next_seqno)
    BY <1>1, <1>2, QueueExtends, ZenonT(60)
  <2> QED BY <2>1, Zenon
<1>4. /\ o \in Seq(Outstanding) /\ new \in Seq(Outstanding)
      /\ Len(o) \in Nat /\ Len(new) \in Nat
  BY <1>2 DEF Queue
<1>5. /\ Len(q) = Len(o) + Len(new)
      /\ \A i \in 1 .. Len(o) : q[i] = o[i]
      /\ \A i \in 1 .. Len(new) : q[Len(o) + i] = new[i]
  BY <1>4, ConcatElements
<1>6. ASSUME Len(o) = 0, Len(new) > 0
      PROVE  /\ q[1] = new[1] /\ new[1].abs_seqno = s.last_ackno
             /\ new[1].abs_seqno < OutstandingEnd(new[1])
  <2>1. q[1] = new[1]
    <3>1. 1 \in 1 .. Len(new) /\ Len(o) + 1 = 1
      BY <1>4, <1>6
    <3> QED BY <1>5, <3>1
  <2>2. Carries(new[1], s.isn, y.fin_sent, y.next_seqno)
    BY <1>4, <1>6 DEF Queue
  <2> QED BY <1>2, <1>6, <2>1, <2>2 DEF Carries
<1>7. ASSUME Len(o) > 0 PROVE q[1] = o[1]
  BY <1>4, <1>5, <1>7
<1>8. IF Len(q) = 0 THEN y.last_ackno = y.next_seqno ELSE q[1].abs_seqno <= y.last_ackno
  BY <1>1, <1>2, <1>4, <1>5, <1>6, <1>7
<1>9. y.timer_enable <=> Len(q) > 0
  BY <1>2, <1>4, <1>5
<1>10. IF y.timer_enable
       THEN y.retransmission_timeout < y.initial_retransmission_timeout
       ELSE y.retransmission_timeout = 0
  BY <1>1, <1>2, <1>9, <1>5, <1>4
<1>11. y.last_ackno <= y.next_seqno
  BY <1>1, <1>2
<1>12. FlightPart(y)
  BY <1>3, <1>8, <1>9, <1>10, <1>11 DEF FlightPart
<1>13. Trimmed(s) => Trimmed(y)
  BY <1>4, <1>5, <1>6, <1>7 DEF Trimmed
<1> QED BY <1>12, <1>13

\* SendFromStream may send the next len bytes, and the FIN after the last one.
Sendable(s, len, fin) ==
    /\ Kept(s) /\ ~s.fin_sent /\ s.next_seqno > 0
    /\ len \in Nat /\ len <= Len(s.stream.buffer) /\ fin \in BOOLEAN
    /\ fin => s.stream.end_input /\ len = Len(s.stream.buffer)

\* The sender y is s after it sent them.
Sent(s, y, len, fin) ==
    /\ Kept(y) /\ (Trimmed(s) => Trimmed(y)) /\ (Echoing(s) => Echoing(y))
    /\ y.next_seqno = After(s.next_seqno, len, fin) /\ y.fin_sent = fin
    /\ y.last_ackno = s.last_ackno /\ y.window_size = s.window_size
    /\ Len(y.stream.buffer) = Len(s.stream.buffer) - len
    /\ y.stream.end_input = s.stream.end_input

\* The segments the loop of fill_window makes of them keep the invariant.
LEMMA SendChunksKept ==
    ASSUME NEW s, NEW len, NEW fin, Sendable(s, len, fin), NEW zero \in BOOLEAN,
           NEW y, y = SendChunks(s, len, fin, SegmentCount(len, fin), zero)
    PROVE  Sent(s, y, len, fin)
<1> DEFINE count == SegmentCount(len, fin)
           segs == [i \in 1 .. count |-> Chunk(s, len, fin, i)]
           new == [i \in 1 .. count |-> ChunkOutstanding(s, len, fin, zero, i)]
           stream == pop_output(s.stream, len)
           next == After(s.next_seqno, len, fin)
           timer == s.timer_enable \/ count > 0
           out == s.segments_out \o segs
           outstanding == s.segments_outstanding \o new
<1>0. /\ Kept(s) /\ ~s.fin_sent /\ s.next_seqno > 0
      /\ len \in Nat /\ len <= Len(s.stream.buffer) /\ fin \in BOOLEAN
      /\ fin => s.stream.end_input /\ len = Len(s.stream.buffer)
  BY DEF Sendable
<1>1. y = Sending(s, stream, fin, next, out, timer, outstanding)
  <2>1. new = [i \in 1 .. count |->
                 [abs_seqno |-> s.next_seqno + (i - 1) * MAX_PAYLOAD_SIZE,
                  zero |-> zero, seg |-> segs[i]]]
    BY DEF ChunkOutstanding
  <2> HIDE DEF new
  <2> QED BY <2>1, Zenon DEF SendChunks, Sending, After
<1>2. Types(s) /\ StreamPart(s) /\ FlightPart(s) /\ DOMAIN s = Members
  BY <1>0 DEF Kept, Types
<1>3. /\ DOMAIN y = Members
      /\ y.stream = stream /\ y.fin_sent = fin /\ y.next_seqno = next
      /\ y.timer_enable = timer /\ y.segments_outstanding = outstanding
      /\ y.segments_out = out
      /\ y.isn = s.isn
      /\ y.initial_retransmission_timeout = s.initial_retransmission_timeout
      /\ y.retransmission_timeout = s.retransmission_timeout
      /\ y.last_ackno = s.last_ackno /\ y.window_size = s.window_size
      /\ y.window_zero_valid = s.window_zero_valid
  <2> HIDE DEF stream, next, timer, out, outstanding
  <2> QED BY <1>1, <1>2, SendingMembers
<1>4. /\ s.stream \in ByteStreamState /\ InOrder(s.stream) /\ s.next_seqno \in Nat
      /\ Len(s.stream.buffer) <= s.stream.capacity /\ s.isn \in WrappingInt32
      /\ s.next_seqno = 1 + s.stream.bytes_read
  <2>1. /\ s.stream \in ByteStreamState /\ InOrder(s.stream) /\ s.next_seqno \in Nat
        /\ Len(s.stream.buffer) <= s.stream.capacity /\ s.isn \in WrappingInt32
    BY <1>0, <1>2 DEF Types, StreamPart
  <2>2. s.next_seqno = After(1, s.stream.bytes_read, s.fin_sent) /\ s.stream.bytes_read \in Nat
    BY <1>0, <1>2, <2>1 DEF StreamPart, ByteStreamState
  <2> QED BY <1>0, <2>1, <2>2 DEF After
<1>5. /\ s.stream.buffer \in Seq(Byte) /\ Len(s.stream.buffer) \in Nat
      /\ s.stream.bytes_read \in Nat /\ s.stream.capacity \in Nat
      /\ s.stream.bytes_written = s.stream.bytes_read + Len(s.stream.buffer)
      /\ \A j \in 1 .. Len(s.stream.buffer) : s.stream.buffer[j] = s.stream.bytes_read + j - 1
  BY <1>4 DEF ByteStreamState, InOrder
<1>6. NextBytes(s)
  <2>1. ASSUME NEW j \in 1 .. Len(s.stream.buffer)
        PROVE  s.stream.buffer[j] = s.next_seqno + j - 2
    <3>1. s.stream.buffer[j] = s.stream.bytes_read + j - 1
      BY <1>5
    <3>2. j \in Int /\ s.stream.bytes_read \in Int /\ s.next_seqno = 1 + s.stream.bytes_read
      BY <1>4, <1>5
    <3>3. s.stream.bytes_read + j - 1 = s.next_seqno + j - 2
      BY <3>2
    <3> QED BY <3>1, <3>3, Zenon
  <2> QED BY <1>0, <1>4, <1>5, <2>1 DEF NextBytes
<1>7. /\ stream \in ByteStreamState /\ InOrder(stream)
      /\ stream.capacity = s.stream.capacity /\ stream.end_input = s.stream.end_input
      /\ stream.bytes_written = s.stream.bytes_written
      /\ Len(stream.buffer) = Len(s.stream.buffer) - len
  BY <1>0, <1>4, PopInOrder
<1>8. /\ Queue(new, s.isn, fin, next)
      /\ Len(new) = count /\ count \in Nat
      /\ count > 0 => new[1].abs_seqno = s.next_seqno
      /\ count = 0 <=> len = 0 /\ ~fin
  BY <1>0, <1>6, ChunksQueue
<1> HIDE DEF stream, count, segs, new, out, outstanding
<1>9. next \in Nat /\ s.next_seqno <= next /\ (fin => s.next_seqno < next)
      /\ (len = 0 /\ ~fin => next = s.next_seqno)
  BY <1>0, <1>4 DEF After
<1> HIDE DEF next
<1>10. FlightPart(y) /\ (Trimmed(s) => Trimmed(y))
  <2>1. y.segments_outstanding = s.segments_outstanding \o new
    BY <1>3 DEF outstanding
  <2>2. y.timer_enable <=> s.timer_enable \/ Len(new) > 0
    BY <1>3, <1>8
  <2>3. Len(new) = 0 => y.next_seqno = s.next_seqno /\ ~y.fin_sent
    BY <1>3, <1>8, <1>9
  <2>4. Len(new) > 0 => new[1].abs_seqno = s.next_seqno
    BY <1>8
  <2>5. Queue(new, s.isn, y.fin_sent, y.next_seqno)
    BY <1>3, <1>8
  <2>6. /\ y.fin_sent \in BOOLEAN /\ y.next_seqno \in Nat
        /\ s.next_seqno <= y.next_seqno /\ (y.fin_sent => s.next_seqno < y.next_seqno)
    BY <1>0, <1>3, <1>9
  <2> HIDE DEF timer
  <2>7. Extends(s, y, new)
    BY <1>3, <2>1, <2>2, <2>3, <2>4, <2>5, <2>6, Zenon DEF Extends
  <2> QED BY <1>0, <1>2, <2>7, FlightExtends, Zenon
<1>11. StreamPart(y)
  <2>1. stream.bytes_read = s.stream.bytes_read + len /\ stream.bytes_read \in Nat
    <3>1. stream.bytes_written = stream.bytes_read + Len(stream.buffer)
          /\ stream.bytes_read \in Nat
      BY <1>7 DEF InOrder, ByteStreamState
    <3>2. stream.bytes_read + (Len(s.stream.buffer) - len)
            = s.stream.bytes_read + Len(s.stream.buffer)
      BY <1>0, <1>5, <1>7, <3>1, Zenon
    <3> DEFINE a == stream.bytes_read
               b == s.stream.bytes_read
               l == Len(s.stream.buffer)
    <3>3. a \in Nat /\ b \in Nat /\ l \in Nat /\ a + (l - len) = b + l
      BY <1>0, <1>5, <3>1, <3>2
    <3>4. a = b + len
      <4> HIDE DEF a, b, l
      <4> QED BY <1>0, <3>3
    <3> QED BY <1>0, <3>1, <3>4
  <2>2. y.next_seqno # 0 /\ y.next_seqno = After(1, y.stream.bytes_read, y.fin_sent)
    BY <1>0, <1>3, <1>4, <1>5, <2>1 DEF After, next
  <2>3. fin => eof(stream)
    <3>1. stream.buffer \in Seq(Byte)
      BY <1>7 DEF ByteStreamState
    <3>2. fin => Len(stream.buffer) = 0 /\ stream.end_input
      BY <1>0, <1>5, <1>7
    <3> QED BY <1>0, <3>1, <3>2 DEF eof
  <2>4. Len(stream.buffer) <= stream.capacity
    BY <1>0, <1>4, <1>5, <1>7
  <2> QED BY <1>3, <1>7, <2>2, <2>3, <2>4 DEF StreamPart
<1>12. Types(y)
  <2>1. timer \in BOOLEAN
    OBVIOUS
  <2> HIDE DEF timer
  <2> QED BY <1>0, <1>2, <1>3, <1>7, <1>9, <2>1 DEF Types
<1>13. Echoing(s) => Echoing(y)
  <2>1. new \in Seq(Outstanding) /\ s.segments_outstanding \in Seq(Outstanding)
    BY <1>2, <1>8 DEF FlightPart, Queue
  <2>2. segs = [i \in 1 .. count |-> new[i].seg]
    BY DEF segs, new, ChunkOutstanding
  <2>3. \A i \in 1 .. count : new[i].seg \in Segment
    BY <1>8, <2>1, EndType
  <2>4. segs \in Seq(Segment) /\ Len(segs) = count /\ \A i \in 1 .. count : segs[i] = new[i].seg
    BY <1>8, <2>2, <2>3
  <2> QED BY <1>3, <1>8, <2>1, <2>4, EchoesExtend DEF Echoing, out, outstanding
<1> QED BY <1>3, <1>7, <1>10, <1>11, <1>12, <1>13 DEF Kept, Sent, next

\* A segment with these members.
SegmentOf(seqno, ackno, syn, ack, rst, fin, win, payload) ==
    [seqno |-> seqno, ackno |-> ackno, syn |-> syn, ack |-> ack, rst |-> rst,
     fin |-> fin, win |-> win, payload |-> payload]

\* The segment with which fill_window opens the connection.
SynSegment(seqno) == SegmentOf(seqno, 0, TRUE, FALSE, FALSE, FALSE, 0, <<>>)

\* The SYN as an outstanding segment.
SynOutstanding(seqno, zero) ==
    [abs_seqno |-> 0, zero |-> zero, seg |-> SynSegment(seqno)]

\* The SYN has sequence number zero, and it is a queue of its own.
LEMMA SynQueue ==
    ASSUME NEW isn \in WrappingInt32, NEW no, no = FALSE, NEW one, one = 1,
           NEW zero \in BOOLEAN, NEW e, e = SynOutstanding(wrap(0, isn), zero)
    PROVE  Queue(<<e>>, isn, no, one) /\ e.abs_seqno = 0 /\ e \in Outstanding
<1> DEFINE seqno == wrap(0, isn)
           seg == SynSegment(seqno)
<1>1. seqno \in Nat
  <2>1. 0 \in Int
    OBVIOUS
  <2>2. seqno \in WrappingInt32
    BY <2>1, WrapResidue
  <2> QED BY <2>2, Widths DEF WrappingInt32
<1>2. e.seg = seg /\ e.abs_seqno = 0 /\ e.zero = zero
  BY DEF SynOutstanding
<1> HIDE DEF seqno
<1>3. <<>> \in Seq(Byte) /\ Len(<<>>) = 0
  OBVIOUS
<1>4. /\ seg \in Segment /\ seg.seqno = seqno /\ seg.syn = TRUE /\ seg.fin = FALSE
      /\ seg.payload = <<>>
  BY <1>1, <1>3 DEF SynSegment, SegmentOf, Segment
<1>5. e \in Outstanding
  BY <1>4 DEF SynOutstanding, Outstanding, seqno
<1> HIDE DEF seg
<1>6. OutstandingEnd(e) = 1
  <2>1. /\ (IF e.seg.syn THEN 1 ELSE 0) = 1
        /\ (IF e.seg.fin THEN 1 ELSE 0) = 0
        /\ Len(e.seg.payload) = 0
    BY <1>2, <1>3, <1>4
  <2>2. length_in_sequence_space(e.seg) = 0 + 1 + 0
    BY <2>1, Zenon DEF length_in_sequence_space
  <2>3. OutstandingEnd(e) = 0 + (0 + 1 + 0)
    BY <1>2, <2>2, Zenon DEF OutstandingEnd
  <2> QED BY <2>3
<1>7. seg.payload = Run(e.abs_seqno - 1, Len(seg.payload))
  <2>1. Run(e.abs_seqno - 1, 0) = <<>>
    BY DEF Run
  <2> QED BY <1>3, <1>4, <2>1
<1>8. Carries(e, isn, no, one)
  <2>1. e.abs_seqno < OutstandingEnd(e) /\ OutstandingEnd(e) <= one
    BY <1>2, <1>6
  <2>2. e.seg.seqno = wrap(e.abs_seqno, isn) /\ (e.seg.syn <=> e.abs_seqno = 0)
        /\ ~e.seg.fin
    BY <1>2, <1>4 DEF seqno
  <2>3. Len(e.seg.payload) <= MAX_PAYLOAD_SIZE
    BY <1>2, <1>3, <1>4, SenderConfigAssumption
  <2> QED BY <1>2, <1>7, <2>1, <2>2, <2>3 DEF Carries
<1>9. Queue(<<e>>, isn, no, one)
  <2>1. <<e>> \in Seq(Outstanding) /\ Len(<<e>>) = 1 /\ <<e>>[1] = e
    BY <1>5
  <2> QED BY <1>6, <1>8, <2>1 DEF Queue
<1> QED BY <1>2, <1>5, <1>9

\* What send_segment assigns when it sends the SYN.
Opening(s, next_seqno, out, timer, outstanding) ==
    [s EXCEPT !.next_seqno = next_seqno, !.segments_out = out,
              !.timer_enable = timer, !.segments_outstanding = outstanding]

\* The members after that.
LEMMA OpeningMembers ==
    ASSUME NEW s, DOMAIN s = Members, NEW next_seqno, NEW out, NEW timer, NEW outstanding,
           NEW y, y = Opening(s, next_seqno, out, timer, outstanding)
    PROVE  /\ DOMAIN y = Members
           /\ y.stream = s.stream /\ y.fin_sent = s.fin_sent /\ y.next_seqno = next_seqno
           /\ y.timer_enable = timer /\ y.segments_outstanding = outstanding
           /\ y.segments_out = out
           /\ y.isn = s.isn
           /\ y.initial_retransmission_timeout = s.initial_retransmission_timeout
           /\ y.retransmission_timeout = s.retransmission_timeout
           /\ y.last_ackno = s.last_ackno /\ y.window_size = s.window_size
           /\ y.window_zero_valid = s.window_zero_valid
  BY DEF Members, Opening

\* A segment with one of its members replaced.
WithSyn(seg, syn) == [seg EXCEPT !.syn = syn]
WithSeqno(seg, seqno) == [seg EXCEPT !.seqno = seqno]

\* The members of a segment, and of one of which a member is replaced.
LEMMA SegmentMembers ==
    ASSUME NEW seqno, NEW ackno, NEW syn, NEW ack, NEW rst, NEW fin, NEW win, NEW payload,
           NEW new
    PROVE  /\ WithSyn(SegmentOf(seqno, ackno, syn, ack, rst, fin, win, payload), new)
                = SegmentOf(seqno, ackno, new, ack, rst, fin, win, payload)
           /\ WithSeqno(SegmentOf(seqno, ackno, syn, ack, rst, fin, win, payload), new)
                = SegmentOf(new, ackno, syn, ack, rst, fin, win, payload)
           /\ SegmentOf(seqno, ackno, syn, ack, rst, fin, win, payload).syn = syn
           /\ SegmentOf(seqno, ackno, syn, ack, rst, fin, win, payload).fin = fin
           /\ SegmentOf(seqno, ackno, syn, ack, rst, fin, win, payload).payload = payload
  BY DEF SegmentOf, WithSyn, WithSeqno

\* The segment that fill_window passes to send_segment.
Syn == [EmptySegment EXCEPT !.syn = TRUE]

\* It takes one sequence number.
LEMMA SynIs ==
    /\ length_in_sequence_space(Syn) = 1
    /\ \A seqno : WithSeqno(Syn, seqno) = SynSegment(seqno)
<1> DEFINE z == 0
           yes == TRUE
           no == FALSE
           nil == <<>>
<1>1. EmptySegment = SegmentOf(z, z, no, no, no, no, z, nil)
  BY Zenon DEF EmptySegment, SegmentOf
<1>2. Syn = WithSyn(EmptySegment, yes)
  BY Zenon DEF Syn, WithSyn
<1>3. \A seqno : SynSegment(seqno) = SegmentOf(seqno, z, yes, no, no, no, z, nil)
  BY Zenon DEF SynSegment
<1>4. Len(nil) = 0 /\ (IF yes THEN 1 ELSE 0) = 1 /\ (IF no THEN 1 ELSE 0) = 0
  OBVIOUS
<1> HIDE DEF z, yes, no, nil
<1>5. Syn = SegmentOf(z, z, yes, no, no, no, z, nil)
  BY <1>1, <1>2, SegmentMembers
<1>6. Syn.syn = yes /\ Syn.fin = no /\ Syn.payload = nil
  BY <1>5, SegmentMembers
<1>7. length_in_sequence_space(Syn) = 1
  <2>1. length_in_sequence_space(Syn) = 0 + 1 + 0
    BY <1>4, <1>6, Zenon DEF length_in_sequence_space
  <2> QED BY <2>1
<1>8. ASSUME NEW seqno PROVE WithSeqno(Syn, seqno) = SynSegment(seqno)
  BY <1>3, <1>5, SegmentMembers
<1> QED BY <1>7, <1>8

\* The sender y is s after it sent its SYN.
SentSyn(s, y) ==
    /\ DOMAIN y = Members
    /\ y.stream = s.stream /\ y.fin_sent = s.fin_sent /\ y.next_seqno = 1
    /\ y.timer_enable \in BOOLEAN /\ y.timer_enable
    /\ \E zero \in BOOLEAN :
          y.segments_outstanding
            = Append(s.segments_outstanding, SynOutstanding(wrap(0, s.isn), zero))
    /\ y.segments_out = Append(s.segments_out, SynSegment(wrap(0, s.isn)))
    /\ y.isn = s.isn
    /\ y.initial_retransmission_timeout = s.initial_retransmission_timeout
    /\ y.retransmission_timeout = s.retransmission_timeout
    /\ y.last_ackno = s.last_ackno /\ y.window_size = s.window_size
    /\ y.window_zero_valid = s.window_zero_valid

\* The call of send_segment in fill_window makes those assignments.
LEMMA SendsSyn ==
    ASSUME NEW s, DOMAIN s = Members, s.next_seqno \in Nat, ~(s.next_seqno > 0),
           NEW zero \in BOOLEAN, NEW y, y = send_segment(s, Syn, zero)
    PROVE  SentSyn(s, y)
<1> DEFINE seqno == wrap(0, s.isn)
           next == 1
           out == Append(s.segments_out, SynSegment(seqno))
           timer == TRUE
           q == Append(s.segments_outstanding, SynOutstanding(seqno, zero))
<1>1. s.next_seqno = 0
  OBVIOUS
<1>2. s.next_seqno + length_in_sequence_space(Syn) = next
  <2>1. 0 + 1 = next
    OBVIOUS
  <2> QED BY <1>1, <2>1, SynIs, Zenon
<1>3. y = Opening(s, next, out, timer, q)
  <2>1. WithSeqno(Syn, wrap(s.next_seqno, s.isn)) = SynSegment(seqno)
    BY <1>1, SynIs, Zenon
  <2> HIDE DEF next
  <2>2. out = Append(s.segments_out, WithSeqno(Syn, wrap(s.next_seqno, s.isn)))
        /\ q = Append(s.segments_outstanding,
                      [abs_seqno |-> s.next_seqno, zero |-> zero,
                       seg |-> WithSeqno(Syn, wrap(s.next_seqno, s.isn))])
    BY <1>1, <2>1, Zenon DEF SynOutstanding
  <2> HIDE DEF out, q
  <2> QED BY <1>2, <2>2, Zenon DEF send_segment, WithSeqno, Opening
<1>4. timer \in BOOLEAN /\ timer
  OBVIOUS
<1> HIDE DEF out, timer, q, next
<1>5. /\ DOMAIN y = Members
      /\ y.stream = s.stream /\ y.fin_sent = s.fin_sent /\ y.next_seqno = next
      /\ y.timer_enable = timer /\ y.segments_outstanding = q /\ y.segments_out = out
      /\ y.isn = s.isn
      /\ y.initial_retransmission_timeout = s.initial_retransmission_timeout
      /\ y.retransmission_timeout = s.retransmission_timeout
      /\ y.last_ackno = s.last_ackno /\ y.window_size = s.window_size
      /\ y.window_zero_valid = s.window_zero_valid
  BY <1>3, OpeningMembers
<1> QED BY <1>4, <1>5, Zenon DEF SentSyn, q, out, next

\* A connection that was opened: the SYN is outstanding, nothing else was sent.
LEMMA OpenedKept ==
    ASSUME NEW s, Kept(s), ~(s.next_seqno > 0), NEW y, SentSyn(s, y)
    PROVE  /\ Kept(y) /\ Trimmed(y) /\ y.next_seqno > 0 /\ ~y.fin_sent
           /\ y.last_ackno = s.last_ackno /\ y.window_size = s.window_size
           /\ Echoing(s) => Echoing(y)
<1>z. PICK zero \in BOOLEAN :
          y.segments_outstanding
            = Append(s.segments_outstanding, SynOutstanding(wrap(0, s.isn), zero))
  BY Zenon DEF SentSyn
<1> DEFINE o == s.segments_outstanding
           e == SynOutstanding(wrap(0, s.isn), zero)
           new == <<e>>
<1>1. /\ Types(s) /\ StreamPart(s) /\ FlightPart(s) /\ DOMAIN s = Members
      /\ s.isn \in WrappingInt32 /\ s.stream \in ByteStreamState
      /\ s.fin_sent = FALSE /\ Len(o) = 0 /\ s.stream.bytes_read = 0 /\ s.next_seqno = 0
      /\ o \in Seq(Outstanding)
  BY DEF Kept, Types, StreamPart, FlightPart, Queue
<1>2. /\ Queue(new, s.isn, y.fin_sent, y.next_seqno)
      /\ e.abs_seqno = 0 /\ e \in Outstanding
  <2>1. y.fin_sent = FALSE /\ y.next_seqno = 1
    BY <1>1, Zenon DEF SentSyn
  <2> HIDE DEF e
  <2> QED BY <1>1, <2>1, SynQueue, Zenon DEF e
<1> HIDE DEF e
<1>3. Len(new) = 1 /\ new[1] = e
  OBVIOUS
<1>4. y.segments_outstanding = o \o new
  <2>1. Append(o, e) = o \o <<e>>
    BY <1>1, <1>2, AppendIsConcat
  <2> QED BY <1>z, <2>1, Zenon DEF e
<1> HIDE DEF new
<1>5. Extends(s, y, new)
  <2>1. /\ Len(new) > 0 => new[1].abs_seqno = s.next_seqno
        /\ Len(new) > 0 /\ Len(new) # 0
    BY <1>1, <1>2, <1>3
  <2>2. s.next_seqno <= y.next_seqno /\ ~y.fin_sent
    <3>1. 0 <= 1 /\ 1 \in Nat
      OBVIOUS
    <3> QED BY <1>1, <3>1, Zenon DEF SentSyn
  <2>3. y.timer_enable <=> s.timer_enable \/ Len(new) > 0
    BY <2>1, Zenon DEF SentSyn
  <2>4. y.fin_sent \in BOOLEAN /\ y.next_seqno \in Nat
    <3>1. 1 \in Nat
      OBVIOUS
    <3> QED BY <1>1, <3>1, Zenon DEF SentSyn, Types
  <2> QED BY <1>2, <1>4, <2>1, <2>2, <2>3, <2>4, Zenon DEF Extends, SentSyn
<1>6. FlightPart(y) /\ (Trimmed(s) => Trimmed(y))
  BY <1>1, <1>5, FlightExtends, Zenon
<1>7. Trimmed(s)
  BY <1>1 DEF Trimmed
<1>8. StreamPart(y)
  <2>1. y.next_seqno = 1 /\ y.stream.bytes_read = 0 /\ y.fin_sent = FALSE
    BY <1>1 DEF SentSyn
  <2>2. y.next_seqno # 0 /\ y.next_seqno = After(1, y.stream.bytes_read, y.fin_sent)
    BY <2>1 DEF After
  <2> QED BY <1>1, <2>1, <2>2 DEF StreamPart, SentSyn
<1>9. Types(y)
  BY <1>1 DEF Types, SentSyn
<1>10. ASSUME Echoing(s) PROVE Echoing(y)
  <2> DEFINE seg == SynSegment(wrap(0, s.isn))
  <2>1. e.seg = seg /\ seg \in Segment
    BY <1>2, EndType DEF e, SynOutstanding
  <2> HIDE DEF seg
  <2>2. y.segments_out = s.segments_out \o <<seg>>
    <3>1. s.segments_out \in Seq(Segment)
      BY <1>10 DEF Echoing, Echoes
    <3>2. Append(s.segments_out, seg) = s.segments_out \o <<seg>>
      BY <2>1, <3>1, AppendIsConcat
    <3> QED BY <3>2, Zenon DEF SentSyn, seg
  <2>3. /\ <<seg>> \in Seq(Segment) /\ Len(<<seg>>) = Len(new)
        /\ \A i \in 1 .. Len(new) : <<seg>>[i] = new[i].seg
    BY <1>3, <2>1
  <2>4. new \in Seq(Outstanding)
    BY <1>2 DEF new
  <2> QED BY <1>1, <1>4, <1>10, <2>2, <2>3, <2>4, EchoesExtend DEF Echoing
<1> QED BY <1>1, <1>6, <1>7, <1>8, <1>9, <1>10 DEF Kept, SentSyn

\* The loop of fill_window uses all the sequence numbers it may, or it empties
\* the stream.
LEMMA SendFromStreamKept ==
    ASSUME NEW s, Kept(s), ~s.fin_sent, s.next_seqno > 0, NEW num \in Nat,
           NEW zero \in BOOLEAN, NEW y, y = SendFromStream(s, num, zero)
    PROVE  /\ Kept(y) /\ (Trimmed(s) => Trimmed(y)) /\ (Echoing(s) => Echoing(y))
           /\ y.last_ackno = s.last_ackno /\ y.window_size = s.window_size
           /\ y.next_seqno <= s.next_seqno + num
           /\ ~y.fin_sent => \/ y.next_seqno = s.next_seqno + num
                             \/ Len(y.stream.buffer) = 0 /\ ~y.stream.end_input
<1> DEFINE buffered == Len(s.stream.buffer)
           len == min(num, buffered)
           fin == s.stream.end_input /\ len = buffered /\ num > len
<1>1. y = SendChunks(s, len, fin, SegmentCount(len, fin), zero)
  BY DEF SendFromStream
<1>2. s.stream \in ByteStreamState /\ s.next_seqno \in Nat
  BY DEF Kept, Types
<1>3. buffered \in Nat
  BY <1>2 DEF ByteStreamState
<1> HIDE DEF buffered
<1>4. /\ len \in Nat /\ len <= buffered /\ len <= num
      /\ len = num \/ len = buffered
  BY <1>3 DEF min
<1>5. fin \in BOOLEAN
  OBVIOUS
<1>6. /\ fin => s.stream.end_input /\ len = buffered /\ num > len
      /\ ~fin => len = num \/ (len = buffered /\ ~s.stream.end_input)
  BY <1>3, <1>4
<1> HIDE DEF len, fin
<1>7. /\ Kept(y) /\ (Trimmed(s) => Trimmed(y)) /\ (Echoing(s) => Echoing(y))
      /\ y.next_seqno = After(s.next_seqno, len, fin) /\ y.fin_sent = fin
      /\ y.last_ackno = s.last_ackno /\ y.window_size = s.window_size
      /\ Len(y.stream.buffer) = buffered - len
      /\ y.stream.end_input = s.stream.end_input
  <2>1. len <= Len(s.stream.buffer)
        /\ (fin => s.stream.end_input /\ len = Len(s.stream.buffer))
    BY <1>4, <1>6 DEF buffered
  <2>2. Sendable(s, len, fin)
    BY <1>4, <1>5, <2>1 DEF Sendable
  <2>3. Sent(s, y, len, fin)
    BY <1>1, <2>2, SendChunksKept
  <2> QED BY <2>3 DEF Sent, buffered
<1>8. y.next_seqno <= s.next_seqno + num
  BY <1>2, <1>4, <1>5, <1>6, <1>7 DEF After
<1>9. ASSUME ~y.fin_sent
      PROVE  \/ y.next_seqno = s.next_seqno + num
             \/ Len(y.stream.buffer) = 0 /\ ~y.stream.end_input
  <2>1. ~fin
    BY <1>7, <1>9
  <2>2. CASE len = num
    BY <1>2, <1>7, <2>1, <2>2 DEF After
  <2>3. CASE len = buffered /\ ~s.stream.end_input
    BY <1>3, <1>7, <2>3
  <2> QED BY <1>6, <2>1, <2>2, <2>3
<1> QED BY <1>7, <1>8, <1>9

\* The flag that fill_window clears when it sends a probe.
Probing(s, valid) == [s EXCEPT !.window_zero_valid = valid]

\* It is no part of the invariant but for its type.
LEMMA ProbingKept ==
    ASSUME NEW s, Kept(s), NEW valid \in BOOLEAN, NEW y, y = Probing(s, valid)
    PROVE  /\ Kept(y) /\ (Trimmed(s) => Trimmed(y)) /\ (Echoing(s) => Echoing(y))
           /\ y.next_seqno = s.next_seqno /\ y.last_ackno = s.last_ackno
           /\ y.window_size = s.window_size /\ y.fin_sent = s.fin_sent
<1>1. DOMAIN s = Members
  BY DEF Kept, Types
<1>2. /\ DOMAIN y = Members
      /\ y.stream = s.stream /\ y.fin_sent = s.fin_sent /\ y.next_seqno = s.next_seqno
      /\ y.timer_enable = s.timer_enable /\ y.segments_outstanding = s.segments_outstanding
      /\ y.isn = s.isn
      /\ y.initial_retransmission_timeout = s.initial_retransmission_timeout
      /\ y.retransmission_timeout = s.retransmission_timeout
      /\ y.last_ackno = s.last_ackno /\ y.window_size = s.window_size
      /\ y.window_zero_valid = valid /\ y.segments_out = s.segments_out
  BY <1>1 DEF Probing, Members
<1>3. Types(y)
  BY <1>2 DEF Kept, Types
<1>4. StreamPart(y) /\ FlightPart(y) /\ (Trimmed(s) => Trimmed(y)) /\ (Echoing(s) => Echoing(y))
  BY <1>2, Zenon DEF Kept, StreamPart, FlightPart, Trimmed, Echoing
<1> QED BY <1>2, <1>3, <1>4 DEF Kept

\* What fill_window does: it keeps the invariant, it fills the window, and it
\* sends beyond it only the SYN and one number against a closed window.
LEMMA FillKept ==
    ASSUME NEW s, Kept(s), Trimmed(s), NEW y, y = fill_window(s)
    PROVE  /\ Kept(y) /\ Trimmed(y) /\ Filled(y) /\ (Echoing(s) => Echoing(y))
           /\ s.next_seqno > 0 /\ y.next_seqno > s.next_seqno =>
                \/ y.next_seqno <= y.last_ackno + y.window_size
                \/ y.window_size = 0 /\ y.next_seqno = s.next_seqno + 1
<1> DEFINE opened == IF s.next_seqno = 0 THEN send_segment(s, Syn, FALSE) ELSE s
           flag == opened.window_size = 0 /\ opened.window_zero_valid
           num == WindowRoom(opened) + (IF flag THEN 1 ELSE 0)
           probing == Probing(opened, opened.window_zero_valid /\ ~flag)
<1>1. DOMAIN s = Members /\ s.next_seqno \in Nat
  BY DEF Kept, Types
<1>2. CASE s.fin_sent
  <2>1. y = s
    BY <1>2 DEF fill_window
  <2> QED BY <1>1, <1>2, <2>1 DEF Filled
<1>3. CASE ~s.fin_sent
  <2>1. y = SendFromStream(probing, num, flag)
    BY <1>3, Zenon DEF fill_window, Probing, Syn
  <2>2. /\ Kept(opened) /\ Trimmed(opened) /\ opened.next_seqno > 0 /\ ~opened.fin_sent
        /\ s.next_seqno > 0 => opened = s
        /\ Echoing(s) => Echoing(opened)
    <3>1. CASE s.next_seqno > 0
      <4>1. opened = s
        <5>1. s.next_seqno # 0
          BY <1>1, <3>1
        <5> QED BY <5>1, Zenon
      <4> HIDE DEF opened
      <4> QED BY <1>3, <3>1, <4>1
    <3>2. CASE ~(s.next_seqno > 0)
      <4> DEFINE no == FALSE
      <4>1. no \in BOOLEAN
        OBVIOUS
      <4>2. opened = send_segment(s, Syn, no)
        <5>1. s.next_seqno = 0
          BY <1>1, <3>2
        <5> QED BY <5>1, Zenon
      <4> HIDE DEF no, opened
      <4>3. SentSyn(s, opened)
        BY <1>1, <3>2, <4>1, <4>2, SendsSyn
      <4> QED BY <3>2, <4>3, OpenedKept
    <3> QED BY <3>1, <3>2
  <2> HIDE DEF opened
  <2>3. /\ opened.window_size \in Nat /\ opened.last_ackno \in Nat
        /\ opened.next_seqno \in Nat /\ opened.window_zero_valid \in BOOLEAN
        /\ opened.last_ackno <= opened.next_seqno
    BY <2>2 DEF Kept, Types, FlightPart
  <2>4. flag \in BOOLEAN /\ (opened.window_zero_valid /\ ~flag) \in BOOLEAN
    BY <2>3
  <2>5. /\ Kept(probing) /\ Trimmed(probing) /\ (Echoing(opened) => Echoing(probing))
        /\ probing.next_seqno = opened.next_seqno /\ probing.last_ackno = opened.last_ackno
        /\ probing.window_size = opened.window_size /\ probing.fin_sent = opened.fin_sent
    <3> DEFINE valid == opened.window_zero_valid /\ ~flag
    <3>1. valid \in BOOLEAN /\ probing = Probing(opened, valid)
      BY <2>4
    <3> HIDE DEF valid, probing
    <3> QED BY <2>2, <3>1, ProbingKept
  <2>6. /\ num \in Nat
        /\ flag => opened.window_size = 0 /\ num = 1
        /\ ~flag => \/ num = 0 /\ opened.next_seqno >= opened.last_ackno + opened.window_size
                    \/ opened.next_seqno + num = opened.last_ackno + opened.window_size
    BY <2>3 DEF WindowRoom
  <2>7. flag => ~(opened.window_size > 0)
    BY <2>3
  <2> HIDE DEF probing, flag, num
  <2>8. /\ Kept(y) /\ Trimmed(y) /\ (Echoing(probing) => Echoing(y))
        /\ y.last_ackno = opened.last_ackno /\ y.window_size = opened.window_size
        /\ y.next_seqno <= opened.next_seqno + num
        /\ ~y.fin_sent => \/ y.next_seqno = opened.next_seqno + num
                          \/ Len(y.stream.buffer) = 0 /\ ~y.stream.end_input
    <3>1. ~probing.fin_sent /\ probing.next_seqno > 0
      BY <2>2, <2>5
    <3>2. /\ Kept(y) /\ (Trimmed(probing) => Trimmed(y)) /\ (Echoing(probing) => Echoing(y))
          /\ y.last_ackno = probing.last_ackno /\ y.window_size = probing.window_size
          /\ y.next_seqno <= probing.next_seqno + num
          /\ ~y.fin_sent => \/ y.next_seqno = probing.next_seqno + num
                            \/ Len(y.stream.buffer) = 0 /\ ~y.stream.end_input
      BY <2>1, <2>4, <2>5, <2>6, <3>1, SendFromStreamKept
    <3> QED BY <2>5, <3>2
  <2>9. y.next_seqno \in Nat
    BY <2>8 DEF Kept, Types
  <2>10. Filled(y)
    BY <2>3, <2>6, <2>7, <2>8, <2>9 DEF Filled
  <2>11. ASSUME s.next_seqno > 0, y.next_seqno > s.next_seqno
         PROVE  \/ y.next_seqno <= y.last_ackno + y.window_size
                \/ y.window_size = 0 /\ y.next_seqno = s.next_seqno + 1
    <3>1. s.next_seqno = opened.next_seqno
      BY <2>2, <2>11
    <3> QED BY <2>3, <2>6, <2>8, <2>9, <2>11, <3>1
  <2> QED BY <2>2, <2>5, <2>8, <2>10, <2>11
<1> QED BY <1>2, <1>3

\* The loop of remove_outstanding_segments stops at the first segment that is not
\* acknowledged to its end, and there is a first one or the queue runs out.
LEMMA FirstUnacknowledgedIs ==
    ASSUME NEW s, s.segments_outstanding \in Seq(Outstanding), s.last_ackno \in Nat,
           NEW o, o = s.segments_outstanding, NEW k, k = FirstUnacknowledged(s)
    PROVE  /\ k \in 1 .. Len(o) + 1
           /\ \A i \in 1 .. k - 1 : OutstandingEnd(o[i]) <= s.last_ackno
           /\ k <= Len(o) => OutstandingEnd(o[k]) > s.last_ackno
<1> DEFINE n == Len(o)
           last == s.last_ackno
           T == {j \in Nat : 1 <= j /\ (j <= n => OutstandingEnd(o[j]) > last)}
           IsFirst(j) == /\ \A i \in 1 .. j - 1 : OutstandingEnd(o[i]) <= last
                         /\ j <= n => OutstandingEnd(o[j]) > last
<1>1. /\ n \in Nat /\ last \in Nat
      /\ \A i \in 1 .. n : OutstandingEnd(o[i]) \in Nat
  <2>1. o \in Seq(Outstanding) /\ \A i \in 1 .. n : o[i] \in Outstanding
    OBVIOUS
  <2> QED BY <2>1, EndType
<1> HIDE DEF last
<1>2. n + 1 \in T
  BY <1>1
<1>3. PICK g \in T : \A h \in T : ~(<<h, g>> \in OpToRel(<, Nat))
  <2>1. IsWellFoundedOn(OpToRel(<, Nat), Nat)
    BY NatLessThanWellFounded
  <2>2. T \subseteq Nat /\ T # {}
    BY <1>2
  <2> HIDE DEF T
  <2> QED
    BY <2>1, <2>2, WFMin, Zenon
<1>4. ASSUME NEW h \in T
      PROVE  g <= h
  <2>1. g \in Nat /\ h \in Nat
    OBVIOUS
  <2>2. h < g => <<h, g>> \in OpToRel(<, Nat)
    BY <2>1, Zenon DEF OpToRel
  <2> HIDE DEF T
  <2>3. ~(h < g)
    BY <1>3, <2>2, Zenon
  <2> QED
    BY <2>1, <2>3
<1>5. g \in Nat /\ 1 <= g /\ g <= n + 1 /\ (g <= n => OutstandingEnd(o[g]) > last)
  BY <1>1, <1>2, <1>4
<1>6. \A i \in 1 .. g - 1 : OutstandingEnd(o[i]) <= last
  <2> SUFFICES ASSUME NEW i \in 1 .. g - 1 PROVE OutstandingEnd(o[i]) <= last
    OBVIOUS
  <2>1. i \in Nat /\ 1 <= i /\ i < g /\ i \in 1 .. n /\ ~(g <= i)
    BY <1>1, <1>5
  <2>2. i \notin T
    BY <1>4, <2>1
  <2> QED BY <1>1, <2>1, <2>2
<1>7. g \in 1 .. n + 1 /\ IsFirst(g)
  BY <1>1, <1>5, <1>6
<1>8. k = CHOOSE j \in 1 .. n + 1 : IsFirst(j)
  BY Zenon DEF FirstUnacknowledged, last
<1> HIDE DEF IsFirst
<1>9. k \in 1 .. n + 1 /\ IsFirst(k)
  BY <1>7, <1>8, Zenon
<1> QED BY <1>9 DEF IsFirst, last

\* What remove_outstanding_segments assigns.
Removed(s, q, elapsed, timeout, timer, count) ==
    [s EXCEPT !.segments_outstanding = q, !.retransmission_timeout = elapsed,
              !.initial_retransmission_timeout = timeout, !.timer_enable = timer,
              !.consecutive_retransmissions = count]

\* The members after that.
LEMMA RemovedMembers ==
    ASSUME NEW s, DOMAIN s = Members, NEW q, NEW elapsed, NEW timeout, NEW timer, NEW count,
           NEW y, y = Removed(s, q, elapsed, timeout, timer, count)
    PROVE  /\ DOMAIN y = Members
           /\ y.stream = s.stream /\ y.fin_sent = s.fin_sent /\ y.next_seqno = s.next_seqno
           /\ y.timer_enable = timer /\ y.segments_outstanding = q
           /\ y.isn = s.isn
           /\ y.initial_retransmission_timeout = timeout
           /\ y.retransmission_timeout = elapsed
           /\ y.last_ackno = s.last_ackno /\ y.window_size = s.window_size
           /\ y.window_zero_valid = s.window_zero_valid
           /\ y.segments_out = s.segments_out
  BY DEF Removed, Members

\* remove_outstanding_segments keeps the segments that are not acknowledged, all
\* of them and no other, and restarts the timer for them or stops it.
LEMMA RemoveKept ==
    ASSUME NEW s, Kept(s), NEW y, y = remove_outstanding_segments(s)
    PROVE  /\ Kept(y) /\ Trimmed(y) /\ y.next_seqno = s.next_seqno
           /\ y.segments_out = s.segments_out
<1> DEFINE o == s.segments_outstanding
           k == FirstUnacknowledged(s)
           q == SubSeq(o, k, Len(o))
           zero == 0
           timer == k <= Len(o)
<1>1. /\ Types(s) /\ StreamPart(s) /\ FlightPart(s) /\ DOMAIN s = Members
      /\ s.last_ackno \in Nat /\ s.next_seqno \in Nat
      /\ Queue(o, s.isn, s.fin_sent, s.next_seqno)
      /\ s.last_ackno <= s.next_seqno
  BY DEF Kept, Types, FlightPart
<1>2. o \in Seq(Outstanding) /\ Len(o) \in Nat
  BY <1>1 DEF Queue
<1>3. /\ k \in 1 .. Len(o) + 1
      /\ \A i \in 1 .. k - 1 : OutstandingEnd(o[i]) <= s.last_ackno
      /\ k <= Len(o) => OutstandingEnd(o[k]) > s.last_ackno
  <2> HIDE DEF k
  <2> QED BY <1>1, <1>2, FirstUnacknowledgedIs DEF k
<1> HIDE DEF k
<1>4. CASE k = 1
  <2>1. y = s
    BY <1>4, Zenon DEF remove_outstanding_segments, k
  <2>2. Trimmed(s)
    <3>1. ASSUME Len(o) > 0 PROVE s.last_ackno < OutstandingEnd(o[1])
      <4>1. o[1] \in Outstanding
        BY <1>2, <3>1
      <4>2. OutstandingEnd(o[1]) \in Nat
        BY <4>1, EndType
      <4>3. OutstandingEnd(o[1]) > s.last_ackno
        BY <1>2, <1>3, <1>4, <3>1
      <4> QED BY <1>1, <4>2, <4>3
    <3> QED BY <3>1 DEF Trimmed
  <2> QED BY <2>1, <2>2
<1>5. CASE k # 1
  <2>1. y = Removed(s, q, zero, RtTimeout, timer, zero)
    BY <1>5, Zenon DEF remove_outstanding_segments, Removed, k
  <2>2. /\ Queue(q, s.isn, s.fin_sent, s.next_seqno)
        /\ Len(q) = Len(o) + 1 - k
        /\ k <= Len(o) => q[1] = o[k]
    BY <1>1, <1>3, QueueSuffix
  <2>3. timer \in BOOLEAN /\ (timer <=> Len(q) > 0) /\ (timer <=> k <= Len(o))
    BY <1>2, <1>3, <2>2
  <2>4. zero \in Nat /\ zero = 0 /\ RtTimeout \in Nat \ {0} /\ zero < RtTimeout
    BY SenderConfigAssumption
  <2> HIDE DEF q, zero, timer
  <2>5. /\ DOMAIN y = Members
        /\ y.stream = s.stream /\ y.fin_sent = s.fin_sent /\ y.next_seqno = s.next_seqno
        /\ y.timer_enable = timer /\ y.segments_outstanding = q
        /\ y.isn = s.isn
        /\ y.initial_retransmission_timeout = RtTimeout
        /\ y.retransmission_timeout = zero
        /\ y.last_ackno = s.last_ackno /\ y.window_size = s.window_size
        /\ y.window_zero_valid = s.window_zero_valid
        /\ y.segments_out = s.segments_out
    BY <1>1, <2>1, RemovedMembers
  <2>6. k - 1 \in 1 .. Len(o) /\ OutstandingEnd(o[k - 1]) <= s.last_ackno
    BY <1>2, <1>3, <1>5
  <2>7. ASSUME ~timer PROVE s.last_ackno = s.next_seqno
    <3>1. k - 1 = Len(o)
      BY <1>2, <1>3, <2>3, <2>7
    <3>2. OutstandingEnd(o[Len(o)]) = s.next_seqno
      BY <1>1, <1>2, <2>6 DEF Queue
    <3> QED BY <1>1, <2>6, <3>1, <3>2
  <2>8. ASSUME timer
        PROVE  q[1].abs_seqno <= s.last_ackno /\ s.last_ackno < OutstandingEnd(q[1])
    <3>1. k - 1 \in 1 .. Len(o) - 1 /\ k - 1 + 1 = k /\ k \in 1 .. Len(o)
      BY <1>2, <1>3, <2>3, <2>6, <2>8
    <3>2. OutstandingEnd(o[k - 1]) = o[k].abs_seqno
      BY <1>1, <3>1 DEF Queue
    <3>3. OutstandingEnd(o[k]) \in Nat
      BY <1>2, <3>1, EndType
    <3>4. OutstandingEnd(o[k]) > s.last_ackno /\ q[1] = o[k]
      BY <1>3, <2>2, <2>3, <2>8
    <3> QED BY <1>1, <2>6, <3>2, <3>3, <3>4
  <2>9. FlightPart(y)
    <3>1. IF Len(q) = 0 THEN y.last_ackno = y.next_seqno ELSE q[1].abs_seqno <= y.last_ackno
      <4>1. Len(q) \in Nat
        BY <2>2 DEF Queue
      <4> QED BY <2>3, <2>5, <2>7, <2>8, <4>1
    <3>2. y.last_ackno <= y.next_seqno
      BY <1>1, <2>5
    <3>3. Queue(y.segments_outstanding, y.isn, y.fin_sent, y.next_seqno)
      BY <2>2, <2>5
    <3>4. /\ y.timer_enable <=> Len(y.segments_outstanding) > 0
          /\ IF y.timer_enable THEN y.retransmission_timeout < y.initial_retransmission_timeout
             ELSE y.retransmission_timeout = 0
      BY <2>3, <2>4, <2>5
    <3> QED BY <2>5, <3>1, <3>2, <3>3, <3>4 DEF FlightPart
  <2>10. Trimmed(y)
    BY <2>3, <2>5, <2>8 DEF Trimmed
  <2>11. StreamPart(y)
    <3>1. Len(o) # 0
      BY <1>2, <2>6
    <3>2. s.next_seqno # 0
      BY <1>1, <3>1 DEF StreamPart
    <3> QED BY <1>1, <2>5, <3>2 DEF StreamPart
  <2>12. Types(y)
    BY <1>1, <2>3, <2>4, <2>5 DEF Types
  <2> QED BY <2>5, <2>9, <2>10, <2>11, <2>12 DEF Kept
<1> QED BY <1>4, <1>5

\* From s to y the sender goes beyond its window only to open the connection or
\* to probe a closed window.
WithinWindow(s, y) ==
    y.next_seqno > s.next_seqno =>
        \/ s.next_seqno = 0
        \/ y.next_seqno <= y.last_ackno + y.window_size
        \/ y.window_size = 0 /\ y.next_seqno = s.next_seqno + 1

\* FillKept for a sender that is ready for the next call.
LEMMA FillGood ==
    ASSUME NEW s, Kept(s), Trimmed(s), NEW y, y = fill_window(s)
    PROVE  Good(y) /\ WithinWindow(s, y) /\ (Echoing(s) => Echoing(y))
<1>1. s.next_seqno \in Nat
  BY DEF Kept, Types
<1>2. ~(s.next_seqno > 0) => s.next_seqno = 0
  BY <1>1
<1>3. /\ Kept(y) /\ Trimmed(y) /\ Filled(y) /\ (Echoing(s) => Echoing(y))
      /\ s.next_seqno > 0 /\ y.next_seqno > s.next_seqno =>
           \/ y.next_seqno <= y.last_ackno + y.window_size
           \/ y.window_size = 0 /\ y.next_seqno = s.next_seqno + 1
  BY FillKept
<1> QED BY <1>2, <1>3, Zenon DEF Good, WithinWindow

\* What ack_received assigns before it removes and fills.
Acked(s, last_ackno, window_size, valid) ==
    [s EXCEPT !.last_ackno = last_ackno, !.window_size = window_size,
              !.window_zero_valid = valid]

\* An acknowledgment of something that was sent moves last_ackno forward.
LEMMA AckedKept ==
    ASSUME NEW s, Kept(s), NEW last \in Nat, s.last_ackno <= last, last <= s.next_seqno,
           NEW win \in Nat, NEW valid \in BOOLEAN, NEW y, y = Acked(s, last, win, valid)
    PROVE  /\ Kept(y) /\ y.next_seqno = s.next_seqno
           /\ y.segments_out = s.segments_out
<1>1. DOMAIN s = Members /\ Types(s) /\ StreamPart(s) /\ FlightPart(s)
      /\ s.next_seqno \in Nat /\ s.last_ackno \in Nat
  BY DEF Kept, Types
<1>2. /\ DOMAIN y = Members
      /\ y.stream = s.stream /\ y.fin_sent = s.fin_sent /\ y.next_seqno = s.next_seqno
      /\ y.timer_enable = s.timer_enable /\ y.segments_outstanding = s.segments_outstanding
      /\ y.isn = s.isn
      /\ y.initial_retransmission_timeout = s.initial_retransmission_timeout
      /\ y.retransmission_timeout = s.retransmission_timeout
      /\ y.last_ackno = last /\ y.window_size = win
      /\ y.window_zero_valid = valid /\ y.segments_out = s.segments_out
  BY <1>1 DEF Acked, Members
<1>3. Types(y)
  BY <1>1, <1>2 DEF Types
<1>4. StreamPart(y)
  BY <1>1, <1>2, Zenon DEF StreamPart
<1>5. FlightPart(y)
  <2> DEFINE o == s.segments_outstanding
  <2>1. /\ Queue(o, s.isn, s.fin_sent, s.next_seqno)
        /\ IF Len(o) = 0 THEN s.last_ackno = s.next_seqno ELSE o[1].abs_seqno <= s.last_ackno
    BY <1>1 DEF FlightPart
  <2>2. Len(o) \in Nat /\ (Len(o) # 0 => o[1].abs_seqno \in Nat)
    <3>1. o \in Seq(Outstanding) /\ Len(o) \in Nat
      BY <2>1 DEF Queue
    <3>2. Len(o) # 0 => o[1] \in Outstanding
      BY <3>1
    <3> QED BY <3>1, <3>2, EndType
  <2>3. IF Len(o) = 0 THEN last = s.next_seqno ELSE o[1].abs_seqno <= last
    BY <1>1, <2>1, <2>2
  <2> QED BY <1>1, <1>2, <2>3, Zenon DEF FlightPart
<1> QED BY <1>2, <1>3, <1>4, <1>5 DEF Kept

\* A sender that has nothing to go out.
LEMMA NoneEchoes ==
    ASSUME NEW s, s.segments_out = <<>>
    PROVE  Echoing(s)
<1>1. <<>> \in Seq(Segment) /\ Len(<<>>) = 0
  OBVIOUS
<1> QED BY <1>1 DEF Echoing, Echoes

\* ack_received, for acknowledgments old and new.
LEMMA AckGood ==
    ASSUME NEW s, Good(s), s.segments_out = <<>>, NEW ackno \in WrappingInt32, NEW win \in Nat,
           NEW y, y = ack_received(s, ackno, win)
    PROVE  Good(y) /\ WithinWindow(s, y) /\ Echoing(y)
<1> DEFINE new == unwrap(ackno, s.isn, s.last_ackno)
           last == IF new > s.last_ackno THEN new ELSE s.last_ackno
           open == new + win > last
           window == IF open THEN new + win - last ELSE 0
           valid == s.window_zero_valid \/ ~open
           updated == Acked(s, last, window, valid)
<1>1. Kept(s) /\ s.next_seqno \in Nat /\ s.last_ackno \in Nat /\ s.isn \in WrappingInt32
      /\ s.last_ackno <= s.next_seqno
  BY DEF Good, Kept, Types, FlightPart
<1>2. new \in Nat
  <2>1. ackno \in Int /\ s.isn \in Int
    BY <1>1, Widths DEF WrappingInt32
  <2> QED BY <1>1, <2>1, UnwrapNat
<1> HIDE DEF new
<1>3. CASE s.next_seqno = 0 \/ new > s.next_seqno
  <2>1. y = s
    BY <1>3, Zenon DEF ack_received, new
  <2> QED BY <1>1, <2>1, NoneEchoes DEF WithinWindow
<1>4. CASE ~(s.next_seqno = 0 \/ new > s.next_seqno)
  <2>1. y = fill_window(remove_outstanding_segments(updated))
    BY <1>4, Zenon DEF ack_received, Acked, new
  <2>2. last \in Nat /\ s.last_ackno <= last /\ last <= s.next_seqno
    BY <1>1, <1>2, <1>4
  <2>3. window \in Nat
    BY <1>2, <2>2
  <2>4. valid \in BOOLEAN
    OBVIOUS
  <2> HIDE DEF last, window, valid
  <2>5. /\ Kept(updated) /\ updated.next_seqno = s.next_seqno
        /\ updated.segments_out = s.segments_out
    BY <1>1, <2>2, <2>3, <2>4, AckedKept
  <2> DEFINE removed == remove_outstanding_segments(updated)
  <2> HIDE DEF updated
  <2>6. /\ Kept(removed) /\ Trimmed(removed) /\ removed.next_seqno = s.next_seqno
        /\ removed.segments_out = updated.segments_out
    BY <2>5, RemoveKept
  <2>7. y = fill_window(removed)
    BY <2>1
  <2> HIDE DEF removed
  <2>8. Echoing(removed)
    BY <2>5, <2>6, NoneEchoes
  <2>9. Good(y) /\ WithinWindow(removed, y) /\ Echoing(y)
    BY <2>6, <2>7, <2>8, FillGood
  <2> QED BY <2>6, <2>9, Zenon DEF WithinWindow
<1> QED BY <1>3, <1>4

\* y differs from s at most in its timer and in what it sent last.
SameButTimer(s, y) ==
    /\ DOMAIN y = Members
    /\ y.stream = s.stream /\ y.fin_sent = s.fin_sent /\ y.next_seqno = s.next_seqno
    /\ y.segments_outstanding = s.segments_outstanding /\ y.isn = s.isn
    /\ y.last_ackno = s.last_ackno /\ y.window_size = s.window_size
    /\ y.window_zero_valid = s.window_zero_valid

\* Such a step keeps the invariant when the timer is not left expired.
LEMMA TimerGood ==
    ASSUME NEW s, Good(s), NEW y, SameButTimer(s, y),
           y.timer_enable = s.timer_enable,
           y.initial_retransmission_timeout \in Nat \ {0}, y.retransmission_timeout \in Nat,
           IF s.timer_enable THEN y.retransmission_timeout < y.initial_retransmission_timeout
           ELSE y.retransmission_timeout = 0
    PROVE  Good(y) /\ WithinWindow(s, y)
<1>1. Types(s) /\ StreamPart(s) /\ FlightPart(s) /\ Trimmed(s) /\ Filled(s)
      /\ s.next_seqno \in Nat
  BY DEF Good, Kept, Types
<1>2. Types(y)
  BY <1>1 DEF Types, SameButTimer
<1>3. StreamPart(y)
  BY <1>1, Zenon DEF StreamPart, SameButTimer
<1>4. FlightPart(y)
  BY <1>1, Zenon DEF FlightPart, SameButTimer
<1>5. Trimmed(y) /\ Filled(y)
  BY <1>1, Zenon DEF Trimmed, Filled, SameButTimer
<1>6. WithinWindow(s, y)
  <2>1. ~(y.next_seqno > s.next_seqno)
    BY <1>1 DEF SameButTimer
  <2> QED BY <2>1 DEF WithinWindow
<1> QED BY <1>2, <1>3, <1>4, <1>5, <1>6 DEF Good, Kept

\* What TCPConnection does when it takes the segments, and what
\* send_empty_segment does.
Outgoing(s, out) == [s EXCEPT !.segments_out = out]

\* The segments to go out are no part of Good.
LEMMA OutgoingGood ==
    ASSUME NEW s, Good(s), NEW out, NEW y, y = Outgoing(s, out)
    PROVE  /\ Good(y) /\ WithinWindow(s, y) /\ SameButTimer(s, y)
           /\ y.segments_out = out
<1>1. DOMAIN s = Members /\ Types(s) /\ FlightPart(s)
  BY DEF Good, Kept, Types
<1>2. /\ SameButTimer(s, y)
      /\ y.timer_enable = s.timer_enable
      /\ y.initial_retransmission_timeout = s.initial_retransmission_timeout
      /\ y.retransmission_timeout = s.retransmission_timeout
      /\ y.segments_out = out
  BY <1>1 DEF Outgoing, Members, SameButTimer
<1>3. /\ y.initial_retransmission_timeout \in Nat \ {0} /\ y.retransmission_timeout \in Nat
      /\ IF s.timer_enable THEN y.retransmission_timeout < y.initial_retransmission_timeout
         ELSE y.retransmission_timeout = 0
  BY <1>1, <1>2 DEF Types, FlightPart
<1> QED BY <1>2, <1>3, TimerGood

\* The assignments of tick: the time that has passed, what timeout_retransmission
\* does when something is outstanding, and the restart of the timer.
Elapsed(s, elapsed) == [s EXCEPT !.retransmission_timeout = elapsed]
Resent(s, out, timeout, count) ==
    [s EXCEPT !.segments_out = out, !.initial_retransmission_timeout = timeout,
              !.consecutive_retransmissions = count]
Restarted(s, timer, elapsed) ==
    [s EXCEPT !.timer_enable = timer, !.retransmission_timeout = elapsed]

\* The members after each of them.
LEMMA ElapsedMembers ==
    ASSUME NEW s, DOMAIN s = Members, NEW elapsed, NEW y, y = Elapsed(s, elapsed)
    PROVE  /\ y.segments_out = s.segments_out
           /\ SameButTimer(s, y) /\ y.timer_enable = s.timer_enable
           /\ y.initial_retransmission_timeout = s.initial_retransmission_timeout
           /\ y.retransmission_timeout = elapsed
  BY DEF Elapsed, Members, SameButTimer

\* The members after a segment was sent again.
LEMMA ResentMembers ==
    ASSUME NEW s, DOMAIN s = Members, NEW out, NEW timeout, NEW count,
           NEW y, y = Resent(s, out, timeout, count)
    PROVE  /\ y.segments_out = out
           /\ SameButTimer(s, y) /\ y.timer_enable = s.timer_enable
           /\ y.initial_retransmission_timeout = timeout
           /\ y.retransmission_timeout = s.retransmission_timeout
  BY DEF Resent, Members, SameButTimer

\* The members after the timer was started again.
LEMMA RestartedMembers ==
    ASSUME NEW s, DOMAIN s = Members, NEW timer, NEW elapsed,
           NEW y, y = Restarted(s, timer, elapsed)
    PROVE  /\ y.segments_out = s.segments_out
           /\ SameButTimer(s, y) /\ y.timer_enable = timer
           /\ y.initial_retransmission_timeout = s.initial_retransmission_timeout
           /\ y.retransmission_timeout = elapsed
  BY DEF Restarted, Members, SameButTimer

\* tick lets time pass, or sends the first outstanding segment again and doubles
\* the timeout, unless that segment is a probe.
LEMMA TickGood ==
    ASSUME NEW s, Good(s), s.segments_out = <<>>, NEW ms \in Nat, NEW y, y = tick(s, ms)
    PROVE  Good(y) /\ WithinWindow(s, y) /\ Echoing(y)
<1> DEFINE elapsed == s.retransmission_timeout + ms
           late == Elapsed(s, elapsed)
<1>1. /\ DOMAIN s = Members /\ Types(s) /\ FlightPart(s)
      /\ s.initial_retransmission_timeout \in Nat \ {0} /\ s.retransmission_timeout \in Nat
      /\ s.next_seqno \in Nat /\ s.timer_enable \in BOOLEAN
  BY DEF Good, Kept, Types
<1>2. elapsed \in Nat
  BY <1>1
<1>3. CASE ~s.timer_enable
  <2>1. y = s
    BY <1>3, Zenon DEF tick
  <2> QED BY <1>1, <2>1, NoneEchoes DEF WithinWindow
<1>4. CASE s.timer_enable /\ ~(elapsed >= s.initial_retransmission_timeout)
  <2>1. y = late
    BY <1>4, Zenon DEF tick, Elapsed
  <2> HIDE DEF elapsed
  <2>2. /\ SameButTimer(s, y) /\ y.timer_enable = s.timer_enable
        /\ y.initial_retransmission_timeout = s.initial_retransmission_timeout
        /\ y.retransmission_timeout = elapsed /\ y.segments_out = s.segments_out
    BY <1>1, <2>1, ElapsedMembers
  <2>3. y.retransmission_timeout < y.initial_retransmission_timeout
    BY <1>1, <1>2, <1>4, <2>2
  <2>4. Echoing(y)
    BY <2>2, NoneEchoes
  <2> QED BY <1>1, <1>2, <1>4, <2>2, <2>3, <2>4, TimerGood
<1>5. CASE s.timer_enable /\ elapsed >= s.initial_retransmission_timeout
  <2> DEFINE front == Head(late.segments_outstanding)
             out == Append(late.segments_out, front.seg)
             timeout == IF front.zero THEN late.initial_retransmission_timeout
                        ELSE 2 * late.initial_retransmission_timeout
             count == IF front.zero THEN late.consecutive_retransmissions
                      ELSE late.consecutive_retransmissions + 1
             resent == Resent(late, out, timeout, count)
             zero == 0
             yes == TRUE
  <2>1. /\ SameButTimer(s, late) /\ late.timer_enable = s.timer_enable
        /\ late.initial_retransmission_timeout = s.initial_retransmission_timeout
        /\ late.retransmission_timeout = elapsed /\ late.segments_out = s.segments_out
    <3> HIDE DEF elapsed
    <3> QED BY <1>1, ElapsedMembers
  <2>2. late.segments_outstanding # <<>>
    <3>1. Len(s.segments_outstanding) > 0
      BY <1>1, <1>5 DEF FlightPart
    <3>2. s.segments_outstanding # <<>>
      BY <3>1
    <3> HIDE DEF late
    <3> QED BY <2>1, <3>2, Zenon DEF SameButTimer
  <2>3. y = Restarted(timeout_retransmission(late), yes, zero)
    BY <1>5, Zenon DEF tick, Elapsed, Restarted
  <2> HIDE DEF late
  <2>4. timeout_retransmission(late) = resent
    BY <2>2, Zenon DEF timeout_retransmission, Resent
  <2>5. timeout \in Nat \ {0}
    BY <1>1, <2>1
  <2>6. yes \in BOOLEAN /\ yes /\ zero \in Nat /\ zero < timeout
    BY <2>5
  <2> HIDE DEF out, timeout, count, zero, yes
  <2>7. DOMAIN late = Members
    BY <2>1 DEF SameButTimer
  <2>8. /\ SameButTimer(late, resent) /\ resent.timer_enable = late.timer_enable
        /\ resent.initial_retransmission_timeout = timeout /\ resent.segments_out = out
    BY <2>7, ResentMembers
  <2> HIDE DEF resent
  <2>9. DOMAIN resent = Members
    BY <2>8 DEF SameButTimer
  <2>10. y = Restarted(resent, yes, zero)
    BY <2>3, <2>4, Zenon
  <2>11. /\ SameButTimer(resent, y) /\ y.timer_enable = yes
         /\ y.initial_retransmission_timeout = resent.initial_retransmission_timeout
         /\ y.retransmission_timeout = zero /\ y.segments_out = resent.segments_out
    BY <2>9, <2>10, RestartedMembers
  <2>12. SameButTimer(s, y)
    BY <2>1, <2>8, <2>11, Zenon DEF SameButTimer
  <2>13. y.initial_retransmission_timeout = timeout
    BY <2>8, <2>11, Zenon
  <2>14. /\ y.timer_enable = s.timer_enable
         /\ y.initial_retransmission_timeout \in Nat \ {0} /\ y.retransmission_timeout \in Nat
         /\ y.retransmission_timeout < y.initial_retransmission_timeout
    BY <1>1, <1>5, <2>5, <2>6, <2>11, <2>13
  <2>15. Echoing(y)
    <3> DEFINE o == s.segments_outstanding
               seg == o[1].seg
    <3>1. o \in Seq(Outstanding) /\ Len(o) \in Nat /\ 1 \in 1 .. Len(o)
      BY <1>1, <1>5 DEF FlightPart, Queue
    <3>2. Head(o) = o[1] /\ seg \in Segment
      BY <3>1, EndType
    <3>3. late.segments_outstanding = o /\ y.segments_outstanding = o
      BY <2>1, <2>12 DEF SameButTimer
    <3>4. out = Append(<<>>, seg)
      BY <2>1, <3>2, <3>3, Zenon DEF out
    <3> HIDE DEF o, seg
    <3>5. out \in Seq(Segment) /\ Len(out) = 1 /\ out[1] = seg
      BY <3>2, <3>4
    <3>6. y.segments_out = out
      BY <2>8, <2>11
    <3>7. Echoes(out, o)
      BY <3>1, <3>5 DEF Echoes, seg
    <3> QED BY <3>3, <3>6, <3>7, Zenon DEF Echoing
  <2> QED BY <1>5, <2>12, <2>14, <2>15, TimerGood
<1> QED BY <1>3, <1>4, <1>5

\* ByteStream::write of the bytes that come next takes as many as it has space
\* for, and none once the stream has ended.
LEMMA WriteTakesWhatFits ==
    ASSUME NEW s \in ByteStreamState, InOrder(s), Len(s.buffer) <= s.capacity,
           NEW len \in Nat, NEW data, data = Run(s.bytes_written, len),
           NEW w, w = write(s, data)
    PROVE  /\ w \in ByteStreamState /\ InOrder(w) /\ Len(w.buffer) <= w.capacity
           /\ w.bytes_read = s.bytes_read
           /\ s.end_input => w = s
<1>1. /\ Len(s.buffer) \in Nat /\ s.capacity \in Nat /\ s.bytes_written \in Nat
      /\ s.end_input \in BOOLEAN
  BY DEF ByteStreamState
<1>2. CASE s.end_input
  <2>1. w = s
    BY <1>2, Zenon DEF write
  <2> QED BY <2>1
<1>3. CASE ~s.end_input
  <2> DEFINE room == remaining_capacity(s)
             n == min(len, room)
             d == Run(s.bytes_written, n)
  <2>1. room \in Nat /\ room = s.capacity - Len(s.buffer)
    BY <1>1 DEF remaining_capacity
  <2> HIDE DEF room
  <2>2. n \in Nat /\ n <= len /\ n <= room /\ min(n, room) = n
    BY <2>1 DEF min
  <2> HIDE DEF n
  <2>3. ASSUME NEW m \in Nat
        PROVE  /\ Run(s.bytes_written, m) \in Seq(Byte)
               /\ Len(Run(s.bytes_written, m)) = m
               /\ \A j \in 1 .. m : Run(s.bytes_written, m)[j] = s.bytes_written + j - 1
    <3>1. \A j \in 1 .. m : s.bytes_written + j - 1 \in Byte
      BY <1>1 DEF Byte
    <3> QED BY <3>1 DEF Run
  <2>4. SubSeq(data, 1, n) = d
    <3>1. SubSeq(data, 1, n) = [j \in 1 .. n |-> data[j]]
      BY <2>2, <2>3
    <3>2. \A j \in 1 .. len : data[j] = s.bytes_written + j - 1
      BY <2>3, Zenon
    <3>3. \A j \in 1 .. n : j \in 1 .. len
      BY <2>2
    <3>4. \A j \in 1 .. n : data[j] = s.bytes_written + j - 1
      BY <3>2, <3>3, Zenon
    <3> QED BY <3>1, <3>4 DEF Run
  <2>5. SubSeq(d, 1, n) = d
    <3>1. SubSeq(d, 1, n) = [j \in 1 .. n |-> d[j]]
      BY <2>2, <2>3
    <3>2. d \in Seq(Byte) /\ Len(d) = n
      BY <2>2, <2>3, Zenon
    <3> HIDE DEF d
    <3>3. d = [j \in 1 .. n |-> d[j]]
      BY <2>2, <3>2
    <3> QED BY <3>1, <3>3
  <2>6. Len(data) = len /\ Len(d) = n /\ d \in Seq(Byte)
        /\ \A j \in 1 .. Len(d) : d[j] = s.bytes_written + j - 1
    BY <2>2, <2>3
  <2> HIDE DEF d
  <2>7. w = write(s, d)
    <3>1. min(Len(data), remaining_capacity(s)) = n /\ min(Len(d), remaining_capacity(s)) = n
      BY <2>2, <2>6, Zenon DEF n, room
    <3> QED BY <1>3, <2>4, <2>5, <3>1, Zenon DEF write
  <2>8. Len(d) <= remaining_capacity(s)
    BY <2>2, <2>6 DEF room
  <2>9. /\ write(s, d) \in ByteStreamState /\ InOrder(write(s, d))
        /\ write(s, d).capacity = s.capacity /\ write(s, d).bytes_read = s.bytes_read
        /\ Len(write(s, d).buffer) = Len(s.buffer) + n
    BY <1>3, <2>6, <2>8, WriteInOrder
  <2>10. Len(w.buffer) <= w.capacity
    <3>1. w.capacity = s.capacity /\ Len(w.buffer) = Len(s.buffer) + n
      BY <2>7, <2>9, Zenon
    <3> QED BY <1>1, <2>1, <2>2, <3>1
  <2> QED BY <1>3, <2>7, <2>9, <2>10, Zenon
<1> QED BY <1>2, <1>3

\* What ByteStream::end_input assigns.
Ended(s, flag) == [s EXCEPT !.end_input = flag]

\* The bytes in the stream stay as they are when it ends.
LEMMA EndInputKeeps ==
    ASSUME NEW s \in ByteStreamState, InOrder(s), NEW w, w = end_input(s)
    PROVE  /\ w \in ByteStreamState /\ InOrder(w) /\ w.buffer = s.buffer
           /\ w.capacity = s.capacity /\ w.bytes_read = s.bytes_read
           /\ eof(s) => eof(w)
<1> DEFINE yes == TRUE
<1>1. w = Ended(s, yes) /\ yes \in BOOLEAN /\ yes
  BY Zenon DEF end_input, Ended
<1> HIDE DEF yes
<1>2. /\ w \in ByteStreamState /\ w.end_input = yes /\ w.buffer = s.buffer
      /\ w.capacity = s.capacity /\ w.bytes_read = s.bytes_read
      /\ w.bytes_written = s.bytes_written
  BY <1>1 DEF Ended, ByteStreamState
<1>3. InOrder(w)
  BY <1>2, Zenon DEF InOrder
<1> QED BY <1>1, <1>2, <1>3, Zenon DEF eof

\* What the application does to the stream of the sender.
WithStream(s, stream) == [s EXCEPT !.stream = stream]

\* The application may write to the stream or end it; what was read of it stays.
LEMMA StreamKept ==
    ASSUME NEW s, Good(s), NEW w \in ByteStreamState, InOrder(w),
           Len(w.buffer) <= w.capacity, w.bytes_read = s.stream.bytes_read,
           s.fin_sent => eof(w), NEW y, y = WithStream(s, w)
    PROVE  /\ Kept(y) /\ Trimmed(y) /\ y.next_seqno = s.next_seqno
           /\ y.segments_out = s.segments_out
<1>1. DOMAIN s = Members /\ Types(s) /\ StreamPart(s) /\ FlightPart(s) /\ Trimmed(s)
  BY DEF Good, Kept, Types
<1>2. /\ DOMAIN y = Members
      /\ y.stream = w /\ y.fin_sent = s.fin_sent /\ y.next_seqno = s.next_seqno
      /\ y.timer_enable = s.timer_enable /\ y.segments_outstanding = s.segments_outstanding
      /\ y.isn = s.isn
      /\ y.initial_retransmission_timeout = s.initial_retransmission_timeout
      /\ y.retransmission_timeout = s.retransmission_timeout
      /\ y.last_ackno = s.last_ackno /\ y.window_size = s.window_size
      /\ y.window_zero_valid = s.window_zero_valid
      /\ y.segments_out = s.segments_out
  BY <1>1 DEF WithStream, Members
<1>3. Types(y)
  BY <1>1, <1>2 DEF Types
<1>4. StreamPart(y)
  BY <1>1, <1>2, Zenon DEF StreamPart
<1>5. FlightPart(y) /\ Trimmed(y)
  BY <1>1, <1>2, Zenon DEF FlightPart, Trimmed
<1> QED BY <1>2, <1>3, <1>4, <1>5 DEF Kept

\* A new sender has sent nothing.
LEMMA InitIInv ==
    Init => IInv
<1> SUFFICES ASSUME NEW isn \in Isns, snd = NewSender(SendCapacity, isn) PROVE Good(snd) /\ Announced(snd)
  BY DEF Init, IInv
<1> DEFINE stream == NewByteStream(SendCapacity)
<1>1. isn \in WrappingInt32 /\ SendCapacity \in Nat /\ RtTimeout \in Nat \ {0}
  BY SenderAssumption, SenderConfigAssumption
<1>2. /\ stream \in ByteStreamState /\ InOrder(stream) /\ stream.bytes_read = 0
      /\ Len(stream.buffer) <= stream.capacity
  <2>1. <<>> \in Seq(Byte) /\ Len(<<>>) = 0
    OBVIOUS
  <2> QED BY <1>1, <2>1 DEF NewByteStream, ByteStreamState, InOrder
<1> HIDE DEF stream
<1>3. /\ DOMAIN snd = Members
      /\ snd.stream = stream /\ snd.fin_sent = FALSE /\ snd.next_seqno = 0
      /\ snd.timer_enable = FALSE /\ snd.segments_outstanding = <<>>
      /\ snd.isn = isn
      /\ snd.initial_retransmission_timeout = RtTimeout
      /\ snd.retransmission_timeout = 0
      /\ snd.last_ackno = 0 /\ snd.window_size = 1 /\ snd.window_zero_valid = FALSE
  BY DEF NewSender, Members, stream
<1>4. Types(snd)
  <2>1. 0 \in Nat /\ 1 \in Nat /\ FALSE \in BOOLEAN
    OBVIOUS
  <2> QED BY <1>1, <1>2, <1>3, <2>1, Zenon DEF Types
<1>5. Len(snd.segments_outstanding) = 0 /\ snd.segments_outstanding \in Seq(Outstanding)
  BY <1>3
<1>6. StreamPart(snd)
  BY <1>2, <1>3, <1>5 DEF StreamPart
<1>7. FlightPart(snd)
  BY <1>3, <1>5 DEF FlightPart, Queue
<1>8. Trimmed(snd) /\ Filled(snd)
  BY <1>3, <1>5 DEF Trimmed, Filled
<1>9. Announced(snd)
  <2>1. snd.segments_out = <<>>
    BY DEF NewSender
  <2> QED BY <2>1, NoneEchoes DEF Announced
<1> QED BY <1>4, <1>6, <1>7, <1>8, <1>9 DEF Good, Kept

\* Each operation of the sender keeps the invariant, and stays within the window.
LEMMA StepGood ==
    ASSUME IInv, Next
    PROVE  IInv' /\ WithinWindow(snd, snd')
<1> DEFINE popped == Popped(snd)
<1>1. /\ Good(popped) /\ popped.next_seqno = snd.next_seqno
      /\ popped.isn = snd.isn /\ popped.stream = snd.stream
      /\ popped.fin_sent = snd.fin_sent /\ popped.segments_out = <<>>
  <2> DEFINE none == <<>>
  <2>1. popped = Outgoing(snd, none)
    BY Zenon DEF Popped, Outgoing
  <2> HIDE DEF none, popped
  <2>2. Good(popped) /\ SameButTimer(snd, popped) /\ popped.segments_out = none
    BY <2>1, OutgoingGood DEF IInv
  <2> QED BY <2>2 DEF SameButTimer, none
<1> HIDE DEF popped
<1>2. /\ Kept(popped) /\ Trimmed(popped) /\ popped.isn \in WrappingInt32
      /\ popped.stream \in ByteStreamState /\ InOrder(popped.stream)
      /\ Len(popped.stream.buffer) <= popped.stream.capacity
      /\ popped.fin_sent => eof(popped.stream)
  BY <1>1 DEF Good, Kept, Types, StreamPart
<1>3. SUFFICES Good(snd') /\ WithinWindow(popped, snd') /\ Announced(snd')
  BY <1>1, Zenon DEF IInv, WithinWindow
<1>4. CASE FillWindow
  <2>1. snd' = fill_window(popped)
    BY <1>4 DEF FillWindow, popped
  <2>2. Echoing(popped)
    BY <1>1, NoneEchoes
  <2> QED BY <1>2, <2>1, <2>2, FillGood DEF Announced
<1>5. ASSUME NEW len \in 1 .. StreamLimit, Write(len)
      PROVE  Good(snd') /\ WithinWindow(popped, snd') /\ Announced(snd')
  <2> DEFINE data == Run(popped.stream.bytes_written, len)
             w == write(popped.stream, data)
             y == WithStream(popped, w)
  <2>1. snd' = fill_window(y)
    <3>1. snd' = fill_window([popped EXCEPT !.stream =
                                write(@, Run(snd.stream.bytes_written, len))])
      BY <1>5 DEF Write, popped
    <3> QED BY <1>1, <3>1, Zenon DEF WithStream
  <2>2. len \in Nat
    BY SenderAssumption
  <2> HIDE DEF data
  <2>3. /\ w \in ByteStreamState /\ InOrder(w) /\ Len(w.buffer) <= w.capacity
        /\ w.bytes_read = popped.stream.bytes_read
        /\ popped.stream.end_input => w = popped.stream
    <3> DEFINE stream == popped.stream
    <3>1. /\ stream \in ByteStreamState /\ InOrder(stream)
          /\ Len(stream.buffer) <= stream.capacity
      BY <1>2
    <3>2. data = Run(stream.bytes_written, len) /\ w = write(stream, data)
      BY DEF data
    <3> HIDE DEF w, stream
    <3>3. /\ w \in ByteStreamState /\ InOrder(w) /\ Len(w.buffer) <= w.capacity
          /\ w.bytes_read = stream.bytes_read
          /\ stream.end_input => w = stream
      BY <2>2, <3>1, <3>2, WriteTakesWhatFits
    <3> QED BY <3>3 DEF stream
  <2>4. popped.fin_sent => eof(w)
    BY <1>2, <2>3 DEF eof
  <2> HIDE DEF w
  <2>5. /\ Kept(y) /\ Trimmed(y) /\ y.next_seqno = popped.next_seqno
        /\ y.segments_out = popped.segments_out
    BY <1>1, <2>3, <2>4, StreamKept
  <2> HIDE DEF y
  <2>6. Echoing(y)
    BY <1>1, <2>5, NoneEchoes
  <2>7. Good(snd') /\ WithinWindow(y, snd') /\ Echoing(snd')
    BY <2>1, <2>5, <2>6, FillGood
  <2> QED BY <2>5, <2>7, Zenon DEF WithinWindow, Announced
<1>6. CASE EndInput
  <2> DEFINE w == end_input(popped.stream)
             y == WithStream(popped, w)
  <2>1. snd' = fill_window(y)
    BY <1>6, Zenon DEF EndInput, popped, WithStream
  <2>2. /\ w \in ByteStreamState /\ InOrder(w) /\ w.buffer = popped.stream.buffer
        /\ w.capacity = popped.stream.capacity /\ w.bytes_read = popped.stream.bytes_read
        /\ eof(popped.stream) => eof(w)
    BY <1>2, EndInputKeeps
  <2> HIDE DEF w
  <2>3. Len(w.buffer) <= w.capacity /\ (popped.fin_sent => eof(w))
    BY <1>2, <2>2
  <2>4. /\ Kept(y) /\ Trimmed(y) /\ y.next_seqno = popped.next_seqno
        /\ y.segments_out = popped.segments_out
    BY <1>1, <2>2, <2>3, StreamKept
  <2> HIDE DEF y
  <2>5. Echoing(y)
    BY <1>1, <2>4, NoneEchoes
  <2>6. Good(snd') /\ WithinWindow(y, snd') /\ Echoing(snd')
    BY <2>1, <2>4, <2>5, FillGood
  <2> QED BY <2>4, <2>6, Zenon DEF WithinWindow, Announced
<1>7. ASSUME NEW abs \in 1 .. StreamLimit + 3, NEW win \in Windows, AckReceived(abs, win)
      PROVE  Good(snd') /\ WithinWindow(popped, snd') /\ Announced(snd')
  <2> DEFINE ackno == wrap(abs, popped.isn)
  <2>1. snd' = ack_received(popped, ackno, win)
    BY <1>1, <1>7 DEF AckReceived, popped
  <2>2. ackno \in WrappingInt32
    <3>1. abs \in Int
      BY SenderAssumption
    <3> QED BY <1>2, <3>1, WrapResidue
  <2>3. win \in Nat
    BY SenderAssumption
  <2> HIDE DEF ackno
  <2> QED BY <1>1, <2>1, <2>2, <2>3, AckGood DEF Announced
<1>8. ASSUME NEW ms \in Delays, Tick(ms)
      PROVE  Good(snd') /\ WithinWindow(popped, snd') /\ Announced(snd')
  <2>1. snd' = tick(popped, ms)
    BY <1>8 DEF Tick, popped
  <2>2. ms \in Nat
    BY SenderAssumption
  <2> QED BY <1>1, <2>1, <2>2, TickGood DEF Announced
<1>9. CASE SendEmpty
  <2> DEFINE seg == [EmptySegment EXCEPT !.seqno = wrap(popped.next_seqno, popped.isn)]
             out == Append(popped.segments_out, seg)
  <2>1. snd' = Outgoing(popped, out)
    BY <1>9, Zenon DEF SendEmpty, popped, send_empty_segment,
                       send_empty_segment_with_this_header, Outgoing
  <2> HIDE DEF seg
  <2>2. out = <<seg>>
    BY <1>1
  <2> HIDE DEF out
  <2>3. /\ Good(snd') /\ WithinWindow(popped, snd') /\ SameButTimer(popped, snd')
        /\ snd'.segments_out = out
    BY <1>1, <2>1, OutgoingGood
  <2>4. Announced(snd')
    BY <2>2, <2>3, Zenon DEF Announced, SameButTimer, seg
  <2> QED BY <2>3, <2>4
<1> QED BY <1>4, <1>5, <1>6, <1>7, <1>8, <1>9 DEF Next

\* The invariant gives what the sender promises.
LEMMA IInvImplies ==
    IInv => /\ OutstandingTilesFlight /\ TimerRunsWhileOutstanding
            /\ SegmentsCarryTheirBytes /\ OpenWindowIsFilled
<1> SUFFICES ASSUME IInv
             PROVE  /\ OutstandingTilesFlight /\ TimerRunsWhileOutstanding
                    /\ SegmentsCarryTheirBytes /\ OpenWindowIsFilled
  OBVIOUS
<1> DEFINE o == snd.segments_outstanding
<1>1. /\ Types(snd) /\ StreamPart(snd) /\ FlightPart(snd) /\ Trimmed(snd) /\ Filled(snd)
      /\ Announced(snd)
  BY DEF IInv, Good, Kept
<1>2. Queue(o, snd.isn, snd.fin_sent, snd.next_seqno)
  BY <1>1 DEF FlightPart
<1>3. /\ o \in Seq(Outstanding) /\ Len(o) \in Nat /\ DOMAIN o = 1 .. Len(o)
      /\ o = <<>> <=> Len(o) = 0
      /\ o # <<>> <=> Len(o) > 0
  BY <1>2 DEF Queue
<1>4. OutstandingTilesFlight
  BY <1>1, <1>2, <1>3 DEF OutstandingTilesFlight, FlightPart, Trimmed, Queue
<1>5. TimerRunsWhileOutstanding
  BY <1>1, <1>3 DEF TimerRunsWhileOutstanding, FlightPart
<1>6. SegmentsCarryTheirBytes
  <2>1. snd.next_seqno = IF snd.next_seqno = 0 THEN 0
                         ELSE 1 + snd.stream.bytes_read + (IF snd.fin_sent THEN 1 ELSE 0)
    BY <1>1, Zenon DEF StreamPart, After
  <2>2. snd.fin_sent => eof(snd.stream)
    BY <1>1 DEF StreamPart
  <2>3. ASSUME NEW e \in {o[i] : i \in DOMAIN o}
        PROVE  /\ e.seg.seqno = wrap(e.abs_seqno, snd.isn)
               /\ e.seg.syn <=> e.abs_seqno = 0
               /\ e.seg.payload = Run(e.abs_seqno - 1, Len(e.seg.payload))
               /\ Len(e.seg.payload) <= MAX_PAYLOAD_SIZE
               /\ e.seg.fin <=> (snd.fin_sent /\ OutstandingEnd(e) = snd.next_seqno)
    <3>1. PICK i \in 1 .. Len(o) : e = o[i]
      BY <1>3, <2>3
    <3>2. Carries(e, snd.isn, snd.fin_sent, snd.next_seqno)
      BY <1>2, <3>1, Zenon DEF Queue
    <3> QED BY <3>2, Zenon DEF Carries
  <2>4. ASSUME NEW seg \in {snd.segments_out[i] : i \in DOMAIN snd.segments_out}
        PROVE  \/ \E e \in {o[i] : i \in DOMAIN o} : seg = e.seg
               \/ seg = [EmptySegment EXCEPT !.seqno = wrap(snd.next_seqno, snd.isn)]
    <3> DEFINE out == snd.segments_out
               empty == [EmptySegment EXCEPT !.seqno = wrap(snd.next_seqno, snd.isn)]
    <3> HIDE DEF empty
    <3>1. CASE Echoing(snd)
      <4>1. /\ out \in Seq(Segment)
            /\ \A i \in 1 .. Len(out) : \E j \in 1 .. Len(o) : out[i] = o[j].seg
        BY <3>1 DEF Echoing, Echoes
      <4>2. DOMAIN out = 1 .. Len(out)
        BY <4>1
      <4>3. PICK i \in 1 .. Len(out) : seg = out[i]
        BY <2>4, <4>2, Zenon
      <4>4. PICK j \in 1 .. Len(o) : seg = o[j].seg
        BY <4>1, <4>3, Zenon
      <4> QED BY <1>3, <4>4, Zenon
    <3>2. CASE out = <<empty>>
      <4>1. seg = empty
        BY <2>4, <3>2
      <4> QED BY <4>1 DEF empty
    <3> QED BY <1>1, <3>1, <3>2, Zenon DEF Announced, empty
  <2> HIDE DEF o
  <2> QED BY <2>1, <2>2, <2>3, <2>4, Zenon DEF SegmentsCarryTheirBytes, o
<1>7. OpenWindowIsFilled
  <2>1. snd.stream.buffer \in Seq(Byte)
    BY <1>1 DEF Types, ByteStreamState
  <2>2. Len(snd.stream.buffer) = 0 => snd.stream.buffer = <<>>
    BY <2>1
  <2> QED BY <1>1, <2>2, Zenon DEF Filled, OpenWindowIsFilled
<1> QED BY <1>4, <1>5, <1>6, <1>7

\* In every behaviour of the sender the invariant holds.
LEMMA AlwaysIInv ==
    Spec => []IInv
<1>1. IInv /\ [Next]_snd => IInv'
  <2>1. ASSUME IInv, UNCHANGED snd PROVE IInv'
    BY <2>1 DEF IInv, Good, Kept, Types, StreamPart, FlightPart, Trimmed, Filled,
                   Announced, Echoing
  <2> QED BY <2>1, StepGood
<1> QED BY <1>1, InitIInv, PTL DEF Spec

\* What send_segment adds and remove_outstanding_segments takes away tile the
\* sequence numbers in flight: nothing that was sent and not acknowledged is
\* forgotten, and nothing is kept after it was acknowledged.
THEOREM TilesFlight ==
    Spec => []OutstandingTilesFlight
  BY AlwaysIInv, IInvImplies, PTL

\* The retransmission timer of tick runs exactly while something is outstanding,
\* and no call leaves it expired.
THEOREM TimerRuns ==
    Spec => []TimerRunsWhileOutstanding
  BY AlwaysIInv, IInvImplies, PTL

\* Every segment that fill_window sent and tick may send again carries the SYN,
\* the bytes or the FIN its sequence number stands for, at most MAX_PAYLOAD_SIZE of
\* them, and a call puts nothing else into segments_out but an empty segment.
THEOREM CarriesItsBytes ==
    Spec => []SegmentsCarryTheirBytes
  BY AlwaysIInv, IInvImplies, PTL

\* fill_window leaves no data and no FIN behind while the window is open.
THEOREM FillsWindow ==
    Spec => []OpenWindowIsFilled
  BY AlwaysIInv, IInvImplies, PTL

\* No call sends beyond the window but for the SYN and one sequence number at a
\* time against a closed window.
THEOREM StaysInWindow ==
    Spec => NothingPastWindow
<1>1. IInv /\ [Next]_snd =>
        [snd'.next_seqno > snd.next_seqno =>
            \/ snd.next_seqno = 0
            \/ snd'.next_seqno <= snd'.last_ackno + snd'.window_size
            \/ snd'.window_size = 0 /\ snd'.next_seqno = snd.next_seqno + 1]_snd
  BY StepGood DEF WithinWindow
<1> QED BY <1>1, AlwaysIInv, PTL DEF Spec, NothingPastWindow
================================================================================
