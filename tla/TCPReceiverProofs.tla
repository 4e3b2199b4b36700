--------------------------- MODULE TCPReceiverProofs ---------------------------
(***************************************************************************)
(* The safety properties of TCPReceiverSpec for every capacity, stream     *)
(* length, reach and width of the sequence numbers, when the SYN does not  *)
(* come again.  With a late SYN they do not hold: its number is the one    *)
(* that unwrap misplaces.                                                  *)
(***************************************************************************)
EXTENDS TCPReceiverSpec, StreamReassemblerLemmas, WrappingIntegersProofs

ReceiverState ==
    [syn_recived : BOOLEAN, isn : WrappingInt32, last_stream_no : Nat,
     reassembler : ReassemblerState]

\* The place in the stream that goes with the absolute sequence number abs.
StreamNo(abs) == IF abs > 0 THEN abs - 1 ELSE 0

(***************************************************************************)
(* How far the stream can be from the segment that came last, which is the *)
(* checkpoint for the next one.  That segment was within reach of the      *)
(* ackno when it came, and the ackno has moved on by at most a window and  *)
(* the FIN since.                                                          *)
(***************************************************************************)
CheckpointNear(x, abs) ==
    /\ x.reassembler.next_index + 1 - abs <= Reach + Capacity
    /\ abs - abs_ackno(x) <= Reach

\* The inductive invariant.
IInv ==
    /\ rcv \in ReceiverState
    /\ Sound(rcv.reassembler)
    /\ rcv.reassembler.next_index \notin Stored(rcv.reassembler)
    /\ arrived \in 0 .. StreamLength + 2
    /\ rcv.last_stream_no = StreamNo(arrived)
    /\ IF rcv.syn_recived THEN CheckpointNear(rcv, arrived)
       ELSE rcv = NewReceiver(Capacity) /\ arrived = 0

\* What the proofs below need of the constants.
LEMMA Constants ==
    /\ Capacity \in Nat /\ StreamLength \in Nat /\ Reach \in Nat \ {0}
    /\ Isns \subseteq WrappingInt32
    /\ 2 * Reach + Capacity + 1 < Half32
    /\ StreamLength + 1 + Mod32 < Mod64
  BY ReassemblerAssumption, ReceiverAssumption

\* abs_ackno in numbers.
LEMMA AcknoOf ==
    ASSUME NEW x, Sound(x.reassembler)
    PROVE  /\ x.reassembler.next_index \in Nat
           /\ abs_ackno(x) = x.reassembler.next_index
                             + (IF x.reassembler.output.end_input THEN 2 ELSE 1)
           /\ x.reassembler.output.end_input => x.reassembler.next_index = StreamLength
<1>1. x.reassembler.next_index \in Nat
  BY SoundTypes
<1>2. x.reassembler.output.end_input => x.reassembler.next_index = StreamLength
  BY DEF Sound
<1> QED BY <1>1, <1>2 DEF abs_ackno, stream_out

\* The invariant holds before anything has arrived.
LEMMA InitIInv == Init => IInv
<1> SUFFICES ASSUME Init PROVE IInv
  OBVIOUS
<1>1. rcv = NewReceiver(Capacity) /\ arrived = 0
  BY DEF Init
<1> DEFINE new == NewReassembler(Capacity)
<1>2. Sound(new) /\ new.next_index \notin Stored(new)
  BY NewSound
<1>3. new \in ReassemblerState
  BY <1>2 DEF Sound
<1> HIDE DEF new
<1>4. rcv = [syn_recived |-> FALSE, isn |-> 0, last_stream_no |-> 0, reassembler |-> new]
  BY <1>1 DEF NewReceiver, new
<1>5. 0 \in WrappingInt32
  BY Widths DEF WrappingInt32
<1>6. rcv \in ReceiverState /\ rcv.reassembler = new /\ rcv.last_stream_no = 0
      /\ rcv.syn_recived = FALSE
  BY <1>3, <1>4, <1>5 DEF ReceiverState
<1> QED BY <1>1, <1>2, <1>6, Constants DEF IInv, StreamNo

\* What segment_received assigns, once it knows the initial sequence number and
\* the place of the segment.
Assigned(x, isn, place, pushed) ==
    [x EXCEPT !.syn_recived = TRUE, !.isn = isn, !.last_stream_no = place,
              !.reassembler = pushed]

\* The members of the receiver after segment_received.
LEMMA AssignedMembers ==
    ASSUME NEW x \in ReceiverState, NEW isn \in WrappingInt32, NEW place \in Nat,
           NEW pushed \in ReassemblerState
    PROVE  /\ Assigned(x, isn, place, pushed) \in ReceiverState
           /\ Assigned(x, isn, place, pushed).syn_recived
           /\ Assigned(x, isn, place, pushed).isn = isn
           /\ Assigned(x, isn, place, pushed).last_stream_no = place
           /\ Assigned(x, isn, place, pushed).reassembler = pushed
  BY DEF ReceiverState, Assigned

-------------------------------------------------------------------------------
\* A segment that starts at abs, within reach, and whose bytes have the index
\* abs - 1 or are none: segment_received keeps the invariant, and the ackno and
\* the right edge of the window do not move back.
LEMMA Accepted ==
    ASSUME IInv,
           NEW index \in Nat, NEW len \in Nat, index + len <= StreamLength,
           NEW is_fin \in BOOLEAN, is_fin => index + len = StreamLength,
           NEW abs \in 0 .. StreamLength + 2,
           abs - abs_ackno(rcv) <= Reach,
           rcv.reassembler.next_index + 1 - abs <= Reach,
           rcv' \in ReceiverState, rcv'.syn_recived,
           rcv'.reassembler = push_substring(rcv.reassembler, Run(index, len), index, is_fin),
           rcv'.last_stream_no = StreamNo(abs),
           arrived' = abs
    PROVE  /\ IInv'
           /\ RightEdge' >= RightEdge /\ abs_ackno(rcv)' >= abs_ackno(rcv)
<1> DEFINE old == rcv.reassembler
           new == rcv'.reassembler
<1>1. Sound(old) /\ old.next_index \notin Stored(old)
  BY DEF IInv
<1>2. /\ Sound(new) /\ new.next_index \notin Stored(new)
      /\ new.next_index + remaining_capacity(new.output)
           = old.next_index + remaining_capacity(old.output)
      /\ old.next_index <= new.next_index
      /\ old.output.end_input => new.output.end_input
  BY <1>1, PushSubstringSound
<1>3. PICK a, b, c, d \in Nat :
          /\ a = old.next_index /\ b = remaining_capacity(old.output)
          /\ c = new.next_index /\ d = remaining_capacity(new.output)
          /\ b <= Capacity
  BY <1>1, <1>2, SoundTypes
<1>4. c + d = a + b /\ a <= c
  BY <1>2, <1>3
<1>5. /\ abs_ackno(rcv) = a + (IF old.output.end_input THEN 2 ELSE 1)
      /\ abs_ackno(rcv)' = c + (IF new.output.end_input THEN 2 ELSE 1)
  <2>1. abs_ackno(rcv)' = abs_ackno(rcv')
    BY DEF abs_ackno, stream_out
  <2>2. abs_ackno(rcv) = old.next_index + (IF old.output.end_input THEN 2 ELSE 1)
    BY <1>1, AcknoOf
  <2>3. abs_ackno(rcv') = new.next_index + (IF new.output.end_input THEN 2 ELSE 1)
    BY <1>2, AcknoOf
  <2> QED BY <1>3, <2>1, <2>2, <2>3
<1>6. /\ RightEdge = abs_ackno(rcv) + b
      /\ RightEdge' = abs_ackno(rcv)' + d
  BY <1>3 DEF RightEdge, window_size, stream_out
<1>7. abs_ackno(rcv)' >= abs_ackno(rcv)
  BY <1>2, <1>3, <1>4, <1>5
<1>8. RightEdge' >= RightEdge
  BY <1>2, <1>3, <1>4, <1>5, <1>6
<1>9. CheckpointNear(rcv, arrived)'
  <2>1. abs - abs_ackno(rcv)' <= Reach
    BY <1>3, <1>5, <1>7, Constants
  <2>2. c + 1 - abs <= Reach + Capacity
    BY <1>3, <1>4, Constants
  <2> QED BY <1>3, <2>1, <2>2 DEF CheckpointNear
<1> QED BY <1>2, <1>7, <1>8, <1>9 DEF IInv

\* The SYN: its own number is the initial one, its place is 0, and it carries
\* no bytes.
LEMMA SynStep ==
    ASSUME IInv, NEW isn \in Isns, ReceiveSyn(isn), ~rcv.syn_recived
    PROVE  /\ rcv'.reassembler = push_substring(rcv.reassembler, Run(0, 0), 0, FALSE)
           /\ IInv' /\ RightEdge' >= RightEdge /\ abs_ackno(rcv)' >= abs_ackno(rcv)
<1> DEFINE seg == SynSegment(isn)
           zero == 0
           no == FALSE
           pushed == push_substring(rcv.reassembler, Run(zero, zero), zero, no)
<1>1. isn \in WrappingInt32
  BY Constants
<1>2. wrap(0, isn) = isn
  <2>1. isn - isn = 0
    BY <1>1 DEF WrappingInt32
  <2> QED BY <1>1, <2>1, WrapsTo
<1>3. seg.seqno = isn /\ seg.syn = TRUE /\ seg.fin = no /\ seg.payload = Run(zero, zero)
  BY <1>2 DEF SynSegment, EmptySegment, Run
<1>4. /\ rcv \in ReceiverState /\ Sound(rcv.reassembler)
      /\ rcv.reassembler.next_index \notin Stored(rcv.reassembler)
      /\ rcv = NewReceiver(Capacity) /\ arrived = 0 /\ rcv.last_stream_no = 0
  BY DEF IInv, StreamNo
<1>5. unwrap(isn, isn, 0) = 0
  <2>1. 0 + Mod32 < Mod64 /\ 0 < 0 + Half32 /\ 0 <= 0 + Half32
    BY Widths
  <2>2. unwrap(wrap(0, isn), isn, 0) = 0
    BY <1>1, <2>1, UnwrapRecovers
  <2> QED BY <1>2, <2>2
<1>6. rcv' = segment_received(rcv, seg) /\ arrived' = zero
  BY DEF ReceiveSyn
<1>7. /\ zero \in Nat /\ zero + zero <= StreamLength /\ no \in BOOLEAN
      /\ no => zero + zero = StreamLength
      /\ zero \in 0 .. StreamLength + 2 /\ zero = StreamNo(zero)
  BY Constants DEF StreamNo
<1>8. /\ ~rcv.syn_recived /\ seg.syn
      /\ unwrap(seg.seqno, seg.seqno, rcv.last_stream_no) = zero
  BY <1>3, <1>4, <1>5
<1>9. /\ zero - abs_ackno(rcv) <= Reach
      /\ rcv.reassembler.next_index + 1 - zero <= Reach
  <2>1. rcv.reassembler.next_index = 0
    BY <1>4 DEF NewReceiver, NewReassembler
  <2> QED BY <1>4, <2>1, AcknoOf, Constants
<1> HIDE DEF zero, no, seg
<1>10. Sound(pushed)
  BY <1>4, <1>7, PushSubstringSound
<1>11. pushed \in ReassemblerState
  BY <1>10 DEF Sound
<1>12. pushed = push_substring(rcv.reassembler, seg.payload, zero, seg.fin)
  BY <1>3
<1> HIDE DEF pushed
<1>13. /\ rcv' \in ReceiverState /\ rcv'.syn_recived
       /\ rcv'.last_stream_no = zero /\ rcv'.reassembler = pushed
  <2>1. rcv' = Assigned(rcv, isn, zero, pushed)
    BY <1>3, <1>6, <1>8, <1>12 DEF segment_received, Assigned
  <2>2. rcv \in ReceiverState /\ zero \in Nat
    BY <1>4, <1>7
  <2> DEFINE a == Assigned(rcv, isn, zero, pushed)
  <2>3. a \in ReceiverState /\ a.syn_recived /\ a.last_stream_no = zero /\ a.reassembler = pushed
    BY <1>1, <1>11, <2>2, AssignedMembers
  <2> HIDE DEF a
  <2>4. rcv' = a
    BY <2>1 DEF a
  <2> QED BY <2>3, <2>4
<1>14. /\ IInv'
       /\ RightEdge' >= RightEdge /\ abs_ackno(rcv)' >= abs_ackno(rcv)
  BY <1>6, <1>7, <1>9, <1>13, Accepted DEF pushed
<1>15. rcv'.reassembler = push_substring(rcv.reassembler, Run(0, 0), 0, FALSE)
  BY <1>13 DEF pushed, zero, no
<1> QED BY <1>14, <1>15

\* A segment after the SYN: its place is recovered from the 32-bit number, and
\* its bytes go there.  An empty segment has no place that matters.
LEMMA DataStep ==
    ASSUME IInv, NEW abs \in 1 .. StreamLength + 2, NEW len \in 0 .. Capacity + 1,
           NEW is_fin \in BOOLEAN, ReceiveData(abs, len, is_fin)
    PROVE  \E index \in 0 .. StreamLength :
              /\ index + len <= StreamLength
              /\ is_fin => index + len = StreamLength
              /\ rcv'.reassembler = push_substring(rcv.reassembler, Run(index, len), index, is_fin)
              /\ IInv' /\ RightEdge' >= RightEdge /\ abs_ackno(rcv)' >= abs_ackno(rcv)
<1> DEFINE seg == DataSegment(abs, len, is_fin)
           place == abs - 1
           pushed == push_substring(rcv.reassembler, Run(place, len), place, is_fin)
<1>1. /\ rcv.syn_recived /\ arrived' = abs /\ rcv' = segment_received(rcv, seg)
      /\ abs + len <= StreamLength + 1 \/ (len = 0 /\ ~is_fin /\ abs = StreamLength + 2)
      /\ is_fin => abs + len = StreamLength + 1
      /\ abs - abs_ackno(rcv) \in -Reach .. Reach
  BY DEF ReceiveData, InReach
<1>2. /\ seg.seqno = wrap(abs, rcv.isn) /\ seg.fin = is_fin /\ seg.payload = Run(place, len)
  BY DEF DataSegment, EmptySegment
<1>3. /\ rcv \in ReceiverState /\ Sound(rcv.reassembler)
      /\ rcv.reassembler.next_index \notin Stored(rcv.reassembler)
      /\ arrived \in 0 .. StreamLength + 2 /\ rcv.last_stream_no = StreamNo(arrived)
      /\ CheckpointNear(rcv, arrived)
  BY <1>1 DEF IInv, CheckpointNear
<1>4. rcv.isn \in WrappingInt32 /\ rcv.last_stream_no \in Nat
  BY <1>3 DEF ReceiverState
<1> DEFINE next == rcv.reassembler.next_index
           ended == rcv.reassembler.output.end_input
<1>5. /\ next \in Nat
      /\ abs_ackno(rcv) = next + (IF ended THEN 2 ELSE 1)
      /\ ended => next = StreamLength
  BY <1>3, AcknoOf
<1>6. /\ rcv.reassembler.next_index + 1 - abs <= Reach
      /\ abs - abs_ackno(rcv) <= Reach
  BY <1>1, <1>5, Constants
<1>7. unwrap(seg.seqno, rcv.isn, rcv.last_stream_no) = abs
  <2> DEFINE c == rcv.last_stream_no
  <2>1. c \in Nat /\ c + Mod32 < Mod64
    BY <1>3, <1>4, Constants, Widths DEF StreamNo
  <2>2. next + 1 - arrived <= Reach + Capacity /\ arrived - abs_ackno(rcv) <= Reach
    BY <1>3, <1>5 DEF CheckpointNear
  <2>3. abs < c + Half32
    <3>1. abs \in Nat /\ arrived \in Nat /\ c \in Nat /\ Half32 \in Nat /\ arrived <= c + 1
      BY <1>3, <2>1, Constants, Widths DEF StreamNo
    <3>2. abs <= next + 1 + Reach
      <4>1. CASE ended
        BY <1>5, <4>1, Constants
      <4>2. CASE ~ended
        BY <1>1, <1>5, <4>2, Constants
      <4> QED BY <4>1, <4>2
    <3> HIDE DEF c, next
    <3> QED BY <1>5, <2>2, <3>1, <3>2, Constants
  <2>4. c <= abs + Half32
    BY <1>1, <1>3, <1>5, <2>2, Constants, Widths DEF StreamNo
  <2>5. abs \in Nat /\ abs > 0
    BY Constants
  <2> HIDE DEF c
  <2>6. unwrap(wrap(abs, rcv.isn), rcv.isn, c) = abs
    BY <1>4, <2>1, <2>3, <2>4, <2>5, UnwrapRecovers
  <2> QED BY <1>2, <2>6 DEF c
<1>8. place \in Nat /\ U64(abs - 1) = place
  <2>1. abs - 1 \in Nat /\ abs - 1 < Mod64
    BY Constants, Widths
  <2> QED BY <2>1, U64Fits
<1>9. rcv' = Assigned(rcv, rcv.isn, place, pushed)
  <2>1. pushed = push_substring(rcv.reassembler, seg.payload, place, seg.fin)
    BY <1>2
  <2> HIDE DEF pushed, place, seg
  <2> QED BY <1>1, <1>7, <1>8, <2>1 DEF segment_received, Assigned
<1>10. PICK index \in Nat :
         /\ index + len <= StreamLength
         /\ is_fin => index + len = StreamLength
         /\ pushed = push_substring(rcv.reassembler, Run(index, len), index, is_fin)
  <2>1. CASE abs + len <= StreamLength + 1
    <3>1. /\ place + len <= StreamLength
          /\ is_fin => place + len = StreamLength
      BY <1>1, <2>1, Constants
    <3> HIDE DEF place
    <3> QED BY <1>8, <3>1
  <2>2. CASE len = 0 /\ ~is_fin /\ abs = StreamLength + 2
    <3>1. is_fin = FALSE /\ len = 0 /\ 0 \in Nat
      BY <2>2
    <3> HIDE DEF place
    <3>2. pushed = push_substring(rcv.reassembler, Run(0, 0), 0, FALSE)
      BY <1>8, <3>1, EmptyPush
    <3>3. 0 + len <= StreamLength
      BY <3>1, Constants
    <3> QED BY <3>1, <3>2, <3>3
  <2> QED BY <1>1, <2>1, <2>2
<1>11. len \in Nat /\ index \in 0 .. StreamLength /\ abs \in 0 .. StreamLength + 2
  BY <1>10, Constants
<1> HIDE DEF pushed, place, seg
<1>12. pushed \in ReassemblerState
  <2>1. Sound(pushed)
    BY <1>3, <1>10, <1>11, PushSubstringSound
  <2> QED BY <2>1 DEF Sound
<1>13. /\ rcv' \in ReceiverState /\ rcv'.syn_recived
       /\ rcv'.last_stream_no = place /\ rcv'.reassembler = pushed
  <2> DEFINE a == Assigned(rcv, rcv.isn, place, pushed)
  <2>1. a \in ReceiverState /\ a.syn_recived /\ a.last_stream_no = place /\ a.reassembler = pushed
    BY <1>3, <1>4, <1>8, <1>12, AssignedMembers
  <2> HIDE DEF a
  <2>2. rcv' = a
    BY <1>9 DEF a
  <2> QED BY <2>1, <2>2
<1>14. rcv'.last_stream_no = StreamNo(abs)
  BY <1>13 DEF StreamNo, place
<1>15. IInv' /\ RightEdge' >= RightEdge /\ abs_ackno(rcv)' >= abs_ackno(rcv)
  BY <1>1, <1>6, <1>10, <1>11, <1>13, <1>14, Accepted
<1> QED BY <1>10, <1>11, <1>13, <1>15

\* The application's pop_output opens the window and leaves the ackno and the
\* checkpoint alone.
LEMMA ReadStep ==
    ASSUME IInv, NEW len \in 1 .. Capacity, Read(len)
    PROVE  /\ rcv'.reassembler = AfterRead(rcv.reassembler, len)
           /\ IInv' /\ RightEdge' >= RightEdge /\ abs_ackno(rcv)' >= abs_ackno(rcv)
<1> DEFINE old == rcv.reassembler
           new == AfterRead(old, len)
<1>1. /\ rcv \in ReceiverState /\ Sound(old) /\ old.next_index \notin Stored(old)
      /\ arrived \in 0 .. StreamLength + 2 /\ rcv.last_stream_no = StreamNo(arrived)
      /\ IF rcv.syn_recived THEN CheckpointNear(rcv, arrived)
         ELSE rcv = NewReceiver(Capacity) /\ arrived = 0
  BY DEF IInv
<1>2. /\ len \in Nat /\ len > 0 /\ len <= Len(old.output.buffer) /\ arrived' = arrived
      /\ Len(old.output.buffer) \in Nat
  BY <1>1, Constants, SoundTypes, SMTT(30) DEF Read, stream_out
<1>3. rcv.syn_recived
  <2>1. ASSUME rcv = NewReceiver(Capacity) PROVE Len(old.output.buffer) = 0
    BY <2>1 DEF NewReceiver, NewReassembler, NewByteStream
  <2> QED BY <1>1, <1>2, <2>1
<1>4. /\ Sound(new) /\ new.next_index \notin Stored(new)
      /\ new.next_index + remaining_capacity(new.output)
           = old.next_index + remaining_capacity(old.output) + len
      /\ new.next_index = old.next_index
      /\ new.output.end_input = old.output.end_input
  BY <1>1, <1>2, ReadSound
<1>5. /\ rcv' \in ReceiverState /\ rcv'.syn_recived = rcv.syn_recived
      /\ rcv'.last_stream_no = rcv.last_stream_no /\ rcv'.reassembler = new
  <2>1. rcv' = [rcv EXCEPT !.reassembler = new]
    BY <1>1 DEF Read, AfterRead, ReceiverState
  <2>2. new \in ReassemblerState
    BY <1>4 DEF Sound
  <2> HIDE DEF new
  <2> QED BY <1>1, <2>1, <2>2 DEF ReceiverState
<1> HIDE DEF new
<1>6. abs_ackno(rcv)' = abs_ackno(rcv)
  BY <1>4, <1>5 DEF abs_ackno, stream_out
<1>7. abs_ackno(rcv) \in Nat
  BY <1>1, AcknoOf
<1>8. RightEdge' >= RightEdge
  <2>1. PICK a, b, d \in Nat :
          /\ a = old.next_index /\ b = remaining_capacity(old.output)
          /\ d = remaining_capacity(new.output)
    BY <1>1, <1>4, SoundTypes
  <2>2. d = b + len
    BY <1>2, <1>4, <2>1, SMTT(30)
  <2>3. RightEdge = abs_ackno(rcv) + b /\ RightEdge' = abs_ackno(rcv) + d
    BY <1>5, <1>6, <2>1 DEF RightEdge, window_size, stream_out
  <2> QED BY <1>2, <1>7, <2>1, <2>2, <2>3
<1>9. CheckpointNear(rcv, arrived)'
  BY <1>1, <1>2, <1>3, <1>4, <1>5, <1>6 DEF CheckpointNear
<1>10. IInv'
  BY <1>1, <1>2, <1>3, <1>4, <1>5, <1>9 DEF IInv
<1> QED BY <1>5, <1>6, <1>7, <1>8, <1>10 DEF new

\* A segment before the SYN is dropped.
LEMMA BeforeSynStep ==
    ASSUME ReceiveBeforeSyn
    PROVE  UNCHANGED vars
<1>1. ~rcv.syn_recived /\ ~DataSegment(1, 1, FALSE).syn
  BY DEF ReceiveBeforeSyn, DataSegment, EmptySegment
<1> QED BY <1>1 DEF ReceiveBeforeSyn, segment_received, vars

\* Every step keeps the invariant and keeps what was promised.
LEMMA StepIInv ==
    ASSUME ~LateSyn
    PROVE  IInv /\ [Next]_vars =>
             /\ IInv'
             /\ [RightEdge' >= RightEdge /\ abs_ackno(rcv)' >= abs_ackno(rcv)]_vars
<1> SUFFICES ASSUME IInv, [Next]_vars
             PROVE  /\ IInv'
                    /\ \/ UNCHANGED vars
                       \/ RightEdge' >= RightEdge /\ abs_ackno(rcv)' >= abs_ackno(rcv)
  OBVIOUS
<1>1. ASSUME UNCHANGED vars PROVE IInv'
  BY <1>1 DEF vars, IInv, CheckpointNear, abs_ackno, stream_out
<1>2. ASSUME NEW isn \in Isns, ReceiveSyn(isn)
      PROVE  IInv' /\ RightEdge' >= RightEdge /\ abs_ackno(rcv)' >= abs_ackno(rcv)
  <2>1. ~rcv.syn_recived
    BY <1>2 DEF ReceiveSyn
  <2> QED BY <1>2, <2>1, SynStep
<1>3. ASSUME NEW abs \in 1 .. StreamLength + 2, NEW len \in 0 .. Capacity + 1,
             NEW is_fin \in BOOLEAN, ReceiveData(abs, len, is_fin)
      PROVE  IInv' /\ RightEdge' >= RightEdge /\ abs_ackno(rcv)' >= abs_ackno(rcv)
  BY <1>3, DataStep
<1>4. ASSUME NEW len \in 1 .. Capacity, Read(len)
      PROVE  IInv' /\ RightEdge' >= RightEdge /\ abs_ackno(rcv)' >= abs_ackno(rcv)
  BY <1>4, ReadStep
<1>5. ASSUME ReceiveBeforeSyn PROVE UNCHANGED vars
  BY <1>5, BeforeSynStep
<1> QED BY <1>1, <1>2, <1>3, <1>4, <1>5 DEF Next, ReadSome

\* The invariant implies what the runs check.
LEMMA IInvImplies == IInv => StreamNoRecovered /\ InOrderDelivery /\ UnwrapIsClosest
<1> SUFFICES ASSUME IInv PROVE StreamNoRecovered /\ InOrderDelivery /\ UnwrapIsClosest
  OBVIOUS
<1>1. StreamNoRecovered
  BY DEF IInv, StreamNoRecovered, StreamNo
<1>2. InOrderDelivery
  BY DEF IInv, Sound, InOrderDelivery, stream_out
<1>3. UnwrapIsClosest
  <2> SUFFICES ASSUME NEW n \in WrappingInt32, NEW checkpoint, checkpoint = rcv.last_stream_no,
                      NEW u, u = unwrap(n, rcv.isn, checkpoint),
                      ~(n = rcv.isn /\ 0 < checkpoint /\ checkpoint < Half32)
               PROVE  /\ u \in 0 .. Mod64 - 1 /\ wrap(u, rcv.isn) = n
                      /\ \A v \in 0 .. Mod64 - 1 : wrap(v, rcv.isn) = n =>
                             Distance(u, checkpoint) <= Distance(v, checkpoint)
    BY DEF UnwrapIsClosest
  <2>1. rcv.isn \in WrappingInt32 /\ checkpoint \in Nat
    BY DEF IInv, ReceiverState
  <2>2. checkpoint + Mod32 < Mod64
    BY Constants, Widths DEF IInv, StreamNo
  <2>3. 0 .. Mod64 - 1 \subseteq Nat
    BY Widths
  <2> QED BY <2>1, <2>2, <2>3, UnwrapClosest
<1> QED BY <1>1, <1>2, <1>3

-------------------------------------------------------------------------------
\* segment_received finds the place of every segment, however far the stream has
\* gone and however often the sequence numbers have wrapped.
THEOREM PlacesRecovered ==
    ASSUME ~LateSyn
    PROVE  Spec => []StreamNoRecovered
<1>1. IInv /\ [Next]_vars => IInv'
  BY StepIInv
<1> QED BY <1>1, InitIInv, IInvImplies, PTL DEF Spec

\* The inbound stream is a prefix of the peer's stream, whatever the order of the
\* segments and however often they come.
THEOREM DeliversInOrder ==
    ASSUME ~LateSyn
    PROVE  Spec => []InOrderDelivery
<1>1. IInv /\ [Next]_vars => IInv'
  BY StepIInv
<1> QED BY <1>1, InitIInv, IInvImplies, PTL DEF Spec

\* From every checkpoint the receiver passes through, unwrap picks the closest
\* number for each of the 2^32 values a header can carry, but for the SYN's.
THEOREM PicksClosest ==
    ASSUME ~LateSyn
    PROVE  Spec => []UnwrapIsClosest
<1>1. IInv /\ [Next]_vars => IInv'
  BY StepIInv
<1> QED BY <1>1, InitIInv, IInvImplies, PTL DEF Spec

\* No segment and no read takes back an acknowledgment or a part of the window.
THEOREM KeepsPromises ==
    ASSUME ~LateSyn
    PROVE  Spec => PromisesKept
<1>1. IInv /\ [Next]_vars =>
         /\ IInv'
         /\ [RightEdge' >= RightEdge /\ abs_ackno(rcv)' >= abs_ackno(rcv)]_vars
  BY StepIInv
<1> QED BY <1>1, InitIInv, PTL DEF Spec, PromisesKept

Reassembler == INSTANCE StreamReassemblerSpec WITH r <- rcv.reassembler

\* The operators of the instance are those of this module.
LEMMA SameOperators ==
    /\ Reassembler!NewReassembler(Capacity) = NewReassembler(Capacity)
    /\ \A x, data, index, is_eof :
          Reassembler!push_substring(x, data, index, is_eof)
            = push_substring(x, data, index, is_eof)
    /\ \A s, len : Reassembler!pop_output(s, len) = pop_output(s, len)
    /\ \A index, len : Reassembler!Run(index, len) = Run(index, len)
<1>1. Reassembler!NewReassembler(Capacity) = NewReassembler(Capacity)
  BY DEF Reassembler!NewReassembler, NewReassembler, Reassembler!NewByteStream, NewByteStream
<1>2. \A s, len : Reassembler!pop_output(s, len) = pop_output(s, len)
  BY DEF Reassembler!pop_output, pop_output, Reassembler!min, min
<1>3. \A index, len : Reassembler!Run(index, len) = Run(index, len)
  BY DEF Reassembler!Run, Run
<1>4. \A s, data : Reassembler!write(s, data) = write(s, data)
  BY DEF Reassembler!write, write, Reassembler!min, min,
         Reassembler!remaining_capacity, remaining_capacity
<1>5. \A s : Reassembler!end_input(s) = end_input(s)
  BY DEF Reassembler!end_input, end_input
<1>6. \A x : Reassembler!Stored(x) = Stored(x)
  BY DEF Reassembler!Stored, Stored
<1>7. \A x : Reassembler!FirstGap(x) = FirstGap(x)
  BY Zenon DEF Reassembler!FirstGap, FirstGap, Reassembler!Stored, Stored
<1>8. \A s : Reassembler!remaining_capacity(s) = remaining_capacity(s)
  BY DEF Reassembler!remaining_capacity, remaining_capacity
<1>9. \A x, data, index : Reassembler!Fitting(x, data, index) = Fitting(x, data, index)
  BY Zenon DEF Reassembler!Fitting, Fitting, Reassembler!Stored, Stored,
         Reassembler!remaining_capacity, remaining_capacity
<1>10. ASSUME NEW x, NEW data, NEW index, NEW free
       PROVE  Reassembler!fit_in_reassembler(x, data, index, free)
                = fit_in_reassembler(x, data, index, free)
  BY Zenon DEF Reassembler!fit_in_reassembler, fit_in_reassembler,
     Reassembler!Fitting, Fitting, Reassembler!Stored, Stored,
     Reassembler!remaining_capacity, remaining_capacity,
     Reassembler!Cardinality, Cardinality
<1>11. ASSUME NEW x
       PROVE  Reassembler!push_into_output(x) = push_into_output(x)
  <2> DEFINE gap == FirstGap(x)
             rest == Stored(x) \ (x.next_index .. gap - 1)
             run == [j \in 1 .. gap - x.next_index |-> x.reassembler[x.next_index + j - 1]]
  <2>1. /\ Reassembler!FirstGap(x) = FirstGap(x)
        /\ Reassembler!Stored(x) = Stored(x)
    BY <1>6, <1>7
  <2>2. Reassembler!write(x.output, run) = write(x.output, run)
    BY <1>4
  <2>3. Reassembler!end_input(write(x.output, run)) = end_input(write(x.output, run))
    BY <1>5
  <2> QED BY <2>1, <2>2, <2>3, Zenon DEF Reassembler!push_into_output, push_into_output
<1>12. ASSUME NEW x, NEW data, NEW index, NEW is_eof
       PROVE  Reassembler!push_substring(x, data, index, is_eof)
                = push_substring(x, data, index, is_eof)
  <2> DEFINE noted == [x EXCEPT !.eof = x.eof \/ is_eof,
                                !.eof_index = IF is_eof THEN U64(index + Len(data))
                                              ELSE x.eof_index]
             free == U64(remaining_capacity(x.output) - unassembled_bytes(x))
             fitted == fit_in_reassembler(noted, data, index, free)
  <2>1. /\ Reassembler!U64(remaining_capacity(x.output) - unassembled_bytes(x)) = free
        /\ Reassembler!U64(index + Len(data)) = U64(index + Len(data))
        /\ Reassembler!remaining_capacity(x.output) = remaining_capacity(x.output)
        /\ Reassembler!unassembled_bytes(x) = unassembled_bytes(x)
    BY <1>6, <1>8 DEF Reassembler!U64, U64, Reassembler!unassembled_bytes, unassembled_bytes,
           Reassembler!Cardinality, Cardinality
  <2>2. /\ Reassembler!fit_in_reassembler(noted, data, index, free) = fitted
        /\ Reassembler!push_into_output(fitted) = push_into_output(fitted)
    BY <1>10, <1>11
  <2>3. push_substring(x, data, index, is_eof)
          = IF free = 0 THEN noted ELSE push_into_output(fitted)
    BY DEF push_substring
  <2>4. Reassembler!push_substring(x, data, index, is_eof)
          = IF free = 0 THEN noted
            ELSE Reassembler!push_into_output(
                     Reassembler!fit_in_reassembler(noted, data, index, free))
    BY <2>1, Zenon DEF Reassembler!push_substring
  <2> HIDE DEF fitted
  <2> QED BY <2>2, <2>3, <2>4
<1> QED BY <1>1, <1>2, <1>3, <1>12

\* A push of the abstract reassembler, in the operators of this module.
LEMMA AbstractPush ==
    ASSUME NEW index \in 0 .. StreamLength, NEW len \in 0 .. StreamLength,
           NEW is_eof \in BOOLEAN,
           index + len <= StreamLength, is_eof => index + len = StreamLength,
           rcv'.reassembler = push_substring(rcv.reassembler, Run(index, len), index, is_eof)
    PROVE  Reassembler!Next
<1>1. Reassembler!push_substring(rcv.reassembler, Reassembler!Run(index, len), index, is_eof)
        = push_substring(rcv.reassembler, Run(index, len), index, is_eof)
  BY SameOperators, Zenon
<1>2. Reassembler!Push(index, len, is_eof)
  BY <1>1 DEF Reassembler!Push
<1> QED BY <1>2 DEF Reassembler!Next

\* Every step of the receiver is a push_substring of a part of the peer's stream,
\* a read, or nothing, as far as its reassembler is concerned.
LEMMA StepRefines ==
    ASSUME ~LateSyn
    PROVE  IInv /\ [Next]_vars => [Reassembler!Next]_(rcv.reassembler)
<1> SUFFICES ASSUME IInv, [Next]_vars, rcv'.reassembler # rcv.reassembler
             PROVE  Reassembler!Next
  OBVIOUS
<1>1. ASSUME UNCHANGED vars PROVE FALSE
  BY <1>1 DEF vars
<1>2. ASSUME NEW isn \in Isns, ReceiveSyn(isn) PROVE Reassembler!Next
  <2> DEFINE zero == 0
             no == FALSE
  <2>1. ~rcv.syn_recived
    BY <1>2 DEF ReceiveSyn
  <2>2. rcv'.reassembler = push_substring(rcv.reassembler, Run(zero, zero), zero, no)
    BY <1>2, <2>1, SynStep
  <2>3. /\ zero \in 0 .. StreamLength /\ zero + zero <= StreamLength
        /\ no \in BOOLEAN /\ ~no
    BY Constants
  <2> HIDE DEF zero, no
  <2> QED BY <2>2, <2>3, AbstractPush
<1>3. ASSUME NEW abs \in 1 .. StreamLength + 2, NEW len \in 0 .. Capacity + 1,
             NEW is_fin \in BOOLEAN, ReceiveData(abs, len, is_fin)
      PROVE  Reassembler!Next
  <2>1. PICK index \in 0 .. StreamLength :
          /\ index + len <= StreamLength
          /\ is_fin => index + len = StreamLength
          /\ rcv'.reassembler = push_substring(rcv.reassembler, Run(index, len), index, is_fin)
    BY <1>3, DataStep
  <2>2. len \in 0 .. StreamLength
    BY <2>1, Constants
  <2> QED BY <2>1, <2>2, AbstractPush
<1>4. ASSUME NEW len \in 1 .. Capacity, Read(len) PROVE Reassembler!Next
  <2>1. rcv'.reassembler = AfterRead(rcv.reassembler, len)
    BY <1>4, ReadStep
  <2>2. Reassembler!pop_output(rcv.reassembler.output, len) = pop_output(rcv.reassembler.output, len)
    BY SameOperators
  <2>3. Len(rcv.reassembler.output.buffer) >= len
    BY <1>4 DEF Read, stream_out
  <2>4. Reassembler!Read(len)
    BY <2>1, <2>2, <2>3 DEF Reassembler!Read, AfterRead
  <2> QED BY <2>4 DEF Reassembler!Next
<1>5. ASSUME ReceiveBeforeSyn PROVE FALSE
  BY <1>1, <1>5, BeforeSynStep
<1> QED BY <1>1, <1>2, <1>3, <1>4, <1>5 DEF Next, ReadSome

\* The receiver implements the reassembler's specification: behind the 32-bit
\* numbers, the SYN, the FIN and the acknowledgments, its stream is what the
\* reassembler makes of substrings pushed at their true indices.
THEOREM ImplementsReassembler ==
    ASSUME ~LateSyn
    PROVE  Spec => Reassembler!Spec
<1>1. Init => Reassembler!Init
  BY SameOperators DEF Init, Reassembler!Init, NewReceiver
<1>2. IInv /\ [Next]_vars => IInv'
  BY StepIInv
<1>3. IInv /\ [Next]_vars => [Reassembler!Next]_(rcv.reassembler)
  BY StepRefines
<1> QED BY <1>1, <1>2, <1>3, InitIInv, PTL DEF Spec, Reassembler!Spec
================================================================================
