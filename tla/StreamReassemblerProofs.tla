------------------------ MODULE StreamReassemblerProofs ------------------------
(***************************************************************************)
(* The safety properties of StreamReassemblerSpec for every capacity,      *)
(* every stream length and every width of size_t.                          *)
(***************************************************************************)
EXTENDS StreamReassemblerSpec, StreamReassemblerLemmas

\* The inductive invariant: between two calls, the next expected byte is not
\* stored, because push_into_output has moved it to the output.
IInv == Sound(r) /\ r.next_index \notin Stored(r)

\* The new reassembler satisfies the invariant.
LEMMA InitIInv == Init => IInv
  BY NewSound DEF Init, IInv

\* Every step keeps the invariant and does not move the right edge to the left.
LEMMA StepIInv == IInv /\ [Next]_r => IInv' /\ (r' # r => RightEdge' >= RightEdge)
<1> SUFFICES ASSUME IInv, [Next]_r
             PROVE  IInv' /\ (r' # r => RightEdge' >= RightEdge)
  OBVIOUS
<1>1. Sound(r) /\ r.next_index \notin Stored(r)
  BY DEF IInv
<1>2. StreamLength \in Nat /\ Capacity \in Nat /\ r.next_index \in Nat
      /\ remaining_capacity(r.output) \in Nat
  BY <1>1, SoundTypes
<1>3. ASSUME NEW index \in 0 .. StreamLength, NEW len \in 0 .. StreamLength,
             NEW is_eof \in BOOLEAN, Push(index, len, is_eof)
      PROVE  IInv' /\ RightEdge' >= RightEdge
  <2>1. /\ index \in Nat /\ len \in Nat /\ index + len <= StreamLength
        /\ is_eof => index + len = StreamLength
        /\ r' = push_substring(r, Run(index, len), index, is_eof)
    BY <1>2, <1>3 DEF Push
  <2>2. /\ Sound(r') /\ r'.next_index \notin Stored(r')
        /\ r'.next_index + remaining_capacity(r'.output)
             = r.next_index + remaining_capacity(r.output)
    BY <1>1, <2>1, PushSubstringSound
  <2>3. IInv'
    BY <2>2 DEF IInv, Sound, Stored
  <2> QED
    BY <1>2, <2>2, <2>3 DEF RightEdge
<1>4. ASSUME NEW len \in 1 .. Capacity, Read(len)
      PROVE  IInv' /\ RightEdge' >= RightEdge
  <2>1. len \in Nat /\ len <= Len(r.output.buffer)
        /\ r' = AfterRead(r, len)
    BY <1>1, <1>2, <1>4, SoundTypes DEF Read, AfterRead
  <2>2. /\ Sound(r') /\ r'.next_index \notin Stored(r')
        /\ r'.next_index + remaining_capacity(r'.output)
             = r.next_index + remaining_capacity(r.output) + len
    BY <1>1, <2>1, ReadSound
  <2>3. IInv'
    BY <2>2 DEF IInv, Sound, Stored
  <2> QED
    BY <1>2, <2>1, <2>2, <2>3 DEF RightEdge
<1>5. CASE UNCHANGED r
  BY <1>1, <1>5 DEF IInv, Sound, Stored
<1> QED
  BY <1>3, <1>4, <1>5 DEF Next

\* Every stored byte lies in the window, so together with the buffered ones they
\* fit in the capacity; and a stream that has ended has nothing left to store.
LEMMA IInvImplies ==
    IInv => TypeOK /\ InOrderDelivery /\ StoredInWindow /\ MemoryBound /\ EndsExactly
<1> SUFFICES ASSUME IInv
             PROVE  TypeOK /\ InOrderDelivery /\ StoredInWindow /\ MemoryBound /\ EndsExactly
  OBVIOUS
<1>1. Sound(r) /\ r.next_index \notin Stored(r)
  BY DEF IInv
<1>2. /\ Stored(r) \subseteq 0 .. StreamLength - 1
      /\ r.next_index \in Nat /\ Len(r.output.buffer) \in Nat
      /\ remaining_capacity(r.output) \in Nat
      /\ remaining_capacity(r.output) = Capacity - Len(r.output.buffer)
      /\ Capacity \in Nat /\ StreamLength \in Nat
  BY <1>1, SoundTypes
<1>3. TypeOK /\ InOrderDelivery
  <2>1. InOrderDelivery /\ r.output.capacity = Capacity
    BY <1>1 DEF InOrderDelivery, Sound
  <2>2. /\ Stored(r) \subseteq 0 .. StreamLength - 1
        /\ r.reassembler \in [Stored(r) -> Byte]
        /\ r.next_index \in Nat /\ r.next_index <= StreamLength
        /\ r.output \in ByteStreamState
        /\ r.eof \in BOOLEAN /\ r.eof_index \in 0 .. StreamLength
    BY <1>1, SoundTypes
  <2>3. r.next_index \in 0 .. StreamLength
    BY <1>2, <2>2
  <2> QED
    BY <2>1, <2>2, <2>3 DEF TypeOK
<1>4. StoredInWindow
  BY <1>1, <1>2 DEF StoredInWindow, Sound
<1>5. MemoryBound
  <2> DEFINE window == r.next_index .. r.next_index + remaining_capacity(r.output) - 1
  <2>1. /\ IsFiniteSet(window)
        /\ Cardinality(window) = remaining_capacity(r.output)
    <3> DEFINE a == r.next_index
               b == r.next_index + remaining_capacity(r.output) - 1
    <3>1. a \in Int /\ b \in Int
      BY <1>2
    <3>2. /\ b - a + 1 = remaining_capacity(r.output)
          /\ a > b => remaining_capacity(r.output) = 0
      BY <1>2
    <3> HIDE DEF a, b
    <3>3. IsFiniteSet(a .. b) /\ Cardinality(a .. b) = IF a > b THEN 0 ELSE b - a + 1
      BY <3>1, FS_Interval
    <3> QED
      BY <3>2, <3>3 DEF a, b
  <2>2. Stored(r) \subseteq window
    BY <1>2, <1>4 DEF StoredInWindow
  <2>3. /\ Cardinality(Stored(r)) <= Cardinality(window)
        /\ Cardinality(Stored(r)) \in Nat
    BY <2>1, <2>2, FS_Subset, FS_CardinalityType
  <2> QED
    BY <1>2, <2>1, <2>3 DEF MemoryBound, unassembled_bytes
<1>6. EndsExactly
  <2> SUFFICES ASSUME r.output.end_input
               PROVE  r.output.bytes_written = StreamLength /\ Stored(r) = {}
    BY DEF EndsExactly
  <2>1. r.next_index = StreamLength /\ r.next_index = r.output.bytes_written
    BY <1>1 DEF Sound
  <2>2. \A i \in Stored(r) : StreamLength <= i /\ i <= StreamLength - 1 /\ i \in Nat
    BY <1>1, <1>2, <2>1 DEF Sound
  <2> QED
    BY <1>2, <2>1, <2>2
<1> QED
  BY <1>3, <1>4, <1>5, <1>6

\* The members of the reassembler keep their types in every behavior.
THEOREM TypeCorrect == Spec => []TypeOK
<1>1. Spec => []IInv
  BY InitIInv, StepIInv, PTL DEF Spec
<1> QED
  BY <1>1, IInvImplies, PTL

\* However the substrings overlap, repeat and overtake each other, the output of
\* push_substring is a prefix of the peer's stream.
THEOREM DeliversInOrder == Spec => []InOrderDelivery
<1>1. Spec => []IInv
  BY InitIInv, StepIInv, PTL DEF Spec
<1> QED
  BY <1>1, IInvImplies, PTL

\* push_substring ends the output, if it ends it, with the last byte of the
\* peer's stream and with nothing left in the stored substrings.
THEOREM EndsWithStream == Spec => []EndsExactly
<1>1. Spec => []IInv
  BY InitIInv, StepIInv, PTL DEF Spec
<1> QED
  BY <1>1, IInvImplies, PTL

\* push_substring stores nothing outside the space the output has left.
THEOREM StoresInWindow == Spec => []StoredInWindow
<1>1. Spec => []IInv
  BY InitIInv, StepIInv, PTL DEF Spec
<1> QED
  BY <1>1, IInvImplies, PTL

\* push_substring never holds more than the capacity, stored and unread bytes
\* together.
THEOREM BoundedMemory == Spec => []MemoryBound
<1>1. Spec => []IInv
  BY InitIInv, StepIInv, PTL DEF Spec
<1> QED
  BY <1>1, IInvImplies, PTL

\* Neither push_substring nor reading takes back a part of the window that was
\* already promised to the peer.
THEOREM NeverShrinks == Spec => WindowNeverShrinks
<1>1. Spec => []IInv
  BY InitIInv, StepIInv, PTL DEF Spec
<1>2. IInv /\ [Next]_r => [RightEdge' >= RightEdge]_r
  BY StepIInv
<1> QED
  BY <1>1, <1>2, PTL DEF Spec, WindowNeverShrinks
===============================================================================
