------------------------ MODULE StreamReassemblerLemmas ------------------------
(***************************************************************************)
(* What push_substring and pop_output do to a reassembler that holds bytes *)
(* of one peer's stream, for every capacity, every stream length and every *)
(* width of size_t.                                                        *)
(***************************************************************************)
EXTENDS PeerStream, ByteStreamProofs, FiniteSetTheorems, WellFoundedInduction,
        NaturalsInduction

ReassemblerState ==
    [reassembler : UNION {[D -> Byte] : D \in SUBSET (0 .. StreamLength - 1)},
     next_index : 0 .. StreamLength, output : ByteStreamState,
     eof : BOOLEAN, eof_index : 0 .. StreamLength]

(***************************************************************************)
(* What every reassembler satisfies, also between fit_in_reassembler and   *)
(* push_into_output, when the next expected byte may be among the stored   *)
(* ones.                                                                   *)
(***************************************************************************)
Sound(x) ==
    /\ x \in ReassemblerState
    /\ x.output.capacity = Capacity
    /\ Len(x.output.buffer) <= Capacity
    /\ InOrder(x.output)
    /\ x.next_index = x.output.bytes_written
    /\ \A i \in Stored(x) : /\ x.reassembler[i] = i
                            /\ x.next_index <= i
                            /\ i < x.next_index + remaining_capacity(x.output)
    /\ x.output.end_input => x.next_index = StreamLength
    /\ x.eof => x.eof_index = StreamLength

\* The facts about types that the proofs below use.
LEMMA SoundTypes ==
    ASSUME NEW x, Sound(x)
    PROVE  /\ Stored(x) \subseteq 0 .. StreamLength - 1
           /\ x.reassembler \in [Stored(x) -> Byte]
           /\ x.next_index \in Nat /\ x.next_index <= StreamLength
           /\ x.output \in ByteStreamState
           /\ Len(x.output.buffer) \in Nat
           /\ remaining_capacity(x.output) \in Nat
           /\ remaining_capacity(x.output) = Capacity - Len(x.output.buffer)
           /\ remaining_capacity(x.output) <= Capacity
           /\ x.eof \in BOOLEAN /\ x.eof_index \in 0 .. StreamLength
           /\ Capacity \in Nat /\ StreamLength \in Nat
<1>1. Capacity \in Nat /\ StreamLength \in Nat
  BY ReassemblerAssumption
<1>2. x \in ReassemblerState /\ x.output.capacity = Capacity
      /\ Len(x.output.buffer) <= Capacity
  BY DEF Sound
<1>3. PICK D \in SUBSET (0 .. StreamLength - 1) : x.reassembler \in [D -> Byte]
  BY <1>2 DEF ReassemblerState
<1>4. Stored(x) = D
  BY <1>3 DEF Stored
<1>5. /\ x.next_index \in 0 .. StreamLength
      /\ x.output \in ByteStreamState
      /\ x.eof \in BOOLEAN /\ x.eof_index \in 0 .. StreamLength
  BY <1>2 DEF ReassemblerState
<1>6. x.output.buffer \in Seq(Byte)
  BY <1>5 DEF ByteStreamState
<1>7. Len(x.output.buffer) \in Nat
  BY <1>6
<1>8. /\ remaining_capacity(x.output) = Capacity - Len(x.output.buffer)
      /\ remaining_capacity(x.output) \in Nat
      /\ remaining_capacity(x.output) <= Capacity
  BY <1>1, <1>2, <1>7 DEF remaining_capacity
<1> QED
  BY <1>1, <1>3, <1>4, <1>5, <1>7, <1>8

\* Run(index, len) holds each byte at its own place.
LEMMA RunBytes ==
    ASSUME NEW index \in Nat, NEW len \in Nat
    PROVE  /\ Run(index, len) \in Seq(Byte)
           /\ Len(Run(index, len)) = len
           /\ \A i \in index .. index + len - 1 : Run(index, len)[i - index + 1] = i
<1>1. Run(index, len) \in [1 .. len -> Nat]
  BY DEF Run
<1>2. Run(index, len) \in Seq(Byte) /\ Len(Run(index, len)) = len
  BY <1>1 DEF Byte
<1>3. \A i \in index .. index + len - 1 : Run(index, len)[i - index + 1] = i
  BY DEF Run
<1> QED
  BY <1>2, <1>3

\* The new bytes that fit lie in the part of data inside the space that is left.
LEMMA FittingBounds ==
    ASSUME NEW x, NEW data, NEW index,
           NEW i \in Fitting(x, data, index)
    PROVE  /\ i \in index .. index + Len(data) - 1
           /\ x.next_index <= i
           /\ i < x.next_index + remaining_capacity(x.output)
<1>1. CASE index + Len(data) >= Mod64
  BY <1>1 DEF Fitting
<1>2. CASE ~(index + Len(data) >= Mod64)
  BY <1>2 DEF Fitting
<1> QED
  BY <1>1, <1>2

\* fit_in_reassembler stores bytes of the peer's stream at their own indices
\* inside the space that is left, and touches nothing else.
LEMMA FitSound ==
    ASSUME NEW x, Sound(x),
           NEW index \in Nat, NEW len \in Nat, index + len <= StreamLength,
           NEW free,
           NEW y, y = fit_in_reassembler(x, Run(index, len), index, free)
    PROVE  Sound(y) /\ y.output = x.output /\ y.next_index = x.next_index
<1> DEFINE data == Run(index, len)
           fitting == Fitting(x, data, index)
           kept == {i \in fitting : Cardinality({j \in fitting : j < i}) < free}
           map == [i \in Stored(x) \cup kept |->
                       IF i \in kept THEN data[i - index + 1] ELSE x.reassembler[i]]
<1>1. y = [x EXCEPT !.reassembler = map]
  BY DEF fit_in_reassembler
<1>2. /\ \A i \in kept : /\ i \in index .. index + len - 1
                         /\ x.next_index <= i
                         /\ i < x.next_index + remaining_capacity(x.output)
  <2> SUFFICES ASSUME NEW i \in kept
               PROVE  /\ i \in index .. index + len - 1
                      /\ x.next_index <= i
                      /\ i < x.next_index + remaining_capacity(x.output)
    OBVIOUS
  <2>1. i \in Fitting(x, data, index)
    OBVIOUS
  <2>2. Len(data) = len
    BY RunBytes
  <2> HIDE DEF data
  <2> QED
    BY <2>1, <2>2, FittingBounds
<1> HIDE DEF kept, fitting
<1>3. \A i \in kept : data[i - index + 1] = i
  BY <1>2, RunBytes
<1>4. /\ Stored(x) \subseteq 0 .. StreamLength - 1
      /\ x.reassembler \in [Stored(x) -> Byte]
      /\ StreamLength \in Nat
  BY SoundTypes
<1>5. Stored(x) \cup kept \in SUBSET (0 .. StreamLength - 1)
  BY <1>2, <1>4
<1> HIDE DEF data
<1>6. \A i \in Stored(x) \cup kept : map[i] = i
  BY <1>3 DEF Sound
<1>7. map \in [Stored(x) \cup kept -> Byte]
  BY <1>3, <1>4, <1>5, <1>6 DEF Byte
<1>8. map \in UNION {[D -> Byte] : D \in SUBSET (0 .. StreamLength - 1)}
  BY <1>5, <1>7
<1>9. DOMAIN map = Stored(x) \cup kept
  OBVIOUS
<1> HIDE DEF map
<1>10. x \in ReassemblerState
  BY DEF Sound
<1>11. /\ y \in ReassemblerState
       /\ y.reassembler = map
       /\ y.output = x.output /\ y.next_index = x.next_index
       /\ y.eof = x.eof /\ y.eof_index = x.eof_index
  BY <1>1, <1>8, <1>10 DEF ReassemblerState
<1>12. Stored(y) = Stored(x) \cup kept
  BY <1>9, <1>11 DEF Stored
<1>13. \A i \in Stored(y) : /\ y.reassembler[i] = i
                            /\ y.next_index <= i
                            /\ i < y.next_index + remaining_capacity(y.output)
  BY <1>2, <1>6, <1>11, <1>12 DEF Sound
<1> QED
  BY <1>11, <1>13 DEF Sound

\* push_into_output always finds the end of the run of bytes that can be written,
\* and there is space for all of them.
LEMMA FirstGapBounds ==
    ASSUME NEW x, Sound(x)
    PROVE  /\ FirstGap(x) \in Nat
           /\ x.next_index <= FirstGap(x)
           /\ FirstGap(x) <= x.next_index + remaining_capacity(x.output)
           /\ FirstGap(x) <= StreamLength
           /\ FirstGap(x) \notin Stored(x)
           /\ (x.next_index .. FirstGap(x) - 1) \subseteq Stored(x)
<1> DEFINE T == {g \in Nat : x.next_index <= g /\ g \notin Stored(x)}
           end == x.next_index + remaining_capacity(x.output)
           IsGap(g) == g \notin Stored(x) /\ (x.next_index .. g - 1) \subseteq Stored(x)
<1>1. /\ x.next_index \in Nat /\ x.next_index <= StreamLength /\ StreamLength \in Nat
      /\ remaining_capacity(x.output) \in Nat /\ remaining_capacity(x.output) <= Capacity
      /\ Stored(x) \subseteq 0 .. StreamLength - 1 /\ Capacity \in Nat
      /\ x.output.capacity = Capacity
  BY SoundTypes DEF Sound
<1>2. end \in T
  <2>1. end \notin Stored(x)
    BY <1>1 DEF Sound
  <2> QED
    BY <1>1, <2>1
<1>3. PICK g \in T : \A h \in T : ~(<<h, g>> \in OpToRel(<, Nat))
  <2>1. IsWellFoundedOn(OpToRel(<, Nat), Nat)
    BY NatLessThanWellFounded
  <2>2. T \subseteq Nat /\ T # {}
    BY <1>2
  <2> HIDE DEF T
  <2> QED
    BY <2>1, <2>2, WFMin, Zenon
<1>4. ASSUME NEW h \in T
      PROVE  g <= h
  <2>1. g \in Nat /\ h \in Nat
    OBVIOUS
  <2>2. h < g => <<h, g>> \in OpToRel(<, Nat)
    BY <2>1, Zenon DEF OpToRel
  <2> HIDE DEF T
  <2>3. ~(h < g)
    BY <1>3, <2>2, Zenon
  <2> QED
    BY <2>1, <2>3
<1>5. g \in x.next_index .. x.next_index + x.output.capacity /\ IsGap(g)
  BY <1>1, <1>2, <1>4
<1>6. /\ FirstGap(x) \in x.next_index .. x.next_index + x.output.capacity
      /\ IsGap(FirstGap(x))
  BY <1>5 DEF FirstGap
<1>7. FirstGap(x) \in Nat /\ x.next_index <= FirstGap(x)
  BY <1>1, <1>6
<1>8. FirstGap(x) = x.next_index \/ FirstGap(x) - 1 \in Stored(x)
  BY <1>1, <1>6, <1>7
<1>9. FirstGap(x) <= end /\ FirstGap(x) <= StreamLength
  <2>1. CASE FirstGap(x) = x.next_index
    BY <1>1, <2>1
  <2>2. CASE FirstGap(x) - 1 \in Stored(x)
    BY <1>1, <1>7, <2>2 DEF Sound
  <2> QED
    BY <1>8, <2>1, <2>2
<1> QED
  BY <1>6, <1>7, <1>9

\* push_into_output moves the bytes up to the first gap to the output, keeps the
\* others, and leaves the right edge of the window where it was.
LEMMA PushSound ==
    ASSUME NEW x, Sound(x), NEW y, y = push_into_output(x)
    PROVE  /\ Sound(y)
           /\ y.next_index \notin Stored(y)
           /\ y.next_index + remaining_capacity(y.output)
                = x.next_index + remaining_capacity(x.output)
           /\ x.next_index <= y.next_index
           /\ x.output.end_input => y.output.end_input
<1> DEFINE gap == FirstGap(x)
           rest == Stored(x) \ (x.next_index .. gap - 1)
           run == [j \in 1 .. gap - x.next_index |-> x.reassembler[x.next_index + j - 1]]
           map == [i \in rest |-> x.reassembler[i]]
           out == write(x.output, run)
           ended == rest = {} /\ x.eof /\ gap = x.eof_index
           output == IF ended THEN end_input(out) ELSE out
<1>1. /\ gap \in Nat /\ x.next_index <= gap /\ gap <= StreamLength
      /\ gap <= x.next_index + remaining_capacity(x.output)
      /\ gap \notin Stored(x) /\ (x.next_index .. gap - 1) \subseteq Stored(x)
  BY FirstGapBounds
<1>2. /\ x.next_index \in Nat /\ StreamLength \in Nat /\ Capacity \in Nat
      /\ Stored(x) \subseteq 0 .. StreamLength - 1
      /\ x.reassembler \in [Stored(x) -> Byte]
      /\ x.output \in ByteStreamState /\ Len(x.output.buffer) \in Nat
      /\ remaining_capacity(x.output) \in Nat
      /\ remaining_capacity(x.output) = Capacity - Len(x.output.buffer)
  BY SoundTypes
<1>3. y = [x EXCEPT !.next_index = gap, !.reassembler = map, !.output = output]
  BY DEF push_into_output
<1> HIDE DEF gap
<1>4. gap - x.next_index \in Nat
  BY <1>1, <1>2
<1>5. \A j \in 1 .. gap - x.next_index : run[j] = x.next_index + j - 1
  <2> SUFFICES ASSUME NEW j \in 1 .. gap - x.next_index
               PROVE  x.reassembler[x.next_index + j - 1] = x.next_index + j - 1
    OBVIOUS
  <2>1. x.next_index + j - 1 \in x.next_index .. gap - 1
    BY <1>1, <1>2
  <2> QED
    BY <1>1, <2>1 DEF Sound
<1>6. run \in [1 .. gap - x.next_index -> Byte]
  <2>1. ASSUME NEW j \in 1 .. gap - x.next_index
        PROVE  run[j] \in Byte
    <3> HIDE DEF run
    <3> QED
      BY <1>2, <1>4, <1>5 DEF Byte
  <2> QED
    BY <2>1
<1>7. run \in Seq(Byte) /\ Len(run) = gap - x.next_index
  <2> HIDE DEF run
  <2> DEFINE n == gap - x.next_index
  <2>1. n \in Nat /\ run \in [1 .. n -> Byte]
    BY <1>4, <1>6
  <2> HIDE DEF n
  <2>2. run \in Seq(Byte) /\ Len(run) = n
    BY <2>1
  <2> QED
    BY <2>2 DEF n
<1>8. /\ map \in UNION {[D -> Byte] : D \in SUBSET (0 .. StreamLength - 1)}
      /\ DOMAIN map = rest
      /\ \A i \in rest : map[i] = i
  <2>1. map \in [rest -> Byte] /\ rest \in SUBSET (0 .. StreamLength - 1)
    BY <1>2
  <2>2. \A i \in rest : map[i] = i
    BY DEF Sound
  <2> QED
    BY <2>1, <2>2
<1>9. \A i \in rest : gap < i /\ i < x.next_index + remaining_capacity(x.output)
  <2> SUFFICES ASSUME NEW i \in rest
               PROVE  gap < i /\ i < x.next_index + remaining_capacity(x.output)
    OBVIOUS
  <2>1. i \in Nat /\ i # gap
    BY <1>1, <1>2
  <2>2. x.next_index <= i /\ i < x.next_index + remaining_capacity(x.output)
    BY DEF Sound
  <2>3. ~(i \in x.next_index .. gap - 1)
    OBVIOUS
  <2> QED
    BY <1>1, <1>2, <2>1, <2>2, <2>3
<1> HIDE DEF run, map, rest
<1>10. /\ out \in ByteStreamState /\ InOrder(out)
       /\ out.capacity = Capacity
       /\ out.end_input = x.output.end_input
       /\ out.bytes_written = gap
       /\ Len(out.buffer) = Len(x.output.buffer) + (gap - x.next_index)
  <2>1. InOrder(x.output) /\ x.output.capacity = Capacity
        /\ x.next_index = x.output.bytes_written
    BY DEF Sound
  <2>2. Len(run) <= remaining_capacity(x.output)
    BY <1>1, <1>2, <1>7
  <2>3. \A j \in 1 .. Len(run) : run[j] = x.output.bytes_written + j - 1
    BY <1>5, <1>7, <2>1
  <2>4. x.output.end_input => Len(run) = 0
    BY <1>1, <1>2, <1>7 DEF Sound
  <2>5. /\ out \in ByteStreamState /\ InOrder(out)
        /\ out.capacity = x.output.capacity
        /\ out.end_input = x.output.end_input
        /\ out.bytes_written = x.output.bytes_written + Len(run)
        /\ Len(out.buffer) = Len(x.output.buffer) + Len(run)
    BY <1>2, <1>7, <2>1, <2>2, <2>3, <2>4, WriteInOrder
  <2> HIDE DEF out, ended, output
  <2>6. out.bytes_written = x.next_index + (gap - x.next_index)
    BY <1>7, <2>1, <2>5, Zenon
  <2>7. x.next_index + (gap - x.next_index) = gap
    BY <1>1, <1>2
  <2>8. Len(out.buffer) = Len(x.output.buffer) + (gap - x.next_index)
    BY <1>7, <2>5, Zenon
  <2> QED
    BY <2>1, <2>5, <2>6, <2>7, <2>8, Zenon
<1> HIDE DEF out
<1>11. /\ output \in ByteStreamState
       /\ output.buffer = out.buffer /\ output.capacity = out.capacity
       /\ output.bytes_read = out.bytes_read /\ output.bytes_written = out.bytes_written
       /\ output.end_input => out.end_input \/ ended
       /\ out.end_input => output.end_input
  BY <1>10 DEF end_input, ByteStreamState
<1>12. InOrder(output)
  BY <1>10, <1>11 DEF InOrder
<1>13. output.end_input => gap = StreamLength
  <2>1. out.end_input => gap = StreamLength
    BY <1>1, <1>2, <1>10 DEF Sound
  <2>2. ended => gap = StreamLength
    BY DEF Sound
  <2> QED
    BY <1>11, <2>1, <2>2
<1> HIDE DEF output, ended
<1>14. x \in ReassemblerState
  BY DEF Sound
<1>15. /\ y \in ReassemblerState
       /\ y.reassembler = map /\ y.output = output /\ y.next_index = gap
       /\ y.eof = x.eof /\ y.eof_index = x.eof_index
  <2>1. gap \in 0 .. StreamLength
    BY <1>1, <1>2
  <2> QED
    BY <1>3, <1>8, <1>11, <1>14, <2>1 DEF ReassemblerState
<1>16. Stored(y) = rest
  BY <1>8, <1>15 DEF Stored
<1>17. /\ Len(output.buffer) = Len(x.output.buffer) + (gap - x.next_index)
       /\ remaining_capacity(output) = Capacity - Len(output.buffer)
  BY <1>10, <1>11 DEF remaining_capacity
<1>18. gap + remaining_capacity(output) = x.next_index + remaining_capacity(x.output)
  BY <1>1, <1>2, <1>17
<1>19. Len(output.buffer) <= Capacity
  BY <1>1, <1>2, <1>17
<1>20. \A i \in Stored(y) : /\ y.reassembler[i] = i
                            /\ y.next_index <= i
                            /\ i < y.next_index + remaining_capacity(y.output)
  <2> SUFFICES ASSUME NEW i \in rest
               PROVE  map[i] = i /\ gap <= i /\ i < gap + remaining_capacity(output)
    BY <1>15, <1>16
  <2>1. i \in Nat
    BY <1>2 DEF rest
  <2> QED
    BY <1>1, <1>8, <1>9, <1>18, <2>1
<1>21. Sound(y)
  BY <1>10, <1>11, <1>12, <1>13, <1>15, <1>19, <1>20 DEF Sound
<1>22. y.next_index \notin Stored(y)
  BY <1>1, <1>15, <1>16 DEF rest
<1> QED
  BY <1>1, <1>10, <1>11, <1>15, <1>18, <1>21, <1>22

\* push_substring with a part of the peer's stream preserves the invariant, and
\* the right edge of the window stays where it was.
LEMMA PushSubstringSound ==
    ASSUME NEW x, Sound(x), x.next_index \notin Stored(x),
           NEW index \in Nat, NEW len \in Nat, index + len <= StreamLength,
           NEW is_eof \in BOOLEAN, is_eof => index + len = StreamLength,
           NEW y, y = push_substring(x, Run(index, len), index, is_eof)
    PROVE  /\ Sound(y)
           /\ y.next_index \notin Stored(y)
           /\ y.next_index + remaining_capacity(y.output)
                = x.next_index + remaining_capacity(x.output)
           /\ x.next_index <= y.next_index
           /\ x.output.end_input => y.output.end_input
<1> DEFINE data == Run(index, len)
           eof_now == x.eof \/ is_eof
           eof_at == IF is_eof THEN U64(index + Len(data)) ELSE x.eof_index
           noted == [x EXCEPT !.eof = eof_now, !.eof_index = eof_at]
           free == U64(remaining_capacity(x.output) - unassembled_bytes(x))
           fitted == fit_in_reassembler(noted, data, index, free)
<1>1. y = IF free = 0 THEN noted ELSE push_into_output(fitted)
  BY DEF push_substring
<1>2. x.eof \in BOOLEAN /\ x.eof_index \in 0 .. StreamLength /\ StreamLength \in Nat
  BY SoundTypes
<1>3. is_eof => U64(index + Len(data)) = StreamLength
  <2>1. Len(data) = len
    BY RunBytes
  <2>2. StreamLength \in Nat /\ StreamLength < Mod64 /\ Mod64 \in Nat
    BY ReassemblerAssumption, WidthAssumption
  <2>3. StreamLength % Mod64 = StreamLength
    BY <2>2
  <2> QED
    BY <2>1, <2>3 DEF U64
<1> HIDE DEF data, free
<1>4. /\ Sound(noted) /\ noted.output = x.output /\ noted.next_index = x.next_index
      /\ Stored(noted) = Stored(x)
  <2>1. x \in ReassemblerState
    BY DEF Sound
  <2>2. eof_at \in 0 .. StreamLength
    BY <1>2, <1>3
  <2>3. eof_now => eof_at = StreamLength
    BY <1>3 DEF Sound
  <2>4. eof_now \in BOOLEAN
    OBVIOUS
  <2> HIDE DEF eof_now, eof_at
  <2>5. /\ noted \in ReassemblerState
        /\ noted.output = x.output /\ noted.next_index = x.next_index
        /\ noted.reassembler = x.reassembler
        /\ noted.eof = eof_now /\ noted.eof_index = eof_at
    BY <2>1, <2>2, <2>4 DEF ReassemblerState
  <2> HIDE DEF noted
  <2>6. Stored(noted) = Stored(x)
    BY <2>5 DEF Stored
  <2>7. noted.eof => noted.eof_index = StreamLength
    BY <2>5, <2>3
  <2> QED
    BY <2>5, <2>6, <2>7 DEF Sound
<1> HIDE DEF noted
<1>5. CASE free = 0
  BY <1>1, <1>4, <1>5, SoundTypes
<1>6. CASE free # 0
  <2>1. Sound(fitted) /\ fitted.output = x.output /\ fitted.next_index = x.next_index
    BY <1>4, FitSound DEF data
  <2> HIDE DEF fitted
  <2>2. y = push_into_output(fitted)
    BY <1>1, <1>6
  <2> QED
    BY <2>1, <2>2, PushSound
<1> QED
  BY <1>5, <1>6

\* The reassembler after the application has read len bytes.
AfterRead(x, len) == [x EXCEPT !.output = pop_output(x.output, len)]

\* pop_output on the output stream preserves the invariant and moves the right
\* edge of the window by as much as was read.
LEMMA ReadSound ==
    ASSUME NEW x, Sound(x), x.next_index \notin Stored(x),
           NEW len \in Nat, len <= Len(x.output.buffer),
           NEW y, y = AfterRead(x, len)
    PROVE  /\ Sound(y)
           /\ y.next_index \notin Stored(y)
           /\ y.next_index + remaining_capacity(y.output)
                = x.next_index + remaining_capacity(x.output) + len
           /\ y.next_index = x.next_index
           /\ y.output.end_input = x.output.end_input
<1> DEFINE out == pop_output(x.output, len)
<1>1. /\ x.next_index \in Nat /\ Capacity \in Nat
      /\ Stored(x) \subseteq 0 .. StreamLength - 1 /\ StreamLength \in Nat
      /\ x.output \in ByteStreamState /\ Len(x.output.buffer) \in Nat
      /\ remaining_capacity(x.output) = Capacity - Len(x.output.buffer)
  BY SoundTypes
<1>2. /\ x \in ReassemblerState /\ InOrder(x.output) /\ x.output.capacity = Capacity
      /\ Len(x.output.buffer) <= Capacity /\ x.next_index = x.output.bytes_written
  BY DEF Sound
<1>3. /\ out \in ByteStreamState /\ InOrder(out)
      /\ out.capacity = Capacity
      /\ out.end_input = x.output.end_input
      /\ out.bytes_written = x.output.bytes_written
      /\ Len(out.buffer) = Len(x.output.buffer) - len
  BY <1>1, <1>2, PopInOrder
<1> HIDE DEF out
<1>4. /\ y \in ReassemblerState
      /\ y.output = out /\ y.next_index = x.next_index /\ y.reassembler = x.reassembler
      /\ y.eof = x.eof /\ y.eof_index = x.eof_index
  BY <1>2, <1>3 DEF ReassemblerState, AfterRead, out
<1>5. Stored(y) = Stored(x)
  BY <1>4 DEF Stored
<1>6. remaining_capacity(out) = remaining_capacity(x.output) + len
  <2>1. remaining_capacity(out) = Capacity - Len(out.buffer)
    BY <1>3 DEF remaining_capacity
  <2> QED
    BY <1>1, <1>3, <2>1
<1>7. \A i \in Stored(y) : /\ y.reassembler[i] = i
                           /\ y.next_index <= i
                           /\ i < y.next_index + remaining_capacity(y.output)
  <2> SUFFICES ASSUME NEW i \in Stored(x)
               PROVE  /\ x.reassembler[i] = i
                      /\ x.next_index <= i
                      /\ i < x.next_index + remaining_capacity(out)
    BY <1>4, <1>5
  <2>1. /\ x.reassembler[i] = i /\ x.next_index <= i
        /\ i < x.next_index + remaining_capacity(x.output)
    BY DEF Sound
  <2>2. i \in Nat /\ x.next_index \in Nat /\ remaining_capacity(x.output) \in Nat
    BY <1>1, SoundTypes
  <2>3. \A a, b, c \in Nat : a < b + c => a < b + (c + len)
    OBVIOUS
  <2>4. i < x.next_index + (remaining_capacity(x.output) + len)
    BY <2>1, <2>2, <2>3, Zenon
  <2> QED
    BY <1>6, <2>1, <2>4, Zenon
<1>8. Sound(y)
  BY <1>1, <1>2, <1>3, <1>4, <1>7 DEF Sound
<1>9. remaining_capacity(x.output) \in Nat
  BY SoundTypes
<1>10. y.next_index + remaining_capacity(y.output)
         = x.next_index + remaining_capacity(x.output) + len
  <2>1. y.next_index = x.next_index /\ remaining_capacity(y.output) = remaining_capacity(out)
    BY <1>4
  <2>2. x.next_index + remaining_capacity(out)
          = x.next_index + remaining_capacity(x.output) + len
    <3>1. \A a, b \in Nat : a + (b + len) = a + b + len
      OBVIOUS
    <3>2. x.next_index + (remaining_capacity(x.output) + len)
            = x.next_index + remaining_capacity(x.output) + len
      BY <1>1, <1>9, <3>1, Zenon
    <3> QED
      BY <1>6, <3>2, Zenon
  <2> QED
    BY <2>1, <2>2, Zenon
<1> QED
  BY <1>3, <1>4, <1>5, <1>8, <1>10

\* The new reassembler satisfies the invariant.
LEMMA NewSound ==
    ASSUME NEW r, r = NewReassembler(Capacity)
    PROVE  Sound(r) /\ r.next_index \notin Stored(r)
<1>1. Capacity \in Nat /\ StreamLength \in Nat
  BY ReassemblerAssumption
<1> DEFINE none == [i \in {} |-> 0]
<1>2. none \in UNION {[D -> Byte] : D \in SUBSET (0 .. StreamLength - 1)}
  <2>1. none \in [{} -> Byte] /\ {} \in SUBSET (0 .. StreamLength - 1)
    OBVIOUS
  <2> QED
    BY <2>1
<1>3. DOMAIN none = {}
  OBVIOUS
<1> DEFINE out == NewByteStream(Capacity)
<1>4. /\ out \in ByteStreamState /\ out.capacity = Capacity /\ out.buffer = <<>>
      /\ out.bytes_read = 0 /\ out.bytes_written = 0 /\ out.end_input = FALSE
  BY <1>1 DEF NewByteStream, ByteStreamState
<1>5. r = [reassembler |-> none, next_index |-> 0, output |-> out, eof |-> FALSE,
           eof_index |-> 0]
  BY DEF NewReassembler
<1> HIDE DEF none, out
<1>6. /\ r \in ReassemblerState
      /\ r.reassembler = none /\ r.output = out /\ r.next_index = 0 /\ r.eof = FALSE
  BY <1>1, <1>2, <1>4, <1>5 DEF ReassemblerState
<1>7. Stored(r) = {}
  BY <1>3, <1>6 DEF Stored
<1>8. InOrder(out) /\ Len(out.buffer) <= Capacity
  BY <1>1, <1>4 DEF InOrder
<1> QED
  BY <1>4, <1>6, <1>7, <1>8 DEF Sound

\* An empty substring has no place: push_substring does the same with it at any
\* index.
LEMMA EmptyPush ==
    ASSUME NEW x, NEW i \in Nat, NEW j \in Nat, NEW y,
           y = push_substring(x, Run(i, 0), i, FALSE)
    PROVE  y = push_substring(x, Run(j, 0), j, FALSE)
<1>1. Run(i, 0) = <<>> /\ Run(j, 0) = <<>>
  BY DEF Run
<1> DEFINE noted == [x EXCEPT !.eof = x.eof \/ FALSE, !.eof_index = x.eof_index]
           free == U64(remaining_capacity(x.output) - unassembled_bytes(x))
           kept(index) ==
               {k \in Fitting(noted, <<>>, index) :
                   Cardinality({l \in Fitting(noted, <<>>, index) : l < k}) < free}
           fitted(index) ==
               [noted EXCEPT !.reassembler =
                   [k \in Stored(noted) \cup kept(index) |->
                       IF k \in kept(index) THEN <<>>[k - index + 1]
                       ELSE noted.reassembler[k]]]
<1>2. ASSUME NEW index \in Nat
      PROVE  push_substring(x, <<>>, index, FALSE) =
                 IF free = 0 THEN noted
                 ELSE push_into_output(fit_in_reassembler(noted, <<>>, index, free))
  BY DEF push_substring
<1>3. ASSUME NEW index \in Nat
      PROVE  Fitting(noted, <<>>, index) = {}
  <2> HIDE DEF noted
  <2> QED BY DEF Fitting
<1>4. ASSUME NEW index \in Nat
      PROVE  fit_in_reassembler(noted, <<>>, index, free) =
                 [noted EXCEPT !.reassembler = [k \in Stored(noted) |-> noted.reassembler[k]]]
  <2> HIDE DEF noted, free
  <2>1. fit_in_reassembler(noted, <<>>, index, free) = fitted(index)
    BY DEF fit_in_reassembler
  <2>2. kept(index) = {}
    BY <1>3
  <2>3. fitted(index) =
           [noted EXCEPT !.reassembler = [k \in Stored(noted) |-> noted.reassembler[k]]]
    <3> HIDE DEF kept
    <3> QED BY <2>2
  <2> QED BY <2>1, <2>3
<1> HIDE DEF noted, free
<1> QED BY <1>1, <1>2, <1>4
================================================================================
