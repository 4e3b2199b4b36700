------------------------ MODULE WrappingIntegersProofs ------------------------
(***************************************************************************)
(* What wrap and unwrap compute, for all widths that WidthAssumption       *)
(* allows.  The provers do not know what % and \div do with a divisor that *)
(* is not a number, beyond quotient and remainder; the lemmas before the   *)
(* ones about wrap and unwrap supply it.                                   *)
(***************************************************************************)
EXTENDS WrappingIntegers, TLAPS

\* The quotient and the remainder of U32 and U64, for negative numbers too.
LEMMA DivMod ==
    ASSUME NEW a \in Int, NEW m \in Nat \ {0}
    PROVE  /\ a % m \in Int /\ a \div m \in Int
           /\ 0 <= a % m /\ a % m < m
           /\ a = m * (a \div m) + (a % m)
  OBVIOUS

\* A multiple of m that lies strictly between -m and m is 0.
LEMMA SmallMultiple ==
    ASSUME NEW m \in Nat \ {0}, NEW q \in Int, -m < m * q, m * q < m
    PROVE  q = 0
<1>1. ASSUME q >= 1 PROVE FALSE
  <2>1. m * q >= m
    BY <1>1
  <2> QED BY <2>1
<1>2. ASSUME q <= -1 PROVE FALSE
  <2>1. m * q <= -m
    BY <1>2
  <2> QED BY <2>1
<1> QED BY <1>1, <1>2

\* Only one number in 0 .. m - 1 is the remainder.
LEMMA ModUnique ==
    ASSUME NEW m \in Nat \ {0}, NEW a \in Int, NEW q \in Int, NEW k \in 0 .. m - 1,
           a = m * q + k
    PROVE  a % m = k
<1> DEFINE p == a \div m
           l == a % m
<1>1. p \in Int /\ l \in Int /\ 0 <= l /\ l < m /\ a = m * p + l
  BY DivMod
<1> HIDE DEF p, l
<1>2. m * (p - q) = m * p - m * q
  BY <1>1
<1>3. m * (p - q) = k - l
  BY <1>1, <1>2
<1>4. p - q = 0
  BY <1>1, <1>3, SmallMultiple
<1>5. m * (p - q) = 0
  BY <1>4
<1>6. l = k
  BY <1>1, <1>3, <1>5
<1> QED BY <1>6 DEF l

\* Adding a multiple of m does not change the remainder.
LEMMA ModAdd ==
    ASSUME NEW m \in Nat \ {0}, NEW a \in Int, NEW q \in Int
    PROVE  (a + m * q) % m = a % m
<1> DEFINE p == a \div m
           l == a % m
<1>1. p \in Int /\ l \in 0 .. m - 1 /\ a = m * p + l
  BY DivMod
<1> HIDE DEF p, l
<1>2. a + m * q = m * (p + q) + l
  BY <1>1
<1>3. a + m * q \in Int /\ p + q \in Int
  BY <1>1
<1>4. (a + m * q) % m = l
  BY <1>1, <1>2, <1>3, ModUnique
<1> QED BY <1>4 DEF l

\* Two numbers with the same remainder are a multiple of m apart.
LEMMA SameResidue ==
    ASSUME NEW m \in Nat \ {0}, NEW a \in Int, NEW b \in Int, a % m = b % m
    PROVE  \E q \in Int : a = b + m * q
<1>1. /\ a \div m \in Int /\ b \div m \in Int
      /\ a = m * (a \div m) + (a % m) /\ b = m * (b \div m) + (b % m)
  BY DivMod
<1> DEFINE p == a \div m
           q == b \div m
           l == a % m
<1>2. p \in Int /\ q \in Int /\ l \in Int /\ a = m * p + l /\ b = m * q + l
  BY <1>1, DivMod
<1> HIDE DEF p, q, l
<1>3. a = b + m * (p - q)
  BY <1>2
<1>4. p - q \in Int
  BY <1>2
<1> QED BY <1>3, <1>4

\* Numbers with the same remainder less than m apart are equal.
LEMMA SameResidueClose ==
    ASSUME NEW m \in Nat \ {0}, NEW a \in Int, NEW b \in Int, a % m = b % m,
           -m < a - b, a - b < m
    PROVE  a = b
<1>1. PICK q \in Int : a = b + m * q
  BY SameResidue
<1>2. m * q = a - b
  BY <1>1
<1>3. q = 0
  BY <1>2, SmallMultiple
<1> QED BY <1>1, <1>3

-------------------------------------------------------------------------------
\* What the proofs below need of the two widths.
LEMMA Widths ==
    /\ Mod32 \in Nat \ {0} /\ Mod64 \in Nat \ {0} /\ Mod32 < Mod64
    /\ Half32 \in Nat \ {0} /\ Mod32 = 2 * Half32
    /\ \E q \in Int : Mod64 = Mod32 * q
<1>1. Mod32 \in Nat \ {0} /\ Mod64 \in Nat \ {0} /\ Mod32 < Mod64 /\ Mod32 % 2 = 0
      /\ Mod64 % Mod32 = 0
  BY WidthAssumption
<1>2. Mod32 = 2 * (Mod32 \div 2) /\ Mod32 \div 2 \in Int
  BY <1>1
<1>3. Half32 \in Nat \ {0} /\ Mod32 = 2 * Half32
  BY <1>1, <1>2 DEF Half32
<1>4. Mod64 = Mod32 * (Mod64 \div Mod32) + (Mod64 % Mod32) /\ Mod64 \div Mod32 \in Int
  BY <1>1, DivMod
<1>5. Mod64 = Mod32 * (Mod64 \div Mod32)
  BY <1>1, <1>4
<1> QED BY <1>1, <1>3, <1>4, <1>5

\* A number that fits in 64 bits is left alone by U64.
LEMMA U64Fits ==
    ASSUME NEW a \in Nat, a < Mod64
    PROVE  U64(a) = a
<1>1. Mod64 \in Nat \ {0} /\ a \in 0 .. Mod64 - 1 /\ a = Mod64 * 0 + a
  BY Widths
<1> QED BY <1>1, ModUnique DEF U64

\* U64 gives a natural number, and the last 32 bits of a number survive the last 64.
LEMMA U64Keeps32 ==
    ASSUME NEW a \in Int
    PROVE  U64(a) \in Nat /\ U64(a) < Mod64 /\ U32(U64(a)) = U32(a)
<1>1. PICK q \in Int : Mod64 = Mod32 * q
  BY Widths
<1> DEFINE d == a \div Mod64
           l == a % Mod64
<1>2. d \in Int /\ l \in Int /\ 0 <= l /\ l < Mod64 /\ a = Mod64 * d + l
  BY Widths, DivMod
<1> HIDE DEF d, l
<1>3. a = l + Mod32 * (q * d) /\ q * d \in Int
  BY <1>1, <1>2, Widths
<1>4. (l + Mod32 * (q * d)) % Mod32 = l % Mod32
  BY <1>2, <1>3, Widths, ModAdd
<1>5. a % Mod32 = l % Mod32
  BY <1>3, <1>4
<1> QED BY <1>2, <1>5 DEF U32, U64, l

\* wrap gives a 32-bit number, and taking the initial number off again gives the
\* last 32 bits of the absolute one.
LEMMA WrapResidue ==
    ASSUME NEW abs \in Int, NEW isn \in WrappingInt32
    PROVE  /\ wrap(abs, isn) \in WrappingInt32
           /\ U32(wrap(abs, isn) - isn) = U32(abs)
<1>1. Mod32 \in Nat \ {0} /\ isn \in Int
  BY Widths DEF WrappingInt32
<1>2. wrap(abs, isn) = (abs + isn) % Mod32
  BY <1>1, U64Keeps32 DEF wrap, U32
<1> DEFINE s == abs + isn
           p == s \div Mod32
           w == s % Mod32
<1>3. p \in Int /\ w \in Int /\ 0 <= w /\ w < Mod32 /\ s = Mod32 * p + w /\ s \in Int
  BY <1>1, DivMod
<1>4. w - isn = abs + Mod32 * (-p)
  <2>1. abs + isn = Mod32 * p + w
    BY <1>3
  <2> HIDE DEF p, w, s
  <2> QED BY <1>1, <1>3, <2>1
<1>5. (abs + Mod32 * (-p)) % Mod32 = abs % Mod32
  <2>1. -p \in Int
    BY <1>3
  <2> DEFINE q == -p
  <2> HIDE DEF q
  <2>2. q \in Int /\ Mod32 \in Nat \ {0} /\ abs \in Int
    BY <1>1, <2>1 DEF q
  <2>3. (abs + Mod32 * q) % Mod32 = abs % Mod32
    BY <2>2, ModAdd
  <2> QED BY <2>3 DEF q
<1> HIDE DEF p, w
<1>6. wrap(abs, isn) = w
  BY <1>2 DEF w
<1> QED BY <1>1, <1>3, <1>4, <1>5, <1>6 DEF U32, WrappingInt32

\* The candidate that unwrap starts from is the one number with the residue of
\* n - isn among the 2^32 at and after the checkpoint.
LEMMA FirstIsFirst ==
    ASSUME NEW n \in WrappingInt32, NEW isn \in WrappingInt32,
           NEW checkpoint \in Nat, checkpoint + Mod32 < Mod64,
           NEW v, v = FirstAtOrAfter(n, isn, checkpoint)
    PROVE  /\ v \in Nat /\ checkpoint <= v /\ v < checkpoint + Mod32
           /\ U32(v) = U32(n - isn)
<1> DEFINE abs == U32(n - isn)
           diff == checkpoint - abs
           p == diff \div Mod32
           l == diff % Mod32
<1>1. Mod32 \in Nat \ {0} /\ n \in Int /\ isn \in Int /\ n - isn \in Int
  BY Widths DEF WrappingInt32
<1>2. abs \in Nat /\ abs < Mod32
  BY <1>1, DivMod DEF U32
<1>3. U32(abs) = abs
  <2>1. abs \in 0 .. Mod32 - 1 /\ abs = Mod32 * 0 + abs /\ abs \in Int
    BY <1>1, <1>2
  <2> HIDE DEF abs
  <2> QED BY <1>1, <2>1, ModUnique DEF U32
<1>4. /\ v = IF abs >= checkpoint THEN abs ELSE IF l = 0 THEN checkpoint
             ELSE U64(abs + Mod32 * (p + 1))
  BY DEF FirstAtOrAfter
<1> HIDE DEF abs
<1>5. p \in Int /\ l \in Int /\ 0 <= l /\ l < Mod32 /\ diff = Mod32 * p + l
  BY <1>1, <1>2, DivMod
<1> HIDE DEF p, l
<1>6. ASSUME NEW q \in Int PROVE U32(abs + Mod32 * q) = abs
  BY <1>1, <1>2, <1>3, ModAdd DEF U32
<1>7. CASE abs >= checkpoint
  BY <1>1, <1>2, <1>3, <1>4, <1>7 DEF abs
<1>8. CASE abs < checkpoint /\ l = 0
  <2>1. v = checkpoint /\ checkpoint = abs + Mod32 * p
    BY <1>1, <1>2, <1>4, <1>5, <1>8
  <2>2. U32(v) = abs
    BY <1>5, <1>6, <2>1
  <2> QED BY <1>1, <2>1, <2>2 DEF abs
<1>9. CASE abs < checkpoint /\ l # 0
  <2> DEFINE w == abs + Mod32 * (p + 1)
  <2>1. Mod32 * (p + 1) = Mod32 * p + Mod32
    BY <1>1, <1>5
  <2>2. w = checkpoint - l + Mod32
    BY <1>1, <1>2, <1>5, <2>1
  <2>3. U32(w) = abs
    BY <1>5, <1>6
  <2> HIDE DEF w
  <2>4. w \in Nat /\ checkpoint < w /\ w < checkpoint + Mod32 /\ w < Mod64
    BY <1>1, <1>5, <1>9, <2>2, Widths
  <2>5. v = w
    BY <1>2, <1>4, <1>9, <2>4, U64Fits DEF w
  <2> QED BY <2>3, <2>4, <2>5 DEF abs
<1> QED BY <1>2, <1>5, <1>7, <1>8, <1>9

\* unwrap compares the distance itself: no 64-bit wrap hides in its subtraction.
LEMMA UnwrapCases ==
    ASSUME NEW n \in WrappingInt32, NEW isn \in WrappingInt32,
           NEW checkpoint \in Nat, checkpoint + Mod32 < Mod64,
           NEW v, v = FirstAtOrAfter(n, isn, checkpoint)
    PROVE  unwrap(n, isn, checkpoint) =
               IF v - checkpoint < Half32 \/ v <= Mod32 THEN v ELSE v - Mod32
<1>1. v \in Nat /\ checkpoint <= v /\ v < checkpoint + Mod32
  BY FirstIsFirst
<1>2. v - checkpoint \in Nat /\ v - checkpoint < Mod64
  BY <1>1, Widths
<1>3. U64(v - checkpoint) = v - checkpoint
  BY <1>2, U64Fits
<1> QED BY <1>1, <1>3, Widths DEF unwrap

\* The receiver's use of unwrap: a sequence number less than half the sequence
\* space from the checkpoint is recovered, across any number of wraps; the number
\* of the SYN only from the SYN itself.
LEMMA UnwrapRecovers ==
    ASSUME NEW abs \in Nat, NEW isn \in WrappingInt32,
           NEW checkpoint \in Nat, checkpoint + Mod32 < Mod64,
           abs < checkpoint + Half32, checkpoint <= abs + Half32,
           abs > 0 \/ checkpoint = 0
    PROVE  unwrap(wrap(abs, isn), isn, checkpoint) = abs
<1> DEFINE n == wrap(abs, isn)
           v == FirstAtOrAfter(n, isn, checkpoint)
<1>1. n \in WrappingInt32 /\ U32(n - isn) = U32(abs)
  BY WrapResidue
<1> HIDE DEF n
<1>2. v \in Nat /\ checkpoint <= v /\ v < checkpoint + Mod32 /\ U32(v) = U32(abs)
  BY <1>1, FirstIsFirst
<1>3. unwrap(n, isn, checkpoint) =
         IF v - checkpoint < Half32 \/ v <= Mod32 THEN v ELSE v - Mod32
  BY <1>1, UnwrapCases
<1> HIDE DEF v
<1>4. CASE checkpoint <= abs
  <2>1. -Mod32 < v - abs /\ v - abs < Mod32 /\ v % Mod32 = abs % Mod32
    BY <1>2, <1>4, Widths DEF U32
  <2>2. v = abs
    <3>1. v \in Int /\ abs \in Int /\ Mod32 \in Nat \ {0}
      BY <1>2, Widths
    <3> QED BY <2>1, <3>1, SameResidueClose
  <2> QED BY <1>2, <1>3, <2>2, Widths DEF n
<1>5. CASE abs < checkpoint
  <2> DEFINE w == abs + Mod32
  <2>1. w % Mod32 = abs % Mod32
    <3>1. w = abs + Mod32 * 1 /\ Mod32 \in Nat \ {0} /\ abs \in Int /\ 1 \in Int
      BY Widths
    <3>2. (abs + Mod32 * 1) % Mod32 = abs % Mod32
      BY <3>1, ModAdd
    <3> QED BY <3>1, <3>2
  <2>2. -Mod32 < v - w /\ v - w < Mod32 /\ v % Mod32 = w % Mod32 /\ w \in Int
    BY <1>2, <1>5, <2>1, Widths DEF U32
  <2> HIDE DEF w
  <2>3. v = w
    <3>1. v \in Int /\ w \in Int /\ Mod32 \in Nat \ {0}
      BY <1>2, <2>2, Widths
    <3> QED BY <2>2, <3>1, SameResidueClose
  <2>4. v = abs + Mod32
    BY <2>3 DEF w
  <2> QED BY <1>2, <1>3, <1>5, <2>4, Widths DEF n
<1> QED BY <1>4, <1>5

\* wrap is undone up to a multiple of 2^32: the absolute numbers that wrap to n
\* are the ones with the residue of n - isn.
LEMMA WrapsTo ==
    ASSUME NEW v \in Int, NEW n \in WrappingInt32, NEW isn \in WrappingInt32
    PROVE  wrap(v, isn) = n <=> U32(v) = U32(n - isn)
<1>1. wrap(v, isn) \in WrappingInt32 /\ U32(wrap(v, isn) - isn) = U32(v)
  BY WrapResidue
<1>2. ASSUME U32(v) = U32(n - isn) PROVE wrap(v, isn) = n
  <2> DEFINE w == wrap(v, isn)
             a == w - isn
             b == n - isn
  <2>1. w \in WrappingInt32 /\ a % Mod32 = b % Mod32
    BY <1>1, <1>2 DEF U32
  <2> HIDE DEF w
  <2>2. a \in Int /\ b \in Int /\ -Mod32 < a - b /\ a - b < Mod32 /\ Mod32 \in Nat \ {0}
    BY <2>1, Widths DEF WrappingInt32
  <2>3. a = b
    <3> HIDE DEF a, b
    <3> QED BY <2>1, <2>2, SameResidueClose
  <2>4. w = n
    BY <2>1, <2>3, Widths DEF WrappingInt32
  <2> QED BY <2>4 DEF w
<1> QED BY <1>1, <1>2

\* wrapping_integers.hh: unwrap returns "the absolute sequence number that wraps
\* to `n` and is closest to `checkpoint`".  So it does for every number and every
\* checkpoint a 64-bit stream can have but for its last 2^32 bytes, save in the
\* corner where n is the number of the SYN and the checkpoint lies in the first
\* half of the first 32-bit space.
LEMMA UnwrapClosest ==
    ASSUME NEW n \in WrappingInt32, NEW isn \in WrappingInt32,
           NEW checkpoint \in Nat, checkpoint + Mod32 < Mod64,
           ~(n = isn /\ 0 < checkpoint /\ checkpoint < Half32),
           NEW u, u = unwrap(n, isn, checkpoint)
    PROVE  /\ u \in 0 .. Mod64 - 1 /\ wrap(u, isn) = n
           /\ \A w \in Nat : wrap(w, isn) = n =>
                  Distance(u, checkpoint) <= Distance(w, checkpoint)
<1> DEFINE v == FirstAtOrAfter(n, isn, checkpoint)
           res == U32(n - isn)
<1>1. v \in Nat /\ checkpoint <= v /\ v < checkpoint + Mod32 /\ U32(v) = res
  BY FirstIsFirst
<1>2. u = IF v - checkpoint < Half32 \/ v <= Mod32 THEN v ELSE v - Mod32
  BY UnwrapCases
<1>3. n = isn <=> res = 0
  <2>1. n \in Int /\ isn \in Int /\ n - isn \in Int /\ Mod32 \in Nat \ {0}
        /\ -Mod32 < n - isn /\ n - isn < Mod32
    BY Widths DEF WrappingInt32
  <2>2. 0 % Mod32 = 0
    <3>1. 0 \in 0 .. Mod32 - 1 /\ 0 = Mod32 * 0 + 0 /\ 0 \in Int
      BY <2>1
    <3> QED BY <2>1, <3>1, ModUnique
  <2>3. ASSUME res = 0 PROVE n - isn = 0
    <3> DEFINE d == n - isn
               z == 0
    <3>1. d \in Int /\ z \in Int /\ -Mod32 < d - z /\ d - z < Mod32 /\ d % Mod32 = z % Mod32
      BY <2>1, <2>2, <2>3 DEF U32
    <3> HIDE DEF d, z
    <3>2. d = z
      BY <2>1, <3>1, SameResidueClose
    <3> QED BY <3>2 DEF d, z
  <2> QED BY <2>1, <2>2, <2>3 DEF U32
<1> HIDE DEF v
<1>4. ASSUME NEW w \in Nat, U32(w) = res PROVE w = v \/ v + Mod32 <= w \/ w + Mod32 <= v
  <2>1. CASE -Mod32 < w - v /\ w - v < Mod32
    <3>1. w \in Int /\ v \in Int /\ Mod32 \in Nat \ {0} /\ w % Mod32 = v % Mod32
      BY <1>1, <1>4, Widths DEF U32
    <3> QED BY <2>1, <3>1, SameResidueClose
  <2> QED BY <1>1, <2>1, Widths
<1>5. u \in Nat /\ u <= v /\ U32(u) = res
  <2>1. CASE u = v
    BY <1>1, <2>1
  <2>2. CASE u # v
    <3>1. u = v - Mod32 /\ v > Mod32
      BY <1>1, <1>2, <2>2, Widths
    <3>2. u \in Nat /\ v = u + Mod32 * 1 /\ u \in Int /\ 1 \in Int /\ Mod32 \in Nat \ {0}
      BY <1>1, <3>1, Widths
    <3>3. (u + Mod32 * 1) % Mod32 = u % Mod32
      BY <3>2, ModAdd
    <3> QED BY <1>1, <3>1, <3>2, <3>3, Widths DEF U32
  <2> QED BY <2>1, <2>2
<1>6. u \in 0 .. Mod64 - 1 /\ wrap(u, isn) = n
  BY <1>1, <1>5, Widths, WrapsTo
<1>7. ASSUME NEW w \in Nat, wrap(w, isn) = n
      PROVE  Distance(u, checkpoint) <= Distance(w, checkpoint)
  <2>1. U32(w) = res
    BY <1>7, WrapsTo
  <2>2. w = v \/ v + Mod32 <= w \/ w + Mod32 <= v
    BY <1>4, <2>1
  <2>3. CASE v - checkpoint < Half32
    BY <1>1, <1>2, <2>2, <2>3, Widths DEF Distance
  <2>4. CASE v - checkpoint >= Half32 /\ v > Mod32
    BY <1>1, <1>2, <2>2, <2>4, Widths DEF Distance
  <2>5. CASE v - checkpoint >= Half32 /\ v < Mod32
    BY <1>1, <1>2, <2>2, <2>5, Widths DEF Distance
  <2>6. CASE v - checkpoint >= Half32 /\ v = Mod32
    <3>1. Mod32 % Mod32 = 0
      <4>1. 0 \in 0 .. Mod32 - 1 /\ Mod32 = Mod32 * 1 + 0 /\ Mod32 \in Int /\ 1 \in Int
            /\ Mod32 \in Nat \ {0}
        BY Widths
      <4> QED BY <4>1, ModUnique
    <3>2. n = isn
      BY <1>1, <1>3, <2>6, <3>1 DEF U32
    <3>3. checkpoint >= Half32
      BY <1>1, <2>6, <3>2, Widths
    <3> QED BY <1>1, <1>2, <2>2, <2>6, <3>3, Widths DEF Distance
  <2> QED BY <1>1, <2>3, <2>4, <2>5, <2>6, Widths
<1> QED BY <1>6, <1>7

\* unwrap gives a natural number whatever the checkpoint: it goes back by 2^32
\* only from a candidate beyond 2^32.
LEMMA UnwrapNat ==
    ASSUME NEW n \in Int, NEW isn \in Int, NEW checkpoint \in Nat
    PROVE  unwrap(n, isn, checkpoint) \in Nat
<1> DEFINE abs == U32(n - isn)
           diff == checkpoint - abs
           v == FirstAtOrAfter(n, isn, checkpoint)
<1>1. Mod32 \in Nat \ {0} /\ n - isn \in Int
  BY Widths
<1>2. abs \in Nat
  BY <1>1, DivMod DEF U32
<1>3. v = IF abs >= checkpoint THEN abs ELSE IF diff % Mod32 = 0 THEN checkpoint
          ELSE U64(abs + Mod32 * (diff \div Mod32 + 1))
  BY DEF FirstAtOrAfter
<1> HIDE DEF abs
<1>4. diff \in Int /\ diff \div Mod32 \in Int
  BY <1>1, <1>2, DivMod
<1>5. abs + Mod32 * (diff \div Mod32 + 1) \in Int
  <2> DEFINE q == diff \div Mod32
  <2> HIDE DEF q
  <2>1. q \in Int
    BY <1>4 DEF q
  <2>2. abs + Mod32 * (q + 1) \in Int
    BY <1>1, <1>2, <2>1
  <2> QED BY <2>2 DEF q
<1>6. v \in Nat
  BY <1>2, <1>3, <1>5, U64Keeps32
<1> HIDE DEF v
<1>7. unwrap(n, isn, checkpoint) = v \/ (v > Mod32 /\ unwrap(n, isn, checkpoint) = v - Mod32)
  BY DEF unwrap, v
<1> QED BY <1>1, <1>6, <1>7
===============================================================================
