--------------------------- MODULE WrappingIntegers ---------------------------
(***************************************************************************)
(* 32-bit sequence numbers and their 64-bit absolute values                *)
(* (libsponge/wrapping_integers.cc).  The widths are parameters: Mod32     *)
(* stands for 2^32 and Mod64 for 2^64, so that a model can wrap around     *)
(* after a handful of bytes.                                               *)
(***************************************************************************)
EXTENDS Integers

CONSTANTS Mod32, Mod64

ASSUME WidthAssumption ==
    /\ Mod32 \in Nat \ {0}
    /\ Mod32 % 2 = 0
    /\ Mod64 \in Nat
    /\ Mod64 > Mod32
    /\ Mod64 % Mod32 = 0

Half32 == Mod32 \div 2

\* What assigning an integer to a uint32_t, or to a uint64_t or size_t, keeps.
U32(n) == n % Mod32
U64(n) == n % Mod64

WrappingInt32 == 0 .. Mod32 - 1

wrap(n, isn) == U32(U64(n + isn))

\* The least number congruent to n - isn that is at or after the checkpoint.
FirstAtOrAfter(n, isn, checkpoint) ==
    LET abs_seqno == U32(n - isn)
        index_diff == checkpoint - abs_seqno
    IN  IF abs_seqno >= checkpoint THEN abs_seqno
        ELSE IF index_diff % Mod32 = 0 THEN checkpoint
        ELSE U64(abs_seqno + Mod32 * (index_diff \div Mod32 + 1))

\* Mutant of unwrap: the candidate before the checkpoint is never taken.
unwrap_forward(n, isn, checkpoint) == FirstAtOrAfter(n, isn, checkpoint)

unwrap(n, isn, checkpoint) ==
    LET abs_seqno == FirstAtOrAfter(n, isn, checkpoint)
    IN  IF U64(abs_seqno - checkpoint) < Half32 \/ ~(abs_seqno > Mod32)
        THEN abs_seqno
        ELSE abs_seqno - Mod32

\* How far two absolute numbers are apart, for what is said about unwrap.
Distance(a, b) == IF a >= b THEN a - b ELSE b - a
===============================================================================
