------------------------------ MODULE PackHalf2 ------------------------------
(***************************************************************************)
(* tl_templates/common.h: __pack_half2 builds the 32-bit register operand *)
(* of two half_t values.  A half_t is kept as its 16-bit storage pattern   *)
(* (0 .. 2^16 - 1), which is what *(unsigned short * )&x reads; unsigned   *)
(* arithmetic is 32 bits wide: bits shifted past bit 31 are lost.          *)
(*                                                                         *)
(* A kernel packs pairs of halves one call at a time; the variables hold   *)
(* the last call's arguments and its result.                               *)
(***************************************************************************)
EXTENDS Integers, Bitwise

CONSTANT Halves     \* 16-bit patterns of the half_t values packed

VARIABLES x, y, packed

vars == <<x, y, packed>>

\* A 32-bit unsigned as its two 16-bit halves <<low, high>> (TLC's
\* integers are 32-bit signed, so the word is not kept as one number).
Half == 2^16

\* Mutant of AsUnsigned: the pattern read through a (short * ), so a set
\* sign bit is extended into the upper half of the unsigned.
AsUnsignedSignExtended(h) == <<h, IF h >= 2^15 THEN Half - 1 ELSE 0>>

\* unsigned v = *((unsigned short * )&h): the pattern, zero-extended.
AsUnsigned(h) == <<h, 0>>

\* v << 16 on a 32-bit unsigned: the low half moves up, the high half is
\* shifted out.
ShiftLeft16(v) == <<0, v[1]>>

\* a | b, half by half.
BitOr(a, b) == <<a[1] | b[1], a[2] | b[2]>>

\* __pack_half2(x, y): (v1 << 16) | v0.
PackHalf2(hx, hy) == BitOr(ShiftLeft16(AsUnsigned(hy)), AsUnsigned(hx))

Init ==
    /\ x = 0
    /\ y = 0
    /\ packed = <<0, 0>>

\* One call of __pack_half2 on two halves of the kernel.
Pack ==
    \E hx, hy \in Halves :
        /\ x' = hx
        /\ y' = hy
        /\ packed' = PackHalf2(hx, hy)

Spec == Init /\ [][Pack]_vars

-----------------------------------------------------------------------------

\* The bytes of half2 {x, y} in memory, little-endian: x's two bytes at
\* the lower addresses, then y's.
Half2Bytes(hx, hy) == <<hx % 2^8, hx \div 2^8, hy % 2^8, hy \div 2^8>>

\* The word a 32-bit load of those four bytes gives.
LoadWord(b) == <<b[1] + b[2] * 2^8, b[3] + b[4] * 2^8>>

\* The word __pack_half2 returns is the one an mma instruction would read
\* from the pair stored as a half2 in memory: x in the low 16 bits, y in
\* the high 16 bits, nothing of either half spilling into the other,
\* whatever the sign bits of the two halves.
PackIsHalf2Word == packed = LoadWord(Half2Bytes(x, y))

=============================================================================
