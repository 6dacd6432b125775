---------------------------- MODULE MC_PackHalf2 ----------------------------
EXTENDS PackHalf2

\* Patterns at the edges of each byte and of the sign bit: 0, the smallest
\* subnormal, 255 and 256, 1.0, the largest finite half, +inf, a NaN, -0,
\* -1.0 and all ones.
MCHalves == {0, 1, 255, 256, 15360, 31743, 31744, 32767, 32768, 48128, 65535}

=============================================================================
