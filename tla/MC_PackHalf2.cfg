CONSTANT Halves <- MCHalves
SPECIFICATION Spec
INVARIANT PackIsHalf2Word
