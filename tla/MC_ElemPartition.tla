-------------------------- MODULE MC_ElemPartition --------------------------
(* Copies of 4 to 8 elements, whole or running past either buffer, and   *)
(* fills of shared and fragment buffers, split over blocks of 2 and 4     *)
(* threads.                                                                *)
EXTENDS ElemPartition

R(m, e) == [min |-> m, extent |-> e]

Call(ss, sr, ds, dr) == [src_shape |-> ss, src_range |-> sr, dst_shape |-> ds, dst_range |-> dr]

\* 1-D copies of 4 or 8 elements at offsets 0 or 2 of buffers of 4 and 8
\* (so a region may run past its buffer), and one of 6 elements, which a
\* block of 4 does not divide.  Every copy has at least as many elements
\* as a block has threads (loop_partition.cc has no case for fewer).
Calls1D ==
    {Call(<<s>>, <<R(a, e)>>, <<d>>, <<R(b, e)>>) :
        s \in {4, 8}, d \in {4, 8}, a \in {0, 2}, b \in {0, 2}, e \in {4, 8}}
    \cup {Call(<<8>>, <<R(0, 6)>>, <<8>>, <<R(1, 6)>>)}

\* A 2x2 tile of a 4x4 buffer, at the corner or running past it, into the
\* middle of a 4-element row of a 2-D buffer (a unit row range).
Calls2D ==
    {Call(<<4, 4>>, <<R(a, 2), R(b, 2)>>, <<2, 2>>, <<R(0, 2), R(0, 2)>>) : a, b \in {0, 3}}
    \cup {Call(<<4, 4>>, <<R(1, 1), R(0, 4)>>, <<2, 4>>, <<R(1, 1), R(0, 4)>>)}

\* One that lowering rejects: more non-unit ranges in the destination.
CallsRankMismatch == {Call(<<4>>, <<R(0, 4)>>, <<2, 2>>, <<R(0, 2), R(0, 2)>>)}

MCCopyArgs == Calls1D \cup Calls2D \cup CallsRankMismatch

\* Fills of a 2x3 buffer (6 elements: a block of 2 divides it, one of 4
\* does not), of 4 and 8 elements, and of a 0-dimensional buffer, in
\* shared memory and in registers.
MCFillArgs == [shape : {<<2, 3>>, <<4>>, <<8>>, <<>>}, scope : {"shared", "local.fragment"}]

MCNumThreads == {2, 4}

=============================================================================
