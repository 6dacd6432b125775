------------------------- MODULE MC_FragmentAlgebra -------------------------
(* The fragments the tensor-core factories return at their smallest legal  *)
(* shapes, taken one Repeat, Replicate or DeReplicate further.            *)
EXTENDS FragmentAlgebra

\* lower_dim_first defaults to true in the Repeat declaration of layout.h.
MCLowerDimFirst == TRUE

MCBaseFragments ==
    { makeGemmFragment8x8,
      makeGemmFragment8x8Transposed,
      makeGemmFragmentC(16, 16, 16, 16, 16, MCLowerDimFirst),
      makeGemmFragmentA(16, 32, 16, 16, 16, MCLowerDimFirst),
      makeGemmFragmentB(32, 16, 16, 16, 8, MCLowerDimFirst) }

MCRepeatCounts == {<<1, 2>>, <<2, 1>>, <<2, 2>>}
MCReplicateCounts == {2, 3}
MCMaxSlots == 512
=============================================================================
