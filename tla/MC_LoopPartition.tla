-------------------------- MODULE MC_LoopPartition --------------------------
(* Loop chains of one to three loops with parallel loops outermost, as    *)
(* Copy/Fill and T.Parallel produce them, partitioned over 2 or 4 threads *)
(* or by a GEMM fragment over an 8x8 or 16x8 tile; some loops start     *)
(* above 0.                                                               *)
EXTENDS LoopPartition

PM(m, e) == [kind |-> Parallel, min |-> m, extent |-> e]
SM(m, e) == [kind |-> Serial, min |-> m, extent |-> e]
P(e) == PM(0, e)
S(e) == SM(0, e)

Size(n) == ProdOn(Extents(CollectedLoops(n)), 1..Len(CollectedLoops(n)))

\* One or two parallel loops, optionally around a serial loop, whose
\* parallel loops run at least as many iterations as the largest num_thread;
\* and nests whose parallel or serial loops start above 0, with extents no
\* supplied fragment has.
MCNests ==
    LET Ext == {2, 3, 4, 8}
        Par == {<<P(a)>> : a \in Ext} \cup {<<P(a), P(b)>> : a, b \in Ext}
    IN  {n \in Par \cup {q \o <<S(2)>> : q \in Par} : Size(n) >= 4}
        \cup {<<P(16), P(8)>>}
        \cup {<<PM(1, 4)>>, <<PM(4, 4)>>, <<P(2), PM(4, 2)>>, <<PM(2, 2), P(4)>>,
              <<P(4), SM(1, 2)>>, <<P(2), P(3), SM(3, 2)>>}

MCNumThreads == {2, 4}

\* A fragment with two local indices over a 4x4 tile: element (i, j) on
\* lane 2 * (i \div 2) + j \div 2 at local index (i % 2, j % 2).
TwoOutputFragment ==
    Fragment(<<4, 4>>, 1, [p \in Box(<<4, 4>>) |-> <<p[1] % 2, p[2] % 2>>],
             [p \in Box(<<4, 4>>) |-> [r \in {0} |-> 2 * (p[1] \div 2) + p[2] \div 2]])

MCSuppliedFragments ==
    { makeGemmFragment8x8, makeGemmFragment8x8Transposed,
      Repeat(makeGemmFragment8x8, <<2, 1>>, FALSE, TRUE),
      Replicate(makeGemmFragment8x8, 2), TwoOutputFragment }

MCTwoOutputNests == {<<P(4), P(4)>>}
MCTwoOutputFragments == {TwoOutputFragment}

\* An 8x8 parallel nest whose outer loop runs over [2, 10), partitioned by
\* the 8x8 GEMM fragment.
MCMinNests == {<<PM(2, 8), P(8)>>}
MCMinFragments == {makeGemmFragment8x8}

\* A parallel loop smaller than the block, and sizes 256 is not divisible by.
MCSmallNests == {<<P(2)>>, <<P(6)>>}
MCSmallNumThreads == {4}

\* A serial loop between two parallel loops.
MCSerialBetweenNests == {<<P(4), S(2), P(2)>>}
MCSerialBetweenNumThreads == {2}
=============================================================================
