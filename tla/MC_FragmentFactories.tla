------------------------ MODULE MC_FragmentFactories ------------------------
(* Requests for the A, B, C and Volta A fragments of blocks of one to four *)
(* warps, with warp tiles that divide the block and ones that do not, and *)
(* the atomic 8x8 fragments built directly, each taken through Repeat,    *)
(* Replicate and DeReplicate calls up to 512 register slots.              *)
EXTENDS FragmentFactories

MCBaseFragments == {makeGemmFragment8x8, makeGemmFragment8x8Transposed}
MCRepeatCounts == {<<1, 2>>, <<2, 1>>, <<2, 2>>}
MCReplicateCounts == {2, 3}
MCMaxSlots == 512

Req(k, bm, bn, bk, wm, wn, es) ==
    [kind |-> k, block_m |-> bm, block_n |-> bn, block_k |-> bk,
     warp_m |-> wm, warp_n |-> wn, element_size |-> es]

\* Blocks of 16 or 32 along m and n over warps of 8, 16 or 32 (so some
\* warp tiles exceed or do not divide the block, or are too narrow for
\* the atomic tile), a 24-wide block along n, and k of 8, 16 or 32.
Sizes ==
    {<<bm, bn, bk, wm, wn>> : bm \in {16, 32}, bn \in {16, 24, 32}, bk \in {8, 16, 32},
                              wm \in {16, 32}, wn \in {8, 16, 32}}

MCRequests ==
    {Req(k, s[1], s[2], s[3], s[4], s[5], 16) : k \in {"A", "C"}, s \in Sizes}
    \cup {Req("C", s[1], s[2], s[3], s[4], s[5], 64) : s \in Sizes}
    \cup {Req("B", s[1], s[2], s[3], s[4], s[5], 16) :
            s \in {x \in Sizes : x[2] % x[5] = 0 /\ (x[1] % x[4] = 0 \/ x[1] < x[4])}}
    \cup {Req("VoltaA", 32, 16, 4, 32, 16, 16), Req("VoltaA", 32, 32, 8, 32, 16, 16),
          Req("VoltaA", 16, 16, 4, 16, 16, 16)}
    \cup {Req("C", 64, 64, 16, 32, 32, 16)}
    \cup {Req("VoltaC", bm, bn, 0, wm, wn, es) :
            <<bm, bn, wm, wn, es>> \in {<<32, 32, 32, 32, 16>>, <<32, 32, 32, 32, 32>>,
                                      <<32, 32, 32, 32, 64>>, <<64, 32, 32, 32, 16>>,
                                      <<32, 64, 32, 32, 32>>, <<64, 32, 64, 32, 16>>,
                                      <<32, 32, 32, 16, 16>>}}

\* B with warp tiles that do not divide the block: 16 x 24 over warps of
\* 16 x 16, and 48 x 16 over warps of 32 x 16.
MCTruncatingBRequests ==
    {Req("B", 16, 24, 16, 16, 16, 16), Req("B", 48, 16, 16, 32, 16, 16)}

=============================================================================
