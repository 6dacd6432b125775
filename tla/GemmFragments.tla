---------------------------- MODULE GemmFragments ----------------------------
(***************************************************************************)
(* The tensor-core register-tile factories of layout.cc                    *)
(* (src/unnamed/part_000): atomic fragments and the block fragments the    *)
(* code composes from them with Repeat and Replicate.  A factory's ICHECKs *)
(* on its shape parameters are its precondition ...OK.                     *)
(***************************************************************************)
EXTENDS Layout

\* makeGemmFragment8x8: lane j \div 2 + 4 * i holds element (i, j) at j % 2.
makeGemmFragment8x8 ==
    Fragment(<<8, 8>>, 1, [p \in Box(<<8, 8>>) |-> <<p[2] % 2>>],
             [p \in Box(<<8, 8>>) |-> [r \in {0} |-> p[2] \div 2 + 4 * p[1]]])

\* makeGemmFragment8x8Transposed: the roles of i and j exchanged.
makeGemmFragment8x8Transposed ==
    Fragment(<<8, 8>>, 1, [p \in Box(<<8, 8>>) |-> <<p[1] % 2>>],
             [p \in Box(<<8, 8>>) |-> [r \in {0} |-> p[1] \div 2 + 4 * p[2]]])

makeGemmFragmentC_F64OK(block_m, block_n, warp_m, warp_n) ==
    /\ block_m % warp_m = 0 /\ block_n % warp_n = 0
    /\ warp_m % 16 = 0 /\ warp_n % 16 = 0

makeGemmFragmentC_F64(block_m, block_n, warp_m, warp_n) ==
    LET base_layout == makeGemmFragment8x8
        warp_layout == Repeat(base_layout, <<block_m \div warp_m, block_n \div warp_n>>,
                              TRUE, FALSE)
    IN  Repeat(warp_layout, <<warp_m \div 8, warp_n \div 8>>, FALSE, FALSE)

\* makeGemmFragmentC; element_size 64 goes to the F64 variant, with the
\* same checks.  Repeat({2, 1}, false) takes the header's default
\* lower_dim_first, DefaultLowerDimFirst.
makeGemmFragmentCOK(block_m, block_n, warp_m, warp_n, element_size) ==
    makeGemmFragmentC_F64OK(block_m, block_n, warp_m, warp_n)

\* makeGemmFragmentC with the warp-level repeat counts exchanged.
makeGemmFragmentCSwapped(block_m, block_n, warp_m, warp_n, element_size, DefaultLowerDimFirst) ==
    IF element_size = 64
    THEN makeGemmFragmentC_F64(block_m, block_n, warp_m, warp_n)
    ELSE LET base_layout == Repeat(makeGemmFragment8x8, <<2, 1>>, FALSE, DefaultLowerDimFirst)
             warp_layout == Repeat(base_layout, <<block_m \div warp_m, block_n \div warp_n>>,
                                   TRUE, FALSE)
         IN  Repeat(warp_layout, <<warp_n \div 8, warp_m \div 16>>, FALSE, FALSE)

makeGemmFragmentC(block_m, block_n, warp_m, warp_n, element_size, DefaultLowerDimFirst) ==
    IF element_size = 64
    THEN makeGemmFragmentC_F64(block_m, block_n, warp_m, warp_n)
    ELSE LET base_layout == Repeat(makeGemmFragment8x8, <<2, 1>>, FALSE, DefaultLowerDimFirst)
             warp_layout == Repeat(base_layout, <<block_m \div warp_m, block_n \div warp_n>>,
                                   TRUE, FALSE)
         IN  Repeat(warp_layout, <<warp_m \div 16, warp_n \div 8>>, FALSE, FALSE)

makeGemmFragmentAOK(block_m, block_n, block_k, warp_m, warp_n) ==
    /\ block_m % warp_m = 0 /\ block_n % warp_n = 0
    /\ warp_m % 16 = 0 /\ block_k % 16 = 0

\* makeGemmFragmentA: warps along n hold replicas of the same A tile.
makeGemmFragmentA(block_m, block_n, block_k, warp_m, warp_n, DefaultLowerDimFirst) ==
    LET base_layout == Repeat(makeGemmFragment8x8, <<2, 2>>, FALSE, FALSE)
        warp_layout == Replicate(Repeat(base_layout, <<block_m \div warp_m, 1>>,
                                        TRUE, DefaultLowerDimFirst),
                                 block_n \div warp_n)
    IN  Repeat(warp_layout, <<warp_m \div 16, block_k \div 16>>, FALSE, FALSE)

\* makeGemmFragmentB checks only warp_n and block_k: block_m \div warp_m
\* and block_n \div warp_n are taken as they come.
makeGemmFragmentBOK(block_m, block_n, block_k, warp_m, warp_n) ==
    /\ warp_n % 8 = 0 /\ block_k % 16 = 0

makeGemmFragmentB(block_m, block_n, block_k, warp_m, warp_n, DefaultLowerDimFirst) ==
    LET base_layout == Repeat(makeGemmFragment8x8Transposed, <<2, 1>>, FALSE, FALSE)
        warp_layout == Repeat(Replicate(base_layout, block_m \div warp_m),
                              <<1, block_n \div warp_n>>, TRUE, DefaultLowerDimFirst)
    IN  Repeat(warp_layout, <<block_k \div 16, warp_n \div 8>>, FALSE, TRUE)

\* makeGemmFragment32x32: the 32x32 Volta accumulator tile, one local index
\* and one lane per element, with a different bit interleaving for 16-bit
\* and 32-bit elements.
makeGemmFragment32x32OK(element_size) == element_size \in {16, 32}

makeGemmFragment32x32(element_size) ==
    LET thd(i, j) ==
            IF element_size = 16
            THEN (i % 4) + ((i % 16) \div 8) * 4 + ((j % 16) \div 8) * 8 + (i \div 16) * 16
            ELSE (i % 2) + 2 * ((j % 4) \div 2) + ((i % 16) \div 8) * 4
                 + ((j % 16) \div 8) * 8 + (i \div 16) * 16
        idx(i, j) ==
            IF element_size = 16
            THEN (j % 4) + (j \div 16) * 4 + ((i % 8) \div 4) * 8 + ((j % 8) \div 4) * 16
            ELSE (j % 2) + 2 * ((i % 4) \div 2) + (j \div 16) * 4
                 + ((i % 8) \div 4) * 8 + ((j % 8) \div 4) * 16
    IN  Fragment(<<32, 32>>, 1, [p \in Box(<<32, 32>>) |-> <<idx(p[1], p[2])>>],
                 [p \in Box(<<32, 32>>) |-> [r \in {0} |-> thd(p[1], p[2])]])

makeGemmVoltaFragmentCOK(block_m, block_n, warp_m, warp_n, element_size) ==
    /\ block_m % warp_m = 0 /\ block_n % warp_n = 0
    /\ warp_m % 32 = 0 /\ warp_n % 32 = 0
    /\ makeGemmFragment32x32OK(element_size)

makeGemmVoltaFragmentC(block_m, block_n, warp_m, warp_n, element_size, DefaultLowerDimFirst) ==
    LET warp_layout == Repeat(makeGemmFragment32x32(element_size),
                              <<warp_m \div 32, warp_n \div 32>>, FALSE, FALSE)
    IN  Repeat(warp_layout, <<block_m \div warp_m, block_n \div warp_n>>, TRUE,
               DefaultLowerDimFirst)

\* The 32x4 base fragment makeGemmVoltaFragmentA builds by hand, with a
\* replicate variable of extent 2 on lane bit 3.
VoltaFragmentABase ==
    Fragment(<<32, 4>>, 2,
             [p \in Box(<<32, 4>>) |-> <<p[2] + ((p[1] % 8) \div 4) * 4>>],
             [p \in Box(<<32, 4>>) |->
                [r \in 0..1 |-> ((p[1] % 16) \div 8) * 4 + 16 * (p[1] \div 16)
                                 + (p[1] % 4) + 8 * r]])

makeGemmVoltaFragmentAOK(block_m, block_n, block_k, warp_m, warp_n) ==
    /\ block_m % warp_m = 0 /\ block_n % warp_n = 0
    /\ warp_m % 32 = 0 /\ block_k % 4 = 0

makeGemmVoltaFragmentA(block_m, block_n, block_k, warp_m, warp_n, DefaultLowerDimFirst) ==
    LET warp_layout == Repeat(VoltaFragmentABase, <<warp_m \div 32, block_k \div 4>>,
                              FALSE, FALSE)
    IN  Repeat(Replicate(warp_layout, block_n \div warp_n),
               <<block_m \div warp_m, 1>>, TRUE, DefaultLowerDimFirst)

=============================================================================
