---------------------------- MODULE SharedLayouts ----------------------------
(***************************************************************************)
(* The shared-memory layouts of layout.cc (src/unnamed/part_000): the XOR *)
(* swizzles, the padded layout, and the dispatchers makeGemmABLayout      *)
(* (tl.make_swizzled_layout) and makeGemmVoltaABLayout.  A caller asks for *)
(* the layout of a stride x continuous tile; the dispatcher picks a       *)
(* factory, whose ICHECKs on the shape abort the kernel ("failed").       *)
(***************************************************************************)
EXTENDS Layout, Bitwise

CONSTANTS
    Requests,        \* [stride, continuous, element_size, kfactor] of makeGemmABLayout
    VoltaRequests    \* [stride, continuous, is_a, kfactor] of makeGemmVoltaABLayout

VARIABLES
    req,      \* the request being served
    kind,     \* the factory the dispatcher chose
    layout,   \* the layout it returned
    stage     \* "idle", "built" or "failed"

vars == <<req, kind, layout, stage>>

NoLayout == [shape |-> <<>>, index |-> <<>>]

\* xor2x2, xor4x4, xor8x8: bitwise exclusive or of 1, 2 and 3 bit numbers
\* built from the sum mod 2 of their bits.
xor2x2(i, j) == (i + j) % 2

\* Mutant of xor4x4: the high and low bit exchanged.
xor4x4LowHigh(i, j) == 2 * xor2x2(i % 2, j % 2) + xor2x2(i \div 2, j \div 2)

xor4x4(i, j) == 2 * xor2x2(i \div 2, j \div 2) + xor2x2(i % 2, j % 2)

xor8x8(i, j) == 2 * xor4x4(i \div 2, j \div 2) + xor2x2(i % 2, j % 2)

\* makeGemmABLayoutHalfBank (2-bit swizzle of 16-byte vectors).
HalfBankOK(stride, continuous, vs) == stride % 8 = 0 /\ continuous % (vs * 4) = 0

\* Mutant of makeGemmABLayoutHalfBank: the column swizzled with the row in
\* its 4-row group, s % 4, instead of the row pair, s / 2.
makeGemmABLayoutHalfBankRowMod(stride, continuous, vs) ==
    Layout(<<stride, continuous>>,
           [p \in Box(<<stride, continuous>>) |->
              LET s == p[1] % 8
                  c == (p[2] \div vs) % 4
              IN  <<(p[2] \div vs) \div 4, p[1] \div 8,
                    (p[2] % vs) + (xor4x4(c, s % 4) + s * 4) * vs>>])

makeGemmABLayoutHalfBank(stride, continuous, vs) ==
    Layout(<<stride, continuous>>,
           [p \in Box(<<stride, continuous>>) |->
              LET s == p[1] % 8
                  c == (p[2] \div vs) % 4
              IN  <<(p[2] \div vs) \div 4, p[1] \div 8,
                    (p[2] % vs) + (xor4x4(c, s \div 2) + s * 4) * vs>>])

\* makeGemmABLayoutFullBank (3-bit swizzle of 16-byte vectors).
FullBankOK(stride, continuous, vs) == stride % 8 = 0 /\ continuous % (vs * 8) = 0

\* Mutant of makeGemmABLayoutFullBank: rows 4 vectors apart, as in the
\* half-bank layout.
makeGemmABLayoutFullBankRowStride4(stride, continuous, vs) ==
    Layout(<<stride, continuous>>,
           [p \in Box(<<stride, continuous>>) |->
              LET s == p[1] % 8
                  c == (p[2] \div vs) % 8
              IN  <<(p[2] \div vs) \div 8, p[1] \div 8,
                    (p[2] % vs) + (xor8x8(c, s) + s * 4) * vs>>])

makeGemmABLayoutFullBank(stride, continuous, vs) ==
    Layout(<<stride, continuous>>,
           [p \in Box(<<stride, continuous>>) |->
              LET s == p[1] % 8
                  c == (p[2] \div vs) % 8
              IN  <<(p[2] \div vs) \div 8, p[1] \div 8,
                    (p[2] % vs) + (xor8x8(c, s) + s * 8) * vs>>])

\* makeGemmABLayoutF64_Kinner, Swizzle<2, 0, 4>.
makeGemmABLayoutF64_Kinner(stride, continuous) ==
    Layout(<<stride, continuous>>,
           [p \in Box(<<stride, continuous>>) |->
              LET c == p[2] % 16
                  s == p[1] % 4
              IN  <<p[2] \div 16, p[1] \div 4,
                    (c \div 4) * 4 + xor4x4(c % 4, s) + s * 16>>])

\* makeGemmABLayoutF64_Kouter, Swizzle<2, 2, 2>.
makeGemmABLayoutF64_Kouter(stride, continuous) ==
    Layout(<<stride, continuous>>,
           [p \in Box(<<stride, continuous>>) |->
              LET c == p[2] % 16
                  s == p[1] % 4
              IN  <<p[2] \div 16, p[1] \div 4,
                    (c % 4) + xor4x4(c \div 4, s) * 4 + s * 16>>])

\* makeGemmABLayoutPadded: rows padded by 128 bits when a row is a
\* multiple of 256 bits.
\* Mutant of makeGemmABLayoutPadded: both iteration variables given the
\* extent stride.
makeGemmABLayoutPaddedSquare(stride, continuous, element_size) ==
    LET padded == IF (element_size * continuous) % 256 = 0
                  THEN continuous + 128 \div element_size ELSE continuous
    IN  Layout(<<stride, stride>>, [p \in Box(<<stride, stride>>) |-> <<p[1] * padded + p[2]>>])

makeGemmABLayoutPadded(stride, continuous, element_size) ==
    LET padded == IF (element_size * continuous) % 256 = 0
                  THEN continuous + 128 \div element_size ELSE continuous
    IN  Layout(<<stride, continuous>>, [p \in Box(<<stride, continuous>>) |-> <<p[1] * padded + p[2]>>])

\* makeGemmABLayout: the factory chosen, by element size, kfactor and
\* continuous alone.
ABLayoutKind(r) ==
    LET vs == 128 \div r.element_size
    IN  CASE r.element_size = 64 /\ r.kfactor = 1 /\ r.continuous % 16 = 0 -> "F64_Kouter"
          [] r.element_size = 64 /\ r.kfactor = 2 /\ r.continuous % 16 = 0 -> "F64_Kinner"
          [] r.element_size = 64 -> "Padded"
          [] r.kfactor = 1 /\ r.element_size = 8 -> "Padded"
          [] r.continuous % (vs * 8) = 0 -> "FullBank"
          [] r.continuous % (vs * 4) = 0 -> "HalfBank"
          [] OTHER -> "Padded"

\* The chosen factory's ICHECKs.
ABLayoutOK(r) ==
    LET vs == 128 \div r.element_size
    IN  CASE ABLayoutKind(r) = "FullBank" -> FullBankOK(r.stride, r.continuous, vs)
          [] ABLayoutKind(r) = "HalfBank" -> HalfBankOK(r.stride, r.continuous, vs)
          [] OTHER -> TRUE

makeGemmABLayout(r) ==
    LET vs == 128 \div r.element_size
    IN  CASE ABLayoutKind(r) = "F64_Kouter" -> makeGemmABLayoutF64_Kouter(r.stride, r.continuous)
          [] ABLayoutKind(r) = "F64_Kinner" -> makeGemmABLayoutF64_Kinner(r.stride, r.continuous)
          [] ABLayoutKind(r) = "FullBank" -> makeGemmABLayoutFullBank(r.stride, r.continuous, vs)
          [] ABLayoutKind(r) = "HalfBank" -> makeGemmABLayoutHalfBank(r.stride, r.continuous, vs)
          [] OTHER -> makeGemmABLayoutPadded(r.stride, r.continuous, r.element_size)

\* MakeGemmVoltaABLayoutCrosswise.
VoltaCrosswiseOK(stride, continuous) == stride % 32 = 0 /\ continuous % 32 = 0

MakeGemmVoltaABLayoutCrosswise(stride, continuous) ==
    Layout(<<stride, continuous>>,
           [p \in Box(<<stride, continuous>>) |->
             LET i == p[1]
                 vec_contiguous_idx == p[2] \div 4
                 vec_strided_within_tile == vec_contiguous_idx % 8
                 bit2 == ((i % 32) \div 16 + (i % 16) \div 8 + vec_strided_within_tile \div 4) % 2
                 bit1 == xor2x2((i % 8) \div 4, (vec_strided_within_tile % 4) \div 2)
                 permuted == (i \div 16) * 16 + (i % 4) * 4 + bit2 * 2 + bit1
             IN  <<(p[2] % 4) + permuted * 4 + vec_contiguous_idx * stride * 4>>])

\* MakeGemmVoltaALayoutCongruous and MakeGemmVoltaBLayoutCongruous differ
\* only in how the 8 vectors of a tile row are split into strided and
\* contiguous parts.
VoltaCongruousOK(stride, continuous) == stride % 4 = 0 /\ continuous % 64 = 0

MakeGemmVoltaLayoutCongruous(stride, continuous, is_a) ==
    Layout(<<stride, continuous>>,
           [p \in Box(<<stride, continuous>>) |->
             LET vec_contiguous_idx == p[2] \div 8
                 tile_contiguous_idx == vec_contiguous_idx \div 8
                 tile_strided_idx == p[1] \div 4
                 tile_contiguous_residual == vec_contiguous_idx % 8
                 tile_strided_residual == p[1] % 4
                 permuted_strided == IF is_a THEN tile_contiguous_residual \div 2
                                             ELSE tile_contiguous_residual % 4
                 permuted_contiguous ==
                     (IF is_a THEN (tile_contiguous_residual % 2) * 4
                              ELSE (tile_contiguous_residual \div 4) * 4)
                     + xor4x4(tile_strided_residual, permuted_strided)
                 element_strided == permuted_strided + tile_strided_idx * 4
                 element_contiguous == (p[2] % 8) + (permuted_contiguous + tile_contiguous_idx * 8) * 8
             IN  <<element_strided * continuous + element_contiguous>>])

\* makeGemmVoltaABLayout.
VoltaKind(r) ==
    CASE r.kfactor = 2 -> "VoltaCrosswise"
      [] r.continuous % 64 = 0 -> "VoltaCongruous"
      [] OTHER -> "Padded"

VoltaOK(r) ==
    CASE VoltaKind(r) = "VoltaCrosswise" -> VoltaCrosswiseOK(r.stride, r.continuous)
      [] VoltaKind(r) = "VoltaCongruous" -> VoltaCongruousOK(r.stride, r.continuous)
      [] OTHER -> TRUE

makeGemmVoltaABLayout(r) ==
    CASE VoltaKind(r) = "VoltaCrosswise" -> MakeGemmVoltaABLayoutCrosswise(r.stride, r.continuous)
      [] VoltaKind(r) = "VoltaCongruous" -> MakeGemmVoltaLayoutCongruous(r.stride, r.continuous, r.is_a)
      [] OTHER -> makeGemmABLayoutPadded(r.stride, r.continuous, 16)

-----------------------------------------------------------------------------

Init ==
    /\ req = [none |-> TRUE]
    /\ kind = "none"
    /\ layout = NoLayout
    /\ stage = "idle"

\* makeGemmABLayout (tl.make_swizzled_layout passes kfactor 0) returns.
ServeABLayout ==
    \E r \in Requests :
        /\ stage = "idle"
        /\ ABLayoutOK(r)
        /\ req' = r
        /\ kind' = ABLayoutKind(r)
        /\ layout' = makeGemmABLayout(r)
        /\ stage' = "built"

\* makeGemmVoltaABLayout aborts in the ICHECKs of the factory it picked.
VoltaLayoutFails ==
    \E r \in VoltaRequests :
        /\ stage = "idle"
        /\ ~VoltaOK(r)
        /\ req' = r
        /\ kind' = VoltaKind(r)
        /\ stage' = "failed"
        /\ UNCHANGED layout

\* makeGemmABLayout aborts in the ICHECKs of the factory it picked.
ABLayoutFails ==
    \E r \in Requests :
        /\ stage = "idle"
        /\ ~ABLayoutOK(r)
        /\ req' = r
        /\ kind' = ABLayoutKind(r)
        /\ stage' = "failed"
        /\ UNCHANGED layout

\* makeGemmVoltaABLayout returns.
ServeVoltaLayout ==
    \E r \in VoltaRequests :
        /\ stage = "idle"
        /\ VoltaOK(r)
        /\ req' = r
        /\ kind' = VoltaKind(r)
        /\ layout' = makeGemmVoltaABLayout(r)
        /\ stage' = "built"

Next == ServeABLayout \/ ABLayoutFails \/ ServeVoltaLayout \/ VoltaLayoutFails

Spec == Init /\ [][Next]_vars

-----------------------------------------------------------------------------

TypeOK ==
    /\ stage \in {"idle", "built", "failed"}
    /\ stage = "built" =>
         /\ DOMAIN layout.index = Box(<<req.stride, req.continuous>>)
         /\ \A p \in DOMAIN layout.index : layout.index[p] \in Seq(Nat)

\* xor2x2, xor4x4 and xor8x8, built from sums of bits mod 2, are the
\* bitwise exclusive or of their arguments over 1, 2 and 3 bits: a layout
\* a dispatcher returns applies the Swizzle<B, M, S> permutation it is
\* named after.
XorIsBitwise ==
    stage = "built" =>
        /\ \A i, j \in 0..1 : xor2x2(i, j) = i ^^ j
        /\ \A i, j \in 0..3 : xor4x4(i, j) = i ^^ j
        /\ \A i, j \in 0..7 : xor8x8(i, j) = i ^^ j

\* The shared-memory addresses of a tile's elements.
Addresses(L) == Range(GetFlattenedIndice(L))

\* Every layout a dispatcher returns gives each element of the tile its
\* own address, with every output starting at 0 (OutputShape's CHECK);
\* the swizzled layouts also fill [0, stride * continuous) with no gap,
\* so the buffer allocated from their OutputShape holds exactly the tile.
SharedLayoutSound ==
    stage = "built" =>
        LET size  == Cardinality(DOMAIN layout.index)
            addrs == Addresses(layout)
        IN  /\ OutputShapeOK(layout)
            /\ Cardinality(addrs) = size
            /\ kind # "Padded" => \A a \in addrs : a < size

\* Bits of an element for the bank check: the Volta dispatcher pads 16-bit
\* tiles.
ElementBits(r) == IF "element_size" \in DOMAIN r THEN r.element_size ELSE 16

\* A warp's ldmatrix phase reads one 16-byte vector from each of 8
\* consecutive rows at one column: for the 8-, 16- and 32-bit layouts of
\* makeGemmABLayout and makeGemmVoltaABLayout's padded fallback, those
\* vectors fall in 8 different 16-byte bank groups of a 128-byte line, so
\* the read is free of bank conflicts.
BankConflictFree ==
    (stage = "built" /\ kind \in {"FullBank", "HalfBank", "Padded"} /\ ElementBits(req) < 64) =>
        LET vs   == 128 \div ElementBits(req)
            rows == IF req.stride < 8 THEN req.stride ELSE 8
            flat == GetFlattenedIndice(layout)
            Bank(p) == (flat[p] \div vs) % 8
        IN  \A g \in 0..(req.stride \div rows) - 1, cv \in 0..(req.continuous \div vs) - 1 :
                Cardinality({Bank(<<g * rows + s, cv * vs>>) : s \in 0..rows - 1}) = rows

=============================================================================
