----------------------------- MODULE CopyRegions -----------------------------
(***************************************************************************)
(* Regions and values of a T.copy (tl/op/elem.cc), shared by the lowering *)
(* (ElemOps) and by what a copy promises (ElemSpec).  A region is a        *)
(* sequence of ranges [min, extent] over a buffer of the given shape; a    *)
(* copy is [src_shape, src_range, dst_shape, dst_range].                   *)
(***************************************************************************)
EXTENDS Layout

\* The value a copy stores: a load of the source at an index, or make_zero.
Load(idx) == [tag |-> "load", at |-> idx]
Zero == [tag |-> "zero", at |-> <<>>]

\* Fill::Fill's value (cast to the destination's dtype).
FillValue == [tag |-> "value", at |-> <<>>]

\* The points of a region and the row-major rank of a point in it.
RegionPoints(ranges) ==
    {[i \in 1..Len(ranges) |-> ranges[i].min + o[i]] :
        o \in Box([i \in 1..Len(ranges) |-> ranges[i].extent])}

Rank(ranges, p) ==
    LET ext == [i \in 1..Len(ranges) |-> ranges[i].extent]
    IN  SumFunction([i \in 1..Len(ranges) |-> (p[i] - ranges[i].min) * ProdOn(ext, i + 1..Len(ranges))])

InBuffer(shape, p) == \A i \in 1..Len(shape) : 0 <= p[i] /\ p[i] < shape[i]

\* What T.copy(src_region, dst_region) means: the k-th point of the
\* destination region (row-major) receives the k-th point of the source
\* region, or zero when that point lies outside the source buffer; a
\* destination point outside its buffer is skipped; nothing outside the
\* destination region is written, and no point is written twice.
CopyMeaning(c) ==
    {[dst |-> d, val |-> IF InBuffer(c.src_shape, s) THEN Load(s) ELSE Zero] :
        <<d, s>> \in {x \in RegionPoints(c.dst_range) \X RegionPoints(c.src_range) :
                      /\ InBuffer(c.dst_shape, x[1])
                      /\ Rank(c.dst_range, x[1]) = Rank(c.src_range, x[2])}}

\* What T.fill(buffer, value) means: every element of the buffer receives
\* the value.
FillMeaning(f) == {[dst |-> p, val |-> FillValue] : p \in Box(f.dst_shape)}

\* What a copy or fill call means.
Meaning(call) == IF call.kind = "fill" THEN FillMeaning(call) ELSE CopyMeaning(call)

=============================================================================
