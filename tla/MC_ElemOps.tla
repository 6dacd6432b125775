------------------------------ MODULE MC_ElemOps ------------------------------
(* T.copy and T.fill calls for ElemOps: 1-D and 2-D buffers of extent 2 to *)
(* 4, regions that start inside or run past their buffer.                  *)
EXTENDS ElemOps

R(m, e) == [min |-> m, extent |-> e]

Call(ss, sr, ds, dr) == [src_shape |-> ss, src_range |-> sr, dst_shape |-> ds, dst_range |-> dr]

\* A region's unit ranges name an index of its buffer (the caller's
\* responsibility: MakePredicate never guards them).
UnitsInside(shape, ranges) ==
    \A i \in 1..Len(ranges) : ranges[i].extent = 1 => ranges[i].min < shape[i]

\* 1-D copies of every length, offset and buffer size.
Calls1D ==
    {Call(<<s>>, <<R(a, e)>>, <<d>>, <<R(b, e)>>) :
        s \in {2, 4}, d \in {2, 4}, a \in 0..2, b \in 0..2, e \in 1..3}

\* 2-D copies: a row, a column or a 2x2 tile of a 4x4 buffer into a tile,
\* a vector or a row of a smaller buffer.
Calls2D ==
    {Call(<<4, 4>>, sr, ds, dr) :
        <<sr, ds, dr>> \in
          {<<<<R(a, 1), R(0, 4)>>, <<4>>, <<R(0, 4)>>>> : a \in 0..3}
          \cup {<<<<R(0, 4), R(a, 1)>>, <<2, 4>>, <<R(1, 1), R(0, 4)>>>> : a \in 0..3}
          \cup {<<<<R(a, 2), R(b, 2)>>, <<2, 2>>, <<R(0, 2), R(0, 2)>>>> : a \in 0..3, b \in 0..3}
          \cup {<<<<R(a, 2), R(1, 2)>>, <<3, 3>>, <<R(2, 2), R(2, 2)>>>> : a \in 0..1}}

\* Copies whose two sides have different numbers of non-unit ranges.
CallsRankMismatch ==
    {Call(<<4>>, <<R(0, 4)>>, <<2, 2>>, <<R(0, 2), R(0, 2)>>),
     Call(<<2, 2>>, <<R(0, 2), R(0, 2)>>, <<4>>, <<R(0, 4)>>)}

MCCopyArgs ==
    {c \in Calls1D \cup Calls2D \cup CallsRankMismatch :
        UnitsInside(c.src_shape, c.src_range) /\ UnitsInside(c.dst_shape, c.dst_range)}

\* Fills of 2-D, 1-D and 0-D buffers in shared memory and in registers.
MCFillArgs == [shape : {<<2, 3>>, <<4>>, <<>>}, scope : {"shared", Fragment_}]

\* A tile copied into a destination region of a different length.
MCExtentMismatchArgs == {Call(<<4>>, <<R(0, 4)>>, <<4>>, <<R(0, 2)>>)}

=============================================================================
