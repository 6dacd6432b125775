------------------------------- MODULE ElemOps -------------------------------
(***************************************************************************)
(* tl/op/elem.cc: Copy and Fill lowered by Canonialize into a parallel     *)
(* loop nest of one BufferStore.                                           *)
(*                                                                         *)
(* A region is a sequence of ranges [min, extent]; a buffer is its shape.  *)
(* The stores a lowered nest performs are kept as a set of records         *)
(* [dst |-> index tuple, val |-> Load(src index), Zero or FillValue].     *)
(* A bound check the analyzer proves over the loop range is left out of   *)
(* the predicate, as the code does: it matters once PartitionLoop gives   *)
(* the loop variables other values (ElemPartition).  Dtype casts are left *)
(* out.                                                                    *)
(***************************************************************************)
EXTENDS CopyRegions

CONSTANTS
    CopyArgs,     \* [src_shape, src_range, dst_shape, dst_range] of T.copy calls
    FillArgs      \* [shape, scope] of the buffers T.fill is called on

VARIABLES
    op,       \* the Copy or Fill being lowered
    stage,    \* "idle", "built", "done" or "failed" (ICHECK abort)
    stores,   \* the stores of the lowered loop nest
    skip_infer \* the outer For carries attr::kSkipLayoutInfer

vars == <<op, stage, stores, skip_infer>>

Fragment_ == "local.fragment"

NoOp == [kind |-> "none"]

IsOne(rg) == rg.extent = 1

\* Positions of the ranges whose extent is not 1, in order.
NonOne(ranges) == SelectSeq([i \in 1..Len(ranges) |-> i], LAMBDA i : ~IsOne(ranges[i]))

\* Copy::MakeIterVars: one loop variable per non-unit source range.
MakeIterVars(src_range) == [k \in 1..Len(NonOne(src_range)) |-> src_range[NonOne(src_range)[k]].extent]

\* Copy::MakeIndices: unit ranges contribute their min, the others min plus
\* the next loop variable; ICHECK(idx == ivs.size()) is IndicesOK.
IndicesOK(ranges, ivs) == Len(NonOne(ranges)) = Len(ivs)

\* Mutant of MakeIndices: unit ranges skipped as in MakeIterVars, so the
\* index has one entry per loop variable.
MakeIndicesSkipUnit(ranges, it) ==
    [k \in 1..Len(NonOne(ranges)) |-> ranges[NonOne(ranges)[k]].min + it[k]]

MakeIndices(ranges, it) ==
    LET pos == NonOne(ranges)
        Var(i) == CHOOSE k \in 1..Len(pos) : pos[k] = i
    IN  [i \in 1..Len(ranges) |->
            IF IsOne(ranges[i]) THEN ranges[i].min ELSE ranges[i].min + it[Var(i)]]

\* Mutant of MakePredicate: the upper bound check written min + iv <= extent.
MakePredicateInclusive(ranges, ivs, it, extents) ==
    LET pos == NonOne(ranges)
    IN  \A k \in 1..Len(pos) :
            LET rg == ranges[pos[k]]
                x  == rg.min + it[k]
            IN  /\ rg.min + ivs[k] - 1 <= extents[pos[k]] \/ x <= extents[pos[k]]
                /\ rg.min >= 0 \/ x >= 0

\* Copy::MakePredicate: for the k-th non-unit range, min + iv_k < extent
\* and min + iv_k >= 0, each left out when analyzer->CanProve shows it
\* over the loop range iv_k \in [0, ivs[k]) (a constant bound, which
\* kSymbolicBound decides exactly); it is the loop point.
MakePredicate(ranges, ivs, it, extents) ==
    LET pos == NonOne(ranges)
    IN  \A k \in 1..Len(pos) :
            LET rg == ranges[pos[k]]
                x  == rg.min + it[k]
            IN  /\ rg.min + ivs[k] - 1 < extents[pos[k]] \/ x < extents[pos[k]]
                /\ rg.min >= 0 \/ x >= 0

\* The body Copy::Canonialize puts in its loop nest, at loop point it: the
\* store to dst_indices under dst_predicate, of the load at src_indices
\* under src_predicate or make_zero.
CopyBody(c, it) ==
    LET ivs == MakeIterVars(c.src_range)
    IN  IF MakePredicate(c.dst_range, ivs, it, c.dst_shape)
        THEN {[dst |-> MakeIndices(c.dst_range, it),
               val |-> IF MakePredicate(c.src_range, ivs, it, c.src_shape)
                       THEN Load(MakeIndices(c.src_range, it)) ELSE Zero]}
        ELSE {}

\* Copy::Canonialize: the stores of the parallel nest over MakeIterVars.
CopyStores(c) == UNION {CopyBody(c, it) : it \in Box(MakeIterVars(c.src_range))}

\* Mutant of FillBody: the store indexed by the loop variables innermost
\* first.
FillBodyReversed(it) == {[dst |-> [k \in DOMAIN it |-> it[Len(it) + 1 - k]], val |-> FillValue]}

\* Fill::Canonialize's loop body at loop values it: the store of the value
\* at the index tuple of the loop variables.
FillBody(it) == {[dst |-> it, val |-> FillValue]}

\* Fill::Canonialize: one parallel loop [0, shape[i]) per dimension.
FillStores(shape) == UNION {FillBody(p) : p \in Box(shape)}

-----------------------------------------------------------------------------

Init ==
    /\ op = NoOp
    /\ stage = "idle"
    /\ stores = {}
    /\ skip_infer = FALSE

\* Copy::Copy: the regions of the two access pointers; CheckRangeEqual()
\* is evaluated and its answer dropped.
BuildCopy ==
    \E c \in CopyArgs :
        /\ stage = "idle"
        /\ op' = [kind |-> "copy"] @@ c
        /\ stage' = "built"
        /\ UNCHANGED <<stores, skip_infer>>

\* Fill::Fill.
BuildFill ==
    \E f \in FillArgs :
        /\ stage = "idle"
        /\ op' = [kind |-> "fill", dst_shape |-> f.shape, scope |-> f.scope]
        /\ stage' = "built"
        /\ UNCHANGED <<stores, skip_infer>>

\* Copy::Canonialize with as many non-unit ranges on both sides.
CanonializeCopy ==
    /\ stage = "built" /\ op.kind = "copy"
    /\ IndicesOK(op.dst_range, MakeIterVars(op.src_range))
    /\ stores' = CopyStores(op)
    /\ stage' = "done"
    /\ UNCHANGED <<op, skip_infer>>

\* Copy::Canonialize aborts in MakeIndices (ivs[idx] past the end, or
\* ICHECK(idx == ivs.size())).
CanonializeCopyFails ==
    /\ stage = "built" /\ op.kind = "copy"
    /\ ~IndicesOK(op.dst_range, MakeIterVars(op.src_range))
    /\ stage' = "failed"
    /\ UNCHANGED <<op, stores, skip_infer>>

\* Fill::Canonialize: one parallel loop per dimension around the store; on
\* a local.fragment buffer the outermost loop is marked kSkipLayoutInfer.
CanonializeFill ==
    /\ stage = "built" /\ op.kind = "fill"
    /\ ~(op.scope = Fragment_ /\ op.dst_shape = <<>>)
    /\ stores' = FillStores(op.dst_shape)
    /\ skip_infer' = (op.scope = Fragment_)
    /\ stage' = "done"
    /\ UNCHANGED op

\* Fill::Canonialize on a 0-dimensional local.fragment buffer: the body is a
\* bare BufferStore and body.as<For>().value() aborts.
CanonializeFillFails ==
    /\ stage = "built" /\ op.kind = "fill"
    /\ op.scope = Fragment_ /\ op.dst_shape = <<>>
    /\ stage' = "failed"
    /\ UNCHANGED <<op, stores, skip_infer>>

Next ==
    \/ BuildCopy \/ CanonializeCopy \/ CanonializeCopyFails
    \/ BuildFill \/ CanonializeFill \/ CanonializeFillFails

Spec == Init /\ [][Next]_vars

-----------------------------------------------------------------------------

TypeOK ==
    /\ stage \in {"idle", "built", "done", "failed"}
    /\ op.kind \in {"none", "copy", "fill"}
    /\ skip_infer \in BOOLEAN
    /\ \A s \in stores : s.dst \in [1..Len(op.dst_shape) -> Int] /\ s.val.tag \in {"load", "zero", "value"} /\ s.val.at \in Seq(Int)

\* The loop nest Copy::Canonialize emits (loop variables from the source's
\* non-unit ranges, indices from MakeIndices, guards from MakePredicate)
\* performs exactly the copy its two regions describe.  The constructor's
\* "check range equal" is evaluated and its answer dropped, so nothing
\* before Canonialize rejects regions that do not match.
CopyFaithful ==
    (stage = "done" /\ op.kind = "copy") =>
        /\ stores = CopyMeaning(op)
        /\ \A s1, s2 \in stores : s1.dst = s2.dst => s1 = s2

=============================================================================
