---------------------------- MODULE ElemPartition ----------------------------
(***************************************************************************)
(* A T.copy or T.fill through the lowering: Copy::Canonialize or         *)
(* Fill::Canonialize builds its parallel loop nest (ElemOps),              *)
(* PartitionLoop splits that nest over num_thread                          *)
(* threads with the default LoopPartitioner fragment (LoopPartition), and  *)
(* the threads of the block then run their serial loops, each iteration   *)
(* one step that performs the loop body at the loop values the inverse    *)
(* fragment gives back.  The threads' steps interleave in any order.       *)
(*                                                                         *)
(* The composition implements ElemSpec: what the kernel's threads write  *)
(* into the destination is what the call means, and all of it is written. *)
(* A fill of a local.fragment buffer is marked kSkipLayoutInfer and is    *)
(* partitioned by layout inference with the buffer's own fragment, which  *)
(* is outside this repository, so it is not handed to PartitionLoop here. *)
(***************************************************************************)
EXTENDS Layout

CONSTANTS
    CopyArgs,       \* the T.copy calls lowered
    FillArgs,       \* the T.fill calls lowered
    NumThreads      \* the block sizes num_thread the nest is split over

VARIABLES
    op, cstage, stores, skip_infer,          \* Copy lowering (ElemOps)
    nest, threads, frag, pstage, result,     \* PartitionLoop (LoopPartition)
    pc,     \* thread -> iterations of its serial nest it has run
    mem     \* the destination buffer: element -> value or Unwritten

lowering == <<op, cstage, stores, skip_infer>>
partition == <<nest, threads, frag, pstage, result>>
vars == <<lowering, partition, pc, mem>>

E == INSTANCE ElemOps WITH stage <- cstage
LP == INSTANCE LoopPartition WITH Nests <- {}, SuppliedFragments <- {}, stage <- pstage

Unwritten == [tag |-> "unwritten", at |-> <<>>]

\* Every thread a block of the largest num_thread can have.
ThreadIds == 0..Largest(NumThreads) - 1

\* The For statements Canonialize wraps around its body, outermost first:
\* one parallel loop [0, extent) per variable of MakeIterVars (Copy), or
\* per dimension of the buffer (Fill).
CanonializedNest(o) ==
    LET ext == IF o.kind = "fill" THEN o.dst_shape ELSE E!MakeIterVars(o.src_range)
    IN  [k \in 1..Len(ext) |-> [kind |-> LP!Parallel, min |-> 0, extent |-> ext[k]]]

\* The loop body of the lowered call at loop values vals.
Body(o, vals) == IF o.kind = "fill" THEN E!FillBody(vals) ELSE E!CopyBody(o, vals)

\* The n-th point (from 0) of a serial nest of extents ext, in the order
\* the loops run it.
LoopPoint(ext, n) == CHOOSE p \in Box(ext) : RowMajor(p, ext) = n

\* The value Substitute gives original loop m when thread t runs the new
\* loops at it: the inverse fragment's expression for a stripped loop, the
\* loop's own variable for one left in place.
LoopValues(t, it) ==
    LET d  == Len(result.subst)
        od == Len(result.loops) - (Len(nest) - d)
        key == <<SubSeq(it, 1, od), t>>
    IN  [m \in 1..Len(nest) |->
            IF m > d THEN nest[m].min + it[od + m - d]
            ELSE IF key \in DOMAIN result.subst[m] THEN result.subst[m][key]
                 ELSE LP!OutOfRange]

\* A set of stores applied to mem; an index outside the buffer extends it.
Apply(s, m) == [d \in {x.dst : x \in s} |-> (CHOOSE x \in s : x.dst = d).val] @@ m

Iterations == ProdOn(LP!Extents(result.loops), 1..Len(result.loops))

-----------------------------------------------------------------------------

Init ==
    /\ E!Init
    /\ nest = <<>>
    /\ threads = 0
    /\ frag = LP!NoFragment
    /\ pstage = "idle"
    /\ result = LP!NoResult
    /\ pc = <<>>
    /\ mem = <<>>

BuildCopy == E!BuildCopy /\ UNCHANGED <<partition, pc, mem>>
CanonializeCopy == E!CanonializeCopy /\ UNCHANGED <<partition, pc, mem>>
CanonializeCopyFails == E!CanonializeCopyFails /\ UNCHANGED <<partition, pc, mem>>
BuildFill == E!BuildFill /\ UNCHANGED <<partition, pc, mem>>
CanonializeFill == E!CanonializeFill /\ UNCHANGED <<partition, pc, mem>>
CanonializeFillFails == E!CanonializeFillFails /\ UNCHANGED <<partition, pc, mem>>

\* The lowered nest is handed to PartitionLoop.  A copy of one element
\* (no non-unit range) or a fill of a 0-dimensional buffer lowers to a
\* bare store, with no loop to partition.
HandOff ==
    /\ cstage = "done" /\ pstage = "idle"
    /\ ~skip_infer
    /\ CanonializedNest(op) # <<>>
    /\ nest' = CanonializedNest(op)
    /\ pstage' = "input"
    /\ UNCHANGED <<lowering, threads, frag, result, pc, mem>>

Partition == LP!DefaultPartition /\ UNCHANGED <<lowering, pc, mem>>

\* PartitionLoop rewrites the nest; the kernel is then launched with
\* num_thread threads, none of which has run yet.
PartitionLoop ==
    /\ LP!PartitionLoop
    /\ pc' = [t \in 0..threads - 1 |-> 0]
    /\ mem' = [p \in Box(op.dst_shape) |-> Unwritten]
    /\ UNCHANGED lowering

PartitionLoopFails == LP!PartitionLoopFails /\ UNCHANGED <<lowering, pc, mem>>

\* Thread t runs the next iteration of its serial nest: the loop body at
\* the loop values the substitution gives.
Exec(t) ==
    /\ pstage = "done"
    /\ t \in DOMAIN pc
    /\ pc[t] < Iterations
    /\ LET it == LoopPoint(LP!Extents(result.loops), pc[t])
       IN  mem' = Apply(Body(op, LoopValues(t, it)), mem)
    /\ pc' = [pc EXCEPT ![t] = @ + 1]
    /\ UNCHANGED <<lowering, partition>>

Next ==
    \/ BuildCopy \/ CanonializeCopy \/ CanonializeCopyFails
    \/ BuildFill \/ CanonializeFill \/ CanonializeFillFails \/ HandOff
    \/ Partition \/ PartitionLoop \/ PartitionLoopFails
    \/ \E t \in ThreadIds : Exec(t)

\* Every launched thread runs its loop to the end: a thread that can run
\* an iteration keeps being able to until it does.
Fairness == \A t \in ThreadIds : WF_vars(Exec(t))

Spec == Init /\ [][Next]_vars /\ Fairness

-----------------------------------------------------------------------------

TypeOK ==
    /\ cstage \in {"idle", "built", "done", "failed"}
    /\ pstage \in {"idle", "input", "partitioned", "done", "failed"}
    /\ pc \in [DOMAIN pc -> 0..Iterations]
    /\ pstage = "done" => DOMAIN mem = Box(op.dst_shape)

\* The call as the kernel's threads carry it out, seen as ElemSpec: it is
\* issued when PartitionLoop has rewritten the nest, and the buffer is
\* what the threads have written.
Abstract ==
    INSTANCE ElemSpec WITH
        Copies <- {[kind |-> "copy"] @@ c : c \in CopyArgs}
                  \cup {[kind |-> "fill", dst_shape |-> f.shape, scope |-> f.scope] : f \in FillArgs},
        call <- IF pstage = "done" THEN op ELSE [kind |-> "none"],
        mem <- IF pstage = "done" THEN mem ELSE <<>>

\* The lowered and partitioned copy or fill implements ElemSpec: each store
\* any thread performs writes an element of the destination region with the
\* value the call gives it (never outside the buffer, never a stale or
\* another thread's value), and under the threads' fairness every element
\* of the region is eventually written.
ElemRefinesSpec == Abstract!Spec

=============================================================================
