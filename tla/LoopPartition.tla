---------------------------- MODULE LoopPartition ----------------------------
(***************************************************************************)
(* loop_partition.cc: PartitionLoop rewrites a parallel loop nest into a   *)
(* per-thread serial nest by inverting a Fragment over the nest's          *)
(* parallel loop variables; LoopPartitioner::Partition builds the default  *)
(* fragment (flattened index div / mod num_thread).                        *)
(*                                                                         *)
(* A nest is the chain of For statements from the outermost loop inward,  *)
(* each [kind, min, extent] (Copy/Fill Canonialize and T.Parallel build   *)
(* them with min 0); loop m binds variable m over [min, min + extent),    *)
(* and the innermost body reads every variable.  A fragment passed by the *)
(* caller is one of the GEMM fragments over the nest's parallel extents,  *)
(* whose input variables range from 0 (part_000 make_itervar).            *)
(***************************************************************************)
EXTENDS GemmFragments

CONSTANTS
    Nests,              \* loop chains handed to PartitionLoop
    NumThreads,         \* num_thread of the default partition
    SuppliedFragments   \* fragments a caller passes instead of the default

VARIABLES
    nest,       \* the input loop chain
    threads,    \* extent of the thread variable the caller binds
    frag,       \* the fragment PartitionLoop inverts
    stage,      \* "input", "partitioned", "done" or "failed" (ICHECK abort)
    result      \* the rewritten chain: [loops, subst]

vars == <<nest, threads, frag, stage, result>>

Parallel == "parallel"
Serial == "serial"
Unrolled == "unrolled"

NoFragment == [shape |-> <<>>, rep |-> 0, index |-> <<>>, thread |-> <<>>]
NoResult == [loops |-> <<>>, subst |-> <<>>]

Extents(loops) == [m \in 1..Len(loops) |-> loops[m].extent]
Mins(loops) == [m \in 1..Len(loops) |-> loops[m].min]

\* LoopPartitioner::VisitStmt_: every parallel For the visitor reaches,
\* through serial loops as well, in visiting order.
CollectedLoops(n) == SelectSeq(n, LAMBDA l : l.kind = Parallel)
CollectedPositions(n) == SelectSeq([m \in 1..Len(n) |-> m], LAMBDA m : n[m].kind = Parallel)

\* LoopPartitioner::Partition: flattened = row-major index over the
\* collected loop variables, whose values are min + p at point p of the
\* fragment's domain Range::FromMinExtent(min, extent); index flattened div
\* num_thread, thread flattened mod num_thread, no replication.  The "Not Implemented case" ICHECK of a
\* string literal never fails, so a size not divisible by num_thread
\* passes through.
Partition(n, num_thread) ==
    LET ext == Extents(CollectedLoops(n))
        lo  == Mins(CollectedLoops(n))
        k   == Len(ext)
        Flat(p) == SumFunction([i \in 1..k |-> (lo[i] + p[i]) * ProdOn(ext, i + 1..k)])
    IN  Fragment(ext, 1, [p \in Box(ext) |-> <<Flat(p) \div num_thread>>],
                 [p \in Box(ext) |-> [r \in {0} |-> Flat(p) % num_thread]])

\* LoopPramaUnroller: the first serial For met from the top becomes
\* unrolled and is returned without visiting its body; other loops are
\* visited.
RECURSIVE LoopPragmaUnroll(_)
LoopPragmaUnroll(loops) ==
    IF loops = <<>> THEN <<>>
    ELSE IF Head(loops).kind = Serial
         THEN <<[Head(loops) EXCEPT !.kind = Unrolled]>> \o Tail(loops)
         ELSE <<Head(loops)>> \o LoopPragmaUnroll(Tail(loops))

\* Mutant of PartitionLoopResult: the new loops take the largest index
\* (int_set(e).max()) as their extent instead of OutputShape's max + 1.
PartitionLoopResultShapeMax(n, F) ==
    LET inv  == FragmentInverse(F)
        old  == InputDim(F)
        newd == OutputDim(F)
        news == [i \in 1..newd |-> [kind |-> Serial, min |-> 0, extent |-> inv.shape[i] - 1]]
    IN  [loops |-> LoopPragmaUnroll(news \o SubSeq(n, old + 1, Len(n))),
         subst |-> [i \in 1..old |->
                      [x \in Box(SubSeq(inv.shape, 1, newd)) \X (0..inv.shape[newd + 1] - 1) |->
                         Forward(inv, x[1] \o <<x[2]>>)[i]]]]

\* Mutant of PartitionLoopResult: the loop stripping runs to new_loop_depth
\* (OutputDim) instead of old_loop_depth (InputDim).
PartitionLoopResultStripOutputDim(n, F) ==
    LET inv  == FragmentInverse(F)
        old  == OutputDim(F)
        newd == OutputDim(F)
        news == [i \in 1..newd |-> [kind |-> Serial, min |-> 0, extent |-> inv.shape[i]]]
    IN  [loops |-> LoopPragmaUnroll(news \o SubSeq(n, old + 1, Len(n))),
         subst |-> [i \in 1..old |->
                      [x \in Box(SubSeq(inv.shape, 1, newd)) \X (0..inv.shape[newd + 1] - 1) |->
                         Forward(inv, x[1] \o <<x[2]>>)[i]]]]

\* PartitionLoop(op, thread, analyzer, loop_layout) past the ICHECK of
\* Inverse: strip InputDim() For statements of any kind, map stripped
\* variable i to indices[i] of the inverse at (new vars, thread), wrap the
\* body in OutputDim() serial loops bounded by the inverse's InputShape and
\* unroll.  The inverse gives the value of the fragment's own input variable
\* and nothing adds the stripped loop's min to it: for a fragment over
\* [0, extent) the variable runs from 0 whatever the loop's min.  (For the
\* default fragment over a loop with min # 0 the index's minimum is not 0,
\* so Inverse aborts before this is reached.)
PartitionLoopResult(n, F) ==
    LET inv  == FragmentInverse(F)
        old  == InputDim(F)
        newd == OutputDim(F)
        news == [i \in 1..newd |-> [kind |-> Serial, min |-> 0, extent |-> inv.shape[i]]]
    IN  [loops |-> LoopPragmaUnroll(news \o SubSeq(n, old + 1, Len(n))),
         subst |-> [i \in 1..old |->
                      [x \in Box(SubSeq(inv.shape, 1, newd)) \X (0..inv.shape[newd + 1] - 1) |->
                         Forward(inv, x[1] \o <<x[2]>>)[i]]]]

-----------------------------------------------------------------------------

Init ==
    /\ nest \in Nests
    /\ threads = 0
    /\ frag = NoFragment
    /\ stage = "input"
    /\ result = NoResult

\* PartitionLoop(op, thread, analyzer, num_thread): the default fragment.
DefaultPartition ==
    \E num_thread \in NumThreads :
        /\ stage = "input"
        /\ frag' = Partition(nest, num_thread)
        /\ threads' = num_thread
        /\ stage' = "partitioned"
        /\ UNCHANGED <<nest, result>>

\* A caller passes its own fragment over the nest's parallel loops and binds
\* the thread variable to the fragment's thread extent.
SupplyFragment ==
    \E F \in SuppliedFragments :
        /\ stage = "input"
        /\ F.shape = Extents(CollectedLoops(nest))
        /\ frag' = F
        /\ threads' = ThreadExtent(F)
        /\ stage' = "partitioned"
        /\ UNCHANGED <<nest, result>>

\* PartitionLoop: the fragment inverts, and the nest is rewritten.
PartitionLoop ==
    /\ stage = "partitioned"
    /\ CanInverse(frag)
    /\ result' = PartitionLoopResult(nest, frag)
    /\ stage' = "done"
    /\ UNCHANGED <<nest, threads, frag>>

\* PartitionLoop aborts in the ICHECK of LayoutNode::Inverse.
PartitionLoopFails ==
    /\ stage = "partitioned"
    /\ ~CanInverse(frag)
    /\ stage' = "failed"
    /\ UNCHANGED <<nest, threads, frag, result>>

Next == DefaultPartition \/ SupplyFragment \/ PartitionLoop \/ PartitionLoopFails

Spec == Init /\ [][Next]_vars

-----------------------------------------------------------------------------

TypeOK ==
    /\ nest \in Seq([kind : {Parallel, Serial}, min : Nat, extent : Nat \ {0}])
    /\ threads \in Nat
    /\ stage \in {"input", "partitioned", "done", "failed"}
    /\ result.loops \in Seq([kind : {Parallel, Serial, Unrolled}, min : Nat, extent : Nat \ {0}])

\* Outside the thread range the inverse was built for there is no
\* iteration of the original nest: the code evaluates the inverse
\* expressions at a thread they do not cover.
OutOfRange == -1

\* The iterations the rewritten nest runs: thread t, the points it of its
\* loops, and the value a[m] it gives the variable of original loop m (a
\* loop left in place runs from its own min).
Executions ==
    LET d  == Len(result.subst)
        od == Len(result.loops) - (Len(nest) - d)
        Val(m, t, it) ==
            IF m > d THEN nest[m].min + it[od + m - d]
            ELSE IF <<SubSeq(it, 1, od), t>> \in DOMAIN result.subst[m]
                 THEN result.subst[m][<<SubSeq(it, 1, od), t>>]
                 ELSE OutOfRange
    IN  {[t |-> t, a |-> [m \in 1..Len(nest) |-> Val(m, t, it)]] :
            t \in 0..threads - 1, it \in Box(Extents(result.loops))}

\* What the fragment asks for: each iteration a of the original nest (loop
\* m from its min), once for each replica r, on the thread the fragment
\* assigns to the position of a's parallel variables in their loops.
Expected ==
    LET pos == CollectedPositions(nest)
        lo  == Mins(nest)
    IN  {<<ForwardThread(frag, [i \in 1..Len(pos) |-> o[pos[i]]], r),
           [m \in 1..Len(nest) |-> lo[m] + o[m]]>> :
            o \in Box(Extents(nest)), r \in 0..frag.rep - 1}

\* A nest PartitionLoop rewrites runs every iteration of the original nest
\* exactly once per replica, on the thread the fragment assigns to it, and
\* nothing else: the stripped loops are the fragment's loops, the inverse
\* undoes the fragment, the new serial loops cover its local indices, and
\* every variable keeps its loop's range [min, min + extent).
PartitionLoopFaithful ==
    stage = "done" =>
        LET ran == {<<e.t, e.a>> : e \in Executions}
        IN  /\ ran = Expected
            /\ Cardinality(Executions) = Cardinality(Expected)

\* Every serial loop PartitionLoop creates over the fragment's local
\* indices is marked for unrolling (spec section 4: thread-partitioned
\* loops always unroll), which LoopPragmaUnroll is called to do.
PartitionedLoopsUnrolled ==
    stage = "done" =>
        \A i \in 1..OutputDim(frag) : result.loops[i].kind = Unrolled

=============================================================================
