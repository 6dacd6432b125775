------------------------------- MODULE Layout -------------------------------
(***************************************************************************)
(* Layout and Fragment values of layout.cc (src/unnamed/part_000).        *)
(*                                                                         *)
(* The code keeps a layout as symbolic expressions over bound iteration    *)
(* variables and asks the arithmetic engine (arith::Analyzer,              *)
(* DetectIterMap, InverseAffineIterMap) for bounds and inverses.  Here a   *)
(* layout is kept by its values: every input variable has domain           *)
(* [0, extent) (make_itervar always builds Range(0, dom)), so a layout is  *)
(* the function from the points of its input box to its output tuples.     *)
(* The engine's int_set bound is taken to be exact and DetectIterMap's     *)
(* Bijective check to be the semantic one: the map is one-to-one and onto  *)
(* the output box [0, OutputShape).                                        *)
(*                                                                         *)
(*   Layout   == [shape: Seq(Nat), index: [Box(shape) -> Seq(Nat)]]        *)
(*   Fragment == Layout plus rep (ReplicateExtent) and                     *)
(*               thread: [Box(shape) \X 0..rep-1 -> Nat]                   *)
(***************************************************************************)
EXTENDS Integers, Sequences, FiniteSets, SequencesExt

\* The points of the box <<e1, ..., en>>: tuples p with 0 <= p[k] < e_k.
RECURSIVE Box(_)
Box(shape) ==
    IF shape = <<>> THEN {<<>>}
    ELSE {<<x>> \o q : x \in 0..Head(shape) - 1, q \in Box(Tail(shape))}

\* Product of the entries of s whose positions are in ks.
ProdOn(s, ks) == FoldFunctionOnSet(LAMBDA a, b : a * b, 1, s, ks)

\* arith::ZeroAwareGCD: Euclid's algorithm with gcd(0, b) = b.
RECURSIVE Gcd(_, _)
Gcd(a, b) == IF b = 0 THEN a ELSE Gcd(b, a % b)

\* The largest element of a finite set of integers: Min of the negated
\* set, which TLC finds in one pass where Max's CHOOSE takes two nested.
Largest(S) == -Min({-x : x \in S})

-----------------------------------------------------------------------------
(* LayoutNode *)

\* Layout::Layout: the output expressions, simplified, over the input box;
\* idx gives the output tuple at each point of Box(shape).
Layout(shape, idx) == [shape |-> shape, index |-> idx]

InputDim(L) == Len(L.shape)
InputShape(L) == L.shape
OutputDim(L) == Len(L.index[[k \in 1..InputDim(L) |-> 0]])

\* The values output k takes over the input box (analyzer.int_set).
OutputRange(L, k) == {L.index[p][k] : p \in DOMAIN L.index}

\* OutputShape's CHECK(is_one(ist.min())): every output starts at 0.
OutputShapeOK(L) == \A k \in 1..OutputDim(L) : Min(OutputRange(L, k)) = 0

\* (Taken as a tuple by SubSeq, so each extent is computed once.)
OutputShape(L) == SubSeq([k \in 1..OutputDim(L) |-> Largest(OutputRange(L, k)) + 1], 1, OutputDim(L))

\* Forward at constant input values.
Forward(L, vals) == L.index[vals]

\* The row-major offset of idx in a box of extents shp: the loop of
\* GetFlattenedIndice (result += index[i] * stride; stride *= shape[i],
\* from the last output back), as a recursion on the last output.
RECURSIVE RowMajor(_, _)
RowMajor(idx, shp) ==
    IF idx = <<>> THEN 0 ELSE RowMajor(Front(idx), Front(shp)) * Last(shp) + Last(idx)

\* LayoutNode::GetFlattenedIndice at every input point.
GetFlattenedIndice(L) ==
    LET shp == OutputShape(L)
    IN  [p \in DOMAIN L.index |-> RowMajor(L.index[p], shp)]

\* DetectIterMap(..., Bijective): the forward map is one-to-one and onto
\* the output box [0, OutputShape).
IsBijective(L) ==
    /\ OutputShapeOK(L)
    /\ Cardinality(Range(L.index)) = Cardinality(DOMAIN L.index)
    /\ Cardinality(DOMAIN L.index) = ProdOn(OutputShape(L), 1..OutputDim(L))

\* LayoutNode::Inverse, called only when IsBijective (its ICHECK): a layout
\* over fresh variables v0.. bounded by OutputShape back to the input
\* variables.  A variable the map does not determine has extent 1 and is 0.
LayoutInverse(L) ==
    LET shp == OutputShape(L)
    IN  [shape |-> shp,
         index |-> [v \in Box(shp) |->
                      CHOOSE p \in DOMAIN L.index : L.index[p] = v]]

-----------------------------------------------------------------------------
(* FragmentNode *)

\* Fragment::Fragment with explicit output indices and replicate variable:
\* idx[p] is the output tuple and thd[p][r] the thread of point p, replica r.
Fragment(shape, rep, idx, thd) ==
    [shape  |-> shape,
     rep    |-> rep,
     index  |-> idx,
     thread |-> [x \in Box(shape) \X (0..rep - 1) |-> thd[x[1]][x[2]]]]

ReplicateExtent(F) == F.rep

ThreadRange(F) == {F.thread[x] : x \in DOMAIN F.thread}

\* ThreadExtent's CHECK(is_one(ist.min())).
ThreadExtentOK(F) == Min(ThreadRange(F)) = 0

ThreadExtent(F) == Largest(ThreadRange(F)) + 1

ForwardThread(F, vals, r) == F.thread[<<vals, r>>]

\* FragmentNode::Inverse: the layout (inputs, rep) -> (indices, thread),
\* inverted by LayoutNode::Inverse.
FragmentAsLayout(F) ==
    [shape |-> F.shape \o <<F.rep>>,
     index |-> [q \in Box(F.shape \o <<F.rep>>) |->
                  F.index[Front(q)] \o <<F.thread[<<Front(q), Last(q)>>]>>]]

FragmentInverse(F) == LayoutInverse(FragmentAsLayout(F))

\* The ICHECK of Layout::Inverse on the fragment's layout.
CanInverse(F) == IsBijective(FragmentAsLayout(F))

\* Mutant of RepeatIndex: the stride loop multiplies repeat_stride by
\* repeats[i] before it is used, so quotient i is weighted by its own count.
RepeatIndexStrideFirst(shape, repeats, lower_dim_first, p) ==
    LET n == Len(shape)
        stride == [i \in 1..n |->
                     IF lower_dim_first THEN ProdOn(repeats, i..n)
                                        ELSE ProdOn(repeats, 1..i)]
    IN  SumFunction([i \in 1..n |-> stride[i] * (p[i] \div shape[i])])

\* The mixed-radix repeat index of Repeat: quotient i weighted by the
\* product of the repeats after it (lower_dim_first) or before it.
RepeatIndex(shape, repeats, lower_dim_first, p) ==
    LET n == Len(shape)
        stride == [i \in 1..n |->
                     IF lower_dim_first THEN ProdOn(repeats, i + 1..n)
                                        ELSE ProdOn(repeats, 1..i - 1)]
    IN  SumFunction([i \in 1..n |-> stride[i] * (p[i] \div shape[i])])

\* The ICHECKs Repeat passes before it builds its result.
RepeatOK(F, repeats, repeat_on_thread) ==
    /\ Len(repeats) = InputDim(F)
    /\ repeat_on_thread => ThreadExtentOK(F)
    /\ ~repeat_on_thread => OutputDim(F) = 1 /\ OutputShapeOK(F)

\* FragmentNode::Repeat.
Repeat(F, repeats, repeat_on_thread, lower_dim_first) ==
    LET n      == InputDim(F)
        newShp == [i \in 1..n |-> F.shape[i] * repeats[i]]
        Orig(p) == [i \in 1..n |-> p[i] % F.shape[i]]
        RI(p)   == RepeatIndex(F.shape, repeats, lower_dim_first, p)
        OldThd(x) == F.thread[<<Orig(x[1]), x[2]>>]
    IN  IF repeat_on_thread
        THEN LET ts == ThreadExtent(F)
             IN  Fragment(newShp, F.rep, [p \in Box(newShp) |-> F.index[Orig(p)]],
                          [p \in Box(newShp) |-> [r \in 0..F.rep - 1 |-> OldThd(<<p, r>>) + ts * RI(p)]])
        ELSE LET len == OutputShape(F)[1]
             IN  Fragment(newShp, F.rep,
                          [p \in Box(newShp) |-> <<F.index[Orig(p)][1] + len * RI(p)>>],
                          [p \in Box(newShp) |-> [r \in 0..F.rep - 1 |-> OldThd(<<p, r>>)]])

\* FragmentNode::Replicate; its ICHECK(repeats >= 1) is a guard of callers.
Replicate(F, repeats) ==
    LET ts == ThreadExtent(F)
    IN  Fragment(F.shape, F.rep * repeats, F.index,
                 [p \in Box(F.shape) |->
                    [r \in 0..F.rep * repeats - 1 |-> F.thread[<<p, r % F.rep>>] + ts * (r \div F.rep)]])

\* The ICHECK of DeReplicate, and the CHECK of the OutputShape it reads.
DeReplicateOK(F) == OutputDim(F) = 1 /\ OutputShapeOK(F)

\* Mutant of DeReplicate: the new replicate extent is written
\* rep_size % factor instead of rep_size / factor.
DeReplicateRemainder(F) ==
    LET factor == Gcd(F.rep, OutputShape(F)[1])
    IN  IF factor = 1 THEN F
        ELSE Fragment(F.shape, F.rep % factor,
                      [p \in Box(F.shape) |-> <<F.index[p][1] \div factor>>],
                      [p \in Box(F.shape) |->
                         [r \in 0..(F.rep % factor) - 1 |-> F.thread[<<p, r * factor + (F.index[p][1] % factor)>>]]])

\* FragmentNode::DeReplicate; both extents are constants in this model.
DeReplicate(F) ==
    LET factor == Gcd(F.rep, OutputShape(F)[1])
    IN  IF factor = 1 THEN F
        ELSE Fragment(F.shape, F.rep \div factor,
                      [p \in Box(F.shape) |-> <<F.index[p][1] \div factor>>],
                      [p \in Box(F.shape) |->
                         [r \in 0..(F.rep \div factor) - 1 |-> F.thread[<<p, r * factor + (F.index[p][1] % factor)>>]]])

=============================================================================
