--------------------------- MODULE FragmentAlgebra ---------------------------
(***************************************************************************)
(* A client of the Fragment API (the factories of layout.cc, layout        *)
(* inference, the tl.Fragment_* globals) holds a fragment and applies      *)
(* Repeat, Replicate and DeReplicate to it in any order.  Each step is one *)
(* call of FragmentNode; a call whose ICHECK would fail aborts the kernel  *)
(* and is not a step.  The question is whether every fragment so built is  *)
(* still one PartitionLoop and the codegen can invert: (element, replica)  *)
(* -> (local index, lane) one-to-one and onto [0, I) \X [0, T).            *)
(***************************************************************************)
EXTENDS GemmFragments

CONSTANTS
    BaseFragments,     \* fragments the factories return
    RepeatCounts,      \* the repeats arrays a caller passes to Repeat
    ReplicateCounts,   \* the counts a caller passes to Replicate
    MaxSlots           \* bound on (input points) * ReplicateExtent

VARIABLE frag

vars == <<frag>>

Slots(F) == Cardinality(DOMAIN F.thread)

Init == frag \in BaseFragments

\* Fragment_repeat(fragment, repeats, repeat_on_thread, lower_dim_first).
DoRepeat ==
    \E repeats \in RepeatCounts, repeat_on_thread, lower_dim_first \in BOOLEAN :
        /\ RepeatOK(frag, repeats, repeat_on_thread)
        /\ Slots(frag) * ProdOn(repeats, DOMAIN repeats) <= MaxSlots
        /\ frag' = Repeat(frag, repeats, repeat_on_thread, lower_dim_first)

\* Fragment_replicate(fragment, repeats), past its ICHECK(repeats >= 1).
DoReplicate ==
    \E n \in ReplicateCounts :
        /\ n >= 1
        /\ ThreadExtentOK(frag)
        /\ Slots(frag) * n <= MaxSlots
        /\ frag' = Replicate(frag, n)

\* FragmentNode::DeReplicate, past its ICHECK(OutputDim() == 1).
DoDeReplicate ==
    /\ DeReplicateOK(frag)
    /\ frag' = DeReplicate(frag)

Next == DoRepeat \/ DoReplicate \/ DoDeReplicate

Spec == Init /\ [][Next]_vars

-----------------------------------------------------------------------------

TypeOK ==
    /\ frag.shape \in Seq(Nat \ {0})
    /\ frag.rep \in Nat \ {0}
    /\ DOMAIN frag.index = Box(frag.shape)
    /\ DOMAIN frag.thread = Box(frag.shape) \X (0..frag.rep - 1)
    /\ \A p \in Box(frag.shape) : frag.index[p] \in Seq(Nat)

\* Every fragment a chain of Repeat/Replicate/DeReplicate calls builds from
\* a factory's fragment passes the ICHECK of FragmentNode::Inverse: its
\* (element, replica) -> (local index, thread) map is a bijection onto
\* [0, OutputShape) \X [0, ThreadExtent), so no two lanes claim one
\* register slot and every slot of every lane is owned.
FragmentInvertible == CanInverse(frag)

\* Spec section 8: Replicate(n) followed by DeReplicate() leaves the
\* ThreadExtent and OutputShape Replicate(n) produced whenever
\* gcd(ReplicateExtent(), n) = 1.
ReplicateDeReplicateNoOp ==
    \A n \in ReplicateCounts :
        (Gcd(frag.rep, n) = 1 /\ DeReplicateOK(frag)) =>
            LET R == Replicate(frag, n)
            IN  /\ OutputShape(DeReplicate(R)) = OutputShape(R)
                /\ ThreadExtent(DeReplicate(R)) = ThreadExtent(R)

=============================================================================
