------------------------- MODULE FragmentFactories -------------------------
(***************************************************************************)
(* A client of the fragment API: it gets a fragment either from tl.Fragment *)
(* or from a GEMM factory of layout.cc, asked for the register fragment of *)
(* one block's A (block_m x block_k), B (block_k x block_n) or C (block_m *)
(* x block_n) over warps of warp_m x warp_n, and then applies Repeat,     *)
(* Replicate and DeReplicate to it (FragmentAlgebra).  A factory request  *)
(* either returns a fragment or aborts in one of the factory's ICHECKs    *)
(* (or in the ICHECK of a Replicate it calls).                            *)
(***************************************************************************)
EXTENDS GemmFragments

CONSTANTS
    Requests,               \* [kind, block_m, block_n, block_k, warp_m, warp_n, element_size]
    DefaultLowerDimFirst,   \* the default of Repeat's lower_dim_first (layout.h)
    BaseFragments, RepeatCounts, ReplicateCounts, MaxSlots   \* as in FragmentAlgebra

VARIABLES
    req,    \* the factory request served, if any
    frag,   \* the fragment the client holds
    stage   \* "idle", "built", "served", "transformed" or "failed"

vars == <<req, frag, stage>>

FA == INSTANCE FragmentAlgebra

NoRequest == [kind |-> "none"]
NoFragment == [shape |-> <<>>, rep |-> 0, index |-> <<>>, thread |-> <<>>]

\* FactoryOK without the Replicate's check for B.
FactoryOKNoReplicateCheck(r) ==
    CASE r.kind = "A" -> makeGemmFragmentAOK(r.block_m, r.block_n, r.block_k, r.warp_m, r.warp_n)
      [] r.kind = "B" -> makeGemmFragmentBOK(r.block_m, r.block_n, r.block_k, r.warp_m, r.warp_n)
      [] r.kind = "C" -> makeGemmFragmentCOK(r.block_m, r.block_n, r.warp_m, r.warp_n, r.element_size)
      [] r.kind = "VoltaA" -> makeGemmVoltaFragmentAOK(r.block_m, r.block_n, r.block_k, r.warp_m, r.warp_n)
      [] r.kind = "VoltaC" -> makeGemmVoltaFragmentCOK(r.block_m, r.block_n, r.warp_m, r.warp_n, r.element_size)

\* The factory's ICHECKs, and ICHECK(repeats >= 1) of the Replicate it
\* calls with block_n / warp_n (A) or block_m / warp_m (B).
FactoryOK(r) ==
    CASE r.kind = "A" -> makeGemmFragmentAOK(r.block_m, r.block_n, r.block_k, r.warp_m, r.warp_n)
      [] r.kind = "B" -> makeGemmFragmentBOK(r.block_m, r.block_n, r.block_k, r.warp_m, r.warp_n)
                         /\ r.block_m \div r.warp_m >= 1
      [] r.kind = "C" -> makeGemmFragmentCOK(r.block_m, r.block_n, r.warp_m, r.warp_n, r.element_size)
      [] r.kind = "VoltaA" -> makeGemmVoltaFragmentAOK(r.block_m, r.block_n, r.block_k, r.warp_m, r.warp_n)
      [] r.kind = "VoltaC" -> makeGemmVoltaFragmentCOK(r.block_m, r.block_n, r.warp_m, r.warp_n, r.element_size)

Factory(r) ==
    CASE r.kind = "A" -> makeGemmFragmentA(r.block_m, r.block_n, r.block_k, r.warp_m, r.warp_n, DefaultLowerDimFirst)
      [] r.kind = "B" -> makeGemmFragmentB(r.block_m, r.block_n, r.block_k, r.warp_m, r.warp_n, DefaultLowerDimFirst)
      [] r.kind = "C" -> makeGemmFragmentC(r.block_m, r.block_n, r.warp_m, r.warp_n, r.element_size, DefaultLowerDimFirst)
      [] r.kind = "VoltaA" -> makeGemmVoltaFragmentA(r.block_m, r.block_n, r.block_k, r.warp_m, r.warp_n, DefaultLowerDimFirst)
      [] r.kind = "VoltaC" -> makeGemmVoltaFragmentC(r.block_m, r.block_n, r.warp_m, r.warp_n, r.element_size, DefaultLowerDimFirst)

Init ==
    /\ req = NoRequest
    /\ frag = NoFragment
    /\ stage = "idle"

Serve ==
    \E r \in Requests :
        /\ stage = "idle"
        /\ FactoryOK(r)
        /\ req' = r
        /\ frag' = Factory(r)
        /\ stage' = "served"

\* tl.Fragment(forward_var, forward_index, forward_thread, thread_replicate).
Construct ==
    /\ stage = "idle"
    /\ frag' \in BaseFragments
    /\ stage' = "built"
    /\ UNCHANGED req

Abort ==
    \E r \in Requests :
        /\ stage = "idle"
        /\ ~FactoryOK(r)
        /\ req' = r
        /\ stage' = "failed"
        /\ UNCHANGED frag

\* One call of the fragment API on the fragment held.
Transform ==
    /\ stage \in {"built", "served", "transformed"}
    /\ \/ FA!DoRepeat
       \/ FA!DoReplicate
       \/ FA!DoDeReplicate
    /\ stage' = "transformed"
    /\ UNCHANGED req

Next == Construct \/ Serve \/ Abort \/ Transform

Spec == Init /\ [][Next]_vars

-----------------------------------------------------------------------------

Holding == stage \in {"built", "served", "transformed"}

TypeOK ==
    /\ stage \in {"idle", "built", "served", "transformed", "failed"}
    /\ Holding => FA!TypeOK

\* The operand tile a request's fragment is for.
Tile(r) ==
    CASE r.kind \in {"A", "VoltaA"} -> <<r.block_m, r.block_k>>
      [] r.kind = "B" -> <<r.block_k, r.block_n>>
      [] r.kind \in {"C", "VoltaC"} -> <<r.block_m, r.block_n>>

\* The threads of the block: one warp of 32 lanes per warp tile.
BlockThreads(r) == 32 * (r.block_m \div r.warp_m) * (r.block_n \div r.warp_n)

\* A fragment a factory returns covers exactly the operand tile it was
\* asked for and spreads it over exactly the block's threads, 32 lanes per
\* warp; a request the factory cannot serve that way aborts (spec section
\* 4.3: each factory asserts its shape parameters, section 8: no silent
\* truncation).
FactoryCoversTile ==
    stage = "served" =>
        /\ frag.shape = Tile(req)
        /\ ThreadExtent(frag) = BlockThreads(req)

\* Every fragment a chain of Repeat/Replicate/DeReplicate calls builds from
\* a factory's or tl.Fragment's fragment passes the ICHECK of
\* FragmentNode::Inverse: its (element, replica) -> (local index, thread)
\* map is a bijection onto [0, OutputShape) \X [0, ThreadExtent), so no two
\* lanes claim one register slot and every slot of every lane is owned.
FragmentInvertible == Holding => FA!FragmentInvertible

=============================================================================
