# TLA+ models of the layout, fragment and loop-partition core

This directory holds TLA+ models of the tile-layout core of the repository. The model checker is TLC.

| Source | Contents |
|---|---|
| `src/unnamed/part_000` | `layout.cc` |
| `src/src/tl/loop_partition.cc` | loop partitioning |
| `src/src/tl/op/elem.cc` | Copy/Fill lowering |
| `src/src/tl/tl_templates/common.h` | device helper |

Each module states what the code computes. Each `MC_*.tla` / `*.cfg` pair makes TLC check a property of it. `PROJECT.json` records:
- the runs;
- the mutants that show each property can fail;
- the source lines every definition translates;
- the findings and the hazards.

## 1. The system

The code is a compile-time library. It runs in one thread, inside one call of the compiler. It has no I/O and no persistence, so nothing here models crashes or messages. The one place concurrency enters is the code it generates: the loop nest PartitionLoop emits is run by every thread of a block at once. `ElemPartition` models that run as interleaved per-thread steps, because a lowering is only correct if its threads together do what the copy or fill means.

Its "processes" are sequences of calls. One component hands a value to the next:

```
  factories (makeGemmFragment*, makeGemmABLayout*)         layout.cc
        |  Fragment / Layout values
        v
  Fragment algebra: Repeat, Replicate, DeReplicate, Inverse  layout.cc
        |  a Fragment over a loop nest (or the default one)
        v
  PartitionLoop / LoopPartitioner::Partition           loop_partition.cc
        ^  parallel loop nests
        |
  Copy / Fill ::Canonialize                             op/elem.cc
        :
        v  (ElemPartition: the partitioned copy or fill, run by the block's threads)

  __pack_half2                              tl_templates/common.h
```

### Components

- **Layout.** A map from a box of input variables `[0, extent)` to output index tuples. Its operations are `InputShape`, `OutputShape` (which CHECKs that every output starts at 0), `Forward`, `Inverse` (which ICHECKs bijectivity through the external engine) and `GetFlattenedIndice`.
- **Fragment.** A Layout plus two things: a thread expression, and a replicate variable of extent `ReplicateExtent`.
  - `Repeat` tiles the input box. The repeat index goes either to the thread or to the local index, in one of two stride orders.
  - `Replicate` multiplies the replicate extent.
  - `DeReplicate` folds `gcd(rep, OutputShape[0])` of the replicas back into the local index.
  - `Inverse` inverts `(element, replica) -> (index, thread)`.
- **GEMM fragment factories.** These build tensor-core register tiles by composing `Repeat`/`Replicate` over an atom: the 8x8 one, or the 32x32 Volta accumulator tile (`makeGemmFragment32x32`) for Volta C. Each checks its shape arguments with ICHECKs.
- **Shared-memory layouts.** These are the XOR swizzles (`xor2x2`, `xor4x4`, `xor8x8`), the half-bank, full-bank, F64, padded and Volta layouts, and two dispatchers:
  - `makeGemmABLayout`, also called as `tl.make_swizzled_layout`;
  - `makeGemmVoltaABLayout`.
- **PartitionLoop.** It rewrites a parallel loop nest into one serial nest per thread, in five steps:
  1. invert the fragment;
  2. strip `InputDim()` loops;
  3. substitute the inverse;
  4. wrap the body in `OutputDim()` serial loops;
  5. unroll.

  `LoopPartitioner::Partition` builds the default fragment: the row-major index over the collected parallel loops, div and mod `num_thread`.
- **Copy/Fill lowering.** `Copy::Canonialize` turns a region-to-region copy into a parallel nest of one guarded `BufferStore`. `Fill` stores one value to every element, and marks the nest `kSkipLayoutInfer` on a `local.fragment` buffer.
- **`__pack_half2`.** A device helper that packs two `half_t` into the 32-bit operand of an mma instruction.

Not in this repository: the expression engine (`arith::Analyzer`, `DetectIterMap`, `InverseAffineIterMap`) and `layout.h`. The model takes the engine's bounds as exact and its bijectivity check and inverse as semantic. `layout.h` holds `InputDim`, `OutputDim`, `ReplicateExtent` and the default of `lower_dim_first`. The default is taken as `TRUE` and passed explicitly (`DefaultLowerDimFirst`).

### What must hold

- A fragment that any chain of calls builds stays invertible. The codegen and PartitionLoop rely on this.
- PartitionLoop runs every iteration of the original nest exactly once per replica. It runs each one on the thread the fragment assigns, and runs nothing else.
- A lowered copy writes exactly its destination region from its source region. Once partitioned over threads, it still does, whatever order the threads run in, and it writes all of the region.
- `__pack_half2` produces the same word as the pair stored as a `half2`.
- The shared-memory layouts give every element its own address. The swizzled ones fill their buffer, and they are free of bank conflicts for `ldmatrix`.

## 2. Modules

| Module | Models | State | Actions |
|---|---|---|---|
| `Layout` | LayoutNode and FragmentNode operations of `layout.cc` | operators only | none |
| `GemmFragments` | the register-tile factories | operators only | none |
| `FragmentAlgebra` | a client applying Fragment calls in any order | `frag` | `DoRepeat`, `DoReplicate`, `DoDeReplicate` (`tl.Fragment_repeat`, `tl.Fragment_replicate`, `FragmentNode::DeReplicate`) |
| `FragmentFactories` | a client that asks a GEMM factory (or `tl.Fragment`) for a fragment and then applies FragmentAlgebra's calls; composes `GemmFragments` and `FragmentAlgebra` | `req`, `frag`, `stage` | `Construct`, `Serve`, `Abort`, `Transform` (FragmentAlgebra's three calls) |
| `LoopPartition` | `loop_partition.cc` | `nest`, `threads`, `frag`, `stage`, `result` | `DefaultPartition`, `SupplyFragment`, `PartitionLoop`, `PartitionLoopFails` |
| `CopyRegions` | regions, copy values and `CopyMeaning` | operators only | none |
| `ElemOps` | `op/elem.cc` | `op`, `stage`, `stores`, `skip_infer` | `BuildCopy`, `CanonializeCopy`, `CanonializeCopyFails`, `BuildFill`, `CanonializeFill`, `CanonializeFillFails` |
| `ElemSpec` | what a copy or fill promises (abstract) | `call`, `mem` | `Issue`, `Write` |
| `ElemPartition` | ElemOps and LoopPartition composed, and the block's threads running the result | both modules' variables, `pc`, `mem` | ElemOps' Copy and Fill actions, `HandOff`, `Partition`, `PartitionLoop`, `PartitionLoopFails`, `Exec(t)` |
| `PackHalf2` | `__pack_half2` | `x`, `y`, `packed` | `Pack` |
| `SharedLayouts` | the swizzle, padded and Volta layouts and their dispatchers | `req`, `kind`, `layout`, `stage` | `ServeABLayout`, `ABLayoutFails`, `ServeVoltaLayout`, `VoltaLayoutFails` |

### Representation

- **Layout.** A layout is the record `[shape, index]`, where `index` is the function from `Box(shape)` to output tuples.
- **Fragment.** A fragment adds `rep` and `thread : Box(shape) \X 0..rep-1 -> Nat`.
- **Factory output.** A factory's symbolic expressions are evaluated at every input point. This abstraction is exact because `make_itervar` always builds `Range(0, extent)`, and every expression is integer arithmetic with floor division and modulo.
- **OutputShape / ThreadExtent.** These are the maximum plus 1 over the box. Their CHECKs that the minimum is 0 are the predicates `OutputShapeOK` and `ThreadExtentOK`.
- **ICHECK.** A failing ICHECK aborts the compilation. It is either a guard that keeps an action from being taken, or an explicit `"failed"` stage when the abort is the outcome being modelled:
  - `PartitionLoopFails`;
  - `CanonializeCopyFails`;
  - `ABLayoutFails`;
  - `VoltaLayoutFails`.
- **PartitionLoop result.** The rewritten nest is `[loops, subst]`:
  - `loops` is the new loop chain, with kinds parallel, serial or unrolled;
  - `subst[m]` gives stripped loop `m`'s value as a function of the new serial variables and the thread.

  `Executions` enumerates what the rewritten nest runs. `Expected` is what the fragment asks for.
- **Copy/Fill lowering.** A lowered Copy/Fill is the set of stores its loop nest performs; `CopyBody(c, it)` is the store at one loop point. `MakePredicate` leaves out each bound check `CanProve` shows over the loop variable's range `[0, extent)`, as the code does. With constant bounds that decision is exact: `min + extent - 1 < bound` for the upper check and `min >= 0` for the lower. Inside the loop range a left-out check could not fail. It matters once PartitionLoop substitutes other expressions for the loop variables.
- **Composition.** `ElemPartition` instances `ElemOps` and `LoopPartition` with their variables and reuses their actions.
  - `HandOff` passes Copy's or Fill's For nest to PartitionLoop's default partition. A fill of a `local.fragment` buffer is not handed on: it carries `kSkipLayoutInfer`, and layout inference, which is not in this repository, partitions it with the buffer's own fragment.
  - `PartitionLoop` also launches `num_thread` threads with `pc[t] = 0`.
  - `Exec(t)` is one iteration of thread `t`'s serial nest, in the order the loops run (row-major). It performs `CopyBody` or `FillBody` at the values the substitution gives the original loop variables.
  - A store outside the destination buffer extends `mem`'s domain, so it shows up in `TypeOK` and in the refinement.
- **Refinement.** `ElemSpec` is the abstract copy or fill: once issued, elements are written one at a time with `Meaning`'s values (`CopyMeaning`, or `FillMeaning`: the value at every element), and all of them eventually. `ElemPartition` maps onto it:
  - `call` is the copy or fill once PartitionLoop has succeeded, `NoCall` before;
  - `mem` is the threads' buffer.

  A compile abort (Canonialize or Inverse) maps to a call never issued.
- **`__pack_half2`.** A half is its 16-bit storage pattern. A 32-bit unsigned is kept as its two 16-bit halves, because TLC's integers are 32-bit signed. The shift drops the bits shifted past bit 31.

Each action is a whole call. Its guard is the call's early returns and ICHECKs, and its effect is the value it returns. Every call is a one-shot computation. So each behaviour is one call (or, in FragmentAlgebra and FragmentFactories, a chain of calls) and then stops. The cfgs say `CHECK_DEADLOCK FALSE` because the program does stop there: the compiler moves on. In `ElemPartition` a behaviour stops when every thread has finished its loop, or when lowering aborts.

## 3. Runs

| Run | Expect | Checks |
|---|---|---|
| `fragment_clients` | pass | `TypeOK`, `FactoryCoversTile`, `FragmentInvertible` |
| `fragment_dereplicate_spec` | violation | `ReplicateDeReplicateNoOp` |
| `loop_partition` | pass | `TypeOK`, `PartitionLoopFaithful` |
| `partition_small_loop` | violation | `PartitionLoopFaithful` |
| `partition_serial_between` | violation | `PartitionLoopFaithful` |
| `partition_unroll` | violation | `PartitionedLoopsUnrolled` |
| `partition_nonzero_min` | violation | `PartitionLoopFaithful` |
| `elem_copy` | pass | `TypeOK`, `CopyFaithful` |
| `copy_extent_mismatch` | violation | `CopyFaithful` |
| `shared_layouts` | pass | `TypeOK`, `XorIsBitwise`, `SharedLayoutSound`, `BankConflictFree` |
| `elem_partition` | pass | `TypeOK`, `ElemRefinesSpec` (temporal) |
| `pack_half2` | pass | `PackIsHalf2Word` |

### Pass runs

- **`fragment_clients`** (1734 states, about 90 s; `MC_FragmentFactories`). A client either builds `makeGemmFragment8x8` or its transpose, or sends one of 406 requests to a factory:
  - A and C (16-bit and 64-bit): every block of 16 or 32 along m, 16, 24 or 32 along n, and 8, 16 or 32 along k, over warps of 16 or 32 by 8, 16 or 32;
  - B: the same sizes where `block_n % warp_n = 0` and `block_m` is a multiple of `warp_m` or smaller than it;
  - Volta A: three shapes;
  - Volta C (on `makeGemmFragment32x32`): 16- and 32-bit elements, blocks of one and two warps along either axis, and two that abort (64-bit elements, a 16-wide warp);
  - C(64,64,32,32,16), the shape of spec §8's end-to-end example.

  Requests that fail an ICHECK abort, including a B whose Replicate gets 0. Then the client applies every sequence of `Repeat` (repeats `<<1,2>>`, `<<2,1>>`, `<<2,2>>`, both flags, both orders), `Replicate(2|3)` and `DeReplicate`, up to 512 (element, replica) slots. Two results:
  - `FactoryCoversTile`: each fragment a factory returns has exactly its operand's tile as input shape and `32 * (block_m/warp_m) * (block_n/warp_n)` threads;
  - `FragmentInvertible`: every fragment held passes Inverse's ICHECK.
- **`loop_partition`** (233 states). The nests are one or two parallel loops of extent 2, 3, 4 or 8, optionally followed by a serial loop, plus `<<16, 8>>`. Six more nests have a parallel or serial loop starting at 1, 2, 3 or 4. They are partitioned two ways:
  - by the default partition over 2 or 4 threads;
  - by a supplied fragment, which is one of the 8x8 GEMM fragments, a 16x8 Repeat, a Replicate, or a fragment with two local indices over a 4x4 tile.

  Where the fragment inverts, the rewritten nest runs exactly the iterations the fragment assigns, each variable over its loop's `[min, min + extent)`. The default fragment of a parallel loop starting above 0 never inverts: its flattened index starts above 0, so either the index's minimum is not 0 or the (index, thread) pairs are not a box. A serial loop starting above 0 is kept and keeps its min.
- **`elem_copy`** (263 states). It covers:
  - every 1-D copy of length 1 to 3, at offsets 0 to 2, between buffers of size 2 and 4;
  - 2-D copies of rows, columns and tiles, including tiles that run past the source or the destination buffer;
  - copies whose two sides have different numbers of non-unit ranges;
  - Fill of 2-D, 1-D and 0-D buffers in shared memory and in `local.fragment`, the last of which aborts.
- **`shared_layouts`** (150 states). It covers `makeGemmABLayout` for stride 4, 8 and 16, continuous 16 to 128, 8- to 64-bit elements and kfactor 0, 1 and 2. It adds five Volta requests: crosswise, both congruous cases, padded, and one that aborts.
- **`elem_partition`** (2604 states, about 10 s). It covers 1-D copies of 4 and 8 elements at offsets 0 and 2 of buffers of 4 and 8, so regions run past either buffer. It adds 2x2 tiles of a 4x4 buffer at the corner and running past it, a row into a 2-D buffer through a unit range, a 6-element copy, and a copy lowering rejects. It adds fills of 2x3, 4, 8 and 0-D buffers in shared memory and in `local.fragment`. Each is split over 2 or 4 threads.
  - The 6-element copy and the 2x3 fill over 4 threads fail Inverse.
  - A 0-D shared fill has no loop to partition; a 0-D fragment fill aborts in Canonialize.
  - Every other call is run by its threads in every interleaving.

  `ElemRefinesSpec` is `ElemSpec`'s `Spec` under the refinement mapping. It checks two things:
  - safety: every store is an element of the destination region (or buffer) with its value;
  - liveness: the whole region is written, under `WF` of each thread's `Exec`.

  Every copy has at least as many elements as a block has threads. Smaller copies are the `partition_small_loop` finding: their extra threads run outside the loop, and what they then compute depends on the engine's inverse expressions, which are not in this repository.
- **`pack_half2`** (121 states). It covers every pair from 11 half patterns: 0, 1, 255, 256, 1.0, the largest finite half, +inf, a NaN, -0, -1.0 and all ones. These hit both byte edges and the sign bit.

### Violation runs

Each violation run is a disagreement between the code and what the spec, a comment or the code's own ICHECK says.

- **`fragment_dereplicate_spec`.** `makeGemmFragment8x8.Replicate(2).DeReplicate()` halves `OutputShape`, though `gcd(1, 2) = 1`. Spec §8 says this is a no-op.
- **`partition_small_loop`.** `ICHECK("Not Implemented case.")` tests a string literal and never fails, so loops of 2 and 6 over 4 threads both pass Partition. For the loop of 2, threads 2 and 3 then run iterations 2 and 3 of a 2-iteration loop.
- **`partition_serial_between`.** In `P(4), S(2), P(2)` the visitor collects both parallel loops, but PartitionLoop strips the first two For statements, the serial one included.
- **`partition_unroll`.** The unroller stops at the first serial loop. With a two-output fragment, the inner new loop is never unrolled.
- **`partition_nonzero_min`.** The 8x8 GEMM fragment is supplied for a nest whose outer loop runs over `[2, 10)`. PartitionLoop substitutes the inverse's values from 0 and never adds `loop->min`, so the body runs at 0..7. Every caller in `src/` builds loops from 0, so this is latent.
- **`copy_extent_mismatch`.** `Copy::Copy` discards `CheckRangeEqual()`. A 4-element source copied into a 2-element destination region writes 2 elements past that region.

### Mutants

Every property of a pass run has a mutant in `PROJECT.json`: a plausible bug in the mapped code that TLC finds.

| Code | Mutation | Property that catches it |
|---|---|---|
| Repeat's stride loop | multiplies before use | `FragmentInvertible` |
| `DeReplicate` | writes `rep % factor` | `TypeOK` |
| PartitionLoop | strips `OutputDim` loops | `PartitionLoopFaithful` |
| PartitionLoop | takes the inverse's max as extent | `TypeOK` |
| `MakePredicate` | uses `<=` | `CopyFaithful` |
| `MakeIndices` | skips unit ranges | `TypeOK` |
| `xor4x4` | swaps its bits | `XorIsBitwise` |
| full-bank layout | row stride of 4 vectors | `SharedLayoutSound` |
| half-bank swizzle | uses `s % 4` | `BankConflictFree` |
| padded layout | square domain | `TypeOK` |
| `MakePredicate` in the composed copy | uses `<=` | `TypeOK` of `elem_partition` (a store past the buffer) |
| `Fill::Canonialize`'s store | indexes by the loop variables innermost first | `TypeOK` of `elem_partition` (a 2x3 fill stores at row 2) |
| PartitionLoop in the composed copy | takes the inverse's max as extent | `ElemRefinesSpec` (liveness: an element never written) |
| `__pack_half2` | reads the half through a signed short | `PackIsHalf2Word` |
| `makeGemmFragmentB`'s Replicate ICHECK | dropped (`block_m < warp_m` accepted) | `TypeOK` of `fragment_clients` (a fragment with 0 replicas) |
| `makeGemmFragmentC` | warp-level repeat counts exchanged | `FactoryCoversTile` |

### Bounds

The bounds are chosen so that the cases a property is about happen:
- several replicas (A, Replicate);
- both Repeat flags and orders;
- DeReplicate with factor > 1;
- partitions that fail Inverse;
- loops smaller than, and not divisible by, the thread count;
- partial edge tiles on both sides of a copy;
- each branch of both dispatchers, including the aborting ones.

Larger tiles repeat the same modular structure. Only tile size limits TLC: a fragment is evaluated at every point, so a 64x64 fragment is 4096 points.

### Fairness and liveness

The compile-time components have none. Every operation there is a terminating, single-threaded function, and nothing waits on anything.

`ElemPartition` assumes weak fairness of each thread's `Exec(t)`. A launched GPU thread that can run its next iteration keeps being able to until it does: its loop has no guard that another thread can disable, and the hardware does not starve a thread forever. Under that assumption `ElemSpec`'s `WF_vars(Write)` must hold, so every element of the region is eventually written.

## 4. Not modelled, and what is left

- **`VectorSize`, `CondenseReplicateVar`, `infer_fragment_index`.** They read the split structure the external engine computes, which an extensional model does not have.
- **Spec §8's end-to-end claim.** The claim is that `makeGemmFragmentC(64,64,32,32,16)` has `ThreadExtent() == 32`. `fragment_clients` serves that request. The model of the code returns 128 threads (4 warps of 32 lanes), and `FactoryCoversTile` holds with 128. The spec's number disagrees with the code, and also with its own "4 warps" wording. There is no violation run for it, because the project keeps its twelve runs for the other findings. It is recorded as the hazard at `part_000:422`.
- **`makeGemmFragmentB` with `block_n % warp_n != 0`.** Its requests are left out of `fragment_clients`. `MC_FragmentFactories` defines them as `MCTruncatingBRequests`, and with them `FactoryCoversTile` fails: a 16 x 24 B tile over warps 16 wide gets a 16 x 16 fragment. That goes against spec §4.3 (each factory asserts its shape parameters) and spec §8 (no silent truncation). It has no run of its own, because a GEMM also builds A and C for the same block, and their ICHECKs abort for these parameters. It is recorded as the hazard at `part_000:446`.
- **Non-loop statements between loops.** `body.as<For>().value()` aborts on them, and nothing else happens. No caller in `src/` builds such a nest.
- **Structural equality, reflection and registration.** `SEqualReduce` and `FragmentThreadEqual` compare expression trees up to variable renaming. Two fragments with the same mapping but differently written expressions are equal in the model and unequal to the code. `VisitAttrs`, `UpdateAnalyzer`, `DebugOutput` and the `TVM_REGISTER_GLOBAL` getters only expose or log state.
- **Dtype casts.** A stored value is the element it was loaded from.
- **`BufferIndiceSimplify`.** It rewrites index expressions into equal ones and changes no value.
- **Threads beyond the fragment's ThreadExtent in the composed copy.** Their values come from the engine's inverse expressions evaluated outside their domain. `LoopPartition` marks these values `OutOfRange`, and `partition_small_loop` shows they occur.
