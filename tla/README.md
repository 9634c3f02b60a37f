# A TLA+ model of bddd

bddd compiles SysY, a small C, to ARM assembly. It is one sequential C++17
process that reads a file and writes a file: nothing is persisted, nothing runs
concurrently, and the repository has no tests. What is hard in it is of another
kind: worklist algorithms over shared mutable graphs whose order depends on the
addresses of objects (`unordered_set` of pointers), tables that outlive the
round they were built for, iterator edits during a walk, rewriting that must
keep a program's meaning, and loops that end only because of a global argument.
Those are the subject of this project.

## 1. Inventory

Control passes through `main.cpp` once, in this order. Each stage owns the data
it produces and hands it to the next by pointer; the stages share the IR (or
assembly) graph and nothing else.

| Component | State it keeps | Operations | Hard part | What makes it correct |
|---|---|---|---|---|
| Lexer, parser (`src/parser`) | the syntax tree | `Driver::parse` | none of its own (generated) | |
| Type checker (`ast/type-check.cpp`, `ast/symbol-table.cpp`) | `SymbolTable`: stack of name tables, stack of scopes, current function | `TypeCheck` of each node, `Insert`, `InitializeScope`, `FinalizeScope`, `existScope` | paired opening and closing over recursion and exceptions; the current function | names resolve to the innermost live declaration; break and return are judged by where they stand |
| IR generation (`ast/codegen.cpp`, `ir/builder.cpp`) | insertion point, targets of break, continue, true, false, exit | `CodeGen` of each node, `Create*Instruction` | targets saved and restored around nested statements; code after a terminator | the flow graph takes the paths of the structured program |
| IR (`ir/ir.cpp`) | blocks, instructions, use lists | `ReplaceUseBy`, `RemoveInstruction` | use lists and operands agree | |
| Dominance, SSA (`pass/dom.cpp`, `pass/mem2reg.cpp`) | dominator sets, frontiers, reaching definitions | Lengauer-Tarjan, phi insertion, renaming | order of visits, unreachable blocks | every use sees the value the variable had |
| CFG clean-up (`pass/basic.cpp`, `pass/dce.cpp`) | predecessor sets, phi operands | remove unused and trivial blocks, trivial phis | phis follow the edges | paths and values are kept |
| Calls (`pass/side-effect.cpp`, `function-inlining.cpp`, `tail-recursion.cpp`) | call lists, side-effect flags, depth | one walk of the call graph, copying of bodies | lists change while they are walked | no impure call is dropped, no callee is lost |
| Memory (`pass/load.cpp`, `global-const.cpp`) | address to value map | forward, clear on call | aliasing | a forwarded load reads what memory holds |
| Value numbering and motion (`pass/gvn.cpp`, `gcm.cpp`) | value tables, placement | schedule early, late, in block | order inside a block | a definition precedes its uses |
| Loops (`pass/loop-*.cpp`, `lcssa.cpp`, `strength-reduction.cpp`) | loop forest, counts | count, unroll, simplify | negative and zero counts, overflow | the unrolled loop runs as often |
| Instruction selection (`asm/asm-codegen.cpp`, `asm-builder.cpp`) | value to operand map, load cache, pending phi moves | one handler per IR instruction | parallel phi copies, condition flags | |
| Assembly optimisation (`asm/asm-optimization.cpp`) | blocks, branch positions | fall-through, threading, unreachable blocks, dead code | chains of jumps | the same instructions are executed |
| **Liveness** (`asm/asm-liveness.cpp`) | `m_livein`, `m_liveout` | round-robin iteration | early stop, order in a round | exactly the live operands |
| **Register allocator** (`asm/asm-register.cpp`) | interference graph, worklists, moves, stack, colours; kept across rounds | one function per step of iterated register coalescing | arbitrary order, stale tables, rewriting | live operands have their own registers; allocation ends |
| Frame and pools (`asm/asm-fixed.cpp`) | offsets, pool positions | fix parameter offsets, place pools | counting that shifts | every offset and literal is in reach |
| Exporters, debug output | | | formatting only | |

The order of the back end is: instruction selection, `optimizeTemp`, the
allocator for float registers, the allocator for integer registers (each calls
liveness in every round), `fixedParamsOffs`, `optimize`, `generateLiteralPool`,
output.

`PROJECT.json` lists the places where each of these is exposed ("hazards"), and
which property covers which.

## 2. Modules

The compiler from the syntax tree to the assembly that registers are allocated
for. A pass is a function from a module to a module, so it is an operator; the
driver, which calls one after the other, is the state machine.

| Module | Models |
|---|---|
| `IR` | functions, blocks, instructions, operands and use replacement, predecessor sets kept by hand (`ir.h`, `ir.cpp`, `builder.cpp`) |
| `Source` | the meaning of a program: an interpreter of syntax trees and one of the IR (external: the language) |
| `TypeCheck` | `Evaluate` and `FillVals` of `type-check.cpp`, which rewrite the tree |
| `CodeGen` | `codegen.cpp` |
| `CfgCleanup` | `basic.cpp`, `dce.cpp` |
| `Dominance` | `dom.cpp`, as operators that other passes call |
| `Mem2Reg` | `mem2reg.cpp` |
| `Interprocedural` | `side-effect.cpp`, `tail-recursion.cpp`, `function-inlining.cpp` |
| `MemoryAccess` | `global-const.cpp`, `load.cpp` |
| `Loops`, `Unrolling` | `loop-detection.cpp`, `loop-simplify.cpp`, `strength-reduction.cpp`; `loop-analysis.cpp`, `loop-unrolling.cpp` |
| `ValueNumbering`, `CodeMotion` | `instr-combine.cpp`, `gvn.cpp`; `gcm.cpp` |
| `Assembly` | instruction selection: `asm-codegen.cpp`, `asm-builder.cpp`, `asm.cpp` |
| `AsmOptimization` | `optimizeTemp` of `asm-optimization.cpp` |
| `Machine` | the meaning of the selected instructions (external: the ARM architecture) |
| `Pipeline` | `main.cpp`: one action per pass, with and without `-O` |
| `MCPipeline` | the programs and inputs |

What follows selection, the symbol table and the dominance analysis, each a state
machine of its own:

| Module | Models |
|---|---|
| `AsmProgram` | what liveness and allocation see of an `ASM_Function`; block summaries, live ranges, interference, in closed form |
| `Liveness` | `ASM_Function::LivenessAnalysis` |
| `RegAlloc` | `RegisterAllocator` over one function and one register type, all rounds |
| `AsmFixed` | `fixedParamsOffs`, `generateLiteralPool`, and the frame as `exportASM` writes it |
| `ScopeCheck` | `SymbolTable` and the `TypeCheck` methods that use it |
| `Dominators` | `dom.cpp` again, one assignment at a time |
| `DominanceSpec` | what that analysis promises: each result found in one step from its definition, and kept |
| `Reachability` | reachability without paths, for the two modules above |
| `MCLiveness`, `MCRegAlloc`, `MCAsmFixed`, `MCScopeCheck`, `MCDominators` | instances for TLC |
| `LivenessProofs`, `AsmFixedProofs`, `ScopeCheckProofs`, `DominatorsProofs` | theorems about the module of that name |
| `AsmProgramProofs` | lemmas: the closed form `LiveOut` is the path meaning of liveness, and finds only operands that occur |
| `RegAllocProofs`, `RegAllocMoveProofs`, `RegAllocColouringProofs` | theorems about `RegAlloc`, each module on top of the one before: types, aliases and rewriting; worklists and moves; graph and colours |

`Liveness` and `RegAlloc` meet in `AsmProgram`: the allocator takes the live
sets from the closed form `LiveOut`, and the iteration of the code ends in that
closed form (`LiveOutIsClosedForm`: checked on every small graph, proved for every
graph), so nothing is lost by not interleaving the two. `ScopeCheck` decides which programs are
accepted; `Pipeline` starts from accepted ones.

### Pipeline and the passes

The state is what `main` holds: `comp_unit` (the tree, which the type checker
rewrites in place), `module` (the IR), `assembly`, and which passes have run.
`meaning` is auxiliary: for each input, the outcome of running whatever stands in
the place of the program now: the tree before and after type checking, the IR after
each IR pass, the instructions after selection. An outcome is the list of numbers
written and the value returned.

| Action | Code (`main.cpp`) |
|---|---|
| `CheckTypes` | 75, `comp_unit->TypeCheck` |
| `GenerateIR` | 90-95, `CodeGen` and `RemoveInstrsAfterTerminator` |
| `PromoteVariables`, `ReadConstants`, `RemoveTailCalls`, `InlineFunctions`, `ForwardStores`, `UnrollLoops` | 99-104, 111-116 |
| `SimplifyLoops`, `ReduceStrength`, `CombineInstructions` | 105-107, with `-O` only |
| `NumberValues`, `MoveCode` | 108-109, 117-118 |
| `SelectInstructions` | 133 |
| `DropJumps`, `DropBlocks`, `CombineAdditions`, `DropDeadInstructions` | 136, the parts of `optimizeTemp`, the last two with `-O` |
| `Exit` | the process goes on to allocation |

A pass of the code calls the clean-up passes and the analyses it relies on; so does
its operator. Assertions that a pass states, and uses of operands that an earlier
step destroyed, are collected in the field `fault` of the function. `Dangling` is an
operand whose use-list entry was destroyed. Where the code walks a map from
pointers, the order of creation stands for the order of addresses.

Both interpreters, and `Machine`, allocate objects apart from each other, so that
an access out of bounds yields `Garbage` and is seen. An execution burns a unit of
`Fuel` at each round and each call and "diverges" when none is left.

### AsmFixed

A function is reduced to the numbers its frame is made of, its stack parameters, and
the kinds of its instructions. `FixParam` is one iteration of the loop of
`fixedParamsOffs`; `Skip`, `Count` and `PlacePool` are the three ways through the body
of the backward walk of `generateLiteralPool`. What a load can reach is the constant
`Reach`; the assumption is that twice the range and the epilogue are within it, which
is what the code's `POOL_RANGE` leaves room for.

### AsmProgram

A function is a sequence of blocks; a block has its instructions and the set of
its successors. An instruction keeps its defined and used operands, the two
ends `<<m_dest, m_src>>` if it is a register move, and `isDeleted`. Operands are
numbers; `Class` is the set of those of the register type being allocated, so
that `m_def` and `m_f_def` are one set seen through a filter. `ParamMov` is the
move `setParams` emits, which also claims R12.

### RegAlloc

One action per step of the code:

| Action | Code |
|---|---|
| `Build` | `LivenessAnalysis`, `Build`, `AddEdge` |
| `MkWorklist` | `MkWorklist` |
| `Simplify(n)` | `Simplify` with `DecrementDegree` and `EnableMoves` of every neighbour |
| `CoalesceSame`, `CoalesceConstrained`, `CoalesceCombine`, `CoalesceDefer` | the four outcomes of `Coalesce`, with `Combine` and `AddWorkList` |
| `Freeze(u)`, `SelectSpill(u)` | the same, with `FreezeMoves` |
| `EndSelect` | the end of the do-while loop |
| `AssignColor`, `ColorCoalesced` | one iteration of `AssignColors`, and its last loop |
| `RetrySpilled(v)`, `RewriteSpilled(v)`, `EndRewrite` | one spilled node of `RewriteProgram`, and its tail |

`*begin()` of an unordered set is a choice (`\E`), and the order in which
`FreezeMoves` meets the moves is a choice of a permutation. Tables are kept
across rounds exactly as the code keeps them: only `init` clears them, and `init`
runs once per function.

What is left out, and why it cannot matter to the properties:
`coalescedMoves`, `constrainedMoves`, `frozenMoves`, `precolored`,
`coalescedRecord` and `isSelectSpill` are written and never read. A move is
identified by its two ends, so two identical `MOVInst`s are one. The tie-break of
`SelectSpill` (degree against loop depth) is left open, any tied node may be
taken; the measured `lifespan` that decides before it is modelled exactly. The
stack slot of a spilled operand and the `mov`/`add` needed when it lies too far
are not modelled, nor is the write-back of colours into operands.

### Liveness

One step is one iteration of the inner loop of the code (`Visit`), or the test
at the end of a round (`NextRound`, `Finish`). `livein` is computed from the old
`liveout`, `liveout` from `livein` sets of which some are new.

### ScopeCheck

`TypeCheck` is one recursive walk. Its tree is chosen while it is walked: each
action visits, enters or leaves a node where the grammar allows it, so the
behaviours are the walks over all units within the bounds. `open` is the stack of
calls; `tables`, `scopes` and `current_func` are the fields of `SymbolTable`. An
if opens no scope and is left out.

### Dominators

The analysis runs in six loops, which are the values of `pc`:

| `pc` | Code (`dom.cpp`) | Actions |
|---|---|---|
| `dfs` | `tarjan`, 39-48 | `Visit`, `Return`, `Numbered` |
| `semi` | the predecessors of a vertex, 105-116 | `SemiDominator`, `Link`, and `find` |
| `bucket` | the bucket of its parent, 117-124 | `Bucket`, `NextRound`, and `find` |
| `idom` | 126-138 | `FixIdom`, `Attached` |
| `tree` | `dfs`, 17-30 | `Enter`, `Leave`, `TreeWalked` |
| `frontier` | `ComputeDominanceFrontier`, 143-162 | `Edge`, `Climb`, `EdgeDone`, `NextBlock` |

A call of `find` (32-37) is `Call`, one `Ascend` per frame, `AtRoot`, and one `Compress`
per frame on the way back. `path` holds its frames. The stacks of `tarjan` and `dfs` are
not kept: the parent of `cur` in `fa` or `idom` is where a call returns to. `dom_tree` and
`m_idom` have the data of `idom`, and `m_dominated` is `m_dominators` inverted (the code's
names for the two are swapped), so they are not variables. The order in which the code
meets successors, predecessors and the vertices of a bucket depends on how lists were
built; it is left open.

`Dominance` and `Dominators` model the same code for two purposes. In the pipeline a
pass is an operator, recursive where the code is; a theorem is out of reach there, so
`Dominators` was written for the prover, and `MCDominators` compares the two on every graph
of the run (`OperatorsAgree`): what is proved of the one holds of the other as far as TLC
can see.

`DominanceSpec` is the abstract specification. It has no forest, no stack of `find`, no
buckets and no climb: a depth first numbering appears, then one semidominator after the
other, then the immediate dominators, then what each block dominates, then the frontiers,
each by its definition on the paths of the graph, and nothing found is changed.
`Dominators` implements it (`ImplementsDominance`) under this mapping, in which a result is
hidden, as 0 or the empty set, until the code has settled it:

| `DominanceSpec` | `Dominators` |
|---|---|
| `number` | `dfn`, from the end of `tarjan` on |
| `semi[b]` | `sdom[b]`, from the round of line 107 that links `b` on; before that it is still being lowered |
| `idom[b]` | `idom[b]`, once the loop of line 126 is past `b`; before that it may be a relative of `b` |
| `dominated` | `m_dominators`, once `dfs` is back at the entry |
| `frontier` | `m_dominance_frontier`, after the last edge |

## 3. Runs

`CHECK_DEADLOCK FALSE` is set in every run but `dominators` and the three of the pipeline,
because the modelled procedures return. `Dominators` ends in `Done`, so that a deadlock would
be a moment at which the analysis is stuck. In `Pipeline` the last step is `Exit`, so a deadlock is
a moment at which `main` would call no pass: TLC shows there is none.

| Run | Shows | Instance |
|---|---|---|
| `pipeline` | `MeaningKept`, `NoAssertionFails`, `DefinitionsReachUses`, `PhisMatchPredecessors`, `SideEffectsKnown`, `LoopsSimplified`, `ConditionsLast`, `EdgesMatchBranches`, `NothingLiveAtEntry`, `NoSelectionFault` | 24 programs, with and without `-O`, on four inputs. 792 states, each the result of a pass on a program |
| `dominators` | `TypeOK`, `ImmediateRight`, `DominatorsRight`, `FrontierRight`, `OperatorsAgree`, `AnalysisEnds`, `ImplementsDominance` | the 1,127 graphs of up to four blocks with up to two successors each whose entry reaches every block and has no predecessor, in every order. 405,959 states |
| `asm_fixed` | `TypeOK`, `ParamsFound`, `LiteralsInReach` | 108 frames; every sequence of up to eight instructions of four kinds. 568,411 states |
| `pipeline_unroll` | violation of `MeaningKept` | a counted loop in steps of two: 14 numbers printed instead of 10, 28 returned instead of 20 |
| `pipeline_gvn` | violation of `MeaningKept` | two additions of zero |
| `regalloc_spill` | `TypeOK`, `NoNodeLost`, `AllocationSound`, `RoundsEnd`, `Terminates` | two colours; four functions with three values live at once: plain, with copies, with a copy that has to be deferred, with a stack parameter. 31,338 states |
| `regalloc_copies` | `MovesKnownToRoots`, `NoMoveLeft`, `CoalescedApart`, `ProperColouring`, `RoundsEnd` | three colours; copies of copies, a loop that swaps two phis, a diamond, and a phi of significant neighbours. 1,571 states |
| `regalloc_newtemps` | violation of `NewTempsAreTemporaries` | float allocation of a converted integer |
| `regalloc_constrained` | violation of `ConstrainedEndsInterfere` | as `regalloc_copies` |
| `liveness` | `TypeOK`, `LiveOutIsMeaning`, `LiveOutIsClosedForm`, `LeastSolution`, `Terminates`, `AnalysisEnds` | every graph of one to three blocks with up to two successors and six block bodies. 764,732 states |
| `scope_names` | `LoopStatementAllowed`, `ReturnChecksItsFunction`, `TablesFollowNesting` | three names, one builtin; two functions, nesting 3, six scopes. 361,856 states |
| `scope_break` | violation of `BreakRefusedOutsideLoop` | as `scope_names` |

What the properties say:

* `MeaningKept`: after every pass the program yields, on every input, the output and
  the return value of the source. Between numbering and motion the IR is not in the
  order of execution, so the two are judged together.
* `NoAssertionFails`: no assertion of a pass fails, and no pass follows an operand that
  it has destroyed.
* `DefinitionsReachUses`: in SSA form each value is computed on every path to its uses,
  each phi operand on every path to the end of its predecessor, by the definition of
  dominance and not by the tree the passes keep.
* `PhisMatchPredecessors`: the predecessor sets kept by hand are those of the flow
  graph, and phis have an operand for each.
* `SideEffectsKnown`: a function that writes what it did not allocate, reads a global or
  does input or output, itself or through calls, is known to; otherwise a call of it
  would be removed, numbered or moved.
* `LoopsSimplified`, `ConditionsLast`: what strength reduction and instruction selection
  rely on.
* `EdgesMatchBranches`, `NothingLiveAtEntry`, `NoSelectionFault`: what liveness and
  allocation rely on. The edges are those of the instructions, and no virtual
  register is read before it is written on any path (`AsmProgram`'s `LiveOut`).
* `ImmediateRight`: when the tree is built, `idom` of every block but the entry is the strict
  dominator that all its other strict dominators dominate; line 135 asserts that there is one.
* `DominatorsRight`, `FrontierRight`: when `dfs` is back at the entry each block
  has the blocks that every path reaches through it, and its depth; when the last edge is
  done each frontier is the set of blocks where dominance ends, the block itself apart.
* `OperatorsAgree`: the operators of `Dominance`, given the same graph as a function of `IR`
  with one more block that nothing reaches, with the targets of its branches in either
  order, remove that block and find the same `idom`, dominated sets, depths and frontiers.
* `ImplementsDominance`: `Dominators` refines `DominanceSpec`. Beyond the final values it says
  that the numbering is that of a depth first search, that each semidominator is right when
  its vertex is linked, although it was read through pointers that `find` compressed, that
  the loop of line 126 settles each `idom` once, and that later loops change neither.
* `AnalysisEnds` of `dominators` and `liveness`: every step lowers `Remaining`, which compares the loops left, the vertices or
  blocks left in the loop, the way back to the root, the set a loop still walks, whether a `find`
  or a climb has begun or turned, and its way. In `Liveness` it compares the operands that are
  missing in some set, the rounds sure to come and the blocks left of the round. It needs no
  fairness.
* `ParamsFound`: a parameter is read where the caller stored it; the frame is computed
  twice in the code, for the offsets and for the output.
* `LiteralsInReach`: the words between a load and its literal, wide instructions,
  epilogue and shared pools counted, are within reach.
* `NoNodeLost`: in every state each virtual register of the program is on one of
  the allocator's sets. An operand on none would keep its VREG type.
* `AllocationSound`: in the final program every operand has a register and no
  instruction overwrites the register of another live operand. It is stated with
  the interference of the *final* program, not with `adjSet`, which by then holds
  the edges of all rounds.
* `ProperColouring`: during and after colouring, placed neighbours differ.
* `CoalescedApart`: nodes joined by an edge are never aliases of each other.
* `MovesKnownToRoots`, `NoMoveLeft`: a live move is known to the nodes that stand
  for its ends, and none is left when the loop ends.
* `RoundsEnd`: every step but the recursive call of `AllocateCurFunc` lowers
  `Remaining`, which compares the calls left of the round, then the moves not yet decided,
  the nodes left, the moves left before the next freeze, the stack and the spilled
  nodes. Unlike `Terminates` it needs no fairness, and holds in runs that the bound
  stops.
* `LiveOutIsMeaning`: `liveout` is compared with the definition of liveness on
  paths, with no equations in it; `LiveOutIsClosedForm` ties it to `RegAlloc`.
* `LeastSolution`: the equations hold at every block, and in no other solution
  any set is smaller.
* `LoopStatementAllowed`, `ReturnChecksItsFunction`, `TablesFollowNesting`: see the
  comments in `ScopeCheck`.

Bounds of the pipeline. The programs are families in `MCPipeline`: `BranchingLoops` (if,
else, short circuit, break, continue, return in a loop), `NestedLoops` (two levels, a
variable of the outer loop written in the inner one), `CountedLoop` (3 to 11 rounds:
unrolled in full, in part with and without rounds left over), `FlexibleLoop` (rounds
known when the program runs), `SwapLoop` (phis that must be copied in parallel),
`RowsOfTwo` (addresses with two indices), `Arithmetic` (each form of multiplication,
division and remainder by a constant), `ArrayRecursion`, `TailCall` (side effects,
constant arrays, tail calls, inlining of values and of void functions) and
`ConstantsAndBraces` (constants, constant conditions, and initial values of every
shape). Every action happens, with and without `-O`, and the mutant of each property
shows that the programs would reveal an error there. `Fuel = 60` rounds and calls are
more than any of them needs; `Steps` (30 instructions per unit of fuel) and `Region`
(4096 bytes per object) bound `Machine` likewise. `K` is the code's 4. Sizes that the code
compares with large constants keep them.

`dominators`: four blocks give shapes in which an immediate dominator is the semidominator, in
which it is another vertex's, and in which a compressed path matters, as the mutants of
`Dominators` and `Dominance` show; every order of edges and every moment inside `find`, the walk
and the climb are states. The entry has no predecessor because the code never branches to the
first block of a function, so there the break of line 158 is not reached; the theorems of
section 4 do not assume that. `asm_fixed`: with
`POOL_RANGE = 2` and `Reach = 7` the bound is tight (`2 * 1 + 5`), and eight instructions
need up to three pools.

Bounds of the others. Two or three colours instead of 14 and 32: `K` enters only through
comparisons with degrees, and with few colours small functions already spill,
defer and freeze; every action and each of its alternatives happens in some run.
`MaxNode` bounds the operands a function may have after rewriting and blocks
`RewriteSpilled` otherwise. In `regalloc_spill` it is large enough never to
block, which is why termination is checked there; in `regalloc_copies` it does
block the second round of one function, and no liveness is claimed. Three blocks
are enough for a loop with an entry and an exit, for a diamond without a join,
and for unreachable blocks; one operand is enough for liveness because the
equations do not mix operands (a second one, of the other register type, checks
the filter). Two functions and six scopes are enough for a loop in an earlier
function to be seen from a later one.

Fairness. `Terminates` assumes weak fairness of `Next`: the modelled procedures are
sequential loops that take their next step. The choice between several
enabled steps is left entirely open, so termination holds for every order the
sets may be walked in. Nothing else assumes any. `Pipeline` has none: its list of passes
is fixed, and that the loops inside a pass end is not a property of it, because a pass is an
operator.

### Disagreements with the repository's own words

* `pipeline_unroll`: the comment at `loop-unrolling.cpp:468` and `:469` wants the
  unrolled loop to stop short of the bound and leave the rest to the reset loop;
  `FixUnrollLoopCond` lowers the bound by the number of left-over rounds, not by the
  rounds times the stride. With steps of two the loop runs past the bound.
* `pipeline_gvn`: `RunGVN` (`gvn.cpp:494`) fills the place of a removed pair with the last
  one and leaves that one's index as it was; the next addition of zero ("a + 0 = a",
  `gvn.cpp:131`) is found at the wrong place.
* `BreakRefusedOutsideLoop`: `FinalizeScope` removes a name table and no scope;
  once a loop has been closed, `existScope(LOOP)` stays true and
  "break m_stmt appears in non-loop scope" (`type-check.cpp:1106`) is never
  reported again.
* `NewTempsAreTemporaries`: `RewriteProgram` promises "a new temporary vi for
  each definition and each use" in `newTemps` (`asm-register.cpp:579`, `:582`);
  for a spilled move it puts the other operand of the move there, which may be a
  machine register or an operand of the other register type.
* `ConstrainedEndsInterfere`: the header refers to "Iterated Register Coalescing"
  (`asm-register.h:20`), where a machine register is put first and the move is
  coalesced if that is safe. `Coalesce` swaps its operands if the source is a machine
  register and leaves them if the destination alone is one, so the register is `v` in both
  cases and line 372 gives the move up. The branch with `AllOK` (377) is never taken, and no
  move into or out of a machine register is coalesced. The result is still sound
  (`AllocationSound`), it keeps more moves.

## 4. Theorems

All safety properties of `RegAlloc`, `Liveness`, `AsmFixed`, `ScopeCheck` and `Dominators` that
a passing run checks are proved, for every value of the constants.

### RegAlloc

The proof is one inductive invariant in three layers, each in a module of its own:

    IInv   == TypeOK /\ AliasInv /\ NoREGCoalesced /\ prog \in Code     RegAllocProofs
    Inv    == IInv /\ MovesInv                                          RegAllocMoveProofs
    AllInv == Inv /\ ColouringInv                                       RegAllocColouringProofs

`IInv` (`TypeCorrect`). `TypeOK` alone is not inductive. The step that needs more is
`ColorCoalesced`, which reads `color[GetAlias[n]]`: `GetAlias` is a recursive function,
and its value is a node only if following `alias` ends. `AliasInv` says that there is a
rank on nodes that `alias` lowers at every coalesced node; `CoalesceCombine` keeps it
because `v` becomes an alias of a root. That the program stays well formed is a property
of `RewriteProgram`: `SpillCodeRewrites` shows that a spilled operand is named afterwards
only where a spilled move lends it, and that every other name is an old one, one put
aside in `newTemps`, or a machine register.

`MovesInv` (`NodesKept`, `RootsKnowMoves`, `MovesAllDecided`) has, beside the three
properties themselves, what the worklists promise each other:

* `Phases`: what is empty at each call of `AllocateCurFunc`;
* `Deferred`: a move in `activeMoves` is not in `worklistMoves`, and neither end is a REG;
* `EndsKnown`: the *operands* of a live move list it, coalesced or not, which is what lets
  `FreezeMoves` get away with not following aliases;
* `Settled`: what is to be simplified or has been takes part in no live move;
* `Listed`: the virtual ends of a live move are represented on `freezeWorklist` or
  `spillWorklist`;
* `RootsVirtual`, `RootsSomewhere`: a virtual operand is never merged into a REG, and the
  node it is merged into is still on its way to a colour.

The argument for `NoMoveLeft` is then short: when the loop ends the two worklists of
`Listed` are empty, so no live move has a virtual end, and by `Deferred` each deferred one
has. `Settled` and `MovesKnownToRoots` need each other: `AddWorkList`, `DecrementDegree` and
`FreezeMoves` put a node on `simplifyWorklist` when its own list has no live move, which
means something only while lists are complete. The changes that the actions make to the
worklists are compared by one relation, `Advances`, and steps that leave stack and aliases
alone need nothing else (`QuietStep`).

`RoundsEnd` (`EveryRoundEnds`) follows from this invariant with a lexicographic measure,
whose components the same theorem shows to be natural numbers. `Coalesce` decides a move for
good unless it defers it, and then `worklistMoves` is smaller; that a decided move is not
also waiting in `activeMoves` is `Deferred`. `EnableMoves` gives moves back to `worklistMoves`,
but only when a node is taken off the worklists (`Simplify`) or a move is decided
(`Combine`); inside the loop degrees grow in `Combine` alone. A node whose degree falls to
`K - 1` enters at most one worklist and is not significant any more, so `NodesLeft` counts
it twice while it is significant and at most twice afterwards: this needs no claim that a
node is on one worklist only. What is not proved is a bound on the number of rounds, which rests on
`rejected` and on spill code that shortens lifespans: `Terminates`, checked by TLC.

`ColouringInv` (`MergedOperandsApart`, `NeighboursDiffer`, `AllocationCorrect`) says how the
graph may lag behind the merges without harm. `Combine` enters edges for the neighbours that
`Adjacent` still returns; neighbours on the stack are not told.

* `RootsAdjacent`: as long as the loop runs, the roots of the ends of an edge are adjacent,
  or one of them is on the stack. So the test of `Coalesce`, `(u, v)` in `adjSet`, suffices
  for `CoalescedApart`: neither `u` nor `v` is on the stack, because of `Settled`.
* `SeenBelow`: for each edge with roots `x` and `y`, `AssignColors` meets `y` when it
  resolves the `adjList` of `x`, or `y` is below `x` wherever `x` is on the stack. When `x` is
  popped, every neighbour that has its colour is therefore met.
* `RootsColoured`: popped roots of an edge that found a colour differ. It says nothing of
  spilled nodes: with one of them the round ends in a rewrite, not in `"done"`.
* `EdgesKnown`: from `Build` on, the graph contains the interference of the program.

`AllocationSound` joins all of it: `NoNodeLost` and `Phases` give every operand of the final
program a colour, `EdgesKnown` and `ProperColouring` give interfering ones different
colours, and the ends of an interference edge occur in the program by `LiveOutOccurs`.

The theorems assume `RegAllocAssumption` only. Two of its parts are there for the proofs.
`Programs \subseteq Code` says that an instruction `IsMov` defines `m_dest` and uses
`m_src`, and nothing else is used; the constructor of `MOVInst` sets `m_is_mov` and adds
exactly these (`asm.cpp:604-618`). `IsFlowGraph`, within `Code`, says that blocks and
instructions are lists and that successors are blocks of the function. TLC checks both
for the programs of the runs.

### AsmProgram and Liveness

`LivenessProofs`: `LeastSolutionReached == Spec => []LeastSolution`, for every flow
graph and class. The inductive invariant has two halves. Soundness: `livein` and
`liveout` are below every solution of the equations, so what is found is least.
Completeness: while `end` is still true, the equations hold at every block visited
in this round, because nothing changed since; a round that ends with `end` true has
therefore visited a solution. `TypeCorrect` is proved on the way.

`LiveOutMeans` and `LiveOutComputed` say what that solution is: the path meaning of liveness,
and the closed form `LiveOut`. Both go through walks to a use (`WalkToUse`). By induction on
the length of a walk, stated as the least counterexample, every solution contains what
walks find, and walks themselves are a solution; so the least solution is what walks find.
The closed form counts rounds up to the number of blocks: round `r` finds the walks over
at most `r` edges (`WalksSatisfyRounds`, unique by `RoundsUnique`), and a walk that is longer
than the graph has blocks visits one twice and can be cut (`CutWalk`, `ShortWalk`). They
assume that `Programs` are flow graphs that are not empty.

`AnalysisAlwaysEnds`: the do-while ends for every flow graph. By `Below`, a visit of a block
never takes an operand out of a set, although the code assigns `m_livein` anew; so a step
either closes a gap or is part of a round that changes nothing, which is the last. It also
assumes `ClassAssumption`, that a function has finitely many operands.

### AsmFixed and ScopeCheck

`AsmFixedProofs`: the three invariants of `AsmFixed`, for every function and every
`POOL_RANGE`. `ParamsRight` needs only that the loads fixed so far are those of the first
parameters. `LiteralsReached` needs what the counters mean:

    IInv == func \in Functions /\ TypeOK /\ ParamsFound /\ Counting /\ LoadsNear

`Counting` says that `inst_pos` is the number of live instructions behind the walk and that
`pool_pos` is at most two more than the number behind the last pool, the load and its
neighbour being counted on the other side of it, by cardinalities of sets of positions.
`LoadsNear` says that from the first of the loads that share a pool there are at most
`POOL_RANGE` live instructions to the end of the function, or `POOL_RANGE + 2` to a pool inside
it: one further on, the walk would have placed another. A wide instruction is no load, so
wide instructions and literals together at most double the count; the epilogue is added once,
and only to the last pool. The proof assumes what
`AsmFixed` states: no load of a label is last in its block, and the relation between
`POOL_RANGE` and `Reach`. The first can fail in the code, so the theorem is about the functions
in which it does not: `getAddr` emits the load before its user, but when the offset is
zero the user is a MOV (`asm-codegen.cpp:552`), which is erased once its ends are
coalesced; if the jump to the next block is gone as well, the load is last and line 71
steps past the end of the block.

`ScopeCheckProofs`: the three invariants of `ScopeCheck`, for every set of names and
every bound. The inductive invariant is

    IInv == TypeInv /\ LoopInv /\ OpenInv /\ TablesFollowNesting
                    /\ GlobalFunctions /\ CurrentIsLast

`NestingFollowed` needs where a call may stand (`OpenInv`): the parameters directly
under the unit, a function at its top, so that the table `FinalizeScope` takes off is
the one that was put there. `ReturnsChecked` needs that a name the global table holds
as a function belongs to a builtin or an earlier function (`GlobalFunctions`): only
then is a name that cannot be inserted one that was taken, and `current_func` is the
last function in every other case (`CurrentIsLast`). `LoopsAllowed` follows from
`LoopInv`, because scopes are never taken off. It assumes `ScopeAssumption` only.

### Dominators

`DominatorsProofs`: for every flow graph whose entry reaches every block (all that
`GraphsAssumption` says, and what `RemoveUnusedBasicBlocks` establishes before the analysis),
`TypeCorrect`, `ImmediateDominators`, `DominatedSets`, `Frontiers`, `AnalysisImplements` and
`AnalysisAlwaysEnds`. So
Lengauer and Tarjan's algorithm, in the form it has in `dom.cpp`, is proved right; TLC checked
`IInv` on graphs of up to four blocks before the proof was written. Its parts, in the order in
which the analysis needs them:

* Paths are not sequences here: `Reach` is the least set that the edges do not lead out of, and
  `Dom(a, b)` says that `b` is not in that set once the edges into `a` are gone. The facts
  about dominance (reflexive, transitive, antisymmetric, inherited along edges) follow from
  that without induction.
* The depth first tree. `Numbering`: numbers are those of distinct blocks and parents have
  smaller ones. `Intervals`: whoever is numbered between a block and one of its descendants
  descends from it too. `UpwardEdges`: an edge to a bigger number leads to a descendant. `DfsInv` is what
  makes them inductive: a block that has a number and is not above `cur` has no neighbour
  without one.
* The semidominators. `ForestInv` says what `ufs` and `mn` mean once paths are compressed: the
  forest only skips ancestors, and `mn` has the best semidominator of those that were
  skipped. `SemiInv` is the semidominator in two halves: `Sound`, a vertex is reached from its
  `sdom` without any one block between the two, and `Covers`, it is no worse than any predecessor that
  was looked at. `FindInv` relates the frames of `find`.
* From semidominators to dominators. `BetweenDominates` and `DominatesBetween`: a vertex above
  `w` dominates it exactly if no vertex between them has a semidominator above it. `SemiIsIdom` and
  `LeastHasIdom` are the two cases of `Bucket`; `BucketInv` and `BestBetween` carry them to
  the loop of line 126, which `IdomInv` shows to read only entries that are already right.
* The tree. `TreeInv` says which part of the dominated set has been handed up: a
  block that the walk has left holds all it dominates, one above `cur` all but the subtree
  that is open. `FrontierInv` gives the frontier after some of the edges, with `Passed` for
  the climb that is under way.

`AnalysisImplements`, that every step of `Dominators` is one of `DominanceSpec` under the mapping
of section 2 or changes nothing in it, needs more than the invariants of the final values:

* The numbering is depth first in the sense of `DepthFirst`, a condition on numbers and
  edges alone, which `UpwardEdges` and `Intervals` give.
* `SemiEnters`, one more invariant: a semidominator that has been found is the start of a path
  that comes to its vertex over bigger numbers. `Sound` is weaker: it lets the way depend on
  the block that is avoided. A round keeps `SemiEnters` because a path that comes to `mn` can
  go on down the tree to the vertex of the round (`SemiEntersNext`).
* `SemiBest`: no path over bigger numbers starts lower. `Covers` says that of single edges; the
  set of blocks from which such a path is no better is shown to be closed, so that it holds
  what `Reach` finds, without an induction on the path.
* Once settled, a result stays: an action changes only entries that the mapping still hides
  (`NothingNew`), except for the five that reveal one: `Numbered`, `Link` (`FindSemi`), `FixIdom`
  (`FindIdom`), `TreeWalked` and the last `NextBlock`.

`AnalysisAlwaysEnds` adds that each component of `Remaining` is a natural number. It uses the same
invariant: `find` goes up because a compressed pointer still leads to an ancestor, and the
climb because an immediate dominator has one dominator less.

### Checked by TLC only

* Everything under fairness (`Terminates`): out of the prover's reach.
* Everything about the passes (`Pipeline`). Those walk trees, lists and graphs,
  and are written with recursive operators, which the prover does not take; what they
  compute for every input would need induction over data. That the operators of `Dominance`
  compute what the theorems about `Dominators` promise is `OperatorsAgree`.
* `NewTempsAreTemporaries`, `ConstrainedEndsInterfere`, `BreakRefusedOutsideLoop`, and
  `MeaningKept` for two programs, which do not hold (section 3).

## 5. Plan

Done: the pipeline from the tree to the selected instructions; `RegAlloc`, `Liveness`,
`AsmFixed`, `ScopeCheck`, `Dominators` with the proofs of all their safety properties, that each
round of `RegAlloc` and the analyses of `Liveness` and `Dominators` end, and that `Dominators`
implements `DominanceSpec`.

Next, in this order:

1. `RegAlloc` on what `Assembly` yields: a map from the instructions of `Assembly` to those of
   `AsmProgram`, and colours written back to run the result on `Machine`.
2. `eliminateRedundantMOV`, which needs 1.
3. Parameters on the stack in `Assembly` and `Machine`, which would join it to `AsmFixed`.

## 6. Not modelled, and programs that are left out

* Floats, in every stage: the same control as integers, with conversions in between.
* The lexer and parser (generated, and no state beyond the tree), the exporters and debug
  output (text).
* `lcssa.cpp`, `SimplifyLoop` (`loop-simplify.cpp:75-201`) and `ExprAST::EvaluateInitVal`: never
  called.
* The magic number of `divConst`: division by a constant is one instruction `DIVC` of
  `Machine`, so its arithmetic is taken for granted.
* Parameters after the fourth, in `Assembly`. Their offsets are in `AsmFixed`.
* Write-back of colours, pushes and pops, `eliminateRedundantMOV`.
* Details inside modelled functions, none of which a property depends on: immediates in
  rotated form (`asm.cpp:198-211`; the model loads such a number into a register first); the
  XOR chain that ends in a constant (`asm-codegen.cpp:657-661`), which value numbering has
  folded before; the refusals of `instr-combine.cpp:72-76` and `:90-98` when the combined constant
  overflows; the checks of indices, parameters and constant targets in `type-check.cpp:58`,
  `:1019` and `:1071`.
* Two places where the model is told apart from the code only by states it does not reach or
  does not look at. `RegAlloc` names a move by its ends, so an entry of `moveList` keeps the old
  ends after a rewrite (`asm-register.cpp:679`), where the code's entry is a pointer. `DetectLoop`
  drops a loop that is merged into its twin from every outer loop; in the code it would stay in
  the `m_sub_loops` of one already met (`loop-detection.cpp:80`, `:91-92`), which the order of the
  back edges rules out.

The passing programs avoid inputs for which the code as it stands does not keep the meaning
or aborts. Most are among the hazards of `PROJECT.json`, where the property that would catch
them is not credited for that reason. They are properties of the code, not of the model,
which shows them when such a program is added, except the two marked "not shown":

* unrolling with a stride other than one and rounds left over (`pipeline_unroll`), with the
  exit on the true branch, or with instructions in the header that the copy does not carry;
* the stale index of `gvn.cpp:494` (`pipeline_gvn`);
* a global loaded, written by a call, and loaded again in one block (`m_load_map`);
* an element written under two indices that are equal only when the program runs
  (`load.cpp:60`);
* with `-O`, a comparison used as a number (`asm-optimization.cpp:217`), and a product of a
  phi added in another block (`asm-optimization.cpp:148`);
* with `-O`, `x / a * b` where `b` is a multiple of `a` and `x` is not: it becomes
  `x * (b / a)` (`instr-combine.cpp:138`);
* division and remainder by a negative constant: the divisor of `divConst` is unsigned
  (`asm-codegen.cpp:104-126`; not shown, because `DIVC` is exact for every divisor);
* an address with offset zero whose load comes last in its block (`asm-fixed.cpp:71`; not
  shown, as section 4 says of `AsmFixed`);
* an empty endless loop (`asm-optimization.cpp:72`);
* a list of initial values nested deeper than its array, an element of a constant array
  that is not given, and comparisons of constants above 2^24.

There is no concurrency, no persistence and no messaging in this program, and none in
the models.
