------------------------------ MODULE Pipeline ------------------------------
(***************************************************************************)
(* The driver (src/main.cpp): the syntax tree of a program, then its       *)
(* intermediate representation, goes through the passes in the order main  *)
(* calls them.  Each pass is an action; with -O five more of them run.  *)
(***************************************************************************)
EXTENDS TypeCheck, CodeGen, Mem2Reg, MemoryAccess, Unrolling, CodeMotion, AsmOptimization, Machine

CONSTANTS Programs,      \* the syntax trees to compile
          Inputs         \* what a program may read

VARIABLES program, optimization,
          comp_unit,     \* the syntax tree, which the type checker rewrites
          passes,        \* the passes that have run
          module, assembly,
          meaning        \* auxiliary: what the program does on each input, as it now stands
vars == <<program, optimization, comp_unit, passes, module, assembly, meaning>>

(* Value numbering leaves a value where the code found it first, which may *)
(* be after a use; until code motion has given each instruction its place  *)
(* the module is not in the order of execution.                            *)
Become(name, new) ==
    /\ module' = new
    /\ meaning' = IF name = "GVN" THEN meaning ELSE [i \in Inputs |-> Result(new, i)]
    /\ passes' = Append(passes, name)
    /\ UNCHANGED <<program, optimization, comp_unit, assembly>>
RunPass(name, after, Pass(_)) ==
    /\ passes # <<>> /\ passes[Len(passes)] \in after
    /\ \E new \in {Pass(module)} : Become(name, new)

CheckTypes ==
    /\ passes = <<>>
    /\ \E new \in {TypeCheckProgram(comp_unit)} :
          comp_unit' = new /\ meaning' = [i \in Inputs |-> Meaning(new, i)]
    /\ passes' = <<"TypeCheck">>
    /\ UNCHANGED <<program, optimization, module, assembly>>
GenerateIR ==
    passes = <<"TypeCheck">> /\ \E new \in {GenProgram(comp_unit)} : Become("CodeGen", new)
PromoteVariables == RunPass("Mem2Reg", {"CodeGen"}, Mem2RegPass)
ReadConstants == RunPass("GlobalConst", {"Mem2Reg"}, EliminateGlobalConstArrayAccess)
RemoveTailCalls == RunPass("TailRecursion", {"GlobalConst"}, TailRecursionPass)
InlineFunctions == RunPass("Inlining", {"TailRecursion"}, FunctionInliningPass)
ForwardStores == RunPass("LoadStore", {"Inlining"}, LoadStoreOptimizationPass)
UnrollLoops == RunPass("Unrolling", {"LoadStore"}, LoopUnrollingPass)
SimplifyLoops == optimization /\ RunPass("LoopSimplify", {"Unrolling"}, LoopSimplifyPass)
ReduceStrength == RunPass("StrengthReduction", {"LoopSimplify"}, StrengthReductionPass)
CombineInstructions == RunPass("InstrCombining", {"StrengthReduction"}, InstrCombiningPass)
NumberValues ==
    RunPass("GVN", IF optimization THEN {"InstrCombining"} ELSE {"Unrolling"}, GVNPass)
MoveCode == RunPass("GCM", {"GVN"}, GCMPass)

(* The back end, up to register allocation.                                *)
BecomeAsm(name, new) ==
    /\ assembly' = new
    /\ meaning' = [i \in Inputs |-> AsmResult(new, i)]
    /\ passes' = Append(passes, name)
    /\ UNCHANGED <<program, optimization, comp_unit, module>>
OptimizeTemp(name, after, Pass(_)) ==
    /\ passes # <<>> /\ passes[Len(passes)] = after
    /\ \E new \in {OnEachFunction(Pass, assembly)} : BecomeAsm(name, new)
SelectInstructions ==
    /\ passes # <<>> /\ passes[Len(passes)] = "GCM"
    /\ \E new \in {GenerateModule(module)} : BecomeAsm("Selection", new)
DropJumps == OptimizeTemp("Jumps", "Selection", EliminateRedundantJump)
DropBlocks == OptimizeTemp("Unreachable", "Jumps", RemoveUnreachableBlock)
CombineAdditions == optimization /\ OptimizeTemp("Combine", "Unreachable", CombineInstruction)
DropDeadInstructions == optimization /\ OptimizeTemp("DeadCode", "Combine", EliminateDeadInstruction)

LastPass(name) == passes # <<>> /\ passes[Len(passes)] = name
NoModule == [fn |-> <<>>]
MeaningOf(P) == [i \in Inputs |-> Meaning(P, i)]
Finished == passes # <<>> /\ passes[Len(passes)] = (IF optimization THEN "DeadCode" ELSE "Unreachable")
Exit == Finished /\ UNCHANGED vars
Init == /\ program \in Programs /\ comp_unit = program /\ optimization \in BOOLEAN
        /\ passes = <<>> /\ module = NoModule /\ assembly = NoModule /\ meaning = MeaningOf(program)
Next == \/ CheckTypes \/ GenerateIR \/ PromoteVariables \/ ReadConstants \/ RemoveTailCalls
        \/ InlineFunctions \/ ForwardStores \/ UnrollLoops \/ SimplifyLoops
        \/ ReduceStrength \/ CombineInstructions \/ NumberValues \/ MoveCode
        \/ SelectInstructions \/ DropJumps \/ DropBlocks \/ CombineAdditions
        \/ DropDeadInstructions \/ Exit

Done(pass) == \E n \in DOMAIN passes : passes[n] = pass
Spec == Init /\ [][Next]_vars

-----------------------------------------------------------------------------
Functions == IF Done("CodeGen") THEN {module.fn[g] : g \in SeqRange(module.list)} ELSE {}

(* After every pass the module yields, for every input, the output and the *)
(* return value of the source program.                                     *)
MeaningKept == meaning = MeaningOf(program)

(* No assertion of a pass fails and no pass follows a use that it, or an   *)
(* earlier one, has destroyed.                                             *)
NoAssertionFails == \A f \in Functions : f.fault = {}

-----------------------------------------------------------------------------
(* Dominance by its definition: every path from the entry goes through a.  *)
RECURSIVE Avoiding(_, _, _, _)
Avoiding(f, a, seen, todo) ==
    IF todo = {} THEN seen
    ELSE LET next == UNION {SuccessorSet(f, b) : b \in todo} \ (seen \cup {a})
         IN Avoiding(f, a, seen \cup next, next)
DominatedBy(f, a) ==
    IF a = Entry(f) THEN Blocks(f)
    ELSE Blocks(f) \ Avoiding(f, a, {Entry(f)}, {Entry(f)})

Place(f, b, id) == CHOOSE n \in DOMAIN f.body[b] : f.body[b][n] = id
DefinedBefore(f, dom, v, b, n) ==
    IsRef(v) => LET d == BlockOf(f, v[2]) IN
                IF d = b THEN Place(f, b, v[2]) < n ELSE b \in dom[d]
(* In SSA form every value is computed on every path to a use of it; the   *)
(* operand of a phi is, on every path to the end of the block it comes     *)
(* from.  Operands that a pass has destroyed are used nowhere.             *)
DefinitionsReachUses ==
    (Done("Mem2Reg") /\ ~LastPass("GVN")) =>
    \A f \in Functions :
        LET dom == [a \in Blocks(f) |-> DominatedBy(f, a)]
            live == Avoiding(f, 0, {Entry(f)}, {Entry(f)})
        IN \A b \in live : \A n \in DOMAIN f.body[b] :
            LET i == f.ins[f.body[b][n]] IN
            /\ Dangling \notin Operands(i)
            /\ i.op # "phi" => \A v \in SeqRange(i.args) : DefinedBefore(f, dom, v, b, n)
            /\ \A p \in DOMAIN i.inc :
                  DefinedBefore(f, dom, i.inc[p], p, Len(f.body[p]) + 1)

(* The predecessor sets that the passes keep by hand are those of the flow *)
(* graph, and the phis, at the front of their block, have an operand for   *)
(* each predecessor and no other.                                          *)
PhisMatchPredecessors ==
    Done("Mem2Reg") =>
    \A f \in Functions : \A b \in Blocks(f) :
        /\ f.pred[b] = {p \in Blocks(f) : b \in SuccessorSet(f, p)}
        /\ \A id \in SeqRange(f.body[b]) : f.ins[id].op = "phi" =>
              /\ DOMAIN f.ins[id].inc = f.pred[b]
              /\ id \in SeqRange(LeadingPhis(f, b))

(* A function that writes memory it did not allocate, reads a global, or   *)
(* does input or output, itself or in a function it calls, is known to     *)
(* have side effects.                                                      *)
RECURSIVE Root(_, _)
Root(f, v) == IF IsOp(f, v, "gep") THEN Root(f, f.ins[v[2]].args[1]) ELSE v
HasEffect(f, i) ==
    \/ i.op = "call" /\ i.fn \in Builtins
    \/ i.op = "store" /\ ~IsOp(f, Root(f, i.args[1]), "alloca")
    \/ i.op = "load" /\ Root(f, i.args[1])[1] = "glob"
SideEffectsKnown ==
    Done("GlobalConst") =>
    \A g \in SeqRange(module.list) :
        (\E h \in CalledFrom(module, {g}) : \E id \in IdsOf(module.fn[h]) :
            HasEffect(module.fn[h], module.fn[h].ins[id])) => module.side[g]

(* After loop simplification every loop is entered by one edge and closed  *)
(* by one edge, until a later pass takes an empty block away again.        *)
LoopsSimplified ==
    LastPass("LoopSimplify") =>
    \A f \in Functions : \A h \in Blocks(f) :
        LET back == {p \in f.pred[h] : p \in DominatedBy(f, h)} IN
        back # {} => Cardinality(back) = 1 /\ Cardinality(f.pred[h] \ back) = 1

(* The flags that a conditional branch tests are set by the instruction    *)
(* right before it: what is handed to the back end computes the condition  *)
(* of each branch last.                                                    *)
ConditionsLast ==
    Done("GCM") =>
    \A f \in Functions : \A b \in Blocks(f) :
        LET br == Terminator(f, b) IN
        (br.op = "br" /\ IsRef(br.args[1])) =>
            Len(f.body[b]) > 1 /\ f.body[b][Len(f.body[b]) - 1] = br.args[1][2]

-----------------------------------------------------------------------------
AsmFunctions == IF Done("Selection") THEN {assembly.fn[g] : g \in SeqRange(assembly.list)} ELSE {}

(* The edges that selection and the jump passes keep by hand are those of  *)
(* the instructions: the targets of the branches and, after a block that   *)
(* does not end in an unconditional one, the next block.                   *)
FallsThrough(f, b) ==
    /\ b # RBlock
    /\ LET last == f.body[b][Len(f.body[b])]
       IN f.body[b] # <<>> => ~(IsBranch(last) /\ last.cond = "none")
Flow(f, b) ==
    {i.tgt : i \in {j \in SeqRange(f.body[b]) : IsBranch(j)}}
        \cup (IF FallsThrough(f, b) THEN {NextBlock(f, b)} ELSE {})
EdgesMatchBranches ==
    \A f \in AsmFunctions : \A b \in SeqRange(f.order) :
        /\ SeqRange(f.succ[b]) = Flow(f, b)
        /\ SeqRange(f.pred[b]) \cap SeqRange(f.order) = {p \in SeqRange(f.order) : b \in Flow(f, p)}

(* No virtual register is read on a path from the entry that has not       *)
(* written it: the moves for a phi are on every edge into its block, and   *)
(* no move that a later read needs is taken for dead.                      *)
NothingLiveAtEntry ==
    \A f \in AsmFunctions :
        LET entry == BlockLiveness(f.body[f.order[1]])
        IN \A o \in entry.use \cup (LiveOut(f)[f.order[1]] \ entry.def) : ~IsVReg(o)

(* Every block that must be left through moves for phis has a branch to    *)
(* put them before, and no branch tests a constant.                        *)
NoSelectionFault == \A f \in AsmFunctions : f.fault = {}
=============================================================================
