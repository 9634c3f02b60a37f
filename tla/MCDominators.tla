---------------------------- MODULE MCDominators -----------------------------
(***************************************************************************)
(* Every flow graph of up to MaxBlocks blocks that return, jump or branch, *)
(* never back to the entry, and whose blocks are all reached.  Each is     *)
(* analysed step by step, and by the operators that the passes of the      *)
(* pipeline use.                                                           *)
(***************************************************************************)
EXTENDS Dominators
LOCAL INSTANCE SequencesExt
Pass == INSTANCE Dominance

CONSTANT MaxBlocks

Targets(n) == {s \in SUBSET (2..n) : Cardinality(s) <= 2}
MCGraphs == UNION {{g \in [1..n -> Targets(n)] : Reach(g, 1) = 1..n} : n \in 1..MaxBlocks}

(* A function of module IR with the blocks of f_graph, the targets of each *)
(* branch in ascending or descending order, and one block more that        *)
(* nothing reaches and that jumps to the last of them.                     *)
Size == Cardinality(Block)
TerminatorTo(t) ==
    CASE Len(t) = 0 -> Pass!Instr("ret", <<>>)
      [] Len(t) = 1 -> Pass!JumpTo(t[1])
      [] Len(t) = 2 -> Pass!BranchTo(Pass!Bool(TRUE), t[1], t[2])
TargetsOf(b, ascending) ==
    IF b \notin Block THEN IF Size > 1 THEN <<Size>> ELSE <<>>
    ELSE SetToSortSeq(f_graph[b], LAMBDA c, d : IF ascending THEN c < d ELSE c > d)
FunctionOf(ascending) ==
    LET made == Pass!Repeat(Pass!MakeBlock, LAMBDA f : FALSE, Pass!NewFunction(0, TRUE), Size + 1)
        listed == [made EXCEPT !.order = [b \in 1..(Size + 1) |-> b]]
    IN Pass!Each(LAMBDA f, b : Pass!PushBack(f, b, TerminatorTo(TargetsOf(b, ascending))),
              listed, listed.order)

(* The passes are given the immediate dominators, dominated sets, depths   *)
(* and frontiers that the steps of dom.cpp compute, and the block that     *)
(* nothing reaches is gone.                                                *)
OperatorsAgree ==
    Analysed =>
    \A ascending \in BOOLEAN :
        LET g == Pass!ComputeDominanceRelationship(FunctionOf(ascending))
            f == Pass!ComputeDominanceFrontier(g)
        IN /\ Pass!Blocks(f) = Block
           /\ \A b \in Block : /\ f.idom[b] = idom[b]
                               /\ f.doms[b] = m_dominators[b]
                               /\ f.depth[b] = m_dom_depth[b]
                               /\ f.df[b] = m_dominance_frontier[b]
=============================================================================
