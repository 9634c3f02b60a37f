------------------------------ MODULE Liveness ------------------------------
(***************************************************************************)
(* ASM_Function::LivenessAnalysis of src/asm/asm-liveness.cpp: round-robin *)
(* iteration over the blocks, last block first, until a whole round        *)
(* changes nothing.  One step is one iteration of the inner loop.          *)
(*                                                                         *)
(* Inside a step livein is computed from the liveout the block had before, *)
(* and liveout from livein sets some of which were already renewed in this *)
(* round.                                                                  *)
(***************************************************************************)
EXTENDS AsmProgram

CONSTANT Programs    \* the functions analysed, as sequences of blocks

ASSUME LivenessAssumption ==
    \A p \in Programs : IsFlowGraph(p) /\ Len(p) # 0

\* The operands of one function.
ASSUME ClassAssumption == IsFiniteSet(Class)

VARIABLES
    prog,               \* m_blocks
    livein, liveout,    \* m_livein and m_liveout of every block
    block,              \* the block the inner loop is at
    end,                \* the flag of the do-while loop
    done

vars == <<prog, livein, liveout, block, end, done>>

Blocks == DOMAIN prog

\* m_use and m_def of a block.
BlockUse(b) == UpwardUse(prog[b].insts)
BlockDef(b) == FirstDef(prog[b].insts)

-----------------------------------------------------------------------------
\* Mutant: what the block defines is not taken out.
LiveInWithDefs(b) == BlockUse(b) \cup liveout[b]

\* in[b] = use[b] union (out[b] - def[b])
LiveIn(b) == BlockUse(b) \cup (liveout[b] \ BlockDef(b))

\* Mutant: only one successor is looked at.
OneSuccessor(b) ==
    liveout[b] \cup UNION {livein'[s] : s \in {t \in prog[b].succ : \A r \in prog[b].succ : t <= r}}

\* out[b] = union(in[s]), s in succ[b], added to what liveout has.
LiveOutOf(b) == liveout[b] \cup UNION {livein'[s] : s \in prog[b].succ}

\* Mutants: only livein is compared; a block counts as unchanged when nothing
\* is live in it.
UnchangedIn(b) == livein'[b] = livein[b]
NothingLive(b) == livein'[b] \cup liveout'[b] = {}

\* The comparison with temp_in and temp_out.
Unchanged(b) == livein'[b] = livein[b] /\ liveout'[b] = liveout[b]

Visit ==
    /\ ~done /\ block > 0
    /\ livein'  = [livein EXCEPT ![block] = LiveIn(block)]
    /\ liveout' = [liveout EXCEPT ![block] = LiveOutOf(block)]
    /\ end' = (end /\ Unchanged(block))
    /\ block' = block - 1
    /\ UNCHANGED <<prog, done>>

\* Mutant: end is set before the loop only.
NextRoundKeepsEnd ==
    /\ ~done /\ block = 0
    /\ ~end
    /\ block' = Len(prog)
    /\ UNCHANGED <<prog, livein, liveout, end, done>>

NextRound ==
    /\ ~done /\ block = 0
    /\ ~end
    /\ end' = TRUE
    /\ block' = Len(prog)
    /\ UNCHANGED <<prog, livein, liveout, done>>

Finish ==
    /\ ~done /\ block = 0
    /\ end
    /\ done' = TRUE
    /\ UNCHANGED <<prog, livein, liveout, block, end>>

\* The block summaries are computed and livein and liveout cleared.
Init ==
    /\ prog \in Programs
    /\ livein  = [b \in DOMAIN prog |-> {}]
    /\ liveout = [b \in DOMAIN prog |-> {}]
    /\ block = Len(prog)
    /\ end = TRUE
    /\ done = FALSE

Next == Visit \/ NextRound \/ Finish

Spec == Init /\ [][Next]_vars

\* One sequential procedure: it takes its next step.
FairSpec == Spec /\ WF_vars(Next)

-----------------------------------------------------------------------------
(***************************************************************************)
(* Properties                                                              *)
(***************************************************************************)
\* Every variable holds a value of its kind.
TypeOK ==
    /\ livein \in [Blocks -> SUBSET Class]
    /\ liveout \in [Blocks -> SUBSET Class]
    /\ block \in 0..Len(prog)
    /\ end \in BOOLEAN
    /\ done \in BOOLEAN

\* The meaning of liveness, with no equations: v is live out of b if some
\* path from b reaches a use of v in a block before any definition of it
\* there, through blocks that do not define v.  A path that visits no block
\* twice is enough.
Exposes(b, v) ==
    \E k \in DOMAIN prog[b].insts :
        /\ v \in Use(prog[b].insts[k])
        /\ \A j \in 1..(k - 1) : v \notin Def(prog[b].insts[j])

Kills(b, v) == \E k \in DOMAIN prog[b].insts : v \in Def(prog[b].insts[k])

LiveByPath(b, v) ==
    \E n \in Blocks : \E path \in [1..n -> Blocks] :
        /\ path[1] \in prog[b].succ
        /\ \A i \in 1..(n - 1) : path[i + 1] \in prog[path[i]].succ /\ ~Kills(path[i], v)
        /\ Exposes(path[n], v)

\* When the iteration stops, the operands live out of a block are those with
\* a path to a use: none is missing, which would let the allocator share a
\* live register, and none is made up.
LiveOutIsMeaning ==
    done => \A b \in Blocks : liveout[b] = {v \in Class : LiveByPath(b, v)}

\* Register allocation uses the closed form AsmProgram!LiveOut.
LiveOutIsClosedForm == done => liveout = LiveOut(prog)

\* The data-flow equations, and their least solution.
Solution(in, out) ==
    \A b \in Blocks :
        /\ in[b] = BlockUse(b) \cup (out[b] \ BlockDef(b))
        /\ out[b] = UNION {in[s] : s \in prog[b].succ}

\* When the iteration stops, the equations hold at every block, although
\* livein was computed from an older liveout, and no other solution has less.
LeastSolution ==
    done =>
        /\ Solution(livein, liveout)
        /\ \A in, out \in [Blocks -> SUBSET Class] :
              Solution(in, out) =>
                  \A b \in Blocks : livein[b] \subseteq in[b] /\ liveout[b] \subseteq out[b]

\* The iteration ends.
Terminates == <>done

\* What is left to do: the operands that a set of a block does not have, the
\* rounds that are sure to come, the blocks of the round, the return.
Gaps(sets) == {g \in Blocks \X Class : g[2] \notin sets[g[1]]}
Remaining ==
    <<Cardinality(Gaps(livein)) + Cardinality(Gaps(liveout)),
      IF end THEN 0 ELSE 1, block, IF done THEN 0 ELSE 1>>

LexBelow(a, b) == \E k \in DOMAIN b : a[k] < b[k] /\ \A j \in 1..(k - 1) : a[j] = b[j]

\* Every step leaves less to do: although livein is assigned anew on every
\* visit, no operand ever leaves a set again, and a round that adds none is
\* the last.  This needs no fairness.
AnalysisEnds == [][LexBelow(Remaining', Remaining)]_vars

=============================================================================
