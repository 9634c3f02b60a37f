----------------------------- MODULE CfgCleanup -----------------------------
(***************************************************************************)
(* The clean-up passes that most other passes call                         *)
(* (src/ir/pass/basic.cpp and dce.cpp).  Each is an operator on a function *)
(* that returns the function it leaves; the code's "changed" is that the   *)
(* two differ.  m is the module, read for the side effects of calls.       *)
(***************************************************************************)
EXTENDS IR
LOCAL INSTANCE SequencesExt

RECURSIVE ReachFrom(_, _, _)
ReachFrom(f, seen, todo) ==
    IF todo = {} THEN seen
    ELSE LET next == UNION {SuccessorSet(f, b) : b \in todo} \ seen
         IN ReachFrom(f, seen \cup next, next)
Reachable(f) == ReachFrom(f, {Entry(f)}, {Entry(f)})

(* The code's loops "until nothing changes".                               *)
RECURSIVE UntilStable(_, _)
UntilStable(Do(_), f) == LET g == Do(f) IN IF g = f THEN f ELSE UntilStable(Do, g)

-----------------------------------------------------------------------------
UpdatePredecessors(f) ==
    [f EXCEPT !.pred = [b \in DOMAIN @ |->
        IF b \in Blocks(f) THEN {p \in Blocks(f) : b \in SuccessorSet(f, p)} ELSE @[b]]]

(* Unused blocks leave the list first, then lose their instructions, last  *)
(* to first, the blocks deepest in the dominator tree of an earlier        *)
(* analysis first (in list order when the depths are equal).               *)
RemoveUnusedBasicBlocks(f) ==
    LET used == Reachable(f) IN
    With(SelectSeq(f.order, LAMBDA b : b \notin used), LAMBDA unused :
    LET Unlink(g, b) ==
            With(Each(LAMBDA k, s : RemovePredecessor(k, s, b), g, Successors(g, b)), LAMBDA h :
            [h EXCEPT !.order = SelectSeq(@, LAMBDA c : c # b)])
        Pos(b) == CHOOSE n \in DOMAIN unused : unused[n] = b
        Before(a, b) == f.depth[a] > f.depth[b] \/ (f.depth[a] = f.depth[b] /\ Pos(a) < Pos(b))
        Empty(g, b) == RemoveAll(g, Reverse(g.body[b])) IN
    IF unused = <<>> THEN f
    ELSE Each(Empty, Each(Unlink, f, unused), SortSeq(unused, Before)))

(* A phi whose operands, itself apart, are all one value is that value; a  *)
(* phi with an undefined operand is kept.                                  *)
RemoveTrivialPhi(f, id) ==
    LET vals == {f.ins[id].inc[p] : p \in DOMAIN f.ins[id].inc}
        others == vals \ {Ref(id)}
        val == CHOOSE v \in others : TRUE
    IN IF Undef \in vals \/ Cardinality(others) > 1 THEN f
       ELSE IF others = {}
       THEN RemoveInstruction(FaultUnless(Users(f, Ref(id)) = {}, "phi in use", f), id)
       ELSE RemoveInstruction(ReplaceUseBy(f, id, val), id)
RemoveTrivialPhis(f) ==
    LET Sweep(g) == Each(LAMBDA h, b : Each(RemoveTrivialPhi, h, LeadingPhis(h, b)), g, g.order)
    IN UntilStable(Sweep, f)

(* The condition is a constant, or compares a value with itself.           *)
Deterministic(f, c) ==
    \/ IsConstant(c)
    \/ /\ IsRef(c) /\ f.ins[c[2]].op \in IntCompare \cup {"xor"}
       /\ f.ins[c[2]].args[1] = f.ins[c[2]].args[2]
AlwaysTrue(f, c) ==
    IF IsConstant(c) THEN c[2] # 0 ELSE f.ins[c[2]].op \in {"sge", "sle", "eq"}
ReplaceTrivialBranchByJump(f) ==
    LET Replace(g, b) ==
            LET br == Terminator(g, b) IN
            IF br.op # "br" \/ ~Deterministic(g, br.args[1]) THEN g
            ELSE LET n == IF AlwaysTrue(g, br.args[1]) THEN 1 ELSE 2
                     h == RemovePredecessor(g, br.tgt[3 - n], b)
                 IN PushBack(RemoveInstruction(h, LastId(h, b)), b, JumpTo(br.tgt[n]))
    IN UntilStable(LAMBDA g : Each(Replace, g, g.order), f)

(* A block that only jumps is bypassed, unless a phi of its target tells   *)
(* the edge through it from another edge of one of its predecessors.       *)
PhiValue(f, id, p) == IF p \in DOMAIN f.ins[id].inc THEN f.ins[id].inc[p] ELSE Undef
Bypassable(f, b) ==
    LET t == Terminator(f, b).tgt[1] IN
    /\ f.pred[b] = {} => t = b
    /\ \A p \in f.pred[b], id \in SeqRange(LeadingPhis(f, t)) :
          \/ Undef \in {PhiValue(f, id, p), PhiValue(f, id, b)}
          \/ PhiValue(f, id, p) = PhiValue(f, id, b)
Bypass(f, b) ==
    LET t == Terminator(f, b).tgt[1]
        preds == f.pred[b] IN
    With(IF preds = {} THEN RemovePredecessor(f, t, b)
         ELSE SplitPredecessor(
                Each(LAMBDA h, p : ReplaceSuccessorBy(h, p, b, t), f, InOrder(preds)),
                t, b, preds), LAMBDA g :
    [RemoveInstruction(g, LastId(g, b)) EXCEPT !.order = SelectSeq(@, LAMBDA c : c # b)])
RemoveTrivialBasicBlocks(f) ==
    LET Try(g, b) ==
            IF Len(g.body[b]) = 1 /\ Terminator(g, b).op = "jump" /\ Bypassable(g, b)
            THEN Bypass(g, b) ELSE g
    IN UntilStable(LAMBDA g : Each(Try, g, g.order), f)

-----------------------------------------------------------------------------
(* Dead code: only the entry block is swept for instructions that nothing  *)
(* live needs (the depth first search tests the flag of the wrong block    *)
(* and never leaves the entry); in the others a binary instruction goes    *)
(* when its use list is empty and a phi when only it uses itself.          *)
RECURSIVE Needed(_, _)
Needed(f, ids) ==
    LET ops == UNION {Operands(f.ins[id]) : id \in ids}
        more == {id \in DOMAIN f.ins : Ref(id) \in ops} \ ids
    IN IF more = {} THEN ids ELSE Needed(f, ids \cup more)
Alive(m, f) ==
    Needed(f, {id \in IdsOf(f) : f.ins[id].op \in {"br", "jump"} \/ HasSideEffect(m, f.ins[id])})

RemoveOrphan(f, id) ==
    LET others == Users(f, Ref(id)) \ (IF f.ins[id].op = "phi" THEN {id} ELSE {})
    IN IF f.ins[id].op \in BinaryOps \cup {"phi"} /\ others = {}
       THEN RemoveInstruction(f, id) ELSE f
DeadCodeElimination(m, f) ==
    LET Dead(g) == LET alive == Alive(m, g) IN
                   SelectSeq(Reverse(g.body[Entry(g)]), LAMBDA id : id \notin alive)
        Orphans(g) == Each(LAMBDA h, b : Each(RemoveOrphan, h, h.body[b]), g, g.order)
    IN UntilStable(LAMBDA g : Orphans(RemoveAll(g, Dead(g))), f)

BasicOptimization(m, f) ==
    UntilStable(LAMBDA g :
        RemoveTrivialBasicBlocks(RemoveTrivialPhis(RemoveUnusedBasicBlocks(
            DeadCodeElimination(m, ReplaceTrivialBranchByJump(g))))), f)

-----------------------------------------------------------------------------
RECURSIVE CalledFrom(_, _)
CalledFrom(m, gs) ==
    LET calls(g) == {m.fn[g].ins[id].fn : id \in IdsOf(m.fn[g])}
        more == (UNION {calls(g) : g \in gs} \cap SeqRange(m.list)) \ gs
    IN IF more = {} THEN gs ELSE CalledFrom(m, gs \cup more)
RemoveUnusedFunctions(m) ==
    [m EXCEPT !.list = SelectSeq(@, LAMBDA g : g \in CalledFrom(m, {"main"}))]
=============================================================================
