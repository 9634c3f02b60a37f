------------------------------ MODULE Mem2Reg -------------------------------
(***************************************************************************)
(* Scalar local variables become values (src/ir/pass/mem2reg.cpp): phis at *)
(* the iterated dominance frontier of the stores of a variable, then a     *)
(* depth first walk of the control flow graph that carries, for every      *)
(* variable, the definition that reaches the block.                        *)
(***************************************************************************)
EXTENDS Dominance
LOCAL INSTANCE SequencesExt

(* The ids of the promotable allocas, in block order: every scalar.        *)
RECURSIVE AllIds(_, _)
AllIds(f, bs) == IF bs = <<>> THEN <<>> ELSE f.body[Head(bs)] \o AllIds(f, Tail(bs))
Promotable(f) ==
    SelectSeq(AllIds(f, f.order), LAMBDA id : f.ins[id].op = "alloca" /\ f.ins[id].k = 0)
StoresTo(f, a, b) ==
    \E id \in SeqRange(f.body[b]) : f.ins[id].op = "store" /\ f.ins[id].args[1] = Ref(a)
Defs(f, a) == {b \in Blocks(f) : StoresTo(f, a, b)}

(* Part 1.  The work list is a stack in the code; the set it yields does   *)
(* not depend on the order.                                                *)
RECURSIVE PhiBlocks(_, _, _, _)
PhiBlocks(f, defs, todo, found) ==
    IF todo = {} THEN found
    ELSE LET x == CHOOSE b \in todo : TRUE
             new == f.df[x] \ found
         IN PhiBlocks(f, defs, (todo \ {x}) \cup (new \ defs), found \cup new)

(* r is the function with the variable that each new phi stands for.       *)
InsertPhis(r, a) ==
    LET blocks == PhiBlocks(r.f, Defs(r.f, a), Defs(r.f, a), {})
        Add(q, b) == IF b \notin blocks THEN q
                     ELSE [f |-> PushFront(q.f, b, Phi(<<>>)), phis |-> (q.f.ni :> a) @@ q.phis]
    IN Each(Add, r, r.f.order)

(* Part 2, one instruction: reach maps a variable to its definition.       *)
RenameInstr(b, r, id) ==
    LET i == r.f.ins[id]
        a == IF i.op \in {"load", "store"} /\ IsRef(i.args[1]) THEN i.args[1][2] ELSE id
    IN CASE i.op = "phi" /\ id \in DOMAIN r.phis -> [r EXCEPT !.reach[r.phis[id]] = Ref(id)]
         [] i.op = "alloca" /\ id \in DOMAIN r.reach -> [r EXCEPT !.f = Detach(@, id)]
         [] i.op = "load" /\ a \in DOMAIN r.reach ->
                LET f == FaultUnless(r.reach[a] # Undef \/ Users(r.f, Ref(id)) = {},
                                     "undefined read", r.f)
                IN [r EXCEPT !.f = RemoveInstruction(ReplaceUseBy(f, id, r.reach[a]), id)]
         [] i.op = "store" /\ a \in DOMAIN r.reach ->
                [r EXCEPT !.reach[a] = i.args[2], !.f = RemoveInstruction(@, id)]
         [] OTHER -> r

(* The block's definitions become operands of the phis of its successors.  *)
FillSuccessor(b, r, s) ==
    LET Fill(f, id) == IF id \in DOMAIN r.phis
                       THEN AddPhiOperand(f, id, b, r.reach[r.phis[id]]) ELSE f
    IN [r EXCEPT !.f = Each(Fill, @, LeadingPhis(@, s))]

(* One block of the walk.  r.stack holds blocks to visit with the          *)
(* definitions that reach them.                                            *)
Rename(r) ==
    LET top == r.stack[Len(r.stack)]
        b == top.bb
        rest == [r EXCEPT !.stack = SubSeq(@, 1, Len(@) - 1), !.visited = @ \cup {b},
                          !.reach = top.reach]
        q == Each(LAMBDA x, id : RenameInstr(b, x, id), rest, r.f.body[b])
        next == SelectSeq(Successors(q.f, b), LAMBDA s : s \notin q.visited)
    IN IF b \in r.visited THEN [r EXCEPT !.stack = rest.stack]
       ELSE [Each(LAMBDA x, s : FillSuccessor(b, x, s), q, Successors(q.f, b)) EXCEPT
                !.stack = @ \o [n \in DOMAIN next |-> [bb |-> next[n], reach |-> q.reach]]]

UncoveredPredecessor(f) ==
    \E b \in Blocks(f) : \E id \in SeqRange(LeadingPhis(f, b)) : ~IsValid(f, b, id)
Mem2Reg(f0) ==
    With(ComputeDominanceFrontier(ComputeDominanceRelationship(f0)), LAMBDA f :
    With(Promotable(f), LAMBDA vars :
    With(Each(InsertPhis, [f |-> f, phis |-> <<>>], vars), LAMBDA r :
    With([a \in SeqRange(vars) |-> Undef], LAMBDA start :
    With(Repeat(Rename, LAMBDA q : q.stack = <<>>,
                [f |-> r.f, phis |-> r.phis, reach |-> start, visited |-> {},
                 stack |-> <<[bb |-> Entry(f), reach |-> start]>>], 2 * Len(f.order) + 1).f, LAMBDA g :
    FaultUnless(~UncoveredPredecessor(g), "uncovered predecessor", g))))))
Mem2RegPass(m) == [m EXCEPT !.fn = [g \in DOMAIN @ |-> Mem2Reg(@[g])]]
=============================================================================
