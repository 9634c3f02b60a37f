-------------------------- MODULE Interprocedural ---------------------------
(***************************************************************************)
(* The passes that look across calls: side effects of functions            *)
(* (src/ir/pass/side-effect.cpp), tail recursion (tail-recursion.cpp) and  *)
(* inlining (function-inlining.cpp).                                       *)
(***************************************************************************)
EXTENDS Dominance
LOCAL INSTANCE SequencesExt

RECURSIVE ListIds(_, _)
ListIds(f, bs) == IF bs = <<>> THEN <<>> ELSE f.body[Head(bs)] \o ListIds(f, Tail(bs))
InListOrder(f) == ListIds(f, f.order)

-----------------------------------------------------------------------------
(* Side effects.  Reading a global and addressing into one count; writing  *)
(* an element of a local array does not.                                   *)
IsOp(f, v, op) == IsRef(v) /\ f.ins[v[2]].op = op
\* Mutant: reading a global does not count.
InstrWrites(m, f, i) ==
    \/ i.op = "store" /\ ~(IsOp(f, i.args[1], "gep") /\ IsOp(f, f.ins[i.args[1][2]].args[1], "alloca"))
    \/ i.op = "call" /\ m.side[i.fn]
InstrHasSideEffect(m, f, i) ==
    \/ i.op \in {"load", "gep"} /\ i.args[1][1] = "glob"
    \/ /\ i.op = "store"
       /\ ~(IsOp(f, i.args[1], "gep") /\ IsOp(f, f.ins[i.args[1][2]].args[1], "alloca"))
    \/ i.op = "call" /\ m.side[i.fn]

CallsOf(f, g) == SelectSeq(InListOrder(f), LAMBDA id : f.ins[id].op = "call" /\ f.ins[id].fn # g)
Scan(m, g) ==
    LET f == m.fn[g]
        Note(k, id) == [k EXCEPT !.calls[f.ins[id].fn] = Append(@, <<id, g>>)]
    IN Each(Note, [m EXCEPT !.side[g] = \E id \in IdsOf(f) : InstrHasSideEffect(m, f, f.ins[id])],
            CallsOf(f, g))

(* Up the call graph from each function in turn, every function once.      *)
RECURSIVE CallerDfs(_, _, _)
CallerDfs(r, g, depth) ==
    IF g \in r.seen THEN r
    ELSE LET Up(k, c) ==
                LET h == [k EXCEPT !.m.side[c[2]] = @ \/ k.m.side[g]]
                IN CallerDfs(h, c[2], depth + 1)
         IN Each(Up, [r EXCEPT !.seen = @ \cup {g}, !.m.called[g] = depth], r.m.calls[g])
ComputeSideEffect(m) ==
    LET all == DOMAIN m.side
        m0 == [m EXCEPT !.side = [g \in all |-> IF g \in Builtins THEN TRUE
                                               ELSE IF g \in SeqRange(m.list) THEN FALSE ELSE @[g]],
                        !.calls = [g \in all |-> IF g \in SeqRange(m.list) THEN <<>> ELSE @[g]]] IN
    With([m |-> Each(Scan, m0, m.list), seen |-> {}], LAMBDA r :
    Each(LAMBDA k, g : CallerDfs(k, g, 1), r, m.list).m)
SideEffectPass(m) == ComputeSideEffect(RemoveUnusedFunctions(m))

-----------------------------------------------------------------------------
(* Tail recursion: a call of the function itself that is followed by the   *)
(* return of its value becomes a jump to the old entry block, where a phi  *)
(* stands for each parameter.                                              *)
IsTailCall(f, g, b) ==
    LET n == Len(f.body[b])
        call == f.ins[f.body[b][n - 1]]
        ret == Terminator(f, b)
    IN /\ n >= 2 /\ ret.op = "ret" /\ call.op = "call" /\ call.fn = g
       /\ IF f.void THEN ret.args = <<>> ELSE ret.args = <<Ref(f.body[b][n - 1])>>

(* r.phis: the phi of each parameter, empty before the first tail call.    *)
MakeEntry(r) ==
    LET old == Entry(r.f)
        new == r.f.nb
        AddPhi(k, i) ==
            LET f == PushFront(k.f, old, Phi(<<>>)) IN
            [f |-> [f EXCEPT !.ins = [j \in DOMAIN @ |->
                        Substitute(@[j], Arg(i), Ref(k.f.ni))]],
             phis |-> Append(k.phis, k.f.ni)] IN
    With(Each(AddPhi, [f |-> MakeBlock(r.f), phis |-> <<>>], [i \in 1..r.f.args |-> i]), LAMBDA k :
    LET linked == [PushBack(k.f, new, JumpTo(old)) EXCEPT
                      !.order = <<new>> \o @, !.pred[old] = @ \cup {new}]
        Start(f, i) == AddPhiOperand(f, k.phis[i], new, Arg(i)) IN
    [f |-> Each(Start, linked, [i \in 1..r.f.args |-> i]),
     phis |-> k.phis, entry |-> old, done |-> TRUE])
TurnIntoJump(r, b) ==
    LET n == Len(r.f.body[b])
        call == r.f.body[b][n - 1]
        f == [PushBack(r.f, b, JumpTo(r.entry)) EXCEPT !.pred[r.entry] = @ \cup {b}]
        Operand(k, i) == AddPhiOperand(k, r.phis[i], b, r.f.ins[call].args[i])
        h == Each(Operand, f, [i \in DOMAIN r.phis |-> i])
    IN [r EXCEPT !.f = RemoveInstruction(RemoveInstruction(h, r.f.body[b][n]), call)]
TailRecursionOptimization(f, g) ==
    LET Try(r, b) == IF ~IsTailCall(r.f, g, b) THEN r
                     ELSE TurnIntoJump(IF r.done THEN r ELSE MakeEntry(r), b)
    IN Each(Try, [f |-> f, phis |-> <<>>, entry |-> 0, done |-> FALSE], f.order).f
TailRecursionPass(m) ==
    [m EXCEPT !.fn = [g \in DOMAIN @ |->
        IF g \in SeqRange(m.list) THEN TailRecursionOptimization(@[g], g) ELSE @[g]]]

-----------------------------------------------------------------------------
InlineLimit == 50
CanBeInlined(m, g) ==
    LET ids == IdsOf(m.fn[g]) IN
    /\ g # "main" /\ Cardinality(ids) < InlineLimit
    /\ \A id \in ids : m.fn[g].ins[id].fn # g

(* The body of g (G) replaces the call id in F: the block of the call is   *)
(* split, the blocks of G are copied between the halves, each return       *)
(* becomes a jump to the second half, where a phi collects the values.     *)
(* New instructions: the jump into the copy is F.ni, the copies follow in  *)
(* list order, the phi comes last.                                         *)
InlineCall(F, G, id) ==
    LET ob == BlockOf(F, id)
        pos == CHOOSE n \in DOMAIN F.body[ob] : F.body[ob][n] = id
        rb == F.nb
        Pos(s, x) == CHOOSE n \in DOMAIN s : s[n] = x
        nb(b) == F.nb + Pos(G.order, b)
        ids == InListOrder(G)
        nid(j) == F.ni + Pos(ids, j)
        Val(v) == IF v[1] = "arg" THEN F.ins[id].args[v[2]]
                  ELSE IF IsRef(v) /\ v[2] \in SeqRange(ids) THEN Ref(nid(v[2])) ELSE v
        CopyOf(i) ==
            IF i.op = "ret" THEN JumpTo(rb)
            ELSE [i EXCEPT !.args = [n \in DOMAIN @ |-> Val(@[n])],
                           !.inc = [b \in {nb(p) : p \in DOMAIN @} |->
                                       Val(i.inc[CHOOSE p \in DOMAIN i.inc : nb(p) = b])],
                           !.tgt = [n \in DOMAIN @ |-> nb(@[n])]]
        copied == \A n \in DOMAIN ids : \A v \in SeqRange(G.ins[ids[n]].args) :
                     v # Dangling /\ (IsRef(v) => \E p \in 1..(n - 1) : ids[p] = v[2])
        rets == {b \in Blocks(G) : Terminator(G, b).op = "ret"}
        phi == F.ni + Len(ids) + 1
        inc == [b \in {nb(p) : p \in rets} |->
                   Val(Terminator(G, CHOOSE p \in rets : nb(p) = b).args[1])]
        rest == SubSeq(F.body[ob], pos + 1, Len(F.body[ob]))
        news == {nb(b) : b \in Blocks(G)}
        OldOf(b) == CHOOSE p \in Blocks(G) : nb(p) = b
        NewPreds(b) == {nb(p) : p \in {p \in Blocks(G) : OldOf(b) \in SuccessorSet(G, p)}}
                          \cup (IF b = nb(Entry(G)) THEN {ob} ELSE {})
        at == Pos(F.order, ob)
        with(old, new(_), here) ==
            (rb :> here) @@ [b \in news |-> new(b)] @@ old IN
    With([F EXCEPT
       !.order = SubSeq(@, 1, at) \o [n \in DOMAIN G.order |-> nb(G.order[n])]
                    \o <<rb>> \o SubSeq(@, at + 1, Len(@)),
       !.body = [with(@, LAMBDA b : [n \in DOMAIN G.body[OldOf(b)] |-> nid(G.body[OldOf(b)][n])],
                      IF G.void THEN rest ELSE <<phi>> \o rest)
                   EXCEPT ![ob] = SubSeq(@, 1, pos) \o <<F.ni>>],
       !.pred = with(@, NewPreds, {nb(p) : p \in rets}),
       !.depth = with(@, LAMBDA b : -1, -1), !.idom = with(@, LAMBDA b : 0, 0),
       !.doms = with(@, LAMBDA b : {}, {}), !.df = with(@, LAMBDA b : {}, {}),
       !.ins = [j \in {nid(i) : i \in SeqRange(ids)} |-> CopyOf(G.ins[ids[j - F.ni]])]
               @@ (F.ni :> JumpTo(nb(Entry(G))))
               @@ (IF G.void THEN <<>> ELSE (phi :> Phi(inc))) @@ @,
       !.nb = rb + Len(G.order) + 1, !.ni = phi + 1], LAMBDA f1 :
    With(IF G.void THEN f1 ELSE ReplaceUseBy(f1, id, Ref(phi)), LAMBDA f2 :
    With(Each(LAMBDA k, s : SplitPredecessor(k, s, ob, {rb}), f2, Successors(f2, rb)), LAMBDA f3 :
    RemoveInstruction(FaultUnless(copied /\ Users(f3, Ref(id)) = {}, "value not copied", f3), id))))

FunctionInlining(m, g) ==
    IF ~CanBeInlined(m, g) THEN m
    ELSE LET Into(k, c) == [k EXCEPT !.fn[c[2]] = InlineCall(@, k.fn[g], c[1])] IN
         With(Each(Into, m, m.calls[g]), LAMBDA k :
         [k EXCEPT !.fn[g] = ComputeDominanceRelationship(@)])

(* The functions of least call depth first.                                *)
FunctionInliningPass(m0) ==
    With(SideEffectPass(m0), LAMBDA m :
    LET Pos(g) == CHOOSE n \in DOMAIN m.list : m.list[n] = g
        Before(a, b) == m.called[a] < m.called[b] \/ (m.called[a] = m.called[b] /\ Pos(a) < Pos(b)) IN
    RemoveUnusedFunctions(Each(FunctionInlining, m, SortSeq(m.list, Before))))
=============================================================================
