-------------------------------- MODULE Loops --------------------------------
(***************************************************************************)
(* Natural loops (src/ir/pass/loop-detection.cpp), their preheaders and    *)
(* latches (loop-simplify.cpp), and the splitting of addresses             *)
(* (strength-reduction.cpp).                                               *)
(*                                                                         *)
(* L is [f, loop, of]: the function, its loops by number and, for each     *)
(* block, the numbers of the loops it was found in (m_loops).              *)
(***************************************************************************)
EXTENDS Dominance
LOCAL INSTANCE SequencesExt
LOCAL INSTANCE FiniteSetsExt

Index(f, b) == CHOOSE n \in DOMAIN f.order : f.order[n] = b

(* tail -> head where head dominates tail, in list order of the tails.     *)
RECURSIVE BackEdges(_, _)
BackEdges(f, bs) ==
    IF bs = <<>> THEN <<>>
    ELSE LET heads == SelectSeq(Successors(f, Head(bs)), LAMBDA s : Dominates(f, s, Head(bs)))
         IN [n \in DOMAIN heads |-> <<Head(bs), heads[n]>>] \o BackEdges(f, Tail(bs))

RECURSIVE Backwards(_, _, _, _)
Backwards(f, head, seen, todo) ==
    IF todo = {} THEN seen
    ELSE LET next == UNION {f.pred[b] : b \in todo \ {head}} \ seen
         IN Backwards(f, head, seen \cup next, next)

NewLoop(f, tail, head) ==
    LET bbs == Backwards(f, head, {tail}, {tail}) \cup {head}
        leaving == {e \in bbs \X Blocks(f) : e[2] \in SuccessorSet(f, e[1]) \ bbs}
    IN [header |-> head, bbs |-> bbs, subs |-> {}, fa |-> 0, depth |-> 1,
        pre |-> {p \in f.pred[head] : Index(f, p) < Index(f, head)},
        latches |-> {b \in bbs : head \in SuccessorSet(f, b)},
        exiting |-> {e[1] : e \in leaving}, exits |-> {e[2] : e \in leaving}]

(* A loop that shares its header with a loop it neither contains nor is    *)
(* contained in is merged into that one, which does not learn of its       *)
(* preheaders, exits and inner loops.                                      *)
DetectLoop(L, edge) ==
    With(NewLoop(L.f, edge[1], edge[2]), LAMBDA new :
    LET id == Cardinality(DOMAIN L.loop) + 1 IN
    With(UNION {L.of[b] : b \in new.bbs}, LAMBDA met :
    With({e \in met : new.bbs \subseteq L.loop[e].bbs}, LAMBDA outer :
    LET inner == {e \in met \ outer : L.loop[e].bbs \subseteq new.bbs} IN
    With({e \in met \ (outer \cup inner) : L.loop[e].header = new.header}, LAMBDA twins :
    With(CHOOSE e \in twins : TRUE, LAMBDA twin :
    LET Join(ls, e) == [b \in DOMAIN ls |-> IF b \in new.bbs THEN ls[b] \cup {e} ELSE ls[b]] IN
    IF twins # {}
    THEN [L EXCEPT !.loop[twin].bbs = @ \cup new.bbs,
                   !.loop[twin].latches = @ \cup new.latches, !.of = Join(@, twin)]
    ELSE [L EXCEPT !.loop = [e \in DOMAIN @ |->
                         IF e \in outer THEN [@[e] EXCEPT !.subs = @ \cup {id}] ELSE @[e]]
                            @@ (id :> [new EXCEPT !.subs = inner]),
                   !.of = Join(@, id)])))))

Nesting(L) ==
    LET ids == DOMAIN L.loop
        Depth(e) == 1 + Cardinality({o \in ids : e \in L.loop[o].subs})
        Around(e) == {o \in ids : e \in L.loop[o].subs /\ Depth(e) = Depth(o) + 1}
    IN [L EXCEPT !.loop = [e \in ids |-> [@[e] EXCEPT
            !.depth = Depth(e), !.subs = {s \in @ : Depth(s) = Depth(e) + 1},
            !.fa = IF Around(e) = {} THEN 0 ELSE CHOOSE o \in Around(e) : TRUE]]]

ComputeLoopRelationship(f0) ==
    With(ComputeDominanceRelationship(f0), LAMBDA f :
    With([f |-> f, loop |-> <<>>, of |-> [b \in DOMAIN f.body |-> {}]], LAMBDA start :
    With(Each(DetectLoop, start, BackEdges(f, f.order)), LAMBDA L :
    With(\A e \in DOMAIN L.loop : L.loop[e].pre # {}, LAMBDA sound :
    Nesting([L EXCEPT !.f = FaultUnless(sound, "no preheader", @)])))))

DeepestLoops(L) == InOrder({e \in DOMAIN L.loop : L.loop[e].subs = {}})
TopLoops(L) == InOrder({e \in DOMAIN L.loop : L.loop[e].depth = 1})
(* The loop depth of each block.                                           *)
LoopDepth(L, b) ==
    Max({0} \cup {L.loop[e].depth : e \in {e \in DOMAIN L.loop : b \in L.loop[e].bbs}})

-----------------------------------------------------------------------------
UpdateLoopDetails(L, b) ==
    [L EXCEPT !.loop = [e \in DOMAIN @ |->
        IF e \notin L.of[b] THEN @[e]
        ELSE LET l == @[e]
                 preds == L.f.pred[l.header]
             IN [l EXCEPT !.pre = preds \ l.bbs, !.latches = preds \cap l.bbs]]]

RECURSIVE Enclosing(_, _)
Enclosing(L, e) == IF e = 0 THEN {} ELSE {e} \cup Enclosing(L, L.loop[e].fa)

(* olds -> succ becomes olds -> middle -> succ; the middle block comes     *)
(* before place n of the list and belongs to the loops around loop e.      *)
AddMiddleBasicBlock(L, e, n, olds, succ, inside) ==
    LET mid == L.f.nb
        made == [MakeBlock(L.f) EXCEPT !.order = InsertAt(@, n, mid)]
        Retarget(i) == [i EXCEPT !.tgt = IF @[1] = succ THEN <<mid>> \o Tail(@) ELSE <<@[1], mid>>]
        lasts == {LastId(made, p) : p \in olds}
        moved == [PushBack(made, mid, JumpTo(succ)) EXCEPT
                    !.ins = [j \in DOMAIN @ |-> IF j \in lasts THEN Retarget(@[j]) ELSE @[j]],
                    !.pred[mid] = olds]
        joined == Enclosing(L, L.loop[e].fa) \cup (IF inside THEN {e} ELSE {}) IN
    With([L EXCEPT !.f = MergePredecessors(moved, succ, olds, mid),
                   !.of = @ @@ (mid :> {}),
                   !.loop = [k \in DOMAIN @ |->
                       IF k \in joined THEN [@[k] EXCEPT !.bbs = @ \cup {mid}] ELSE @[k]]], LAMBDA M :
    UpdateLoopDetails(Each(UpdateLoopDetails, M, InOrder(olds)), succ))

\* Mutant: the edges back stay as they are.
TwoLatches(L, e) == L
UniqueLatch(L, e) ==
    LET l == L.loop[e] IN
    IF Cardinality(l.latches) <= 1 THEN L
    ELSE [AddMiddleBasicBlock(L, e, Index(L.f, l.header) + 1, l.latches, l.header, TRUE)
            EXCEPT !.loop[e].latches = {L.f.nb}]
UniquePreheader(L, e) ==
    LET l == L.loop[e] IN
    IF Cardinality(l.pre) <= 1 THEN L
    ELSE [AddMiddleBasicBlock(L, e, Index(L.f, l.header), l.pre, l.header, FALSE)
            EXCEPT !.loop[e].pre = {L.f.nb}]

RECURSIVE Worklist(_, _, _)
Worklist(L, es, n) ==
    IF n > Len(es) THEN es ELSE Worklist(L, es \o InOrder(L.loop[es[n]].subs), n + 1)
CreateUniqueLatch(L, e) ==
    Each(LAMBDA M, k : UniquePreheader(UniqueLatch(M, k), k), L, Reverse(Worklist(L, <<e>>, 1)))

RECURSIVE SimplifyLoopRecursively(_, _)
SimplifyLoopRecursively(L, e) ==
    CreateUniqueLatch(Each(SimplifyLoopRecursively, L, InOrder(L.loop[e].subs)), e)
LoopSimplify(f) ==
    With(ComputeLoopRelationship(RemoveTrivialBasicBlocks(f)), LAMBDA L :
    Each(SimplifyLoopRecursively, L, TopLoops(L)).f)
OnFunctions(m, Pass(_, _)) ==
    [m EXCEPT !.fn = [g \in DOMAIN @ |-> IF g \in SeqRange(m.list) THEN Pass(m, @[g]) ELSE @[g]]]
LoopSimplifyPass(m) == OnFunctions(m, LAMBDA k, f : LoopSimplify(f))

(* A phi of the header to which each round adds a constant.                *)
BasicIVs(f, l) ==
    LET latch == CHOOSE b \in l.latches : TRUE
        Steps_(id) ==
            LET v == f.ins[id].inc[latch]
                i == f.ins[v[2]]
            IN IsRef(v) /\ i.op \in {"add", "sub"} /\ \E n \in {1, 2} :
                  IsConstant(i.args[n]) /\ i.args[3 - n] = Ref(id)
    IN SelectSeq(LeadingPhis(f, l.header), Steps_)

(* An address a[..][iv][..] is computed in two steps, the first of them    *)
(* common to all elements of the row.  The first variable that is not the  *)
(* last index decides.                                                     *)
SplitGep(f, id, ivs) ==
    LET i == f.ins[id]
        N == Len(i.args)
        at == {n \in 2..(N - 1) : i.args[n] \in {Ref(iv) : iv \in SeqRange(ivs)}
                                    /\ \A p \in 2..(n - 1) : i.args[p] # i.args[n]}
        Rank(n) == CHOOSE k \in DOMAIN ivs : Ref(ivs[k]) = i.args[n]
        n == CHOOSE n \in at : \A p \in at : Rank(n) <= Rank(p)
        b == BlockOf(f, id)
        place == CHOOSE p \in DOMAIN f.body[b] : f.body[b][p] = id
        g == Insert(FaultUnless(i.args[2] = Num(0), "index", f), b, place,
                    [i EXCEPT !.args = SubSeq(@, 1, n)])
        h == Insert(g, b, place + 1,
                    [i EXCEPT !.args = <<Ref(f.ni), Num(0)>> \o SubSeq(@, n + 1, N),
                              !.dims = <<1>> \o SubSeq(@, n, Len(@))])
    IN IF N <= 3 \/ at = {} THEN f ELSE RemoveInstruction(ReplaceUseBy(h, id, Ref(g.ni)), id)

(* A derived induction variable is one with a factor other than 1, but all *)
(* start from factor 1 and are skipped: no multiplication is ever reduced. *)
ReduceLoop(f, l) ==
    LET simple == Cardinality(l.pre) = 1 /\ Cardinality(l.latches) = 1
        ivs == BasicIVs(f, l)
        Geps(b) == SelectSeq(f.body[b], LAMBDA id : f.ins[id].op = "gep")
        Split(g, b) == Each(LAMBDA h, id : SplitGep(h, id, ivs), g, Geps(b))
    IN IF simple THEN Each(Split, f, InOrder(l.bbs)) ELSE FaultUnless(FALSE, "loop not simplified", f)
StrengthReduction(m, f) ==
    With(ComputeLoopRelationship(f), LAMBDA L :
    BasicOptimization(m, Each(LAMBDA g, e : ReduceLoop(g, L.loop[e]), L.f, InOrder(DOMAIN L.loop))))
StrengthReductionPass(m) == OnFunctions(m, StrengthReduction)
=============================================================================
