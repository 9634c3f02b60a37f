------------------------------ MODULE Unrolling ------------------------------
(***************************************************************************)
(* Loop unrolling (src/ir/pass/loop-unrolling.cpp, loop-analysis.cpp): a   *)
(* loop of a condition block and a body block gets a body of K copies; a   *)
(* second loop, the reset loop, runs the iterations that are left over.    *)
(*                                                                         *)
(* An easy loop e is [cond, body, phis, vars, vals]: vars maps each phi of *)
(* the condition block to its value from the body when the loop was        *)
(* analysed, vals a value of the body to the phis that take it.            *)
(***************************************************************************)
EXTENDS Loops
LOCAL INSTANCE SequencesExt

K == 4

EasyLoop(f, l) ==
    LET cond == l.header
        body == CHOOSE b \in l.bbs : b # cond
        phis == LeadingPhis(f, cond)
        In(p) == PhiValue(f, p, body)
    IN [cond |-> cond, body |-> body, phis |-> phis,
        vars |-> [p \in SeqRange(phis) |-> [init |-> PhiValue(f, p, CHOOSE b \in l.pre : TRUE),
                                            body |-> In(p)]],
        vals |-> [v \in {In(p) : p \in SeqRange(phis)} |-> SelectSeq(phis, LAMBDA p : In(p) = v)]]
CmpId(f, e) == Terminator(f, e.cond).args[1][2]
IsLoopVar(e, v) == IsRef(v) /\ v[2] \in DOMAIN e.vars
GetPhi(e, o, p) == e.phis[CHOOSE n \in DOMAIN o.phis : o.phis[n] = p]

-----------------------------------------------------------------------------
(* The number of iterations for "i op n", whichever side i is on; -1 gives *)
(* up.                                                                     *)
ComputeCnt(op, i, n, stride) ==
    CASE op = "sle" -> IF i > n THEN 0 ELSE Quotient(n - i, stride) + 1
      [] op = "slt" -> IF i >= n THEN 0 ELSE Quotient(n - 1 - i, stride) + 1
      [] op = "sge" -> IF i < n THEN 0 ELSE Quotient(i - n, -stride) + 1
      [] op = "sgt" -> IF i <= n THEN 0 ELSE Quotient(i - n - 1, -stride) + 1
      [] OTHER -> -1

(* What the body adds to the variable: constants along a chain of adds and *)
(* subs that ends at the phi or outside the body; 0 gives up.              *)
RECURSIVE StrideFrom(_, _, _, _, _)
StrideFrom(f, e, p, v, stride) ==
    IF v = Ref(p) \/ ~IsRef(v) THEN stride
    ELSE IF v[2] \notin SeqRange(f.body[e.body]) THEN stride
    ELSE LET i == f.ins[v[2]] IN
         IF i.op = "add" /\ ~IsConstant(i.args[1]) /\ IsConstant(i.args[2])
         THEN StrideFrom(f, e, p, i.args[1], stride + i.args[2][2])
         ELSE IF i.op = "add" /\ IsConstant(i.args[1]) /\ ~IsConstant(i.args[2])
         THEN StrideFrom(f, e, p, i.args[2], stride + i.args[1][2])
         ELSE IF i.op = "sub" /\ IsConstant(i.args[2])
         THEN StrideFrom(f, e, p, i.args[1], stride - i.args[2][2]) ELSE 0
ComputeStride(f, e, p) == StrideFrom(f, e, p, e.vars[p].body, 0)

(* kind: "const" when the number of iterations cnt is known, "flexible"    *)
(* when only the stride of the condition's variable var is.                *)
AnalyzeConstLoop(f, e) ==
    LET cmp == f.ins[CmpId(f, e)]
        side == IF IsConstant(cmp.args[2]) THEN 1 ELSE 2
        v == cmp.args[side]
        n == cmp.args[3 - side]
        stride == ComputeStride(f, e, v[2])
        cnt == ComputeCnt(cmp.op, e.vars[v[2]].init[2], n[2], stride)
    IN IF IsConstant(n) /\ ~IsConstant(v) /\ IsLoopVar(e, v)
       THEN IF IsConstant(e.vars[v[2]].init) /\ stride # 0 /\ cnt # -1
            THEN [kind |-> "const", var |-> v[2], stride |-> stride, cnt |-> cnt]
            ELSE [kind |-> "no"]
       ELSE [kind |-> "no"]
AnalyzeFlexibleLoop(f, e) ==
    LET cmp == f.ins[CmpId(f, e)]
        Phi_(v) == IsRef(v) /\ f.ins[v[2]].op = "phi"
        Still(v) == ~Phi_(v) \/ PhiValue(f, v[2], e.body) = Undef
        side == IF Phi_(cmp.args[1]) /\ Still(cmp.args[2]) THEN 1 ELSE 2
        v == cmp.args[side]
        known == IsLoopVar(e, v)
    IN IF ~(Phi_(v) /\ Still(cmp.args[3 - side])) THEN [kind |-> "no"]
       ELSE IF ~known THEN [kind |-> "crash"]
       ELSE IF ComputeStride(f, e, v[2]) = 0 THEN [kind |-> "no"]
       ELSE [kind |-> "flexible", var |-> v[2], stride |-> ComputeStride(f, e, v[2]), cnt |-> 0]

-----------------------------------------------------------------------------
(* orig, the instructions of the body of o, are copied to the end of the   *)
(* body of e: r is [f, e, new], new mapping an original to its copy.  A    *)
(* variable of the loop reads what the last copy left in its phi, or, in   *)
(* another loop, the phi that stands for it there.                         *)
NewVal(r, o, v) ==
    IF IsLoopVar(o, v)
    THEN IF r.e.cond = o.cond THEN PhiValue(r.f, v[2], o.body) ELSE Ref(GetPhi(r.e, o, v[2]))
    ELSE IF IsRef(v) /\ v[2] \in DOMAIN r.new THEN Ref(r.new[v[2]])
    ELSE v
ReplacePhiValue(f, p, b, v) == [f EXCEPT !.ins[p].inc = (b :> v) @@ @]
CopyInstruction(r, o, id) ==
    LET i == r.f.ins[id]
        args == [n \in DOMAIN i.args |-> NewVal(r, o, i.args[n])]
        copied == \A n \in DOMAIN args :
                     args[n] # Undef /\ (IsRef(i.args[n]) =>
                        IsLoopVar(o, i.args[n]) \/ i.args[n][2] \in DOMAIN r.new
                            \/ i.args[n][2] \notin SeqRange(r.f.body[o.body]))
        new == r.f.ni IN
    With([r EXCEPT !.f = PushBack(FaultUnless(copied, "value not copied", @), r.e.body,
                                  [i EXCEPT !.args = args]),
                   !.new = (id :> new) @@ @], LAMBDA q :
    LET users == IF Ref(id) \in DOMAIN o.vals THEN o.vals[Ref(id)] ELSE <<>>
        Same(k, p) == [k EXCEPT !.f = ReplacePhiValue(@, p, k.e.body, Ref(new))]
        Other(k, p) ==
            LET np == GetPhi(k.e, o, p) IN
            [k EXCEPT !.e.vars = (np :> [init |-> Ref(p), body |-> Ref(new)]) @@ @,
                      !.e.vals = (Ref(new) :> (IF Ref(new) \in DOMAIN @ THEN @[Ref(new)] ELSE <<>>)
                                                 \o <<np>>) @@ @] IN
    IF r.e.cond = o.cond THEN Each(Same, q, users) ELSE Each(Other, q, users))
CopyInstructions(r, o, orig) ==
    Each(LAMBDA k, id : CopyInstruction(k, o, id), [r EXCEPT !.new = <<>>], orig)

(* n more copies of orig in the loop's own body, before its jump.          *)
Replicate(f, e, orig, n) ==
    LET jump == LastId(f, e.body) IN
    With(Each(LAMBDA k, x : CopyInstructions(k, e, orig),
              [f |-> Detach(f, jump), e |-> e, new |-> <<>>], [x \in 1..n |-> x]), LAMBDA r :
    [r.f EXCEPT !.body[e.body] = Append(@, jump)])

-----------------------------------------------------------------------------
(* Returns [f, e] with the reset loop e after the loop o.                  *)
InsertResetLoop(f, o, var, orig) ==
    LET cond == f.nb
        body == f.nb + 1
        made == [MakeBlock(MakeBlock(f)) EXCEPT
                    !.order = LET at == Index(f, o.body) IN
                              InsertAt(InsertAt(@, at + 1, cond), at + 2, body)]
        AddPhi(k, p) == [f |-> PushBack(k.f, cond, Phi(o.cond :> Ref(p))),
                         phis |-> Append(k.phis, k.f.ni)] IN
    With(Each(AddPhi, [f |-> made, phis |-> <<>>], o.phis), LAMBDA a :
    With([cond |-> cond, body |-> body, phis |-> a.phis, vars |-> <<>>, vals |-> <<>>], LAMBDA e0 :
    LET Rotate(g, p) == LET v == PhiValue(g, p, o.body) IN
                        IF IsLoopVar(o, v)
                        THEN AddPhiOperand(g, GetPhi(e0, o, p), body, Ref(GetPhi(e0, o, v[2])))
                        ELSE g IN
    With(CopyInstructions([f |-> Each(Rotate, a.f, o.phis), e |-> e0, new |-> <<>>], o, orig), LAMBDA b :
    With(b.e, LAMBDA e :
    LET br == Terminator(f, o.cond)
        cmp == f.ins[CmpId(f, o)] IN
    With(GetPhi(e, o, var), LAMBDA nvar :
    LET side == IF cmp.args[1] = Ref(var) THEN 1 ELSE 2 IN
    With(PushBack(FaultUnless(nvar \in DOMAIN e.vars /\ cmp.args[side] = Ref(var),
                              "no loop variable", b.f), body, JumpTo(cond)), LAMBDA c :
    With(PushBack(c, cond, Instr(cmp.op, [cmp.args EXCEPT ![side] = Ref(nvar)])), LAMBDA d :
    With(PushBack(d, cond, BranchTo(Ref(c.ni), body, br.tgt[2])), LAMBDA g :
    LET Fill(k, p) == IF p \notin DOMAIN e.vars THEN k
                      ELSE AddPhiOperand(k, p, body, e.vars[p].body)
        Null(k, p) == IF body \in DOMAIN k.ins[p].inc THEN k ELSE AddPhiOperand(k, p, body, Undef) IN
    With(Each(Null, Each(Fill, g, a.phis), a.phis), LAMBDA h :
    With([ReplaceSuccessorBy(h, o.cond, br.tgt[2], cond) EXCEPT
             !.pred[cond] = @ \cup {body}, !.pred[body] = @ \cup {cond},
             !.pred[br.tgt[2]] = @ \cup {cond}], LAMBDA linked :
    With(UNION {SeqRange(linked.body[x]) : x \in {o.cond, o.body, cond, body}}, LAMBDA inside :
    LET Outside(k, p) == [k EXCEPT !.ins = [j \in DOMAIN @ |->
                            IF j \in inside THEN @[j]
                            ELSE Substitute(@[j], Ref(p), Ref(GetPhi(e, o, p)))]] IN
    [f |-> Each(Outside, linked, o.phis), e |-> e])))))))))))

(* cond <-> body becomes cond -> body -> the false block.                  *)
MakeRunOnce(f, e) ==
    LET out == Terminator(f, e.cond).tgt[2]
        inside == SeqRange(f.body[e.cond]) \cup SeqRange(f.body[e.body])
        Final(k, p) ==
            LET v == PhiValue(k, p, e.body)
                g == FaultUnless(v # Undef, "null operand", k)
            IN [g EXCEPT !.ins = [j \in DOMAIN @ |->
                    IF j \in inside THEN @[j] ELSE Substitute(@[j], Ref(p), v)]]
        a == RemovePredecessor(Each(Final, f, e.phis), e.cond, e.body) IN
    With(SplitPredecessor(a, out, e.cond, {e.body}), LAMBDA b :
    With(PushBack(Detach(b, LastId(b, e.body)), e.body, JumpTo(out)), LAMBDA c :
    PushBack(Detach(c, LastId(c, e.cond)), e.cond, JumpTo(e.body))))

(* The bound of a loop with a known count moves by the iterations left     *)
(* over, not by what they add to the variable; else i < n becomes          *)
(* K * stride < n - i.                                                     *)
FixConstCond(f, e, var, stride, reset) ==
    LET id == CmpId(f, e)
        side == IF f.ins[id].args[1] = Ref(var) THEN 2 ELSE 1
    IN [f EXCEPT !.ins[id].args[side] = Num(IF stride > 0 THEN @[2] - reset ELSE @[2] + reset)]
FixUnrollLoopCond(f, e, var, stride) ==
    LET id == CmpId(f, e)
        at == CHOOSE n \in DOMAIN f.body[e.cond] : f.body[e.cond][n] = id
        side == IF f.ins[id].args[1] = Ref(var) THEN 1 ELSE 2
        g == Insert(f, e.cond, at, Instr("sub", <<f.ins[id].args[3 - side], Ref(var)>>))
    IN [g EXCEPT !.ins[id].args = [@ EXCEPT ![side] = Num(K * stride), ![3 - side] = Ref(f.ni)]]

UnrollConst(f, e, a) ==
    LET orig == Front(f.body[e.body])
        reset == a.cnt % K
        g == Replicate(f, e, orig, K - 1) IN
    With(InsertResetLoop(FixConstCond(g, e, a.var, a.stride, reset), e, a.var, orig), LAMBDA r :
    With(IF reset > 1 THEN Replicate(r.f, r.e, Front(r.f.body[r.e.body]), reset - 1) ELSE r.f, LAMBDA more :
    With(IF reset > 0 THEN MakeRunOnce(more, r.e) ELSE g, LAMBDA h :
    IF a.cnt = 0 \/ Quotient(a.cnt, K) = 0 THEN f
    ELSE IF Quotient(a.cnt, K) = 1 THEN MakeRunOnce(h, e) ELSE h)))
UnrollFlexible(f, e, a) ==
    LET orig == Front(f.body[e.body]) IN
    With(InsertResetLoop(Replicate(f, e, orig, K - 1), e, a.var, orig), LAMBDA r :
    FixUnrollLoopCond(r.f, e, a.var, a.stride))

Unroll(f, l) ==
    LET e == EasyLoop(f, l)
        br == Terminator(f, e.cond)
        easy == /\ Cardinality(l.bbs) = 2
                /\ \A id \in SeqRange(f.body[e.body]) : f.ins[id].op \notin {"ret", "phi"}
        known == br.op = "br" /\ IsRef(br.args[1]) /\ Cardinality(l.pre) = 1 IN
    With(AnalyzeConstLoop(f, e), LAMBDA const :
    With(IF const.kind = "no" THEN AnalyzeFlexibleLoop(f, e) ELSE const, LAMBDA a :
    IF ~easy THEN f
    ELSE IF ~known THEN FaultUnless(FALSE, "no compare", f)
    ELSE IF f.ins[br.args[1][2]].op \notin {"sge", "sgt", "sle", "slt"} THEN f
    ELSE CASE a.kind = "no" -> f
           [] a.kind = "crash" -> FaultUnless(FALSE, "no loop variable", f)
           [] a.kind = "const" ->
                 IF a.cnt < 0 THEN FaultUnless(FALSE, "negative count", f)
                 ELSE UnrollConst(f, e, a)
           [] a.kind = "flexible" -> UnrollFlexible(f, e, a)))
LoopUnrolling(m, f) ==
    With(ComputeLoopRelationship(f), LAMBDA L :
    DeadCodeElimination(m, Each(LAMBDA g, n : Unroll(g, L.loop[n]), L.f, DeepestLoops(L))))
LoopUnrollingPass(m) == OnFunctions(RemoveUnusedFunctions(m), LoopUnrolling)
=============================================================================
