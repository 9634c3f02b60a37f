---------------------------- MODULE MemoryAccess ----------------------------
(***************************************************************************)
(* Passes that remove loads: reads of globals that no instruction writes   *)
(* (src/ir/pass/global-const.cpp) and loads whose value an earlier load or *)
(* store of the block, or of its only predecessor, has shown               *)
(* (src/ir/pass/load.cpp).                                                 *)
(***************************************************************************)
EXTENDS Interprocedural
LOCAL INSTANCE SequencesExt

(* The users of v in any function: <<function, instruction>>.              *)
UsersOf(m, v) == {<<g, id>> \in UNION {{g} \X DOMAIN m.fn[g].ins : g \in DOMAIN m.fn} :
                     v \in Operands(m.fn[g].ins[id])}
UserOp(m, u) == m.fn[u[1]].ins[u[2]].op
(* An instruction dropped without RemoveInstruction is a user no more, but *)
(* its entry in the use list remains.                                      *)
Expired(m, u) == \A b \in DOMAIN m.fn[u[1]].body : u[2] \notin SeqRange(m.fn[u[1]].body[b])

CanBeConstSingle(m, g) ==
    \A u \in UsersOf(m, Global(g)) : ~Expired(m, u) => UserOp(m, u) # "store"
LocalUsers(m, h, id) == {<<h, j>> : j \in Users(m.fn[h], Ref(id))}
RECURSIVE CanBeConstArray(_, _)
CanBeConstArray(m, users) ==
    \A u \in users :
        \/ UserOp(m, u) = "load"
        \/ UserOp(m, u) = "gep" /\ CanBeConstArray(m, LocalUsers(m, u[1], u[2]))
        \/ /\ UserOp(m, u) = "call"
           /\ LET callee == m.fn[u[1]].ins[u[2]].fn IN callee = "putint" \/ ~m.side[callee]
(* CanBeConstArray stops with an assertion at a user that has expired.     *)
NoUser(m, g) ==
    LET direct == UsersOf(m, Global(g)) IN
    \E u \in direct \cup UNION {LocalUsers(m, w[1], w[2]) : w \in direct} : Expired(m, u)

ReplaceLoad(f, id, v) == ReplaceUseBy(f, id, v)
PropagateSingle(m, g) ==
    LET val == Num(m.glob[g].vals[1])
        Loads(h) == SelectSeq(InListOrder(m.fn[h]), LAMBDA id :
                        m.fn[h].ins[id].op = "load" /\ m.fn[h].ins[id].args[1] = Global(g))
        Drop(f, id) == RemoveInstruction(ReplaceLoad(f, id, val), id)
    IN [m EXCEPT !.fn = [h \in DOMAIN @ |-> Each(Drop, @[h], Loads(h))]]
(* An element at a constant index: its loads are replaced, not removed.    *)
PropagateArray(m, g) ==
    LET ConstGeps(f) == {id \in DOMAIN f.ins :
            /\ f.ins[id].op = "gep" /\ f.ins[id].args[1] = Global(g)
            /\ \A n \in 2..Len(f.ins[id].args) : IsConstant(f.ins[id].args[n])}
        Element(f, id) == Num(m.glob[g].vals[ConstOffset(f.ins[id]) + 1])
        Loads(f, id) == SelectSeq(InListOrder(f), LAMBDA j :
                            f.ins[j].op = "load" /\ f.ins[j].args[1] = Ref(id))
        Gep(f, id) == IF id \notin ConstGeps(f) THEN f
                      ELSE Each(LAMBDA k, j : ReplaceLoad(k, j, Element(f, id)), f, Loads(f, id))
    IN [m EXCEPT !.fn = [h \in DOMAIN @ |-> Each(Gep, @[h], InListOrder(@[h]))]]
EliminateGlobalConstArrayAccess(m0) ==
    With(SideEffectPass(m0), LAMBDA m :
    LET const == {g \in DOMAIN m.glob : \/ m.glob[g].const
                                        \/ m.glob[g].array /\ CanBeConstArray(m, UsersOf(m, Global(g)))
                                        \/ ~m.glob[g].array /\ CanBeConstSingle(m, g)}
        crash == \E g \in DOMAIN m.glob : m.glob[g].array /\ ~m.glob[g].const /\ NoUser(m, g)
        gs == SetToSeq(const) IN
    With(Each(PropagateSingle, [m EXCEPT !.glob = [g \in DOMAIN @ |->
                  [@[g] EXCEPT !.const = g \in const]]],
              SelectSeq(gs, LAMBDA g : ~m.glob[g].array)), LAMBDA singles :
    With(Each(PropagateArray, singles, SelectSeq(gs, LAMBDA g : m.glob[g].array)), LAMBDA arrays :
    LET Clean(k, g) == [k EXCEPT !.fn[g] = DeadCodeElimination(k, @)] IN
    With(Each(Clean, arrays, m.list), LAMBDA done :
    [done EXCEPT !.fn["main"] = FaultUnless(~crash, "expired use", @)]))))

-----------------------------------------------------------------------------
(* Two addresses are the same key when they are one value, or two GEPs     *)
(* with the same operands.  known maps an address to a value; Undef is the *)
(* null that a load which found nothing leaves there.                      *)
IsGep(f, a) == IsOp(f, a, "gep")
SameAddress(f, a, b) ==
    a = b \/ (IsGep(f, a) /\ IsGep(f, b) /\ f.ins[a[2]].args = f.ins[b[2]].args)
GetValFromAddr(f, known, a) ==
    LET same == {b \in DOMAIN known : SameAddress(f, a, b)}
    IN IF same = {} THEN Undef ELSE known[CHOOSE b \in same : TRUE]
Assign(f, known, a, v) ==
    (a :> v) @@ [b \in {b \in DOMAIN known : ~SameAddress(f, a, b)} |-> known[b]]
(* A store through a GEP forgets what was known through GEPs with another  *)
(* base and as many indices.                                               *)
ClearAlias(f, known, a) ==
    LET Aliased(b) == /\ IsGep(f, a) /\ IsGep(f, b)
                      /\ f.ins[a[2]].args[1] # f.ins[b[2]].args[1]
                      /\ Len(f.ins[a[2]].args) = Len(f.ins[b[2]].args)
    IN [b \in {b \in DOMAIN known : ~Aliased(b)} |-> known[b]]

(* What the only predecessor leaves; here no store clears aliases.         *)
InitialAddrToVal(f, b) ==
    LET See(known, id) ==
            LET i == f.ins[id] IN
            CASE i.op = "load" -> Assign(f, known, i.args[1], Ref(id))
              [] i.op = "store" -> Assign(f, known, i.args[1], i.args[2])
              [] i.op = "call" -> <<>>
              [] OTHER -> known
    IN IF Cardinality(f.pred[b]) # 1 THEN <<>> ELSE Each(See, <<>>, f.body[f.idom[b]])

ForwardLoads(f, b) ==
    LET Visit(r, id) ==
            LET i == r.f.ins[id]
                v == GetValFromAddr(r.f, r.known, i.args[1])
            IN CASE i.op = "load" ->
                        [known |-> Assign(r.f, r.known, i.args[1], v),
                         f |-> IF v = Undef THEN r.f
                               ELSE RemoveInstruction(ReplaceUseBy(r.f, id, v), id)]
                 [] i.op = "store" ->
                        [r EXCEPT !.known = ClearAlias(r.f, Assign(r.f, @, i.args[1], i.args[2]),
                                                       i.args[1])]
                 [] i.op = "call" -> [r EXCEPT !.known = <<>>]
                 [] OTHER -> r
        Sweep(g) == Each(Visit, [f |-> g, known |-> InitialAddrToVal(f, b)], g.body[b]).f
    IN UntilStable(Sweep,
           FaultUnless(Cardinality(f.pred[b]) = 1 => f.pred[b] = {f.idom[b]}, "idom", f))
LoadStoreOptimization(f0) ==
    With(ComputeDominanceRelationship(f0), LAMBDA f :
    Each(ForwardLoads, f, f.order))
LoadStoreOptimizationPass(m0) ==
    LET m == SideEffectPass(m0)
        Clean(k, g) == [k EXCEPT !.fn[g] = LoadStoreOptimization(@)]
    IN Each(Clean, m, m.list)
=============================================================================
