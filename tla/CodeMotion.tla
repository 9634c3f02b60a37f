----------------------------- MODULE CodeMotion -----------------------------
(***************************************************************************)
(* Global code motion (src/ir/pass/gcm.cpp): arithmetic, addresses and     *)
(* calls without side effect move to the block of least loop depth between *)
(* the earliest and the latest that they may stand in; then each block is  *)
(* put in order again.                                                     *)
(*                                                                         *)
(* s is [m, f, seen]; L holds the loops.  Use lists are taken in order of  *)
(* creation, and so is a map from pointers where the code walks one.       *)
(***************************************************************************)
EXTENDS ValueNumbering
LOCAL INSTANCE SequencesExt
LOCAL INSTANCE FiniteSetsExt

IsPinned(m, i) ==
    CASE i.op \in BinaryOps -> i.op \in IntCompare
      [] i.op = "call" -> HasSideEffect(m, i)
      [] OTHER -> i.op # "gep"

(* To the end of block b, behind its terminator if need be.                *)
MoveInstructionBack(f, id, b) ==
    [Detach(f, id) EXCEPT !.body[b] = Append(@, id)]
MoveInstructionBefore(f, b, id, standard) ==
    LET rest == SelectSeq(f.body[b], LAMBDA j : j # id)
        at == CHOOSE n \in DOMAIN rest : rest[n] = standard
    IN [f EXCEPT !.body[b] = InsertAt(rest, at, id)]

(* Operands first; an instruction that may move goes to the root and from  *)
(* there down to the deepest block of an operand.                          *)
RECURSIVE ScheduleEarly(_, _)
ScheduleEarly(s, id) ==
    LET i == s.f.ins[id]
        moves == ~IsPinned(s.m, i)
        start == [s EXCEPT !.seen = @ \cup {id},
                           !.f = IF moves THEN MoveInstructionBack(@, id, Entry(@)) ELSE @]
        Below(t, v) ==
            LET q == ScheduleEarly(t, v[2])
                b == BlockOf(q.f, v[2])
            IN IF moves /\ q.f.depth[BlockOf(q.f, id)] < q.f.depth[b]
               THEN [q EXCEPT !.f = MoveInstructionBack(@, id, b)] ELSE q
    IN IF id \in s.seen THEN s
       ELSE IF i.op \notin BinaryOps \cup {"gep", "call", "load", "store"}
       THEN [s EXCEPT !.seen = @ \cup {id}]
       ELSE Each(Below, start, SelectSeq(i.args, IsRef))

RECURSIVE FindLCA(_, _, _)
FindLCA(f, a, b) ==
    IF a = 0 \/ a = b THEN b
    ELSE IF f.depth[b] < f.depth[a] THEN FindLCA(f, f.idom[a], b)
    ELSE IF f.depth[a] < f.depth[b] THEN FindLCA(f, a, f.idom[b])
    ELSE FindLCA(f, f.idom[a], f.idom[b])

\* Mutant: a phi uses its operand where it stands.
UseBlocksOfPhi(f, id, y) == <<BlockOf(f, y)>>
(* The blocks in which user y uses id: a phi, where its operand comes from.*)
UseBlocks(f, id, y) ==
    IF f.ins[y].op = "phi"
    THEN InOrder({b \in DOMAIN f.ins[y].inc : f.ins[y].inc[b] = Ref(id)})
    ELSE <<BlockOf(f, y)>>
(* From the block lca up the dominator tree to just below the block early; *)
(* <<>> when early is not met.                                             *)
RECURSIVE UpTo(_, _, _)
UpTo(f, lca, early) ==
    IF lca = early THEN <<lca>>
    ELSE IF lca = 0 THEN <<>>
    ELSE LET up == UpTo(f, f.idom[lca], early) IN IF up = <<>> THEN <<>> ELSE <<lca>> \o up
(* The block of least loop depth on the way, the lowest of them; early     *)
(* itself only when the uses begin there.                                  *)
BestBlock(L, way) ==
    LET candidates == IF Len(way) = 1 THEN way ELSE Front(way)
        least == Min({LoopDepth(L, candidates[n]) : n \in DOMAIN candidates})
    IN candidates[Min({n \in DOMAIN candidates : LoopDepth(L, candidates[n]) = least})]

RECURSIVE ScheduleLate(_, _, _)
ScheduleLate(L, s, id) ==
    LET Use(t, y) ==
            LET q == ScheduleLate(L, t.s, y)
            IN [s |-> q, lca |-> IF IsPinned(s.m, s.f.ins[id]) THEN 0
                                 ELSE Each(LAMBDA a, b : FindLCA(q.f, a, b), t.lca,
                                           UseBlocks(q.f, id, y))]
        r == Each(Use, [s |-> [s EXCEPT !.seen = @ \cup {id}], lca |-> 0],
                  InOrder(Users(s.f, Ref(id))))
        way == UpTo(r.s.f, r.lca, BlockOf(r.s.f, id))
    IN IF id \in s.seen THEN s
       ELSE IF r.lca = 0 \/ way = <<>> THEN r.s
       ELSE [r.s EXCEPT !.f = MoveInstructionBack(@, id, BestBlock(L, way))]

-----------------------------------------------------------------------------
MovePhiFirst(f, b) ==
    LET late == SelectSeq(f.body[b], LAMBDA id :
                    f.ins[id].op = "phi" /\ id \notin SeqRange(LeadingPhis(f, b)))
    IN [f EXCEPT !.body[b] = Reverse(late) \o SelectSeq(@, LAMBDA id : id \notin SeqRange(late))]

(* The comparison, the negations of it and the branch, in this order.      *)
RECURSIVE ConditionChain(_, _)
ConditionChain(f, v) ==
    IF ~IsRef(v) THEN <<>>
    ELSE CASE f.ins[v[2]].op = "xor" -> Append(ConditionChain(f, f.ins[v[2]].args[1]), v[2])
           [] f.ins[v[2]].op \in IntCompare -> <<v[2]>>
           [] OTHER -> <<>>
\* Mutant: the branch alone goes to the end.
MoveBranchLast(f, b) ==
    LET t == CHOOSE id \in SeqRange(f.body[b]) : IsTerminator(f.ins[id])
    IN [f EXCEPT !.body[b] = SelectSeq(@, LAMBDA id : id # t) \o <<t>>]
MoveTerminatorLast(f, b) ==
    LET ends == {id \in SeqRange(f.body[b]) : IsTerminator(f.ins[id])}
        t == CHOOSE id \in ends : TRUE
        tail == (IF f.ins[t].op = "br" THEN ConditionChain(f, f.ins[t].args[1]) ELSE <<>>) \o <<t>>
    IN [FaultUnless(Cardinality(ends) = 1, "terminators", f)
            EXCEPT !.body[b] = SelectSeq(@, LAMBDA id : id \notin SeqRange(tail)) \o tail]

(* A topological order of the instructions that may move: an instruction   *)
(* comes after those of them that use it.                                  *)
RECURSIVE UsersFirst(_, _, _)
UsersFirst(f, order, rest) ==
    LET free == {id \in rest : \A u \in rest : Ref(id) \notin Operands(f.ins[u])}
    IN IF rest = {} THEN order
       ELSE LET id == Min(free) IN UsersFirst(f, Append(order, id), rest \ {id})
(* Each goes right before its first user in the block, phis apart.         *)
PlaceBeforeUser(f, b, id) ==
    LET users == {n \in DOMAIN f.body[b] :
                    LET u == f.ins[f.body[b][n]] IN u.op # "phi" /\ Ref(id) \in Operands(u)}
    IN IF users = {} THEN f ELSE MoveInstructionBefore(f, b, id, f.body[b][Min(users)])
PlaceInBlock(m, f, b) ==
    LET unpinned == {id \in SeqRange(f.body[b]) : ~IsPinned(m, f.ins[id])} IN
    With(Each(LAMBDA h, id : PlaceBeforeUser(h, b, id), f, UsersFirst(f, <<>>, unpinned)), LAMBDA g :
    With(Terminator(g, b), LAMBDA br :
    LET adjacent == br.op = "br" /\ Len(g.body[b]) >= 2 /\ ~IsConstant(br.args[1])
                       => br.args[1] = Ref(g.body[b][Len(g.body[b]) - 1]) IN
    FaultUnless(adjacent, "compare apart from branch", g)))

RunGCM(m, L) ==
    With(ComputeDominanceRelationship(L.f), LAMBDA f :
    With(ListIds(f, f.order), LAMBDA all :
    With(Each(ScheduleEarly, [m |-> m, f |-> f, seen |-> {}], all), LAMBDA early :
    With(Each(LAMBDA s, id : ScheduleLate(L, s, id), [early EXCEPT !.seen = {}], all), LAMBDA late :
    With(Each(LAMBDA g, b : MoveTerminatorLast(MovePhiFirst(g, b), b), late.f, f.order), LAMBDA sorted :
    Each(LAMBDA g, b : PlaceInBlock(m, g, b), sorted, f.order))))))
GCM(m, f) == BasicOptimization(m, RunGCM(m, ComputeLoopRelationship(f)))
GCMPass(m) == OnFunctions(SideEffectPass(m), GCM)
=============================================================================
