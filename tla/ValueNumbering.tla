--------------------------- MODULE ValueNumbering ---------------------------
(***************************************************************************)
(* Combining of constants along a chain of binary instructions             *)
(* (src/ir/pass/instr-combine.cpp) and global value numbering (gvn.cpp).   *)
(***************************************************************************)
EXTENDS Loops, Interprocedural
LOCAL INSTANCE SequencesExt

(* (x first_op a) second_op b becomes x op c; the first instruction stays  *)
(* for dead code elimination.  The numbers here are too small for the      *)
(* tests of overflow to refuse.                                            *)
CombinedConstant(first, second, a, b) ==
    CASE first = second /\ first \in {"add", "sub"} -> [op |-> second, c |-> a + b]
      [] first = second /\ first \in {"mul", "sdiv"} -> [op |-> second, c |-> a * b]
      [] {first, second} = {"add", "sub"} ->
            IF b >= a THEN [op |-> second, c |-> b - a] ELSE [op |-> first, c |-> a - b]
      [] {first, second} = {"mul", "sdiv"} /\ a # 0 /\ b = a * Quotient(b, a) ->
            [op |-> second, c |-> Quotient(b, a)]
      [] OTHER -> [op |-> "none"]
CombineBinaryInstr(f, id, user) ==
    LET i == f.ins[id]
        u == f.ins[user]
        chain == /\ u.op \in BinaryOps /\ u.args[1] = Ref(id)
                 /\ IsConstant(u.args[2]) /\ IsConstant(i.args[2])
        new == CombinedConstant(i.op, u.op, i.args[2][2], u.args[2][2])
    IN IF ~chain \/ new.op = "none" THEN f
       ELSE [f EXCEPT !.ins[user].op = new.op, !.ins[user].args = <<i.args[1], Num(new.c)>>]
CombineUsers(f, id) ==
    IF f.ins[id].op \notin BinaryOps THEN f
    ELSE Each(LAMBDA g, u : CombineBinaryInstr(g, id, u), f, InOrder(Users(f, Ref(id))))
InstrCombining(m, f) ==
    DeadCodeElimination(m,
        Each(LAMBDA g, b : Each(CombineUsers, g, g.body[b]), f, f.order))
InstrCombiningPass(m) == OnFunctions(m, InstrCombining)

-----------------------------------------------------------------------------
(* r is [m, f, vns, idx]: vns, a list of pairs of a value and the value    *)
(* that stands for it; idx, where the pair of a value should be.  An       *)
(* operator that numbers a value returns [v, r] or [n, r].                 *)
RECURSIVE GetValue(_, _)

Found(r, v) == [v |-> v, r |-> r]
GetValueNumber(r, v) ==
    LET q == GetValue(r, v) IN
    IF q.v \in DOMAIN q.r.idx THEN [n |-> q.r.idx[q.v], r |-> q.r]
    ELSE [n |-> 1, r |-> [q.r EXCEPT !.idx = (q.v :> 1) @@ @]]

(* Are the values of two lists numbered alike?  Stops at the first that    *)
(* are not; those behind it are not numbered.                              *)
RECURSIVE SameNumbers(_, _, _)
SameNumbers(r, as, bs) ==
    IF as = <<>> THEN [same |-> TRUE, r |-> r]
    ELSE LET a == GetValueNumber(r, Head(as))
             b == GetValueNumber(a.r, Head(bs))
         IN IF a.n # b.n THEN [same |-> FALSE, r |-> b.r]
            ELSE SameNumbers(b.r, Tail(as), Tail(bs))
SameBinary(r, old, new) ==
    LET a == GetValueNumber(r, old.args[1])
        b == GetValueNumber(a.r, new.args[1])
        c == GetValueNumber(b.r, old.args[2])
        d == GetValueNumber(c.r, new.args[2])
    IN [same |-> \/ a.n = b.n /\ c.n = d.n
                 \/ new.op \in {"add", "mul"} /\ a.n = d.n /\ c.n = b.n,
        r |-> d.r]
Same(r, old, new) ==
    IF old.op # new.op THEN [same |-> FALSE, r |-> r]
    ELSE CASE new.op = "gep" /\ Len(old.args) = Len(new.args) -> SameNumbers(r, old.args, new.args)
           [] new.op = "call" /\ old.fn = new.fn -> SameNumbers(r, new.args, old.args)
           [] new.op \in BinaryOps -> SameBinary(r, old, new)
           [] OTHER -> [same |-> FALSE, r |-> r]

(* The first of the pairs 1..last whose key computes what id computes.     *)
RECURSIVE Earlier(_, _, _, _)
Earlier(r, id, n, last) ==
    IF n > last THEN Found(r, Ref(id))
    ELSE LET key == r.vns[n][1]
             old == IsRef(key) /\ key[2] # id /\ key[2] \in DOMAIN r.f.ins IN
         With(Same(r, r.f.ins[key[2]], r.f.ins[id]), LAMBDA s :
         IF ~old THEN Earlier(r, id, n + 1, last)
         ELSE IF s.same THEN GetValue(s.r, s.r.vns[n][2])
         ELSE Earlier(s.r, id, n + 1, last))

(* The algebraic rules, in the code's order: to a constant, a copy of an   *)
(* operand, or 0 - operand.                                                *)
Fold(op, a, b) ==
    IF op \in IntCompare \cup {"xor"} THEN Bool(
            CASE op = "sge" -> a >= b [] op = "sgt" -> a > b [] op = "sle" -> a <= b
              [] op = "slt" -> a < b [] op = "eq" -> a = b [] op \in {"ne", "xor"} -> a # b)
    ELSE Num(CASE op = "add" -> a + b [] op = "sub" -> a - b [] op = "mul" -> a * b
               [] op = "sdiv" -> Quotient(a, b) [] op = "srem" -> a - b * Quotient(a, b))
Rule(op, x, y) ==
    CASE IsConstant(x) /\ IsConstant(y) ->
            IF op \in {"sdiv", "srem"} /\ y[2] = 0 THEN <<"crash", x>>
            ELSE <<"const", Fold(op, x[2], y[2])>>
      [] op = "add" /\ x = Num(0) -> <<"copy", y>>
      [] op \in {"add", "sub"} /\ y = Num(0) -> <<"copy", x>>
      [] op = "mul" /\ Num(0) \in {x, y} -> <<"const", Num(0)>>
      [] op \in {"mul", "sdiv"} /\ y = Num(1) -> <<"copy", x>>
      [] op = "mul" /\ x = Num(1) -> <<"copy", y>>
      [] op = "mul" /\ x = Num(-1) -> <<"negate", y>>
      [] op \in {"sdiv", "srem"} /\ x = Num(0) -> <<"const", Num(0)>>
      [] op \in {"sdiv", "srem"} /\ y = Num(0) -> <<"crash", x>>
      [] op \in {"mul", "sdiv"} /\ y = Num(-1) -> <<"negate", x>>
      [] op = "srem" /\ y \in {Num(1), Num(-1)} -> <<"const", Num(0)>>
      [] OTHER -> <<"none", x>>
(* Both operands have the same number.                                     *)
EqualRule(op) ==
    CASE op \in {"sub", "srem"} -> Num(0) [] op = "sdiv" -> Num(1)
      [] op \in {"sge", "sle", "eq"} -> Bool(TRUE)
      [] op \in {"sgt", "slt", "ne"} -> Bool(FALSE) [] OTHER -> Undef

GetValueForBinaryInstr(r, id) ==
    LET i == r.f.ins[id]
        rule == Rule(i.op, i.args[1], i.args[2])
        a == GetValueNumber(r, i.args[1])
        b == GetValueNumber(a.r, i.args[2])
        equal == a.n = b.n /\ EqualRule(i.op) # Undef
    IN CASE rule[1] = "const" -> Found(r, rule[2])
         [] rule[1] = "copy" -> GetValue(r, rule[2])
         [] rule[1] = "negate" ->
                GetValue([r EXCEPT !.f.ins[id].op = "sub", !.f.ins[id].args = <<Num(0), rule[2]>>],
                         Ref(id))
         [] rule[1] = "crash" -> Found([r EXCEPT !.f = FaultUnless(FALSE, "division by 0", @)], Ref(id))
         [] rule[1] = "none" /\ equal -> Found(b.r, EqualRule(i.op))
         [] rule[1] = "none" /\ ~equal /\ i.op \in IntCompare -> Found(b.r, Ref(id))
         [] OTHER -> Earlier(b.r, id, 1, Len(b.r.vns))

(* The value that stands for a new value v.                                *)
Represent(r, v) ==
    IF ~IsRef(v) THEN Found(r, v)
    ELSE LET i == r.f.ins[v[2]] IN
         CASE i.op \in BinaryOps -> GetValueForBinaryInstr(r, v[2])
           [] i.op = "gep" \/ (i.op = "call" /\ ~r.m.side[i.fn]) -> Earlier(r, v[2], 1, Len(r.vns))
           [] i.op = "zext" /\ IsConstant(i.args[1]) -> Found(r, Num(i.args[1][2]))
           [] OTHER -> Found(r, v)

Broken(r) == [r EXCEPT !.f = FaultUnless(FALSE, "stale index", @)]
GetValue(r, v) ==
    IF v \in DOMAIN r.idx
    THEN LET n == r.idx[v] IN
         IF n > Len(r.vns) THEN Found(Broken(r), v)
         ELSE IF r.vns[n][1] = r.vns[n][2] THEN Found(r, r.vns[n][1])
         ELSE LET q == GetValue(r, r.vns[n][2]) IN Found([q.r EXCEPT !.vns[n][2] = q.v], q.v)
    ELSE LET n == Len(r.vns) + 1 IN
         With(Represent([r EXCEPT !.vns = Append(@, <<v, v>>), !.idx = (v :> n) @@ @], v), LAMBDA q :
         Found([q.r EXCEPT !.vns[n][2] = q.v], q.v))

(* The pair of a removed instruction gives way to the last of the list;    *)
(* the index of that one stays what it was.                                *)
DropPair(r, id) ==
    LET n == r.idx[Ref(id)]
        last == Len(r.vns)
        dropped == [r EXCEPT !.idx = [v \in DOMAIN @ \ {Ref(id)} |-> @[v]],
                             !.vns = Front([@ EXCEPT ![n] = r.vns[last]])]
    IN IF n > last THEN Broken(r)
       ELSE IF r.vns[n][1] = Ref(id) THEN dropped ELSE Broken(dropped)

CanGVN(i) == i.op \in BinaryOps \cup {"zext", "gep", "call"}
NumberInstr(r, id) ==
    With(GetValue(r, Ref(id)), LAMBDA q :
    IF ~CanGVN(r.f.ins[id]) THEN r
    ELSE IF q.v = Ref(id) THEN q.r
    ELSE DropPair([q.r EXCEPT !.f = RemoveInstruction(ReplaceUseBy(@, id, q.v), id)], id))
RunGVN(m, f) ==
    Each(LAMBDA r, b : Each(NumberInstr, r, r.f.body[b]),
         [m |-> m, f |-> f, vns |-> <<>>, idx |-> <<>>], f.order).f
GVNPass(m0) ==
    OnFunctions(SideEffectPass(m0), LAMBDA m, f : RunGVN(m, ComputeDominanceRelationship(f)))
=============================================================================
