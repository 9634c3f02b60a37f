----------------------------- MODULE TypeCheck -----------------------------
(***************************************************************************)
(* What type checking does to the syntax tree (src/ast/type-check.cpp):    *)
(* every expression is evaluated as far as it is constant and turned into  *)
(* the number, and the braces of the initial values of an array are        *)
(* resolved into one row of expressions.  Which names and statements it    *)
(* refuses is the subject of module ScopeCheck; the programs here are      *)
(* accepted, their dimensions are numbers already, and the values of their *)
(* globals name no other constant.                                         *)
(*                                                                         *)
(* consts gives [array, vals] of each constant seen so far.                *)
(***************************************************************************)
EXTENDS IR

Zero == <<"nil">>                \* a null pointer among the values: not given, zero
IsNum(e) == e[1] = "num"
IsList(e) == e[1] = "list"

(* Comparisons and && and || are decided on values of type float, which    *)
(* has a mantissa of 24 bits: a larger integer is rounded, half to even.   *)
Mantissa == 16777216
ToFloat(n) ==
    LET abs == IF n < 0 THEN -n ELSE n IN
    With(CHOOSE u \in {1, 2, 4, 8, 16, 32, 64, 128} :
             abs \div u < Mantissa /\ (u > 1 => abs \div (u \div 2) >= Mantissa), LAMBDA unit :
    With(abs \div unit, LAMBDA down :
    With(2 * (abs % unit) > unit \/ (2 * (abs % unit) = unit /\ down % 2 = 1), LAMBDA up :
    With(IF up THEN down + 1 ELSE down, LAMBDA q :
    IF unit = 1 THEN n ELSE IF n < 0 THEN -q * unit ELSE q * unit))))

AsBit(b) == IF b THEN 1 ELSE 0
Compared(op, a, b) ==
    AsBit(CASE op = "slt" -> a < b [] op = "sle" -> a <= b [] op = "sgt" -> a > b
            [] op = "sge" -> a >= b [] op = "eq" -> a = b [] op = "ne" -> a # b)
Logical(op, a, b) == AsBit(IF op = "and" THEN a # 0 /\ b # 0 ELSE a # 0 \/ b # 0)
Computed(op, a, b) ==
    CASE op = "add" -> a + b [] op = "sub" -> a - b [] op = "mul" -> a * b
      [] op = "sdiv" -> Quotient(a, b) [] op = "srem" -> a - b * Quotient(a, b)

(* Evaluate, which leaves the number in the place of the expression.       *)
RECURSIVE Evaluate(_, _)
EvaluateAll(es, consts) == [n \in DOMAIN es |-> Evaluate(es[n], consts)]

(* Both operands are evaluated, those of && and || too.                    *)
EvaluateBinary(e, consts) ==
    LET l == Evaluate(e[2], consts)
        r == Evaluate(e[3], consts)
    IN IF ~(IsNum(l) /\ IsNum(r)) THEN <<e[1], l, r>>
       ELSE <<"num", CASE e[1] \in IntCompare -> Compared(e[1], ToFloat(l[2]), ToFloat(r[2]))
                       [] e[1] \in {"and", "or"} -> Logical(e[1], ToFloat(l[2]), ToFloat(r[2]))
                       [] OTHER -> Computed(e[1], l[2], r[2])>>
EvaluateUnary(e, consts) ==
    LET a == Evaluate(e[2], consts) IN
    IF ~IsNum(a) THEN <<e[1], a>>
    ELSE <<"num", IF e[1] = "neg" THEN -a[2] ELSE AsBit(a[2] = 0)>>

(* An element of a constant array whose indices are constant.  The value   *)
(* of an element that is not given is read through a null pointer.         *)
GetFlattenVal(vals, offset) == Evaluate(vals[offset + 1], <<>>)
EvaluateElem(e, consts) ==
    LET is == EvaluateAll(e[3], consts)
        known == e[2] \in DOMAIN consts /\ \A n \in DOMAIN is : IsNum(is[n])
    IN IF known THEN GetFlattenVal(consts[e[2]].vals, Offset([n \in DOMAIN is |-> is[n][2]], e[4]))
       ELSE <<"elem", e[2], is, e[4]>>
Evaluate(e, consts) ==
    CASE e[1] \in {"num", "nil"} -> e
      [] e[1] = "var" ->
            IF e[2] \in DOMAIN consts /\ ~consts[e[2]].array THEN GetFlattenVal(consts[e[2]].vals, 0) ELSE e
      [] e[1] = "elem" -> EvaluateElem(e, consts)
      [] e[1] = "call" -> <<"call", e[2], EvaluateAll(e[3], consts)>>
      [] e[1] \in {"neg", "not"} -> EvaluateUnary(e, consts)
      [] e[1] \in BinaryOps \cup {"and", "or"} -> EvaluateBinary(e, consts)

-----------------------------------------------------------------------------
(* The values in braces, in the place that vals has come to; products are  *)
(* the cells of the array and of its rows.  A list starts at the next full *)
(* row of its level and is filled up with zeros; one that is nested deeper *)
(* than the array is dropped.                                              *)
Products(dims) == [n \in DOMAIN dims |-> Stride(dims, n)]
Pad(vals, n) == vals \o [k \in 1..(n - Len(vals)) |-> Zero]
Aligned(vals, size) == Pad(vals, ((Len(vals) + size - 1) \div size) * size)
RECURSIVE FillVals(_, _, _, _)
FillVals(n, sizes, items, vals) ==
    IF n > Len(sizes) THEN vals
    ELSE LET r == (Len(vals) \div sizes[n] + 1) * sizes[n]
             size == IF n = Len(sizes) THEN 1 ELSE sizes[n + 1]
             Fill(v, item) == IF IsList(item) THEN FillVals(n + 1, sizes, item[2], Aligned(v, size))
                              ELSE Append(v, item)
         IN IF r > sizes[1] THEN vals ELSE Pad(Each(Fill, vals, items), r)

RECURSIVE CheckInitVal(_, _)
CheckInitVal(items, consts) ==
    [n \in DOMAIN items |->
        IF IsList(items[n]) THEN <<"list", CheckInitVal(items[n][2], consts)>>
        ELSE Evaluate(items[n], consts)]
(* A variable has one value, which is not in braces, or none.              *)
FlattenVals(dims, items, consts) ==
    With(CheckInitVal(items, consts), LAMBDA checked :
    IF dims # <<>> THEN FillVals(1, Products(dims), checked, <<>>)
    ELSE IF checked = <<>> THEN <<Zero>> ELSE checked)

(* A checked statement is [s, consts]: it as it becomes and the constants known   *)
(* after it.  Names are resolved, so that a constant stays known.          *)
Checked(s, consts) == [s |-> s, consts |-> consts]
CheckDecl(s, consts) ==
    LET vals == FlattenVals(s[3], s[4], consts) IN
    Checked(<<s[1], s[2], s[3], vals>>,
            IF s[1] = "constarray" THEN (s[2] :> [array |-> TRUE, vals |-> vals]) @@ consts ELSE consts)
CheckConst(s, consts) ==
    LET val == Evaluate(s[3], consts)
    IN Checked(<<"const", s[2], val>>, (s[2] :> [array |-> FALSE, vals |-> <<val>>]) @@ consts)
RECURSIVE CheckStmt(_, _)
CheckBlock(s, consts) ==
    LET Step_(c, t) == LET d == CheckStmt(t, c.consts) IN Checked(Append(c.s, d.s), d.consts)
        c == Each(Step_, Checked(<<>>, consts), s[2])
    IN Checked(<<"block", c.s>>, c.consts)
CheckStmt(s, consts) ==
    LET E(e) == Evaluate(e, consts)
        S(t) == CheckStmt(t, consts).s
    IN CASE s[1] = "block" -> CheckBlock(s, consts)
         [] s[1] = "const" -> CheckConst(s, consts)
         [] s[1] \in {"array", "constarray"} -> CheckDecl(s, consts)
         [] s[1] \in {"decl", "assign"} -> Checked(<<s[1], s[2], E(s[3])>>, consts)
         [] s[1] = "store" ->
               Checked(<<"store", s[2], EvaluateAll(s[3], consts), s[4], E(s[5])>>, consts)
         [] s[1] = "eval" -> Checked(<<"eval", E(s[2])>>, consts)
         [] s[1] = "if" -> Checked(<<"if", E(s[2])>> \o [n \in 1..(Len(s) - 2) |-> S(s[n + 2])], consts)
         [] s[1] = "while" -> Checked(<<"while", E(s[2]), S(s[3])>>, consts)
         [] s[1] = "return" -> Checked(<<"return">> \o EvaluateAll(Tail(s), consts), consts)
         [] OTHER -> Checked(s, consts)

TypeCheckProgram(P) ==
    With([g \in DOMAIN P.globals |->
             [P.globals[g] EXCEPT !.list = FlattenVals(P.globals[g].dims, @, <<>>)]], LAMBDA globals :
    LET consts == [g \in {h \in DOMAIN globals : globals[h].const} |->
                      [array |-> globals[g].dims # <<>>, vals |-> globals[g].list]] IN
    [globals |-> globals,
     funs |-> [n \in DOMAIN P.funs |-> [P.funs[n] EXCEPT !.body = CheckStmt(@, consts).s]]])
=============================================================================
