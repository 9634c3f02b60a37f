------------------------------- MODULE CodeGen -------------------------------
(***************************************************************************)
(* From syntax trees to the intermediate representation                    *)
(* (src/ast/codegen.cpp on top of src/ir/builder.cpp).                     *)
(*                                                                         *)
(* The generator is a record g: the function under construction, its       *)
(* current block, the address of every declaration and the five block      *)
(* pointers that the builder keeps for if, while and the short circuit     *)
(* operators.  Those are shared fields: each statement saves what it finds *)
(* and puts it back.  0 is the null block.                                 *)
(***************************************************************************)
EXTENDS IR

NoBlock == 0

Emit(g, i) == [g EXCEPT !.f = PushBack(g.f, g.cur, i)]
EmitValue(g, i) == [v |-> Ref(g.f.ni), g |-> Emit(g, i)]
Append_(g, b) == [g EXCEPT !.f = AppendBasicBlock(g.f, b), !.cur = b]
CreateBasicBlock(g) == Append_([g EXCEPT !.f = MakeBlock(@)], g.f.nb)

IsBool(f, v) == v[1] = "bool" \/ (IsRef(v) /\ f.ins[v[2]].op \in IntCompare \cup {"xor"})
CreateZExt(g, v) ==
    IF IsBool(g.f, v) THEN EmitValue(g, Instr("zext", <<v>>)) ELSE [v |-> v, g |-> g]

(* An integer condition is compared with 0 first.                          *)
CreateBranchInstruction(g, v, t, e) ==
    IF IsBool(g.f, v) THEN Emit(g, BranchTo(v, t, e))
    ELSE LET c == EmitValue(g, Instr("ne", <<v, Num(0)>>)) IN Emit(c.g, BranchTo(c.v, t, e))
CreateJumpInstruction(g, b) ==
    Emit([g EXCEPT !.f = FaultUnless(b # NoBlock, "null block", @)], JumpTo(b))

-----------------------------------------------------------------------------
RECURSIVE GenExpr(_, _), GenArgs(_, _)

(* A parameter that is an array is a pointer in a local variable.          *)
CodeGenAddr(g, x, index, rows) ==
    IF index = <<>> THEN [v |-> g.addr[x], g |-> g]
    ELSE LET a == g.addr[x]
             fat == IsRef(a) /\ g.f.ins[a[2]].k = -1 IN
         With(IF fat THEN EmitValue(g, Instr("load", <<a>>)) ELSE [v |-> a, g |-> g], LAMBDA base :
         With(GenArgs(base.g, index), LAMBDA is :
         With(IF fat THEN [Instr("gep", <<base.v>> \o is.v) EXCEPT !.dims = rows]
              ELSE [Instr("gep", <<base.v, Num(0)>> \o is.v) EXCEPT !.dims = <<1>> \o rows], LAMBDA gep :
         EmitValue(is.g, gep))))

(* An array that is passed on becomes a pointer to its first element.      *)
ArrayArg(g, x) ==
    LET a == g.addr[x] IN
    IF IsRef(a) /\ g.f.ins[a[2]].k = -1 THEN EmitValue(g, Instr("load", <<a>>))
    ELSE EmitValue(g, Instr("gep", <<a, Num(0), Num(0)>>))
LoadFrom(a) == EmitValue(a.g, Instr("load", <<a.v>>))

GenArgs(g, es) ==
    IF es = <<>> THEN [v |-> <<>>, g |-> g]
    ELSE LET e == Head(es) IN
         With(IF e[1] = "var" /\ e[2] \in g.arrays THEN ArrayArg(g, e[2]) ELSE GenExpr(g, e), LAMBDA a :
         With(GenArgs(a.g, Tail(es)), LAMBDA r :
         [v |-> <<a.v>> \o r.v, g |-> r.g]))

(* && and ||: the left operand branches, with a new block as the target    *)
(* that leads on to the right operand, which is left to the caller.        *)
CodeGenAnd(g, e) ==
    LET b == g.f.nb
        l == GenExpr([g EXCEPT !.f = MakeBlock(@), !.if_true = b], e[2]) IN
    With(Append_(CreateBranchInstruction(l.g, l.v, l.g.if_true, l.g.if_false), l.g.if_true), LAMBDA h :
    GenExpr([h EXCEPT !.if_true = g.if_true], e[3]))
CodeGenOr(g, e) ==
    LET b == g.f.nb IN
    With(GenExpr([g EXCEPT !.f = MakeBlock(@), !.if_false = b], e[2]), LAMBDA l :
    With(Append_(CreateBranchInstruction(l.g, l.v, l.g.if_true, l.g.if_false), l.g.if_false), LAMBDA h :
    GenExpr([h EXCEPT !.if_false = g.if_false], e[3])))

GenNegative(g, e) ==
    LET l == GenExpr(g, e[2])
        z == CreateZExt(l.g, l.v)
    IN EmitValue(z.g, Instr("sub", <<Num(0), z.v>>))
GenNot(g, e) ==
    LET l == GenExpr(g, e[2]) IN
    EmitValue(l.g, IF IsBool(l.g.f, l.v) THEN Instr("xor", <<l.v, Bool(TRUE)>>)
                   ELSE Instr("eq", <<l.v, Num(0)>>))
(* Both operands first; then a comparison widens each that is a boolean.   *)
GenBinary(g, e) ==
    LET l == GenExpr(g, e[2])
        r == GenExpr(l.g, e[3])
        wide == e[1] \in IntCompare
        lz == IF wide THEN CreateZExt(r.g, l.v) ELSE [v |-> l.v, g |-> r.g] IN
    With(IF wide THEN CreateZExt(lz.g, r.v) ELSE [v |-> r.v, g |-> lz.g], LAMBDA rz :
    EmitValue(rz.g, Instr(e[1], <<lz.v, rz.v>>)))

GenExpr(g, e) ==
    CASE e[1] = "num" -> [v |-> Num(e[2]), g |-> g]
      [] e[1] = "var" -> LoadFrom(CodeGenAddr(g, e[2], <<>>, <<>>))
      [] e[1] = "elem" -> LoadFrom(CodeGenAddr(g, e[2], e[3], e[4]))
      [] e[1] = "call" -> With(GenArgs(g, e[3]), LAMBDA a :
                          EmitValue(a.g, CallOf(e[2], a.v)))
      [] e[1] = "and" -> CodeGenAnd(g, e)
      [] e[1] = "or" -> CodeGenOr(g, e)
      [] e[1] = "neg" -> GenNegative(g, e)
      [] e[1] = "not" -> GenNot(g, e)
      [] e[1] \in BinaryOps -> GenBinary(g, e)

-----------------------------------------------------------------------------
Declare(g, x, k) ==
    With(EmitValue(g, Alloca(k)), LAMBDA a :
    [a.g EXCEPT !.addr = (x :> a.v) @@ @, !.arrays = IF k = 0 THEN @ ELSE @ \cup {x}])

(* A local array is cleared by memset, then the initial values that it is  *)
(* given are stored.                                                       *)
GenInit(g, first, es) ==
    LET Element(h, n) ==
            LET p == EmitValue(h, Instr("gep", <<first, Num(n - 1)>>)) IN
            With(GenExpr(p.g, es[n]), LAMBDA v :
            IF es[n][1] = "nil" THEN h ELSE Emit(v.g, Instr("store", <<p.v, v.v>>)))
    IN Each(Element, g, [n \in DOMAIN es |-> n])
GenArray(g, s) ==
    LET cells == Stride(s[3], 1)
        d == Declare(g, s[2], cells)
        first == EmitValue(d, Instr("gep", <<d.addr[s[2]], Num(0)>> \o [n \in DOMAIN s[3] |-> Num(0)]))
        bytes == EmitValue(first.g, Instr("bitcast", <<first.v>>))
        h == Emit(bytes.g, CallOf("memset", <<bytes.v, Num(0), Num(4 * cells), Bool(FALSE)>>))
    IN GenInit(h, first.v, s[4])

RECURSIVE GenStmt(_, _)

GenIf(g, s) ==
    LET haselse == Len(s) = 4
        t == g.f.nb
        x == t + 1
        e == IF haselse THEN t + 2 ELSE x
        f1 == MakeBlock(MakeBlock(g.f))
        g1 == [g EXCEPT !.f = IF haselse THEN MakeBlock(f1) ELSE f1,
                        !.if_true = t, !.if_exit = x, !.if_false = e] IN
    With(GenExpr(g1, s[2]), LAMBDA c :
    With(CreateBranchInstruction(c.g, c.v, c.g.if_true, c.g.if_false), LAMBDA g2 :
    With(GenStmt(Append_(g2, g2.if_true), s[3]), LAMBDA g3 :
    With(CreateJumpInstruction(g3, g3.if_exit), LAMBDA g4 :
    With(IF ~haselse THEN g4
         ELSE CreateJumpInstruction(GenStmt(Append_(g4, g4.if_false), s[4]), g4.if_exit), LAMBDA g5 :
    [Append_(g5, g5.if_exit) EXCEPT
         !.if_true = g.if_true, !.if_false = g.if_false, !.if_exit = g.if_exit])))))

GenWhile(g, s) ==
    LET n == g.f.nb
        g1 == [g EXCEPT !.f = MakeBlock(MakeBlock(MakeBlock(@))), !.while_entry = n,
                        !.if_true = n + 1, !.while_exit = n + 2, !.if_false = n + 2]
        g2 == Append_(CreateJumpInstruction(g1, g1.while_entry), g1.while_entry) IN
    With(GenExpr(g2, s[2]), LAMBDA c :
    With(CreateBranchInstruction(c.g, c.v, c.g.if_true, c.g.if_false), LAMBDA g3 :
    With(GenStmt(Append_(g3, g3.if_true), s[3]), LAMBDA g4 :
    With(CreateJumpInstruction(g4, g4.while_entry), LAMBDA g5 :
    [Append_(g5, g5.while_exit) EXCEPT
         !.while_entry = g.while_entry, !.if_true = g.if_true,
         !.while_exit = g.while_exit, !.if_false = g.if_false]))))

GenReturn(g, e) ==
    IF e = <<>> THEN Emit(g, Instr("ret", <<>>))
    ELSE With(GenExpr(g, e[1]), LAMBDA r :
         Emit(r.g, Instr("ret", <<r.v>>)))
GenDecl(g, s) ==
    With(GenExpr(g, s[3]), LAMBDA v :
    With(Declare(v.g, s[2], 0), LAMBDA d :
    Emit(d, Instr("store", <<d.addr[s[2]], v.v>>))))
GenAssign(g, x, index, rows, e) ==
    With(GenExpr(g, e), LAMBDA v :
    With(CodeGenAddr(v.g, x, index, rows), LAMBDA a :
    Emit(a.g, Instr("store", <<a.v, v.v>>))))
GenBreak(g) == CreateBasicBlock(CreateJumpInstruction(g, g.while_exit))
GenContinue(g) == CreateBasicBlock(CreateJumpInstruction(g, g.while_entry))

GenStmt(g, s) ==
    CASE s[1] = "block" -> Each(GenStmt, g, s[2])
      [] s[1] = "decl0" -> Declare(g, s[2], 0)
      [] s[1] = "decl" -> GenDecl(g, s)
      [] s[1] = "const" -> g
      [] s[1] \in {"array", "constarray"} -> GenArray(g, s)
      [] s[1] = "assign" -> GenAssign(g, s[2], <<>>, <<>>, s[3])
      [] s[1] = "store" -> GenAssign(g, s[2], s[3], s[4], s[5])
      [] s[1] = "eval" -> GenExpr(g, s[2]).g
      [] s[1] = "if" -> GenIf(g, s)
      [] s[1] = "while" -> GenWhile(g, s)
      [] s[1] = "break" -> GenBreak(g)
      [] s[1] = "continue" -> GenContinue(g)
      [] s[1] = "return" -> GenReturn(g, Tail(s))

-----------------------------------------------------------------------------
GenParams(g, ps) ==
    LET Parameter(h, n) ==
            LET d == Declare(h, ps[n].name, IF ps[n].array THEN -1 ELSE 0)
            IN Emit(d, Instr("store", <<d.addr[ps[n].name], Arg(n)>>))
    IN Each(Parameter, g, [n \in DOMAIN ps |-> n])

(* A body that does not end with a terminator returns 0, or nothing.       *)
GenFunction(P, fun) ==
    LET globals == DOMAIN P.globals
        g0 == [f |-> NewFunction(Len(fun.params), fun.void), cur |-> NoBlock,
               addr |-> [x \in globals |-> Global(x)],
               arrays |-> {x \in globals : P.globals[x].dims # <<>>},
               if_true |-> NoBlock, if_false |-> NoBlock, if_exit |-> NoBlock,
               while_entry |-> NoBlock, while_exit |-> NoBlock] IN
    With(GenStmt(GenParams(CreateBasicBlock(g0), fun.params), fun.body), LAMBDA g :
    With(g.f.body[g.cur] = <<>> \/ ~IsTerminator(Terminator(g.f, g.cur)), LAMBDA open :
    IF ~open THEN g.f
    ELSE GenReturn(g, IF fun.void THEN <<>> ELSE <<<<"num", 0>>>>).f))

(* The value of a global that is not given is zero.                        *)
GlobalVariable(decl) ==
    [vals |-> [n \in DOMAIN decl.list |-> IF decl.list[n][1] = "nil" THEN 0 ELSE decl.list[n][2]],
     array |-> decl.dims # <<>>, const |-> decl.const]

(* The side effect of a built-in is not known before ComputeSideEffect.    *)
GenProgram(P) ==
    LET names == {P.funs[n].name : n \in DOMAIN P.funs}
        FunOf_(g) == P.funs[CHOOSE n \in DOMAIN P.funs : P.funs[n].name = g]
    IN [fn |-> [g \in names |-> RemoveInstrsAfterTerminator(GenFunction(P, FunOf_(g)))],
        list |-> [n \in DOMAIN P.funs |-> P.funs[n].name],
        glob |-> [g \in DOMAIN P.globals |-> GlobalVariable(P.globals[g])],
        side |-> [g \in names \cup Builtins |-> FALSE],
        calls |-> [g \in names \cup Builtins |-> <<>>],
        called |-> [g \in names |-> -1]]
=============================================================================
