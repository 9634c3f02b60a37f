------------------------------- MODULE Source -------------------------------
(***************************************************************************)
(* What a program means: a direct interpreter of the syntax trees of       *)
(* include/ast/ast.h, and an interpreter of the intermediate               *)
(* representation.  Both yield the outcome of main: the numbers written    *)
(* and the value returned.  The compiler's stages are compared through it. *)
(*                                                                         *)
(* A program is [globals, funs]: a global is [dims, list, const], a        *)
(* function [name, params, void, body].  Names are declarations (the type  *)
(* checker resolves them), so no name is declared twice.                   *)
(* Evaluation order is the code generator's: operands from left to right,  *)
(* the right side of an assignment before the index on its left.           *)
(***************************************************************************)
EXTENDS IR

CONSTANT Fuel            \* loop iterations and calls an execution may take

Garbage == 424242        \* what an undefined read returns

World(globals, input) ==
    [mem |-> [c \in UNION {{<<<<"global", g>>, n>> : n \in 0..(Len(globals[g].vals) - 1)}
                           : g \in DOMAIN globals} |-> globals[c[1][2]].vals[c[2] + 1]],
     out |-> <<>>, inp |-> input, fuel |-> Fuel, next |-> 1]

Read(w, p) == IF p \in DOMAIN w.mem THEN w.mem[p] ELSE Garbage
Write(w, p, v) == [w EXCEPT !.mem = (p :> v) @@ @]
AddTo(p, n) == <<p[1], p[2] + n>>
Burn(w) == [w EXCEPT !.fuel = IF @ = 0 THEN 0 ELSE @ - 1]
Fresh(w) == <<<<"object", w.next>>, 0>>
Clear(w, p, n, v) ==
    [w EXCEPT !.mem = [c \in {AddTo(p, d) : d \in 0..(n - 1)} |-> v] @@ @, !.next = @ + 1]
Outcome(r) == IF r.w.fuel = 0 THEN <<"diverges">> ELSE <<r.w.out, r.val>>

Truth(b) == IF b THEN 1 ELSE 0
Arith(op, a, b) ==
    CASE op = "add" -> a + b [] op = "sub" -> a - b [] op = "mul" -> a * b
      [] op = "sdiv" -> IF b = 0 THEN Garbage ELSE Quotient(a, b)
      [] op = "srem" -> IF b = 0 THEN Garbage ELSE a - b * Quotient(a, b)
      [] op = "sge" -> Truth(a >= b) [] op = "sgt" -> Truth(a > b)
      [] op = "sle" -> Truth(a <= b) [] op = "slt" -> Truth(a < b)
      [] op = "eq" -> Truth(a = b) [] op = "ne" -> Truth(a # b)
      [] op = "xor" -> (a + b) % 2

External(g, args, w) ==
    CASE g = "getint" -> IF w.inp = <<>> THEN [val |-> 0, w |-> w]
                         ELSE [val |-> Head(w.inp), w |-> [w EXCEPT !.inp = Tail(@)]]
      [] g = "putint" -> [val |-> 0, w |-> [w EXCEPT !.out = Append(@, args[1])]]
      [] g = "memset" -> [val |-> 0, w |-> Clear(w, args[1], args[3] \div 4, args[2])]

-----------------------------------------------------------------------------
(* Syntax trees.  Expressions: num, var, elem, call, neg, not, and, or and *)
(* the binary operators; an array variable is a pointer to its cells.  An  *)
(* element or a store carries the inner dimensions of its array.           *)

(* The initial values of an array, by the rules of C: a list in braces     *)
(* gives the values of one object, whose rows take either a list of their  *)
(* own or as many values as they have cells; what is not given is zero.    *)
RECURSIVE Object(_, _), Rows(_, _, _)
Object(dims, items) ==
    IF items = <<>> THEN [cells |-> [n \in 1..Stride(dims, 1) |-> <<"num", 0>>], rest |-> <<>>]
    ELSE IF Head(items)[1] = "list"
         THEN LET inner == Head(items)[2] IN
              [cells |-> IF dims = <<>> THEN Object(dims, inner).cells
                         ELSE Rows(dims[1], Tail(dims), inner).cells,
               rest |-> Tail(items)]
    ELSE IF dims = <<>> THEN [cells |-> <<Head(items)>>, rest |-> Tail(items)]
    ELSE Rows(dims[1], Tail(dims), items)
Rows(n, dims, items) ==
    IF n = 0 THEN [cells |-> <<>>, rest |-> items]
    ELSE LET row == Object(dims, items)
             others == Rows(n - 1, dims, row.rest)
         IN [cells |-> row.cells \o others.cells, rest |-> others.rest]
CellsOf(dims, list) == Object(dims, <<<<"list", list>>>>).cells

RECURSIVE EvalE(_, _, _, _), EvalArgs(_, _, _, _), Exec(_, _, _, _), CallFun(_, _, _, _)

Local(env, x) == x \in DOMAIN env
EvalE(P, e, env, w) ==
    CASE e[1] = "num" -> [val |-> e[2], w |-> w]
      [] e[1] = "nil" -> [val |-> 0, w |-> w]
      [] e[1] = "var" ->
            [val |-> IF Local(env, e[2]) THEN env[e[2]]
                     ELSE IF P.globals[e[2]].dims # <<>> THEN <<<<"global", e[2]>>, 0>>
                     ELSE Read(w, <<<<"global", e[2]>>, 0>>), w |-> w]
      [] e[1] = "elem" ->
            LET a == EvalE(P, <<"var", e[2]>>, env, w).val IN
            With(EvalArgs(P, e[3], env, w), LAMBDA is :
            [val |-> Read(is.w, AddTo(a, Offset(is.val, e[4]))), w |-> is.w])
      [] e[1] = "call" -> With(EvalArgs(P, e[3], env, w), LAMBDA a :
                          CallFun(P, e[2], a.val, a.w))
      [] e[1] = "neg" -> LET a == EvalE(P, e[2], env, w) IN [a EXCEPT !.val = -@]
      [] e[1] = "not" -> LET a == EvalE(P, e[2], env, w) IN [a EXCEPT !.val = Truth(@ = 0)]
      [] e[1] \in {"and", "or"} ->
            LET a == EvalE(P, e[2], env, w) IN
            IF (a.val # 0) = (e[1] = "or") THEN [a EXCEPT !.val = Truth(@ # 0)]
            ELSE LET b == EvalE(P, e[3], env, a.w) IN [b EXCEPT !.val = Truth(@ # 0)]
      [] e[1] \in BinaryOps ->
            LET a == EvalE(P, e[2], env, w)
                b == EvalE(P, e[3], env, a.w)
            IN [val |-> Arith(e[1], a.val, b.val), w |-> b.w]

EvalArgs(P, es, env, w) ==
    IF es = <<>> THEN [val |-> <<>>, w |-> w]
    ELSE With(EvalE(P, Head(es), env, w), LAMBDA a :
         With(EvalArgs(P, Tail(es), env, a.w), LAMBDA r :
         [val |-> <<a.val>> \o r.val, w |-> r.w]))

(* sig: how the statement ends; "next", "break", "continue" or "return".   *)
Next_(env, w) == [sig |-> "next", val |-> 0, env |-> env, w |-> w]
Exec(P, s, env, w) ==
    CASE s[1] = "block" ->
            IF s[2] = <<>> THEN Next_(env, w)
            ELSE LET r == Exec(P, Head(s[2]), env, w) IN
                 IF r.sig # "next" \/ r.w.fuel = 0 THEN r
                 ELSE Exec(P, <<"block", Tail(s[2])>>, r.env, r.w)
      [] s[1] = "decl0" -> Next_((s[2] :> Garbage) @@ env, w)
      [] s[1] \in {"decl", "const"} -> LET a == EvalE(P, s[3], env, w) IN Next_((s[2] :> a.val) @@ env, a.w)
      [] s[1] \in {"array", "constarray"} ->
            LET p == Fresh(w) IN
            With(EvalArgs(P, CellsOf(s[3], s[4]), env, Clear(w, p, Stride(s[3], 1), 0)), LAMBDA a :
            Next_((s[2] :> p) @@ env,
                  [a.w EXCEPT !.mem = [c \in {AddTo(p, d - 1) : d \in DOMAIN a.val}
                                         |-> a.val[c[2] + 1]] @@ @]))
      [] s[1] = "assign" ->
            With(EvalE(P, s[3], env, w), LAMBDA a :
            IF Local(env, s[2]) THEN Next_([env EXCEPT ![s[2]] = a.val], a.w)
            ELSE Next_(env, Write(a.w, <<<<"global", s[2]>>, 0>>, a.val)))
      [] s[1] = "store" ->
            LET a == EvalE(P, s[5], env, w) IN
            With(EvalArgs(P, s[3], env, a.w), LAMBDA is :
            LET p == EvalE(P, <<"var", s[2]>>, env, w).val IN
            Next_(env, Write(is.w, AddTo(p, Offset(is.val, s[4])), a.val)))
      [] s[1] = "eval" -> Next_(env, EvalE(P, s[2], env, w).w)
      [] s[1] = "if" -> With(EvalE(P, s[2], env, w), LAMBDA c :
                        IF c.val # 0 THEN Exec(P, s[3], env, c.w)
                        ELSE IF Len(s) = 4 THEN Exec(P, s[4], env, c.w) ELSE Next_(env, c.w))
      [] s[1] = "while" ->
            With(EvalE(P, s[2], env, w), LAMBDA c :
            IF c.val = 0 \/ c.w.fuel = 0 THEN Next_(env, c.w)
            ELSE With(Exec(P, s[3], env, Burn(c.w)), LAMBDA r :
                 CASE r.sig = "return" -> r
                   [] r.sig = "break" -> Next_(r.env, r.w)
                   [] OTHER -> Exec(P, s, r.env, r.w)))
      [] s[1] \in {"break", "continue"} -> [Next_(env, w) EXCEPT !.sig = s[1]]
      [] s[1] = "return" ->
            LET a == IF Len(s) = 2 THEN EvalE(P, s[2], env, w) ELSE [val |-> 0, w |-> w]
            IN [sig |-> "return", val |-> a.val, env |-> env, w |-> a.w]

FunOf(P, g) == CHOOSE n \in DOMAIN P.funs : P.funs[n].name = g
CallFun(P, g, args, w) ==
    IF g \in Builtins THEN External(g, args, w)
    ELSE IF w.fuel = 0 THEN [val |-> 0, w |-> w]
    ELSE LET f == P.funs[FunOf(P, g)]
             params == {f.params[n].name : n \in DOMAIN f.params}
             env == [x \in params |->
                        args[CHOOSE n \in DOMAIN f.params : f.params[n].name = x]] IN
         With(Exec(P, f.body, env, Burn(w)), LAMBDA r :
         [val |-> IF r.sig = "return" THEN r.val ELSE 0, w |-> r.w])

InitialCells(P, g) ==
    LET cells == CellsOf(P.globals[g].dims, P.globals[g].list)
    IN [vals |-> [n \in DOMAIN cells |-> EvalE(P, cells[n], <<>>, World(<<>>, <<>>)).val]]
Meaning(P, input) ==
    With([g \in DOMAIN P.globals |-> InitialCells(P, g)], LAMBDA globals :
    Outcome(CallFun(P, "main", <<>>, World(globals, input))))

-----------------------------------------------------------------------------
(* The intermediate representation.                                        *)

Value(v, args, env) ==
    CASE v[1] \in {"int", "bool"} -> v[2]
      [] v[1] = "arg" -> args[v[2]]
      [] v[1] = "ins" -> IF v[2] \in DOMAIN env THEN env[v[2]] ELSE Garbage
      [] v[1] = "glob" -> <<<<"global", v[2]>>, 0>>
      [] OTHER -> Garbage

Step(m, i, vs, w) ==
    CASE i.op \in BinaryOps -> [val |-> Arith(i.op, vs[1], vs[2]), w |-> w]
      [] i.op \in {"zext", "bitcast"} -> [val |-> vs[1], w |-> w]
      [] i.op = "alloca" ->
            [val |-> Fresh(w), w |-> Clear(w, Fresh(w), IF i.k > 0 THEN i.k ELSE 1, Garbage)]
      [] i.op = "load" -> [val |-> Read(w, vs[1]), w |-> w]
      [] i.op = "store" -> [val |-> 0, w |-> Write(w, vs[1], vs[2])]
      [] i.op = "gep" -> [val |-> AddTo(vs[1], Offset(Tail(vs), i.dims)), w |-> w]
      [] OTHER -> [val |-> Garbage, w |-> w]

(* An execution is [w, val, stack]: the calls in progress, the innermost   *)
(* first, each with its function, arguments, block, place and values, and  *)
(* what the last call to end returned.  The phis of a block are evaluated  *)
(* at once, from the values on the edge.                                   *)
Enter(m, x, g, args, from, b, env) ==
    LET f == m.fn[g] IN
    With(LeadingPhis(f, b), LAMBDA phis :
    LET In(id) == IF from \in DOMAIN f.ins[id].inc
                  THEN Value(f.ins[id].inc[from], args, env) ELSE Garbage IN
    With([g |-> g, args |-> args, b |-> b, n |-> Len(phis) + 1,
          env |-> [id \in SeqRange(phis) |-> In(id)] @@ env], LAMBDA frame :
    [x EXCEPT !.w = Burn(@), !.stack = <<frame>> \o @]))
Call(m, x, g, args) == Enter(m, x, g, args, 0, Entry(m.fn[g]), <<>>)
Resume(x, id, val, w) ==
    [x EXCEPT !.w = w, !.stack[1].n = @ + 1, !.stack[1].env = (id :> val) @@ @]
Leave(x) == [x EXCEPT !.stack = Tail(@)]
OneInstr(m, x) ==
    LET c == x.stack[1]
        f == m.fn[c.g]
        id == f.body[c.b][c.n]
        i == f.ins[id]
        vs == [k \in DOMAIN i.args |-> Value(i.args[k], c.args, c.env)]
        Goto(b) == Enter(m, Leave(x), c.g, c.args, c.b, b, c.env)
    IN CASE i.op = "ret" ->
                LET val == IF vs = <<>> THEN 0 ELSE vs[1]
                    y == Leave(x)
                IN IF y.stack = <<>> THEN [y EXCEPT !.val = val]
                   ELSE LET d == y.stack[1] IN Resume(y, m.fn[d.g].body[d.b][d.n], val, y.w)
         [] i.op = "jump" -> Goto(i.tgt[1])
         [] i.op = "br" -> Goto(i.tgt[IF vs[1] # 0 THEN 1 ELSE 2])
         [] i.op = "call" /\ i.fn \notin Builtins -> Call(m, x, i.fn, vs)
         [] OTHER -> With(IF i.op = "call" THEN External(i.fn, vs, x.w) ELSE Step(m, i, vs, x.w), LAMBDA r :
                     Resume(x, id, r.val, r.w))
Steps == 30 * Fuel
Result(m, input) ==
    LET start == Call(m, [w |-> World(m.glob, input), val |-> 0, stack |-> <<>>], "main", <<>>)
    IN Outcome(Repeat(LAMBDA x : OneInstr(m, x), LAMBDA x : x.stack = <<>> \/ x.w.fuel = 0, start, Steps))
=============================================================================
