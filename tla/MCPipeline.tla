----------------------------- MODULE MCPipeline -----------------------------
EXTENDS Pipeline

V(x) == <<"var", x>>
N(n) == <<"num", n>>
B(s) == <<"block", s>>
Elem(a, i) == <<"elem", a, <<i>>, <<>>>>
Elem2(a, i, j) == <<"elem", a, <<i, j>>, <<2>>>>
CallE(f, as) == <<"call", f, as>>
GetInt == CallE("getint", <<>>)
PutInt(e) == <<"eval", CallE("putint", <<e>>)>>
Inc(x, n) == <<"assign", x, <<"add", V(x), N(n)>>>>
Fun(name, params, void, body) ==
    [name |-> name, params |-> params, void |-> void, body |-> B(body)]
Scalar(x) == [name |-> x, array |-> FALSE]
Array(x) == [name |-> x, array |-> TRUE]
MainOnly(body) == [globals |-> <<>>, funs |-> <<Fun("main", <<>>, FALSE, body)>>]
L(items) == <<"list", items>>
GlobalVar(n) == [dims |-> <<>>, list |-> <<N(n)>>, const |-> FALSE]
GlobalTable(dims, items) == [dims |-> dims, list |-> items, const |-> FALSE]
GlobalArray(ns) == GlobalTable(<<Len(ns)>>, [k \in DOMAIN ns |-> N(ns[k])])

(* A loop over i with one statement that leaves, skips or branches on the  *)
(* two variables, and a short circuit condition.                           *)
Conditions == {<<"or", <<"eq", V("x"), N(1)>>, <<"and", V("i"), <<"not", V("x")>>>>>>,
               <<"and", <<"sgt", V("x"), V("i")>>, <<"or", <<"eq", V("i"), N(1)>>, V("x")>>>>}
Exits == {<<"break">>, <<"continue">>, <<"return", V("i")>>}
BranchingLoop(c, exit) ==
    MainOnly(<<<<"decl", "x", GetInt>>, <<"decl", "i", N(0)>>,
               <<"while", <<"slt", V("i"), N(3)>>,
                 B(<<Inc("i", 1),
                     <<"if", c, B(<<PutInt(V("i")), exit>>), B(<<PutInt(N(9))>>)>>,
                     PutInt(V("x"))>>)>>,
               <<"return", <<"add", V("i"), V("x")>>>>>>)
BranchingLoops == {BranchingLoop(c, e) : c \in Conditions, e \in Exits}

(* A loop inside a loop, the inner one over the same or another variable.  *)
NestedLoop(start, exit) ==
    MainOnly(<<<<"decl", "n", GetInt>>, <<"decl", "i", N(1)>>, <<"decl0", "j">>,
               <<"decl", "s", V("n")>>,
               <<"while", <<"slt", V("i"), V("n")>>,
                 B(<<<<"assign", "j", start>>,
                     <<"while", <<"sle", V("j"), V("n")>>,
                       B(<<<<"if", <<"eq", V("s"), N(5)>>, B(<<Inc("s", 7), exit>>)>>,
                           <<"assign", "s", <<"add", V("s"), V("j")>>>>, Inc("j", 1)>>)>>,
                     Inc("i", 1), PutInt(V("s"))>>)>>,
               <<"return", V("s")>>>>)
NestedLoops == {NestedLoop(s, e) : s \in {V("i"), N(2)}, e \in {<<"break">>, <<"return", N(7)>>}}

ControlPrograms == BranchingLoops \cup NestedLoops

(* n rounds known when compiling, in steps of 1 or 2.                      *)
CountedLoop(n, step) ==
    MainOnly(<<<<"decl", "i", N(1)>>, <<"decl", "s", GetInt>>,
               <<"while", <<"slt", V("i"), N(n)>>,
                 B(<<PutInt(V("i")), <<"assign", "s", <<"add", V("s"), V("i")>>>>, Inc("i", step)>>)>>,
               PutInt(V("i")), <<"return", V("s")>>>>)
(* As many rounds as the input says.                                       *)
FlexibleLoop(cmp) ==
    MainOnly(<<<<"decl", "i", N(1)>>, <<"decl", "n", GetInt>>, <<"decl", "s", V("n")>>,
               <<"while", <<cmp, V("i"), <<"mul", V("n"), N(3)>>>>,
                 B(<<<<"assign", "s", <<"add", V("s"), V("i")>>>>, Inc("i", 1)>>)>>,
               PutInt(V("i")), <<"return", V("s")>>>>)
(* Two variables that change places in every round, and a third that is    *)
(* read after the loop has written it.                                     *)
SwapLoop ==
    MainOnly(<<<<"decl", "a", GetInt>>, <<"decl", "b", N(5)>>, <<"decl", "n", N(2)>>,
               <<"while", <<"slt", V("n"), N(6)>>,
                 B(<<<<"decl", "t", V("a")>>, <<"assign", "a", V("b")>>, <<"assign", "b", V("t")>>,
                     <<"if", <<"eq", V("a"), N(3)>>, B(<<<<"continue">>>>)>>,
                     Inc("n", 1)>>)>>,
               PutInt(V("a")), <<"return", V("b")>>>>)
(* A table of two rows, written and read in two loops, one inside another. *)
RowsOfTwo ==
    LET i == V("i")
        j == V("j")
    IN [globals |-> ("t" :> GlobalTable(<<2, 2>>, <<L(<<N(1), N(2)>>), N(3), N(4)>>)),
        funs |-> <<Fun("main", <<>>, FALSE,
            <<<<"decl", "x", GetInt>>, <<"array", "l", <<2, 2>>, <<N(5), V("x")>>>>,
              <<"decl", "i", N(0)>>, <<"decl0", "j">>,
              <<"while", <<"slt", i, N(2)>>,
                B(<<<<"assign", "j", N(0)>>,
                    <<"while", <<"slt", j, V("x")>>,
                      B(<<<<"if", <<"sgt", j, N(1)>>, B(<<<<"break">>>>)>>,
                          <<"store", "l", <<i, j>>, <<2>>, <<"add", Elem2("l", i, j), Elem2("t", j, i)>>>>,
                          <<"store", "t", <<j, i>>, <<2>>, i>>, Inc("j", 1)>>)>>,
                    Inc("i", 1)>>)>>,
              PutInt(Elem2("l", N(0), N(1))), PutInt(Elem2("t", N(1), N(1))),
              <<"return", Elem2("l", N(1), N(0))>>>>)>>]
(* Every form that multiplication, division and remainder are selected to. *)
Arithmetic ==
    LET x == V("x")
        Show(op, n) == PutInt(<<op, x, N(n)>>)
    IN MainOnly(<<<<"decl", "x", GetInt>>, <<"decl", "y", <<"sub", N(9), x>>>>,
                  Show("mul", 1), Show("mul", 8), Show("mul", 7), Show("sdiv", 1), Show("sdiv", 2),
                  Show("sdiv", 8), Show("sdiv", 3), Show("srem", 1), Show("srem", 2),
                  Show("srem", 8), Show("srem", 3), Show("add", 300),
                  PutInt(<<"add", <<"mul", x, V("y")>>, V("y")>>),
                  PutInt(<<"add", V("y"), <<"mul", x, N(4)>>>>),
                  PutInt(<<"srem", x, <<"add", V("y"), N(40)>>>>),
                  <<"return", <<"sdiv", N(100), <<"add", V("y"), N(40)>>>>>>>>)
LoopPrograms == {SwapLoop, RowsOfTwo, Arithmetic} \cup {CountedLoop(n, 1) : n \in {4, 8, 9, 12}} \cup {CountedLoop(8, 2)}
                    \cup {FlexibleLoop(c) : c \in {"slt", "sle"}}

(* A function that writes the array it is given and calls itself.          *)
ArrayRecursion ==
    [globals |-> ("g" :> GlobalVar(5)) @@ ("t" :> GlobalArray(<<1, 2, 3>>)),
     funs |-> <<Fun("f", <<Array("a"), Scalar("n")>>, FALSE,
                    <<<<"store", "a", <<N(1)>>, <<>>, V("n")>>,
                      <<"if", <<"sgt", V("n"), N(0)>>,
                        B(<<<<"return", <<"add", Elem("a", N(0)),
                              CallE("f", <<V("a"), <<"sub", V("n"), N(1)>>>>)>>>>>>)>>>>),
                Fun("main", <<>>, FALSE,
                    <<<<"array", "l", <<3>>, <<N(7), V("g")>>>>,
                      PutInt(CallE("f", <<V("l"), N(2)>>)), PutInt(Elem("l", N(1))),
                      PutInt(CallE("f", <<V("t"), N(1)>>)),
                      <<"assign", "g", Elem("t", N(1))>>, PutInt(V("g"))>>)>>]
TailCall(sum) ==
    [globals |-> ("g" :> GlobalVar(5)) @@ ("t" :> GlobalArray(<<1, 2, 3>>)),
     funs |-> <<Fun("sum", <<Scalar("n"), Scalar("a")>>, FALSE, sum),
                Fun("h", <<Scalar("q")>>, FALSE,
                    <<<<"if", V("q"), B(<<<<"return", Elem("t", N(1))>>>>),
                        B(<<<<"return", <<"add", V("g"), N(1)>>>>>>)>>>>),
                Fun("v", <<Scalar("q")>>, TRUE,
                    <<<<"store", "t", <<N(0)>>, <<>>, N(1)>>,
                      <<"if", <<"sgt", V("q"), V("g")>>,
                        B(<<<<"store", "t", <<N(1)>>, <<>>, N(6)>>>>), B(<<<<"return">>>>)>>,
                      <<"eval", CallE("v", <<<<"sub", V("q"), N(2)>>>>)>>, PutInt(V("q"))>>),
                Fun("main", <<>>, FALSE,
                    <<<<"decl", "x", GetInt>>, PutInt(CallE("sum", <<V("x"), V("x")>>)),
                      PutInt(CallE("h", <<V("x")>>)),
                      <<"eval", CallE("v", <<Elem("t", N(2))>>)>>, <<"eval", CallE("v", <<N(8)>>)>>,
                      PutInt(<<"add", CallE("h", <<N(0)>>), V("g")>>),
                      <<"assign", "x", Elem("t", N(0))>>,
                      PutInt(<<"add", V("x"), Elem("t", N(0))>>),
                      <<"return", CallE("sum", <<N(3), V("x")>>)>>>>)>>]
Sum == <<<<"if", <<"sgt", V("n"), N(0)>>,
           B(<<<<"return", CallE("sum", <<<<"sub", V("n"), N(1)>>, <<"add", V("a"), V("n")>>>>)>>>>),
           B(<<<<"return", V("a")>>>>)>>>>
SumElse == <<<<"if", <<"sgt", V("n"), N(0)>>,
           B(<<<<"return", CallE("sum", <<<<"sub", V("n"), N(1)>>, <<"add", V("a"), V("n")>>>>)>>>>)>>,
           <<"return", V("a")>>>>
CallPrograms == {ArrayRecursion, TailCall(Sum), TailCall(SumElse)}

(* Constants, constant conditions and initial values in braces of every    *)
(* shape: full rows, short rows, rows that are not in braces, none at all. *)
ConstantsAndBraces ==
    LET i == V("i")
        k(a, b) == <<"elem", "k", <<a, b>>, <<3>>>>
        l(a, b, c) == <<"elem", "l", <<N(a), N(b), c>>, <<2, 2>>>>
        Value_ == <<"sub", <<"mul", V("M"), N(2)>>, k(N(1), N(1))>>
    IN [globals |-> ("K" :> [dims |-> <<>>, list |-> <<<<"sub", N(5), N(2)>>>>, const |-> TRUE])
                 @@ ("k" :> [dims |-> <<2, 3>>, const |-> TRUE,
                             list |-> <<L(<<N(1)>>), L(<<N(4), <<"sdiv", N(-7), N(2)>>>>)>>])
                 @@ ("z" :> GlobalTable(<<2, 2>>, <<>>)) @@ ("y" :> GlobalTable(<<>>, <<>>)),
        funs |-> <<Fun("main", <<>>, FALSE,
            <<<<"decl", "x", GetInt>>,
              <<"const", "M", <<"add", <<"mul", V("K"), N(2)>>, <<"neg", N(-1)>>>>>>,
              <<"constarray", "c", <<3>>, <<V("M"), Value_>>>>,
              <<"array", "l", <<2, 2, 2>>,
                <<L(<<N(1), V("x"), L(<<k(N(1), N(0))>>)>>), N(5), Elem("c", N(1))>>>>,
              <<"array", "n", <<2>>, <<>>>>,
              <<"decl", "i", <<"srem", V("M"), V("K")>>>>,
              <<"while", <<"or", <<"sgt", V("M"), V("K")>>, V("x")>>,
                B(<<Inc("i", 1), <<"if", <<"sgt", i, V("K")>>, B(<<<<"break">>>>)>>>>)>>,
              PutInt(i), <<"assign", "i", N(0)>>,
              <<"while", <<"slt", i, V("K")>>,
                B(<<PutInt(<<"add", Elem("c", i), k(N(0), i)>>), Inc("i", 1)>>)>>,
              PutInt(l(0, 0, N(1))), PutInt(l(0, 1, N(0))), PutInt(l(0, 1, N(1))),
              PutInt(l(1, 0, N(0))), PutInt(l(1, 0, N(1))), PutInt(l(1, 1, N(1))),
              <<"store", "z", <<N(1), <<"sub", V("K"), N(2)>>>>, <<2>>, Elem("n", N(1))>>,
              <<"return", <<"add", <<"add", V("y"), Elem2("z", N(1), N(1))>>, Value_>>>>>>)>>]

AllPrograms == {ConstantsAndBraces} \cup ControlPrograms \cup LoopPrograms \cup CallPrograms
AllInputs == {<<-7>>, <<0>>, <<1>>, <<3, 1>>}

(* Steps of two that do not meet the bound of the rounds.                  *)
UnrolledByTwo ==
    {MainOnly(<<<<"decl", "i", N(0)>>,
                <<"while", <<"slt", V("i"), N(19)>>, B(<<PutInt(V("i")), Inc("i", 2)>>)>>,
                <<"return", V("i")>>>>)}
Identities ==
    {[globals |-> <<>>,
      funs |-> <<Fun("f", <<Scalar("a")>>, FALSE,
                    <<<<"decl", "x", <<"add", V("a"), N(0)>>>>,
                      <<"decl", "y", <<"mul", V("a"), N(2)>>>>,
                      <<"decl", "z", <<"add", V("a"), N(0)>>>>,
                      PutInt(V("x")), PutInt(V("y")), PutInt(V("z")),
                      <<"if", <<"sgt", V("a"), N(0)>>,
                        B(<<<<"return", <<"add", V("a"), CallE("f", <<<<"sub", V("a"), N(1)>>>>)>>>>>>)>>,
                      <<"return", V("z")>>>>),
                Fun("main", <<>>, FALSE, <<<<"return", CallE("f", <<GetInt>>)>>>>)>>]}
=============================================================================
