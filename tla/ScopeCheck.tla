----------------------------- MODULE ScopeCheck -----------------------------
(***************************************************************************)
(* Names and scopes in the type checker: the TypeCheck methods of          *)
(* src/ast/type-check.cpp that use SymbolTable (src/ast/symbol-table.cpp). *)
(*                                                                         *)
(* TypeCheck is one recursive walk over the syntax tree.  The tree is not  *)
(* given beforehand: every step visits, enters or leaves a node the        *)
(* grammar allows where the walk stands, so a behaviour is the walk over   *)
(* some compilation unit.  `open' is the stack of TypeCheck calls.  An if  *)
(* opens no scope and is left out; because of it, a loop without braces    *)
(* may hold any number of statements.                                      *)
(***************************************************************************)
EXTENDS Naturals, Sequences, SequencesExt

CONSTANTS
    Names,        \* identifiers
    Builtins,     \* names of g_builtin_funcs
    MaxScopes,    \* bound on Len(scopes)
    MaxDepth,     \* bound on the nesting of statements
    MaxFuncs      \* bound on the functions of a unit

ASSUME ScopeAssumption ==
    /\ Builtins \subseteq Names
    /\ MaxScopes \in Nat /\ MaxDepth \in Nat /\ MaxFuncs \in Nat

VARIABLES
    tables, scopes, current_func,     \* the SymbolTable
    open,                             \* TypeCheck calls under way
    functions,                        \* the FuncDefASTs visited
    status

symbols == <<tables, scopes, current_func>>
vars == <<symbols, open, functions, status>>

ScopeType == {"GLOBAL", "FUNC", "LOOP", "BLOCK"}
Entry     == {"none", "decl", "func"}

\* A FuncDefAST: its name, and whether its return type is void.
FuncDef == [name : Names, void : BOOLEAN]

\* current_func is a position in `functions', or the last builtin, putf,
\* before any function of the unit is inserted.
Builtin == 0

CurrentIsVoid == current_func = Builtin \/ functions[current_func].void

-----------------------------------------------------------------------------
(***************************************************************************)
(* SymbolTable                                                             *)
(***************************************************************************)
Free(name) == Last(tables)[name] = "none"

Inserted(name, entry) ==
    [tables EXCEPT ![Len(tables)] = [@ EXCEPT ![name] = entry]]

\* Mutant: a loop is entered as a block.
PushScopeNoLoop(scope) ==
    /\ tables' = Append(tables, [n \in Names |-> "none"])
    /\ scopes' = Append(scopes, IF scope = "LOOP" THEN "BLOCK" ELSE scope)

InitializeScope(scope) ==
    /\ tables' = Append(tables, [n \in Names |-> "none"])
    /\ scopes' = Append(scopes, scope)

\* Mutant: the size test is off by one.
PopAboveTwo == IF Len(tables) <= 2 THEN tables ELSE Front(tables)

\* FinalizeScope takes the innermost table off and leaves scopes alone.
PoppedTables == IF Len(tables) <= 1 THEN tables ELSE Front(tables)

FinalizeScope ==
    /\ tables' = PoppedTables
    /\ UNCHANGED <<scopes, current_func>>

\* What the innermost table that knows the name holds.
Lookup(name) ==
    LET known == {d \in DOMAIN tables : tables[d][name] # "none"}
    IN  IF known = {} THEN "none" ELSE tables[Max(known)][name]

ExistScope(scope) == scope \in ToSet(scopes)

-----------------------------------------------------------------------------
(***************************************************************************)
(* Where the walk stands                                                   *)
(***************************************************************************)
Checking   == status = "checking"
TopLevel   == Checking /\ open = <<>>
Within(c)  == Checking /\ open # <<>> /\ Last(open) \in c
Statements == {"BLOCK", "LOOP"}

\* MyException: FuncDefAST catches it, takes one table off and throws on.
Reject ==
    /\ status' = "rejected"
    /\ tables' = IF open = <<>> THEN tables ELSE PoppedTables
    /\ UNCHANGED <<scopes, current_func, open, functions>>

\* A visit that only asks, and throws unless the answer is yes.
Ask(answer) == IF answer THEN UNCHANGED vars ELSE Reject

-----------------------------------------------------------------------------
\* DeclAST, global or in a block.
Declare(x) ==
    /\ TopLevel \/ Within({"BLOCK"})
    /\ IF Free(x)
       THEN /\ tables' = Inserted(x, "decl")
            /\ UNCHANGED <<scopes, current_func, open, functions, status>>
       ELSE Reject

\* Mutant: current_func is set only while there is none.
FirstFunc(f) == IF Free(f.name) /\ current_func = Builtin THEN Len(functions) + 1 ELSE current_func

\* The function whose return type a return statement is checked against.
NextFunc(f) == IF Free(f.name) THEN Len(functions) + 1 ELSE current_func

\* CompUnitAST inserts the name and ignores whether that succeeded; then
\* FuncDefAST opens the scope of the parameters.
EnterFunc(f) ==
    /\ TopLevel
    /\ Len(functions) < MaxFuncs
    /\ LET global == IF Free(f.name) THEN Inserted(f.name, "func") ELSE tables
       IN  /\ tables' = Append(global, [n \in Names |-> "none"])
           /\ scopes' = Append(scopes, "FUNC")
    /\ current_func' = NextFunc(f)
    /\ functions' = Append(functions, f)
    /\ open' = <<"PARAMS">>
    /\ UNCHANGED status

Param(x) ==
    /\ Within({"PARAMS"})
    /\ IF Free(x)
       THEN /\ tables' = Inserted(x, "decl")
            /\ UNCHANGED <<scopes, current_func, open, functions, status>>
       ELSE Reject

EnterBody ==
    /\ Within({"PARAMS"})
    /\ InitializeScope("BLOCK")
    /\ open' = <<"FUNC", "BLOCK">>
    /\ UNCHANGED <<current_func, functions, status>>

EnterBlock ==
    /\ Within(Statements)
    /\ Len(open) < MaxDepth /\ Len(scopes) < MaxScopes
    /\ InitializeScope("BLOCK")
    /\ open' = Append(open, "BLOCK")
    /\ UNCHANGED <<current_func, functions, status>>

EnterLoop ==
    /\ Within(Statements)
    /\ Len(open) < MaxDepth /\ Len(scopes) < MaxScopes
    /\ InitializeScope("LOOP")
    /\ open' = Append(open, "LOOP")
    /\ UNCHANGED <<current_func, functions, status>>

Leave ==
    /\ Within(Statements)
    /\ FinalizeScope
    /\ open' = Front(open)
    /\ UNCHANGED <<functions, status>>

\* The end of FuncDefAST.  GetFuncDef finds nothing when the name belongs to
\* a global variable, and then Insert fails as well.
LeaveFunc ==
    /\ Within({"FUNC"})
    /\ FinalizeScope
    /\ open' = <<>>
    /\ status' = IF tables[1][Last(functions).name] = "func" THEN status ELSE "rejected"
    /\ UNCHANGED functions

UseVar(x)   == Within(Statements) /\ Ask(Lookup(x) = "decl")
CallFunc(f) == Within(Statements) /\ Ask(Lookup(f) = "func")
Break       == Within(Statements) /\ Ask(ExistScope("LOOP"))
Continue    == Within(Statements) /\ Ask(ExistScope("LOOP"))

\* `valued' says whether the statement returns a value.
Return(valued) ==
    Within(Statements) /\ Ask(ExistScope("FUNC") /\ ~(CurrentIsVoid /\ valued))

\* The constructor with the builtin functions.
Init ==
    /\ tables = << [n \in Names |-> IF n \in Builtins THEN "func" ELSE "none"] >>
    /\ scopes = <<"GLOBAL">>
    /\ current_func = Builtin
    /\ open = <<>>
    /\ functions = <<>>
    /\ status = "checking"

Next ==
    \/ \E x \in Names : Declare(x) \/ Param(x) \/ UseVar(x)
    \/ \E f \in FuncDef : EnterFunc(f)
    \/ \E f \in Names : CallFunc(f)
    \/ EnterBody \/ EnterBlock \/ EnterLoop
    \/ Leave \/ LeaveFunc
    \/ \E valued \in BOOLEAN : Return(valued)
    \/ Break \/ Continue

Spec == Init /\ [][Next]_vars

-----------------------------------------------------------------------------
(***************************************************************************)
(* Properties                                                              *)
(***************************************************************************)
\* A break or continue inside a loop of its function is never refused.
LoopStatementAllowed == "LOOP" \in ToSet(open) => ExistScope("LOOP")

\* "break m_stmt appears in non-loop scope": outside every loop, existScope
\* refuses a break.
BreakRefusedOutsideLoop ==
    Checking /\ open # <<>> /\ "LOOP" \notin ToSet(open) => ~ExistScope("LOOP")

\* In a function whose name was free, a return statement with a value is
\* refused exactly if that function is void, whatever was declared, entered
\* and left before.
Redefined(k) ==
    LET name == functions[k].name
    IN  \/ name \in Builtins
        \/ tables[1][name] = "decl"
        \/ \E j \in 1..(k - 1) : functions[j].name = name

ReturnChecksItsFunction ==
    Checking /\ open # <<>> /\ ~Redefined(Len(functions)) =>
        CurrentIsVoid = Last(functions).void

\* There is one table per node that opened one: no local name outlives its
\* block, loop or function, and the global names always stay.
TablesFollowNesting ==
    Checking => Len(tables) = 1 + Len(open)
=============================================================================
