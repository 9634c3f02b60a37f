-------------------------- MODULE ScopeCheckProofs --------------------------
(***************************************************************************)
(* The three invariants of ScopeCheck, for every set of names and every    *)
(* bound.  They need what the walk itself guarantees: a function is       *)
(* visited at the top of the unit, and its parameters directly under it.   *)
(***************************************************************************)
EXTENDS ScopeCheck, SequenceTheorems, TLAPS

Table == [Names -> Entry]
Call  == {"PARAMS", "FUNC", "BLOCK", "LOOP"}

TypeInv ==
    /\ tables \in Seq(Table) /\ tables # <<>>
    /\ scopes \in Seq(ScopeType)
    /\ open \in Seq(Call)
    /\ functions \in Seq(FuncDef)
    /\ current_func \in 0..Len(functions)

\* Where a call may stand on the stack, and that there is a function then.
OpenInv ==
    \A i \in 1..Len(open) :
        /\ open[i] = "FUNC" => i = 1
        /\ open[i] = "PARAMS" => Len(open) = 1
        /\ functions # <<>>

\* A name the global table knows as a function belongs to one.
GlobalFunctions ==
    \A n \in Names :
        tables[1][n] = "func" =>
            n \in Builtins \/ \E j \in 1..Len(functions) : functions[j].name = n

\* current_func is the last function, unless its name was taken.
CurrentIsLast ==
    functions # <<>> /\ ~Redefined(Len(functions)) => current_func = Len(functions)

\* A loop under way has put its scope on the stack of scopes.
LoopInv ==
    (\E i \in 1..Len(open) : open[i] = "LOOP") =>
        \E j \in 1..Len(scopes) : scopes[j] = "LOOP"

IInv ==
    /\ TypeInv
    /\ LoopInv
    /\ OpenInv
    /\ TablesFollowNesting
    /\ GlobalFunctions
    /\ CurrentIsLast

-----------------------------------------------------------------------------
\* The operators of SequencesExt that the walk uses.
LEMMA Ends ==
    ASSUME NEW S, NEW s \in Seq(S), s # <<>>
    PROVE  /\ Last(s) = s[Len(s)] /\ Last(s) \in S /\ Len(s) \in Nat \ {0}
           /\ Front(s) \in Seq(S) /\ Len(Front(s)) = Len(s) - 1
           /\ \A i \in 1..(Len(s) - 1) : Front(s)[i] = s[i]
<1>1. Len(s) \in Nat \ {0}
  BY EmptySeq
<1>2. \A i \in 1..Len(s) : s[i] \in S
  BY ElementOfSeq
<1>3. /\ SubSeq(s, 1, Len(s) - 1) \in Seq(S)
      /\ Len(SubSeq(s, 1, Len(s) - 1)) = Len(s) - 1
      /\ \A i \in 1..(Len(s) - 1) : SubSeq(s, 1, Len(s) - 1)[i] = s[i]
  <2> DEFINE n == Len(s) - 1
  <2>1. n \in Nat /\ 1 \in Int /\ n \in Int
    BY <1>1
  <2>2. \A i \in 1..n : s[i] \in S
    BY <1>1, <1>2
  <2> HIDE DEF n
  <2>3. /\ SubSeq(s, 1, n) \in Seq(S)
        /\ Len(SubSeq(s, 1, n)) = IF 1 <= n THEN n - 1 + 1 ELSE 0
        /\ \A i \in 1..(n - 1 + 1) : SubSeq(s, 1, n)[i] = s[1 + i - 1]
    BY <2>1, <2>2, SubSeqProperties
  <2>4. Len(SubSeq(s, 1, n)) = n /\ \A i \in 1..n : SubSeq(s, 1, n)[i] = s[i]
    BY <2>1, <2>3
  <2> QED  BY <2>3, <2>4 DEF n
<1> QED  BY <1>1, <1>2, <1>3 DEF Last, Front

LEMMA OpenEnds ==
    ASSUME TypeInv, open # <<>>
    PROVE  /\ Len(open) \in Nat \ {0} /\ Last(open) = open[Len(open)]
           /\ Len(open) \in 1..Len(open)
<1>1. Len(open) \in Nat \ {0} /\ Last(open) = open[Len(open)]
  BY Ends DEF TypeInv
<1> QED  BY <1>1

LEMMA LastFunction ==
    ASSUME TypeInv, functions # <<>>
    PROVE  /\ Len(functions) \in Nat \ {0} /\ Last(functions) = functions[Len(functions)]
           /\ functions[Len(functions)].name \in Names
           /\ functions[Len(functions)].void \in BOOLEAN
<1>1. /\ Last(functions) \in FuncDef /\ Last(functions) = functions[Len(functions)]
      /\ Len(functions) \in Nat \ {0}
  BY Ends DEF TypeInv
<1> QED  BY <1>1 DEF FuncDef

\* FinalizeScope keeps the global table.
LEMMA Popped ==
    ASSUME TypeInv
    PROVE  /\ PoppedTables \in Seq(Table) /\ PoppedTables # <<>>
           /\ PoppedTables[1] = tables[1]
           /\ Len(tables) > 1 => Len(PoppedTables) = Len(tables) - 1
<1>1. CASE Len(tables) <= 1
  BY <1>1 DEF TypeInv, PoppedTables
<1>2. CASE Len(tables) > 1
  <2>1. /\ Front(tables) \in Seq(Table) /\ Len(Front(tables)) = Len(tables) - 1
        /\ Front(tables)[1] = tables[1]
    BY <1>2, Ends DEF TypeInv
  <2> QED  BY <1>2, <2>1 DEF TypeInv, PoppedTables
<1> QED  BY <1>1, <1>2 DEF TypeInv

\* Insert writes into the innermost table only.
LEMMA InsertedType ==
    ASSUME TypeInv, NEW x \in Names, NEW e \in Entry
    PROVE  /\ Inserted(x, e) \in Seq(Table) /\ Len(Inserted(x, e)) = Len(tables)
           /\ Inserted(x, e) # <<>>
           /\ Len(tables) > 1 => Inserted(x, e)[1] = tables[1]
           /\ Len(tables) = 1 =>
                 Inserted(x, e)[1] = [tables[1] EXCEPT ![x] = e]
BY DEF TypeInv, Inserted, Table

LEMMA InsertedGlobals ==
    ASSUME TypeInv, NEW x \in Names, NEW e \in Entry, Free(x)
    PROVE  \A n \in Names :
               \/ Inserted(x, e)[1][n] = tables[1][n]
               \/ tables[1][n] = "none" /\ Inserted(x, e)[1][n] = e
<1>1. Len(tables) \in Nat \ {0} /\ Last(tables) = tables[Len(tables)]
  BY Ends DEF TypeInv
<1>2. CASE Len(tables) > 1
  BY <1>2, InsertedType
<1>3. CASE Len(tables) = 1
  <2>1. tables[1][x] = "none" /\ tables[1] \in [Names -> Entry]
    BY <1>1, <1>3, ElementOfSeq DEF Free, TypeInv, Table
  <2>2. Inserted(x, e)[1] = [tables[1] EXCEPT ![x] = e]
    BY <1>3, InsertedType
  <2> QED  BY <2>1, <2>2
<1>4. \A n \in Nat \ {0} : n > 1 \/ n = 1
  OBVIOUS
<1> QED  BY <1>1, <1>2, <1>3, <1>4

\* A rejected unit keeps the global names.
LEMMA RejectIInv == ASSUME IInv, Reject PROVE IInv'
<1>1. /\ tables' \in Seq(Table) /\ tables' # <<>> /\ tables'[1] = tables[1]
  BY Popped DEF IInv, Reject, TypeInv
<1> QED
  BY <1>1 DEF IInv, Reject, TypeInv, LoopInv, OpenInv, TablesFollowNesting,
              GlobalFunctions, CurrentIsLast, Redefined, Checking

LEMMA AskIInv == ASSUME IInv, NEW a, Ask(a) PROVE IInv'
<1>1. CASE UNCHANGED vars
  BY <1>1 DEF IInv, vars, symbols, TypeInv, LoopInv, OpenInv, TablesFollowNesting,
              GlobalFunctions, CurrentIsLast, Redefined, Checking
<1> QED  BY <1>1, RejectIInv DEF Ask

LEMMA InitIInv == Init => IInv
BY ScopeAssumption
DEF ScopeAssumption, Init, IInv, TypeInv, LoopInv, OpenInv, TablesFollowNesting, GlobalFunctions,
    CurrentIsLast, Redefined, Checking, Table, Entry, ScopeType, Builtin

-----------------------------------------------------------------------------
\* A declaration that fits changes no entry, only adds one.
LEMMA InsertIInv ==
    ASSUME IInv, Checking, NEW x \in Names, Free(x), tables' = Inserted(x, "decl"),
           UNCHANGED <<scopes, current_func, open, functions, status>>
    PROVE  IInv'
<1>1. TypeInv' /\ Len(tables') = Len(tables)
  BY InsertedType DEF IInv, TypeInv, Entry
<1>2. \A n \in Names : tables[1][n] # "none" => tables'[1][n] = tables[1][n]
  BY InsertedGlobals DEF IInv, Entry
<1>3. \A n \in Names : tables'[1][n] = "func" => tables[1][n] = "func"
  BY InsertedGlobals DEF IInv, Entry
<1>4. GlobalFunctions'
  BY <1>3 DEF IInv, GlobalFunctions
<1>5. CurrentIsLast'
  <2> SUFFICES ASSUME functions # <<>>, ~Redefined(Len(functions))'
               PROVE  current_func = Len(functions)
    BY DEF CurrentIsLast
  <2>2. functions[Len(functions)].name \in Names
    BY LastFunction DEF IInv
  <2>3. ~Redefined(Len(functions))
    BY <2>2, <1>2 DEF Redefined
  <2> QED  BY <2>3 DEF IInv, CurrentIsLast
<1> QED
  BY <1>1, <1>4, <1>5 DEF IInv, LoopInv, OpenInv, TablesFollowNesting, Checking

\* A step that touches no global name and enters no function.
LEMMA GlobalsKept ==
    ASSUME IInv, tables'[1] = tables[1], UNCHANGED <<current_func, functions>>
    PROVE  GlobalFunctions' /\ CurrentIsLast'
BY DEF IInv, GlobalFunctions, CurrentIsLast, Redefined

\* InitializeScope adds a table and a scope.
LEMMA ScopeInitialized ==
    ASSUME IInv, NEW c \in ScopeType, InitializeScope(c)
    PROVE  /\ tables' \in Seq(Table) /\ tables' # <<>> /\ tables'[1] = tables[1]
           /\ Len(tables') = Len(tables) + 1
           /\ scopes' \in Seq(ScopeType) /\ Len(scopes') = Len(scopes) + 1
           /\ \A j \in 1..Len(scopes) : scopes'[j] = scopes[j]
           /\ scopes'[Len(scopes) + 1] = c
<1>1. [n \in Names |-> "none"] \in Table
  BY DEF Table, Entry
<1> QED  BY <1>1, AppendProperties, Ends DEF IInv, TypeInv, InitializeScope

LEMMA BodyIInv == ASSUME IInv, EnterBody PROVE IInv'
<1>1. /\ Len(open) = 1 /\ open[1] = "PARAMS" /\ Checking
  BY OpenEnds DEF IInv, OpenInv, EnterBody, Within
<1>2. /\ InitializeScope("BLOCK") /\ "BLOCK" \in ScopeType
  BY DEF EnterBody, ScopeType
<1>3. open' = <<"FUNC", "BLOCK">> /\ UNCHANGED <<current_func, functions, status>>
  BY DEF EnterBody
<1>4. TypeInv'
  BY <1>2, <1>3, ScopeInitialized DEF IInv, TypeInv, Call
<1>5. GlobalFunctions' /\ CurrentIsLast'
  BY <1>2, <1>3, ScopeInitialized, GlobalsKept
<1>6. LoopInv' /\ OpenInv'
  <2>1. functions' # <<>>
    BY <1>1, <1>3 DEF IInv, OpenInv
  <2>2. Len(open') = 2 /\ open'[1] = "FUNC" /\ open'[2] = "BLOCK"
    BY <1>3
  <2> QED  BY <2>1, <2>2 DEF LoopInv, OpenInv
<1>7. TablesFollowNesting'
  <2>1. Len(tables) = 2
    BY <1>1 DEF IInv, TablesFollowNesting
  <2>2. Len(tables') = 3
    BY <2>1, <1>2, ScopeInitialized
  <2>3. Len(open') = 2
    BY <1>3
  <2> QED  BY <2>2, <2>3 DEF TablesFollowNesting
<1> QED  BY <1>4, <1>5, <1>6, <1>7 DEF IInv

\* A block or a loop below a statement.
LEMMA StatementIInv ==
    ASSUME IInv, NEW c \in Statements, Within(Statements), InitializeScope(c),
           open' = Append(open, c), UNCHANGED <<current_func, functions, status>>
    PROVE  IInv'
<1>1. /\ Len(open) \in Nat \ {0} /\ open[Len(open)] \in Statements
  BY Ends DEF IInv, TypeInv, Within
<1>2. c \in ScopeType /\ c \in Call
  BY DEF Statements, ScopeType, Call
<1>3. /\ open' \in Seq(Call) /\ Len(open') = Len(open) + 1
      /\ \A i \in 1..Len(open) : open'[i] = open[i]
      /\ open'[Len(open) + 1] = c
  BY <1>2, AppendProperties DEF IInv, TypeInv
<1>4. TypeInv'
  BY <1>2, <1>3, ScopeInitialized DEF IInv, TypeInv
<1>5. GlobalFunctions' /\ CurrentIsLast'
  BY <1>2, ScopeInitialized, GlobalsKept
<1>6. LoopInv'
  <2> SUFFICES ASSUME NEW i \in 1..Len(open'), open'[i] = "LOOP"
               PROVE  \E j \in 1..Len(scopes') : scopes'[j] = "LOOP"
    BY DEF LoopInv
  <2>0. Len(scopes) \in Nat
    BY DEF IInv, TypeInv
  <2>1. CASE i = Len(open) + 1
    <3>1. scopes'[Len(scopes) + 1] = "LOOP"
      BY <2>1, <1>2, <1>3, ScopeInitialized
    <3>2. Len(scopes') = Len(scopes) + 1
      BY <1>2, ScopeInitialized
    <3> QED  BY <2>0, <3>1, <3>2
  <2>2. CASE i \in 1..Len(open)
    <3>1. PICK j \in 1..Len(scopes) : scopes[j] = "LOOP"
      BY <2>2, <1>3 DEF IInv, LoopInv
    <3>2. scopes'[j] = "LOOP" /\ Len(scopes') = Len(scopes) + 1
      BY <3>1, <1>2, ScopeInitialized
    <3> QED  BY <2>0, <3>2
  <2> QED  BY <2>1, <2>2, <1>1, <1>3
<1>7. OpenInv'
  BY <1>1, <1>3 DEF IInv, OpenInv, Statements
<1>8. TablesFollowNesting'
  BY <1>1, <1>2, <1>3, ScopeInitialized DEF IInv, TypeInv, TablesFollowNesting, Checking
<1> QED  BY <1>4, <1>5, <1>6, <1>7, <1>8 DEF IInv

LEMMA LeaveIInv == ASSUME IInv, Leave PROVE IInv'
<1>1. /\ Checking /\ open # <<>> /\ tables' = PoppedTables /\ open' = Front(open)
      /\ UNCHANGED <<scopes, current_func, functions, status>>
  BY DEF Leave, Within, FinalizeScope
<1>2. /\ Len(open) \in Nat \ {0} /\ open' \in Seq(Call) /\ Len(open') = Len(open) - 1
      /\ \A i \in 1..Len(open') : open'[i] = open[i]
      /\ open[Len(open)] \in Statements
  BY <1>1, Ends DEF IInv, TypeInv, Leave, Within
<1>3. Len(tables) = 1 + Len(open)
  BY <1>1 DEF IInv, TablesFollowNesting
<1>4. /\ tables' \in Seq(Table) /\ tables' # <<>> /\ tables'[1] = tables[1]
      /\ Len(tables') = Len(open)
  BY <1>1, <1>2, <1>3, Popped DEF IInv
<1>5. TypeInv'
  BY <1>1, <1>2, <1>4 DEF IInv, TypeInv
<1>6. GlobalFunctions' /\ CurrentIsLast'
  BY <1>1, <1>4, GlobalsKept
<1>7. LoopInv'
  BY <1>1, <1>2 DEF IInv, LoopInv
<1>8. OpenInv'
  BY <1>1, <1>2 DEF IInv, OpenInv, Statements
<1>9. TablesFollowNesting'
  BY <1>2, <1>4 DEF TablesFollowNesting
<1> QED  BY <1>5, <1>6, <1>7, <1>8, <1>9 DEF IInv

LEMMA LeaveFuncIInv == ASSUME IInv, LeaveFunc PROVE IInv'
<1>1. /\ Checking /\ open # <<>> /\ tables' = PoppedTables /\ open' = <<>>
      /\ UNCHANGED <<scopes, current_func, functions>>
  BY DEF LeaveFunc, Within, FinalizeScope
<1>2. Len(open) = 1
  BY <1>1, OpenEnds DEF IInv, OpenInv, LeaveFunc, Within
<1>3. /\ tables' \in Seq(Table) /\ tables' # <<>> /\ tables'[1] = tables[1]
      /\ Len(tables') = 1
  <2>1. Len(tables) = 2
    BY <1>1, <1>2 DEF IInv, TablesFollowNesting
  <2> QED  BY <1>1, <2>1, Popped DEF IInv
<1>4. TypeInv'
  BY <1>1, <1>3 DEF IInv, TypeInv, Call
<1>5. GlobalFunctions' /\ CurrentIsLast'
  BY <1>1, <1>3, GlobalsKept
<1>6. LoopInv' /\ OpenInv' /\ TablesFollowNesting'
  BY <1>1, <1>3 DEF LoopInv, OpenInv, TablesFollowNesting
<1> QED  BY <1>4, <1>5, <1>6 DEF IInv

-----------------------------------------------------------------------------
LEMMA SecondTable ==
    ASSUME NEW t \in Seq(Table), Len(t) = 1, NEW e \in Table
    PROVE  /\ Append(t, e) \in Seq(Table) /\ Append(t, e) # <<>>
           /\ Len(Append(t, e)) = 2 /\ Append(t, e)[1] = t[1]
<1>1. Len(Append(t, e)) = Len(t) + 1
  BY AppendProperties
<1>2. Append(t, e) # <<>>
  BY AppendProperties
<1>3. Append(t, e) \in Seq(Table) /\ Append(t, e)[1] = t[1]
  OBVIOUS
<1> QED  BY <1>1, <1>2, <1>3

\* CompUnitAST and FuncDefAST: the name goes into the global table if it is
\* free there, and only then does current_func move.
LEMMA FuncIInv == ASSUME IInv, NEW f \in FuncDef, EnterFunc(f) PROVE IInv'
<1> DEFINE global == IF Free(f.name) THEN Inserted(f.name, "func") ELSE tables
           empty  == [n \in Names |-> "none"]
           k      == Len(functions) + 1
<1>1. /\ Checking /\ open = <<>> /\ tables' = Append(global, empty)
      /\ scopes' = Append(scopes, "FUNC") /\ current_func' = NextFunc(f)
      /\ functions' = Append(functions, f) /\ open' = <<"PARAMS">>
      /\ UNCHANGED status
  BY DEF EnterFunc, TopLevel
<1>2. f.name \in Names /\ "func" \in Entry /\ empty \in Table
  BY DEF FuncDef, Entry, Table
<1>3. Len(tables) = 1 /\ Last(tables) = tables[1]
  <2>1. Len(tables) = 1
    BY <1>1 DEF IInv, TablesFollowNesting
  <2> QED  BY <2>1 DEF Last
<1>4. global \in Seq(Table) /\ Len(global) = 1
  BY <1>2, <1>3, InsertedType DEF IInv, TypeInv
<1>5. /\ tables' \in Seq(Table) /\ tables' # <<>> /\ Len(tables') = 2
      /\ tables'[1] = global[1]
  BY <1>1, <1>2, <1>4, SecondTable
<1>6. /\ functions' \in Seq(FuncDef) /\ Len(functions') = k /\ functions'[k] = f
      /\ \A j \in 1..Len(functions) : functions'[j] = functions[j]
      /\ k \in Nat
  BY <1>1, AppendProperties, LenProperties DEF IInv, TypeInv
<1>7. \A n \in Names :
         \/ tables'[1][n] = tables[1][n]
         \/ n = f.name /\ Free(f.name)
  <2> SUFFICES ASSUME NEW n \in Names, n # f.name \/ ~Free(f.name)
               PROVE  global[1][n] = tables[1][n]
    BY <1>5
  <2>1. CASE ~Free(f.name)
    BY <2>1
  <2>2. CASE Free(f.name) /\ n # f.name
    <3>1. global[1] = [tables[1] EXCEPT ![f.name] = "func"]
      BY <2>2, <1>2, <1>3, InsertedType DEF IInv
    <3>2. tables[1] \in [Names -> Entry]
      BY <1>3, ElementOfSeq DEF IInv, TypeInv, Table
    <3> QED  BY <2>2, <3>1, <3>2
  <2> QED  BY <2>1, <2>2
<1>8. current_func' = IF Free(f.name) THEN k ELSE current_func
  BY <1>1 DEF NextFunc
<1>9. TypeInv'
  <2>1. scopes' \in Seq(ScopeType)
    BY <1>1, AppendProperties DEF IInv, TypeInv, ScopeType
  <2>2. current_func' \in 0..Len(functions')
    BY <1>6, <1>8 DEF IInv, TypeInv
  <2>3. open' \in Seq(Call)
    BY <1>1 DEF Call
  <2> QED  BY <1>5, <1>6, <2>1, <2>2, <2>3 DEF TypeInv
<1>10. GlobalFunctions'
  <2> SUFFICES ASSUME NEW n \in Names, tables'[1][n] = "func", n \notin Builtins
               PROVE  \E j \in 1..k : functions'[j].name = n
    BY <1>6 DEF GlobalFunctions
  <2>1. CASE n = f.name
    BY <2>1, <1>6
  <2>2. CASE n # f.name
    BY <2>2, <1>6, <1>7 DEF IInv, GlobalFunctions
  <2> QED  BY <2>1, <2>2
<1>11. CurrentIsLast'
  <2> SUFFICES ASSUME ~Redefined(Len(functions))' PROVE Free(f.name)
    BY <1>6, <1>8 DEF CurrentIsLast
  <2>1. /\ f.name \notin Builtins /\ tables'[1][f.name] # "decl"
        /\ \A j \in 1..Len(functions) : functions[j].name # f.name
    BY <1>6 DEF Redefined
  <2> SUFFICES ASSUME ~Free(f.name) PROVE FALSE
    OBVIOUS
  <2>2. tables[1][f.name] # "func" /\ tables[1][f.name] # "decl"
    BY <2>1, <1>2, <1>7 DEF IInv, GlobalFunctions
  <2>3. tables[1][f.name] \in Entry
    BY <1>2, <1>3, ElementOfSeq DEF IInv, TypeInv, Table
  <2> QED  BY <2>2, <2>3, <1>3 DEF Free, Entry
<1>12. LoopInv' /\ OpenInv' /\ TablesFollowNesting'
  BY <1>1, <1>5 DEF LoopInv, OpenInv, TablesFollowNesting
<1> QED  BY <1>9, <1>10, <1>11, <1>12 DEF IInv

LEMMA NextIInv == IInv /\ [Next]_vars => IInv'
<1> SUFFICES ASSUME IInv, [Next]_vars PROVE IInv'
  OBVIOUS
<1>1. CASE \E x \in Names : Declare(x) \/ Param(x)
  <2>1. PICK x \in Names : Declare(x) \/ Param(x)
    BY <1>1
  <2>2. Checking
    BY <2>1 DEF Declare, Param, TopLevel, Within
  <2>3. CASE Free(x)
    BY <2>1, <2>2, <2>3, InsertIInv DEF Declare, Param
  <2>4. CASE ~Free(x)
    BY <2>1, <2>4, RejectIInv DEF Declare, Param
  <2> QED  BY <2>3, <2>4
<1>2. CASE \E x \in Names : UseVar(x) \/ CallFunc(x)
  BY <1>2, AskIInv DEF UseVar, CallFunc
<1>3. CASE \E valued \in BOOLEAN : Return(valued)
  BY <1>3, AskIInv DEF Return
<1>4. CASE Break \/ Continue
  BY <1>4, AskIInv DEF Break, Continue
<1>5. CASE \E f \in FuncDef : EnterFunc(f)
  BY <1>5, FuncIInv
<1>6. CASE EnterBody
  BY <1>6, BodyIInv
<1>7. CASE EnterBlock \/ EnterLoop
  BY <1>7, StatementIInv DEF EnterBlock, EnterLoop, Statements
<1>8. CASE Leave
  BY <1>8, LeaveIInv
<1>9. CASE LeaveFunc
  BY <1>9, LeaveFuncIInv
<1>10. CASE UNCHANGED vars
  <2>1. Ask(TRUE)
    BY <1>10 DEF Ask
  <2> QED  BY <2>1, AskIInv
<1> QED
  BY <1>1, <1>2, <1>3, <1>4, <1>5, <1>6, <1>7, <1>8, <1>9, <1>10 DEF Next

LEMMA Invariance == Spec => []IInv
BY InitIInv, NextIInv, PTL DEF Spec

-----------------------------------------------------------------------------
\* While a unit is checked there is one symbol table per node that opened
\* one: FinalizeScope (symbol-table.cpp) never takes off too many or too few,
\* so no local name outlives its block and the global names always stay.
THEOREM NestingFollowed == Spec => []TablesFollowNesting
<1>1. IInv => TablesFollowNesting
  BY DEF IInv
<1> QED  BY <1>1, Invariance, PTL

\* In a function whose name was free, CheckReturn of ReturnStmtAST asks about
\* that function's return type, however often current_func moved before.
THEOREM ReturnsChecked == Spec => []ReturnChecksItsFunction
<1>1. IInv => ReturnChecksItsFunction
  <2> SUFFICES ASSUME IInv, Checking, open # <<>>, ~Redefined(Len(functions))
               PROVE  CurrentIsVoid = Last(functions).void
    BY DEF ReturnChecksItsFunction
  <2>1. functions # <<>>
    BY OpenEnds DEF IInv, OpenInv
  <2>2. current_func = Len(functions) /\ Len(functions) # 0
    BY <2>1, LastFunction DEF IInv, CurrentIsLast
  <2>3. Last(functions) = functions[Len(functions)] /\ Last(functions).void \in BOOLEAN
    BY <2>1, LastFunction DEF IInv
  <2> QED  BY <2>2, <2>3 DEF CurrentIsVoid, Builtin
<1> QED  BY <1>1, Invariance, PTL

\* A break or continue inside a loop of its function always passes the
\* existScope test, whatever scopes were entered and left before.
THEOREM LoopsAllowed == Spec => []LoopStatementAllowed
<1>1. IInv => LoopStatementAllowed
  <2> SUFFICES ASSUME IInv, "LOOP" \in ToSet(open) PROVE "LOOP" \in ToSet(scopes)
    BY DEF LoopStatementAllowed, ExistScope
  <2>1. PICK i \in 1..Len(open) : open[i] = "LOOP"
    BY LenProperties DEF ToSet, IInv, TypeInv
  <2>2. PICK j \in 1..Len(scopes) : scopes[j] = "LOOP"
    BY <2>1 DEF IInv, LoopInv
  <2> QED  BY <2>2, LenProperties DEF ToSet, IInv, TypeInv
<1> QED  BY <1>1, Invariance, PTL
=============================================================================
