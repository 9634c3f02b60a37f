----------------------- MODULE RegAllocColouringProofs -----------------------
(***************************************************************************)
(* Colours and interference, for every program and register set: coalesced *)
(* operands never interfere (CoalescedApart), adjacent operands never      *)
(* share a register (ProperColouring), and the program that is left keeps  *)
(* every live value in a register of its own (AllocationSound).            *)
(*                                                                         *)
(* Simplify deletes nothing from adjSet and adjList, Combine enters edges  *)
(* only for neighbours that Adjacent still returns, and AssignColors       *)
(* resolves adjList with GetAlias when a node is popped.  What makes the   *)
(* three fit is the following.  As long as the loop runs, the nodes that   *)
(* stand for the ends of an edge are adjacent themselves, or one of them   *)
(* has been simplified (RootsAdjacent).  So the constraint test of         *)
(* Coalesce, which looks at the pair (u, v) alone, is enough.  A node sees *)
(* through its adjList every neighbour that will have its colour first     *)
(* (SeenBelow), although its adjList was not told of a merge of that       *)
(* neighbour.                                                              *)
(***************************************************************************)
EXTENDS RegAllocMoveProofs

-----------------------------------------------------------------------------
(***************************************************************************)
(* The inductive invariant                                                 *)
(***************************************************************************)
\* AddEdge enters both directions, and never a node against itself.
Symmetric == \A e \in adjSet : <<e[2], e[1]>> \in adjSet /\ e[1] # e[2]

\* The simplified nodes that Adjacent leaves out.
OnStack == ToSet(selectStack) \ Regs

RootsAdjacent ==
    pc # "color" =>
        \A e \in adjSet : \/ GetAlias[e[1]] \in OnStack
                          \/ GetAlias[e[2]] \in OnStack
                          \/ <<GetAlias[e[1]], GetAlias[e[2]]>> \in adjSet

\* AssignColors finds y among the neighbours of x.
Sees(x, y) == \E w \in AdjList(x, adjSet) : GetAlias[w] = y

\* Wherever x is on the stack, y is below it.
Below(x, y) ==
    \A i \in DOMAIN selectStack :
        selectStack[i] = x => \E j \in 1..(i - 1) : selectStack[j] = y

SeenBelow ==
    \A e \in adjSet : \/ GetAlias[e[1]] \in Regs
                      \/ Sees(GetAlias[e[1]], GetAlias[e[2]])
                      \/ /\ GetAlias[e[2]] \notin Regs
                         /\ Below(GetAlias[e[1]], GetAlias[e[2]])

\* A node whose colour is settled: popped, and not left without a colour.
HasColour(x) == x \in coloredNodes /\ x \notin OnStack /\ x \notin spilledNodes

RootsColoured ==
    pc = "color" =>
        \A e \in adjSet :
            /\ GetAlias[e[1]] \notin Regs /\ HasColour(GetAlias[e[1]])
            /\ GetAlias[e[2]] \in Regs \/ HasColour(GetAlias[e[2]])
            => Location(GetAlias[e[1]]) # Location(GetAlias[e[2]])

\* The graph has the edges of the program as it stands.
EdgesKnown ==
    pc \in {"mkworklist", "select", "color", "done"} => Interference(prog) \subseteq adjSet

ColouringInv ==
    /\ Symmetric
    /\ RootsAdjacent
    /\ SeenBelow
    /\ RootsColoured
    /\ EdgesKnown
    /\ CoalescedApart
    /\ ProperColouring

AllInv == Inv /\ ColouringInv

-----------------------------------------------------------------------------
(***************************************************************************)
(* The interference graph of a program                                     *)
(***************************************************************************)
\* What is live after an instruction occurs in the program.
LEMMA LiveAfterOccurs ==
    ASSUME NEW p \in Code, NEW b \in DOMAIN p, NEW k \in DOMAIN p[b].insts
    PROVE  LiveAfter(p[b].insts, LiveOut(p)[b])[k] \subseteq Occurring(p)
<1> DEFINE insts == p[b].insts
           n     == Len(insts)
           rest  == SubSeq(insts, k + 1, n)
<1>1. /\ insts \in Seq(Instruction)
      /\ \A j \in DOMAIN insts : Def(insts[j]) \cup Use(insts[j]) \subseteq Occurring(p)
      /\ LiveOut(p)[b] \subseteq Occurring(p)
  BY CodeType, LiveOutOccurs
<1> HIDE DEF insts
<1>2. n \in Nat /\ DOMAIN insts = 1..n /\ k \in 1..n
  BY <1>1, LenProperties DEF insts
<1>3. /\ DOMAIN rest \subseteq Nat
      /\ \A j \in DOMAIN rest : rest[j] \in {insts[i] : i \in DOMAIN insts}
  <2>1. k + 1 \in 1..(n + 1) /\ n \in k..n
    BY <1>2
  <2>2. /\ Len(rest) = n - k
        /\ rest = [j \in 1..(n - k) |-> insts[k + j]]
    BY <1>1, <1>2 DEF rest
  <2>3. \A j \in 1..(n - k) : k + j \in 1..n
    BY <1>2
  <2> QED  BY <1>2, <2>2, <2>3
<1> HIDE DEF rest
<1>4. UpwardUse(rest) \subseteq Occurring(p)
  <2>1. \A j \in DOMAIN rest : Use(rest[j]) \subseteq Occurring(p)
    BY <1>1, <1>3
  <2> QED  BY <2>1 DEF UpwardUse
<1>5. LiveAfter(insts, LiveOut(p)[b])[k]
        = UpwardUse(rest) \cup (LiveOut(p)[b] \ UNION {Def(insts[j]) : j \in (k + 1)..n})
  BY <1>2 DEF LiveAfter, rest
<1> QED  BY <1>1, <1>4, <1>5 DEF insts

\* Interference is symmetric and irreflexive, and between operands that occur.
LEMMA InterferenceFacts ==
    ASSUME NEW p \in Code, NEW e \in Interference(p)
    PROVE  /\ e[1] # e[2] /\ <<e[2], e[1]>> \in Interference(p)
           /\ e \in Node \X Node
           /\ e[1] \in Occurring(p) /\ e[2] \in Occurring(p)
<1> DEFINE out     == LiveOut(p)
           d(b, k) == Def(p[b].insts[k])
           l(b, k) == LiveAfter(p[b].insts, out[b])[k] \cup d(b, k)
           Edge(b, k, x) == x \in (d(b, k) \X l(b, k)) \cup (l(b, k) \X d(b, k))
<1>1. \A x : x \in Interference(p) <=>
               /\ x \in Class \X Class /\ x[1] # x[2]
               /\ \E b \in DOMAIN p : \E k \in DOMAIN p[b].insts : Edge(b, k, x)
  <2> HIDE DEF out
  <2>1. \A x : x \in Interference(p) <=>
               /\ x \in Class \X Class /\ x[1] # x[2]
               /\ \E b \in DOMAIN p : x \in BlockEdges(p[b].insts, out[b])
    BY DEF Interference, out
  <2>2. ASSUME NEW b \in DOMAIN p, NEW x
        PROVE  x \in BlockEdges(p[b].insts, out[b]) <=> \E k \in DOMAIN p[b].insts : Edge(b, k, x)
    BY DEF BlockEdges
  <2> QED  BY <2>1, <2>2
<1>2. PICK b \in DOMAIN p : \E k \in DOMAIN p[b].insts : Edge(b, k, e)
  BY <1>1
<1>3. PICK k \in DOMAIN p[b].insts : Edge(b, k, e)
  BY <1>2
<1>4. e \in Class \X Class /\ e[1] # e[2]
  BY <1>1
<1>5. d(b, k) \subseteq Occurring(p) /\ l(b, k) \subseteq Occurring(p)
  BY LiveAfterOccurs, CodeType
<1> HIDE DEF d, l
<1>6. Edge(b, k, <<e[2], e[1]>>) /\ e[1] \in Occurring(p) /\ e[2] \in Occurring(p)
  BY <1>3, <1>4, <1>5
<1>7. <<e[2], e[1]>> \in Class \X Class /\ e \in Node \X Node
  BY <1>4, RegAllocAssumption DEF RegAllocAssumption
<1> HIDE DEF Edge
<1>8. <<e[2], e[1]>> \in Interference(p)
  <2> DEFINE x == <<e[2], e[1]>>
  <2>1. x \in Class \X Class /\ x[1] # x[2] /\ Edge(b, k, x)
    BY <1>4, <1>6, <1>7
  <2> HIDE DEF x
  <2>2. x \in Interference(p)
    BY <1>1, <2>1
  <2> QED  BY <2>2 DEF x
<1> QED  BY <1>4, <1>6, <1>7, <1>8

-----------------------------------------------------------------------------
(***************************************************************************)
(* Steps that leave graph, aliases and stack alone                         *)
(***************************************************************************)
\* Nothing has a colour before AssignColors.
LEMMA NothingPlaced ==
    ASSUME Phases, pc \in {"build", "mkworklist", "select"}
    PROVE  coloredNodes = {} /\ Placed \subseteq Regs /\ \A x : ~HasColour(x)
BY DEF Phases, Placed, HasColour

LEMMA QuietColouring ==
    ASSUME AllInv, pc \in {"mkworklist", "select"}, pc' \in {"select", "color"},
           UNCHANGED <<aliases, adjSet, selectStack, colouring, prog>>
    PROVE  ColouringInv'
<1>1. /\ GetAlias' = GetAlias /\ adjSet' = adjSet /\ selectStack' = selectStack
      /\ coalescedNodes' = coalescedNodes /\ coloredNodes' = coloredNodes
      /\ spilledNodes' = spilledNodes /\ prog' = prog
  BY AliasesUnchanged DEF aliases, colouring
<1>2. coloredNodes = {}
  BY DEF AllInv, Inv, MovesInv, Phases
<1>3. Symmetric' /\ CoalescedApart' /\ EdgesKnown'
  BY <1>1 DEF AllInv, ColouringInv, Symmetric, CoalescedApart, EdgesKnown
<1>4. RootsAdjacent' /\ SeenBelow'
  BY <1>1 DEF AllInv, ColouringInv, RootsAdjacent, SeenBelow, OnStack, Sees, Below
<1>5. RootsColoured' /\ ProperColouring'
  BY <1>1, <1>2 DEF RootsColoured, HasColour, ProperColouring, Placed
<1> QED  BY <1>3, <1>4, <1>5 DEF ColouringInv

\* With nothing coalesced an edge is seen from either of its ends.
LEMMA DirectColouring ==
    ASSUME TypeOK', coalescedNodes' = {}, pc' # "color",
           Symmetric', EdgesKnown', ProperColouring'
    PROVE  ColouringInv'
<1>1. \A n \in Node : GetAlias'[n] = n
  BY AliasesAfterClear DEF TypeOK
<1>2. adjSet' \subseteq Node \X Node
  BY DEF TypeOK
<1>3. RootsAdjacent' /\ RootsColoured'
  BY <1>1, <1>2 DEF RootsAdjacent, RootsColoured
<1>4. SeenBelow'
  <2>1. ASSUME NEW e \in adjSet', e[1] \notin Regs
        PROVE  e[2] \in AdjList(e[1], adjSet') /\ GetAlias'[e[2]] = e[2]
    BY <1>1, <1>2, <2>1 DEF AdjList
  <2> QED  BY <1>1, <1>2, <2>1 DEF SeenBelow, Sees
<1>5. CoalescedApart'
  BY <1>1, <1>2 DEF CoalescedApart, Symmetric
<1> QED  BY <1>3, <1>4, <1>5 DEF ColouringInv

-----------------------------------------------------------------------------
(***************************************************************************)
(* The steps                                                               *)
(***************************************************************************)
LEMMA InitColouring == ASSUME Init PROVE ColouringInv
<1>1. pc = "build" /\ adjSet = {} /\ coalescedNodes = {}
  BY DEF Init
<1> QED  BY <1>1 DEF ColouringInv, Symmetric, RootsAdjacent, SeenBelow, RootsColoured,
                     EdgesKnown, CoalescedApart, ProperColouring

LEMMA BuildColouring ==
    ASSUME AllInv, TypeOK', Build
    PROVE  ColouringInv'
<1>1. /\ pc = "build" /\ pc' = "mkworklist"
      /\ adjSet' = adjSet \cup Interference(prog)
      /\ UNCHANGED <<aliases, rewriting>>
  BY DEF Build
<1>2. coalescedNodes' = {} /\ prog' = prog
  BY <1>1 DEF AllInv, Inv, MovesInv, Phases, aliases, rewriting
<1>3. Symmetric'
  <2>1. \A e \in Interference(prog) : <<e[2], e[1]>> \in Interference(prog) /\ e[1] # e[2]
    BY InterferenceFacts DEF AllInv, Inv, IInv
  <2> QED  BY <1>1, <2>1 DEF AllInv, ColouringInv, Symmetric
<1>4. EdgesKnown' /\ ProperColouring'
  BY <1>1, <1>2 DEF EdgesKnown, ProperColouring
<1> QED  BY <1>1, <1>2, <1>3, <1>4, DirectColouring

LEMMA MkWorklistColouring ==
    ASSUME AllInv, MkWorklist
    PROVE  ColouringInv'
<1>1. /\ pc = "mkworklist" /\ pc' = "select"
      /\ UNCHANGED <<aliases, adjSet, selectStack, colouring, prog>>
  BY DEF MkWorklist, graph, rewriting
<1> QED  BY <1>1, QuietColouring

LEMMA SelectColouring ==
    ASSUME AllInv,
           \/ \E m \in worklistMoves : CoalesceSame(m) \/ CoalesceConstrained(m) \/ CoalesceDefer(m)
           \/ \E u \in freezeWorklist : Freeze(u)
           \/ \E u \in spillWorklist : SelectSpill(u)
           \/ EndSelect
    PROVE  ColouringInv'
<1>1. /\ pc = "select" /\ pc' \in {"select", "color"}
      /\ UNCHANGED <<aliases, adjSet, selectStack, colouring, prog>>
  <2>1. ASSUME NEW m \in worklistMoves, CoalesceSame(m) \/ CoalesceConstrained(m) \/ CoalesceDefer(m)
        PROVE  pc = "select" /\ UNCHANGED <<pc, aliases, graph, selectStack, colouring, rewriting>>
    BY <2>1 DEF CoalesceSame, CoalesceConstrained, CoalesceDefer, CoalesceGuard
  <2>2. ASSUME NEW u, Freeze(u) \/ SelectSpill(u)
        PROVE  pc = "select" /\ UNCHANGED <<pc, aliases, graph, selectStack, colouring, rewriting>>
    BY <2>2 DEF Freeze, SelectSpill
  <2>3. CASE EndSelect
    BY <2>3 DEF EndSelect, graph, rewriting
  <2> QED  BY <2>1, <2>2, <2>3 DEF graph, rewriting
<1> QED  BY <1>1, QuietColouring

\* A simplified node saw its neighbours, or they were simplified before it.
LEMMA SimplifyColouring ==
    ASSUME AllInv, NEW n \in simplifyWorklist, Simplify(n)
    PROVE  ColouringInv'
<1>1. /\ pc = "select" /\ pc' = "select" /\ selectStack' = Append(selectStack, n)
      /\ UNCHANGED <<aliases, adjSet, colouring, rewriting>>
  BY DEF Simplify
<1>2. /\ GetAlias' = GetAlias /\ adjSet' = adjSet
      /\ coalescedNodes' = coalescedNodes /\ coloredNodes' = coloredNodes
      /\ spilledNodes' = spilledNodes /\ prog' = prog
  BY <1>1, AliasesUnchanged DEF aliases, colouring, rewriting
<1>3. coloredNodes = {} /\ n \in Node /\ selectStack \in Seq(Node)
  BY <1>1 DEF AllInv, Inv, IInv, TypeOK, MovesInv, Phases
<1>4. /\ DOMAIN selectStack = 1..Len(selectStack) /\ Len(selectStack) \in Nat
      /\ DOMAIN selectStack' = 1..(Len(selectStack) + 1)
      /\ \A i \in 1..Len(selectStack) : selectStack'[i] = selectStack[i]
      /\ selectStack'[Len(selectStack) + 1] = n
  BY <1>1, <1>3, LenProperties, AppendProperties
<1>5. Symmetric' /\ CoalescedApart' /\ EdgesKnown'
  BY <1>1, <1>2 DEF AllInv, ColouringInv, Symmetric, CoalescedApart, EdgesKnown
<1>6. RootsColoured' /\ ProperColouring'
  BY <1>1 DEF RootsColoured, ProperColouring
<1>7. OnStack \subseteq OnStack'
  BY <1>1, <1>3, ToSetAppend DEF OnStack
<1>8. RootsAdjacent'
  BY <1>1, <1>2, <1>7 DEF AllInv, ColouringInv, RootsAdjacent
<1>9. SeenBelow'
  <2>1. ASSUME NEW e \in adjSet,
               GetAlias[e[1]] \notin Regs,
               ~Sees(GetAlias[e[1]], GetAlias[e[2]])
        PROVE  GetAlias[e[2]] \notin Regs /\ Below(GetAlias[e[1]], GetAlias[e[2]])'
    <3> DEFINE x == GetAlias[e[1]]
               y == GetAlias[e[2]]
               len == Len(selectStack)
    <3>1. y \notin Regs /\ Below(x, y)
      BY <2>1 DEF AllInv, ColouringInv, SeenBelow
    <3>2. x \in Node /\ y \in Node /\ GetAlias[y] = y
      BY RootFacts DEF AllInv, Inv, IInv, TypeOK
    <3>3. <<x, y>> \notin adjSet
      BY <2>1, <3>2 DEF Sees, AdjList
    <3>4. x \in OnStack \/ y \in OnStack
      BY <1>1, <3>3 DEF AllInv, ColouringInv, RootsAdjacent
    <3>5. GetAlias'[e[1]] = x /\ GetAlias'[e[2]] = y
      BY <1>2
    <3> HIDE DEF x, y
    <3>6. \E j \in 1..len : selectStack[j] = y
      <4>1. CASE y \in OnStack
        BY <1>4, <4>1 DEF OnStack, ToSet
      <4>2. CASE x \in OnStack
        <5>1. PICK i \in 1..len : selectStack[i] = x
          BY <1>4, <4>2 DEF OnStack, ToSet
        <5>2. PICK j \in 1..(i - 1) : selectStack[j] = y
          BY <1>4, <3>1, <5>1 DEF Below
        <5>3. j \in 1..len
          BY <1>4
        <5> QED  BY <5>2, <5>3
      <4> QED  BY <3>4, <4>1, <4>2
    <3>7. ASSUME NEW i \in 1..(len + 1), selectStack'[i] = x
          PROVE  \E j \in 1..(i - 1) : selectStack'[j] = y
      <4>1. CASE i = len + 1
        <5>1. i - 1 = len
          BY <1>4, <4>1
        <5> QED  BY <1>4, <3>6, <5>1
      <4>2. CASE i # len + 1
        <5>1. i \in 1..len
          BY <1>4, <4>2
        <5>2. PICK j \in 1..(i - 1) : selectStack[j] = y
          BY <1>4, <3>1, <3>7, <5>1 DEF Below
        <5>3. j \in 1..len
          BY <1>4, <5>1
        <5> QED  BY <1>4, <5>2, <5>3
      <4> QED  BY <4>1, <4>2
    <3> QED  BY <1>4, <3>1, <3>5, <3>7 DEF Below, x, y
  <2>2. \A x, y : Sees(x, y)' <=> Sees(x, y)
    BY <1>2 DEF Sees
  <2> QED  BY <1>2, <2>1, <2>2 DEF SeenBelow
<1> QED  BY <1>5, <1>6, <1>8, <1>9 DEF ColouringInv

\* What Combine does to the graph, for the merged pair (u, v): every
\* remaining neighbour of v that is not yet one of u becomes one.
LEMMA CombineEdges ==
    ASSUME AllInv, NEW m \in worklistMoves, CoalesceCombine(m)
    PROVE  LET u == MoveEnds(m)[1]
               v == MoveEnds(m)[2]
           IN  \E gained \in SUBSET Node :
                 /\ adjSet' = adjSet \cup (gained \X {u}) \cup ({u} \X gained)
                 /\ \A t \in gained : /\ <<v, t>> \in adjSet /\ t # u /\ t # v
                                      /\ GetAlias[t] = t
                 /\ \A t \in Node : /\ <<v, t>> \in adjSet /\ GetAlias[t] = t
                                    /\ t \notin OnStack /\ t # u
                                    => t \in gained \/ <<t, u>> \in adjSet
<1> DEFINE u       == MoveEnds(m)[1]
           v       == MoveEnds(m)[2]
           removed == Removed(selectStack, coalescedNodes')
           adj     == Adjacent(v, adjSet, removed)
           gained  == {t \in adj : <<t, u>> \notin adjSet /\ t # u}
<1>1. adjSet' = adjSet \cup (gained \X {u}) \cup ({u} \X gained)
  BY DEF CoalesceCombine
<1>2. /\ u \in Node \ (coalescedNodes \cup Regs) /\ GetAlias[u] = u
      /\ v \in Node \ (coalescedNodes \cup Regs) /\ GetAlias[v] = v
      /\ u # v
      /\ coalescedNodes' = coalescedNodes \cup {v}
  BY CombineFacts DEF AllInv
<1> HIDE DEF u, v
<1>3. adj = {t \in Node : /\ <<v, t>> \in adjSet
                          /\ t \in Regs \/ t \notin ToSet(selectStack) \cup coalescedNodes'}
  BY <1>2 DEF Adjacent, AdjList, Removed
<1>4. \A t \in adj : t # v /\ GetAlias[t] = t
  BY <1>2, <1>3, RootFacts DEF AllInv, ColouringInv, Symmetric, Inv
<1>5. \A t \in Node : /\ <<v, t>> \in adjSet /\ GetAlias[t] = t
                      /\ t \notin OnStack /\ t # u
                      => t \in adj
  <2>1. ASSUME NEW t \in Node, <<v, t>> \in adjSet, GetAlias[t] = t, t \notin OnStack
        PROVE  t \in Regs \/ t \notin ToSet(selectStack) \cup coalescedNodes'
    <3>1. t # v
      BY <2>1 DEF AllInv, ColouringInv, Symmetric
    <3>2. t \notin coalescedNodes
      BY <2>1, RootFacts DEF AllInv, Inv
    <3> QED  BY <1>2, <2>1, <3>1, <3>2 DEF OnStack
  <2> QED  BY <1>3, <2>1
<1>6. gained \in SUBSET Node
  BY <1>3
<1>7. \A t \in gained : <<v, t>> \in adjSet /\ t # u /\ t # v /\ GetAlias[t] = t
  BY <1>3, <1>4
<1>8. \A t \in Node : /\ <<v, t>> \in adjSet /\ GetAlias[t] = t
                      /\ t \notin OnStack /\ t # u
                      => t \in gained \/ <<t, u>> \in adjSet
  BY <1>5
<1> HIDE DEF gained
<1> QED  BY <1>1, <1>6, <1>7, <1>8 DEF u, v

\* u takes over the neighbours v had left; those that are on the stack see
\* u through v.
LEMMA CombineColouring ==
    ASSUME AllInv, NEW m \in worklistMoves, CoalesceCombine(m)
    PROVE  ColouringInv'
<1> DEFINE u == MoveEnds(m)[1]
           v == MoveEnds(m)[2]
           x(e) == GetAlias[e[1]]
           y(e) == GetAlias[e[2]]
<1>1. /\ u \in Node \ (coalescedNodes \cup Regs) /\ GetAlias[u] = u
      /\ v \in Node \ (coalescedNodes \cup Regs) /\ GetAlias[v] = v
      /\ u # v /\ <<u, v>> \notin adjSet
      /\ u \notin ToSet(selectStack) /\ v \notin ToSet(selectStack)
      /\ coalescedNodes' = coalescedNodes \cup {v}
      /\ \A n \in Node : GetAlias'[n] = IF GetAlias[n] = v THEN u ELSE GetAlias[n]
  BY CombineFacts DEF AllInv
<1>2. PICK gained \in SUBSET Node :
        /\ adjSet' = adjSet \cup (gained \X {u}) \cup ({u} \X gained)
        /\ \A t \in gained : <<v, t>> \in adjSet /\ t # u /\ t # v /\ GetAlias[t] = t
        /\ \A t \in Node : /\ <<v, t>> \in adjSet /\ GetAlias[t] = t
                           /\ t \notin OnStack /\ t # u
                           => t \in gained \/ <<t, u>> \in adjSet
  BY CombineEdges
<1>3. pc = "select" /\ pc' = "select" /\ selectStack' = selectStack /\ prog' = prog
  BY DEF CoalesceCombine, CoalesceGuard, rewriting
<1> HIDE DEF u, v
<1>4. \A e \in adjSet : /\ e[1] \in Node /\ e[2] \in Node
                        /\ x(e) \in Node /\ GetAlias[x(e)] = x(e)
                        /\ y(e) \in Node /\ GetAlias[y(e)] = y(e)
                        /\ <<e[2], e[1]>> \in adjSet /\ e[1] # e[2]
                        /\ x(e) # y(e)
  <2>1. adjSet \subseteq Node \X Node
    BY DEF AllInv, Inv, IInv, TypeOK
  <2> QED  BY <2>1, RootFacts DEF AllInv, Inv, ColouringInv, Symmetric, CoalescedApart
<1>5. ASSUME NEW e \in adjSet
      PROVE  /\ GetAlias'[e[1]] = IF x(e) = v THEN u ELSE x(e)
             /\ GetAlias'[e[2]] = IF y(e) = v THEN u ELSE y(e)
             /\ x(e) \in OnStack \/ y(e) \in OnStack \/ <<x(e), y(e)>> \in adjSet
             /\ x(e) \in Regs \/ Sees(x(e), y(e)) \/ (y(e) \notin Regs /\ Below(x(e), y(e)))
  BY <1>1, <1>3, <1>4 DEF AllInv, ColouringInv, RootsAdjacent, SeenBelow
<1> HIDE DEF x, y
<1>6. u \notin OnStack /\ v \notin OnStack /\ OnStack' = OnStack /\ OnStack \cap Regs = {}
  BY <1>1, <1>3 DEF OnStack
<1>7. \A t \in gained : /\ t # u /\ GetAlias'[t] = t
                        /\ <<t, u>> \in adjSet' /\ <<u, t>> \in adjSet'
  BY <1>1, <1>2
<1>8. GetAlias'[u] = u
  BY <1>1
<1>9. ASSUME NEW e \in adjSet', e \notin adjSet
      PROVE  \E t \in gained : (e[1] = t /\ e[2] = u) \/ (e[1] = u /\ e[2] = t)
  BY <1>2, <1>9
<1>10. Symmetric'
  <2>1. ASSUME NEW e \in adjSet' PROVE <<e[2], e[1]>> \in adjSet' /\ e[1] # e[2]
    <3>1. CASE e \in adjSet
      BY <1>2, <1>4, <3>1
    <3>2. CASE e \notin adjSet
      BY <1>7, <1>9, <3>2
    <3> QED  BY <3>1, <3>2
  <2> QED  BY <2>1 DEF Symmetric
<1>11. ASSUME NEW e \in adjSet
       PROVE  ~(x(e) = u /\ y(e) = v) /\ ~(x(e) = v /\ y(e) = u)
  <2>1. <<v, u>> \notin adjSet
    BY <1>1 DEF AllInv, ColouringInv, Symmetric
  <2> QED  BY <1>1, <1>5, <1>6, <2>1
<1>12. CoalescedApart'
  <2>1. ASSUME NEW e \in adjSet' PROVE GetAlias'[e[1]] # GetAlias'[e[2]]
    <3>1. CASE e \in adjSet
      <4>1. /\ GetAlias'[e[1]] = IF x(e) = v THEN u ELSE x(e)
            /\ GetAlias'[e[2]] = IF y(e) = v THEN u ELSE y(e)
        BY <1>5, <3>1
      <4>2. x(e) # y(e) /\ ~(x(e) = u /\ y(e) = v) /\ ~(x(e) = v /\ y(e) = u)
        BY <1>4, <1>11, <3>1
      <4> QED  BY <4>1, <4>2
    <3>2. CASE e \notin adjSet
      BY <1>7, <1>8, <1>9, <3>2
    <3> QED  BY <3>1, <3>2
  <2>2. coalescedNodes' \cap Regs = {}
    BY <1>1 DEF AllInv, ColouringInv, CoalescedApart
  <2> QED  BY <2>1, <2>2 DEF CoalescedApart
\* A neighbour of v that Adjacent returns is one of u from now on.
<1>13. ASSUME NEW t \in Node, <<v, t>> \in adjSet, GetAlias[t] = t, t \notin OnStack, t # u
       PROVE  <<u, t>> \in adjSet' /\ <<t, u>> \in adjSet'
  <2>1. t \in gained \/ <<t, u>> \in adjSet
    BY <1>2, <1>13
  <2>2. CASE t \in gained
    BY <1>2, <2>2
  <2>3. CASE <<t, u>> \in adjSet
    BY <1>2, <2>3 DEF AllInv, ColouringInv, Symmetric
  <2> QED  BY <2>1, <2>2, <2>3
<1>14. ASSUME NEW e \in adjSet
       PROVE  \/ GetAlias'[e[1]] \in OnStack
              \/ GetAlias'[e[2]] \in OnStack
              \/ <<GetAlias'[e[1]], GetAlias'[e[2]]>> \in adjSet'
  <2>1. CASE x(e) = v
    <3>1. y(e) # v /\ y(e) # u /\ (y(e) \in OnStack \/ <<v, y(e)>> \in adjSet)
      BY <1>4, <1>5, <1>6, <1>11, <2>1
    <3> QED  BY <1>4, <1>5, <1>13, <2>1, <3>1
  <2>2. CASE y(e) = v
    <3>1. x(e) # v /\ x(e) # u /\ (x(e) \in OnStack \/ <<x(e), v>> \in adjSet)
      BY <1>4, <1>5, <1>6, <1>11, <2>2
    <3>2. x(e) \in OnStack \/ <<v, x(e)>> \in adjSet
      BY <3>1 DEF AllInv, ColouringInv, Symmetric
    <3> QED  BY <1>4, <1>5, <1>13, <2>2, <3>1, <3>2
  <2>3. CASE x(e) # v /\ y(e) # v
    BY <1>2, <1>5, <2>3
  <2> QED  BY <2>1, <2>2, <2>3
<1>15. RootsAdjacent'
  <2>1. ASSUME NEW e \in adjSet'
        PROVE  \/ GetAlias'[e[1]] \in OnStack
               \/ GetAlias'[e[2]] \in OnStack
               \/ <<GetAlias'[e[1]], GetAlias'[e[2]]>> \in adjSet'
    <3>1. CASE e \notin adjSet
      BY <1>7, <1>8, <1>9, <3>1
    <3> QED  BY <1>14, <3>1
  <2> QED  BY <1>6, <2>1 DEF RootsAdjacent
<1>16. ASSUME NEW a \in Node \ Regs, NEW b \in Node, <<a, b>> \in adjSet', GetAlias'[b] = b
       PROVE  Sees(a, b)'
  BY <1>16 DEF Sees, AdjList
<1>17. ASSUME NEW a \in Node \ Regs, NEW b, Sees(a, b),
              NEW c, c = IF b = v THEN u ELSE b
       PROVE  Sees(a, c)'
  <2>1. PICK w \in AdjList(a, adjSet) : GetAlias[w] = b
    BY <1>17 DEF Sees
  <2>2. w \in AdjList(a, adjSet') /\ GetAlias'[w] = c
    BY <1>1, <1>2, <1>17, <2>1 DEF AdjList
  <2> QED  BY <2>2 DEF Sees
<1>18. ASSUME NEW e \in adjSet,
              NEW a, a = GetAlias'[e[1]], a \notin Regs,
              NEW b, b = GetAlias'[e[2]], ~Sees(a, b)'
       PROVE  b \notin Regs /\ Below(a, b)
  <2>1. CASE x(e) = v
    <3>1. a = u /\ y(e) # v /\ b = y(e) /\ b \in Node
      BY <1>4, <1>5, <1>18, <2>1
    <3>2. b \notin Regs
      <4>1. SUFFICES ASSUME b \in Regs PROVE FALSE
        OBVIOUS
      <4>2. b \notin OnStack /\ u \notin OnStack
        BY <1>6, <4>1
      <4>3. <<a, b>> \in adjSet'
        BY <1>14, <1>18, <3>1, <4>2
      <4>4. GetAlias'[b] = b
        BY <1>1, <1>4, <3>1
      <4> QED  BY <1>1, <1>16, <1>18, <3>1, <4>3, <4>4
    <3> QED  BY <1>1, <3>1, <3>2 DEF Below, ToSet
  <2>2. CASE x(e) # v
    <3>1. a = x(e) /\ a \in Node \ Regs /\ b = IF y(e) = v THEN u ELSE y(e)
      BY <1>4, <1>5, <1>18, <2>2
    <3>2. ~Sees(a, y(e))
      BY <1>17, <1>18, <3>1
    <3>3. y(e) \notin Regs /\ Below(a, y(e))
      BY <1>5, <1>18, <3>1, <3>2
    <3>4. y(e) = v => \A i \in DOMAIN selectStack : selectStack[i] # a
      <4>1. SUFFICES ASSUME y(e) = v, NEW i \in DOMAIN selectStack, selectStack[i] = a
                     PROVE  FALSE
        OBVIOUS
      <4>2. PICK j \in 1..(i - 1) : selectStack[j] = v
        BY <3>3, <4>1 DEF Below
      <4>3. j \in DOMAIN selectStack
        <5>1. DOMAIN selectStack = 1..Len(selectStack) /\ Len(selectStack) \in Nat
          BY LenProperties DEF AllInv, Inv, IInv, TypeOK
        <5> QED  BY <4>1, <5>1
      <4> QED  BY <1>1, <4>2, <4>3 DEF ToSet
    <3> QED  BY <1>1, <3>1, <3>3, <3>4 DEF Below
  <2> QED  BY <2>1, <2>2
<1>19. SeenBelow'
  <2>1. ASSUME NEW e \in adjSet',
               NEW a, a = GetAlias'[e[1]], a \notin Regs,
               NEW b, b = GetAlias'[e[2]], ~Sees(a, b)'
        PROVE  b \notin Regs /\ Below(a, b)'
    <3>1. e \in adjSet
      <4>1. SUFFICES ASSUME e \notin adjSet PROVE FALSE
        OBVIOUS
      <4>2. a \in Node /\ b \in Node /\ <<a, b>> \in adjSet' /\ GetAlias'[b] = b
        <5>1. PICK t \in gained : (e[1] = t /\ e[2] = u) \/ (e[1] = u /\ e[2] = t)
          BY <1>9, <4>1
        <5>2. (a = t /\ b = u) \/ (a = u /\ b = t)
          BY <1>7, <1>8, <2>1, <5>1
        <5> QED  BY <1>1, <1>7, <1>8, <5>2
      <4> QED  BY <1>16, <2>1, <4>2
    <3>2. b \notin Regs /\ Below(a, b)
      BY <1>18, <2>1, <3>1
    <3> QED  BY <1>3, <3>2 DEF Below
  <2> QED  BY <2>1 DEF SeenBelow
<1>20. RootsColoured' /\ ProperColouring'
  BY <1>3 DEF RootsColoured, ProperColouring
<1>21. EdgesKnown'
  BY <1>2, <1>3 DEF AllInv, ColouringInv, EdgesKnown
<1> QED  BY <1>10, <1>12, <1>15, <1>19, <1>20, <1>21 DEF ColouringInv

\* AssignColors gives the popped node a colour that none of its neighbours
\* has, as far as they have theirs.
LEMMA AssignColorColouring ==
    ASSUME AllInv, AssignColor
    PROVE  ColouringInv'
<1> PICK n : n = Last(selectStack)
  OBVIOUS
<1> PICK ok : ok = OkColors(n)
  OBVIOUS
<1> DEFINE after(k) == IF k \in Regs THEN k ELSE color'[k]
<1>1. /\ pc = "color" /\ pc' = "color" /\ selectStack # <<>>
      /\ selectStack' = Front(selectStack)
      /\ UNCHANGED <<aliases, graph, rewriting>>
  BY DEF AssignColor
<1>2. \/ /\ ok = {} /\ spilledNodes' = spilledNodes \cup {n}
         /\ coloredNodes' = coloredNodes /\ color' = color
      \/ /\ ok # {} /\ spilledNodes' = spilledNodes
         /\ coloredNodes' = coloredNodes \cup {n}
         /\ color' = [color EXCEPT ![n] = Min(ok)]
  BY DEF AssignColor
<1>3. /\ GetAlias' = GetAlias /\ adjSet' = adjSet
      /\ coalescedNodes' = coalescedNodes /\ prog' = prog
  BY <1>1, AliasesUnchanged DEF aliases, graph, rewriting
<1>4. /\ ToSet(selectStack) = ToSet(selectStack') \cup {n} /\ n \in Node
      /\ Len(selectStack) \in Nat \ {0} /\ DOMAIN selectStack = 1..Len(selectStack)
      /\ DOMAIN selectStack' = 1..(Len(selectStack) - 1)
      /\ \A i \in 1..(Len(selectStack) - 1) : selectStack'[i] = selectStack[i]
      /\ selectStack[Len(selectStack)] = n
  BY <1>1, ToSetFront DEF AllInv, Inv, IInv, TypeOK, Last
<1>5. ok # {} => Min(ok) \in ok
  <2>1. ok \subseteq Node
    BY RegAllocAssumption DEF RegAllocAssumption, OkColors
  <2> QED  BY <2>1, MinOfNodes
\* A colour on offer is on no neighbour.
<1>6. ASSUME NEW w, Sees(n, w), ok # {}
      PROVE  /\ w \in Regs => Min(ok) # w
             /\ w \notin Regs /\ w \in coloredNodes => Min(ok) # color[w]
  <2>1. w \in {GetAlias[k] : k \in AdjList(n, adjSet)}
    BY <1>6 DEF Sees
  <2>2. ok = Colors \ (  ({GetAlias[k] : k \in AdjList(n, adjSet)} \cap Regs)
                       \cup {color[a] : a \in ({GetAlias[k] : k \in AdjList(n, adjSet)} \ Regs)
                                                \cap coloredNodes})
    BY DEF OkColors
  <2>3. Min(ok) \in ok
    BY <1>5, <1>6
  <2> DEFINE roots == {GetAlias[k] : k \in AdjList(n, adjSet)}
  <2> HIDE DEF roots
  <2>4. w \in roots /\ Min(ok) \notin roots \cap Regs
        /\ Min(ok) \notin {color[a] : a \in (roots \ Regs) \cap coloredNodes}
    BY <2>1, <2>2, <2>3 DEF roots
  <2> QED  BY <2>4
<1>7. color \in [Node -> Colors] /\ adjSet \subseteq Node \X Node
  BY DEF AllInv, Inv, IInv, TypeOK
<1>8. \A k \in Node : k # n => after(k) = Location(k)
  BY <1>2, <1>7 DEF Location
<1>9. n \in Regs => after(n) = Location(n)
  BY DEF Location
<1>10. ok # {} /\ n \notin Regs => after(n) = Min(ok)
  BY <1>2, <1>4, <1>7
\* The node popped differs from what it sees.
<1>11. ASSUME NEW w \in Node, w # n, n \notin Regs, ok # {}, Sees(n, w),
              w \in coloredNodes \cup Regs
       PROVE  after(n) # after(w)
  <2>1. after(n) = Min(ok) /\ after(w) = Location(w)
    BY <1>8, <1>10, <1>11
  <2> HIDE DEF after
  <2> QED  BY <1>6, <1>11, <2>1 DEF Location
<1> HIDE DEF after
<1>12. Symmetric' /\ CoalescedApart' /\ EdgesKnown' /\ RootsAdjacent'
  BY <1>1, <1>3 DEF AllInv, ColouringInv, Symmetric, CoalescedApart, EdgesKnown, RootsAdjacent
<1>13. SeenBelow'
  <2>1. \A x, y : Sees(x, y)' <=> Sees(x, y)
    BY <1>3 DEF Sees
  <2>2. ASSUME NEW x, NEW y, Below(x, y)
        PROVE  Below(x, y)'
    <3>1. ASSUME NEW i \in 1..(Len(selectStack) - 1), selectStack'[i] = x
          PROVE  \E j \in 1..(i - 1) : selectStack'[j] = y
      <4>1. i \in 1..Len(selectStack) /\ selectStack[i] = x
        BY <1>4, <3>1
      <4>2. PICK j \in 1..(i - 1) : selectStack[j] = y
        BY <1>4, <2>2, <4>1 DEF Below
      <4>3. j \in 1..(Len(selectStack) - 1)
        BY <1>4
      <4> QED  BY <1>4, <4>2, <4>3
    <3> QED  BY <1>4, <3>1 DEF Below
  <2> QED  BY <1>3, <2>1, <2>2 DEF AllInv, ColouringInv, SeenBelow
<1>14. OnStack = OnStack' \cup ({n} \ Regs)
  BY <1>4 DEF OnStack
\* What the popped node does not see has still to be popped.
<1>15. ASSUME NEW e \in adjSet, GetAlias[e[1]] = n, n \notin Regs,
              GetAlias[e[2]] \notin OnStack'
       PROVE  Sees(n, GetAlias[e[2]])
  <2>1. SUFFICES ASSUME ~Sees(n, GetAlias[e[2]]) PROVE FALSE
    OBVIOUS
  <2>2. GetAlias[e[2]] \notin Regs /\ Below(n, GetAlias[e[2]])
    BY <1>15, <2>1 DEF AllInv, ColouringInv, SeenBelow
  <2>3. PICK j \in 1..(Len(selectStack) - 1) : selectStack[j] = GetAlias[e[2]]
    BY <1>4, <2>2 DEF Below
  <2>4. GetAlias[e[2]] \in ToSet(selectStack')
    BY <1>4, <2>3 DEF ToSet
  <2> QED  BY <1>15, <2>2, <2>4 DEF OnStack
<1>16. ASSUME NEW e \in adjSet,
               NEW x, x = GetAlias[e[1]], x \notin Regs, HasColour(x)',
               NEW y, y = GetAlias[e[2]], y \in Regs \/ HasColour(y)'
       PROVE  after(x) # after(y)
  <2>1. x # y /\ <<e[2], e[1]>> \in adjSet
    BY <1>16 DEF AllInv, ColouringInv, CoalescedApart, Symmetric
  <2>2. x \in coloredNodes' /\ x \notin spilledNodes' /\ x \notin OnStack'
    BY <1>16 DEF HasColour
  <2>3. y \notin OnStack' /\ (y \notin Regs => y \in coloredNodes' /\ y \notin spilledNodes')
    BY <1>16 DEF HasColour, OnStack
  <2>4. x \in Node /\ y \in Node
    BY <1>7, <1>16, RootFacts DEF AllInv, Inv
  <2>5. CASE x = n
    <3>1. ok # {}
      BY <1>2, <2>2, <2>5
    <3>2. y \in coloredNodes \cup Regs
      BY <1>2, <2>1, <2>3, <2>5
    <3>3. Sees(n, y)
      BY <1>15, <1>16, <2>3, <2>5
    <3> QED  BY <1>11, <1>16, <2>1, <2>4, <2>5, <3>1, <3>2, <3>3
  <2>6. CASE y = n /\ n \notin Regs
    <3>1. ok # {}
      BY <1>2, <2>3, <2>6
    <3>2. x \in coloredNodes
      BY <1>2, <2>1, <2>2, <2>6
    <3>3. Sees(n, x)
      <4> DEFINE r == <<e[2], e[1]>>
      <4>1. r \in adjSet /\ GetAlias[r[1]] = n /\ GetAlias[r[2]] = x
        BY <1>16, <2>1, <2>6
      <4> HIDE DEF r
      <4> QED  BY <1>15, <2>2, <2>6, <4>1
    <3> QED  BY <1>11, <2>1, <2>4, <2>6, <3>1, <3>2, <3>3
  <2>7. CASE x # n /\ (y # n \/ n \in Regs)
    <3>1. x \in coloredNodes /\ x \notin spilledNodes /\ x \notin OnStack
      BY <1>2, <1>14, <2>2, <2>7
    <3>2. y \in Regs \/ (y \in coloredNodes /\ y \notin spilledNodes /\ y \notin OnStack)
      BY <1>2, <1>14, <2>3, <2>7
    <3>3. Location(x) # Location(y)
      BY <1>1, <1>16, <3>1, <3>2 DEF AllInv, ColouringInv, RootsColoured, HasColour
    <3>4. after(x) = Location(x) /\ after(y) = Location(y)
      BY <1>8, <1>9, <2>4, <2>7
    <3> QED  BY <3>3, <3>4
  <2> QED  BY <2>5, <2>6, <2>7
<1>17. RootsColoured'
  <2>1. \A k : Location(k)' = after(k)
    BY DEF Location, after
  <2> QED  BY <1>3, <1>16, <2>1 DEF RootsColoured
\* Of two neighbours that stand for themselves the one popped saw the other.
<1>18. ASSUME NEW e \in adjSet,
              NEW x, x = e[1], x \in Placed' \ Regs,
              NEW y, y = e[2], y \in Placed'
       PROVE  after(x) # after(y)
  <2>1. x \in Node /\ y \in Node /\ x # y /\ <<x, y>> \in adjSet /\ <<y, x>> \in adjSet
    BY <1>7, <1>18 DEF AllInv, ColouringInv, Symmetric
  <2>2. x \in coloredNodes' \ coalescedNodes /\ y \in (coloredNodes' \ coalescedNodes) \cup Regs
    BY <1>3, <1>18 DEF Placed
  <2>3. GetAlias[x] = x /\ GetAlias[y] = y
    BY <2>1, <2>2, RootFacts DEF AllInv, Inv
  <2>4. CASE n \notin Regs /\ n \in coloredNodes' /\ (x = n \/ y = n)
    <3>1. CASE ok = {}
      <4>1. x \in Placed \ Regs /\ y \in Placed
        BY <1>2, <2>2, <3>1, <1>18 DEF Placed
      <4>2. Location(x) # Location(y)
        BY <1>1, <1>18, <4>1 DEF AllInv, ColouringInv, ProperColouring
      <4> QED  BY <1>2, <3>1, <4>2 DEF Location, after
    <3>2. CASE ok # {}
      <4>1. CASE x = n
        <5>1. Sees(n, y)
          BY <2>1, <2>3, <2>4, <4>1 DEF Sees, AdjList
        <5>2. y \in coloredNodes \cup Regs
          BY <1>2, <2>1, <2>2, <4>1
        <5> QED  BY <1>11, <2>1, <2>4, <3>2, <4>1, <5>1, <5>2
      <4>2. CASE y = n
        <5>1. Sees(n, x)
          BY <2>1, <2>3, <2>4, <4>2 DEF Sees, AdjList
        <5>2. x \in coloredNodes \cup Regs
          BY <1>2, <2>1, <2>2, <4>2
        <5> QED  BY <1>11, <2>1, <2>4, <3>2, <4>2, <5>1, <5>2
      <4> QED  BY <2>4, <4>1, <4>2
    <3> QED  BY <3>1, <3>2
  <2>5. CASE x # n /\ (y # n \/ n \in Regs)
    <3>1. x \in Placed \ Regs /\ y \in Placed
      BY <1>2, <1>18, <2>2, <2>5 DEF Placed
    <3>2. Location(x) # Location(y)
      BY <1>1, <1>18, <3>1 DEF AllInv, ColouringInv, ProperColouring
    <3>3. after(x) = Location(x) /\ after(y) = Location(y)
      BY <1>8, <1>9, <2>1, <2>5
    <3> QED  BY <3>2, <3>3
  <2> QED  BY <1>18, <2>2, <2>4, <2>5
<1>19. ProperColouring'
  <2>1. \A k : Location(k)' = after(k)
    BY DEF Location, after
  <2> QED  BY <1>3, <1>18, <2>1 DEF ProperColouring
<1> QED  BY <1>12, <1>13, <1>17, <1>19 DEF ColouringInv

\* A coalesced node takes the colour of the node that stands for it, and that
\* node has one unless something is spilled.
LEMMA ColorCoalescedColouring ==
    ASSUME AllInv, TypeOK', ColorCoalesced
    PROVE  ColouringInv'
<1>1. /\ pc = "color" /\ selectStack = <<>> /\ coalescedNodes' = {}
      /\ pc' = IF spilledNodes = {} THEN "done" ELSE "rewrite"
      /\ color' = [n \in Node |-> IF n \in coalescedNodes THEN color[GetAlias[n]] ELSE color[n]]
      /\ coloredNodes' = coloredNodes \cup coalescedNodes
      /\ adjSet' = adjSet /\ prog' = prog
  BY DEF ColorCoalesced, graph, rewriting
<1>2. Symmetric' /\ EdgesKnown'
  BY <1>1 DEF AllInv, ColouringInv, Symmetric, EdgesKnown
<1>3. ProperColouring'
  <2>1. SUFFICES ASSUME spilledNodes = {}, NEW e \in adjSet,
                        NEW x, x = e[1], x \in Placed' \ Regs,
                        NEW y, y = e[2], y \in Placed'
                 PROVE  Location(x)' # Location(y)'
    BY <1>1 DEF ProperColouring
  <2>2. x \in Node /\ y \in Node
    BY <2>1 DEF AllInv, Inv, IInv, TypeOK
  <2>3. x \in coloredNodes \cup coalescedNodes /\ y \in coloredNodes \cup coalescedNodes \cup Regs
    BY <1>1, <2>1 DEF Placed
  <2>4. OnStack = {} /\ ToSet(selectStack) = {}
    BY <1>1 DEF OnStack, ToSet
  <2>5. /\ simplifyWorklist = {} /\ freezeWorklist = {} /\ spillWorklist = {}
    BY <1>1 DEF AllInv, Inv, MovesInv, Phases
  <2>6. \A n \in coloredNodes \cup coalescedNodes : GetAlias[n] \in coloredNodes
    <3>1. \A n \in coalescedNodes : GetAlias[n] \in coloredNodes
      BY <2>1, <2>4, <2>5 DEF AllInv, Inv, MovesInv, RootsSomewhere
    <3>2. \A n \in coloredNodes \ coalescedNodes : GetAlias[n] = n
      BY RootFacts DEF AllInv, Inv, IInv, TypeOK
    <3> QED  BY <3>1, <3>2
  <2>7. GetAlias[x] \notin Regs /\ (y \notin Regs => GetAlias[y] \notin Regs)
    BY <2>1, <2>2 DEF AllInv, Inv, MovesInv, RootsVirtual
  <2>8. y \in Regs => GetAlias[y] = y
    BY RootFacts DEF AllInv, Inv
  <2>9. HasColour(GetAlias[x]) /\ (GetAlias[y] \in Regs \/ HasColour(GetAlias[y]))
    BY <2>1, <2>3, <2>4, <2>6, <2>8 DEF HasColour
  <2>10. Location(GetAlias[x]) # Location(GetAlias[y])
    BY <1>1, <2>1, <2>7, <2>9 DEF AllInv, ColouringInv, RootsColoured
  <2>11. color'[x] = color[GetAlias[x]] /\ (y \notin Regs => color'[y] = color[GetAlias[y]])
    <3>1. \A n \in Node \ coalescedNodes : GetAlias[n] = n
      BY RootFacts DEF AllInv, Inv
    <3> QED  BY <1>1, <2>2, <3>1
  <2>12. Location(x)' = Location(GetAlias[x]) /\ Location(y)' = Location(GetAlias[y])
    BY <2>1, <2>7, <2>8, <2>11 DEF Location
  <2> QED  BY <2>10, <2>12
<1> QED  BY <1>1, <1>2, <1>3, DirectColouring

LEMMA RewriteColouring ==
    ASSUME AllInv, TypeOK',
           EndRewrite \/ \E v \in spilledNodes : RetrySpilled(v) \/ RewriteSpilled(v)
    PROVE  ColouringInv'
<1>1. pc = "rewrite" /\ pc' \in {"rewrite", "build"} /\ adjSet' = adjSet
      /\ coalescedNodes' \subseteq coalescedNodes
  BY DEF EndRewrite, RetrySpilled, RewriteSpilled, graph, aliases
<1>2. coalescedNodes' = {}
  BY <1>1 DEF AllInv, Inv, MovesInv, Phases
<1>3. Symmetric' /\ EdgesKnown' /\ ProperColouring'
  BY <1>1 DEF AllInv, ColouringInv, Symmetric, EdgesKnown, ProperColouring
<1> QED  BY <1>1, <1>2, <1>3, DirectColouring

-----------------------------------------------------------------------------
LEMMA ColouringPreserved ==
    ASSUME AllInv, TypeOK', [Next]_vars
    PROVE  ColouringInv'
<1>1. CASE UNCHANGED vars
  <2>1. /\ GetAlias' = GetAlias /\ adjSet' = adjSet /\ selectStack' = selectStack
        /\ coalescedNodes' = coalescedNodes /\ coloredNodes' = coloredNodes
        /\ spilledNodes' = spilledNodes /\ prog' = prog /\ pc' = pc /\ color' = color
    BY <1>1, AliasesUnchanged DEF vars, aliases, graph, colouring, rewriting
  <2>2. Symmetric' /\ EdgesKnown' /\ CoalescedApart' /\ RootsAdjacent'
    BY <2>1 DEF AllInv, ColouringInv, Symmetric, EdgesKnown, CoalescedApart, RootsAdjacent, OnStack
  <2>3. SeenBelow'
    BY <2>1 DEF AllInv, ColouringInv, SeenBelow, Sees, Below
  <2>4. RootsColoured' /\ ProperColouring'
    BY <2>1 DEF AllInv, ColouringInv, RootsColoured, HasColour, OnStack, Location,
                ProperColouring, Placed
  <2> QED  BY <2>2, <2>3, <2>4 DEF ColouringInv
<1> QED  BY <1>1, BuildColouring, MkWorklistColouring, SelectColouring, SimplifyColouring,
            CombineColouring, AssignColorColouring, ColorCoalescedColouring,
            RewriteColouring DEF Next, Coalesce

THEOREM ColouringInvariance == Spec => []AllInv
<1>1. Init => AllInv
  BY InitIInv, InitMoves, InitColouring DEF AllInv, Inv
<1>2. AllInv /\ [Next]_vars => AllInv'
  <2>1. ASSUME AllInv, [Next]_vars PROVE Inv' /\ TypeOK'
    BY <2>1, MovesPreserved, TypePreserved, AliasPreserved, ProgramPreserved DEF AllInv, Inv, IInv
  <2> QED  BY <2>1, ColouringPreserved DEF AllInv
<1> QED  BY <1>1, <1>2, PTL DEF Spec

\* Coalescing never merges two operands that interfere, nor gives a machine
\* register away, over any number of merges and rounds.
THEOREM MergedOperandsApart == Spec => []CoalescedApart
<1>1. AllInv => CoalescedApart
  BY DEF AllInv, ColouringInv
<1> QED  BY <1>1, ColouringInvariance, PTL

\* AssignColors and the copying of colours to coalesced nodes never give two
\* adjacent operands the same register.
THEOREM NeighboursDiffer == Spec => []ProperColouring
<1>1. AllInv => ProperColouring
  BY DEF AllInv, ColouringInv
<1> QED  BY <1>1, ColouringInvariance, PTL

\* What is left when allocation ends: every operand has a register, and no
\* instruction writes a register that holds another live value.
THEOREM AllocationCorrect == Spec => []AllocationSound
<1>1. ASSUME AllInv, pc = "done" PROVE Virtuals \subseteq coloredNodes
  <2>1. /\ initial = {} /\ simplifyWorklist = {} /\ freezeWorklist = {} /\ spillWorklist = {}
        /\ selectStack = <<>> /\ coalescedNodes = {} /\ spilledNodes = {} /\ newTemps = {}
    BY <1>1 DEF AllInv, Inv, MovesInv, Phases
  <2>2. ToSet(selectStack) = {}
    BY <2>1 DEF ToSet
  <2> QED  BY <1>1, <2>1, <2>2 DEF AllInv, Inv, MovesInv, NoNodeLost
<1>2. ASSUME AllInv, pc = "done", NEW e \in Interference(prog)
      PROVE  Location(e[1]) # Location(e[2])
  <2>1. /\ e[1] # e[2] /\ e[1] \in Occurring(prog) /\ e[2] \in Occurring(prog)
        /\ e \in Node \X Node
    BY <1>2, InterferenceFacts DEF AllInv, Inv, IInv
  <2>2. coalescedNodes = {}
    BY <1>2 DEF AllInv, Inv, MovesInv, Phases
  <2>3. e[1] \in Placed /\ e[2] \in Placed
    BY <1>1, <1>2, <2>1, <2>2 DEF Virtuals, Placed
  <2>4. e \in adjSet /\ <<e[2], e[1]>> \in adjSet
    BY <1>2 DEF AllInv, ColouringInv, EdgesKnown, Symmetric
  <2>5. CASE e[1] \notin Regs
    BY <1>2, <2>3, <2>4, <2>5 DEF AllInv, ColouringInv, ProperColouring
  <2>6. CASE e[1] \in Regs /\ e[2] \notin Regs
    <3> DEFINE r == <<e[2], e[1]>>
    <3>1. r \in adjSet /\ r[1] = e[2] /\ r[2] = e[1]
      BY <2>4
    <3> HIDE DEF r
    <3>2. Location(r[1]) # Location(r[2])
      BY <1>2, <2>3, <2>6, <3>1 DEF AllInv, ColouringInv, ProperColouring
    <3> QED  BY <3>1, <3>2
  <2>7. CASE e[1] \in Regs /\ e[2] \in Regs
    BY <2>1, <2>7 DEF Location
  <2> QED  BY <2>5, <2>6, <2>7
<1>3. AllInv => AllocationSound
  BY <1>1, <1>2 DEF AllocationSound
<1> QED  BY <1>3, ColouringInvariance, PTL
=============================================================================
