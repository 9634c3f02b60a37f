------------------------------ MODULE RegAlloc ------------------------------
(***************************************************************************)
(* The register allocator of src/asm/asm-register.cpp: iterated register   *)
(* coalescing over one function and one register type.                     *)
(*                                                                         *)
(* A round (AllocateCurFunc) builds the interference graph from liveness,  *)
(* distributes the nodes over three worklists, empties the worklists one   *)
(* step at a time, colours the nodes in the reverse order of their         *)
(* removal, and, when some node found no colour, rewrites the program with *)
(* loads and stores and starts another round.  Only Allocate's init()      *)
(* clears the tables: a later round finds adjSet, degree, moveList, alias  *)
(* and color as the previous round left them.                              *)
(*                                                                         *)
(* The order in which an unordered_set is walked depends on addresses;     *)
(* every *begin() of the code is a choice of any element here.             *)
(***************************************************************************)
EXTENDS AsmProgram, SequencesExt

CONSTANTS
    MaxNode,      \* bound: operands are 0..MaxNode
    Regs,         \* operands of type REG, Colors and SP among them
    Colors,       \* rreg_avaliable or sreg_avaliable; K is its cardinality
    SP, Scratch,  \* the registers RewriteProgram names: SP and R12
    StackParams,  \* keys of m_stack_params_offs
    Programs      \* the functions to allocate, as sequences of blocks

Node == 0..MaxNode
K == Cardinality(Colors)

Move == Node \X Node      \* a MOVInst as <<m_dest, m_src>>
dest(m) == m[1]
src(m)  == m[2]

\* A move defines its destination, with R12 perhaps, and uses its source.
Instruction ==
    {i \in [ends : {<<>>} \cup Move, def : SUBSET Node, use : SUBSET Node,
            isDeleted : BOOLEAN] :
        IsMov(i) => dest(i.ends) \in i.def /\ i.use = {src(i.ends)}}

Code == {p \in Seq([insts : Seq(Instruction), succ : SUBSET Nat]) : IsFlowGraph(p)}

ASSUME RegAllocAssumption ==
    /\ MaxNode \in Nat
    /\ Regs \subseteq Node
    /\ Colors \subseteq Regs
    /\ IsFiniteSet(Colors)
    /\ 0 \in Colors              \* color_r[n] of an unknown n is R0
    /\ {SP, Scratch} \subseteq Regs
    /\ Class \subseteq Node
    /\ Programs \subseteq Code

VARIABLES
    pc,               \* the call AllocateCurFunc makes next
    prog,             \* m_cur_func->m_blocks
    initial,          \* nodes waiting for MkWorklist
    simplifyWorklist, freezeWorklist, spillWorklist,
    selectStack,
    coalescedNodes, alias,
    adjSet, degree,
    moveList, worklistMoves, activeMoves,
    coloredNodes, color,
    spilledNodes,
    newTemps,         \* operands RewriteProgram has put aside for `initial'
    nextTemp,         \* the next operand make_shared<Operand> will return
    lifespan, rejected

worklists  == <<simplifyWorklist, freezeWorklist, spillWorklist>>
graph      == <<adjSet, degree>>
aliases    == <<coalescedNodes, alias>>
moves      == <<moveList, worklistMoves, activeMoves>>
colouring  == <<coloredNodes, color, spilledNodes>>
rewriting  == <<prog, newTemps, nextTemp, rejected>>
vars == <<pc, initial, worklists, selectStack, aliases, graph, moves,
          colouring, rewriting, lifespan>>

-----------------------------------------------------------------------------
(***************************************************************************)
(* Graph queries                                                           *)
(***************************************************************************)
\* adjList has entries for non-REG nodes only; AddEdge keeps it equal to
\* the rows of adjSet.
AdjList(n, edges) ==
    IF n \in Regs THEN {} ELSE {w \in Node : <<n, w>> \in edges}

\* The nodes Adjacent leaves out.
Removed(stack, coalesced) == (ToSet(stack) \cup coalesced) \ Regs

Adjacent(n, edges, removed) == AdjList(n, edges) \ removed

\* Mutant: a move that waits in activeMoves is overlooked.
NodeMovesWorklistOnly(n, list, live) == list[n] \cap (live \ activeMoves)

NodeMoves(n, list, live) == list[n] \cap live

MoveRelated(n, list, live) == NodeMoves(n, list, live) # {}

LiveMoves == activeMoves \cup worklistMoves

GetAlias[n \in Node] ==
    IF n \in coalescedNodes THEN GetAlias[alias[n]] ELSE n

-----------------------------------------------------------------------------
(***************************************************************************)
(* Build                                                                   *)
(***************************************************************************)
\* I->m_type != IMM and both ends of the allocated register type.
MoveInsts(p) ==
    {i \in Instructions(p) : ~i.isDeleted /\ IsMov(i) /\ i.ends \in Class \X Class}

\* The lifespan a block leaves on a node it uses: positions are counted from
\* the end of the block (cnt) over live instructions, the last assignment of
\* the backward scan wins, and a definition measures the distance to the use
\* that most recently made n live in this block.
BlockLifespan(n, insts, liveout) ==
    LET live   == LiveAfter(insts, liveout)
        cnt(k) == Cardinality({j \in k..Len(insts) : ~insts[j].isDeleted})
        uses   == {k \in DOMAIN insts : n \in Use(insts[k])}
        defs   == {k \in DOMAIN insts : n \in Def(insts[k])}
        starts == {k \in uses : n \notin live[k] \ Def(insts[k])}
    IN  IF starts # {} /\ \E d \in defs : d < Min(uses)
        THEN cnt(Min(defs)) - cnt(Min(starts))
        ELSE Len(insts) - cnt(Min(uses))

\* Later blocks overwrite the lifespan of earlier ones; a block that does
\* not use n leaves it alone.
Lifespan(p, n, out, old) ==
    LET users == {b \in DOMAIN p : \E k \in DOMAIN p[b].insts : n \in Use(p[b].insts[k])}
    IN  IF users = {} THEN old
        ELSE BlockLifespan(n, p[Max(users)].insts, out[Max(users)])

\* LivenessAnalysis, then Build: AddEdge counts a degree only for a pair
\* that adjSet does not have yet, and every coalescable move starts in
\* worklistMoves.
Build ==
    /\ pc = "build"
    /\ LET edges == Interference(prog)
           fresh == edges \ adjSet
           mvs   == MoveInsts(prog)
           out   == LiveOut(prog)
       IN  /\ adjSet' = adjSet \cup edges
           /\ degree' = [n \in Node |->
                           IF n \in Regs THEN degree[n]
                           ELSE degree[n] + Cardinality({e \in fresh : e[1] = n})]
           /\ moveList' = [n \in Node |->
                             moveList[n] \cup {i.ends : i \in {j \in mvs : n \in Def(j) \cup Use(j)}}]
           /\ worklistMoves' = worklistMoves \cup {i.ends : i \in mvs}
           /\ lifespan' = [n \in Node |-> Lifespan(prog, n, out, lifespan[n])]
    /\ pc' = "mkworklist"
    /\ UNCHANGED <<initial, worklists, selectStack, aliases, activeMoves,
                   colouring, rewriting>>

-----------------------------------------------------------------------------
(***************************************************************************)
(* Worklists                                                               *)
(***************************************************************************)
MkWorklist ==
    /\ pc = "mkworklist"
    /\ LET high    == {n \in initial : degree[n] >= K}
           related == {n \in initial \ high : MoveRelated(n, moveList, LiveMoves)}
       IN  /\ spillWorklist'    = spillWorklist \cup high
           /\ freezeWorklist'   = freezeWorklist \cup related
           /\ simplifyWorklist' = simplifyWorklist \cup (initial \ (high \cup related))
    /\ initial' = {}
    /\ pc' = "select"
    /\ UNCHANGED <<selectStack, aliases, graph, moves, colouring, rewriting,
                   lifespan>>

\* The effect on worklists of DecrementDegree for the nodes `low', whose
\* degree was exactly K.
Lowered(w, low, list, live) ==
    LET related == {n \in low : MoveRelated(n, list, live)}
    IN  [simplify |-> w.simplify \cup (low \ related),
         freeze   |-> w.freeze \cup related,
         spill    |-> w.spill \ low]

\* EnableMoves over the nodes `low' and what is adjacent to them.
Enabled(low, list, edges, removed) ==
    {m \in activeMoves :
        \E n \in low : \E x \in {n} \cup Adjacent(n, edges, removed) : m \in list[x]}

AddWorkList(w, n, list, live, deg) ==
    IF n \notin Regs /\ ~MoveRelated(n, list, live) /\ deg[n] < K
    THEN [w EXCEPT !.freeze = @ \ {n}, !.simplify = @ \cup {n}]
    ELSE w

Worklists == [simplify |-> simplifyWorklist, freeze |-> freezeWorklist,
              spill |-> spillWorklist]

SetWorklists(w) ==
    /\ simplifyWorklist' = w.simplify
    /\ freezeWorklist'   = w.freeze
    /\ spillWorklist'    = w.spill

-----------------------------------------------------------------------------
(***************************************************************************)
(* The do-while loop of AllocateCurFunc: simplify before coalesce before   *)
(* freeze before spill.                                                    *)
(***************************************************************************)
Simplify(n) ==
    /\ pc = "select"
    /\ n \in simplifyWorklist
    /\ selectStack' = Append(selectStack, n)
    /\ LET removed == Removed(selectStack', coalescedNodes)
           adj     == Adjacent(n, adjSet, removed)
           low     == {m \in adj : degree[m] = K}
           enabled == Enabled(low, moveList, adjSet, removed)
           w       == [Worklists EXCEPT !.simplify = @ \ {n}]
       IN  /\ degree' = [m \in Node |-> IF m \in adj THEN degree[m] - 1 ELSE degree[m]]
           /\ activeMoves' = activeMoves \ enabled
           /\ worklistMoves' = worklistMoves \cup enabled
           /\ SetWorklists(Lowered(w, low, moveList, LiveMoves))
    /\ UNCHANGED <<pc, initial, aliases, adjSet, moveList, colouring, rewriting,
                   lifespan>>

\* Conservative: at most K - 1 neighbours of significant degree.  A REG's
\* degree is never counted up, so a REG never counts here.
Conservative(nodes) == Cardinality({n \in nodes : degree[n] >= K}) < K

CoalesceGuard(m) ==
    /\ pc = "select"
    /\ simplifyWorklist = {}
    /\ m \in worklistMoves

\* u and v of Coalesce: x is the alias of the source, y of the destination,
\* and they are swapped when x is a REG.
MoveEnds(m) ==
    LET x == GetAlias[src(m)]
        y == GetAlias[dest(m)]
    IN  IF x \in Regs THEN <<y, x>> ELSE <<x, y>>

\* u = v: the two ends have been merged before.
CoalesceSame(m) ==
    /\ CoalesceGuard(m)
    /\ MoveEnds(m)[1] = MoveEnds(m)[2]
    /\ worklistMoves' = worklistMoves \ {m}
    /\ SetWorklists(AddWorkList(Worklists, MoveEnds(m)[1], moveList,
                                LiveMoves \ {m}, degree))
    /\ UNCHANGED <<pc, initial, selectStack, aliases, graph, moveList, activeMoves,
                   colouring, rewriting, lifespan>>

\* Mutant: interference is not looked at.
ConstrainedByREG(u, v) == v \in Regs

\* v is a REG, or u and v interfere: the move is constrained.
Constrained(u, v) == v \in Regs \/ <<u, v>> \in adjSet

CoalesceConstrained(m) ==
    /\ CoalesceGuard(m)
    /\ LET u == MoveEnds(m)[1]
           v == MoveEnds(m)[2]
           live == LiveMoves \ {m}
       IN  /\ u # v
           /\ Constrained(u, v)
           /\ SetWorklists(AddWorkList(AddWorkList(Worklists, u, moveList, live, degree),
                                       v, moveList, live, degree))
    /\ worklistMoves' = worklistMoves \ {m}
    /\ UNCHANGED <<pc, initial, selectStack, aliases, graph, moveList, activeMoves,
                   colouring, rewriting, lifespan>>

\* OK and AllOK, for a REG u; and the test for two VREGs.
AllOK(u, v) ==
    \A t \in Adjacent(v, adjSet, Removed(selectStack, coalescedNodes)) :
        degree[t] < K \/ t \in Regs \/ <<t, u>> \in adjSet

ConservativeAdj(u, v) ==
    LET removed == Removed(selectStack, coalescedNodes)
    IN  Conservative(Adjacent(u, adjSet, removed) \cup Adjacent(v, adjSet, removed))

Mergeable(u, v) == IF u \in Regs THEN AllOK(u, v) ELSE ConservativeAdj(u, v)

\* Mutant: u does not learn of the moves of v.
KeptMoves(u, v) == moveList

\* The moveList after v is merged into u.
MergedMoves(u, v) == [moveList EXCEPT ![u] = @ \cup moveList[v]]

\* Combine(u, v): v leaves its worklist and becomes an alias of u, and each
\* remaining neighbour t of v gets the edge (t, u) and loses the one to v.
\* Then AddWorkList(u).
CoalesceCombine(m) ==
    /\ CoalesceGuard(m)
    /\ LET u       == MoveEnds(m)[1]
           v       == MoveEnds(m)[2]
           removed == Removed(selectStack, coalescedNodes')
           adj     == Adjacent(v, adjSet, removed)
           gained  == {t \in adj : <<t, u>> \notin adjSet /\ t # u}
           up(n)   == CASE n \in Regs  -> 0
                        [] n = u       -> Cardinality(gained)
                        [] n \in gained -> 1
                        [] OTHER       -> 0
           low     == {t \in adj : degree[t] + up(t) = K}
           live    == LiveMoves \ {m}
           enabled == Enabled(low, moveList', adjSet', removed)
           w1 == IF v \in freezeWorklist
                 THEN [Worklists EXCEPT !.freeze = @ \ {v}]
                 ELSE [Worklists EXCEPT !.spill = @ \ {v}]
           w2 == Lowered(w1, low, moveList', live)
           w3 == IF degree'[u] >= K /\ u \in w2.freeze
                 THEN [w2 EXCEPT !.freeze = @ \ {u}, !.spill = @ \cup {u}]
                 ELSE w2
       IN  /\ u # v
           /\ ~Constrained(u, v)
           /\ Mergeable(u, v)
           /\ coalescedNodes' = coalescedNodes \cup {v}
           /\ alias' = [alias EXCEPT ![v] = u]
           /\ moveList' = MergedMoves(u, v)
           /\ adjSet' = adjSet \cup (gained \X {u}) \cup ({u} \X gained)
           /\ degree' = [n \in Node |->
                           degree[n] + up(n) - (IF n \in adj THEN 1 ELSE 0)]
           /\ activeMoves' = activeMoves \ enabled
           /\ worklistMoves' = (worklistMoves \ {m}) \cup enabled
           /\ SetWorklists(AddWorkList(w3, u, moveList', live, degree'))
    /\ UNCHANGED <<pc, initial, selectStack, colouring, rewriting, lifespan>>

\* Mutant: the deferred move is not taken off worklistMoves.
DeferInPlace(m) ==
    /\ CoalesceGuard(m)
    /\ LET u == MoveEnds(m)[1]
           v == MoveEnds(m)[2]
       IN  /\ u # v
           /\ ~Constrained(u, v)
           /\ ~Mergeable(u, v)
    /\ activeMoves' = activeMoves \cup {m}
    /\ UNCHANGED <<pc, initial, worklists, selectStack, aliases, graph, moveList,
                   worklistMoves, colouring, rewriting, lifespan>>

\* Neither: the move waits in activeMoves until EnableMoves or FreezeMoves.
CoalesceDefer(m) ==
    /\ CoalesceGuard(m)
    /\ LET u == MoveEnds(m)[1]
           v == MoveEnds(m)[2]
       IN  /\ u # v
           /\ ~Constrained(u, v)
           /\ ~Mergeable(u, v)
    /\ worklistMoves' = worklistMoves \ {m}
    /\ activeMoves' = activeMoves \cup {m}
    /\ UNCHANGED <<pc, initial, worklists, selectStack, aliases, graph, moveList,
                   colouring, rewriting, lifespan>>

Coalesce(m) ==
    \/ CoalesceSame(m)
    \/ CoalesceConstrained(m)
    \/ CoalesceCombine(m)
    \/ CoalesceDefer(m)

\* FreezeMoves(u) gives up every live move of u.  The other operand is
\* taken from the instruction as it stands, not through GetAlias; it is
\* moved to simplifyWorklist if the moves given up so far were its last.
\* The moves are met in any order.
Other(m, u) == IF dest(m) = u THEN src(m) ELSE dest(m)

Orders(S) ==
    {f \in [S -> 1..Cardinality(S)] : \A x, y \in S : f[x] = f[y] => x = y}

Freed(u, frozen, order) ==
    {Other(m, u) : m \in
        {x \in frozen :
            /\ degree[Other(x, u)] < K
            /\ NodeMoves(Other(x, u), moveList, LiveMoves)
                 \subseteq {y \in frozen : order[y] <= order[x]}}}

FreezeMoves(u, w) ==
    LET frozen == NodeMoves(u, moveList, LiveMoves)
    IN  \E order \in Orders(frozen) :
          LET freed == Freed(u, frozen, order)
          IN  /\ SetWorklists([w EXCEPT !.freeze = @ \ freed,
                                        !.simplify = @ \cup freed])
              /\ activeMoves' = activeMoves \ frozen
              /\ worklistMoves' = worklistMoves \ frozen

\* Mutant: u is not taken off freezeWorklist.
FreezeInPlace(u) ==
    /\ pc = "select"
    /\ simplifyWorklist = {} /\ worklistMoves = {}
    /\ u \in freezeWorklist
    /\ FreezeMoves(u, [Worklists EXCEPT !.simplify = @ \cup {u}])
    /\ UNCHANGED <<pc, initial, selectStack, aliases, graph, moveList, colouring,
                   rewriting, lifespan>>

Freeze(u) ==
    /\ pc = "select"
    /\ simplifyWorklist = {} /\ worklistMoves = {}
    /\ u \in freezeWorklist
    /\ FreezeMoves(u, [Worklists EXCEPT !.freeze = @ \ {u}, !.simplify = @ \cup {u}])
    /\ UNCHANGED <<pc, initial, selectStack, aliases, graph, moveList, colouring,
                   rewriting, lifespan>>

\* A node with no measured lifespan comes first, then the longest one.  The
\* tie-break on degree and loop depth is left open.
SpillsBefore(a, b) ==
    \/ lifespan[a] = 0 /\ lifespan[b] # 0
    \/ lifespan[b] # 0 /\ lifespan[a] > lifespan[b]

SelectSpill(u) ==
    /\ pc = "select"
    /\ simplifyWorklist = {} /\ worklistMoves = {} /\ freezeWorklist = {}
    /\ u \in spillWorklist
    /\ \A n \in spillWorklist : ~SpillsBefore(n, u)
    /\ FreezeMoves(u, [Worklists EXCEPT !.spill = @ \ {u}, !.simplify = @ \cup {u}])
    /\ UNCHANGED <<pc, initial, selectStack, aliases, graph, moveList, colouring,
                   rewriting, lifespan>>

EndSelect ==
    /\ pc = "select"
    /\ simplifyWorklist = {} /\ worklistMoves = {}
    /\ freezeWorklist = {} /\ spillWorklist = {}
    /\ pc' = "color"
    /\ UNCHANGED <<initial, worklists, selectStack, aliases, graph, moves, colouring,
                   rewriting, lifespan>>

-----------------------------------------------------------------------------
(***************************************************************************)
(* AssignColors                                                            *)
(***************************************************************************)
\* Mutants: every REG has a colour to give; a neighbour that was coalesced is
\* not resolved.
OkColorsAnyREG(n) ==
    LET roots == {GetAlias[w] : w \in AdjList(n, adjSet)}
    IN  Regs \ ((roots \cap Regs) \cup {color[a] : a \in (roots \ Regs) \cap coloredNodes})

OkColorsNoAlias(n) ==
    LET roots == AdjList(n, adjSet)
    IN  Colors \ ((roots \cap Regs) \cup {color[a] : a \in (roots \ Regs) \cap coloredNodes})

OkColors(n) ==
    LET roots == {GetAlias[w] : w \in AdjList(n, adjSet)}
    IN  Colors \ (  (roots \cap Regs)
                  \cup {color[a] : a \in (roots \ Regs) \cap coloredNodes})

AssignColor ==
    /\ pc = "color"
    /\ selectStack # <<>>
    /\ LET n  == Last(selectStack)
           ok == OkColors(n)
       IN  IF ok = {}
           THEN /\ spilledNodes' = spilledNodes \cup {n}
                /\ UNCHANGED <<coloredNodes, color>>
           ELSE /\ coloredNodes' = coloredNodes \cup {n}
                /\ color' = [color EXCEPT ![n] = Min(ok)]
                /\ UNCHANGED spilledNodes
    /\ selectStack' = Front(selectStack)
    /\ UNCHANGED <<pc, initial, worklists, aliases, graph, moves, rewriting, lifespan>>

\* The stack is empty: coalesced nodes take the colour of their alias, a
\* root without one lends the default R0.
ColorCoalesced ==
    /\ pc = "color"
    /\ selectStack = <<>>
    /\ color' = [n \in Node |-> IF n \in coalescedNodes THEN color[GetAlias[n]]
                                ELSE color[n]]
    /\ coloredNodes' = coloredNodes \cup coalescedNodes
    /\ coalescedNodes' = {}
    /\ pc' = IF spilledNodes = {} THEN "done" ELSE "rewrite"
    /\ UNCHANGED <<initial, worklists, selectStack, alias, graph, moves, spilledNodes,
                   rewriting, lifespan>>

-----------------------------------------------------------------------------
(***************************************************************************)
(* RewriteProgram                                                          *)
(***************************************************************************)
Replace(S, old, new) == IF old \in S THEN (S \ {old}) \cup {new} ELSE S

Param(v) == v \in StackParams

\* Instruction <<b, k>> of p is followed by a store of v; a stack parameter
\* is never stored, its definition is deleted.
Stores(v, p, b, k) == v \in Def(p[b].insts[k]) /\ ~Param(v)
Drops(v, p, b, k)  == v \in Def(p[b].insts[k]) /\ Param(v)

\* A use right after a store takes the stored operand instead of a load.
Carries(v, p, b, k) == k > 1 /\ Stores(v, p, b, k - 1) /\ v \in p[b].insts[k].use

Loads(v, p, b, k) ==
    v \in Use(p[b].insts[k]) /\ ~Carries(v, p, b, k) /\ ~Drops(v, p, b, k)

\* The definitions and the uses that make a new operand, in program order:
\* a move lends its other operand instead.
Sites(p) == UNION {{b} \X DOMAIN p[b].insts : b \in DOMAIN p}
NewDefs(v, p) == {s \in Sites(p) : ~IsMov(p[s[1]].insts[s[2]]) /\ Stores(v, p, s[1], s[2])}
NewUses(v, p) == {s \in Sites(p) : ~IsMov(p[s[1]].insts[s[2]]) /\ Loads(v, p, s[1], s[2])}
Earlier(sites, b, k) == {s \in sites : s[1] < b \/ (s[1] = b /\ s[2] < k)}

DefOp(v, p, b, k) ==
    LET op[j \in 1..k] ==
          LET i == p[b].insts[j]
          IN  IF IsMov(i)
              THEN IF Carries(v, p, b, j) THEN op[j - 1] ELSE src(i.ends)
              ELSE nextTemp + Cardinality(Earlier(NewDefs(v, p), b, j))
                            + Cardinality(Earlier(NewUses(v, p), b, j))
    IN  op[k]

UseOp(v, p, b, k) ==
    IF IsMov(p[b].insts[k]) THEN dest(p[b].insts[k].ends)
    ELSE nextTemp + Cardinality(Earlier(NewDefs(v, p), b, k + 1))
                  + Cardinality(Earlier(NewUses(v, p), b, k))

Load(v, n)  == Op({n} \cup (IF Param(v) THEN {Scratch} ELSE {}), {SP})
Store(n)    == Op({}, {SP, n})

\* What becomes of instruction <<b, k>> when v is spilled.
SpillInst(v, p, b, k) ==
    LET i      == p[b].insts[k]
        stores == Stores(v, p, b, k)
        loads  == Loads(v, p, b, k)
        used   == CASE Carries(v, p, b, k)  -> Replace(i.use, v, DefOp(v, p, b, k - 1))
                    [] loads /\ ~IsMov(i)   -> Replace(i.use, v, UseOp(v, p, b, k))
                    [] OTHER                -> i.use
        body   == [i EXCEPT
                     !.def = IF stores /\ ~IsMov(i) THEN Replace(@, v, DefOp(v, p, b, k))
                             ELSE @,
                     !.use = used,
                     !.isDeleted = @ \/ Drops(v, p, b, k) \/ (IsMov(i) /\ (stores \/ loads)),
                     !.ends = IF IsMov(i) /\ Carries(v, p, b, k)
                              THEN <<dest(@), DefOp(v, p, b, k - 1)>> ELSE @]
    IN  (IF loads THEN <<Load(v, UseOp(v, p, b, k))>> ELSE <<>>)
          \o <<body>>
          \o (IF stores THEN <<Store(DefOp(v, p, b, k))>> ELSE <<>>)

SpillCode(v, p) ==
    [b \in DOMAIN p |->
        [p[b] EXCEPT !.insts = FlattenSeq([k \in DOMAIN p[b].insts |-> SpillInst(v, p, b, k)])]]

\* Mutant: the operands made for uses are not put aside.
StoredOperands(v, p) ==
    UNION {{DefOp(v, p, b, k) : k \in {j \in DOMAIN p[b].insts : Stores(v, p, b, j)}} :
              b \in DOMAIN p}

\* The operands RewriteProgram puts into newTemps for v.
SpillOperands(v, p) ==
    UNION {  {DefOp(v, p, b, k) : k \in {j \in DOMAIN p[b].insts : Stores(v, p, b, j)}}
        \cup {UseOp(v, p, b, k) : k \in {j \in DOMAIN p[b].insts : Loads(v, p, b, j)}} :
              b \in DOMAIN p}

\* A spilled node of lifespan at most 1 gets a second chance.
RetrySpilled(v) ==
    /\ pc = "rewrite"
    /\ v \in spilledNodes
    /\ lifespan[v] <= 1 /\ ~rejected[v]
    /\ rejected' = [rejected EXCEPT ![v] = TRUE]
    /\ newTemps' = newTemps \cup {v}
    /\ spilledNodes' = spilledNodes \ {v}
    /\ UNCHANGED <<pc, initial, worklists, selectStack, aliases, graph, moves,
                   coloredNodes, color, prog, nextTemp, lifespan>>

\* Any other gets a slot, or is reloaded from its parameter slot, at each
\* of its definitions and uses.  Bound: the new operands fit in Node.
RewriteSpilled(v) ==
    /\ pc = "rewrite"
    /\ v \in spilledNodes
    /\ ~(lifespan[v] <= 1 /\ ~rejected[v])
    /\ LET temps == SpillOperands(v, prog)
       IN  /\ temps \subseteq Node
           /\ newTemps' = newTemps \cup temps
    /\ prog' = SpillCode(v, prog)
    /\ nextTemp' = nextTemp + Cardinality(NewDefs(v, prog)) + Cardinality(NewUses(v, prog))
    /\ spilledNodes' = spilledNodes \ {v}
    /\ UNCHANGED <<pc, initial, worklists, selectStack, aliases, graph, moves,
                   coloredNodes, color, rejected, lifespan>>

\* The tail of RewriteProgram and the recursive call of AllocateCurFunc.
EndRewrite ==
    /\ pc = "rewrite"
    /\ spilledNodes = {}
    /\ initial' = coloredNodes \cup coalescedNodes \cup newTemps
    /\ coloredNodes' = {}
    /\ coalescedNodes' = {}
    /\ newTemps' = {}
    /\ pc' = "build"
    /\ UNCHANGED <<worklists, selectStack, alias, graph, moves, color, spilledNodes,
                   prog, nextTemp, rejected, lifespan>>

-----------------------------------------------------------------------------
\* Allocate: setCurFunction, init and getInitial.
Init ==
    /\ pc = "build"
    /\ prog \in Programs
    /\ initial = {n \in Occurring(prog) : n \in Node \ Regs}
    /\ simplifyWorklist = {} /\ freezeWorklist = {} /\ spillWorklist = {}
    /\ selectStack = <<>>
    /\ coalescedNodes = {}
    /\ alias = [n \in Node |-> n]
    /\ adjSet = {}
    /\ degree = [n \in Node |-> 0]
    /\ moveList = [n \in Node |-> {}]
    /\ worklistMoves = {} /\ activeMoves = {}
    /\ coloredNodes = {}
    /\ color = [n \in Node |-> 0]
    /\ spilledNodes = {}
    /\ newTemps = {}
    /\ nextTemp = 1 + Max(Regs \cup Mentioned(prog))
    /\ lifespan = [n \in Node |-> 0]
    /\ rejected = [n \in Node |-> FALSE]

Next ==
    \/ Build
    \/ MkWorklist
    \/ \E n \in simplifyWorklist : Simplify(n)
    \/ \E m \in worklistMoves : Coalesce(m)
    \/ \E u \in freezeWorklist : Freeze(u)
    \/ \E u \in spillWorklist : SelectSpill(u)
    \/ EndSelect
    \/ AssignColor
    \/ ColorCoalesced
    \/ \E v \in spilledNodes : RetrySpilled(v) \/ RewriteSpilled(v)
    \/ EndRewrite

Spec == Init /\ [][Next]_vars

\* The allocator is one sequential procedure: it takes its next step.
FairSpec == Spec /\ WF_vars(Next)

-----------------------------------------------------------------------------
(***************************************************************************)
(* Properties                                                              *)
(***************************************************************************)
\* Every variable holds a value of its kind.
TypeOK ==
    /\ pc \in {"build", "mkworklist", "select", "color", "rewrite", "done"}
    /\ initial \subseteq Node
    /\ simplifyWorklist \subseteq Node
    /\ freezeWorklist \subseteq Node
    /\ spillWorklist \subseteq Node
    /\ selectStack \in Seq(Node)
    /\ coalescedNodes \subseteq Node
    /\ alias \in [Node -> Node]
    /\ adjSet \subseteq Node \X Node
    /\ degree \in [Node -> Int]
    /\ moveList \in [Node -> SUBSET Move]
    /\ worklistMoves \subseteq Move
    /\ activeMoves \subseteq Move
    /\ coloredNodes \subseteq Node
    /\ color \in [Node -> Colors]
    /\ spilledNodes \subseteq Node
    /\ newTemps \subseteq Node
    /\ rejected \in [Node -> BOOLEAN]

\* The operands that need a register.
Virtuals == Occurring(prog) \ Regs

\* No operand falls out of the allocator's tables: in every round each
\* virtual register of the program waits in `initial', is on a worklist,
\* on the stack, coalesced, or has its colour or its spill slot.  A node on
\* none of them would keep its VREG type and reach the assembler.
NoNodeLost ==
    Virtuals \subseteq
        initial \cup simplifyWorklist \cup freezeWorklist \cup spillWorklist
          \cup ToSet(selectStack) \cup coalescedNodes \cup coloredNodes
          \cup spilledNodes \cup newTemps

\* What may still be coalesced is known to the nodes that stand for its two
\* ends, so freezing a node finds every move that keeps it from simplifying.
MovesKnownToRoots ==
    \A m \in LiveMoves : \A n \in {dest(m), src(m)} : m \in moveList[GetAlias[n]]

\* When the loop ends no move is left to coalesce or freeze.
NoMoveLeft == pc = "color" => LiveMoves = {}

\* Coalescing never merges two operands that interfere, and never gives a
\* machine register away, however many merges and rounds came before.
CoalescedApart ==
    /\ coalescedNodes \cap Regs = {}
    /\ \A e \in adjSet : GetAlias[e[1]] # GetAlias[e[2]]

Location(n) == IF n \in Regs THEN n ELSE color[n]

Placed == (coloredNodes \ coalescedNodes) \cup Regs

\* Adjacent nodes never share a register: while colours are given out, for
\* the nodes that stand for themselves, and at the end for all.
ProperColouring ==
    pc \in {"color", "done"} =>
        \A e \in adjSet :
            e[1] \in Placed \ Regs /\ e[2] \in Placed => Location(e[1]) # Location(e[2])

\* What allocation promises the code generator: in the final program every
\* operand has a register, and no instruction writes a register that holds
\* another operand's live value.
AllocationSound ==
    pc = "done" =>
        /\ Virtuals \subseteq coloredNodes
        /\ \A e \in Interference(prog) : Location(e[1]) # Location(e[2])

\* What the comment of RewriteProgram says of newTemps: each is a temporary
\* made for a definition or a use, hence a VREG of the type being allocated.
\* The operand a spilled move lends is not (a node kept for a second chance
\* is left out of the claim).
NewTempsAreTemporaries ==
    \A n \in newTemps : rejected[n] \/ n \in Class \ Regs

\* What "Iterated Register Coalescing" says of constrained moves: a move is
\* given up as constrained only if its ends interfere, or are both REGs.
\* Coalesce puts a REG into v: the swap when it is the source, no swap when
\* it is the destination.  AllOK, which wants it in u, is never asked.
ConstrainedEndsInterfere ==
    [][\A m \in worklistMoves :
          CoalesceConstrained(m) =>
              LET e == MoveEnds(m) IN e \in adjSet \/ {e[1], e[2]} \subseteq Regs]_vars

\* What is left of a round, most significant component first: the calls of
\* AllocateCurFunc that follow, the moves not yet decided, the nodes on a
\* worklist or still of significant degree (simplifying one node may free
\* others, each of which then stops being significant), the moves to look
\* at before the next node is frozen, the nodes to colour, and the nodes to
\* spill.
CallsLeft ==
    [build |-> 5, mkworklist |-> 4, select |-> 3, color |-> 2, rewrite |-> 1, done |-> 0][pc]

NodesLeft ==
    LET significant == {n \in Node : degree[n] >= K}
    IN  2 * (Cardinality(significant) + Cardinality(freezeWorklist) + Cardinality(spillWorklist))
          + Cardinality(simplifyWorklist)

Remaining == <<CallsLeft, Cardinality(LiveMoves), NodesLeft, Cardinality(worklistMoves),
               Len(selectStack), Cardinality(spilledNodes)>>

LexBelow(a, b) == \E i \in DOMAIN b : a[i] < b[i] /\ \A j \in 1..(i - 1) : a[j] = b[j]

\* No round goes on forever: every step but the recursive call leaves less
\* to do, although degrees grow when nodes are merged, deferred moves come
\* back when a degree falls, and a node may reach a worklist more than once.
RoundsEnd == [][EndRewrite \/ LexBelow(Remaining', Remaining)]_vars

\* Every allocation ends, whatever order the sets are walked in.
Terminates == <>(pc = "done")

=============================================================================
