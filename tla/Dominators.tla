----------------------------- MODULE Dominators ------------------------------
(***************************************************************************)
(* The dominance analysis of src/ir/pass/dom.cpp step by step, every       *)
(* assignment to its global arrays an action: the depth first numbering,   *)
(* the semidominators of Lengauer and Tarjan over a union-find forest      *)
(* whose paths are compressed while they are read, the immediate           *)
(* dominators, the dominator tree and the dominance frontiers.             *)
(* (Module Dominance has the same analysis as operators that other passes  *)
(* call; this one is what the theorems of DominatorsProofs are about.)     *)
(*                                                                         *)
(* Blocks are numbered from 1, the entry, in list order (m_id).  The       *)
(* analysis first removes every unreachable block                          *)
(* (RemoveUnusedBasicBlocks), so the entry reaches all the blocks of the   *)
(* graphs it works on, and the test for vertices without a number (line    *)
(* 108) never fires.  The order of the successors, of the predecessors and *)
(* of the buckets is left open; a branch with equal targets gives the edge *)
(* twice, which repeats what the first did.  0 is an entry not written     *)
(* yet, and the null pointer.                                              *)
(***************************************************************************)
EXTENDS Integers, Sequences, FiniteSets, Reachability

CONSTANT Graphs     \* flow graphs: block |-> the set of its successors

ASSUME GraphsAssumption ==
    \A g \in Graphs :
        LET n == Cardinality(DOMAIN g) IN
        n \in Nat \ {0} /\ g \in [1..n -> SUBSET (1..n)] /\ Reach(g, 1) = 1..n

VARIABLES
    f_graph,        \* the graph analysed
    pc,             \* the loop the analysis is in
    cur,            \* the block that tarjan() or dfs() is at
    dfn, co, fa,    \* depth first numbers, their count, parents
    i,              \* counter of the loop the analysis is in
    todo,           \* what a for loop over a set has not come to
    v,              \* the argument of the call of find, 0 outside of it
    path, ret,      \* its stack of frames, and what the innermost returned
    sdom, ufs, mn,  \* semidominators, union-find parents, best vertex below
    aux_graph,      \* the vertices waiting at their semidominator
    idom,           \* immediate dominators
    m_dominators,   \* the blocks that a block dominates (the inverse: m_dominated)
    m_dom_depth,    \* its depth in the dominator tree
    x,              \* the block whose frontier is extended, 0 for none
    m_dominance_frontier

dfsVars == <<dfn, co, fa>>
findVars == <<path, ret, ufs, mn>>
domVars == <<m_dominators, m_dom_depth>>
frontierVars == <<x, m_dominance_frontier>>
vars == <<f_graph, pc, cur, dfsVars, i, todo, v, findVars, sdom, aux_graph, idom,
          domVars, frontierVars>>

Block == DOMAIN f_graph
Predecessors(b) == {a \in Block : b \in f_graph[a]}
ord(k) == CHOOSE u \in Block : dfn[u] = k
Top == path[Len(path)]
Pop == SubSeq(path, 1, Len(path) - 1)
(* Whether a semidominates better than b.                                  *)
Less(a, b) == dfn[sdom[a]] < dfn[sdom[b]]

Phases == {"dfs", "semi", "bucket", "idom", "tree", "frontier", "done"}
TypeOK ==
    /\ f_graph \in [Block -> SUBSET Block]
    /\ pc \in Phases
    /\ cur \in Block
    /\ dfn \in [Block -> Nat] /\ co \in Nat
    /\ fa \in [Block -> Block \cup {0}]
    /\ i \in Nat
    /\ todo \subseteq Block
    /\ v \in Block \cup {0}
    /\ path \in Seq(Block) /\ ret \in Block \cup {0}
    /\ sdom \in [Block -> Block \cup {0}]
    /\ ufs \in [Block -> Block \cup {0}]
    /\ mn \in [Block -> Block \cup {0}]
    /\ aux_graph \in [Block -> SUBSET Block]
    /\ idom \in [Block -> Block \cup {0}]
    /\ m_dominators \in [Block -> SUBSET Block]
    /\ m_dom_depth \in [Block -> Nat]
    /\ x \in Block \cup {0}
    /\ m_dominance_frontier \in [Block -> SUBSET Block]

Zero == [b \in Block |-> 0]
Self == [b \in Block |-> b]
None == [b \in Block |-> {}]

(* tarjan(1) has numbered the entry.                                       *)
Init ==
    /\ f_graph \in Graphs
    /\ pc = "dfs" /\ cur = 1
    /\ dfn = [Zero EXCEPT ![1] = 1] /\ co = 1 /\ fa = Zero
    /\ i = 0 /\ todo = {}
    /\ v = 0 /\ path = <<>> /\ ret = 0
    /\ sdom = Zero /\ ufs = Zero /\ mn = Zero
    /\ aux_graph = None /\ idom = Zero
    /\ m_dominators = None /\ m_dom_depth = Zero
    /\ x = 0 /\ m_dominance_frontier = None

-----------------------------------------------------------------------------
(* Depth first search.                                                     *)

Visit(b) ==
    /\ pc = "dfs"
    /\ b \in f_graph[cur] /\ dfn[b] = 0
    /\ fa' = [fa EXCEPT ![b] = cur]
    /\ co' = co + 1
    /\ dfn' = [dfn EXCEPT ![b] = co']
    /\ cur' = b
    /\ UNCHANGED <<f_graph, pc, i, todo, v, findVars, sdom, aux_graph, idom,
                   domVars, frontierVars>>

AllVisited == \A b \in f_graph[cur] : dfn[b] # 0

(* Mutant: the call for the entry returns like the others.                 *)
ReturnAlways ==
    /\ pc = "dfs" /\ AllVisited
    /\ cur' = fa[cur]
    /\ UNCHANGED <<f_graph, pc, dfsVars, i, todo, v, findVars, sdom, aux_graph, idom,
                   domVars, frontierVars>>
Return ==
    /\ pc = "dfs" /\ AllVisited /\ cur # 1
    /\ cur' = fa[cur]
    /\ UNCHANGED <<f_graph, pc, dfsVars, i, todo, v, findVars, sdom, aux_graph, idom,
                   domVars, frontierVars>>

(* The round for the vertex with number k, or the loop after the last.     *)
Round(k) ==
    IF k >= 2 THEN pc' = "semi" /\ i' = k /\ todo' = Predecessors(ord(k))
              ELSE pc' = "idom" /\ i' = 2 /\ todo' = {}

Numbered ==
    /\ pc = "dfs" /\ AllVisited /\ cur = 1
    /\ sdom' = Self /\ ufs' = Self /\ mn' = Self
    /\ Round(co)
    /\ UNCHANGED <<f_graph, cur, dfsVars, v, path, ret, aux_graph, idom,
                   domVars, frontierVars>>

-----------------------------------------------------------------------------
(* find(v): up to the root, frame by frame, then back down, hanging every  *)
(* vertex of the path under the root.                                      *)

Call(b) ==
    /\ pc \in {"semi", "bucket"}
    /\ v = 0 /\ b \in todo
    /\ v' = b /\ path' = <<b>>
    /\ UNCHANGED <<f_graph, pc, cur, dfsVars, i, todo, ret, ufs, mn, sdom, aux_graph, idom,
                   domVars, frontierVars>>

Ascend ==
    /\ path # <<>> /\ ret = 0 /\ ufs[Top] # Top
    /\ path' = Append(path, ufs[Top])
    /\ UNCHANGED <<f_graph, pc, cur, dfsVars, i, todo, v, ret, ufs, mn, sdom, aux_graph, idom,
                   domVars, frontierVars>>

AtRoot ==
    /\ path # <<>> /\ ret = 0 /\ ufs[Top] = Top
    /\ ret' = Top /\ path' = Pop
    /\ UNCHANGED <<f_graph, pc, cur, dfsVars, i, todo, v, ufs, mn, sdom, aux_graph, idom,
                   domVars, frontierVars>>

(* Mutant: a vertex keeps its best, although its way is cut short.         *)
CompressKeep ==
    /\ ret # 0 /\ path # <<>>
    /\ mn' = mn
    /\ ufs' = [ufs EXCEPT ![Top] = ret]
    /\ path' = Pop
    /\ UNCHANGED <<f_graph, pc, cur, dfsVars, i, todo, v, ret, sdom, aux_graph, idom,
                   domVars, frontierVars>>
Compress ==
    /\ ret # 0 /\ path # <<>>
    /\ mn' = IF Less(mn[ufs[Top]], mn[Top]) THEN [mn EXCEPT ![Top] = mn[ufs[Top]]] ELSE mn
    /\ ufs' = [ufs EXCEPT ![Top] = ret]
    /\ path' = Pop
    /\ UNCHANGED <<f_graph, pc, cur, dfsVars, i, todo, v, ret, sdom, aux_graph, idom,
                   domVars, frontierVars>>

Found == ret # 0 /\ path = <<>>
Consumed == todo' = todo \ {v} /\ v' = 0 /\ ret' = 0

-----------------------------------------------------------------------------
(* The round of vertex t = ord(i): its semidominator, then the bucket of   *)
(* its parent.                                                             *)

SemiDominator ==
    /\ pc = "semi" /\ Found
    /\ sdom' = IF Less(mn[v], ord(i)) THEN [sdom EXCEPT ![ord(i)] = sdom[mn[v]]] ELSE sdom
    /\ Consumed
    /\ UNCHANGED <<f_graph, pc, cur, dfsVars, i, path, ufs, mn, aux_graph, idom,
                   domVars, frontierVars>>

(* Mutant: the parent is hung under the vertex.                            *)
LinkParent ==
    /\ pc = "semi" /\ todo = {}
    /\ LET t == ord(i) IN
       /\ ufs' = [ufs EXCEPT ![fa[t]] = t]
       /\ aux_graph' = [aux_graph EXCEPT ![sdom[t]] = @ \cup {t}]
       /\ todo' = aux_graph'[fa[t]]
    /\ pc' = "bucket"
    /\ UNCHANGED <<f_graph, cur, dfsVars, i, v, path, ret, mn, sdom, idom,
                   domVars, frontierVars>>
Link ==
    /\ pc = "semi" /\ todo = {}
    /\ LET t == ord(i) IN
       /\ ufs' = [ufs EXCEPT ![t] = fa[t]]
       /\ aux_graph' = [aux_graph EXCEPT ![sdom[t]] = @ \cup {t}]
       /\ todo' = aux_graph'[fa[t]]
    /\ pc' = "bucket"
    /\ UNCHANGED <<f_graph, cur, dfsVars, i, v, path, ret, mn, sdom, idom,
                   domVars, frontierVars>>

Bucket ==
    /\ pc = "bucket" /\ Found
    /\ LET t == fa[ord(i)] IN
       idom' = [idom EXCEPT ![v] = IF t = sdom[mn[v]] THEN t ELSE mn[v]]
    /\ Consumed
    /\ UNCHANGED <<f_graph, pc, cur, dfsVars, i, path, ufs, mn, sdom, aux_graph,
                   domVars, frontierVars>>

NextRound ==
    /\ pc = "bucket" /\ todo = {}
    /\ aux_graph' = [aux_graph EXCEPT ![fa[ord(i)]] = {}]
    /\ Round(i - 1)
    /\ UNCHANGED <<f_graph, cur, dfsVars, v, findVars, sdom, idom,
                   domVars, frontierVars>>

-----------------------------------------------------------------------------
(* Immediate dominators that are those of another vertex.                  *)

(* Mutant: the vertex with the best semidominator is taken for it.         *)
KeepIdom ==
    /\ pc = "idom" /\ i <= co
    /\ i' = i + 1
    /\ UNCHANGED <<f_graph, pc, cur, dfsVars, todo, v, findVars, sdom, aux_graph, idom,
                   domVars, frontierVars>>
FixIdom ==
    /\ pc = "idom" /\ i <= co
    /\ LET t == ord(i) IN
       idom' = IF idom[t] # sdom[t] THEN [idom EXCEPT ![t] = idom[idom[t]]] ELSE idom
    /\ i' = i + 1
    /\ UNCHANGED <<f_graph, pc, cur, dfsVars, todo, v, findVars, sdom, aux_graph,
                   domVars, frontierVars>>

(* The loop from line 132 makes idom the tree and m_idom the pointers, the *)
(* same data; then dfs() starts at the entry.                              *)
Attached ==
    /\ pc = "idom" /\ i > co
    /\ pc' = "tree" /\ cur' = 1
    /\ m_dominators' = [m_dominators EXCEPT ![1] = {1}]
    /\ m_dom_depth' = [m_dom_depth EXCEPT ![1] = 1]
    /\ UNCHANGED <<f_graph, dfsVars, i, todo, v, findVars, sdom, aux_graph, idom,
                   frontierVars>>

-----------------------------------------------------------------------------
(* dfs() over the dominator tree: a block joins what its children dominate *)
(* as they return.                                                         *)

Child(c) == c \in Block /\ idom[c] = cur
Entered(b) == m_dominators[b] # {}

Enter(c) ==
    /\ pc = "tree" /\ Child(c) /\ ~Entered(c)
    /\ m_dominators' = [m_dominators EXCEPT ![c] = {c}]
    /\ m_dom_depth' = [m_dom_depth EXCEPT ![c] = m_dom_depth[cur] + 1]
    /\ cur' = c
    /\ UNCHANGED <<f_graph, pc, dfsVars, i, todo, v, findVars, sdom, aux_graph, idom,
                   frontierVars>>

AllEntered == \A c \in Block : Child(c) => Entered(c)

(* Mutant: the parent is given the child alone.                            *)
LeaveOne ==
    /\ pc = "tree" /\ AllEntered /\ cur # 1
    /\ m_dominators' = [m_dominators EXCEPT ![idom[cur]] = @ \cup {cur}]
    /\ cur' = idom[cur]
    /\ UNCHANGED <<f_graph, pc, dfsVars, i, todo, v, findVars, sdom, aux_graph, idom,
                   m_dom_depth, frontierVars>>
Leave ==
    /\ pc = "tree" /\ AllEntered /\ cur # 1
    /\ m_dominators' = [m_dominators EXCEPT ![idom[cur]] = @ \cup m_dominators[cur]]
    /\ cur' = idom[cur]
    /\ UNCHANGED <<f_graph, pc, dfsVars, i, todo, v, findVars, sdom, aux_graph, idom,
                   m_dom_depth, frontierVars>>

TreeWalked ==
    /\ pc = "tree" /\ AllEntered /\ cur = 1
    /\ pc' = "frontier" /\ i' = 1 /\ todo' = f_graph[1]
    /\ UNCHANGED <<f_graph, cur, dfsVars, v, findVars, sdom, aux_graph, idom,
                   domVars, frontierVars>>

-----------------------------------------------------------------------------
(* ComputeDominanceFrontier, for the edges of block i one after another:   *)
(* up the dominator tree to the first block that strictly dominates v.     *)

Edge(b) ==
    /\ pc = "frontier" /\ v = 0 /\ b \in todo
    /\ v' = b /\ x' = i
    /\ UNCHANGED <<f_graph, pc, cur, dfsVars, i, todo, findVars, sdom, aux_graph, idom,
                   domVars, m_dominance_frontier>>

(* The loop of line 147 goes on: x is a block, and does not strictly       *)
(* dominate v.                                                             *)
Passing == x # 0 /\ (x = v \/ v \notin m_dominators[x])

(* Mutant: the climb stops after the first block.                          *)
ClimbOne ==
    /\ pc = "frontier" /\ v # 0 /\ Passing
    /\ m_dominance_frontier' = IF x = v THEN m_dominance_frontier
                               ELSE [m_dominance_frontier EXCEPT ![x] = @ \cup {v}]
    /\ x' = 0
    /\ UNCHANGED <<f_graph, pc, cur, dfsVars, i, todo, v, findVars, sdom, aux_graph, idom,
                   domVars>>
Climb ==
    /\ pc = "frontier" /\ v # 0 /\ Passing
    /\ m_dominance_frontier' = IF x = v THEN m_dominance_frontier
                               ELSE [m_dominance_frontier EXCEPT ![x] = @ \cup {v}]
    /\ x' = idom[x]
    /\ UNCHANGED <<f_graph, pc, cur, dfsVars, i, todo, v, findVars, sdom, aux_graph, idom,
                   domVars>>

EdgeDone ==
    /\ pc = "frontier" /\ v # 0 /\ ~Passing
    /\ todo' = todo \ {v} /\ v' = 0 /\ x' = 0
    /\ UNCHANGED <<f_graph, pc, cur, dfsVars, i, findVars, sdom, aux_graph, idom,
                   domVars, m_dominance_frontier>>

NextBlock ==
    /\ pc = "frontier" /\ v = 0 /\ todo = {}
    /\ IF i + 1 \in Block THEN i' = i + 1 /\ todo' = f_graph[i + 1] /\ pc' = pc
                          ELSE pc' = "done" /\ UNCHANGED <<i, todo>>
    /\ UNCHANGED <<f_graph, cur, dfsVars, v, findVars, sdom, aux_graph, idom,
                   domVars, frontierVars>>

-----------------------------------------------------------------------------
Done == pc = "done" /\ UNCHANGED vars

Next ==
    \/ \E b \in Block : Visit(b)
    \/ Return
    \/ Numbered
    \/ \E b \in Block : Call(b)
    \/ Ascend
    \/ AtRoot
    \/ Compress
    \/ SemiDominator
    \/ Link
    \/ Bucket
    \/ NextRound
    \/ FixIdom
    \/ Attached
    \/ \E c \in Block : Enter(c)
    \/ Leave
    \/ TreeWalked
    \/ \E b \in Block : Edge(b)
    \/ Climb
    \/ EdgeDone
    \/ NextBlock
    \/ Done

Spec == Init /\ [][Next]_vars

-----------------------------------------------------------------------------
(* What dominance is: no path from the entry reaches b without a.          *)
Avoiding(a) == [b \in Block |-> f_graph[b] \ {a}]
Without(a) == IF a = 1 THEN {} ELSE Reach(Avoiding(a), 1)
Dom(a, b) == b \notin Without(a)
StrictDom(a, b) == a # b /\ Dom(a, b)
(* The strict dominator of b that all its others dominate.                 *)
IsIdom(a, b) == StrictDom(a, b) /\ \A c \in Block : StrictDom(c, b) => Dom(c, a)

TreeBuilt == pc \in {"tree", "frontier", "done"}
Analysed == pc = "done"

(* Line 135 asserts that every block but the entry has got an immediate    *)
(* dominator; lines 105 to 137 find the closest strict dominator, and none *)
(* for the entry.                                                          *)
ImmediateRight ==
    TreeBuilt => /\ idom[1] = 0
              /\ \A b \in Block \ {1} : idom[b] \in Block /\ IsIdom(idom[b], b)

(* dfs() gives a block the blocks that every path from the entry reaches   *)
(* through it, and as its depth the number of blocks that dominate it.     *)
DominatorsRight ==
    pc \in {"frontier", "done"} =>
    \A b \in Block :
        /\ m_dominators[b] = {c \in Block : Dom(b, c)}
        /\ m_dom_depth[b] = Cardinality({a \in Block : Dom(a, b)})

(* The frontier of a block are the blocks, itself apart, where its         *)
(* dominance ends: it dominates a predecessor but not, strictly, them.     *)
FrontierRight ==
    Analysed =>
    \A a \in Block :
        m_dominance_frontier[a] = {b \in Block \ {a} : ~StrictDom(a, b)
                                       /\ \E p \in Predecessors(b) : Dom(a, p)}

(* The vertices whose semidominator, and whose immediate dominator, is     *)
(* decided.                                                                *)
SemiFound(b) ==
    CASE pc = "dfs" -> FALSE
      [] pc = "semi" -> dfn[b] > i
      [] pc = "bucket" -> dfn[b] >= i
      [] OTHER -> b # 1
IdomFound(b) == TreeBuilt \/ (pc = "idom" /\ dfn[b] < i)

KnownNumber == IF pc = "dfs" THEN Zero ELSE dfn
KnownSemi == [b \in Block |-> IF SemiFound(b) THEN sdom[b] ELSE 0]
KnownIdom == [b \in Block |-> IF IdomFound(b) THEN idom[b] ELSE 0]
KnownDominated == IF pc \in {"frontier", "done"} THEN m_dominators ELSE None
KnownFrontier == IF Analysed THEN m_dominance_frontier ELSE None

Analysis == INSTANCE DominanceSpec WITH
    graph <- f_graph, number <- KnownNumber, semi <- KnownSemi, idom <- KnownIdom,
    dominated <- KnownDominated, frontier <- KnownFrontier

(* The forest, the buckets and the loops that rewrite sdom and idom in     *)
(* place add up to this: the numbering is that of a depth first search, a  *)
(* semidominator is right from the round on that links its vertex, an      *)
(* immediate dominator once the loop of line 126 has passed, and no result *)
(* is changed after that.                                                  *)
ImplementsDominance == Analysis!Spec

(* What is left to do, the phases first: vertices or blocks to visit or    *)
(* rounds, the way back to the root, what a loop over a set has not come   *)
(* to, whether a find or a climb has begun or turned, and its way.         *)
PhasesLeft == [dfs |-> 5, semi |-> 4, bucket |-> 4, idom |-> 3, tree |-> 2,
               frontier |-> 1, done |-> 0][pc]
RoundsLeft ==
    CASE pc = "dfs" -> Cardinality({b \in Block : dfn[b] = 0})
      [] pc \in {"semi", "bucket"} -> i
      [] pc = "idom" -> co + 1 - i
      [] pc = "tree" -> Cardinality({b \in Block : ~Entered(b)})
      [] pc = "frontier" -> Cardinality(Block) - i
      [] OTHER -> 0
LoopsLeft ==
    CASE pc = "dfs" -> dfn[cur]
      [] pc = "semi" -> 1
      [] pc = "tree" -> m_dom_depth[cur]
      [] OTHER -> 0
TurnsLeft == IF v = 0 THEN 2 ELSE IF ret = 0 THEN 1 ELSE 0
WayLeft ==
    IF ret # 0 THEN Len(path)
    ELSE IF path # <<>> THEN dfn[Top]
    ELSE IF x # 0 THEN m_dom_depth[x]
    ELSE 0
Remaining == <<PhasesLeft, RoundsLeft, LoopsLeft, Cardinality(todo), TurnsLeft, WayLeft>>

LexBelow(a, b) == \E k \in DOMAIN b : a[k] < b[k] /\ \A j \in 1..(k - 1) : a[j] = b[j]

(* Every step leaves less to do.  What could go on forever are find, which *)
(* follows pointers that it rewrites itself, and the climb of the          *)
(* frontiers over m_idom, line 147.                                        *)
AnalysisEnds == [][LexBelow(Remaining', Remaining)]_vars
=============================================================================
