-------------------------- MODULE DominatorsProofs ---------------------------
(***************************************************************************)
(* Proofs about Dominators, for every set of flow graphs whose blocks the  *)
(* entry reaches: the analysis of dom.cpp finds the dominators, the        *)
(* immediate dominators and the frontiers that the definitions ask for.    *)
(***************************************************************************)
EXTENDS Dominators, FiniteSetTheorems, SequenceTheorems, TLAPS

-----------------------------------------------------------------------------
(* The depth first tree.                                                   *)

Parent == [b \in Block |-> {fa[b]} \ {0}]
Anc(w) == Reach(Parent, w)
Visited(b) == dfn[b] # 0
AllNumbered == \A b \in Block : Visited(b)

(* Vertices are numbered from 1 without a gap, parents first.              *)
Numbering ==
    /\ dfn[1] = 1 /\ fa[1] = 0
    /\ \A b \in Block : dfn[b] <= co
    /\ \A a, b \in Block : Visited(a) /\ dfn[a] = dfn[b] => a = b
    /\ \A k \in 1..co : \E b \in Block : dfn[b] = k
    /\ \A b \in Block : ~Visited(b) => fa[b] = 0
    /\ \A b \in Block \ {1} : Visited(b) =>
           fa[b] \in Block /\ Visited(fa[b]) /\ b \in f_graph[fa[b]] /\ dfn[fa[b]] < dfn[b]
    /\ \A b \in Block : Visited(b) => 1 \in Anc(b)

(* An edge that goes up in the numbering goes down in the tree, and the    *)
(* descendants of a block are numbered without a gap.                      *)
UpwardEdges == \A a, b \in Block : Visited(a) /\ b \in f_graph[a] /\ dfn[a] < dfn[b] => a \in Anc(b)
Intervals ==
    \A w, y \in Block : \A u \in Anc(w) :
        Visited(u) /\ dfn[u] <= dfn[y] /\ dfn[y] <= dfn[w] => u \in Anc(y)

(* The stack of tarjan() is the path to cur; what has left it is done.     *)
DfsInv ==
    /\ Visited(cur)
    /\ \A u \in Anc(cur) : \A y \in Block : dfn[u] <= dfn[y] => u \in Anc(y)
    /\ \A b \in Block : Visited(b) /\ b \notin Anc(cur) => \A c \in f_graph[b] : Visited(c)

-----------------------------------------------------------------------------
(* Semidominators.                                                         *)

Hung(b) == pc \in {"semi", "bucket"} => dfn[b] > i \/ (pc = "bucket" /\ dfn[b] = i)

(* A path that avoids what lies between a block and its semidominator      *)
(* gets from the one to the other.                                         *)
Sound(w) ==
    \A a \in Block : \A S \in SUBSET Block :
        dfn[sdom[w]] < dfn[a] /\ dfn[a] < dfn[w] =>
            (Closed(Avoiding(a), S) /\ sdom[w] \in S => w \in S)
(* No predecessor p of w gives a better semidominator.                     *)
Covers(w, p) ==
    /\ dfn[p] <= dfn[w] => dfn[sdom[w]] <= dfn[p]
    /\ \A u \in Anc(p) : dfn[u] > dfn[w] => dfn[sdom[w]] <= dfn[sdom[u]]

(* The union-find forest: between a vertex and its union-find parent,      *)
(* everything is linked and mn has the least semidominator.                *)
ForestInv ==
    \A u \in Block :
        IF Hung(u)
        THEN /\ ufs[u] \in Anc(u) /\ ufs[u] # u
             /\ mn[u] \in Anc(u) /\ dfn[ufs[u]] <= dfn[mn[u]]
             /\ \A y \in Anc(u) : dfn[ufs[u]] < dfn[y] =>
                    Hung(y) /\ dfn[sdom[mn[u]]] <= dfn[sdom[y]]
        ELSE ufs[u] = u /\ mn[u] = u

(* Semidominators are sound, and as good as the predecessors asked allow.  *)
SemiInv ==
    \A w \in Block :
        /\ sdom[w] \in Anc(w) /\ Sound(w)
        /\ dfn[w] < i => sdom[w] = w
        /\ Hung(w) => \A p \in Predecessors(w) : Covers(w, p)
        /\ pc = "semi" /\ dfn[w] = i => \A p \in Predecessors(w) \ todo : Covers(w, p)

(* What the loop over a bucket leaves: the semidominator, or a block       *)
(* between with the least semidominator of all.                            *)
BestBetween(w) ==
    /\ idom[w] \in Anc(w) /\ dfn[sdom[w]] <= dfn[idom[w]]
    /\ IF idom[w] = sdom[w]
       THEN \A y \in Anc(w) : dfn[sdom[w]] < dfn[y] => dfn[sdom[w]] <= dfn[sdom[y]]
       ELSE /\ dfn[sdom[idom[w]]] < dfn[sdom[w]]
            /\ \A y \in Anc(w) : dfn[sdom[w]] < dfn[y] => dfn[sdom[idom[w]]] <= dfn[sdom[y]]

(* A bucket has vertices whose semidominator is its own; what has left one *)
(* is settled.                                                             *)
BucketInv ==
    /\ \A p \in Block : \A w \in aux_graph[p] :
           /\ Hung(w) /\ sdom[w] = p
           /\ \E c \in Anc(w) : fa[c] = p /\ dfn[c] <= i
    /\ \A w \in Block :
           Hung(w) /\ (w \in aux_graph[sdom[w]] =>
                           pc = "bucket" /\ sdom[w] = fa[ord(i)] /\ w \notin todo)
           => BestBetween(w) /\ \A y \in Anc(w) : dfn[sdom[w]] < dfn[y] => Hung(y)
    /\ idom[1] = 0

(* find is on its way from v: the path follows the union-find parents, and *)
(* what has returned is the root of the frame that is next.                *)
FindInv ==
    /\ i \in 2..co
    /\ todo \subseteq (IF pc = "semi" THEN Predecessors(ord(i)) ELSE aux_graph[fa[ord(i)]])
    /\ IF v = 0 THEN path = <<>> /\ ret = 0 ELSE v \in todo
    /\ v # 0 /\ ret = 0 => path # <<>>
    /\ ret # 0 => ufs[ret] = ret /\ ufs[IF path = <<>> THEN v ELSE ufs[Top]] = ret
    /\ path # <<>> => path[1] = v
    /\ \A j \in 1..Len(path) : ret # 0 \/ j < Len(path) => Hung(path[j])
    /\ \A j \in 1..(Len(path) - 1) : path[j + 1] = ufs[path[j]]
    /\ \A j, k \in 1..Len(path) : j < k => dfn[path[k]] < dfn[path[j]]

-----------------------------------------------------------------------------
(* The loops after.                                                        *)

(* The vertices with a smaller number have their immediate dominators.     *)
IdomInv ==
    /\ i \in 2..(co + 1)
    /\ \A w \in Block : sdom[w] \in Anc(w) /\ Sound(w) /\ \A p \in Predecessors(w) : Covers(w, p)
    /\ idom[1] = 0
    /\ \A w \in Block \ {1} :
           IF dfn[w] < i THEN idom[w] \in Block /\ IsIdom(idom[w], w) ELSE BestBetween(w)

(* A block has joined what it dominates but for the subtree dfs() is in.   *)
TreeInv ==
    /\ Entered(cur)
    /\ \A b \in Block : Entered(b) =>
           /\ m_dom_depth[b] = Cardinality({a \in Block : Dom(a, b)})
           /\ \A a \in Block : Dom(a, b) => Entered(a)
           /\ ~Dom(b, cur) => \A c \in Block : Dom(b, c) => Entered(c)
           /\ m_dominators[b] =
                  {y \in Block : /\ Entered(y) /\ Dom(b, y)
                                 /\ y # b => \A c \in Block : StrictDom(b, c) /\ Dom(c, cur)
                                                                  => ~Dom(c, y)}

(* The edges that are done, and the dominators of the edge's tail that the *)
(* climb of the present one has passed.                                    *)
Past(a, b) == b \in f_graph[a] /\ (a < i \/ (a = i /\ b \notin todo))
Passed(z) == v # 0 /\ Dom(z, i) /\ (x = 0 \/ ~Dom(z, x))
(* A frontier has what the edges so far call for.                          *)
FrontierInv ==
    /\ i \in Block /\ todo \subseteq f_graph[i]
    /\ v # 0 => v \in todo
    /\ v # 0 /\ x # 0 => Dom(x, i)
    /\ \A z \in Block : Passed(z) => ~StrictDom(z, v)
    /\ \A z \in Block :
           m_dominance_frontier[z] =
               {b \in Block \ {z} : \/ ~StrictDom(z, b) /\ \E a \in Block : Past(a, b) /\ Dom(z, a)
                                    \/ b = v /\ Passed(z)}

(* The inductive invariant: what each loop relies on, and its results.     *)
Search == pc \in {"semi", "bucket"}
IInv ==
    /\ f_graph \in Graphs /\ TypeOK
    /\ Numbering /\ UpwardEdges /\ Intervals
    /\ pc = "dfs" => DfsInv /\ aux_graph = None /\ idom = Zero
    /\ pc # "dfs" => AllNumbered
    /\ Search => ForestInv /\ SemiInv /\ BucketInv /\ FindInv
    /\ ~Search => path = <<>> /\ ret = 0
    /\ pc \in {"dfs", "idom", "tree"} => v = 0
    /\ pc \in {"dfs", "semi", "bucket", "idom"} => m_dominators = None
    /\ pc = "idom" => IdomInv
    /\ pc = "tree" => TreeInv
    /\ pc \in {"dfs", "semi", "bucket", "idom", "tree"} => m_dominance_frontier = None /\ x = 0
    /\ pc = "frontier" => FrontierInv
    /\ ImmediateRight /\ DominatorsRight /\ FrontierRight

-----------------------------------------------------------------------------
(* Reachability.                                                           *)

\* What a block reaches is closed and the least closed set with the block.
LEMMA ReachClosed ==
    ASSUME NEW B, NEW R \in [B -> SUBSET B], NEW a \in B
    PROVE  a \in Reach(R, a) /\ Reach(R, a) \subseteq B /\ Closed(R, Reach(R, a))
BY DEF Reach, Closed

\* What a block reaches lies in every closed set with the block.
LEMMA ReachLeast ==
    ASSUME NEW B, NEW R \in [B -> SUBSET B], NEW S \in SUBSET B, NEW a \in S, Closed(R, S)
    PROVE  Reach(R, a) \subseteq S
BY DEF Reach

\* A block reaches what a block it reaches does.
LEMMA ReachTransitive ==
    ASSUME NEW B, NEW R \in [B -> SUBSET B], NEW a \in B, NEW b \in Reach(R, a)
    PROVE  b \in B /\ Reach(R, b) \subseteq Reach(R, a)
<1>1. b \in B /\ Reach(R, a) \in SUBSET B /\ Closed(R, Reach(R, a))
  BY ReachClosed
<1> QED  BY <1>1, ReachLeast

\* One step first.
LEMMA ReachOne ==
    ASSUME NEW B, NEW R \in [B -> SUBSET B], NEW a \in B, NEW b \in B, R[a] = {b}
    PROVE  Reach(R, a) = {a} \cup Reach(R, b)
<1>1. a \in Reach(R, a) /\ b \in Reach(R, a)
  BY ReachClosed DEF Closed
<1>2. Reach(R, b) \subseteq B /\ Closed(R, Reach(R, b)) /\ b \in Reach(R, b)
  BY ReachClosed
<1>3. Closed(R, {a} \cup Reach(R, b)) /\ {a} \cup Reach(R, b) \in SUBSET B
  BY <1>2 DEF Closed
<1>4. Reach(R, a) \subseteq {a} \cup Reach(R, b)
  BY <1>3, ReachLeast
<1> QED  BY <1>1, <1>4, ReachTransitive

\* Without a step a block reaches itself.
LEMMA ReachNone ==
    ASSUME NEW B, NEW R \in [B -> SUBSET B], NEW a \in B, R[a] = {}
    PROVE  Reach(R, a) = {a}
<1>1. Closed(R, {a}) /\ {a} \in SUBSET B
  BY DEF Closed
<1> QED  BY <1>1, ReachLeast, ReachClosed

\* What a block reaches does not change with the edges of one it does not reach.
LEMMA ReachUnchanged ==
    ASSUME NEW B, NEW R \in [B -> SUBSET B], NEW T \in [B -> SUBSET B], NEW a \in B,
           \A b \in Reach(R, a) : R[b] = T[b]
    PROVE  Reach(T, a) = Reach(R, a)
<1>1. Reach(R, a) \in SUBSET B /\ a \in Reach(R, a) /\ Closed(R, Reach(R, a))
  BY ReachClosed
<1>2. Closed(T, Reach(R, a))
  BY <1>1 DEF Closed
<1>3. Reach(T, a) \subseteq Reach(R, a)
  BY <1>1, <1>2, ReachLeast
<1>4. Reach(T, a) \in SUBSET B /\ a \in Reach(T, a) /\ Closed(T, Reach(T, a))
  BY ReachClosed
<1>5. Closed(R, Reach(T, a))
  BY <1>3, <1>4 DEF Closed
<1> QED  BY <1>3, <1>4, <1>5, ReachLeast

-----------------------------------------------------------------------------
(* Dominance.                                                              *)

\* The blocks of a flow graph are numbered from the entry, which reaches them all.
LEMMA GraphShape ==
    ASSUME f_graph \in Graphs
    PROVE  /\ f_graph \in [Block -> SUBSET Block] /\ Reach(f_graph, 1) = Block
           /\ Block = 1..Cardinality(Block) /\ Cardinality(Block) \in Nat \ {0}
           /\ 1 \in Block /\ 0 \notin Block
<1> DEFINE n == Cardinality(DOMAIN f_graph)
<1>1. n \in Nat \ {0} /\ f_graph \in [1..n -> SUBSET (1..n)] /\ Reach(f_graph, 1) = 1..n
  BY GraphsAssumption
<1>2. Block = 1..n /\ Cardinality(Block) = n
  BY <1>1 DEF Block
<1> HIDE DEF n
<1> QED  BY <1>1, <1>2

\* The graph with the edges to a left out.
LEMMA AvoidingShape ==
    ASSUME f_graph \in Graphs, NEW a \in Block
    PROVE  Avoiding(a) \in [Block -> SUBSET Block]
BY GraphShape DEF Avoiding

\* Without(a), for a block other than the entry, is the least set with the
\* entry that no edge leaves but to a.
LEMMA WithoutClosed ==
    ASSUME f_graph \in Graphs, NEW a \in Block
    PROVE  /\ Without(a) \subseteq Block /\ a \notin Without(a)
           /\ a # 1 => 1 \in Without(a)
           /\ \A s \in Without(a) : \A t \in f_graph[s] : t # a => t \in Without(a)
<1>1. CASE a = 1
  BY <1>1 DEF Without
<1>2. CASE a # 1
  <2>1. Without(a) = Reach(Avoiding(a), 1)
    BY <1>2 DEF Without
  <2>2. 1 \in Block /\ Avoiding(a) \in [Block -> SUBSET Block]
    BY GraphShape, AvoidingShape
  <2>3. 1 \in Without(a) /\ Without(a) \subseteq Block /\ Closed(Avoiding(a), Without(a))
    BY <2>1, <2>2, ReachClosed
  <2>4. Closed(Avoiding(a), Block \ {a}) /\ Block \ {a} \in SUBSET Block /\ 1 \in Block \ {a}
    BY <2>2, <1>2 DEF Closed, Avoiding
  <2>5. a \notin Without(a)
    BY <2>1, <2>2, <2>4, ReachLeast
  <2> QED  BY <2>3, <2>5, GraphShape DEF Closed, Avoiding
<1> QED  BY <1>1, <1>2

\* Without(a) lies in every set with the entry that no edge leaves but to a.
LEMMA WithoutLeast ==
    ASSUME f_graph \in Graphs, NEW a \in Block, NEW S \in SUBSET Block, 1 \in S,
           \A s \in S : \A t \in f_graph[s] : t # a => t \in S
    PROVE  Without(a) \subseteq S
<1>1. 1 \in Block /\ Avoiding(a) \in [Block -> SUBSET Block]
  BY GraphShape, AvoidingShape
<1>2. Closed(Avoiding(a), S)
  BY <1>1, GraphShape DEF Closed, Avoiding
<1>3. Reach(Avoiding(a), 1) \subseteq S
  BY <1>1, <1>2, ReachLeast
<1> QED  BY <1>3 DEF Without

\* Dominance is an order with the entry below everything.
LEMMA DomReflexive ==
    ASSUME f_graph \in Graphs, NEW a \in Block
    PROVE  Dom(a, a) /\ Dom(1, a) /\ (Dom(a, 1) => a = 1)
BY WithoutClosed DEF Dom, Without

\* What is reached without a is reached without a block that a dominates.
LEMMA WithoutMonotone ==
    ASSUME f_graph \in Graphs, NEW a \in Block, NEW b \in Block, Dom(a, b)
    PROVE  Without(a) \subseteq Without(b)
<1>1. CASE a = 1
  BY <1>1 DEF Without
<1>2. CASE a # 1
  <2> DEFINE S == Without(a) \cap Without(b)
  <2>1. b # 1
    BY <1>2, DomReflexive
  <2>2. 1 \in S /\ S \in SUBSET Block
    BY <1>2, <2>1, WithoutClosed
  <2>3. \A s \in S : \A t \in f_graph[s] : t # a => t \in S
    BY WithoutClosed DEF Dom
  <2>4. Without(a) \subseteq S
    BY <2>2, <2>3, WithoutLeast
  <2> QED  BY <2>4
<1> QED  BY <1>1, <1>2

\* Dominance is transitive.
LEMMA DomTransitive ==
    ASSUME f_graph \in Graphs, NEW a \in Block, NEW b \in Block, NEW c \in Block,
           Dom(a, b), Dom(b, c)
    PROVE  Dom(a, c)
BY WithoutMonotone DEF Dom

\* Dominance is antisymmetric: it would cut both off from the entry.
LEMMA DomAntisymmetric ==
    ASSUME f_graph \in Graphs, NEW a \in Block, NEW b \in Block, Dom(a, b), Dom(b, a)
    PROVE  a = b
<1> SUFFICES ASSUME a # b  PROVE FALSE
  OBVIOUS
<1>1. a # 1 /\ b # 1
  BY DomReflexive
<1>2. Without(a) = Without(b)
  BY WithoutMonotone
<1>3. 1 \in Without(a) /\ Without(a) \in SUBSET Block
  BY <1>1, WithoutClosed
<1>4. Closed(f_graph, Without(a))
  <2> SUFFICES ASSUME NEW s \in Without(a), NEW t \in f_graph[s]
               PROVE  t \in Without(a)
    BY DEF Closed
  <2> QED  BY <1>2, WithoutClosed
<1>5. Reach(f_graph, 1) \subseteq Without(a)
  BY <1>3, <1>4, GraphShape, ReachLeast
<1> QED  BY <1>5, GraphShape, WithoutClosed

\* A strict dominator dominates every predecessor.
LEMMA DomPredecessor ==
    ASSUME f_graph \in Graphs, NEW a \in Block, NEW s \in Block, NEW t \in f_graph[s], StrictDom(a, t)
    PROVE  Dom(a, s)
BY WithoutClosed DEF Dom, StrictDom

-----------------------------------------------------------------------------
(* Ancestors in the depth first tree.                                      *)

Shape == /\ f_graph \in Graphs
         /\ dfn \in [Block -> Nat] /\ co \in Nat /\ fa \in [Block -> Block \cup {0}]
DfsTree == Shape /\ Numbering
Tree == DfsTree /\ UpwardEdges /\ Intervals /\ AllNumbered

\* A block has at most one parent.
LEMMA ParentShape ==
    ASSUME Shape
    PROVE  Parent \in [Block -> SUBSET Block]
BY DEF Shape, Parent

\* Ancestors are blocks, and their ancestors are ancestors.
LEMMA AncBasics ==
    ASSUME Shape, NEW w \in Block
    PROVE  /\ w \in Anc(w) /\ Anc(w) \subseteq Block
           /\ \A u \in Anc(w) : Anc(u) \subseteq Anc(w)
BY ParentShape, ReachClosed, ReachTransitive DEF Anc

\* The ancestors of a block are itself and those of its parent.
LEMMA AncParent ==
    ASSUME Shape, NEW w \in Block
    PROVE  Anc(w) = IF fa[w] = 0 THEN {w} ELSE {w} \cup Anc(fa[w])
<1>1. CASE fa[w] = 0
  <2>1. Parent[w] = {}
    BY <1>1 DEF Parent
  <2> QED  BY <1>1, <2>1, ParentShape, ReachNone DEF Anc
<1>2. CASE fa[w] # 0
  <2>1. fa[w] \in Block /\ Parent[w] = {fa[w]}
    BY <1>2 DEF Parent, Shape
  <2> QED  BY <1>2, <2>1, ParentShape, ReachOne DEF Anc
<1> QED  BY <1>1, <1>2

\* Ancestors have smaller numbers.
LEMMA AncOrder ==
    ASSUME DfsTree, NEW w \in Block, Visited(w), NEW u \in Anc(w)
    PROVE  /\ u \in Block /\ Visited(u) /\ dfn[u] <= dfn[w]
           /\ u # w => w # 1 /\ dfn[u] < dfn[w] /\ u \in Anc(fa[w])
<1> DEFINE S == {y \in Block : Visited(y) /\ dfn[y] <= dfn[w]}
<1>1. Shape
  BY DEF DfsTree
<1>2. Closed(Parent, S)
  BY GraphShape DEF Closed, Parent, DfsTree, Shape, Numbering
<1>3. w \in S /\ S \in SUBSET Block
  BY DEF DfsTree, Shape
<1>4. u \in S
  BY <1>1, <1>2, <1>3, ParentShape, ReachLeast DEF Anc
<1>5. u # w => fa[w] # 0 /\ u \in Anc(fa[w])
  BY <1>1, AncParent
<1>6. u # w => dfn[u] # dfn[w] /\ w # 1
  BY <1>4, <1>5 DEF DfsTree, Numbering, Visited
<1> QED  BY <1>4, <1>5, <1>6 DEF DfsTree, Shape

\* The entry has no ancestor but itself.
LEMMA AncEntry ==
    ASSUME DfsTree
    PROVE  Anc(1) = {1}
BY AncParent, GraphShape DEF DfsTree, Numbering, Shape

\* Numbers are numbers, and different blocks have different ones.
LEMMA TreeNumbers ==
    ASSUME Tree
    PROVE  /\ 1 \in Block /\ 0 \notin Block
           /\ \A b \in Block : dfn[b] \in 1..co /\ (dfn[b] = 1 <=> b = 1)
           /\ \A a, b \in Block : dfn[a] = dfn[b] => a = b
           /\ \A b \in Block \ {1} : /\ fa[b] \in Block /\ b \in f_graph[fa[b]]
                                     /\ dfn[fa[b]] < dfn[b] /\ fa[b] \in Anc(b)
           /\ \A b \in Block : 1 \in Anc(b)
<1>1. Shape /\ Numbering /\ AllNumbered
  BY DEF Tree, DfsTree
<1>2. 1 \in Block /\ 0 \notin Block
  BY <1>1, GraphShape DEF Shape
<1>3. \A b \in Block : dfn[b] \in 1..co
  BY <1>1 DEF Shape, Numbering, AllNumbered, Visited
<1>4. \A a, b \in Block : dfn[a] = dfn[b] => a = b
  BY <1>1 DEF Numbering, AllNumbered
<1>5. \A b \in Block \ {1} : fa[b] \in Block /\ b \in f_graph[fa[b]] /\ dfn[fa[b]] < dfn[b]
  BY <1>1 DEF Numbering, AllNumbered
<1>6. \A b \in Block \ {1} : fa[b] \in Anc(b)
  BY <1>1, <1>2, <1>5, AncParent, AncBasics
<1> QED  BY <1>1, <1>2, <1>3, <1>4, <1>5, <1>6 DEF Numbering, AllNumbered

\* Everything but a that the tree leads to from S below u is in S.
LEMMA TreePath ==
    ASSUME Tree, NEW S \in SUBSET Block, NEW a \in Block,
           \A s \in S : \A t \in f_graph[s] : t # a => t \in S,
           NEW w \in Block, NEW u \in Anc(w), u \in S,
           \A y \in Anc(w) : dfn[u] < dfn[y] => y # a
    PROVE  w \in S
<1> SUFFICES ASSUME w \notin S  PROVE FALSE
  OBVIOUS
<1> DEFINE Q == {y \in Anc(w) : y \notin S /\ u \in Anc(y)}
<1>1. Shape /\ DfsTree
  BY DEF Tree, DfsTree
<1>2. w \in Q /\ Q \in SUBSET Block
  BY <1>1, AncBasics
<1>3. ASSUME NEW y \in Q
      PROVE  Parent[y] \subseteq Q
  <2>1. y \in Block /\ y # u /\ u \in Anc(y) /\ Visited(y)
    BY <1>2 DEF Tree, AllNumbered
  <2>2. y # 1 /\ dfn[u] < dfn[y] /\ u \in Anc(fa[y])
    BY <1>1, <2>1, AncOrder
  <2>3. y \in f_graph[fa[y]] /\ fa[y] \in Block /\ fa[y] \in Anc(y)
    BY <2>1, <2>2, TreeNumbers
  <2>4. fa[y] \in Anc(w)
    BY <1>1, <2>3, AncBasics
  <2>5. fa[y] \notin S
    BY <2>2, <2>3
  <2> QED  BY <2>1, <2>2, <2>4, <2>5 DEF Parent
<1>4. Closed(Parent, Q)
  BY <1>3 DEF Closed
<1>5. Anc(w) \subseteq Q
  BY <1>1, <1>2, <1>4, ParentShape, ReachLeast DEF Anc
<1> QED  BY <1>5

\* The ancestors of a block cross every number below its own.
LEMMA TreeCrossing ==
    ASSUME Tree, NEW w \in Block, NEW t \in Block, dfn[t] < dfn[w]
    PROVE  \E c \in Anc(w) : c \in Block \ {1} /\ dfn[t] < dfn[c] /\ dfn[fa[c]] <= dfn[t]
<1> SUFFICES ASSUME \A c \in Anc(w) : c # 1 /\ dfn[t] < dfn[c] => ~(dfn[fa[c]] <= dfn[t])
             PROVE  FALSE
  BY AncBasics DEF Tree, DfsTree
<1> DEFINE Q == {y \in Anc(w) : dfn[t] < dfn[y]}
<1>1. Shape /\ dfn \in [Block -> Nat]
  BY DEF Tree, DfsTree, Shape
<1>2. w \in Q /\ Q \in SUBSET Block
  BY <1>1, AncBasics
<1>3. ASSUME NEW y \in Q
      PROVE  Parent[y] \subseteq Q
  <2>1. y \in Block /\ y # 1
    BY <1>1, <1>2, TreeNumbers
  <2>2. fa[y] \in Block /\ fa[y] \in Anc(w)
    BY <1>1, <2>1, TreeNumbers, AncBasics
  <2>3. dfn[t] < dfn[fa[y]]
    BY <1>1, <2>1, <2>2
  <2> QED  BY <2>1, <2>2, <2>3 DEF Parent
<1>4. Closed(Parent, Q)
  BY <1>3 DEF Closed
<1>5. Anc(w) \subseteq Q
  BY <1>1, <1>2, <1>4, ParentShape, ReachLeast DEF Anc
<1> QED  BY <1>1, <1>5, TreeNumbers

-----------------------------------------------------------------------------
(* Semidominators and dominators: Lengauer and Tarjan's theorems.          *)

Semidominators ==
    /\ sdom \in [Block -> Block \cup {0}]
    /\ \A w \in Block : sdom[w] \in Anc(w) /\ Sound(w) /\ \A p \in Predecessors(w) : Covers(w, p)

\* The semidominator of a block is an ancestor above its parent or its parent.
LEMMA SemiAboveParent ==
    ASSUME Tree, Semidominators, NEW w \in Block \ {1}
    PROVE  /\ sdom[w] \in Block /\ dfn[sdom[w]] <= dfn[fa[w]] /\ dfn[sdom[w]] < dfn[w]
<1>1. fa[w] \in Block /\ w \in f_graph[fa[w]] /\ dfn[fa[w]] < dfn[w]
  BY TreeNumbers
<1>2. Covers(w, fa[w])
  BY <1>1 DEF Semidominators, Predecessors
<1>3. sdom[w] \in Block
  BY AncBasics DEF Semidominators, Tree, DfsTree
<1> QED  BY <1>1, <1>2, <1>3 DEF Covers, Tree, DfsTree, Shape

\* a is above w, and nothing between them has a semidominator above a.
Between(a, w) ==
    /\ a \in Anc(w) /\ a # w
    /\ \A u \in Anc(w) : dfn[a] < dfn[u] => dfn[a] <= dfn[sdom[u]]

\* The blocks below a that no semidominator leads into are entered from a only.
LEMMA BetweenEntered ==
    ASSUME Tree, Semidominators, NEW a \in Block,
           NEW s \in Block, s # a, NEW t \in f_graph[s], t \in Block, Between(a, t)
    PROVE  Between(a, s)
<1>0. Shape /\ DfsTree /\ dfn \in [Block -> Nat]
  BY DEF Tree, DfsTree, Shape
<1>1. Covers(t, s)
  BY DEF Semidominators, Predecessors
<1>2. a \in Anc(t) /\ dfn[a] < dfn[t] /\ dfn[a] <= dfn[sdom[t]]
  BY <1>0, AncOrder, AncBasics DEF Between, Tree, AllNumbered
<1>3. sdom[t] \in Block /\ \A u \in Block : sdom[u] \in Block
  BY <1>0, AncBasics DEF Semidominators
<1>4. CASE dfn[s] <= dfn[t]
  <2>1. dfn[a] <= dfn[s] /\ dfn[a] # dfn[s]
    BY <1>0, <1>1, <1>2, <1>3, <1>4, TreeNumbers DEF Covers
  <2>2. a \in Anc(s)
    BY <1>0, <1>2, <1>4, <2>1 DEF Tree, Intervals, AllNumbered
  <2>3. CASE s = t
    BY <2>3
  <2>4. CASE s # t
    <3>1. s \in Anc(t)
      BY <1>0, <1>4, <2>4, TreeNumbers DEF Tree, UpwardEdges, AllNumbered
    <3> QED  BY <1>0, <2>2, <3>1, AncBasics DEF Between
  <2> QED  BY <2>3, <2>4
<1>5. CASE dfn[t] < dfn[s]
  <2>1. PICK c \in Anc(s) : c \in Block \ {1} /\ dfn[t] < dfn[c] /\ dfn[fa[c]] <= dfn[t]
    BY <1>5, TreeCrossing
  <2>2. fa[c] \in Block /\ fa[c] \in Anc(s) /\ dfn[sdom[c]] <= dfn[fa[c]]
    BY <1>0, <2>1, TreeNumbers, SemiAboveParent, AncBasics
  <2>3. dfn[sdom[t]] <= dfn[sdom[c]]
    BY <1>1, <2>1 DEF Covers
  <2>4. dfn[a] <= dfn[fa[c]]
    BY <1>0, <1>2, <1>3, <2>1, <2>2, <2>3
  <2>5. a \in Anc(fa[c])
    BY <1>0, <1>2, <2>1, <2>2, <2>4 DEF Tree, Intervals, AllNumbered
  <2>6. a \in Anc(s)
    BY <1>0, <2>2, <2>5, AncBasics
  <2>7. ASSUME NEW u \in Anc(s), dfn[a] < dfn[u]
        PROVE  dfn[a] <= dfn[sdom[u]]
    <3>1. u \in Block
      BY <1>0, AncBasics
    <3>2. CASE dfn[t] < dfn[u]
      BY <1>0, <1>1, <1>2, <1>3, <3>1, <3>2 DEF Covers
    <3>3. CASE dfn[u] <= dfn[t]
      <4>1. u \in Anc(t)
        BY <1>0, <1>5, <3>1, <3>3 DEF Tree, Intervals, AllNumbered
      <4> QED  BY <4>1, <2>7 DEF Between
    <3> QED  BY <1>0, <3>1, <3>2, <3>3
  <2> QED  BY <2>6, <2>7 DEF Between
<1> QED  BY <1>0, <1>4, <1>5

\* The strict dominators of a block are its ancestors that no semidominator
\* on the way passes.
LEMMA BetweenDominates ==
    ASSUME Tree, Semidominators, NEW a \in Block, NEW w \in Block, Between(a, w)
    PROVE  StrictDom(a, w)
<1> DEFINE S == {b \in Block : b # a /\ ~Between(a, b)}
<1>0. Shape /\ f_graph \in Graphs
  BY DEF Tree, DfsTree, Shape
<1>1. CASE a = 1
  BY <1>0, <1>1, DomReflexive DEF StrictDom, Between
<1>2. CASE a # 1
  <2>1. 1 \in S
    BY <1>2, TreeNumbers, AncEntry DEF Between, Tree
  <2>2. \A s \in S : \A t \in f_graph[s] : t # a => t \in S
    BY <1>0, GraphShape, BetweenEntered
  <2>3. Without(a) \subseteq S
    BY <1>0, <2>1, <2>2, WithoutLeast
  <2> QED  BY <2>3 DEF StrictDom, Dom, Between
<1> QED  BY <1>1, <1>2

\* A strict dominator is above the block, and nothing between them has a
\* semidominator above it.
LEMMA DominatesBetween ==
    ASSUME Tree, Semidominators, NEW a \in Block, NEW w \in Block, StrictDom(a, w)
    PROVE  Between(a, w)
<1> DEFINE S == Without(a)
<1>0. Shape /\ DfsTree /\ f_graph \in Graphs /\ dfn \in [Block -> Nat] /\ 1 \in Block
  BY TreeNumbers DEF Tree, DfsTree, Shape
<1>1. S \in SUBSET Block /\ w \notin S /\ w # a
  BY <1>0, WithoutClosed DEF StrictDom, Dom
<1>2. \A s \in S : \A t \in f_graph[s] : t # a => t \in S
  BY <1>0, WithoutClosed
<1>3. 1 \in Anc(w) /\ Anc(w) \subseteq Block
  BY <1>0, TreeNumbers, AncBasics
<1>4. a \in Anc(w)
  <2> SUFFICES ASSUME a \notin Anc(w)  PROVE FALSE
    OBVIOUS
  <2>1. a # 1 /\ 1 \in S
    BY <1>0, <1>3, WithoutClosed
  <2>2. \A y \in Anc(w) : dfn[1] < dfn[y] => y # a
    OBVIOUS
  <2> HIDE DEF S
  <2>3. w \in S
    BY <1>1, <1>2, <1>3, <2>1, <2>2, TreePath
  <2> QED  BY <1>1, <2>3
<1>5. ASSUME NEW u \in Anc(w), dfn[a] < dfn[u], ~(dfn[a] <= dfn[sdom[u]])
      PROVE  FALSE
  <2>1. u \in Block /\ sdom[u] \in Anc(u) /\ sdom[u] \in Block
    BY <1>0, <1>3, AncBasics DEF Semidominators
  <2>2. dfn[sdom[u]] < dfn[a] /\ a # 1
    BY <1>0, <1>5, <2>1, TreeNumbers
  <2>3. 1 \in S /\ 1 \in Anc(sdom[u])
    BY <1>0, <2>1, <2>2, TreeNumbers, WithoutClosed
  <2>4. \A y \in Anc(sdom[u]) : dfn[1] < dfn[y] => y # a
    BY <1>0, <2>1, <2>2, AncOrder DEF Tree, AllNumbered
  <2>5. sdom[u] \in S
    <3> HIDE DEF S
    <3> QED  BY <1>1, <1>2, <2>1, <2>3, <2>4, TreePath
  <2>6. Closed(Avoiding(a), S)
    BY <1>0, <1>1, <1>2, GraphShape DEF Closed, Avoiding
  <2>7. u \in S
    BY <1>1, <1>5, <2>1, <2>2, <2>5, <2>6 DEF Semidominators, Sound
  <2>8. \A y \in Anc(w) : dfn[u] < dfn[y] => y # a
    BY <1>0, <1>3, <1>5, <2>1
  <2>9. w \in S
    <3> HIDE DEF S
    <3> QED  BY <1>1, <1>2, <2>7, <2>8, TreePath
  <2> QED  BY <1>1, <2>9
<1> QED  BY <1>1, <1>4, <1>5 DEF Between

\* If nothing on the way from p = sdom[w] down to w has a semidominator
\* above p, then p is the immediate dominator of w.
LEMMA SemiIsIdom ==
    ASSUME Tree, Semidominators, NEW w \in Block \ {1},
           \A y \in Anc(w) : dfn[sdom[w]] < dfn[y] => dfn[sdom[w]] <= dfn[sdom[y]]
    PROVE  IsIdom(sdom[w], w)
<1>0. Shape /\ DfsTree /\ f_graph \in Graphs /\ dfn \in [Block -> Nat]
  BY DEF Tree, DfsTree, Shape
<1>1. sdom[w] \in Block /\ dfn[sdom[w]] < dfn[w] /\ sdom[w] \in Anc(w) /\ w \in Anc(w)
  BY <1>0, SemiAboveParent, AncBasics DEF Semidominators
<1>2. StrictDom(sdom[w], w)
  <2>1. Between(sdom[w], w)
    BY <1>0, <1>1 DEF Between
  <2> QED  BY <1>1, <2>1, BetweenDominates
<1>3. ASSUME NEW a \in Block, StrictDom(a, w)
      PROVE  Dom(a, sdom[w])
  <2>1. Between(a, w)
    BY <1>3, DominatesBetween
  <2>2. dfn[a] < dfn[w]
    BY <1>0, <2>1, AncOrder DEF Between, Tree, AllNumbered
  <2>3. dfn[a] <= dfn[sdom[w]]
    BY <1>1, <2>1, <2>2 DEF Between
  <2>4. CASE a = sdom[w]
    BY <1>0, <1>1, <2>4, DomReflexive
  <2>5. CASE a # sdom[w]
    <3>1. a \in Anc(sdom[w])
      BY <1>0, <1>1, <2>1, <2>3 DEF Between, Tree, Intervals, AllNumbered
    <3>2. Between(a, sdom[w])
      BY <1>0, <1>1, <2>1, <2>5, <3>1, AncBasics DEF Between
    <3> QED  BY <1>1, <3>2, BetweenDominates DEF StrictDom
  <2> QED  BY <2>4, <2>5
<1> QED  BY <1>2, <1>3 DEF IsIdom

\* Otherwise w has the immediate dominator of the block u on the way whose
\* semidominator is the least.
LEMMA LeastHasIdom ==
    ASSUME Tree, Semidominators, NEW w \in Block \ {1},
           NEW u \in Anc(w), dfn[sdom[w]] < dfn[u],
           dfn[sdom[u]] < dfn[sdom[w]],
           \A y \in Anc(w) : dfn[sdom[w]] < dfn[y] => dfn[sdom[u]] <= dfn[sdom[y]],
           NEW d \in Block, IsIdom(d, u)
    PROVE  IsIdom(d, w)
<1>0. Shape /\ DfsTree /\ f_graph \in Graphs /\ dfn \in [Block -> Nat]
  BY DEF Tree, DfsTree, Shape
<1>1. /\ sdom[w] \in Block /\ dfn[sdom[w]] < dfn[w] /\ sdom[w] \in Anc(w) /\ w \in Anc(w)
      /\ u \in Block /\ sdom[u] \in Block /\ dfn[u] <= dfn[w] /\ Anc(u) \subseteq Anc(w)
  BY <1>0, SemiAboveParent, AncBasics, AncOrder DEF Semidominators, Tree, AllNumbered
<1>2. ASSUME NEW a \in Block, StrictDom(a, w)
      PROVE  StrictDom(a, u)
  <2>1. Between(a, w)
    BY <1>2, DominatesBetween
  <2>2. dfn[a] < dfn[w]
    BY <1>0, <2>1, AncOrder DEF Between, Tree, AllNumbered
  <2>3. dfn[a] <= dfn[sdom[w]]
    BY <1>1, <2>1, <2>2 DEF Between
  <2>4. a \in Anc(u) /\ a # u
    BY <1>0, <1>1, <2>1, <2>3 DEF Between, Tree, Intervals, AllNumbered
  <2>5. Between(a, u)
    BY <1>1, <2>1, <2>4 DEF Between
  <2> QED  BY <1>1, <2>5, BetweenDominates
<1>3. Between(d, u)
  BY <1>1, DominatesBetween DEF IsIdom
<1>4. d \in Anc(u) /\ dfn[d] < dfn[u] /\ dfn[d] <= dfn[sdom[u]]
  BY <1>0, <1>1, <1>3, AncOrder, AncBasics DEF Between, Tree, AllNumbered
<1>5. ASSUME NEW y \in Anc(w), dfn[d] < dfn[y]
      PROVE  dfn[d] <= dfn[sdom[y]]
  <2>1. y \in Block /\ sdom[y] \in Block
    BY <1>0, AncBasics DEF Semidominators
  <2>2. CASE dfn[y] <= dfn[u]
    <3>1. y \in Anc(u)
      BY <1>0, <1>1, <2>1, <2>2 DEF Tree, Intervals, AllNumbered
    <3> QED  BY <1>3, <1>5, <3>1 DEF Between
  <2>3. CASE dfn[u] < dfn[y]
    BY <1>0, <1>1, <1>4, <2>1, <2>3
  <2> QED  BY <1>0, <1>1, <2>1, <2>2, <2>3
<1>6. StrictDom(d, w)
  <2>1. Between(d, w)
    BY <1>0, <1>1, <1>4, <1>5 DEF Between
  <2> QED  BY <2>1, BetweenDominates
<1> QED  BY <1>2, <1>6 DEF IsIdom

-----------------------------------------------------------------------------
(* The numbering.                                                          *)

\* What depends on the graph and on the numbering alone.
LEMMA Static ==
    ASSUME UNCHANGED <<f_graph, dfsVars>>
    PROVE  /\ Block' = Block
           /\ \A w : Anc(w)' = Anc(w)
           /\ \A k : ord(k)' = ord(k)
           /\ \A b : Predecessors(b)' = Predecessors(b)
           /\ \A a, b : Dom(a, b)' <=> Dom(a, b)
           /\ \A a, b : StrictDom(a, b)' <=> StrictDom(a, b)
           /\ \A a, b : IsIdom(a, b)' <=> IsIdom(a, b)
           /\ \A a : Avoiding(a)' = Avoiding(a)
<1>1. Block' = Block /\ f_graph' = f_graph /\ dfn' = dfn /\ fa' = fa
  BY DEF Block, dfsVars
<1>2. ASSUME NEW w
      PROVE  Anc(w)' = Anc(w)
  BY <1>1 DEF Anc, Parent
<1>3. ASSUME NEW k
      PROVE  ord(k)' = ord(k) /\ Predecessors(k)' = Predecessors(k)
  BY <1>1 DEF ord, Predecessors
<1>4. ASSUME NEW a
      PROVE  Avoiding(a)' = Avoiding(a) /\ Without(a)' = Without(a)
  BY <1>1 DEF Avoiding, Without
<1>5. ASSUME NEW a, NEW b
      PROVE  /\ Dom(a, b)' <=> Dom(a, b)
             /\ StrictDom(a, b)' <=> StrictDom(a, b)
  BY <1>4 DEF Dom, StrictDom
<1>6. ASSUME NEW a, NEW b
      PROVE  IsIdom(a, b)' <=> IsIdom(a, b)
  BY <1>1, <1>5 DEF IsIdom
<1> QED  BY <1>1, <1>2, <1>3, <1>4, <1>5, <1>6

\* Nor do the parts of the invariant that are about the depth first tree.
LEMMA StaticTree ==
    ASSUME UNCHANGED <<f_graph, dfsVars>>
    PROVE  /\ Shape' <=> Shape
           /\ Numbering' <=> Numbering
           /\ UpwardEdges' <=> UpwardEdges
           /\ Intervals' <=> Intervals
           /\ AllNumbered' <=> AllNumbered
<1>1. Block' = Block /\ f_graph' = f_graph /\ dfn' = dfn /\ fa' = fa /\ co' = co
  BY DEF Block, dfsVars
<1>2. \A w : Anc(w)' = Anc(w)
  BY Static
<1>3. Shape' <=> Shape
  BY <1>1 DEF Shape
<1>4. Numbering' <=> Numbering
  BY <1>1, <1>2 DEF Numbering, Visited
<1>5. UpwardEdges' <=> UpwardEdges
  BY <1>1, <1>2 DEF UpwardEdges, Visited
<1>6. Intervals' <=> Intervals
  BY <1>1, <1>2 DEF Intervals, Visited
<1>7. AllNumbered' <=> AllNumbered
  BY <1>1 DEF AllNumbered, Visited
<1> QED  BY <1>3, <1>4, <1>5, <1>6, <1>7

\* A visit adds a leaf to the tree.
LEMMA VisitTree ==
    ASSUME DfsTree, cur \in Block, Visited(cur), NEW b \in Block, Visit(b)
    PROVE  /\ Block' = Block /\ b # cur /\ b # 1 /\ Shape'
           /\ \A w \in Block \ {b} : Anc(w)' = Anc(w) /\ b \notin Anc(w)
           /\ Anc(b)' = {b} \cup Anc(cur)
           /\ \A w \in Block \ {b} : dfn'[w] = dfn[w]
           /\ dfn'[b] = co + 1 /\ \A w \in Block : dfn[w] <= co
<1>0. Shape /\ Block' = Block /\ b # cur /\ b # 1 /\ fa[b] = 0
  BY DEF DfsTree, Visit, Visited, Block, Numbering
<1>1. /\ dfn' = [dfn EXCEPT ![b] = co + 1] /\ fa' = [fa EXCEPT ![b] = cur]
      /\ f_graph' = f_graph /\ co' = co + 1
  BY DEF Visit
<1>2. Shape'
  BY <1>0, <1>1 DEF Shape
<1>3. Parent \in [Block -> SUBSET Block] /\ Parent' \in [Block -> SUBSET Block]
  <2>1. Parent \in [Block -> SUBSET Block]
    BY <1>0, ParentShape
  <2>2. Parent' = [w \in Block |-> {fa'[w]} \ {0}]
    BY <1>0 DEF Parent
  <2>3. fa' \in [Block -> Block \cup {0}]
    BY <1>0, <1>1 DEF Shape
  <2> QED  BY <2>1, <2>2, <2>3
<1>4. \A w \in Block \ {b} : Parent'[w] = Parent[w]
  BY <1>0, <1>1 DEF Parent, Shape
<1>5. ASSUME NEW w \in Block \ {b}
      PROVE  Anc(w)' = Anc(w) /\ b \notin Anc(w)
  <2>1. b \notin Anc(w)
    <3>1. CASE Visited(w)
      BY <3>1, AncOrder DEF Visit, Visited
    <3>2. CASE ~Visited(w)
      BY <1>0, <3>2, AncParent DEF DfsTree, Numbering
    <3> QED  BY <3>1, <3>2
  <2>2. Anc(w) \subseteq Block
    BY <1>0, AncBasics
  <2>3. \A y \in Reach(Parent, w) : Parent[y] = Parent'[y]
    BY <1>4, <2>1, <2>2 DEF Anc
  <2>4. Reach(Parent', w) = Reach(Parent, w)
    BY <1>3, <2>3, ReachUnchanged
  <2> QED  BY <2>1, <2>4 DEF Anc
<1>6. Anc(b)' = {b} \cup Anc(cur)
  <2>1. Parent'[b] = {cur}
    <3>1. Parent' = [w \in Block |-> {fa'[w]} \ {0}]
      BY <1>0 DEF Parent
    <3>2. cur # 0 /\ fa'[b] = cur
      BY <1>0, <1>1, GraphShape DEF Shape
    <3> QED  BY <3>1, <3>2
  <2>2. Reach(Parent', b) = {b} \cup Reach(Parent', cur)
    BY <1>3, <2>1, ReachOne
  <2>3. Anc(b)' = Reach(Parent', b) /\ Anc(cur) = Reach(Parent, cur)
    BY DEF Anc
  <2>4. Reach(Parent', cur) = Reach(Parent, cur)
    <3>1. \A y \in Reach(Parent, cur) : Parent[y] = Parent'[y]
      BY <1>0, <1>4, <1>5, AncBasics DEF Anc
    <3> QED  BY <1>3, <3>1, ReachUnchanged
  <2> QED  BY <2>2, <2>3, <2>4
<1>7. /\ \A w \in Block \ {b} : dfn'[w] = dfn[w]
      /\ dfn'[b] = co + 1 /\ \A w \in Block : dfn[w] <= co
  BY <1>0, <1>1 DEF Shape, DfsTree, Numbering
<1> QED  BY <1>0, <1>2, <1>5, <1>6, <1>7

\* A vertex is numbered: the tree grows a leaf below cur.
LEMMA VisitNumbering ==
    ASSUME DfsTree, UpwardEdges, Intervals, DfsInv, cur \in Block, NEW b \in Block, Visit(b)
    PROVE  Numbering' /\ UpwardEdges' /\ Intervals' /\ DfsInv'
<1>0. /\ Shape /\ Visited(cur) /\ b \in f_graph[cur] /\ dfn[b] = 0
      /\ f_graph' = f_graph /\ co' = co + 1 /\ cur' = b
      /\ fa' = [fa EXCEPT ![b] = cur]
      /\ 1 \in Block /\ f_graph \in [Block -> SUBSET Block]
      /\ dfn \in [Block -> Nat] /\ co \in Nat
      /\ fa \in [Block -> Block \cup {0}]
  BY GraphShape DEF DfsTree, DfsInv, Visit, Shape
<1>1. /\ Block' = Block /\ b # cur /\ b # 1 /\ Shape'
      /\ \A w \in Block \ {b} : Anc(w)' = Anc(w) /\ b \notin Anc(w)
      /\ Anc(b)' = {b} \cup Anc(cur)
      /\ \A w \in Block \ {b} : dfn'[w] = dfn[w]
      /\ dfn'[b] = co + 1 /\ \A w \in Block : dfn[w] <= co
  BY <1>0, VisitTree
<1>2. \A w \in Block : w \in Anc(w) /\ Anc(w) \subseteq Block
  BY <1>0, AncBasics
<1>3. \A w \in Block : Visited(w)' <=> (Visited(w) \/ w = b)
  BY <1>0, <1>1 DEF Visited
<1>4. Numbering'
  <2>1. dfn'[1] = 1 /\ fa'[1] = 0
    BY <1>0, <1>1 DEF DfsTree, Numbering
  <2>2. \A w \in Block : dfn'[w] <= co'
    BY <1>0, <1>1
  <2>3. \A w, y \in Block : Visited(w)' /\ dfn'[w] = dfn'[y] => w = y
    BY <1>0, <1>1, <1>3 DEF DfsTree, Numbering, Visited
  <2>4. \A k \in 1..co' : \E w \in Block : dfn'[w] = k
    <3> SUFFICES ASSUME NEW k \in 1..co'  PROVE \E w \in Block : dfn'[w] = k
      OBVIOUS
    <3>1. CASE k = co + 1
      BY <1>1, <3>1
    <3>2. CASE k # co + 1
      <4>1. k \in 1..co
        BY <1>0, <3>2
      <4>2. PICK w \in Block : dfn[w] = k
        BY <4>1 DEF DfsTree, Numbering
      <4> QED  BY <1>0, <1>1, <4>1, <4>2
    <3> QED  BY <3>1, <3>2
  <2>5. \A w \in Block : ~Visited(w)' => fa'[w] = 0
    BY <1>0, <1>3 DEF DfsTree, Numbering
  <2>6. ASSUME NEW w \in Block \ {1}, Visited(w)'
        PROVE  /\ fa'[w] \in Block /\ Visited(fa[w])'
               /\ w \in f_graph[fa'[w]] /\ dfn'[fa'[w]] < dfn'[w]
    <3>1. CASE w = b
      BY <1>0, <1>1, <1>3, <3>1
    <3>2. CASE w # b
      <4>1. Visited(w) /\ fa'[w] = fa[w]
        BY <1>0, <1>3, <2>6, <3>2
      <4>2. fa[w] \in Block /\ Visited(fa[w]) /\ w \in f_graph[fa[w]] /\ dfn[fa[w]] < dfn[w]
        BY <4>1 DEF DfsTree, Numbering
      <4>3. fa[w] # b
        BY <1>0, <4>2 DEF Visited
      <4> QED  BY <1>1, <1>3, <3>2, <4>1, <4>2, <4>3
    <3> QED  BY <3>1, <3>2
  <2>7. \A w \in Block : Visited(w)' => 1 \in Anc(w)'
    BY <1>0, <1>1, <1>3 DEF DfsTree, Numbering
  <2> QED  BY <1>0, <1>1, <2>1, <2>2, <2>3, <2>4, <2>5, <2>6, <2>7 DEF Numbering
<1>5. UpwardEdges'
  <2> SUFFICES ASSUME NEW a \in Block, NEW w \in Block, Visited(a)', w \in f_graph[a], dfn'[a] < dfn'[w]
               PROVE  a \in Anc(w)'
    BY <1>0, <1>1 DEF UpwardEdges
  <2>1. CASE w = b
    <3>1. a # b /\ Visited(a) /\ ~Visited(b)
      BY <1>0, <1>1, <1>3, <2>1 DEF Visited
    <3>2. a \in Anc(cur)
      BY <2>1, <3>1 DEF DfsInv
    <3> QED  BY <1>1, <2>1, <3>2
  <2>2. CASE w # b
    <3>1. a # b
      BY <1>0, <1>1, <2>2
    <3> QED  BY <1>1, <1>3, <2>2, <3>1 DEF UpwardEdges
  <2> QED  BY <2>1, <2>2
<1>6. Intervals'
  <2> SUFFICES ASSUME NEW w \in Block, NEW y \in Block, NEW u \in Anc(w)',
                      Visited(u)', dfn'[u] <= dfn'[y], dfn'[y] <= dfn'[w]
               PROVE  u \in Anc(y)'
    BY <1>1 DEF Intervals
  <2>1. CASE w = b
    <3>1. CASE u = b
      BY <1>0, <1>1, <2>1, <3>1
    <3>2. CASE u # b
      <4>1. u \in Anc(cur) /\ u \in Block
        BY <1>0, <1>1, <1>2, <2>1, <3>2
      <4>2. CASE y = b
        BY <1>1, <4>1, <4>2
      <4>3. CASE y # b
        BY <1>1, <3>2, <4>1, <4>3 DEF DfsInv
      <4> QED  BY <4>2, <4>3
    <3> QED  BY <3>1, <3>2
  <2>2. CASE w # b
    <3>1. y # b /\ u # b /\ u \in Anc(w) /\ u \in Block
      BY <1>0, <1>1, <1>2, <2>2
    <3> QED  BY <1>1, <1>3, <2>2, <3>1 DEF Intervals
  <2> QED  BY <2>1, <2>2
<1>7. DfsInv'
  <2>1. Visited(cur)'
    BY <1>0, <1>3
  <2>2. ASSUME NEW u \in Anc(b)', NEW y \in Block, dfn'[u] <= dfn'[y]
        PROVE  u \in Anc(y)'
    <3>1. CASE u = b
      <4>1. y = b
        BY <1>0, <1>1, <2>2, <3>1
      <4> QED  BY <1>1, <3>1, <4>1
    <3>2. CASE u # b
      <4>1. u \in Anc(cur) /\ u \in Block
        BY <1>0, <1>1, <1>2, <2>2, <3>2
      <4>2. CASE y = b
        BY <1>1, <4>1, <4>2
      <4>3. CASE y # b
        BY <1>1, <2>2, <3>2, <4>1, <4>3 DEF DfsInv
      <4> QED  BY <4>2, <4>3
    <3> QED  BY <3>1, <3>2
  <2>3. ASSUME NEW w \in Block, Visited(w)', w \notin Anc(b)', NEW c \in f_graph[w]
        PROVE  Visited(c)'
    <3>1. w # b /\ w \notin Anc(cur) /\ Visited(w) /\ c \in Block
      BY <1>0, <1>1, <1>3, <2>3
    <3> QED  BY <1>3, <3>1 DEF DfsInv
  <2> QED  BY <1>0, <1>1, <2>1, <2>2, <2>3 DEF DfsInv, Visited, Anc, Parent
<1> QED  BY <1>4, <1>5, <1>6, <1>7

\* The call for a vertex returns: all its successors have numbers.
LEMMA ReturnDfs ==
    ASSUME DfsTree, DfsInv, cur \in Block, Return
    PROVE  fa[cur] \in Block /\ DfsInv'
<1>0. /\ Shape /\ Visited(cur) /\ cur # 1 /\ cur' = fa[cur] /\ UNCHANGED <<f_graph, dfsVars>>
      /\ f_graph \in [Block -> SUBSET Block] /\ 0 \notin Block
  BY GraphShape DEF DfsTree, DfsInv, Return, Shape
<1>1. fa[cur] \in Block /\ Visited(fa[cur])
  BY <1>0 DEF DfsTree, Numbering
<1>2. Anc(cur) = {cur} \cup Anc(fa[cur])
  BY <1>0, <1>1, AncParent
<1>3. \A b \in Block : Visited(b) /\ b \notin Anc(fa[cur]) => \A c \in f_graph[b] : Visited(c)
  BY <1>2 DEF DfsInv, Return, AllVisited, Visited
<1>4. \A u \in Anc(fa[cur]) : \A y \in Block : dfn[u] <= dfn[y] => u \in Anc(y)
  BY <1>2 DEF DfsInv
<1>5. /\ Block' = Block /\ f_graph' = f_graph /\ dfn' = dfn
      /\ \A w : Anc(w)' = Anc(w) /\ (Visited(w)' <=> Visited(w))
  BY <1>0, Static DEF dfsVars, Visited
<1>6. /\ Visited(cur)'
      /\ \A u \in Anc(cur)' : \A y \in Block' : dfn'[u] <= dfn'[y] => u \in Anc(y)'
      /\ \A b \in Block' : Visited(b)' /\ b \notin Anc(cur)' => \A c \in f_graph'[b] : Visited(c)'
  <2>1. Anc(cur)' = Anc(fa[cur])
    BY <1>0 DEF Anc, Parent, Block, dfsVars
  <2>2. Visited(cur)'
    BY <1>0, <1>1 DEF Visited, dfsVars
  <2> QED  BY <1>3, <1>4, <1>5, <2>1, <2>2
<1> QED  BY <1>1, <1>6 DEF DfsInv

\* When the search is back at the entry, it has seen everything.
LEMMA SearchComplete ==
    ASSUME DfsTree, DfsInv, cur = 1, AllVisited
    PROVE  AllNumbered
<1> DEFINE S == {b \in Block : Visited(b)}
<1>0. f_graph \in Graphs /\ Anc(1) = {1} /\ 1 \in S
  BY AncEntry, GraphShape DEF DfsTree, Shape, Numbering, Visited
<1>1. f_graph \in [Block -> SUBSET Block] /\ Reach(f_graph, 1) = Block
  BY <1>0, GraphShape
<1>2. Closed(f_graph, S)
  BY <1>0, <1>1 DEF Closed, DfsInv, AllVisited, Visited
<1>3. S \in SUBSET Block
  OBVIOUS
<1> HIDE DEF S
<1>4. Block \subseteq S
  BY <1>0, <1>1, <1>2, <1>3, ReachLeast
<1> QED  BY <1>4 DEF AllNumbered, S

-----------------------------------------------------------------------------
(* The main loop: facts that every step needs.                             *)

\* ord is the inverse of dfn.
LEMMA OrdNumber ==
    ASSUME Tree
    PROVE  /\ \A k \in 1..co : ord(k) \in Block /\ dfn[ord(k)] = k
           /\ \A b \in Block : ord(dfn[b]) = b
<1>1. \A k \in 1..co : \E b \in Block : dfn[b] = k
  BY DEF Tree, DfsTree, Numbering
<1>2. \A k \in 1..co : ord(k) \in Block /\ dfn[ord(k)] = k
  BY <1>1 DEF ord
<1> QED  BY <1>2, TreeNumbers

\* A proper ancestor has a child on the way down.
LEMMA ChildOnPath ==
    ASSUME Tree, NEW w \in Block, NEW p \in Anc(w), p # w
    PROVE  \E c \in Anc(w) : c \in Block \ {1} /\ fa[c] = p
<1>0. Shape /\ DfsTree /\ dfn \in [Block -> Nat]
  BY DEF Tree, DfsTree, Shape
<1>1. p \in Block /\ dfn[p] < dfn[w]
  BY <1>0, AncOrder DEF Tree, AllNumbered
<1>2. PICK c \in Anc(w) : c \in Block \ {1} /\ dfn[p] < dfn[c] /\ dfn[fa[c]] <= dfn[p]
  BY <1>1, TreeCrossing
<1>3. dfn[c] <= dfn[w] /\ fa[c] \in Block
  BY <1>0, <1>2, AncOrder, TreeNumbers DEF Tree, AllNumbered
<1>4. p \in Anc(c) /\ p # c
  BY <1>0, <1>1, <1>2, <1>3 DEF Tree, Intervals, AllNumbered
<1>5. p \in Anc(fa[c]) /\ dfn[p] <= dfn[fa[c]]
  BY <1>0, <1>2, <1>3, <1>4, AncOrder DEF Tree, AllNumbered
<1>6. dfn[p] = dfn[fa[c]]
  BY <1>0, <1>1, <1>2, <1>3, <1>5
<1> QED  BY <1>1, <1>2, <1>3, <1>6, TreeNumbers

\* The last frame and the ones under it.
LEMMA PathFacts ==
    ASSUME path \in Seq(Block), path # <<>>
    PROVE  /\ Len(path) \in Nat \ {0} /\ Top \in Block /\ Top = path[Len(path)]
           /\ \A j \in 1..Len(path) : path[j] \in Block
           /\ Pop \in Seq(Block) /\ Len(Pop) = Len(path) - 1
           /\ \A j \in 1..(Len(path) - 1) : Pop[j] = path[j]
<1>1. Len(path) \in Nat \ {0} /\ \A j \in 1..Len(path) : path[j] \in Block
  BY EmptySeq
<1>2. Top \in Block /\ Top = path[Len(path)]
  BY <1>1 DEF Top
<1>3. /\ Pop \in Seq(Block) /\ Len(Pop) = Len(path) - 1
      /\ \A j \in 1..(Len(path) - 1) : Pop[j] = path[j]
  <2> DEFINE n == Len(path) - 1
  <2>1. 1 \in Int /\ n \in Int /\ n >= 0 /\ \A j \in 1..n : path[j] \in Block
    BY <1>1
  <2> HIDE DEF n
  <2>2. /\ SubSeq(path, 1, n) \in Seq(Block)
        /\ Len(SubSeq(path, 1, n)) = IF 1 <= n THEN n - 1 + 1 ELSE 0
        /\ \A j \in 1..(n - 1 + 1) : SubSeq(path, 1, n)[j] = path[1 + j - 1]
    BY <2>1, SubSeqProperties
  <2>3. Pop = SubSeq(path, 1, n)
    BY DEF Pop, n
  <2>4. Len(Pop) = n /\ \A j \in 1..n : Pop[j] = path[j]
    BY <2>1, <2>2, <2>3
  <2> QED  BY <2>2, <2>3, <2>4 DEF n
<1> QED  BY <1>1, <1>2, <1>3

(* What holds during the rounds.                                          *)
SearchInv == Tree /\ TypeOK /\ Search /\ ForestInv /\ SemiInv /\ BucketInv /\ FindInv

\* What is typed and in range during the rounds.
LEMMA SearchFacts ==
    ASSUME SearchInv
    PROVE  /\ Shape /\ DfsTree /\ f_graph \in [Block -> SUBSET Block] /\ 0 \notin Block /\ 1 \in Block
           /\ dfn \in [Block -> Nat] /\ i \in Nat /\ i >= 2 /\ i <= co
           /\ \A b \in Block : Visited(b)
           /\ \A b \in Block : Hung(b) <=> dfn[b] > i \/ (pc = "bucket" /\ dfn[b] = i)
           /\ ord(i) \in Block \ {1} /\ dfn[ord(i)] = i
           /\ \A b \in Block : dfn[b] = i => b = ord(i)
           /\ \A w \in Block : sdom[w] \in Block /\ mn[w] \in Block /\ ufs[w] \in Block
<1>1. Shape /\ DfsTree /\ dfn \in [Block -> Nat] /\ co \in Nat
  BY DEF SearchInv, Tree, DfsTree, Shape
<1>2. i \in Nat /\ i >= 2 /\ i <= co
  BY <1>1 DEF SearchInv, FindInv
<1>3. \A b \in Block : Visited(b)
  BY DEF SearchInv, Tree, AllNumbered
<1>4. \A b \in Block : Hung(b) <=> dfn[b] > i \/ (pc = "bucket" /\ dfn[b] = i)
  BY DEF SearchInv, Hung, Search
<1>5. ord(i) \in Block \ {1} /\ dfn[ord(i)] = i /\ \A b \in Block : dfn[b] = i => b = ord(i)
  BY <1>1, <1>2, OrdNumber, TreeNumbers DEF SearchInv
<1>6. \A w \in Block : sdom[w] \in Block /\ mn[w] \in Block /\ ufs[w] \in Block
  <2> SUFFICES ASSUME NEW w \in Block
               PROVE  sdom[w] \in Block /\ mn[w] \in Block /\ ufs[w] \in Block
    OBVIOUS
  <2>1. Anc(w) \subseteq Block /\ sdom[w] \in Anc(w)
    BY <1>1, AncBasics DEF SearchInv, SemiInv
  <2> QED  BY <2>1 DEF SearchInv, ForestInv
<1> QED  BY <1>1, <1>2, <1>3, <1>4, <1>5, <1>6, GraphShape, TreeNumbers DEF SearchInv, Shape

\* A call of find changes neither the semidominators nor the buckets.
LEMMA SemisUnchanged ==
    ASSUME UNCHANGED <<f_graph, dfsVars, pc, i, todo, sdom, aux_graph, idom>>
    PROVE  /\ \A b : Hung(b)' <=> Hung(b)
           /\ SemiInv' <=> SemiInv
           /\ BucketInv' <=> BucketInv
<1>1. /\ Block' = Block /\ \A w : Anc(w)' = Anc(w) /\ Avoiding(w)' = Avoiding(w)
      /\ \A k : ord(k)' = ord(k) /\ Predecessors(k)' = Predecessors(k)
  BY Static
<1>2. pc' = pc /\ i' = i /\ todo' = todo /\ sdom' = sdom /\ aux_graph' = aux_graph /\ idom' = idom
      /\ dfn' = dfn /\ fa' = fa
  BY DEF dfsVars
<1>3. \A b : Hung(b)' <=> Hung(b)
  BY <1>2 DEF Hung
<1>4. \A w : Sound(w)' <=> Sound(w)
  BY <1>1, <1>2 DEF Sound
<1>5. \A w, p : Covers(w, p)' <=> Covers(w, p)
  BY <1>1, <1>2 DEF Covers
<1>6. \A w : BestBetween(w)' <=> BestBetween(w)
  BY <1>1, <1>2 DEF BestBetween
<1>7. SemiInv' <=> SemiInv
  BY <1>1, <1>2, <1>3, <1>4, <1>5 DEF SemiInv
<1>8. BucketInv' <=> BucketInv
  <2>1. ord(i)' = ord(i)
    BY <1>1, <1>2 DEF ord
  <2> QED  BY <1>1, <1>2, <1>3, <1>6, <2>1 DEF BucketInv
<1> QED  BY <1>3, <1>7, <1>8

-----------------------------------------------------------------------------
(* find(v).                                                                *)

\* What a call of find keeps, when the forest is unchanged too.
LEMMA FindKeeps ==
    ASSUME SearchInv, UNCHANGED <<f_graph, dfsVars, pc, i, todo, sdom, aux_graph, idom>>
    PROVE  /\ SemiInv' /\ BucketInv'
           /\ \A b : Hung(b)' <=> Hung(b)
           /\ i' \in 2..co'
           /\ todo' \subseteq (IF pc' = "semi" THEN Predecessors(ord(i))' ELSE aux_graph'[fa[ord(i)]'])
           /\ ufs' = ufs /\ mn' = mn => ForestInv'
<1>1. /\ Block' = Block /\ \A w : Anc(w)' = Anc(w)
      /\ \A k : ord(k)' = ord(k) /\ Predecessors(k)' = Predecessors(k)
  BY Static
<1>2. /\ SemiInv' /\ BucketInv' /\ \A b : Hung(b)' <=> Hung(b)
  BY SemisUnchanged DEF SearchInv
<1>3. pc' = pc /\ i' = i /\ todo' = todo /\ sdom' = sdom /\ aux_graph' = aux_graph
      /\ dfn' = dfn /\ fa' = fa /\ co' = co /\ f_graph' = f_graph
  BY DEF dfsVars
<1>4. ord(i)' = ord(i) /\ Predecessors(ord(i))' = Predecessors(ord(i))
  BY <1>1, <1>3 DEF ord, Predecessors
<1>5. /\ i' \in 2..co'
      /\ todo' \subseteq (IF pc' = "semi" THEN Predecessors(ord(i))' ELSE aux_graph'[fa[ord(i)]'])
  BY <1>3, <1>4 DEF SearchInv, FindInv
<1>6. ufs' = ufs /\ mn' = mn => ForestInv'
  BY <1>1, <1>2, <1>3 DEF SearchInv, ForestInv
<1> QED  BY <1>2, <1>5, <1>6

\* find is called: its path is the vertex alone.
LEMMA CallStep ==
    ASSUME SearchInv, NEW b \in Block, Call(b)
    PROVE  ForestInv' /\ SemiInv' /\ BucketInv' /\ FindInv'
<1>1. /\ UNCHANGED <<f_graph, dfsVars, pc, i, todo, sdom, aux_graph, idom>>
      /\ ufs' = ufs /\ mn' = mn /\ ret' = 0 /\ v' = b /\ b \in todo' /\ path' = <<b>>
      /\ b # 0
  BY SearchFacts DEF Call, SearchInv, FindInv
<1>2. /\ ForestInv' /\ SemiInv' /\ BucketInv' /\ i' \in 2..co'
      /\ todo' \subseteq (IF pc' = "semi" THEN Predecessors(ord(i))' ELSE aux_graph'[fa[ord(i)]'])
  BY <1>1, FindKeeps
<1>3. path' # <<>> /\ Len(path') = 1 /\ path'[1] = b
  BY <1>1
<1>4. /\ IF v' = 0 THEN path' = <<>> /\ ret' = 0 ELSE v' \in todo'
      /\ v' # 0 /\ ret' = 0 => path' # <<>>
      /\ path' # <<>> => path'[1] = v'
      /\ \A j \in 1..Len(path') : ~(ret' # 0 \/ j < Len(path'))
      /\ \A j \in 1..(Len(path') - 1) : FALSE
      /\ \A j, k \in 1..Len(path') : ~(j < k)
  BY <1>1, <1>3
<1> QED  BY <1>1, <1>2, <1>4 DEF FindInv

\* find goes up: the path gains the union-find parent of its top.
LEMMA AscendStep ==
    ASSUME SearchInv, Ascend
    PROVE  ForestInv' /\ SemiInv' /\ BucketInv' /\ FindInv'
<1>1. /\ UNCHANGED <<f_graph, dfsVars, pc, i, todo, sdom, aux_graph, idom, v>>
      /\ ufs' = ufs /\ mn' = mn /\ ret' = ret /\ ret = 0 /\ path # <<>>
      /\ path' = Append(path, ufs[Top]) /\ ufs[Top] # Top /\ v # 0 /\ v \in todo
  BY DEF Ascend, SearchInv, FindInv
<1>2. /\ ForestInv' /\ SemiInv' /\ BucketInv' /\ i' \in 2..co'
      /\ todo' \subseteq (IF pc' = "semi" THEN Predecessors(ord(i))' ELSE aux_graph'[fa[ord(i)]'])
      /\ \A b : Hung(b)' <=> Hung(b)
  BY <1>1, FindKeeps
<1>3. path \in Seq(Block)
  BY DEF SearchInv, TypeOK
<1>4. /\ Len(path) \in Nat \ {0} /\ Top \in Block /\ Top = path[Len(path)]
      /\ \A j \in 1..Len(path) : path[j] \in Block
  BY <1>1, <1>3, PathFacts
<1>5. Hung(Top) /\ ufs[Top] \in Block /\ dfn[ufs[Top]] < dfn[Top]
  <2>1. Hung(Top) /\ ufs[Top] \in Anc(Top)
    BY <1>1, <1>4 DEF SearchInv, ForestInv
  <2> QED  BY <1>1, <1>4, <2>1, SearchFacts, AncOrder
<1>6. /\ Len(path') = Len(path) + 1 /\ path' # <<>>
      /\ path'[Len(path) + 1] = ufs[Top]
      /\ \A j \in 1..Len(path) : path'[j] = path[j]
  BY <1>1, <1>3, <1>4, <1>5
<1>7. path'[1] = v'
  BY <1>1, <1>4, <1>6 DEF SearchInv, FindInv
<1>8. ASSUME NEW j \in 1..Len(path'), j < Len(path')
      PROVE  Hung(path[j])'
  <2>1. j \in 1..Len(path) /\ path'[j] = path[j]
    BY <1>4, <1>6, <1>8
  <2>2. Hung(path[j])
    <3>1. CASE j = Len(path)
      BY <1>4, <1>5, <3>1
    <3>2. CASE j # Len(path)
      BY <1>4, <2>1, <3>2 DEF SearchInv, FindInv
    <3> QED  BY <3>1, <3>2
  <2> QED  BY <1>1, <2>1, <2>2 DEF Hung, dfsVars
<1>9. ASSUME NEW j \in 1..(Len(path') - 1)
      PROVE  path'[j + 1] = ufs'[path'[j]]
  <2>1. j \in 1..Len(path) /\ path'[j] = path[j]
    BY <1>4, <1>6
  <2>2. CASE j = Len(path)
    BY <1>1, <1>4, <1>6, <2>2
  <2>3. CASE j # Len(path)
    <3>1. j \in 1..(Len(path) - 1) /\ j + 1 \in 1..Len(path)
      BY <1>4, <2>1, <2>3
    <3> QED  BY <1>1, <1>6, <2>1, <3>1 DEF SearchInv, FindInv
  <2> QED  BY <2>2, <2>3
<1>10. ASSUME NEW j \in 1..Len(path'), NEW k \in 1..Len(path'), j < k
       PROVE  dfn[path'[k]] < dfn[path'[j]]
  <2>1. j \in 1..Len(path) /\ path'[j] = path[j]
    BY <1>4, <1>6, <1>10
  <2>2. CASE k \in 1..Len(path)
    BY <1>6, <1>10, <2>1, <2>2 DEF SearchInv, FindInv
  <2>3. CASE k = Len(path) + 1
    <3>1. dfn[Top] <= dfn[path[j]]
      <4>1. CASE j = Len(path)
        BY <1>4, <4>1, SearchFacts
      <4>2. CASE j # Len(path)
        <5>1. j < Len(path) /\ Len(path) \in 1..Len(path)
          BY <1>4, <2>1, <4>2
        <5>2. dfn[path[Len(path)]] < dfn[path[j]]
          BY <2>1, <5>1 DEF SearchInv, FindInv
        <5> QED  BY <1>4, <2>1, <5>2, SearchFacts
      <4> QED  BY <4>1, <4>2
    <3> QED  BY <1>4, <1>5, <1>6, <2>1, <2>3, <3>1, SearchFacts
  <2> QED  BY <1>4, <1>6, <2>2, <2>3
<1>11. dfn' = dfn
  BY <1>1 DEF dfsVars
<1> QED
  <2>1. \A j \in 1..Len(path') : ret' # 0 \/ j < Len(path') => Hung(path[j])'
    BY <1>1, <1>8
  <2> QED  BY <1>1, <1>2, <1>6, <1>7, <2>1, <1>9, <1>10, <1>11 DEF FindInv

\* find is at the root, and returns it to the vertex below.
LEMMA AtRootStep ==
    ASSUME SearchInv, AtRoot
    PROVE  ForestInv' /\ SemiInv' /\ BucketInv' /\ FindInv'
<1>1. /\ UNCHANGED <<f_graph, dfsVars, pc, i, todo, sdom, aux_graph, idom, v>>
      /\ ufs' = ufs /\ mn' = mn /\ ret' = Top /\ ret = 0 /\ path # <<>>
      /\ path' = Pop /\ ufs[Top] = Top /\ v # 0 /\ v \in todo
  BY DEF AtRoot, SearchInv, FindInv
<1>2. /\ ForestInv' /\ SemiInv' /\ BucketInv' /\ i' \in 2..co'
      /\ todo' \subseteq (IF pc' = "semi" THEN Predecessors(ord(i))' ELSE aux_graph'[fa[ord(i)]'])
      /\ \A b : Hung(b)' <=> Hung(b)
  BY <1>1, FindKeeps
<1>3. path \in Seq(Block)
  BY DEF SearchInv, TypeOK
<1>4. /\ Len(path) \in Nat \ {0} /\ Top \in Block /\ Top = path[Len(path)]
      /\ \A j \in 1..Len(path) : path[j] \in Block
      /\ path' \in Seq(Block) /\ Len(path') = Len(path) - 1
      /\ \A j \in 1..(Len(path) - 1) : path'[j] = path[j]
  BY <1>1, <1>3, PathFacts
<1>5. ret' # 0 /\ ufs'[ret'] = ret'
  BY <1>1, <1>4, SearchFacts
<1>6. path' = <<>> => v' = ret'
  <2> SUFFICES ASSUME path' = <<>>  PROVE v' = ret'
    OBVIOUS
  <2>1. Len(path) = 1
    BY <1>4
  <2>2. path[1] = v
    BY <1>1 DEF SearchInv, FindInv
  <2> QED  BY <1>1, <1>4, <2>1, <2>2
<1>7. path' # <<>> => ufs'[path'[Len(path')]] = ret' /\ path'[1] = v'
  <2> SUFFICES ASSUME path' # <<>>  PROVE ufs'[path'[Len(path')]] = ret' /\ path'[1] = v'
    OBVIOUS
  <2>1. Len(path') # 0
    BY <1>4, EmptySeq
  <2>2. Len(path) - 1 \in 1..(Len(path) - 1) /\ 1 \in 1..(Len(path) - 1)
    BY <1>4, <2>1
  <2>3. path[Len(path) - 1 + 1] = ufs[path[Len(path) - 1]] /\ path[1] = v
    BY <1>1, <2>2 DEF SearchInv, FindInv
  <2> QED  BY <1>1, <1>4, <2>2, <2>3
<1>8. \A j \in 1..Len(path') : Hung(path[j])'
  BY <1>1, <1>4 DEF Hung, SearchInv, FindInv, dfsVars
<1>9. \A j \in 1..(Len(path') - 1) : path'[j + 1] = ufs'[path'[j]]
  <2>1. \A j \in 1..(Len(path) - 1) : path[j + 1] = ufs[path[j]]
    BY DEF SearchInv, FindInv
  <2>2. ASSUME NEW j \in 1..(Len(path') - 1)
        PROVE  path'[j + 1] = ufs'[path'[j]]
    <3>1. j \in 1..(Len(path) - 1) /\ j + 1 \in 1..(Len(path) - 1)
      BY <1>4, <2>2
    <3> QED  BY <1>1, <1>4, <2>1, <3>1
  <2> QED  BY <2>2
<1>10. \A j, k \in 1..Len(path') : j < k => dfn'[path'[k]] < dfn'[path'[j]]
  BY <1>1, <1>4 DEF SearchInv, FindInv, dfsVars
<1> QED
  <2>1. ufs'[IF path' = <<>> THEN v' ELSE Top'] = ret'
    BY <1>5, <1>6, <1>7 DEF Top
  <2> QED  BY <1>1, <1>2, <1>5, <1>7, <1>8, <1>9, <1>10, <2>1 DEF FindInv

\* Compression: u skips its union-find parent p, and takes p's best vertex
\* if that is better.
LEMMA CompressForest ==
    ASSUME SearchInv, NEW u \in Block, Hung(u), NEW r \in Block, ufs[ufs[u]] = r, ufs[r] = r,
           NEW best, best = IF Less(mn[ufs[u]], mn[u]) THEN mn[ufs[u]] ELSE mn[u]
    PROVE  /\ r \in Anc(u) /\ r # u
           /\ best \in Anc(u) /\ dfn[r] <= dfn[best]
           /\ \A y \in Anc(u) : dfn[r] < dfn[y] => Hung(y) /\ dfn[sdom[best]] <= dfn[sdom[y]]
<1> DEFINE p == ufs[u]
<1>0. Shape /\ DfsTree /\ dfn \in [Block -> Nat]
  BY SearchFacts
<1>1. /\ p \in Anc(u) /\ p # u /\ mn[u] \in Anc(u) /\ dfn[p] <= dfn[mn[u]]
      /\ \A y \in Anc(u) : dfn[p] < dfn[y] => Hung(y) /\ dfn[sdom[mn[u]]] <= dfn[sdom[y]]
  BY DEF SearchInv, ForestInv
<1>2. /\ p \in Block /\ dfn[p] < dfn[u] /\ Anc(u) \subseteq Block /\ Anc(p) \subseteq Anc(u)
      /\ \A w \in Block : sdom[w] \in Block /\ mn[w] \in Block
      /\ mn[u] \in Block /\ mn[p] \in Block
  BY <1>0, <1>1, AncBasics, AncOrder, SearchFacts
<1>3. /\ dfn[sdom[best]] <= dfn[sdom[mn[u]]] /\ dfn[sdom[best]] <= dfn[sdom[mn[p]]]
      /\ best = mn[p] \/ best = mn[u]
  BY <1>0, <1>2 DEF Less
<1> HIDE DEF p
<1>4. CASE Hung(p)
  <2>1. /\ r \in Anc(p) /\ r # p /\ mn[p] \in Anc(p) /\ dfn[r] <= dfn[mn[p]]
        /\ \A y \in Anc(p) : dfn[r] < dfn[y] => Hung(y) /\ dfn[sdom[mn[p]]] <= dfn[sdom[y]]
    BY <1>2, <1>4 DEF SearchInv, ForestInv, p
  <2>2. r \in Block /\ dfn[r] < dfn[p]
    BY <1>0, <1>2, <2>1, AncOrder, SearchFacts
  <2>3. ASSUME NEW y \in Anc(u), dfn[r] < dfn[y]
        PROVE  Hung(y) /\ dfn[sdom[best]] <= dfn[sdom[y]]
    <3>1. y \in Block /\ sdom[y] \in Block
      BY <1>2, <2>3
    <3>2. CASE dfn[p] < dfn[y]
      BY <1>0, <1>1, <1>2, <1>3, <3>1, <3>2
    <3>3. CASE dfn[y] <= dfn[p]
      <4>1. y \in Anc(p)
        BY <1>0, <1>2, <3>1, <3>3 DEF SearchInv, Tree, Intervals, AllNumbered
      <4> QED  BY <1>0, <1>2, <1>3, <2>1, <2>3, <3>1, <4>1
    <3> QED  BY <1>0, <1>2, <3>1, <3>2, <3>3
  <2>4. dfn[r] <= dfn[best] /\ best \in Anc(u)
    BY <1>0, <1>1, <1>2, <1>3, <2>1, <2>2
  <2>5. r \in Anc(u) /\ r # u
    BY <1>0, <1>2, <2>1, <2>2
  <2> QED  BY <2>3, <2>4, <2>5
<1>5. CASE ~Hung(p)
  <2>1. r = p /\ mn[p] = p
    BY <1>2, <1>5 DEF SearchInv, ForestInv, p
  <2>2. dfn[r] <= dfn[best] /\ best \in Anc(u)
    BY <1>0, <1>1, <1>2, <1>3, <2>1
  <2>3. \A y \in Anc(u) : dfn[r] < dfn[y] => Hung(y) /\ dfn[sdom[best]] <= dfn[sdom[y]]
    BY <1>0, <1>1, <1>2, <1>3, <2>1
  <2> QED  BY <1>1, <2>1, <2>2, <2>3
<1> QED  BY <1>4, <1>5

\* find hangs a vertex under the root.
LEMMA CompressStep ==
    ASSUME SearchInv, Compress
    PROVE  ForestInv' /\ SemiInv' /\ BucketInv' /\ FindInv'
<1> DEFINE u == Top
           best == IF Less(mn[ufs[u]], mn[u]) THEN mn[ufs[u]] ELSE mn[u]
<1>1. /\ UNCHANGED <<f_graph, dfsVars, pc, i, todo, sdom, aux_graph, idom, v>>
      /\ ret' = ret /\ ret # 0 /\ path # <<>> /\ path' = Pop /\ v # 0 /\ v \in todo
      /\ ufs' = [ufs EXCEPT ![u] = ret]
  BY DEF Compress, SearchInv, FindInv
<1>2. /\ SemiInv' /\ BucketInv' /\ i' \in 2..co'
      /\ todo' \subseteq (IF pc' = "semi" THEN Predecessors(ord(i))' ELSE aux_graph'[fa[ord(i)]'])
      /\ \A b : Hung(b)' <=> Hung(b)
  BY <1>1, FindKeeps
<1>3. path \in Seq(Block) /\ ret \in Block
  BY <1>1 DEF SearchInv, TypeOK
<1>4. /\ Len(path) \in Nat \ {0} /\ u \in Block /\ u = path[Len(path)]
      /\ \A j \in 1..Len(path) : path[j] \in Block
      /\ path' \in Seq(Block) /\ Len(path') = Len(path) - 1
      /\ \A j \in 1..(Len(path) - 1) : path'[j] = path[j]
  BY <1>1, <1>3, PathFacts
<1>5. Hung(u) /\ ufs[ufs[u]] = ret /\ ufs[ret] = ret
  BY <1>1, <1>4 DEF SearchInv, FindInv
<1>6. mn \in [Block -> Block \cup {0}] /\ ufs \in [Block -> Block \cup {0}]
  BY DEF SearchInv, TypeOK
<1>7. mn' = [mn EXCEPT ![u] = best]
  BY <1>4, <1>6 DEF Compress
<1>8. /\ ret \in Anc(u) /\ ret # u
      /\ best \in Anc(u) /\ dfn[ret] <= dfn[best]
      /\ \A y \in Anc(u) : dfn[ret] < dfn[y] => Hung(y) /\ dfn[sdom[best]] <= dfn[sdom[y]]
  BY <1>3, <1>4, <1>5, CompressForest
<1>9. /\ Block' = Block /\ \A w : Anc(w)' = Anc(w)
      /\ dfn' = dfn /\ sdom' = sdom
  BY <1>1, Static DEF dfsVars
<1> HIDE DEF u, best
<1>10. ForestInv'
  <2>1. ufs'[u] = ret /\ mn'[u] = best
    BY <1>1, <1>4, <1>6, <1>7
  <2>2. \A w \in Block \ {u} : ufs'[w] = ufs[w] /\ mn'[w] = mn[w]
    BY <1>1, <1>6, <1>7
  <2>3. ASSUME NEW w \in Block \ {u}
        PROVE  IF Hung(w)
               THEN /\ ufs'[w] \in Anc(w) /\ ufs'[w] # w
                    /\ mn'[w] \in Anc(w) /\ dfn[ufs'[w]] <= dfn[mn'[w]]
                    /\ \A y \in Anc(w) : dfn[ufs'[w]] < dfn[y] =>
                           Hung(y) /\ dfn[sdom[mn'[w]]] <= dfn[sdom[y]]
               ELSE ufs'[w] = w /\ mn'[w] = w
    BY <2>2 DEF SearchInv, ForestInv
  <2> QED  BY <1>2, <1>4, <1>5, <1>8, <1>9, <2>1, <2>3 DEF ForestInv
<1>11. ufs'[ret'] = ret'
  BY <1>1, <1>3, <1>5, <1>6, <1>8
<1>12. path' = <<>> => ufs'[v'] = ret'
  <2> SUFFICES ASSUME path' = <<>>  PROVE ufs'[v] = ret
    BY <1>1
  <2>1. Len(path) = 1
    BY <1>4
  <2>2. path[1] = v
    BY <1>1 DEF SearchInv, FindInv
  <2> QED  BY <1>1, <1>4, <1>6, <2>1, <2>2
<1>13. path' # <<>> => ufs'[ufs'[path'[Len(path')]]] = ret' /\ path'[1] = v'
  <2> SUFFICES ASSUME path' # <<>>  PROVE ufs'[ufs'[path'[Len(path')]]] = ret /\ path'[1] = v
    BY <1>1
  <2>1. Len(path') # 0
    BY <1>4, EmptySeq
  <2>2. Len(path) - 1 \in 1..(Len(path) - 1) /\ 1 \in 1..(Len(path) - 1)
    BY <1>4, <2>1
  <2>3. path[Len(path) - 1 + 1] = ufs[path[Len(path) - 1]] /\ path[1] = v
    BY <1>1, <2>2 DEF SearchInv, FindInv
  <2>4. dfn[path[Len(path)]] < dfn[path[Len(path) - 1]]
    BY <1>4, <2>2 DEF SearchInv, FindInv
  <2>5. path[Len(path) - 1] # u /\ path[Len(path) - 1] \in Block
    BY <1>4, <2>2, <2>4, SearchFacts
  <2>6. ufs'[path[Len(path) - 1]] = u
    BY <1>1, <1>4, <1>6, <2>3, <2>5
  <2> QED  BY <1>1, <1>4, <1>6, <2>2, <2>3, <2>6
<1>14. \A j \in 1..Len(path') : Hung(path[j])'
  BY <1>1, <1>4 DEF Hung, SearchInv, FindInv, dfsVars
<1>15. ASSUME NEW j \in 1..(Len(path') - 1)
       PROVE  path'[j + 1] = ufs'[path'[j]]
  <2>1. j \in 1..(Len(path) - 1) /\ j + 1 \in 1..(Len(path) - 1) /\ j < Len(path)
        /\ Len(path) \in 1..Len(path) /\ j \in 1..Len(path)
    BY <1>4
  <2>2. path[j + 1] = ufs[path[j]] /\ dfn[path[Len(path)]] < dfn[path[j]]
    BY <2>1 DEF SearchInv, FindInv
  <2>3. path[j] # u /\ path[j] \in Block
    BY <1>4, <2>1, <2>2, SearchFacts
  <2> QED  BY <1>1, <1>4, <1>6, <2>1, <2>2, <2>3
<1>16. \A j, k \in 1..Len(path') : j < k => dfn'[path'[k]] < dfn'[path'[j]]
  BY <1>1, <1>4 DEF SearchInv, FindInv, dfsVars
<1> QED
  <2>1. ufs'[IF path' = <<>> THEN v' ELSE ufs'[Top']] = ret'
    BY <1>12, <1>13 DEF Top
  <2> QED  BY <1>1, <1>2, <1>10, <1>11, <1>13, <1>14, <1>15, <1>16, <2>1 DEF FindInv

\* What find has left at v: the least semidominator of what is linked above v.
LEMMA FindResult ==
    ASSUME SearchInv, Found
    PROVE  /\ v \in todo /\ v \in Block /\ mn[v] \in Anc(v) /\ mn[v] \in Block
           /\ \A y \in Anc(v) : Hung(y) => dfn[sdom[mn[v]]] <= dfn[sdom[y]]
           /\ \A y \in Anc(v) : dfn[mn[v]] < dfn[y] => Hung(y)
           /\ ~Hung(v) => mn[v] = v
<1>0. Shape /\ DfsTree /\ dfn \in [Block -> Nat] /\ i \in Nat
  BY SearchFacts
<1>1. v \in todo /\ ufs[ret] = ret /\ ufs[v] = ret /\ ret \in Block /\ v \in Block
  BY DEF SearchInv, FindInv, Found, TypeOK
<1>2. Anc(v) \subseteq Block /\ v \in Anc(v) /\ mn[v] \in Block
  BY <1>0, <1>1, AncBasics, SearchFacts
<1>3. ~Hung(ret)
  BY <1>1 DEF SearchInv, ForestInv
<1>4. CASE Hung(v)
  <2>1. /\ mn[v] \in Anc(v) /\ dfn[ret] <= dfn[mn[v]]
        /\ \A y \in Anc(v) : dfn[ret] < dfn[y] => Hung(y) /\ dfn[sdom[mn[v]]] <= dfn[sdom[y]]
    BY <1>1, <1>4 DEF SearchInv, ForestInv
  <2>2. \A y \in Anc(v) : Hung(y) => dfn[ret] < dfn[y]
    BY <1>0, <1>1, <1>2, <1>3, SearchFacts
  <2> QED  BY <1>0, <1>1, <1>2, <1>4, <2>1, <2>2
<1>5. CASE ~Hung(v)
  <2>1. mn[v] = v
    BY <1>1, <1>5 DEF SearchInv, ForestInv
  <2>2. \A y \in Anc(v) : dfn[y] <= dfn[v] /\ ~Hung(y)
    BY <1>0, <1>1, <1>2, <1>5, SearchFacts, AncOrder
  <2> QED  BY <1>0, <1>1, <1>2, <2>1, <2>2
<1> QED  BY <1>4, <1>5

\* A better semidominator for t = ord(i), from its predecessor v.
LEMMA BetterSemi ==
    ASSUME SearchInv, pc = "semi", Found, Less(mn[v], ord(i))
    PROVE  /\ sdom[mn[v]] \in Anc(ord(i))
           /\ \A a \in Block : \A S \in SUBSET Block :
                  dfn[sdom[mn[v]]] < dfn[a] /\ dfn[a] < i =>
                      (Closed(Avoiding(a), S) /\ sdom[mn[v]] \in S => ord(i) \in S)
<1> DEFINE t == ord(i)
           m == mn[v]
           d == sdom[m]
<1>0. /\ Shape /\ DfsTree /\ dfn \in [Block -> Nat] /\ i \in Nat
      /\ t \in Block /\ dfn[t] = i /\ f_graph \in [Block -> SUBSET Block]
      /\ \A w \in Block : sdom[w] \in Block /\ Visited(w)
      /\ \A b \in Block : dfn[b] = i => b = t
  BY SearchFacts
<1>1. /\ v \in Block /\ m \in Anc(v) /\ m \in Block /\ v \in Predecessors(t)
      /\ \A y \in Anc(v) : dfn[m] < dfn[y] => Hung(y)
      /\ ~Hung(v) => m = v
  BY FindResult DEF SearchInv, FindInv
<1>2. \A b \in Block : Hung(b) <=> dfn[b] > i
  BY SearchFacts
<1>3. d \in Block /\ dfn[d] < dfn[sdom[t]] /\ dfn[sdom[t]] <= i /\ m # t /\ dfn[m] # i
  <2>1. sdom[t] \in Anc(t)
    BY <1>0 DEF SearchInv, SemiInv
  <2> QED  BY <1>0, <1>1, <2>1, AncOrder DEF Less
<1>4. t \in f_graph[v]
  BY <1>1 DEF Predecessors
<1>5. Anc(v) \subseteq Block /\ v \in Anc(v)
  BY <1>0, <1>1, AncBasics
<1> HIDE DEF t, d, m
<1>6. CASE dfn[m] < i
  <2>1. d = m
    BY <1>1, <1>6 DEF SearchInv, SemiInv, d
  <2>2. m \in Anc(t)
    <3>1. CASE dfn[v] <= i
      <4>1. v # t /\ dfn[v] < dfn[t]
        BY <1>0, <1>1, <1>2, <1>3, <3>1
      <4>2. v \in Anc(t)
        BY <1>0, <1>1, <1>4, <4>1 DEF SearchInv, Tree, UpwardEdges
      <4> QED  BY <1>0, <1>1, <4>2, AncBasics
    <3>2. CASE i < dfn[v]
      BY <1>0, <1>1, <1>6, <3>2 DEF SearchInv, Tree, Intervals
    <3> QED  BY <1>0, <1>1, <3>1, <3>2
  <2>3. ASSUME NEW a \in Block, NEW S \in SUBSET Block, dfn[d] < dfn[a], dfn[a] < i, d \in S
        PROVE  m \in S
    BY <2>1, <2>3
  <2>4. d \in Anc(t)
    BY <2>1, <2>2
  <2>5. ASSUME NEW a \in Block, NEW S \in SUBSET Block, dfn[d] < dfn[a], dfn[a] < i,
               Closed(Avoiding(a), S), d \in S
        PROVE  t \in S
    <3>1. \A s \in S : \A y \in f_graph[s] : y # a => y \in S
      BY <1>0, <2>5 DEF Closed, Avoiding
    <3>2. \A y \in Anc(v) : dfn[m] < dfn[y] => y # a
      BY <1>0, <1>1, <1>2, <1>5, <2>5
    <3>3. v \in S
      BY <1>1, <2>3, <2>5, <3>1, <3>2, TreePath DEF SearchInv
    <3> QED  BY <1>0, <1>4, <2>5, <3>1, <3>3
  <2> QED  BY <2>4, <2>5 DEF t, d, m
<1>7. CASE i < dfn[m]
  <2>1. d \in Anc(m) /\ Sound(m)
    BY <1>1 DEF SearchInv, SemiInv, d
  <2>2. d \in Anc(t)
    BY <1>0, <1>1, <1>3, <1>7, <2>1 DEF SearchInv, Tree, Intervals
  <2>3. ASSUME NEW a \in Block, NEW S \in SUBSET Block, dfn[d] < dfn[a], dfn[a] < i,
               Closed(Avoiding(a), S), d \in S
        PROVE  t \in S
    <3>1. \A s \in S : \A y \in f_graph[s] : y # a => y \in S
      BY <1>0, <2>3 DEF Closed, Avoiding
    <3>2. \A y \in Anc(v) : dfn[m] < dfn[y] => y # a
      BY <1>0, <1>1, <1>2, <1>5, <2>3
    <3>3. m \in S
      BY <1>0, <1>1, <1>7, <2>1, <2>3 DEF Sound, d
    <3>4. v \in S
      BY <1>1, <3>1, <3>2, <3>3, TreePath DEF SearchInv
    <3> QED  BY <1>0, <1>4, <2>3, <3>1, <3>4
  <2> QED  BY <2>2, <2>3 DEF t, d, m
<1> QED  BY <1>0, <1>1, <1>3, <1>6, <1>7

\* A predecessor has been asked, and the semidominator is as good as it allows.
LEMMA SemiDominatorStep ==
    ASSUME SearchInv, SemiDominator
    PROVE  ForestInv' /\ SemiInv' /\ BucketInv' /\ FindInv'
<1> DEFINE t == ord(i)
           d == sdom[mn[v]]
<1>1. /\ UNCHANGED <<f_graph, dfsVars, pc, i, ufs, mn, aux_graph, idom, path>>
      /\ pc = "semi" /\ Found /\ todo' = todo \ {v} /\ v' = 0 /\ ret' = 0 /\ path = <<>>
      /\ sdom' = IF Less(mn[v], t) THEN [sdom EXCEPT ![t] = d] ELSE sdom
  BY DEF SemiDominator, Found, Consumed
<1>2. /\ Shape /\ DfsTree /\ dfn \in [Block -> Nat] /\ i \in Nat /\ i >= 2 /\ i <= co
      /\ t \in Block /\ t # 1 /\ dfn[t] = i /\ f_graph \in [Block -> SUBSET Block]
      /\ \A w \in Block : sdom[w] \in Block /\ mn[w] \in Block /\ Visited(w) /\ Anc(w) \subseteq Block
      /\ \A b \in Block : dfn[b] = i => b = t
      /\ \A b \in Block : Hung(b) <=> dfn[b] > i
  BY <1>1, SearchFacts, AncBasics
<1>3. sdom \in [Block -> Block \cup {0}] /\ d \in Block
  BY <1>1, <1>2, FindResult DEF SearchInv, TypeOK
<1>4. /\ \A w \in Block \ {t} : sdom'[w] = sdom[w]
      /\ sdom'[t] = (IF Less(mn[v], t) THEN d ELSE sdom[t])
      /\ sdom'[t] \in Block
      /\ dfn[sdom'[t]] <= dfn[sdom[t]] /\ dfn[sdom'[t]] <= dfn[d]
  BY <1>1, <1>2, <1>3 DEF Less
<1>5. /\ Block' = Block /\ dfn' = dfn /\ fa' = fa /\ co' = co /\ f_graph' = f_graph
      /\ pc' = pc /\ i' = i /\ ufs' = ufs /\ mn' = mn /\ aux_graph' = aux_graph /\ idom' = idom
      /\ \A w : Anc(w)' = Anc(w) /\ Avoiding(w)' = Avoiding(w) /\ Predecessors(w)' = Predecessors(w)
      /\ ord(i)' = t
  BY <1>1, Static DEF dfsVars, ord, Block
<1>6. \A b : Hung(b)' <=> Hung(b)
  BY <1>5 DEF Hung
<1>7. /\ v \in Block /\ v \in Predecessors(t) /\ v \in todo
      /\ \A y \in Anc(v) : Hung(y) => dfn[d] <= dfn[sdom[y]]
      /\ ~Hung(v) => mn[v] = v
  BY <1>1, FindResult DEF SearchInv, FindInv
<1> HIDE DEF t, d
<1>8. ForestInv'
  <2> SUFFICES ASSUME NEW w \in Block, Hung(w), NEW y \in Anc(w), dfn[ufs[w]] < dfn[y]
               PROVE  dfn[sdom'[mn[w]]] <= dfn[sdom'[y]]
    BY <1>5, <1>6 DEF SearchInv, ForestInv
  <2>1. Hung(y) /\ dfn[sdom[mn[w]]] <= dfn[sdom[y]] /\ y \in Block /\ mn[w] \in Block
    BY <1>2 DEF SearchInv, ForestInv
  <2>2. sdom'[y] = sdom[y]
    BY <1>2, <1>4, <2>1
  <2>3. dfn[sdom'[mn[w]]] <= dfn[sdom[mn[w]]]
    BY <1>2, <1>4, <2>1
  <2>4. sdom'[mn[w]] \in Block
    BY <1>2, <1>4, <2>1
  <2> QED  BY <1>2, <2>1, <2>2, <2>3, <2>4
<1>9. SemiInv'
  <2>1. ASSUME NEW w \in Block
        PROVE  sdom'[w] \in Anc(w) /\ Sound(w)'
    <3>1. sdom[w] \in Anc(w) /\ Sound(w)
      BY DEF SearchInv, SemiInv
    <3>2. CASE sdom'[w] = sdom[w]
      BY <1>5, <3>1, <3>2 DEF Sound
    <3>3. CASE sdom'[w] # sdom[w]
      <4>1. w = t /\ Less(mn[v], t) /\ sdom'[w] = d
        BY <1>4, <3>3
      <4>2. /\ d \in Anc(t)
            /\ \A a \in Block : \A S \in SUBSET Block :
                  dfn[d] < dfn[a] /\ dfn[a] < i =>
                      (Closed(Avoiding(a), S) /\ d \in S => t \in S)
        BY <1>1, <4>1, BetterSemi DEF t, d
      <4> QED  BY <1>2, <1>5, <4>1, <4>2 DEF Sound
    <3> QED  BY <3>2, <3>3
  <2>2. ASSUME NEW w \in Block, dfn[w] < i
        PROVE  sdom'[w] = w
    BY <1>2, <1>4, <2>2 DEF SearchInv, SemiInv
  <2>3. ASSUME NEW w \in Block, Hung(w), NEW p \in Predecessors(w)
        PROVE  Covers(w, p)'
    <3>1. Covers(w, p) /\ p \in Block /\ w # t
      BY <1>2, <2>3 DEF SearchInv, SemiInv, Predecessors
    <3>2. \A u \in Anc(p) : dfn[u] > dfn[w] => sdom'[u] = sdom[u]
      BY <1>2, <1>4, <2>3, <3>1
    <3> QED  BY <1>4, <1>5, <3>1, <3>2 DEF Covers
  <2>4. ASSUME NEW w \in Block, w = t, NEW p \in Predecessors(w) \ todo'
        PROVE  Covers(w, p)'
    <3>0. p \in Block /\ \A u \in Anc(p) : dfn[u] > dfn[t] => u \in Block /\ sdom'[u] = sdom[u] /\ Hung(u)
      BY <1>2, <1>4, <2>4 DEF Predecessors
    <3>1. CASE p = v
      <4>1. \A u \in Anc(p) : dfn[u] > dfn[t] => dfn[sdom'[t]] <= dfn[sdom'[u]]
        BY <1>2, <1>3, <1>4, <1>7, <3>0, <3>1
      <4>2. dfn[p] <= dfn[t] => dfn[sdom'[t]] <= dfn[p]
        <5> SUFFICES ASSUME dfn[p] <= dfn[t]  PROVE dfn[sdom'[t]] <= dfn[p]
          OBVIOUS
        <5>1. mn[v] = v
          BY <1>2, <1>7, <3>1
        <5>2. CASE v = t
          <6>1. sdom[t] \in Anc(t)
            BY <1>2 DEF SearchInv, SemiInv
          <6> QED  BY <1>2, <1>4, <3>1, <5>2, <6>1, AncOrder
        <5>3. CASE v # t
          <6>1. dfn[v] < i
            BY <1>2, <1>7, <3>1, <5>3
          <6>2. d = v
            BY <1>7, <5>1, <6>1 DEF SearchInv, SemiInv, d
          <6> QED  BY <1>4, <3>1, <6>2
        <5> QED  BY <5>2, <5>3
      <4> QED  BY <1>5, <2>4, <4>1, <4>2 DEF Covers
    <3>2. CASE p # v
      <4>1. Covers(t, p)
        BY <1>1, <1>2, <2>4, <3>2 DEF SearchInv, SemiInv
      <4>2. dfn[p] <= dfn[t] => dfn[sdom'[t]] <= dfn[p]
        BY <1>2, <1>4, <3>0, <4>1 DEF Covers
      <4>3. \A u \in Anc(p) : dfn[u] > dfn[t] => dfn[sdom'[t]] <= dfn[sdom'[u]]
        BY <1>2, <1>4, <3>0, <4>1 DEF Covers
      <4> QED  BY <1>5, <2>4, <4>2, <4>3 DEF Covers
    <3> QED  BY <3>1, <3>2
  <2>5. ASSUME NEW w \in Block, dfn[w] = i, NEW p \in Predecessors(w) \ todo'
        PROVE  Covers(w, p)'
    <3>1. w = t
      BY <1>2, <2>5
    <3> QED  BY <2>4, <2>5, <3>1
  <2> QED  BY <1>5, <1>6, <2>1, <2>2, <2>3, <2>5 DEF SemiInv
<1>10. BucketInv'
  <2>1. ASSUME NEW p \in Block, NEW w \in aux_graph[p]
        PROVE  /\ Hung(w) /\ sdom'[w] = p
               /\ \E c \in Anc(w) : fa[c] = p /\ dfn[c] <= i
    <3>1. /\ Hung(w) /\ sdom[w] = p
          /\ \E c \in Anc(w) : fa[c] = p /\ dfn[c] <= i
      BY DEF SearchInv, BucketInv
    <3>2. w \in Block
      BY DEF SearchInv, TypeOK
    <3> QED  BY <1>2, <1>4, <3>1, <3>2
  <2>2. ASSUME NEW w \in Block, Hung(w), w \notin aux_graph[sdom'[w]]
        PROVE  BestBetween(w)' /\ \A y \in Anc(w) : dfn[sdom'[w]] < dfn[y] => Hung(y)
    <3>1. sdom'[w] = sdom[w]
      BY <1>2, <1>4, <2>2
    <3>2. BestBetween(w) /\ \A y \in Anc(w) : dfn[sdom[w]] < dfn[y] => Hung(y)
      BY <2>2, <3>1 DEF SearchInv, BucketInv
    <3>3. \A y \in Anc(w) : dfn[sdom[w]] < dfn[y] => sdom'[y] = sdom[y]
      BY <1>2, <1>4, <3>2
    <3>4. idom[w] # sdom[w] => idom[w] \in Block /\ dfn[sdom[w]] < dfn[idom[w]]
      <4>1. idom[w] \in Block /\ sdom[w] \in Block /\ dfn[sdom[w]] <= dfn[idom[w]]
        BY <1>2, <3>2 DEF BestBetween
      <4>2. dfn[sdom[w]] = dfn[idom[w]] => sdom[w] = idom[w]
        BY <4>1, TreeNumbers DEF SearchInv
      <4> QED  BY <1>2, <4>1, <4>2
    <3>5. idom[w] # sdom[w] => sdom'[idom[w]] = sdom[idom[w]]
      BY <3>2, <3>3, <3>4 DEF BestBetween
    <3>6. BestBetween(w)'
      BY <1>5, <3>1, <3>2, <3>3, <3>5 DEF BestBetween
    <3> QED  BY <3>1, <3>2, <3>6
  <2> QED  BY <1>1, <1>5, <1>6, <2>1, <2>2 DEF BucketInv, SearchInv
<1>11. FindInv'
  <2>1. todo' \subseteq Predecessors(t)
    BY <1>1 DEF SearchInv, FindInv, t
  <2>2. Predecessors(ord(i))' = Predecessors(t)
    BY <1>5 DEF Predecessors
  <2>3. path' = <<>> /\ Len(path') = 0
    BY <1>1
  <2> QED  BY <1>1, <1>2, <1>5, <2>1, <2>2, <2>3 DEF FindInv
<1> QED  BY <1>8, <1>9, <1>10, <1>11

\* The vertex is linked under its parent and put into a bucket.
LEMMA LinkStep ==
    ASSUME SearchInv, Link
    PROVE  ForestInv' /\ SemiInv' /\ BucketInv' /\ FindInv'
<1> DEFINE t == ord(i)
           p == fa[t]
<1>1. /\ UNCHANGED <<f_graph, dfsVars, i, mn, sdom, idom, v, path, ret>>
      /\ pc = "semi" /\ pc' = "bucket" /\ todo = {}
      /\ ufs' = [ufs EXCEPT ![t] = p]
      /\ aux_graph' = [aux_graph EXCEPT ![sdom[t]] = @ \cup {t}]
      /\ todo' = aux_graph'[p]
  BY DEF Link
<1>2. /\ Shape /\ DfsTree /\ dfn \in [Block -> Nat] /\ i \in Nat /\ i >= 2 /\ i <= co
      /\ t \in Block /\ t # 1 /\ dfn[t] = i
      /\ \A w \in Block : sdom[w] \in Block /\ mn[w] \in Block /\ Visited(w) /\ w \in Anc(w)
      /\ \A b \in Block : dfn[b] = i => b = t
      /\ \A b \in Block : Hung(b) <=> dfn[b] > i
  BY <1>1, SearchFacts, AncBasics
<1>3. /\ Block' = Block /\ dfn' = dfn /\ fa' = fa /\ co' = co
      /\ i' = i /\ mn' = mn /\ sdom' = sdom /\ idom' = idom /\ v' = v /\ path' = path /\ ret' = ret
      /\ \A w : Anc(w)' = Anc(w) /\ Avoiding(w)' = Avoiding(w) /\ Predecessors(w)' = Predecessors(w)
      /\ ord(i)' = t
  BY <1>1, Static DEF dfsVars, ord, Block
<1>4. \A b \in Block : Hung(b)' <=> (Hung(b) \/ b = t)
  BY <1>1, <1>2, <1>3 DEF Hung
<1>5. p \in Block /\ p \in Anc(t) /\ dfn[p] < dfn[t] /\ t \in f_graph[p] /\ sdom[t] \in Anc(t)
  BY <1>2, TreeNumbers DEF SearchInv, SemiInv
<1>6. \A q \in Predecessors(t) : Covers(t, q)
  BY <1>1, <1>2 DEF SearchInv, SemiInv
<1>7. dfn[sdom[t]] < dfn[t] /\ sdom[t] # t
  BY <1>2, <1>5, <1>6 DEF Covers, Predecessors
<1>8. /\ ufs'[t] = p /\ mn[t] = t /\ \A w \in Block \ {t} : ufs'[w] = ufs[w]
      /\ v = 0 /\ path = <<>> /\ ret = 0
      /\ aux_graph \in [Block -> SUBSET Block]
      /\ \A q \in Block : aux_graph'[q] = IF q = sdom[t] THEN aux_graph[q] \cup {t} ELSE aux_graph[q]
  <2>1. v = 0 /\ path = <<>> /\ ret = 0
    BY <1>1 DEF SearchInv, FindInv
  <2>2. mn[t] = t
    BY <1>2 DEF SearchInv, ForestInv
  <2>3. aux_graph \in [Block -> SUBSET Block] /\ ufs \in [Block -> Block \cup {0}]
    BY DEF SearchInv, TypeOK
  <2> QED  BY <1>1, <1>2, <2>1, <2>2, <2>3
<1> HIDE DEF t, p
<1>9. ForestInv'
  <2>1. \A y \in Anc(t) : dfn[p] < dfn[y] => y = t
    <3> SUFFICES ASSUME NEW y \in Anc(t), dfn[p] < dfn[y], y # t  PROVE FALSE
      OBVIOUS
    <3>1. y \in Anc(p)
      BY <1>2, AncOrder DEF p
    <3>2. dfn[y] <= dfn[p] /\ y \in Block
      BY <1>2, <1>5, <3>1, AncOrder
    <3> QED  BY <1>2, <1>5, <3>2
  <2>2. ASSUME NEW w \in Block, Hung(w)
        PROVE  /\ w # t /\ ufs[w] \in Anc(w) /\ ufs[w] # w
               /\ mn[w] \in Anc(w) /\ dfn[ufs[w]] <= dfn[mn[w]]
               /\ \A y \in Anc(w) : dfn[ufs[w]] < dfn[y] =>
                      y \in Block /\ Hung(y) /\ dfn[sdom[mn[w]]] <= dfn[sdom[y]]
    BY <1>2, <2>2, AncBasics DEF SearchInv, ForestInv
  <2>3. ASSUME NEW w \in Block, w = t
        PROVE  /\ p \in Anc(w) /\ p # w /\ t \in Anc(w) /\ dfn[p] <= dfn[t]
               /\ \A y \in Anc(w) : dfn[p] < dfn[y] => y = t /\ dfn[sdom[t]] <= dfn[sdom[y]]
    BY <1>2, <1>5, <2>1, <2>3
  <2>4. ASSUME NEW w \in Block, ~Hung(w), w # t
        PROVE  ufs'[w] = w /\ mn[w] = w
    BY <1>8, <2>4 DEF SearchInv, ForestInv
  <2> QED  BY <1>3, <1>4, <1>8, <2>2, <2>3, <2>4 DEF ForestInv
<1>10. SemiInv'
  <2>1. \A w, q : Covers(w, q)' <=> Covers(w, q)
    BY <1>3 DEF Covers
  <2>2. \A w : Sound(w)' <=> Sound(w)
    BY <1>3 DEF Sound
  <2> QED  BY <1>1, <1>3, <1>4, <1>6, <2>1, <2>2 DEF SearchInv, SemiInv
<1>11. BucketInv'
  <2>1. ASSUME NEW q \in Block, NEW w \in aux_graph'[q]
        PROVE  /\ w \in Block /\ (Hung(w) \/ w = t) /\ sdom[w] = q
               /\ \E c \in Anc(w) : fa[c] = q /\ dfn[c] <= i
    <3>1. CASE w \in aux_graph[q]
      BY <1>8, <3>1 DEF SearchInv, BucketInv
    <3>2. CASE w \notin aux_graph[q]
      <4>1. w = t /\ q = sdom[t]
        <5>1. aux_graph'[q] = IF q = sdom[t] THEN aux_graph[q] \cup {t} ELSE aux_graph[q]
          BY <1>8
        <5> QED  BY <2>1, <3>2, <5>1
      <4>2. PICK c \in Anc(t) : c \in Block \ {1} /\ fa[c] = q
        BY <1>2, <1>5, <1>7, <4>1, ChildOnPath DEF SearchInv
      <4>3. dfn[c] <= i
        BY <1>2, <4>2, AncOrder
      <4> QED  BY <1>2, <4>1, <4>2, <4>3
    <3> QED  BY <3>1, <3>2
  <2>3. ASSUME NEW w \in Block, Hung(w) \/ w = t,
               w \in aux_graph'[sdom[w]] => sdom[w] = p /\ w \notin todo'
        PROVE  BestBetween(w) /\ \A y \in Anc(w) : dfn[sdom[w]] < dfn[y] => Hung(y) /\ y \in Block
    <3>1. w \notin aux_graph'[sdom[w]]
      BY <1>1, <2>3 DEF p
    <3>2. w # t /\ w \notin aux_graph[sdom[w]]
      BY <1>2, <1>8, <3>1
    <3> QED  BY <1>1, <1>2, <2>3, <3>2, AncBasics DEF SearchInv, BucketInv
  <2>4. \A w : BestBetween(w)' <=> BestBetween(w)
    BY <1>3 DEF BestBetween
  <2>5. idom'[1] = 0
    BY <1>3 DEF SearchInv, BucketInv
  <2>6. fa'[ord(i)'] = p
    BY <1>3 DEF p
  <2> QED  BY <1>1, <1>3, <1>4, <2>1, <2>3, <2>4, <2>5, <2>6 DEF BucketInv
<1>12. FindInv'
  <2>1. fa'[ord(i)'] = p
    BY <1>3 DEF p
  <2>2. Len(path') = 0
    BY <1>3, <1>8
  <2> QED  BY <1>1, <1>2, <1>3, <1>8, <2>1, <2>2 DEF FindInv
<1> QED  BY <1>9, <1>10, <1>11, <1>12

\* The bucket of p = fa[ord(i)] is read when everything between p and what
\* waits in it is linked.
LEMMA BucketBest ==
    ASSUME SearchInv, pc = "bucket", Found
    PROVE  LET p == fa[ord(i)]
               m == mn[v]
               d == IF p = sdom[m] THEN p ELSE m IN
           /\ v \in Block \ {1} /\ sdom[v] = p
           /\ \A y \in Anc(v) : dfn[p] < dfn[y] => Hung(y)
           /\ d \in Anc(v) /\ dfn[p] <= dfn[d]
           /\ IF d = p
              THEN \A y \in Anc(v) : dfn[p] < dfn[y] => dfn[p] <= dfn[sdom[y]]
              ELSE /\ dfn[sdom[d]] < dfn[p]
                   /\ \A y \in Anc(v) : dfn[p] < dfn[y] => dfn[sdom[d]] <= dfn[sdom[y]]
<1> DEFINE t == ord(i)
           p == fa[t]
           m == mn[v]
<1>1. /\ Shape /\ DfsTree /\ dfn \in [Block -> Nat] /\ i \in Nat /\ i >= 2
      /\ t \in Block /\ t # 1 /\ dfn[t] = i
      /\ \A w \in Block : sdom[w] \in Block /\ Visited(w) /\ Anc(w) \subseteq Block
      /\ \A b \in Block : Hung(b) <=> dfn[b] >= i
  BY SearchFacts, AncBasics
<1>2. p \in Block /\ dfn[p] < i /\ dfn[1] = 1 /\ p \in Anc(t)
  BY <1>1, TreeNumbers DEF SearchInv
<1>3. /\ v \in todo /\ v \in Block /\ m \in Anc(v) /\ m \in Block
      /\ \A y \in Anc(v) : Hung(y) => dfn[sdom[m]] <= dfn[sdom[y]]
      /\ \A y \in Anc(v) : dfn[m] < dfn[y] => Hung(y)
  BY FindResult
<1>4. Hung(v) /\ sdom[v] = p /\ p \in Anc(v)
  <2>1. v \in aux_graph[p]
    BY <1>3 DEF SearchInv, FindInv
  <2> QED  BY <1>2, <1>3, <2>1 DEF SearchInv, BucketInv, SemiInv
<1>5. v # 1 /\ i <= dfn[v] /\ v \in Anc(v)
  BY <1>1, <1>2, <1>3, <1>4, AncBasics
<1> HIDE DEF p, t, m
<1>6. ASSUME NEW y \in Anc(v), dfn[p] < dfn[y]
      PROVE  Hung(y)
  <2> SUFFICES ASSUME dfn[y] < i  PROVE FALSE
    BY <1>1, <1>3, <1>6
  <2>1. y \in Anc(t) /\ y # t /\ y \in Block
    BY <1>1, <1>3, <1>5 DEF SearchInv, Tree, Intervals
  <2>2. y \in Anc(p)
    BY <1>1, <2>1, AncOrder DEF p
  <2>3. dfn[y] <= dfn[p]
    BY <1>1, <1>2, <2>2, AncOrder
  <2> QED  BY <1>1, <1>2, <1>6, <2>1, <2>3
<1>7. dfn[p] <= dfn[m]
  BY <1>1, <1>2, <1>3, <1>4
<1>8. dfn[sdom[m]] <= dfn[p] /\ sdom[m] \in Block
  BY <1>1, <1>3, <1>4, <1>5
<1>9. CASE p = sdom[m]
  <2>1. \A y \in Anc(v) : dfn[p] < dfn[y] => dfn[p] <= dfn[sdom[y]]
    BY <1>3, <1>6, <1>9
  <2> QED  BY <1>1, <1>2, <1>3, <1>4, <1>5, <1>6, <1>9, <2>1 DEF p, t, m
<1>10. CASE p # sdom[m]
  <2>1. m # p
    <3>1. sdom[p] = p
      BY <1>1, <1>2 DEF SearchInv, SemiInv
    <3> QED  BY <1>10, <3>1
  <2>2. dfn[sdom[m]] < dfn[p]
    <3>1. dfn[sdom[m]] # dfn[p]
      BY <1>2, <1>8, <1>10, TreeNumbers DEF SearchInv
    <3> QED  BY <1>1, <1>2, <1>8, <3>1
  <2>3. \A y \in Anc(v) : dfn[p] < dfn[y] => dfn[sdom[m]] <= dfn[sdom[y]]
    BY <1>3, <1>6
  <2> QED  BY <1>3, <1>4, <1>5, <1>6, <1>7, <1>10, <2>1, <2>2, <2>3 DEF p, t, m
<1> QED  BY <1>9, <1>10

\* A vertex leaves its bucket with the semidominator or a vertex with a better one.
LEMMA BucketStep ==
    ASSUME SearchInv, Bucket
    PROVE  ForestInv' /\ SemiInv' /\ BucketInv' /\ FindInv'
<1> DEFINE p == fa[ord(i)]
           d == IF p = sdom[mn[v]] THEN p ELSE mn[v]
<1>1. /\ UNCHANGED <<f_graph, dfsVars, pc, i, sdom, ufs, mn, aux_graph, path>>
      /\ pc = "bucket" /\ Found /\ todo' = todo \ {v} /\ v' = 0 /\ ret' = 0 /\ path = <<>>
      /\ idom' = [idom EXCEPT ![v] = d]
  BY DEF Bucket, Found, Consumed
<1>2. /\ v \in Block \ {1} /\ sdom[v] = p
      /\ \A y \in Anc(v) : dfn[p] < dfn[y] => Hung(y)
      /\ d \in Anc(v) /\ dfn[p] <= dfn[d]
      /\ IF d = p
         THEN \A y \in Anc(v) : dfn[p] < dfn[y] => dfn[p] <= dfn[sdom[y]]
         ELSE /\ dfn[sdom[d]] < dfn[p]
              /\ \A y \in Anc(v) : dfn[p] < dfn[y] => dfn[sdom[d]] <= dfn[sdom[y]]
  BY <1>1, BucketBest
<1> HIDE DEF d
<1>3. /\ Block' = Block /\ dfn' = dfn /\ fa' = fa /\ co' = co /\ f_graph' = f_graph
      /\ pc' = pc /\ i' = i /\ mn' = mn /\ ufs' = ufs /\ sdom' = sdom /\ aux_graph' = aux_graph
      /\ path' = path
      /\ \A w : Anc(w)' = Anc(w) /\ Avoiding(w)' = Avoiding(w) /\ Predecessors(w)' = Predecessors(w)
      /\ fa'[ord(i)'] = p
  BY <1>1, Static DEF dfsVars, ord, Block
<1> HIDE DEF p
<1>4. \A b : Hung(b)' <=> Hung(b)
  BY <1>3 DEF Hung
<1>5. ForestInv'
  BY <1>3, <1>4 DEF SearchInv, ForestInv
<1>6. SemiInv'
  <2>1. \A w, q : Covers(w, q)' <=> Covers(w, q)
    BY <1>3 DEF Covers
  <2>2. \A w : Sound(w)' <=> Sound(w)
    BY <1>3 DEF Sound
  <2> QED  BY <1>1, <1>3, <1>4, <2>1, <2>2 DEF SearchInv, SemiInv
<1>7. 1 \in Block /\ idom \in [Block -> Block \cup {0}]
  BY SearchFacts DEF SearchInv, TypeOK
<1>8. idom'[v] = d /\ \A w \in Block \ {v} : idom'[w] = idom[w]
  BY <1>1, <1>2, <1>7
<1>9. BucketInv'
  <2>1. ASSUME NEW w \in Block, Hung(w),
               w \in aux_graph[sdom[w]] => sdom[w] = p /\ w \notin todo'
        PROVE  BestBetween(w)' /\ \A y \in Anc(w) : dfn[sdom[w]] < dfn[y] => Hung(y)
    <3>1. CASE w = v
      <4>1. BestBetween(w)'
        BY <1>2, <1>3, <1>8, <3>1 DEF BestBetween
      <4> QED  BY <1>2, <3>1, <4>1
    <3>2. CASE w # v
      <4>1. idom'[w] = idom[w]
        BY <1>8, <3>2
      <4>2. w \in aux_graph[sdom[w]] => pc = "bucket" /\ sdom[w] = p /\ w \notin todo
        BY <1>1, <2>1, <3>2
      <4>3. BestBetween(w) /\ \A y \in Anc(w) : dfn[sdom[w]] < dfn[y] => Hung(y)
        BY <2>1, <4>2 DEF SearchInv, BucketInv, p
      <4>4. BestBetween(w)'
        BY <1>3, <4>1, <4>3 DEF BestBetween
      <4> QED  BY <4>3, <4>4
    <3> QED  BY <3>1, <3>2
  <2>2. idom'[1] = 0
    BY <1>2, <1>7, <1>8 DEF SearchInv, BucketInv
  <2>3. \A q \in Block : \A w \in aux_graph[q] :
           /\ Hung(w) /\ sdom[w] = q
           /\ \E c \in Anc(w) : fa[c] = q /\ dfn[c] <= i
    BY DEF SearchInv, BucketInv
  <2> QED  BY <1>3, <1>4, <2>1, <2>2, <2>3 DEF BucketInv
<1>10. FindInv'
  <2>1. todo' \subseteq aux_graph'[p]
    BY <1>1, <1>3 DEF SearchInv, FindInv, p
  <2>2. Len(path') = 0 /\ path' = <<>> /\ i \in 2..co
    BY <1>1, <1>3 DEF SearchInv, FindInv
  <2> QED  BY <1>1, <1>3, <2>1, <2>2 DEF FindInv
<1> QED  BY <1>5, <1>6, <1>9, <1>10

\* Nothing is better than the entry.
LEMMA EntryCovers ==
    ASSUME Tree, sdom[1] = 1, \A w \in Block : sdom[w] \in Block, NEW p \in Block
    PROVE  Covers(1, p)
BY TreeNumbers, AncBasics DEF Covers, Tree, DfsTree, Shape

\* On to the vertex numbered before, or out of the rounds.
LEMMA NextRoundStep ==
    ASSUME SearchInv, NextRound
    PROVE  IF pc' = "semi" THEN ForestInv' /\ SemiInv' /\ BucketInv' /\ FindInv'
                           ELSE pc' = "idom" /\ IdomInv'
<1> DEFINE t == ord(i)
           p == fa[t]
<1>1. /\ UNCHANGED <<f_graph, dfsVars, v, path, ret, ufs, mn, sdom, idom>>
      /\ pc = "bucket" /\ todo = {}
      /\ aux_graph' = [aux_graph EXCEPT ![p] = {}]
      /\ Round(i - 1)
  BY DEF NextRound, findVars
<1>2. /\ Shape /\ DfsTree /\ dfn \in [Block -> Nat] /\ i \in Nat /\ i >= 2 /\ i <= co /\ co \in Nat
      /\ t \in Block /\ t # 1 /\ dfn[t] = i /\ 1 \in Block
      /\ \A w \in Block : sdom[w] \in Block
      /\ \A w \in Block : Visited(w) /\ w \in Anc(w) /\ Anc(w) \subseteq Block
      /\ \A b \in Block : dfn[b] = i => b = t
      /\ \A b \in Block : Hung(b) <=> dfn[b] >= i
  BY <1>1, SearchFacts, AncBasics DEF Shape
<1>3. /\ Block' = Block /\ dfn' = dfn /\ fa' = fa /\ co' = co
      /\ mn' = mn /\ ufs' = ufs /\ sdom' = sdom /\ idom' = idom /\ v' = v /\ path' = path /\ ret' = ret
      /\ \A w : Anc(w)' = Anc(w) /\ Avoiding(w)' = Avoiding(w) /\ Predecessors(w)' = Predecessors(w)
  BY <1>1, Static DEF dfsVars
<1>4. /\ v = 0 /\ path = <<>> /\ ret = 0
  BY <1>1 DEF SearchInv, FindInv
<1>5. p \in Block /\ aux_graph \in [Block -> SUBSET Block]
  BY <1>2, TreeNumbers DEF SearchInv, TypeOK
<1>6. \A q \in Block : aux_graph'[q] = IF q = p THEN {} ELSE aux_graph[q]
  BY <1>1, <1>5
<1>7. /\ \A w, q : Covers(w, q)' <=> Covers(w, q)
      /\ \A w : Sound(w)' <=> Sound(w)
      /\ \A w : BestBetween(w)' <=> BestBetween(w)
  BY <1>3 DEF Covers, Sound, BestBetween
<1>8. ASSUME NEW q \in Block, NEW w \in aux_graph'[q]
      PROVE  /\ Hung(w) /\ sdom[w] = q
             /\ \E c \in Anc(w) : fa[c] = q /\ dfn[c] <= i - 1
  <2>1. q # p /\ w \in aux_graph[q]
    BY <1>6, <1>8
  <2>2. PICK c \in Anc(w) : fa[c] = q /\ dfn[c] <= i
    BY <2>1 DEF SearchInv, BucketInv
  <2>3. w \in Block /\ c \in Block
    BY <1>2, <1>5, <2>1
  <2>4. c # t
    BY <2>1, <2>2
  <2>5. dfn[c] # i
    BY <1>2, <2>3, <2>4
  <2>6. dfn[c] <= i - 1
    BY <1>2, <2>2, <2>3, <2>5
  <2> QED  BY <2>1, <2>2, <2>6 DEF SearchInv, BucketInv
<1>9. ASSUME NEW w \in Block, Hung(w), w \notin aux_graph'[sdom[w]]
      PROVE  BestBetween(w) /\ \A y \in Anc(w) : dfn[sdom[w]] < dfn[y] => Hung(y)
  <2>1. w \in aux_graph[sdom[w]] => pc = "bucket" /\ sdom[w] = p /\ w \notin todo
    BY <1>1, <1>2, <1>6, <1>9
  <2> QED  BY <1>9, <2>1 DEF SearchInv, BucketInv
<1>10. idom[1] = 0
  BY DEF SearchInv, BucketInv
<1> HIDE DEF t, p
<1>11. CASE i - 1 >= 2
  <2>1. pc' = "semi" /\ i' = i - 1 /\ todo' = Predecessors(ord(i - 1))
    BY <1>1, <1>11 DEF Round
  <2>2. \A b \in Block : Hung(b)' <=> Hung(b)
    BY <1>2, <1>3, <2>1 DEF Hung
  <2>3. ForestInv'
    BY <1>2, <1>3, <2>2 DEF SearchInv, ForestInv
  <2>4. SemiInv'
    <3>1. \A w \in Block : dfn[w] < i - 1 => sdom[w] = w
      BY <1>2 DEF SearchInv, SemiInv
    <3>2. \A w \in Block : dfn[w] = i - 1 => Predecessors(w) \ todo' = {}
      BY <2>1, OrdNumber DEF SearchInv
    <3>3. \A w \in Block : sdom[w] \in Anc(w) /\ Sound(w) /\ (Hung(w) => \A q \in Predecessors(w) : Covers(w, q))
      BY DEF SearchInv, SemiInv
    <3>4. \A w \in Block : /\ sdom'[w] \in Anc(w)' /\ Sound(w)'
                           /\ Hung(w)' => \A q \in Predecessors(w)' : Covers(w, q)'
      BY <1>3, <1>7, <2>2, <3>3
    <3>5. \A w \in Block : /\ dfn'[w] < i' => sdom'[w] = w
                           /\ dfn'[w] = i' => Predecessors(w)' \ todo' = {}
      BY <1>3, <2>1, <3>1, <3>2
    <3> QED  BY <1>3, <3>4, <3>5 DEF SemiInv
  <2>5. BucketInv'
    <3>1. \A w \in Block : Hung(w)' /\ w \notin aux_graph'[sdom'[w]]
              => BestBetween(w)' /\ \A y \in Anc(w)' : dfn'[sdom'[w]] < dfn'[y] => Hung(y)'
      BY <1>2, <1>3, <1>7, <1>9, <2>2
    <3>2. \A q \in Block : \A w \in aux_graph'[q] :
              /\ Hung(w)' /\ sdom'[w] = q
              /\ \E c \in Anc(w)' : fa'[c] = q /\ dfn'[c] <= i'
      <4> SUFFICES ASSUME NEW q \in Block, NEW w \in aux_graph'[q]
                   PROVE  /\ Hung(w)' /\ sdom'[w] = q
                          /\ \E c \in Anc(w)' : fa'[c] = q /\ dfn'[c] <= i'
        OBVIOUS
      <4>1. w \in Block
        BY <1>5, <1>6
      <4> QED  BY <1>3, <1>8, <2>1, <2>2, <4>1
    <3> QED  BY <1>3, <1>10, <2>1, <3>1, <3>2 DEF BucketInv
  <2>6. FindInv'
    <3>1. i' \in 2..co'
      BY <1>2, <1>3, <1>11, <2>1
    <3>2. todo' = Predecessors(ord(i))'
      BY <1>3, <2>1 DEF ord, Predecessors, Block
    <3>3. Len(path') = 0
      BY <1>3, <1>4
    <3> QED  BY <1>3, <1>4, <2>1, <3>1, <3>2, <3>3 DEF FindInv
  <2> QED  BY <2>1, <2>3, <2>4, <2>5, <2>6
<1>12. CASE ~(i - 1 >= 2)
  <2>1. pc' = "idom" /\ i' = 2 /\ i = 2
    BY <1>1, <1>2, <1>12 DEF Round
  <2>2. dfn[1] = 1 /\ \A w \in Block \ {1} : Hung(w)
    <3>1. \A w \in Block \ {1} : dfn[w] \in 1..co /\ dfn[w] # 1
      BY TreeNumbers DEF SearchInv
    <3> QED  BY <1>2, <2>1, <3>1, TreeNumbers DEF SearchInv
  <2>3. \A w \in Block \ {1} : \A q \in Predecessors(w) : Covers(w, q)
    BY <2>2 DEF SearchInv, SemiInv
  <2>4. \A q \in Predecessors(1) : Covers(1, q)
    <3>1. sdom[1] = 1
      BY <1>2, <2>1, <2>2 DEF SearchInv, SemiInv
    <3> QED  BY <1>2, <3>1, EntryCovers DEF Predecessors, SearchInv
  <2>5. \A q \in Block : aux_graph'[q] = {}
    <3> SUFFICES ASSUME NEW q \in Block, NEW w \in aux_graph'[q]  PROVE FALSE
      OBVIOUS
    <3>1. PICK c \in Anc(w) : fa[c] = q /\ dfn[c] <= 1
      BY <1>8, <2>1
    <3>2. c \in Block
      BY <1>2, <1>5, <1>6, <3>1
    <3>3. c = 1
      BY <3>1, <3>2, TreeNumbers DEF SearchInv
    <3>4. fa[c] = 0 /\ 0 \notin Block
      BY <1>2, <3>3, GraphShape DEF DfsTree, Numbering, Shape
    <3> QED  BY <3>1, <3>4
  <2>6. \A w \in Block \ {1} : BestBetween(w) /\ dfn[w] >= 2
    BY <1>2, <1>9, <2>1, <2>2, <2>5
  <2>7. \A w \in Block : sdom[w] \in Anc(w) /\ Sound(w) /\ \A q \in Predecessors(w) : Covers(w, q)
    BY <2>3, <2>4 DEF SearchInv, SemiInv
  <2>8. \A w \in Block' : sdom'[w] \in Anc(w)' /\ Sound(w)' /\ \A q \in Predecessors(w)' : Covers(w, q)'
    BY <1>3, <1>7, <2>7
  <2>9. \A w \in Block' \ {1} : ~(dfn'[w] < i') /\ BestBetween(w)'
    BY <1>2, <1>3, <1>7, <2>1, <2>6
  <2>10. i' \in 2..(co' + 1) /\ idom'[1] = 0
    BY <1>2, <1>3, <1>10, <2>1
  <2>11. IdomInv'
    BY <2>8, <2>9, <2>10 DEF IdomInv
  <2> QED  BY <2>1, <2>11
<1> QED  BY <1>11, <1>12

\* The first round starts with a forest of single vertices.
LEMMA NumberedStep ==
    ASSUME Tree, 1 \in Block, aux_graph = None, idom = Zero, v = 0, path = <<>>, ret = 0, Numbered
    PROVE  IF pc' = "semi" THEN ForestInv' /\ SemiInv' /\ BucketInv' /\ FindInv'
                           ELSE pc' = "idom" /\ IdomInv'
<1>1. /\ UNCHANGED <<f_graph, dfsVars, v, path, ret, aux_graph, idom>>
      /\ sdom' = Self /\ ufs' = Self /\ mn' = Self /\ Round(co)
  BY DEF Numbered
<1>2. /\ Shape /\ DfsTree /\ dfn \in [Block -> Nat] /\ co \in Nat
      /\ \A w \in Block : w \in Anc(w) /\ Anc(w) \subseteq Block
      /\ \A b \in Block : dfn[b] \in 1..co /\ (dfn[b] = 1 <=> b = 1)
  BY AncBasics, TreeNumbers DEF Tree, DfsTree, Shape
<1>3. /\ Block' = Block /\ dfn' = dfn /\ fa' = fa /\ co' = co
      /\ v' = 0 /\ path' = <<>> /\ Len(path') = 0 /\ ret' = 0
      /\ \A w : Anc(w)' = Anc(w) /\ Avoiding(w)' = Avoiding(w) /\ Predecessors(w)' = Predecessors(w)
  BY <1>1, Static DEF dfsVars
<1>4. /\ \A w \in Block : sdom'[w] = w /\ ufs'[w] = w /\ mn'[w] = w
      /\ \A q \in Block : aux_graph'[q] = {}
      /\ idom'[1] = 0
  BY <1>1 DEF Self, None, Zero
<1>5. ASSUME NEW w \in Block
      PROVE  sdom'[w] \in Anc(w)' /\ Sound(w)'
  <2>1. Sound(w)'
    <3> SUFFICES ASSUME NEW a \in Block, NEW S \in SUBSET Block,
                        dfn[w] < dfn[a], dfn[a] < dfn[w]
                 PROVE  FALSE
      BY <1>3, <1>4 DEF Sound
    <3> QED  BY <1>2
  <2> QED  BY <1>2, <1>3, <1>4, <2>1
<1>6. CASE co >= 2
  <2>1. pc' = "semi" /\ i' = co /\ todo' = Predecessors(ord(co))
    BY <1>1, <1>6 DEF Round
  <2>2. \A b \in Block : ~Hung(b)'
    BY <1>2, <1>3, <2>1 DEF Hung
  <2>3. ForestInv'
    BY <1>3, <1>4, <2>2 DEF ForestInv
  <2>4. SemiInv'
    <3>1. \A w \in Block : dfn[w] = co => Predecessors(w) \ todo' = {}
      BY <2>1, OrdNumber
    <3> QED  BY <1>3, <1>4, <1>5, <2>1, <2>2, <3>1 DEF SemiInv
  <2>5. BucketInv'
    BY <1>3, <1>4, <2>2 DEF BucketInv
  <2>6. FindInv'
    <3>1. todo' = Predecessors(ord(i))'
      BY <1>3, <2>1 DEF ord, Predecessors, Block
    <3> QED  BY <1>2, <1>3, <1>6, <2>1, <3>1 DEF FindInv
  <2> QED  BY <2>1, <2>3, <2>4, <2>5, <2>6
<1>7. CASE ~(co >= 2)
  <2>1. pc' = "idom" /\ i' = 2
    BY <1>1, <1>7 DEF Round
  <2>2. co = 1 /\ Block = {1}
    BY <1>2, <1>7
  <2>3. ASSUME NEW q \in Block
        PROVE  Covers(1, q)'
    <3>1. Anc(1) = {1} /\ q = 1
      BY <1>2, <2>2, AncEntry
    <3> QED  BY <1>2, <1>3, <1>4, <3>1 DEF Covers
  <2>4. \A q \in Predecessors(1)' : q \in Block
    BY <1>3 DEF Predecessors
  <2> QED  BY <1>2, <1>3, <1>4, <1>5, <2>1, <2>2, <2>3, <2>4 DEF IdomInv
<1> QED  BY <1>6, <1>7

-----------------------------------------------------------------------------
(* The immediate dominators.                                               *)

\* A vertex gets the immediate dominator of one with a smaller number, which has its own.
LEMMA FixIdomStep ==
    ASSUME Tree, TypeOK, IdomInv, FixIdom
    PROVE  IdomInv'
<1> DEFINE t == ord(i)
<1>1. /\ UNCHANGED <<f_graph, dfsVars, sdom>> /\ i <= co /\ i' = i + 1
      /\ idom' = IF idom[t] # sdom[t] THEN [idom EXCEPT ![t] = idom[idom[t]]] ELSE idom
  BY DEF FixIdom
<1>2. /\ Shape /\ DfsTree /\ dfn \in [Block -> Nat] /\ co \in Nat /\ i \in 2..co
      /\ \A w \in Block : w \in Anc(w) /\ Anc(w) \subseteq Block /\ Visited(w)
      /\ idom \in [Block -> Block \cup {0}] /\ sdom \in [Block -> Block \cup {0}]
  <2>1. Shape /\ DfsTree /\ dfn \in [Block -> Nat] /\ co \in Nat
    BY DEF Tree, DfsTree, Shape
  <2>2. \A w \in Block : w \in Anc(w) /\ Anc(w) \subseteq Block /\ Visited(w)
    BY <2>1, AncBasics DEF Tree, AllNumbered
  <2>3. idom \in [Block -> Block \cup {0}] /\ sdom \in [Block -> Block \cup {0}]
    BY DEF TypeOK
  <2>4. i \in 2..(co + 1)
    BY DEF IdomInv
  <2> QED  BY <1>1, <2>1, <2>2, <2>3, <2>4
<1>3. /\ t \in Block \ {1} /\ dfn[t] = i /\ \A b \in Block : dfn[b] = i => b = t
      /\ 1 \in Block /\ 0 \notin Block
  BY <1>2, OrdNumber, TreeNumbers
<1>4. /\ Block' = Block /\ dfn' = dfn /\ co' = co /\ sdom' = sdom
      /\ \A w : Anc(w)' = Anc(w) /\ Avoiding(w)' = Avoiding(w) /\ Predecessors(w)' = Predecessors(w)
      /\ \A a, b : IsIdom(a, b)' <=> IsIdom(a, b)
  BY <1>1, Static DEF dfsVars
<1>5. Semidominators
  BY <1>2 DEF Semidominators, IdomInv
<1>6. \A w \in Block \ {t} : idom'[w] = idom[w]
  BY <1>1, <1>2, <1>3
<1>7. BestBetween(t)
  BY <1>2, <1>3 DEF IdomInv
<1> HIDE DEF t
<1>8. idom'[t] \in Block /\ IsIdom(idom'[t], t)
  <2>1. sdom[t] \in Block /\ dfn[sdom[t]] < dfn[t]
    BY <1>3, <1>5, SemiAboveParent
  <2>2. CASE idom[t] = sdom[t]
    <3>1. IsIdom(sdom[t], t)
      BY <1>3, <1>5, <1>7, <2>2, SemiIsIdom DEF BestBetween
    <3> QED  BY <1>1, <1>3, <2>1, <2>2, <3>1
  <2>3. CASE idom[t] # sdom[t]
    <3> DEFINE u == idom[t]
    <3>1. /\ u \in Anc(t) /\ dfn[sdom[t]] <= dfn[u] /\ dfn[sdom[u]] < dfn[sdom[t]]
          /\ \A y \in Anc(t) : dfn[sdom[t]] < dfn[y] => dfn[sdom[u]] <= dfn[sdom[y]]
      BY <1>7, <2>3 DEF BestBetween
    <3>2. u \in Block /\ dfn[sdom[t]] # dfn[u]
      BY <1>2, <1>3, <2>1, <2>3, <3>1, TreeNumbers
    <3> HIDE DEF u
    <3>3. dfn[sdom[t]] < dfn[u] /\ u # 1 /\ u # t
      BY <1>2, <2>1, <3>1, <3>2, TreeNumbers
    <3>4. dfn[u] < i
      BY <1>2, <1>3, <3>1, <3>3, AncOrder
    <3>5. idom[u] \in Block /\ IsIdom(idom[u], u)
      BY <3>2, <3>3, <3>4 DEF IdomInv
    <3>6. IsIdom(idom[u], t)
      BY <1>3, <1>5, <3>1, <3>3, <3>5, LeastHasIdom
    <3>7. idom'[t] = idom[u]
      BY <1>1, <1>2, <1>3, <2>3 DEF u
    <3> QED  BY <3>5, <3>6, <3>7
  <2> QED  BY <2>2, <2>3
<1>9. ASSUME NEW w \in Block \ {1}
      PROVE  IF dfn[w] < i' THEN idom'[w] \in Block /\ IsIdom(idom'[w], w) ELSE BestBetween(w)'
  <2>1. CASE w = t
    BY <1>1, <1>2, <1>3, <1>8, <2>1
  <2>2. CASE w # t
    <3>1. idom'[w] = idom[w] /\ dfn[w] # i
      BY <1>3, <1>6, <2>2
    <3>2. BestBetween(w)' <=> BestBetween(w)
      <4>1. ASSUME BestBetween(w) \/ BestBetween(w)'
            PROVE  idom[w] # sdom[w] => sdom'[idom'[w]] = sdom[idom[w]]
        BY <1>4, <3>1
      <4> QED  BY <1>4, <3>1 DEF BestBetween
    <3>3. dfn[w] < i' <=> dfn[w] < i
      BY <1>1, <1>2, <3>1
    <3> QED  BY <3>1, <3>2, <3>3 DEF IdomInv
  <2> QED  BY <2>1, <2>2
<1>10. \A w \in Block : sdom'[w] \in Anc(w)' /\ Sound(w)' /\ \A q \in Predecessors(w)' : Covers(w, q)'
  <2>1. /\ \A w, q : Covers(w, q)' <=> Covers(w, q)
        /\ \A w : Sound(w)' <=> Sound(w)
    BY <1>4 DEF Covers, Sound
  <2> QED  BY <1>4, <2>1 DEF IdomInv
<1>11. idom'[1] = 0 /\ i' \in 2..(co' + 1)
  BY <1>1, <1>2, <1>3, <1>4, <1>6 DEF IdomInv
<1>12. \A w \in Block : \A b : IsIdom(b, w)' <=> IsIdom(b, w)
  BY <1>4
<1>13. \A w \in Block' \ {1} :
          IF dfn'[w] < i' THEN idom'[w] \in Block' /\ IsIdom(idom[w], w)' ELSE BestBetween(w)'
  <2> SUFFICES ASSUME NEW w \in Block \ {1}
               PROVE  IF dfn'[w] < i' THEN idom'[w] \in Block' /\ IsIdom(idom[w], w)' ELSE BestBetween(w)'
    BY <1>4
  <2>1. CASE dfn[w] < i'
    <3>1. idom'[w] \in Block /\ IsIdom(idom'[w], w)
      BY <1>9, <2>1
    <3>2. IsIdom(idom[w], w)'
      BY <1>1, <1>4, <3>1 DEF IsIdom, StrictDom, Dom, Without, Avoiding
    <3> QED  BY <1>4, <2>1, <3>1, <3>2
  <2>2. CASE ~(dfn[w] < i')
    BY <1>4, <1>9, <2>2
  <2> QED  BY <2>1, <2>2
<1> QED  BY <1>4, <1>10, <1>11, <1>13 DEF IdomInv

\* Every immediate dominator is there, and dfs() starts.
LEMMA AttachedStep ==
    ASSUME Tree, TypeOK, IdomInv, m_dominators = None, Attached
    PROVE  ImmediateRight' /\ TreeInv'
<1>1. /\ UNCHANGED <<f_graph, dfsVars, idom>> /\ i > co /\ cur' = 1
      /\ m_dominators' = [m_dominators EXCEPT ![1] = {1}]
      /\ m_dom_depth' = [m_dom_depth EXCEPT ![1] = 1]
  BY DEF Attached
<1>2. /\ f_graph \in Graphs /\ 1 \in Block /\ dfn \in [Block -> Nat] /\ co \in Nat /\ i \in Nat
      /\ \A b \in Block : dfn[b] \in 1..co
      /\ m_dom_depth \in [Block -> Nat]
  BY TreeNumbers DEF Tree, DfsTree, Shape, TypeOK
<1>3. Block' = Block /\ idom' = idom /\ \A a, b : /\ Dom(a, b)' <=> Dom(a, b)
                                                  /\ StrictDom(a, b)' <=> StrictDom(a, b)
                                                  /\ IsIdom(a, b)' <=> IsIdom(a, b)
  BY <1>1, Static
<1>4. ImmediateRight'
  <2>1. \A b \in Block \ {1} : idom[b] \in Block /\ IsIdom(idom[b], b)
    BY <1>1, <1>2 DEF IdomInv
  <2>2. \A b \in Block \ {1} : IsIdom(idom[b], b)'
    BY <1>1, <1>3, <2>1 DEF IsIdom, StrictDom, Dom, Without, Avoiding
  <2> QED  BY <1>3, <2>1, <2>2 DEF ImmediateRight, IdomInv
<1>5. \A a \in Block : Dom(a, 1) <=> a = 1
  BY <1>2, DomReflexive
<1>6. /\ m_dominators'[1] = {1} /\ m_dom_depth'[1] = 1
      /\ \A b \in Block \ {1} : m_dominators'[b] = {}
  BY <1>1, <1>2 DEF None
<1>7. \A b \in Block : Entered(b)' <=> b = 1
  BY <1>6 DEF Entered
<1>8. Cardinality({a \in Block : Dom(a, 1)}) = 1
  <2>1. {a \in Block : Dom(a, 1)} = {1}
    BY <1>2, <1>5
  <2> QED  BY <2>1, FS_Singleton
<1>9. ASSUME NEW b \in Block', Entered(b)'
      PROVE  /\ m_dom_depth'[b] = Cardinality({a \in Block' : Dom(a, b)'})
             /\ \A a \in Block' : Dom(a, b)' => Entered(a)'
             /\ ~Dom(b, cur)' => \A c \in Block' : Dom(b, c)' => Entered(c)'
             /\ m_dominators'[b] =
                    {y \in Block' : /\ Entered(y)' /\ Dom(b, y)'
                                    /\ y # b => \A c \in Block' : StrictDom(b, c)' /\ Dom(c, cur)'
                                                                     => ~Dom(c, y)'}
  <2>1. b = 1
    BY <1>3, <1>7, <1>9
  <2>2. {a \in Block' : Dom(a, b)'} = {a \in Block : Dom(a, 1)}
    BY <1>3, <2>1
  <2>3. m_dom_depth'[b] = Cardinality({a \in Block' : Dom(a, b)'})
    BY <1>6, <1>8, <2>1, <2>2
  <2>4. Dom(b, cur)'
    BY <1>1, <1>2, <1>3, <1>5, <2>1 DEF Dom, Without, Avoiding, Block
  <2>5. \A a \in Block' : Dom(a, b)' => Entered(a)'
    BY <1>3, <1>5, <1>7, <2>1
  <2>6. m_dominators'[b] =
           {y \in Block' : /\ Entered(y)' /\ Dom(b, y)'
                           /\ y # b => \A c \in Block' : StrictDom(b, c)' /\ Dom(c, cur)'
                                                            => ~Dom(c, y)'}
    BY <1>2, <1>3, <1>5, <1>6, <1>7, <2>1
  <2> QED  BY <2>3, <2>4, <2>5, <2>6
<1>10. Entered(cur)'
  BY <1>1, <1>6 DEF Entered
<1>11. TreeInv'
  BY <1>9, <1>10 DEF TreeInv
<1> QED  BY <1>4, <1>11

-----------------------------------------------------------------------------
(* The dominator tree.                                                     *)

\* Dominance is an order, and the entry is its least block.
LEMMA DomOrder ==
    ASSUME f_graph \in Graphs
    PROVE  /\ \A a \in Block : Dom(a, a) /\ Dom(1, a) /\ (Dom(a, 1) => a = 1)
           /\ \A a, b \in Block : Dom(a, b) /\ Dom(b, a) => a = b
           /\ \A a, b, c \in Block : Dom(a, b) /\ Dom(b, c) => Dom(a, c)
<1>1. \A a, b \in Block : Dom(a, b) /\ Dom(b, a) => a = b
  BY DomAntisymmetric
<1>2. \A a, b, c \in Block : Dom(a, b) /\ Dom(b, c) => Dom(a, c)
  BY DomTransitive
<1>3. \A a \in Block : Dom(a, a) /\ Dom(1, a) /\ (Dom(a, 1) => a = 1)
  BY DomReflexive
<1> QED  BY <1>1, <1>2, <1>3

\* The dominators of a block are itself and those of its immediate dominator.
LEMMA IdomDominators ==
    ASSUME f_graph \in Graphs, ImmediateRight, TreeBuilt, NEW b \in Block, b # 1
    PROVE  /\ idom[b] \in Block /\ idom[b] # b /\ Dom(idom[b], b) /\ ~Dom(b, idom[b])
           /\ \A a \in Block : Dom(a, b) <=> a = b \/ Dom(a, idom[b])
<1>1. idom[b] \in Block /\ IsIdom(idom[b], b)
  BY DEF ImmediateRight
<1>2. idom[b] # b /\ Dom(idom[b], b) /\ \A a \in Block : a # b /\ Dom(a, b) => Dom(a, idom[b])
  BY <1>1 DEF IsIdom, StrictDom
<1> QED  BY <1>1, <1>2, DomOrder

\* When the children of a block have been entered, so has what it dominates.
LEMMA SubtreeEntered ==
    ASSUME f_graph \in Graphs, ImmediateRight, TreeBuilt, TreeInv, AllEntered, cur \in Block,
           NEW b \in Block, Dom(cur, b)
    PROVE  Entered(b)
<1> DEFINE S == {z \in Block : Dom(cur, z) => Entered(z)}
<1>0. f_graph \in [Block -> SUBSET Block] /\ Reach(f_graph, 1) = Block /\ 1 \in Block
  BY GraphShape
<1>1. 1 \in S
  BY <1>0, DomOrder DEF TreeInv
<1>2. ASSUME NEW s \in S, NEW t \in f_graph[s], Dom(cur, t)
      PROVE  Entered(t)
  <2>0. s \in Block /\ t \in Block
    BY <1>0
  <2>1. CASE t = cur
    BY <2>1 DEF TreeInv
  <2>2. CASE t # cur
    <3>1. StrictDom(cur, t) /\ t # 1
      BY <1>0, <1>2, <2>0, <2>2, DomOrder DEF StrictDom
    <3>2. Entered(s)
      BY <2>0, <3>1, DomPredecessor
    <3>3. idom[t] \in Block /\ IsIdom(idom[t], t)
      BY <2>0, <3>1 DEF ImmediateRight
    <3>4. StrictDom(idom[t], t) /\ Dom(cur, idom[t])
      BY <3>1, <3>3 DEF IsIdom
    <3>5. Dom(idom[t], s)
      BY <2>0, <3>3, <3>4, DomPredecessor
    <3>6. Entered(idom[t])
      BY <2>0, <3>2, <3>3, <3>5 DEF TreeInv
    <3>7. CASE idom[t] = cur
      BY <2>0, <3>7 DEF AllEntered, Child
    <3>8. CASE idom[t] # cur
      <4>1. ~Dom(idom[t], cur)
        BY <3>3, <3>4, <3>8, DomOrder
      <4> QED  BY <2>0, <3>3, <3>4, <3>6, <4>1 DEF TreeInv, StrictDom
    <3> QED  BY <3>7, <3>8
  <2> QED  BY <2>1, <2>2
<1>3. Closed(f_graph, S) /\ S \in SUBSET Block
  BY <1>0, <1>2 DEF Closed
<1> HIDE DEF S
<1>4. Block \subseteq S
  BY <1>0, <1>1, <1>3, ReachLeast
<1> QED  BY <1>4 DEF S

\* dfs() enters a child: a new subtree with nothing joined yet.
LEMMA EnterStep ==
    ASSUME f_graph \in Graphs, TypeOK, ImmediateRight, TreeInv, NEW c \in Block, Enter(c)
    PROVE  TreeInv'
<1>1. /\ f_graph' = f_graph /\ UNCHANGED <<f_graph, dfsVars>>
      /\ pc = "tree" /\ idom[c] = cur /\ ~Entered(c) /\ cur' = c
      /\ m_dominators' = [m_dominators EXCEPT ![c] = {c}]
      /\ m_dom_depth' = [m_dom_depth EXCEPT ![c] = m_dom_depth[cur] + 1]
  BY DEF Enter, Child
<1>2. cur \in Block /\ 0 \notin Block /\ c # 1 /\ TreeBuilt
  BY <1>1, GraphShape DEF TypeOK, ImmediateRight, TreeBuilt
<1>3. cur # c /\ Dom(cur, c) /\ ~Dom(c, cur) /\ \A a \in Block : Dom(a, c) <=> a = c \/ Dom(a, cur)
  BY <1>1, <1>2, IdomDominators
<1>4. /\ \A a \in Block : Dom(a, a)
      /\ \A a, b \in Block : Dom(a, b) /\ Dom(b, a) => a = b
      /\ \A a, b, d \in Block : Dom(a, b) /\ Dom(b, d) => Dom(a, d)
  BY DomOrder
<1>5. /\ Block' = Block
      /\ \A a, b : (Dom(a, b)' <=> Dom(a, b)) /\ (StrictDom(a, b)' <=> StrictDom(a, b))
      /\ \A a : Dom(a, cur)' <=> Dom(a, c)
  <2>1. \A a : Dom(a, cur)' <=> Dom(a, c)
    BY <1>1 DEF Dom, Without, Avoiding, Block
  <2> QED  BY <1>1, <2>1, Static
<1>6. m_dominators \in [Block -> SUBSET Block] /\ m_dom_depth \in [Block -> Nat]
  BY DEF TypeOK
<1>7. /\ m_dominators'[c] = {c} /\ m_dom_depth'[c] = m_dom_depth[cur] + 1
      /\ \A b \in Block \ {c} : m_dominators'[b] = m_dominators[b] /\ m_dom_depth'[b] = m_dom_depth[b]
  BY <1>1, <1>6
<1>8. \A b \in Block : Entered(b)' <=> (b = c \/ Entered(b))
  BY <1>7 DEF Entered
<1>9. Entered(cur) /\ \A b \in Block : Entered(b) => \A a \in Block : Dom(a, b) => Entered(a)
  BY DEF TreeInv
<1>10. \A y \in Block : Entered(y) => ~Dom(c, y)
  BY <1>1, <1>9
<1>11. ASSUME NEW b \in Block, b = c
       PROVE  /\ m_dom_depth'[b] = Cardinality({a \in Block : Dom(a, b)})
              /\ \A a \in Block : Dom(a, b) => Entered(a)'
              /\ ~Dom(b, c) => \A y \in Block : Dom(b, y) => Entered(y)'
              /\ m_dominators'[b] =
                    {y \in Block : /\ Entered(y)' /\ Dom(b, y)
                                   /\ y # b => \A a \in Block : StrictDom(b, a) /\ Dom(a, c)
                                                                    => ~Dom(a, y)}
  <2>1. m_dom_depth'[b] = Cardinality({a \in Block : Dom(a, b)})
    <3> DEFINE D == {a \in Block : Dom(a, cur)}
    <3>1. IsFiniteSet(Block)
      <4>1. Block = 1..Cardinality(Block) /\ Cardinality(Block) \in Nat
        BY GraphShape
      <4> QED  BY <4>1, FS_Interval
    <3>2. IsFiniteSet(D)
      BY <3>1, FS_Subset
    <3>3. {a \in Block : Dom(a, b)} = D \cup {c} /\ c \notin D
      BY <1>3, <1>11
    <3>4. Cardinality(D \cup {c}) = Cardinality(D) + 1
      BY <3>2, <3>3, FS_AddElement
    <3>5. m_dom_depth[cur] = Cardinality(D)
      BY <1>2 DEF TreeInv
    <3> QED  BY <1>7, <1>11, <3>3, <3>4, <3>5
  <2>2. \A a \in Block : Dom(a, b) => Entered(a)'
    BY <1>2, <1>3, <1>8, <1>9, <1>11
  <2>3. \A y \in Block : Entered(y)' /\ Dom(b, y) <=> y = c
    BY <1>4, <1>8, <1>10, <1>11
  <2> QED  BY <1>4, <1>7, <1>11, <2>1, <2>2, <2>3
<1>12. ASSUME NEW b \in Block, b # c, Entered(b)
       PROVE  /\ m_dom_depth'[b] = Cardinality({a \in Block : Dom(a, b)})
              /\ \A a \in Block : Dom(a, b) => Entered(a)'
              /\ ~Dom(b, c) => \A y \in Block : Dom(b, y) => Entered(y)'
              /\ m_dominators'[b] =
                    {y \in Block : /\ Entered(y)' /\ Dom(b, y)
                                   /\ y # b => \A a \in Block : StrictDom(b, a) /\ Dom(a, c)
                                                                    => ~Dom(a, y)}
  <2>1. /\ m_dom_depth[b] = Cardinality({a \in Block : Dom(a, b)})
        /\ ~Dom(b, cur) => \A y \in Block : Dom(b, y) => Entered(y)
        /\ m_dominators[b] =
              {y \in Block : /\ Entered(y) /\ Dom(b, y)
                             /\ y # b => \A a \in Block : StrictDom(b, a) /\ Dom(a, cur)
                                                              => ~Dom(a, y)}
    BY <1>12 DEF TreeInv
  <2>2. ASSUME NEW y \in Block
        PROVE  /\ Entered(y)' /\ Dom(b, y)
               /\ y # b => \A a \in Block : StrictDom(b, a) /\ Dom(a, c) => ~Dom(a, y)
               <=>
               /\ Entered(y) /\ Dom(b, y)
               /\ y # b => \A a \in Block : StrictDom(b, a) /\ Dom(a, cur) => ~Dom(a, y)
    <3>1. CASE y = c
      BY <1>1, <1>4, <1>12, <3>1 DEF StrictDom
    <3>2. CASE y # c
      BY <1>3, <1>8, <1>10, <3>2
    <3> QED  BY <3>1, <3>2
  <2> QED  BY <1>2, <1>3, <1>7, <1>8, <1>9, <1>12, <2>1, <2>2
<1>13. ASSUME NEW b \in Block', Entered(b)'
       PROVE  /\ m_dom_depth'[b] = Cardinality({a \in Block' : Dom(a, b)'})
              /\ \A a \in Block' : Dom(a, b)' => Entered(a)'
              /\ ~Dom(b, cur)' => \A y \in Block' : Dom(b, y)' => Entered(y)'
              /\ m_dominators'[b] =
                    {y \in Block' : /\ Entered(y)' /\ Dom(b, y)'
                                    /\ y # b => \A a \in Block' : StrictDom(b, a)' /\ Dom(a, cur)'
                                                                     => ~Dom(a, y)'}
  BY <1>5, <1>8, <1>11, <1>12, <1>13
<1>14. Entered(cur)'
  BY <1>1, <1>7 DEF Entered
<1> QED  BY <1>13, <1>14 DEF TreeInv

\* dfs() returns: the parent joins all that the block dominates.
LEMMA LeaveStep ==
    ASSUME f_graph \in Graphs, TypeOK, ImmediateRight, TreeInv, Leave
    PROVE  TreeInv'
<1>1. /\ UNCHANGED <<f_graph, dfsVars>> /\ m_dom_depth' = m_dom_depth
      /\ pc = "tree" /\ AllEntered /\ cur # 1 /\ cur' = idom[cur]
      /\ m_dominators' = [m_dominators EXCEPT ![idom[cur]] = @ \cup m_dominators[cur]]
  BY DEF Leave, domVars
<1>2. cur \in Block /\ TreeBuilt /\ m_dominators \in [Block -> SUBSET Block]
  BY <1>1 DEF TypeOK, TreeBuilt
<1> SUFFICES ASSUME NEW q, q = idom[cur], NEW w, w = cur
             PROVE  TreeInv'
  OBVIOUS
<1>3. q \in Block /\ q # w /\ Dom(q, w) /\ ~Dom(w, q) /\ \A a \in Block : Dom(a, w) <=> a = w \/ Dom(a, q)
  BY <1>1, <1>2, IdomDominators
<1>4. /\ \A a \in Block : Dom(a, a)
      /\ \A a, b \in Block : Dom(a, b) /\ Dom(b, a) => a = b
      /\ \A a, b, d \in Block : Dom(a, b) /\ Dom(b, d) => Dom(a, d)
  BY DomOrder
<1>5. \A y \in Block : Dom(w, y) => Entered(y)
  BY <1>1, <1>2, SubtreeEntered
<1>6. Entered(w) /\ \A b \in Block : Entered(b) => \A a \in Block : Dom(a, b) => Entered(a)
  BY DEF TreeInv
<1>7. Entered(q) /\ w \in Block
  BY <1>2, <1>3, <1>6
<1>8. /\ Block' = Block
      /\ \A a, b : (Dom(a, b)' <=> Dom(a, b)) /\ (StrictDom(a, b)' <=> StrictDom(a, b))
      /\ \A a : Dom(a, cur)' <=> Dom(a, q)
  <2>1. \A a : Dom(a, cur)' <=> Dom(a, q)
    BY <1>1 DEF Dom, Without, Avoiding, Block
  <2> QED  BY <1>1, <2>1, Static
<1>9. /\ m_dominators'[q] = m_dominators[q] \cup m_dominators[w]
      /\ \A b \in Block \ {q} : m_dominators'[b] = m_dominators[b]
  BY <1>1, <1>2, <1>3
<1>10. \A b \in Block : Entered(b)' <=> Entered(b)
  BY <1>7, <1>9 DEF Entered
<1>11. ASSUME NEW b \in Block, Entered(b)
       PROVE  m_dominators[b] =
                  {y \in Block : /\ Entered(y) /\ Dom(b, y)
                                 /\ y # b => \A a \in Block : StrictDom(b, a) /\ Dom(a, w)
                                                                  => ~Dom(a, y)}
  BY <1>11 DEF TreeInv
<1>12. m_dominators[w] = {y \in Block : Entered(y) /\ Dom(w, y)}
  <2>1. ~\E a \in Block : StrictDom(w, a) /\ Dom(a, w)
    BY <1>4, <1>7 DEF StrictDom
  <2> QED  BY <1>6, <1>7, <1>11, <2>1
<1>13. m_dominators[q] = {y \in Block : Entered(y) /\ Dom(q, y) /\ (y # q => ~Dom(w, y))}
  <2>1. \A a \in Block : StrictDom(q, a) /\ Dom(a, w) <=> a = w
    BY <1>3, <1>4, <1>7 DEF StrictDom
  <2> QED  BY <1>3, <1>7, <1>11, <2>1
<1>14. m_dominators'[q] = {y \in Block : Entered(y) /\ Dom(q, y)}
  BY <1>3, <1>4, <1>7, <1>9, <1>12, <1>13
<1>15. ASSUME NEW b \in Block, Entered(b)
       PROVE  m_dominators'[b] =
                  {y \in Block : /\ Entered(y) /\ Dom(b, y)
                                 /\ y # b => \A a \in Block : StrictDom(b, a) /\ Dom(a, q)
                                                                  => ~Dom(a, y)}
  <2>1. CASE b = q
    <3>1. ~\E a \in Block : StrictDom(b, a) /\ Dom(a, q)
      BY <1>3, <1>4, <2>1 DEF StrictDom
    <3> QED  BY <1>14, <2>1, <3>1
  <2>2. CASE b # q
    <3>1. m_dominators'[b] = m_dominators[b]
      BY <1>9, <2>2
    <3>2. ASSUME NEW y \in Block
          PROVE  (\A a \in Block : StrictDom(b, a) /\ Dom(a, w) => ~Dom(a, y))
                 <=> (\A a \in Block : StrictDom(b, a) /\ Dom(a, q) => ~Dom(a, y))
      <4>1. ASSUME \A a \in Block : StrictDom(b, a) /\ Dom(a, q) => ~Dom(a, y),
                   StrictDom(b, w), Dom(w, y)
            PROVE  FALSE
        <5>1. StrictDom(b, q)
          BY <1>3, <1>7, <2>2, <4>1 DEF StrictDom
        <5> QED  BY <1>3, <1>4, <1>7, <4>1, <5>1
      <4> QED  BY <1>3, <4>1
    <3> QED  BY <1>11, <1>15, <3>1, <3>2
  <2> QED  BY <2>1, <2>2
<1>16. ASSUME NEW b \in Block, Entered(b)
       PROVE  /\ m_dom_depth'[b] = Cardinality({a \in Block : Dom(a, b)})
              /\ \A a \in Block : Dom(a, b) => Entered(a)
              /\ ~Dom(b, q) => \A y \in Block : Dom(b, y) => Entered(y)
  <2>1. ~Dom(b, w) => \A y \in Block : Dom(b, y) => Entered(y)
    BY <1>16 DEF TreeInv
  <2>2. m_dom_depth[b] = Cardinality({a \in Block : Dom(a, b)})
    BY <1>16 DEF TreeInv
  <2> QED  BY <1>1, <1>3, <1>5, <1>6, <1>16, <2>1, <2>2
<1>17. ASSUME NEW b \in Block', Entered(b)'
       PROVE  /\ m_dom_depth'[b] = Cardinality({a \in Block' : Dom(a, b)'})
              /\ \A a \in Block' : Dom(a, b)' => Entered(a)'
              /\ ~Dom(b, cur)' => \A y \in Block' : Dom(b, y)' => Entered(y)'
              /\ m_dominators'[b] =
                    {y \in Block' : /\ Entered(y)' /\ Dom(b, y)'
                                    /\ y # b => \A a \in Block' : StrictDom(b, a)' /\ Dom(a, cur)'
                                                                     => ~Dom(a, y)'}
  BY <1>8, <1>10, <1>15, <1>16, <1>17
<1>18. Entered(cur)'
  BY <1>1, <1>3, <1>7, <1>10 DEF Entered
<1> QED  BY <1>17, <1>18 DEF TreeInv

\* dfs() is back at the entry: every block has all that it dominates.
LEMMA TreeWalkedStep ==
    ASSUME f_graph \in Graphs, TypeOK, ImmediateRight, TreeInv, TreeWalked,
           v = 0, m_dominance_frontier = None
    PROVE  DominatorsRight' /\ FrontierInv'
<1>1. /\ UNCHANGED <<f_graph, dfsVars, domVars, m_dominance_frontier>> /\ v' = 0
      /\ pc = "tree" /\ AllEntered /\ cur = 1 /\ i' = 1 /\ todo' = f_graph[1]
      /\ m_dominators' = m_dominators /\ m_dom_depth' = m_dom_depth
  BY DEF TreeWalked, domVars, frontierVars
<1>2. /\ cur \in Block /\ TreeBuilt /\ f_graph \in [Block -> SUBSET Block]
      /\ Block = 1..Cardinality(Block) /\ Cardinality(Block) \in Nat /\ 1 \in Block
  BY <1>1, GraphShape DEF TypeOK, TreeBuilt
<1>3. /\ \A a \in Block : Dom(a, a) /\ Dom(1, a) /\ (Dom(a, 1) => a = 1)
      /\ \A a, b \in Block : Dom(a, b) /\ Dom(b, a) => a = b
  BY DomOrder
<1>4. \A b \in Block : Entered(b)
  BY <1>1, <1>2, <1>3, SubtreeEntered
<1>5. /\ Block' = Block
      /\ \A a, b : (Dom(a, b)' <=> Dom(a, b)) /\ (StrictDom(a, b)' <=> StrictDom(a, b))
      /\ \A b : Predecessors(b)' = Predecessors(b)
  BY <1>1, Static
<1>6. ASSUME NEW b \in Block
      PROVE  /\ m_dominators[b] = {c \in Block : Dom(b, c)}
             /\ m_dom_depth[b] = Cardinality({a \in Block : Dom(a, b)})
  <2>1. /\ m_dom_depth[b] = Cardinality({a \in Block : Dom(a, b)})
        /\ m_dominators[b] =
              {y \in Block : /\ Entered(y) /\ Dom(b, y)
                             /\ y # b => \A a \in Block : StrictDom(b, a) /\ Dom(a, cur)
                                                              => ~Dom(a, y)}
    BY <1>4 DEF TreeInv
  <2>2. ~\E a \in Block : StrictDom(b, a) /\ Dom(a, cur)
    BY <1>1, <1>2, <1>3 DEF StrictDom
  <2> QED  BY <1>4, <2>1, <2>2
<1>7. DominatorsRight'
  <2>1. \A b \in Block' : /\ m_dominators'[b] = {c \in Block' : Dom(b, c)'}
                          /\ m_dom_depth'[b] = Cardinality({a \in Block' : Dom(a, b)'})
    BY <1>1, <1>5, <1>6
  <2> QED  BY <2>1 DEF DominatorsRight
<1>8. FrontierInv'
  <2>1. i' \in Block' /\ todo' \subseteq f_graph'[i'] /\ v' = 0
    BY <1>1, <1>2, <1>5
  <2>2. \A a \in Block : \A b \in Block : ~Past(a, b)'
    BY <1>1, <1>2 DEF Past
  <2>3. \A z : ~Passed(z)'
    BY <1>1 DEF Passed
  <2>4. \A z \in Block : m_dominance_frontier'[z] = {}
    BY <1>1 DEF None
  <2>5. \A z \in Block' : m_dominance_frontier'[z] =
            {b \in Block' \ {z} : \/ ~StrictDom(z, b)' /\ \E a \in Block' : Past(a, b)' /\ Dom(z, a)'
                                  \/ b = v' /\ Passed(z)'}
    BY <1>5, <2>2, <2>3, <2>4
  <2> QED  BY <2>1, <2>3, <2>5 DEF FrontierInv
<1> QED  BY <1>7, <1>8

-----------------------------------------------------------------------------
(* The dominance frontiers.                                                *)

\* An edge starts its climb at the block it leaves.
LEMMA EdgeStep ==
    ASSUME f_graph \in Graphs, TypeOK, FrontierInv, NEW b \in Block, Edge(b)
    PROVE  FrontierInv'
<1>1. /\ UNCHANGED <<f_graph, dfsVars>> /\ i' = i /\ todo' = todo
      /\ m_dominance_frontier' = m_dominance_frontier
      /\ v = 0 /\ b \in todo /\ v' = b /\ x' = i
  BY DEF Edge
<1>2. i \in Block /\ 0 \notin Block
  BY GraphShape DEF FrontierInv
<1>3. /\ Block' = Block
      /\ \A a, c : (Dom(a, c)' <=> Dom(a, c)) /\ (StrictDom(a, c)' <=> StrictDom(a, c))
  BY <1>1, Static
<1>4. /\ \A a, c : Past(a, c)' <=> Past(a, c)
      /\ \A z : ~Passed(z)
  BY <1>1 DEF Past, Passed
<1>5. \A z : ~Passed(z)'
  <2>1. ASSUME NEW z
        PROVE  ~Passed(z)'
    <3>1. Dom(z, x)' <=> Dom(z, i)
      BY <1>1 DEF Dom, Without, Avoiding, Block
    <3>2. Dom(z, i)' <=> Dom(z, i)
      BY <1>1 DEF Dom, Without, Avoiding, Block
    <3> QED  BY <1>1, <1>2, <3>1, <3>2 DEF Passed
  <2> QED  BY <2>1
<1>6. Dom(x, i)'
  <2>1. Dom(x, i)' <=> Dom(i, i)
    BY <1>1 DEF Dom, Without, Avoiding, Block
  <2> QED  BY <1>2, <2>1, DomReflexive
<1>7. i' \in Block' /\ todo' \subseteq f_graph'[i'] /\ (v' # 0 => v' \in todo')
  BY <1>1, <1>3 DEF FrontierInv
<1>8. \A z \in Block' : m_dominance_frontier'[z] =
          {c \in Block' \ {z} : \/ ~StrictDom(z, c)' /\ \E a \in Block' : Past(a, c)' /\ Dom(z, a)'
                                \/ c = v' /\ Passed(z)'}
  <2>1. ASSUME NEW z \in Block
        PROVE  m_dominance_frontier[z] =
                  {c \in Block \ {z} : ~StrictDom(z, c) /\ \E a \in Block : Past(a, c) /\ Dom(z, a)}
    BY <1>4 DEF FrontierInv
  <2> QED  BY <1>1, <1>3, <1>4, <1>5, <2>1
<1> QED  BY <1>5, <1>6, <1>7, <1>8 DEF FrontierInv

\* The climb passes a block that does not strictly dominate the edge's head.
LEMMA ClimbStep ==
    ASSUME f_graph \in Graphs, TypeOK, ImmediateRight, DominatorsRight, FrontierInv, Climb
    PROVE  FrontierInv'
<1>1. /\ UNCHANGED <<f_graph, dfsVars>> /\ i' = i /\ todo' = todo /\ v' = v
      /\ pc = "frontier" /\ v # 0 /\ x # 0 /\ x' = idom[x] /\ Passing
      /\ m_dominance_frontier' = IF x = v THEN m_dominance_frontier
                                 ELSE [m_dominance_frontier EXCEPT ![x] = @ \cup {v}]
  BY DEF Climb, Passing
<1>2. /\ i \in Block /\ 0 \notin Block /\ x \in Block /\ v \in Block /\ v \in todo /\ Dom(x, i)
      /\ TreeBuilt /\ idom[1] = 0 /\ 1 \in Block
      /\ m_dominance_frontier \in [Block -> SUBSET Block]
  BY <1>1, GraphShape DEF FrontierInv, TypeOK, TreeBuilt, ImmediateRight
<1>3. ~StrictDom(x, v)
  BY <1>1, <1>2 DEF Passing, DominatorsRight, StrictDom
<1>4. /\ Block' = Block
      /\ \A a, c : (Dom(a, c)' <=> Dom(a, c)) /\ (StrictDom(a, c)' <=> StrictDom(a, c))
  BY <1>1, Static
<1>5. \A a, c : Past(a, c)' <=> Past(a, c)
  BY <1>1 DEF Past
<1>6. /\ \A a \in Block : Dom(a, a) /\ Dom(1, a) /\ (Dom(a, 1) => a = 1)
      /\ \A a, b, c \in Block : Dom(a, b) /\ Dom(b, c) => Dom(a, c)
  BY DomOrder
<1>7. /\ x # 1 => /\ idom[x] \in Block /\ Dom(idom[x], x) /\ ~Dom(x, idom[x])
                  /\ \A a \in Block : Dom(a, x) <=> a = x \/ Dom(a, idom[x])
  BY <1>2, IdomDominators
<1>8. ASSUME NEW z \in Block
      PROVE  Passed(z)' <=> Passed(z) \/ z = x
  <2>1. /\ Dom(z, i)' <=> Dom(z, i)
        /\ Dom(z, x)' <=> Dom(z, idom[x])
    BY <1>1 DEF Dom, Without, Avoiding, Block
  <2>2. Passed(z)' <=> Dom(z, i) /\ (idom[x] = 0 \/ ~Dom(z, idom[x]))
    BY <1>1, <2>1 DEF Passed
  <2>3. Passed(z) <=> Dom(z, i) /\ ~Dom(z, x)
    BY <1>1 DEF Passed
  <2>4. CASE x = 1
    BY <1>2, <1>6, <2>2, <2>3, <2>4
  <2>5. CASE x # 1
    BY <1>2, <1>7, <2>2, <2>3, <2>5
  <2> QED  BY <2>4, <2>5
<1>9. x' # 0 => Dom(x, i)'
  <2>1. Dom(x, i)' <=> Dom(idom[x], i)
    BY <1>1 DEF Dom, Without, Avoiding, Block
  <2> QED  BY <1>1, <1>2, <1>6, <1>7, <2>1
<1>10. \A z \in Block : Passed(z) => ~StrictDom(z, v)
  BY DEF FrontierInv
<1>11. \A z \in Block' : Passed(z)' => ~StrictDom(z, v)'
  <2>1. \A z : StrictDom(z, v)' <=> StrictDom(z, v)
    BY <1>1 DEF StrictDom, Dom, Without, Avoiding, Block
  <2> QED  BY <1>3, <1>4, <1>8, <1>10, <2>1
<1>12. i' \in Block' /\ todo' \subseteq f_graph'[i'] /\ (v' # 0 => v' \in todo')
  BY <1>1, <1>4 DEF FrontierInv
<1>13. ASSUME NEW z \in Block
       PROVE  m_dominance_frontier'[z] =
                 {b \in Block \ {z} : \/ ~StrictDom(z, b) /\ \E a \in Block : Past(a, b) /\ Dom(z, a)
                                      \/ b = v /\ (Passed(z) \/ z = x)}
  <2>1. m_dominance_frontier[z] =
           {b \in Block \ {z} : \/ ~StrictDom(z, b) /\ \E a \in Block : Past(a, b) /\ Dom(z, a)
                                \/ b = v /\ Passed(z)}
    BY DEF FrontierInv
  <2>2. CASE z = x /\ x # v
    <3>1. m_dominance_frontier'[z] = m_dominance_frontier[z] \cup {v}
      BY <1>1, <1>2, <2>2
    <3> QED  BY <1>2, <2>1, <2>2, <3>1
  <2>3. CASE ~(z = x /\ x # v)
    <3>1. m_dominance_frontier'[z] = m_dominance_frontier[z]
      BY <1>1, <1>2, <2>3
    <3> QED  BY <2>1, <2>3, <3>1
  <2> QED  BY <2>2, <2>3
<1>14. \A z \in Block' : m_dominance_frontier'[z] =
           {b \in Block' \ {z} : \/ ~StrictDom(z, b)' /\ \E a \in Block' : Past(a, b)' /\ Dom(z, a)'
                                 \/ b = v' /\ Passed(z)'}
  BY <1>1, <1>4, <1>5, <1>8, <1>13
<1> QED  BY <1>9, <1>11, <1>12, <1>14 DEF FrontierInv

\* The climb ends where every dominator that does not strictly dominate the
\* head has been passed.
LEMMA EdgeDoneStep ==
    ASSUME f_graph \in Graphs, TypeOK, DominatorsRight, FrontierInv, EdgeDone
    PROVE  FrontierInv'
<1>1. /\ UNCHANGED <<f_graph, dfsVars>> /\ i' = i /\ todo' = todo \ {v} /\ v' = 0 /\ x' = 0
      /\ pc = "frontier" /\ v # 0 /\ ~Passing
      /\ m_dominance_frontier' = m_dominance_frontier
  BY DEF EdgeDone
<1>2. /\ i \in Block /\ x \in Block \cup {0} /\ v \in Block /\ v \in f_graph[i]
      /\ v \in todo /\ todo \subseteq f_graph[i]
  BY <1>1 DEF FrontierInv, TypeOK
<1>3. x # 0 => StrictDom(x, v)
  BY <1>1, <1>2 DEF Passing, DominatorsRight, StrictDom
<1>4. /\ Block' = Block
      /\ \A a, c : (Dom(a, c)' <=> Dom(a, c)) /\ (StrictDom(a, c)' <=> StrictDom(a, c))
  BY <1>1, Static
<1>5. \A a, b : Past(a, b)' <=> Past(a, b) \/ (a = i /\ b = v)
  BY <1>1, <1>2 DEF Past
<1>6. /\ \A a, b \in Block : Dom(a, b) /\ Dom(b, a) => a = b
      /\ \A a, b, c \in Block : Dom(a, b) /\ Dom(b, c) => Dom(a, c)
  BY DomOrder
<1>7. ASSUME NEW z \in Block
      PROVE  Passed(z) <=> Dom(z, i) /\ ~StrictDom(z, v)
  <2>1. Passed(z) => Dom(z, i) /\ ~StrictDom(z, v)
    BY DEF FrontierInv, Passed
  <2>2. ASSUME Dom(z, i), ~StrictDom(z, v)
        PROVE  Passed(z)
    <3>1. CASE x = 0
      BY <1>1, <2>2, <3>1 DEF Passed
    <3>2. CASE x # 0
      <4>1. ~Dom(z, x)
        BY <1>2, <1>3, <1>6, <2>2, <3>2 DEF StrictDom
      <4> QED  BY <1>1, <2>2, <4>1 DEF Passed
    <3> QED  BY <3>1, <3>2
  <2> QED  BY <2>1, <2>2
<1>8. \A z : ~Passed(z)'
  BY <1>1 DEF Passed
<1>9. i' \in Block' /\ todo' \subseteq f_graph'[i'] /\ v' = 0
  BY <1>1, <1>2, <1>4
<1>10. ASSUME NEW z \in Block
       PROVE  m_dominance_frontier[z] =
                 {b \in Block \ {z} : ~StrictDom(z, b) /\ \E a \in Block : Past(a, b)' /\ Dom(z, a)}
  <2>1. m_dominance_frontier[z] =
           {b \in Block \ {z} : \/ ~StrictDom(z, b) /\ \E a \in Block : Past(a, b) /\ Dom(z, a)
                                \/ b = v /\ Passed(z)}
    BY DEF FrontierInv
  <2>2. ASSUME NEW b \in Block
        PROVE  (\E a \in Block : Past(a, b)' /\ Dom(z, a))
               <=> (\E a \in Block : Past(a, b) /\ Dom(z, a)) \/ (b = v /\ Dom(z, i))
    BY <1>2, <1>5
  <2> QED  BY <1>7, <2>1, <2>2
<1>11. \A z \in Block' : m_dominance_frontier'[z] =
           {b \in Block' \ {z} : \/ ~StrictDom(z, b)' /\ \E a \in Block' : Past(a, b)' /\ Dom(z, a)'
                                 \/ b = v' /\ Passed(z)'}
  BY <1>1, <1>4, <1>8, <1>10
<1> QED  BY <1>1, <1>8, <1>9, <1>11 DEF FrontierInv

\* The edges of one block are done: on to the next, or all of them are.
LEMMA NextBlockStep ==
    ASSUME f_graph \in Graphs, TypeOK, FrontierInv, NextBlock
    PROVE  (pc' = "frontier" => FrontierInv') /\ FrontierRight'
<1>1. /\ UNCHANGED <<f_graph, dfsVars>> /\ v = 0 /\ v' = 0 /\ todo = {} /\ pc = "frontier"
      /\ m_dominance_frontier' = m_dominance_frontier /\ x' = x
      /\ IF i + 1 \in Block THEN i' = i + 1 /\ todo' = f_graph[i + 1] /\ pc' = pc
                            ELSE pc' = "done" /\ UNCHANGED <<i, todo>>
  BY DEF NextBlock, frontierVars
<1>2. /\ i \in Block /\ Block = 1..Cardinality(Block) /\ Cardinality(Block) \in Nat
      /\ f_graph \in [Block -> SUBSET Block]
  BY GraphShape DEF FrontierInv
<1>3. /\ Block' = Block
      /\ \A a, c : (Dom(a, c)' <=> Dom(a, c)) /\ (StrictDom(a, c)' <=> StrictDom(a, c))
      /\ \A b : Predecessors(b)' = Predecessors(b)
  BY <1>1, Static
<1>4. \A z : ~Passed(z) /\ ~Passed(z)'
  BY <1>1 DEF Passed
<1>5. ASSUME NEW z \in Block
      PROVE  m_dominance_frontier[z] =
                {b \in Block \ {z} : ~StrictDom(z, b) /\ \E a \in Block : Past(a, b) /\ Dom(z, a)}
  BY <1>4 DEF FrontierInv
<1>6. ASSUME pc' = "frontier"
      PROVE  FrontierInv'
  <2>1. i + 1 \in Block /\ i' = i + 1 /\ todo' = f_graph[i + 1]
    BY <1>1, <1>6
  <2>2. \A a, b \in Block : Past(a, b)' <=> Past(a, b)
    <3>1. ASSUME NEW a \in Block, NEW b \in Block
          PROVE  Past(a, b)' <=> Past(a, b)
      <4>1. Past(a, b) <=> b \in f_graph[a] /\ (a < i \/ a = i)
        BY <1>1 DEF Past
      <4>2. Past(a, b)' <=> b \in f_graph[a] /\ a < i + 1
        BY <1>1, <2>1 DEF Past
      <4> QED  BY <1>2, <4>1, <4>2
    <3> QED  BY <3>1
  <2>3. \A z \in Block' : m_dominance_frontier'[z] =
            {b \in Block' \ {z} : \/ ~StrictDom(z, b)' /\ \E a \in Block' : Past(a, b)' /\ Dom(z, a)'
                                  \/ b = v' /\ Passed(z)'}
    BY <1>1, <1>3, <1>4, <1>5, <2>2
  <2>4. i' \in Block' /\ todo' \subseteq f_graph'[i'] /\ v' = 0
    BY <1>1, <1>3, <2>1
  <2> QED  BY <1>4, <2>3, <2>4 DEF FrontierInv
<1>7. ASSUME pc' = "done"
      PROVE  FrontierRight'
  <2>1. i + 1 \notin Block
    BY <1>1, <1>7
  <2>2. \A a \in Block : a < i \/ a = i
    BY <1>2, <2>1
  <2>3. \A a, b \in Block : Past(a, b) <=> a \in Predecessors(b)
    BY <1>1, <2>2 DEF Past, Predecessors
  <2>4. Predecessors(1) \subseteq Block /\ \A b : Predecessors(b) \subseteq Block
    BY DEF Predecessors
  <2>5. \A z \in Block :
           m_dominance_frontier[z] = {b \in Block \ {z} : ~StrictDom(z, b)
                                            /\ \E a \in Predecessors(b) : Dom(z, a)}
    BY <1>5, <2>3, <2>4
  <2>6. \A z \in Block' :
           m_dominance_frontier'[z] = {b \in Block' \ {z} : ~StrictDom(z, b)'
                                            /\ \E a \in Predecessors(b)' : Dom(z, a)'}
    BY <1>1, <1>3, <2>5
  <2> QED  BY <2>6 DEF FrontierRight
<1>8. pc' # "done" => FrontierRight'
  BY DEF FrontierRight, Analysed
<1> QED  BY <1>6, <1>7, <1>8

-----------------------------------------------------------------------------
(* The whole analysis.                                                     *)

\* While a path is walked a find is on.
LEMMA SearchOn ==
    ASSUME IInv, Search
    PROVE  SearchInv
BY DEF IInv, SearchInv, Tree, DfsTree, Shape, TypeOK, Search

\* The depth first tree, complete once the search is over.
LEMMA TreeOn ==
    ASSUME IInv
    PROVE  Shape /\ DfsTree /\ (pc # "dfs" => Tree)
BY DEF IInv, Tree, DfsTree, Shape, TypeOK

\* No step writes anything but a block, a number or a set of blocks.
LEMMA TypeNext ==
    ASSUME IInv, Next
    PROVE  TypeOK'
<1>1. /\ f_graph \in Graphs /\ 0 \notin Block /\ 1 \in Block /\ f_graph \in [Block -> SUBSET Block]
      /\ TypeOK /\ \A b \in Block : Predecessors(b) \subseteq Block
      /\ "dfs" \in Phases /\ "semi" \in Phases /\ "bucket" \in Phases /\ "idom" \in Phases
      /\ "tree" \in Phases /\ "frontier" \in Phases /\ "done" \in Phases
  BY GraphShape DEF IInv, Predecessors, Phases
<1>2. f_graph' = f_graph /\ Block' = Block
  BY DEF Next, Visit, Return, Numbered, Call, Ascend, AtRoot, Compress, SemiDominator, Link, Bucket,
         NextRound, FixIdom, Attached, Enter, Leave, TreeWalked, Edge, Climb, EdgeDone, NextBlock,
         Done, vars, Block
<1>3. ASSUME NEW b \in Block, Visit(b)
      PROVE  TypeOK'
  BY <1>1, <1>2, <1>3 DEF TypeOK, Visit, findVars, domVars, frontierVars
<1>4. CASE Return
  <2>1. fa[cur] \in Block
    BY <1>1, <1>4, TreeOn, ReturnDfs DEF IInv, Return, TypeOK
  <2> QED  BY <1>1, <1>2, <1>4, <2>1 DEF TypeOK, Return, dfsVars, findVars, domVars, frontierVars
<1>5. CASE Numbered
  <2>1. Self \in [Block -> Block \cup {0}] /\ \A k : Predecessors(k) \subseteq Block
    BY DEF Self, Predecessors
  <2>2. pc' \in Phases /\ i' \in Nat /\ todo' \subseteq Block
    BY <1>1, <1>5, <2>1 DEF Numbered, Round, TypeOK
  <2> QED  BY <1>1, <1>2, <1>5, <2>1, <2>2 DEF TypeOK, Numbered, dfsVars, domVars, frontierVars
<1>6. ASSUME NEW b \in Block, Call(b)
      PROVE  TypeOK'
  <2>1. path' \in Seq(Block) /\ v' \in Block
    BY <1>6 DEF Call
  <2> QED  BY <1>1, <1>2, <1>6, <2>1 DEF TypeOK, Call, dfsVars, domVars, frontierVars
<1>7. CASE Ascend
  <2>1. Search /\ path \in Seq(Block) /\ path # <<>>
    BY <1>1, <1>7 DEF IInv, Ascend, TypeOK
  <2>2. Top \in Block /\ ufs[Top] \in Block
    BY <2>1, SearchOn, SearchFacts, PathFacts
  <2>3. path' \in Seq(Block)
    BY <1>7, <2>1, <2>2 DEF Ascend
  <2> QED  BY <1>1, <1>2, <1>7, <2>3 DEF TypeOK, Ascend, dfsVars, domVars, frontierVars
<1>8. CASE AtRoot
  <2>1. path \in Seq(Block) /\ path # <<>>
    BY <1>1, <1>8 DEF AtRoot, TypeOK
  <2>2. Top \in Block /\ Pop \in Seq(Block)
    BY <2>1, PathFacts
  <2> QED  BY <1>1, <1>2, <1>8, <2>2 DEF TypeOK, AtRoot, dfsVars, domVars, frontierVars
<1>9. CASE Compress
  <2>1. Search /\ path \in Seq(Block) /\ path # <<>>
    BY <1>1, <1>9 DEF IInv, Compress, TypeOK
  <2>2. Top \in Block /\ Pop \in Seq(Block) /\ ufs[Top] \in Block /\ mn[ufs[Top]] \in Block
    BY <2>1, SearchOn, SearchFacts, PathFacts
  <2>3. mn' \in [Block -> Block \cup {0}] /\ ufs' \in [Block -> Block \cup {0}]
    BY <1>1, <1>9, <2>2 DEF TypeOK, Compress
  <2> QED  BY <1>1, <1>2, <1>9, <2>2, <2>3 DEF TypeOK, Compress, dfsVars, domVars, frontierVars
<1>10. CASE SemiDominator
  <2>1. Search /\ Found
    BY <1>10 DEF SemiDominator, Search
  <2>2. v \in Block /\ mn[v] \in Block /\ sdom[mn[v]] \in Block
    BY <2>1, SearchOn, SearchFacts, FindResult
  <2>3. sdom' \in [Block -> Block \cup {0}]
    BY <1>1, <1>10, <2>2 DEF TypeOK, SemiDominator
  <2> QED  BY <1>1, <1>2, <1>10, <2>3 DEF TypeOK, SemiDominator, Consumed, dfsVars, domVars, frontierVars
<1>11. CASE Link
  <2>1. Search
    BY <1>11 DEF Link, Search
  <2>2. ord(i) \in Block \ {1} /\ sdom[ord(i)] \in Block /\ Tree
    BY <2>1, SearchOn, SearchFacts DEF SearchInv
  <2>3. fa[ord(i)] \in Block
    BY <2>2, TreeNumbers
  <2>4. ufs' \in [Block -> Block \cup {0}] /\ aux_graph' \in [Block -> SUBSET Block]
    BY <1>1, <1>11, <2>2, <2>3 DEF TypeOK, Link
  <2>5. todo' \subseteq Block
    BY <1>11, <2>3, <2>4 DEF Link
  <2> QED  BY <1>1, <1>2, <1>11, <2>4, <2>5 DEF TypeOK, Link, dfsVars, domVars, frontierVars
<1>12. CASE Bucket
  <2>1. Search /\ Found
    BY <1>12 DEF Bucket, Search
  <2>2. ord(i) \in Block \ {1} /\ v \in Block /\ mn[v] \in Block /\ Tree
    BY <2>1, SearchOn, SearchFacts, FindResult DEF SearchInv
  <2>3. fa[ord(i)] \in Block
    BY <2>2, TreeNumbers
  <2>4. idom' \in [Block -> Block \cup {0}]
    BY <1>1, <1>12, <2>2, <2>3 DEF TypeOK, Bucket
  <2> QED  BY <1>1, <1>2, <1>12, <2>4 DEF TypeOK, Bucket, Consumed, dfsVars, domVars, frontierVars
<1>13. CASE NextRound
  <2>1. Search
    BY <1>13 DEF NextRound, Search
  <2>2. i \in Nat /\ i >= 2 /\ \A k : Predecessors(k) \subseteq Block
    BY <2>1, SearchOn, SearchFacts DEF Predecessors
  <2>3. pc' \in Phases /\ i' \in Nat /\ todo' \subseteq Block
    BY <1>1, <1>13, <2>2 DEF NextRound, Round
  <2>4. aux_graph' \in [Block -> SUBSET Block]
    BY <1>1, <1>13 DEF TypeOK, NextRound
  <2> QED  BY <1>1, <1>2, <1>13, <2>3, <2>4 DEF TypeOK, NextRound, dfsVars, findVars, domVars, frontierVars
<1>14. CASE FixIdom
  <2>1. Tree /\ IdomInv /\ i \in 2..co
    BY <1>1, <1>14, TreeOn DEF IInv, FixIdom, IdomInv, TypeOK
  <2>2. ord(i) \in Block /\ dfn[ord(i)] = i
    BY <2>1, OrdNumber, <1>1 DEF TypeOK
  <2>3. ord(i) # 1
    BY <2>1, <2>2, TreeNumbers
  <2>4. idom[ord(i)] \in Block
    BY <2>1, <2>2, <2>3, TreeOn, AncBasics DEF IdomInv, BestBetween
  <2>5. idom' \in [Block -> Block \cup {0}]
    BY <1>1, <1>14, <2>2, <2>4 DEF TypeOK, FixIdom
  <2> QED  BY <1>1, <1>2, <1>14, <2>1, <2>5 DEF TypeOK, FixIdom, dfsVars, findVars, domVars, frontierVars
<1>15. CASE Attached
  BY <1>1, <1>2, <1>15 DEF TypeOK, Attached, dfsVars, findVars, domVars, frontierVars
<1>16. ASSUME NEW c \in Block, Enter(c)
       PROVE  TypeOK'
  BY <1>1, <1>2, <1>16 DEF TypeOK, Enter, dfsVars, findVars, domVars, frontierVars
<1>17. CASE Leave
  <2>1. idom[cur] \in Block
    BY <1>1, <1>17 DEF IInv, ImmediateRight, TreeBuilt, Leave, TypeOK
  <2>2. m_dominators' \in [Block -> SUBSET Block] /\ m_dom_depth' = m_dom_depth /\ cur' \in Block
    BY <1>1, <1>17, <2>1 DEF TypeOK, Leave
  <2> QED  BY <1>1, <1>2, <1>17, <2>2 DEF TypeOK, Leave, dfsVars, findVars, domVars, frontierVars
<1>18. CASE TreeWalked
  BY <1>1, <1>2, <1>18 DEF TypeOK, TreeWalked, dfsVars, findVars, domVars, frontierVars
<1>19. ASSUME NEW b \in Block, Edge(b)
       PROVE  TypeOK'
  <2>1. i \in Block
    BY <1>19 DEF IInv, Edge, FrontierInv
  <2> QED  BY <1>1, <1>2, <1>19, <2>1 DEF TypeOK, Edge, dfsVars, findVars, domVars, frontierVars
<1>20. CASE Climb
  <2>1. v \in Block /\ x \in Block /\ idom[x] \in Block \cup {0}
    BY <1>1, <1>20 DEF TypeOK, Climb, Passing
  <2>2. m_dominance_frontier' \in [Block -> SUBSET Block]
    BY <1>1, <1>20, <2>1 DEF TypeOK, Climb
  <2> QED  BY <1>1, <1>2, <1>20, <2>1, <2>2 DEF TypeOK, Climb, dfsVars, findVars, domVars, frontierVars
<1>21. CASE EdgeDone
  BY <1>1, <1>2, <1>21 DEF TypeOK, EdgeDone, dfsVars, findVars, domVars, frontierVars
<1>22. CASE NextBlock
  <2>1. pc' \in Phases /\ i' \in Nat /\ todo' \subseteq Block
    BY <1>1, <1>22 DEF TypeOK, NextBlock
  <2> QED  BY <1>1, <1>2, <1>22, <2>1 DEF TypeOK, NextBlock, dfsVars, findVars, domVars, frontierVars
<1>23. CASE Done
  BY <1>1, <1>2, <1>23 DEF TypeOK, Done, vars, dfsVars, findVars, domVars, frontierVars
<1> QED  BY <1>3, <1>4, <1>5, <1>6, <1>7, <1>8, <1>9, <1>10, <1>11, <1>12, <1>13, <1>14, <1>15, <1>16,
            <1>17, <1>18, <1>19, <1>20, <1>21, <1>22, <1>23 DEF Next

\* What a step that numbers nothing leaves as it is.
LEMMA Frame ==
    ASSUME IInv, Next, UNCHANGED <<f_graph, dfsVars>>
    PROVE  /\ f_graph' \in Graphs /\ TypeOK' /\ Numbering' /\ UpwardEdges' /\ Intervals'
           /\ (AllNumbered' <=> AllNumbered) /\ None' = None /\ Zero' = Zero
           /\ idom' = idom /\ (TreeBuilt' => TreeBuilt) => ImmediateRight'
           /\ /\ UNCHANGED domVars
              /\ pc' \in {"frontier", "done"} => pc \in {"frontier", "done"}
              => DominatorsRight'
           /\ m_dominance_frontier' = m_dominance_frontier /\ (Analysed' => Analysed) => FrontierRight'
<1>1. TypeOK' /\ f_graph' \in Graphs
  BY TypeNext DEF IInv
<1>2. Numbering' /\ UpwardEdges' /\ Intervals' /\ (AllNumbered' <=> AllNumbered)
  BY StaticTree DEF IInv
<1>3. /\ Block' = Block
      /\ \A a, b : /\ Dom(a, b)' <=> Dom(a, b)
                   /\ StrictDom(a, b)' <=> StrictDom(a, b)
                   /\ IsIdom(a, b)' <=> IsIdom(a, b)
      /\ \A b : Predecessors(b)' = Predecessors(b)
  BY Static
<1>4. None' = None /\ Zero' = Zero
  BY <1>3 DEF None, Zero
<1>5. ASSUME idom' = idom, TreeBuilt' => TreeBuilt
      PROVE  ImmediateRight'
  <2> SUFFICES ASSUME TreeBuilt'
               PROVE  idom'[1] = 0 /\ \A b \in Block' \ {1} : idom'[b] \in Block' /\ IsIdom(idom[b], b)'
    BY DEF ImmediateRight
  <2>1. idom[1] = 0 /\ \A b \in Block \ {1} : idom[b] \in Block /\ IsIdom(idom[b], b)
    BY <1>5 DEF IInv, ImmediateRight
  <2>2. ASSUME NEW b
        PROVE  IsIdom(idom[b], b)' <=> IsIdom(idom[b], b)
    BY <1>5 DEF IsIdom, StrictDom, Dom, Without, Avoiding, Block
  <2> QED  BY <1>3, <1>5, <2>1, <2>2
<1>6. ASSUME UNCHANGED domVars, pc' \in {"frontier", "done"} => pc \in {"frontier", "done"}
      PROVE  DominatorsRight'
  <2> SUFFICES ASSUME pc' \in {"frontier", "done"}, NEW b \in Block'
               PROVE  /\ m_dominators'[b] = {c \in Block' : Dom(b, c)'}
                      /\ m_dom_depth'[b] = Cardinality({a \in Block' : Dom(a, b)'})
    BY DEF DominatorsRight
  <2>1. /\ m_dominators[b] = {c \in Block : Dom(b, c)}
        /\ m_dom_depth[b] = Cardinality({a \in Block : Dom(a, b)})
    BY <1>3, <1>6 DEF IInv, DominatorsRight
  <2> QED  BY <1>3, <1>6, <2>1 DEF domVars
<1>7. ASSUME m_dominance_frontier' = m_dominance_frontier, Analysed' => Analysed
      PROVE  FrontierRight'
  <2> SUFFICES ASSUME Analysed', NEW a \in Block'
               PROVE  m_dominance_frontier'[a] =
                         {b \in Block' \ {a} : ~StrictDom(a, b)'
                                   /\ \E p \in Predecessors(b)' : Dom(a, p)'}
    BY DEF FrontierRight
  <2>1. m_dominance_frontier[a] = {b \in Block \ {a} : ~StrictDom(a, b)
                                       /\ \E p \in Predecessors(b) : Dom(a, p)}
    BY <1>3, <1>7 DEF IInv, FrontierRight
  <2> QED  BY <1>3, <1>7, <2>1
<1> QED  BY <1>1, <1>2, <1>4, <1>5, <1>6, <1>7

\* The entry is the one vertex that has a number at first.
LEMMA InitIInv ==
    ASSUME Init
    PROVE  IInv
<1>1. /\ f_graph \in Graphs /\ f_graph \in [Block -> SUBSET Block] /\ 1 \in Block /\ 0 \notin Block
  BY GraphShape DEF Init
<1>2. TypeOK
  BY <1>1 DEF Init, TypeOK, Zero, None, Phases
<1>3. Shape
  BY <1>1, <1>2 DEF Shape, TypeOK
<1>4. /\ dfn[1] = 1 /\ co = 1 /\ cur = 1 /\ \A b \in Block \ {1} : dfn[b] = 0
      /\ \A b \in Block : fa[b] = 0
  BY <1>1 DEF Init, Zero
<1>5. \A b \in Block : Visited(b) <=> b = 1
  BY <1>4 DEF Visited
<1>6. Anc(1) = {1}
  BY <1>1, <1>3, <1>4, AncParent
<1>7. Numbering
  <2>1. \A k \in 1..co : \E b \in Block : dfn[b] = k
    BY <1>1, <1>4
  <2>2. \A b \in Block : dfn[b] <= co
    BY <1>1, <1>4
  <2>3. \A a, b \in Block : Visited(a) /\ dfn[a] = dfn[b] => a = b
    BY <1>4, <1>5
  <2> QED  BY <1>1, <1>4, <1>5, <1>6, <2>1, <2>2, <2>3 DEF Numbering
<1>8. \A b \in Block : dfn[b] >= 1 => b = 1
  BY <1>4
<1>9. UpwardEdges
  BY <1>1, <1>4, <1>5 DEF UpwardEdges
<1>10. Intervals
  <2> SUFFICES ASSUME NEW w \in Block, NEW y \in Block, NEW u \in Anc(w),
                      Visited(u), dfn[u] <= dfn[y]
               PROVE  u \in Anc(y)
    BY DEF Intervals
  <2>1. u \in Block
    BY <1>3, AncBasics
  <2>2. u = 1
    BY <1>5, <2>1
  <2> QED  BY <1>4, <1>8, <2>2, <1>6
<1>11. DfsInv
  BY <1>1, <1>4, <1>5, <1>6, <1>8 DEF DfsInv
<1> QED  BY <1>1, <1>2, <1>7, <1>9, <1>10, <1>11
         DEF Init, IInv, Search, ImmediateRight, DominatorsRight, FrontierRight, TreeBuilt, Analysed

\* The invariant is about the variables alone.
LEMMA StutterIInv ==
    ASSUME IInv, UNCHANGED vars
    PROVE  IInv'
<1>1. /\ UNCHANGED <<f_graph, dfsVars>> /\ pc' = pc /\ cur' = cur /\ dfn' = dfn /\ co' = co /\ fa' = fa
      /\ i' = i /\ todo' = todo /\ v' = v /\ path' = path /\ ret' = ret /\ ufs' = ufs /\ mn' = mn
      /\ sdom' = sdom /\ aux_graph' = aux_graph /\ idom' = idom
      /\ m_dominators' = m_dominators /\ m_dom_depth' = m_dom_depth
      /\ x' = x /\ m_dominance_frontier' = m_dominance_frontier /\ f_graph' = f_graph
  BY DEF vars, dfsVars, findVars, domVars, frontierVars
<1>2. /\ Block' = Block /\ None' = None /\ Zero' = Zero
      /\ \A w : Anc(w)' = Anc(w) /\ Avoiding(w)' = Avoiding(w) /\ Predecessors(w)' = Predecessors(w)
      /\ \A k : ord(k)' = ord(k)
      /\ \A a, b : Dom(a, b)' <=> Dom(a, b)
  BY <1>1, Static DEF None, Zero
<1>3. /\ \A b : (Hung(b)' <=> Hung(b)) /\ (Visited(b)' <=> Visited(b))
                /\ (Entered(b)' <=> Entered(b)) /\ (Sound(b)' <=> Sound(b)) /\ (BestBetween(b)' <=> BestBetween(b))
      /\ \A w, p : Covers(w, p)' <=> Covers(w, p)
      /\ SemiInv' <=> SemiInv
      /\ BucketInv' <=> BucketInv
  <2>1. UNCHANGED <<f_graph, dfsVars, pc, i, todo, sdom, aux_graph, idom>>
    BY <1>1
  <2>2. /\ \A b : Hung(b)' <=> Hung(b)
        /\ SemiInv' <=> SemiInv
        /\ BucketInv' <=> BucketInv
    BY <2>1, SemisUnchanged
  <2>3. /\ \A b : (Visited(b)' <=> Visited(b)) /\ (Entered(b)' <=> Entered(b))
        /\ \A w, p : Covers(w, p)' <=> Covers(w, p)
    BY <1>1, <1>2 DEF Visited, Entered, Covers
  <2>4. \A b : (Sound(b)' <=> Sound(b)) /\ (BestBetween(b)' <=> BestBetween(b))
    BY <1>1, <1>2 DEF Sound, BestBetween
  <2> QED  BY <2>2, <2>3, <2>4
<1>4. TypeOK'
  BY <1>1, <1>2 DEF IInv, TypeOK
<1>5. /\ Numbering' /\ UpwardEdges' /\ Intervals' /\ (AllNumbered' <=> AllNumbered)
  BY <1>1, StaticTree DEF IInv
<1>6. pc = "dfs" => DfsInv'
  <2>1. \A w : Anc(w)' = Anc(w)
    BY <1>2
  <2>2. Anc(cur)' = Anc(cur)
    BY <1>1 DEF Anc, Parent, Block
  <2>3. Visited(cur)' <=> Visited(cur)
    BY <1>1 DEF Visited
  <2> QED  BY <1>1, <1>2, <1>3, <2>2, <2>3 DEF IInv, DfsInv
<1>7. Search => ForestInv' /\ SemiInv' /\ BucketInv' /\ FindInv'
  <2>1. ForestInv' <=> ForestInv
    <3>1. \A u : Anc(u)' = Anc(u) /\ (Hung(u)' <=> Hung(u))
      BY <1>2, <1>3
    <3> QED  BY <1>1, <1>2, <3>1 DEF ForestInv
  <2>2. FindInv' <=> FindInv
    <3>1. ord(i)' = ord(i) /\ Predecessors(ord(i))' = Predecessors(ord(i)) /\ Top' = Top
      BY <1>1 DEF ord, Predecessors, Block, Top
    <3>2. \A j : Hung(path[j])' <=> Hung(path[j])
      BY <1>1 DEF Hung
    <3> QED  BY <1>1, <3>1, <3>2 DEF FindInv
  <2> QED  BY <1>3, <2>1, <2>2 DEF IInv
<1>8. pc = "idom" => IdomInv'
  <2>1. \A w : IsIdom(idom[w], w)' <=> IsIdom(idom[w], w)
    BY <1>1 DEF IsIdom, StrictDom, Dom, Without, Avoiding, Block
  <2> QED  BY <1>1, <1>2, <1>3, <2>1 DEF IInv, IdomInv
<1>9. pc = "tree" => TreeInv'
  <2>1. /\ \A a : Dom(a, cur)' <=> Dom(a, cur)
        /\ \A a, b : StrictDom(a, b)' <=> StrictDom(a, b)
        /\ Entered(cur)' <=> Entered(cur)
    BY <1>1 DEF StrictDom, Dom, Without, Avoiding, Block, Entered
  <2> QED  BY <1>1, <1>2, <1>3, <2>1 DEF IInv, TreeInv
<1>10. pc = "frontier" => FrontierInv'
  <2>1. /\ \A z : Passed(z)' <=> Passed(z)
        /\ \A a, b : /\ Past(a, b)' <=> Past(a, b)
                     /\ StrictDom(a, b)' <=> StrictDom(a, b)
        /\ Dom(x, i)' <=> Dom(x, i)
        /\ \A z : StrictDom(z, v)' <=> StrictDom(z, v)
    BY <1>1 DEF Passed, Past, StrictDom, Dom, Without, Avoiding, Block
  <2> QED  BY <1>1, <1>2, <2>1 DEF IInv, FrontierInv
<1>11. ImmediateRight' /\ DominatorsRight' /\ FrontierRight'
  <2>1. \A w : IsIdom(idom[w], w)' <=> IsIdom(idom[w], w)
    BY <1>1 DEF IsIdom, StrictDom, Dom, Without, Avoiding, Block
  <2>2. ImmediateRight'
    BY <1>1, <1>2, <2>1 DEF IInv, ImmediateRight, TreeBuilt
  <2>3. DominatorsRight'
    BY <1>1, <1>2 DEF IInv, DominatorsRight
  <2>4. FrontierRight'
    BY <1>1, <1>2 DEF IInv, FrontierRight, Analysed, StrictDom
  <2> QED  BY <2>2, <2>3, <2>4
<1> QED  BY <1>1, <1>2, <1>4, <1>5, <1>6, <1>7, <1>8, <1>9, <1>10, <1>11 DEF IInv, Search

\* The steps of the depth first search.
LEMMA NumberingPhase ==
    ASSUME IInv, Next, (\E b \in Block : Visit(b)) \/ Return \/ Numbered
    PROVE  IInv'
<1>1. /\ pc = "dfs" /\ DfsInv /\ aux_graph = None /\ idom = Zero /\ path = <<>> /\ ret = 0 /\ v = 0
      /\ m_dominators = None /\ m_dominance_frontier = None /\ x = 0 /\ ~Search
      /\ UpwardEdges /\ Intervals
  BY DEF IInv, Visit, Return, Numbered, Search
<1>2. Shape /\ DfsTree /\ cur \in Block /\ Visited(cur) /\ f_graph \in Graphs /\ TypeOK'
  BY <1>1, TreeOn, TypeNext DEF IInv, TypeOK, DfsInv
<1>3. ASSUME NEW b \in Block, Visit(b)
      PROVE  IInv'
  <2>1. Numbering' /\ UpwardEdges' /\ Intervals' /\ DfsInv'
    BY <1>1, <1>2, <1>3, VisitNumbering
  <2>2. /\ f_graph' = f_graph /\ pc' = "dfs" /\ path' = <<>> /\ ret' = 0 /\ v' = 0
        /\ aux_graph' = aux_graph /\ idom' = idom /\ m_dominators' = m_dominators
        /\ m_dominance_frontier' = m_dominance_frontier /\ x' = x
    BY <1>1, <1>3 DEF Visit, findVars, domVars, frontierVars
  <2>3. None' = None /\ Zero' = Zero
    BY <2>2 DEF None, Zero, Block
  <2> QED  BY <1>1, <1>2, <2>1, <2>2, <2>3
           DEF IInv, Search, ImmediateRight, DominatorsRight, FrontierRight, TreeBuilt, Analysed
<1>4. CASE Return
  <2>1. DfsInv'
    BY <1>1, <1>2, <1>4, ReturnDfs
  <2>2. /\ UNCHANGED <<f_graph, dfsVars>> /\ pc' = "dfs" /\ path' = <<>> /\ ret' = 0 /\ v' = 0
        /\ aux_graph' = aux_graph /\ idom' = idom /\ m_dominators' = m_dominators
        /\ m_dominance_frontier' = m_dominance_frontier /\ x' = x
    BY <1>1, <1>4 DEF Return, findVars, domVars, frontierVars
  <2>3. /\ f_graph' \in Graphs /\ Numbering' /\ UpwardEdges' /\ Intervals'
        /\ None' = None /\ Zero' = Zero
    BY <2>2, Frame
  <2> QED  BY <1>1, <1>2, <2>1, <2>2, <2>3
           DEF IInv, Search, ImmediateRight, DominatorsRight, FrontierRight, TreeBuilt, Analysed
<1>5. CASE Numbered
  <2>1. AllNumbered
    BY <1>1, <1>2, <1>5, SearchComplete DEF Numbered
  <2>2. Tree /\ 1 \in Block
    BY <1>1, <1>2, <2>1, GraphShape DEF Tree
  <2>3. IF pc' = "semi" THEN ForestInv' /\ SemiInv' /\ BucketInv' /\ FindInv'
                        ELSE pc' = "idom" /\ IdomInv'
    BY <1>1, <1>5, <2>2, NumberedStep
  <2>4. /\ UNCHANGED <<f_graph, dfsVars>> /\ path' = <<>> /\ ret' = 0 /\ v' = 0
        /\ m_dominators' = m_dominators
        /\ m_dominance_frontier' = m_dominance_frontier /\ x' = x
    BY <1>1, <1>5 DEF Numbered, domVars, frontierVars
  <2>5. /\ f_graph' \in Graphs /\ Numbering' /\ UpwardEdges' /\ Intervals' /\ AllNumbered'
        /\ None' = None
    BY <2>1, <2>4, Frame
  <2> QED  BY <1>1, <1>2, <2>3, <2>4, <2>5
           DEF IInv, Search, ImmediateRight, DominatorsRight, FrontierRight, TreeBuilt, Analysed
<1> QED  BY <1>3, <1>4, <1>5

\* The steps of the rounds.
LEMMA SearchPhase ==
    ASSUME IInv, Next, \/ \E b \in Block : Call(b)
                       \/ Ascend \/ AtRoot \/ Compress \/ SemiDominator \/ Link \/ Bucket \/ NextRound
    PROVE  IInv'
<1>1. Search
  BY DEF IInv, Call, Ascend, AtRoot, Compress, SemiDominator, Link, Bucket, NextRound, Found, Search
<1>2. /\ SearchInv /\ AllNumbered /\ m_dominators = None /\ m_dominance_frontier = None /\ x = 0
  BY <1>1, SearchOn DEF IInv, Search
<1>3. /\ UNCHANGED <<f_graph, dfsVars>> /\ m_dominators' = m_dominators
      /\ m_dominance_frontier' = m_dominance_frontier /\ x' = x
  BY DEF Call, Ascend, AtRoot, Compress, SemiDominator, Link, Bucket, NextRound, domVars, frontierVars
<1>4. /\ f_graph' \in Graphs /\ TypeOK' /\ Numbering' /\ UpwardEdges' /\ Intervals' /\ AllNumbered'
      /\ None' = None
  BY <1>2, <1>3, Frame
<1>5. CASE ~NextRound
  <2>1. pc' \in {"semi", "bucket"}
    BY <1>1, <1>5 DEF Call, Ascend, AtRoot, Compress, SemiDominator, Link, Bucket, Search
  <2>2. ForestInv' /\ SemiInv' /\ BucketInv' /\ FindInv'
    BY <1>2, <1>5, CallStep, AscendStep, AtRootStep, CompressStep, SemiDominatorStep, LinkStep, BucketStep
  <2> QED  BY <1>2, <1>3, <1>4, <2>1, <2>2
           DEF IInv, Search, ImmediateRight, DominatorsRight, FrontierRight, TreeBuilt, Analysed
<1>6. CASE NextRound
  <2>1. IF pc' = "semi" THEN ForestInv' /\ SemiInv' /\ BucketInv' /\ FindInv'
                        ELSE pc' = "idom" /\ IdomInv'
    BY <1>2, <1>6, NextRoundStep
  <2>2. v = 0 /\ path = <<>> /\ ret = 0
    BY <1>2, <1>6 DEF NextRound, SearchInv, FindInv
  <2>3. v' = 0 /\ path' = <<>> /\ ret' = 0
    BY <1>6, <2>2 DEF NextRound, findVars
  <2> QED  BY <1>2, <1>3, <1>4, <2>1, <2>3
           DEF IInv, Search, ImmediateRight, DominatorsRight, FrontierRight, TreeBuilt, Analysed
<1> QED  BY <1>5, <1>6

\* The steps that fix the immediate dominators and walk the tree.
LEMMA TreePhase ==
    ASSUME IInv, Next, FixIdom \/ Attached \/ (\E c \in Block : Enter(c)) \/ Leave \/ TreeWalked
    PROVE  IInv'
<1>1. /\ UNCHANGED <<f_graph, dfsVars>> /\ v' = v /\ path' = path /\ ret' = ret
      /\ m_dominance_frontier' = m_dominance_frontier /\ x' = x /\ pc \in {"idom", "tree"}
  BY DEF FixIdom, Attached, Enter, Leave, TreeWalked, findVars, frontierVars
<1>2. /\ v = 0 /\ path = <<>> /\ ret = 0 /\ m_dominance_frontier = None /\ x = 0 /\ AllNumbered
      /\ Tree /\ TypeOK /\ f_graph \in Graphs /\ ImmediateRight
  BY <1>1, TreeOn DEF IInv, Search
<1>3. /\ f_graph' \in Graphs /\ TypeOK' /\ Numbering' /\ UpwardEdges' /\ Intervals' /\ AllNumbered'
      /\ None' = None
  BY <1>1, <1>2, Frame
<1>4. CASE FixIdom
  <2>1. IdomInv /\ m_dominators = None /\ pc' = "idom" /\ m_dominators' = m_dominators
    BY <1>4 DEF IInv, FixIdom, domVars
  <2>2. IdomInv'
    BY <1>2, <1>4, <2>1, FixIdomStep
  <2> QED  BY <1>1, <1>2, <1>3, <2>1, <2>2
           DEF IInv, Search, ImmediateRight, DominatorsRight, FrontierRight, TreeBuilt, Analysed
<1>5. CASE Attached
  <2>1. IdomInv /\ m_dominators = None /\ pc' = "tree"
    BY <1>5 DEF IInv, Attached
  <2>2. ImmediateRight' /\ TreeInv'
    BY <1>2, <1>5, <2>1, AttachedStep
  <2> QED  BY <1>1, <1>2, <1>3, <2>1, <2>2 DEF IInv, Search, DominatorsRight, FrontierRight, Analysed
<1>6. CASE (\E c \in Block : Enter(c)) \/ Leave
  <2>1. TreeInv /\ pc = "tree" /\ pc' = "tree" /\ idom' = idom
    BY <1>6 DEF IInv, Enter, Leave
  <2>2. TreeInv'
    BY <1>2, <1>6, <2>1, EnterStep, LeaveStep
  <2>3. ImmediateRight'
    BY <1>1, <2>1, Frame DEF TreeBuilt
  <2> QED  BY <1>1, <1>2, <1>3, <2>1, <2>2, <2>3 DEF IInv, Search, DominatorsRight, FrontierRight, Analysed
<1>7. CASE TreeWalked
  <2>1. TreeInv /\ pc = "tree" /\ pc' = "frontier" /\ idom' = idom
    BY <1>7 DEF IInv, TreeWalked
  <2>2. DominatorsRight' /\ FrontierInv'
    BY <1>2, <1>7, <2>1, TreeWalkedStep
  <2>3. ImmediateRight'
    BY <1>1, <2>1, Frame DEF TreeBuilt
  <2> QED  BY <1>1, <1>2, <1>3, <2>1, <2>2, <2>3 DEF IInv, Search, FrontierRight, Analysed
<1> QED  BY <1>4, <1>5, <1>6, <1>7

\* The steps that find the frontiers.
LEMMA FrontierPhase ==
    ASSUME IInv, Next, (\E b \in Block : Edge(b)) \/ Climb \/ EdgeDone \/ NextBlock
    PROVE  IInv'
<1>1. /\ UNCHANGED <<f_graph, dfsVars, domVars>> /\ path' = path /\ ret' = ret /\ idom' = idom
      /\ pc = "frontier" /\ pc' \in {"frontier", "done"}
      /\ NextBlock \/ pc' = "frontier"
  BY DEF Edge, Climb, EdgeDone, NextBlock, findVars
<1>2. /\ path = <<>> /\ ret = 0 /\ AllNumbered /\ TypeOK /\ f_graph \in Graphs
      /\ ImmediateRight /\ DominatorsRight /\ FrontierInv
  BY <1>1 DEF IInv, Search
<1>3. /\ f_graph' \in Graphs /\ TypeOK' /\ Numbering' /\ UpwardEdges' /\ Intervals' /\ AllNumbered'
      /\ ImmediateRight' /\ DominatorsRight'
  BY <1>1, <1>2, Frame DEF TreeBuilt
<1>4. (pc' = "frontier" => FrontierInv') /\ FrontierRight'
  <2>1. CASE NextBlock
    BY <1>2, <2>1, NextBlockStep
  <2>2. CASE ~NextBlock
    <3>1. FrontierInv'
      BY <1>2, <2>2, EdgeStep, ClimbStep, EdgeDoneStep
    <3> QED  BY <1>1, <2>2, <3>1 DEF FrontierRight, Analysed
  <2> QED  BY <2>1, <2>2
<1> QED  BY <1>1, <1>2, <1>3, <1>4 DEF IInv, Search

\* Every step keeps the invariant.
LEMMA NextIInv ==
    ASSUME IInv, [Next]_vars
    PROVE  IInv'
<1>1. CASE UNCHANGED vars
  BY <1>1, StutterIInv
<1>2. CASE Next
  BY <1>1, <1>2, NumberingPhase, SearchPhase, TreePhase, FrontierPhase DEF Next, Done
<1> QED  BY <1>1, <1>2

-----------------------------------------------------------------------------
(* What the analysis promises, for every flow graph.                       *)

\* Every array of dom.cpp holds blocks, numbers or sets of blocks, whatever
\* the graph and the order of its edges. Keeping that takes that no entry is
\* used as an index before it is written.
THEOREM TypeCorrect == Spec => []TypeOK
<1>1. IInv => TypeOK
  BY DEF IInv
<1> QED  BY <1>1, InitIInv, NextIInv, PTL DEF Spec

\* When the tree is built, idom is the immediate dominator of every block but
\* the entry, which has none: what Lengauer and Tarjan's algorithm promises and
\* the assertion of line 135 relies on.
THEOREM ImmediateDominators == Spec => []ImmediateRight
<1>1. IInv => ImmediateRight
  BY DEF IInv
<1> QED  BY <1>1, InitIInv, NextIInv, PTL DEF Spec

\* When dfs() is back at the entry, m_dominators has what each block dominates
\* and m_dom_depth how many blocks dominate it.
THEOREM DominatedSets == Spec => []DominatorsRight
<1>1. IInv => DominatorsRight
  BY DEF IInv
<1> QED  BY <1>1, InitIInv, NextIInv, PTL DEF Spec

\* When ComputeDominanceFrontier is done, every frontier is the set of blocks
\* where the dominance of the block ends, the block itself apart.
THEOREM Frontiers == Spec => []FrontierRight
<1>1. IInv => FrontierRight
  BY DEF IInv
<1> QED  BY <1>1, InitIInv, NextIInv, PTL DEF Spec

-----------------------------------------------------------------------------
(* The analysis ends.                                                      *)

\* LexBelow compares the first components that differ.
LEMMA LexBelowAt ==
    ASSUME NEW a1, NEW a2, NEW a3, NEW a4, NEW a5, NEW a6,
           NEW b1, NEW b2, NEW b3, NEW b4, NEW b5, NEW b6
    PROVE  LET a == <<a1, a2, a3, a4, a5, a6>>
               b == <<b1, b2, b3, b4, b5, b6>>
           IN  /\ a1 < b1 => LexBelow(a, b)
               /\ a1 = b1 /\ a2 < b2 => LexBelow(a, b)
               /\ a1 = b1 /\ a2 = b2 /\ a3 < b3 => LexBelow(a, b)
               /\ a1 = b1 /\ a2 = b2 /\ a3 = b3 /\ a4 < b4 => LexBelow(a, b)
               /\ a1 = b1 /\ a2 = b2 /\ a3 = b3 /\ a4 = b4 /\ a5 < b5 => LexBelow(a, b)
               /\ a1 = b1 /\ a2 = b2 /\ a3 = b3 /\ a4 = b4 /\ a5 = b5 /\ a6 < b6
                    => LexBelow(a, b)
<1> DEFINE a == <<a1, a2, a3, a4, a5, a6>>
           b == <<b1, b2, b3, b4, b5, b6>>
<1>1. DOMAIN b = 1..6
  OBVIOUS
<1>2. /\ a[1] = a1 /\ a[2] = a2 /\ a[3] = a3 /\ a[4] = a4 /\ a[5] = a5 /\ a[6] = a6
      /\ b[1] = b1 /\ b[2] = b2 /\ b[3] = b3 /\ b[4] = b4 /\ b[5] = b5 /\ b[6] = b6
  OBVIOUS
<1> HIDE DEF a, b
<1>3. \A k \in 1..6 : a[k] < b[k] /\ (\A j \in 1..(k - 1) : a[j] = b[j]) => LexBelow(a, b)
  BY <1>1 DEF LexBelow
<1>4. /\ 1..(1 - 1) = {} /\ 1..(2 - 1) = {1} /\ 1..(3 - 1) = {1, 2}
      /\ 1..(4 - 1) = {1, 2, 3} /\ 1..(5 - 1) = {1, 2, 3, 4}
      /\ 1..(6 - 1) = {1, 2, 3, 4, 5}
  OBVIOUS
<1>5. /\ a1 < b1 => LexBelow(a, b)
      /\ a1 = b1 /\ a2 < b2 => LexBelow(a, b)
      /\ a1 = b1 /\ a2 = b2 /\ a3 < b3 => LexBelow(a, b)
  BY <1>2, <1>3, <1>4
<1>6. /\ a1 = b1 /\ a2 = b2 /\ a3 = b3 /\ a4 < b4 => LexBelow(a, b)
      /\ a1 = b1 /\ a2 = b2 /\ a3 = b3 /\ a4 = b4 /\ a5 < b5 => LexBelow(a, b)
      /\ a1 = b1 /\ a2 = b2 /\ a3 = b3 /\ a4 = b4 /\ a5 = b5 /\ a6 < b6
            => LexBelow(a, b)
  BY <1>2, <1>3, <1>4
<1> QED  BY <1>5, <1>6 DEF a, b

\* Sets of blocks are finite, and smaller without one of their blocks.
LEMMA BlockSets ==
    ASSUME f_graph \in Graphs, NEW S \in SUBSET Block
    PROVE  /\ IsFiniteSet(S) /\ Cardinality(S) \in Nat
           /\ \A b \in S : Cardinality(S \ {b}) < Cardinality(S)
<1>1. IsFiniteSet(Block)
  <2>1. Block = 1..Cardinality(Block) /\ Cardinality(Block) \in Nat
    BY GraphShape
  <2> QED  BY <2>1, FS_Interval
<1>2. IsFiniteSet(S)
  BY <1>1, FS_Subset
<1>3. Cardinality(S) \in Nat
  BY <1>2, FS_CardinalityType
<1>4. ASSUME NEW b \in S
      PROVE  Cardinality(S \ {b}) < Cardinality(S)
  <2>1. Cardinality(S \ {b}) = IF b \in S THEN Cardinality(S) - 1 ELSE Cardinality(S)
    BY <1>2, FS_RemoveElement
  <2>2. Cardinality(S \ {b}) = Cardinality(S) - 1
    BY <2>1, <1>4
  <2> QED  BY <1>3, <2>2
<1> QED  BY <1>2, <1>3, <1>4

\* A block is deeper in the dominator tree than its immediate dominator.
LEMMA DepthBelow ==
    ASSUME f_graph \in Graphs, ImmediateRight, TreeBuilt, NEW b \in Block
    PROVE  LET depth(c) == Cardinality({a \in Block : Dom(a, c)}) IN
           depth(b) \in Nat /\ depth(b) > 0 /\ (b # 1 => depth(idom[b]) < depth(b))
<1> DEFINE D(c) == {a \in Block : Dom(a, c)}
<1>1. b \in D(b)
  BY DomReflexive
<1>2. /\ IsFiniteSet(D(b)) /\ Cardinality(D(b)) \in Nat /\ IsFiniteSet(D(b) \ {b})
      /\ Cardinality(D(b) \ {b}) < Cardinality(D(b)) /\ Cardinality(D(b) \ {b}) \in Nat
  <2>1. D(b) \in SUBSET Block /\ D(b) \ {b} \in SUBSET Block
    OBVIOUS
  <2> HIDE DEF D
  <2> QED  BY <1>1, <2>1, BlockSets
<1>3. b # 1 => D(idom[b]) = D(b) \ {b}
  BY IdomDominators
<1> QED  BY <1>2, <1>3

\* On to a later phase.
LEMMA LaterPhase ==
    ASSUME PhasesLeft' < PhasesLeft
    PROVE  LexBelow(Remaining', Remaining)
BY LexBelowAt DEF Remaining

\* The depth first search numbers a block or goes back to one with a smaller
\* number.
LEMMA NumberingProgress ==
    ASSUME IInv, (\E b \in Block : Visit(b)) \/ Return \/ Numbered
    PROVE  LexBelow(Remaining', Remaining)
<1>1. /\ f_graph \in Graphs /\ Shape /\ DfsTree /\ pc = "dfs" /\ DfsInv /\ cur \in Block
      /\ dfn \in [Block -> Nat] /\ co \in Nat
  BY TreeOn DEF IInv, Visit, Return, Numbered, TypeOK
<1>2. ASSUME NEW b \in Block, Visit(b)
      PROVE  LexBelow(Remaining', Remaining)
  <2> DEFINE S == {c \in Block : dfn[c] = 0}
  <2>1. /\ f_graph' = f_graph /\ pc' = "dfs" /\ dfn' = [dfn EXCEPT ![b] = co + 1] /\ b \in S
    BY <1>1, <1>2 DEF Visit
  <2>2. {c \in Block' : dfn'[c] = 0} = S \ {b}
    BY <1>1, <2>1 DEF Block
  <2>3. Cardinality(S \ {b}) < Cardinality(S)
    <3>1. S \in SUBSET Block
      OBVIOUS
    <3> HIDE DEF S
    <3> QED  BY <1>1, <2>1, <3>1, BlockSets
  <2>4. PhasesLeft' = PhasesLeft /\ RoundsLeft' < RoundsLeft
    BY <1>1, <2>1, <2>2, <2>3 DEF PhasesLeft, RoundsLeft
  <2> QED  BY <2>4, LexBelowAt DEF Remaining
<1>3. CASE Return
  <2>1. UNCHANGED <<f_graph, pc, dfn>> /\ cur' = fa[cur] /\ cur # 1
    BY <1>3 DEF Return, dfsVars
  <2>2. Visited(cur)
    BY <1>1 DEF DfsInv
  <2>3. dfn[fa[cur]] < dfn[cur]
    BY <1>1, <2>1, <2>2 DEF DfsTree, Numbering
  <2>4. PhasesLeft' = PhasesLeft /\ RoundsLeft' = RoundsLeft /\ LoopsLeft' < LoopsLeft
    BY <1>1, <2>1, <2>3 DEF PhasesLeft, RoundsLeft, LoopsLeft, Block
  <2> QED  BY <2>4, LexBelowAt DEF Remaining
<1>4. CASE Numbered
  <2>1. pc' \in {"semi", "idom"}
    BY <1>4 DEF Numbered, Round
  <2>2. PhasesLeft' < PhasesLeft
    BY <1>1, <2>1 DEF PhasesLeft
  <2> QED  BY <2>2, LaterPhase
<1> QED  BY <1>2, <1>3, <1>4

\* find goes up to smaller numbers and comes back down its frames; the loops
\* that call it take one vertex after the other.
LEMMA SearchProgress ==
    ASSUME IInv, \/ \E b \in Block : Call(b)
                 \/ Ascend \/ AtRoot \/ Compress \/ SemiDominator \/ Link \/ Bucket \/ NextRound
    PROVE  LexBelow(Remaining', Remaining)
<1>1. Search
  BY DEF IInv, Call, Ascend, AtRoot, Compress, SemiDominator, Link, Bucket, NextRound, Found, Search
<1>2. SearchInv /\ f_graph \in Graphs /\ todo \in SUBSET Block /\ path \in Seq(Block) /\ i \in Nat
      /\ 0 \notin Block /\ dfn \in [Block -> Nat]
  BY <1>1, SearchOn, SearchFacts DEF IInv, TypeOK
<1>3. pc \in {"semi", "bucket"} /\ PhasesLeft = 4 /\ RoundsLeft = i
  BY <1>1 DEF Search, PhasesLeft, RoundsLeft
<1>4. UNCHANGED <<pc, i, todo>> => /\ PhasesLeft' = PhasesLeft /\ RoundsLeft' = RoundsLeft
                                   /\ LoopsLeft' = LoopsLeft /\ Cardinality(todo') = Cardinality(todo)
  BY <1>3 DEF PhasesLeft, RoundsLeft, LoopsLeft
<1>5. ASSUME NEW b \in Block, Call(b)
      PROVE  LexBelow(Remaining', Remaining)
  <2>1. UNCHANGED <<pc, i, todo>> /\ v = 0 /\ v' = b /\ ret' = ret
    BY <1>5 DEF Call
  <2>2. TurnsLeft' < TurnsLeft
    BY <1>2, <2>1 DEF TurnsLeft
  <2> QED  BY <1>4, <2>1, <2>2, LexBelowAt DEF Remaining
<1>6. CASE Ascend
  <2>1. /\ UNCHANGED <<pc, i, todo, v, ret, dfn>> /\ path # <<>> /\ ret = 0
        /\ ufs[Top] # Top /\ path' = Append(path, ufs[Top])
    BY <1>6 DEF Ascend, dfsVars
  <2>2. Top \in Block /\ ufs[Top] \in Block /\ Len(path) \in Nat
    BY <1>2, <2>1, PathFacts, SearchFacts
  <2>3. Hung(Top) /\ ufs[Top] \in Anc(Top)
    BY <1>2, <2>1, <2>2 DEF SearchInv, ForestInv
  <2>4. dfn[ufs[Top]] < dfn[Top]
    BY <1>2, <2>1, <2>2, <2>3, SearchFacts, AncOrder
  <2>5. path' # <<>> /\ Top' = ufs[Top]
    <3>1. Len(path') = Len(path) + 1 /\ path'[Len(path) + 1] = ufs[Top]
      BY <1>2, <2>1, <2>2
    <3> QED  BY <2>2, <3>1, EmptySeq DEF Top
  <2>6. TurnsLeft' = TurnsLeft
    BY <2>1 DEF TurnsLeft
  <2>7. WayLeft' < WayLeft
    <3>1. WayLeft = dfn[Top]
      BY <2>1 DEF WayLeft
    <3>2. WayLeft' = dfn'[Top']
      BY <2>1, <2>5 DEF WayLeft
    <3> QED  BY <2>1, <2>4, <2>5, <3>1, <3>2
  <2> QED  BY <1>4, <2>1, <2>6, <2>7, LexBelowAt DEF Remaining
<1>7. CASE AtRoot
  <2>1. UNCHANGED <<pc, i, todo, v>> /\ path # <<>> /\ ret = 0 /\ ret' = Top
    BY <1>7 DEF AtRoot
  <2>2. v # 0 /\ Top \in Block
    BY <1>2, <2>1, PathFacts DEF SearchInv, FindInv
  <2>3. TurnsLeft' < TurnsLeft
    BY <1>2, <2>1, <2>2 DEF TurnsLeft
  <2> QED  BY <1>4, <2>1, <2>3, LexBelowAt DEF Remaining
<1>8. CASE Compress
  <2>1. UNCHANGED <<pc, i, todo, v, ret>> /\ path # <<>> /\ ret # 0 /\ path' = Pop
    BY <1>8 DEF Compress
  <2>2. Len(path') = Len(path) - 1 /\ Len(path) \in Nat
    BY <1>2, <2>1, PathFacts
  <2>3. TurnsLeft' = TurnsLeft /\ WayLeft' < WayLeft
    BY <2>1, <2>2 DEF TurnsLeft, WayLeft
  <2> QED  BY <1>4, <2>1, <2>3, LexBelowAt DEF Remaining
<1>9. CASE SemiDominator \/ Bucket
  <2>1. UNCHANGED <<pc, i>> /\ Found /\ todo' = todo \ {v}
    BY <1>9 DEF SemiDominator, Bucket, Consumed
  <2>2. v \in todo
    BY <1>2, <2>1, FindResult
  <2>3. Cardinality(todo') < Cardinality(todo)
    BY <1>2, <2>1, <2>2, BlockSets
  <2>4. PhasesLeft' = PhasesLeft /\ RoundsLeft' = RoundsLeft /\ LoopsLeft' = LoopsLeft
    BY <1>3, <2>1 DEF PhasesLeft, RoundsLeft, LoopsLeft
  <2> QED  BY <2>3, <2>4, LexBelowAt DEF Remaining
<1>10. CASE Link
  <2>1. pc = "semi" /\ pc' = "bucket" /\ i' = i
    BY <1>10 DEF Link
  <2>2. PhasesLeft' = PhasesLeft /\ RoundsLeft' = RoundsLeft /\ LoopsLeft' < LoopsLeft
    BY <2>1 DEF PhasesLeft, RoundsLeft, LoopsLeft
  <2> QED  BY <2>2, LexBelowAt DEF Remaining
<1>11. CASE NextRound
  <2>1. pc' = "idom" \/ (pc' = "semi" /\ i' = i - 1)
    BY <1>11 DEF NextRound, Round
  <2>2. CASE pc' = "idom"
    <3>1. PhasesLeft' < PhasesLeft
      BY <1>3, <2>2 DEF PhasesLeft
    <3> QED  BY <3>1, LaterPhase
  <2>3. CASE pc' = "semi" /\ i' = i - 1
    <3>1. PhasesLeft' = PhasesLeft /\ RoundsLeft' < RoundsLeft
      BY <1>2, <1>3, <2>3 DEF PhasesLeft, RoundsLeft
    <3> QED  BY <3>1, LexBelowAt DEF Remaining
  <2> QED  BY <2>1, <2>2, <2>3
<1> QED  BY <1>5, <1>6, <1>7, <1>8, <1>9, <1>10, <1>11

\* The vertices are fixed one after the other; the walk of the dominator tree
\* enters a block or goes back to one less deep.
LEMMA TreeProgress ==
    ASSUME IInv, FixIdom \/ Attached \/ (\E c \in Block : Enter(c)) \/ Leave \/ TreeWalked
    PROVE  LexBelow(Remaining', Remaining)
<1>1. /\ f_graph \in Graphs /\ TypeOK /\ ImmediateRight /\ cur \in Block
      /\ (pc = "tree" => TreeInv) /\ (pc = "idom" => i \in 2..(co + 1) /\ co \in Nat)
  BY DEF IInv, TypeOK, IdomInv
<1>2. CASE FixIdom
  <2>1. pc = "idom" /\ pc' = "idom" /\ i <= co /\ i' = i + 1 /\ co' = co /\ i \in Int /\ co \in Int
    BY <1>1, <1>2 DEF FixIdom, dfsVars
  <2>2. PhasesLeft' = PhasesLeft /\ RoundsLeft' < RoundsLeft
    BY <2>1 DEF PhasesLeft, RoundsLeft
  <2> QED  BY <2>2, LexBelowAt DEF Remaining
<1>3. CASE Attached
  <2>1. PhasesLeft' < PhasesLeft
    BY <1>3 DEF Attached, PhasesLeft
  <2> QED  BY <2>1, LaterPhase
<1>4. ASSUME NEW c \in Block, Enter(c)
      PROVE  LexBelow(Remaining', Remaining)
  <2> DEFINE S == {b \in Block : ~Entered(b)}
  <2>1. /\ f_graph' = f_graph /\ pc = "tree" /\ pc' = "tree" /\ c \in S
        /\ m_dominators' = [m_dominators EXCEPT ![c] = {c}]
        /\ m_dominators \in [Block -> SUBSET Block]
    BY <1>1, <1>4 DEF Enter, TypeOK
  <2>2. {b \in Block : ~Entered(b)}' = S \ {c}
    BY <2>1 DEF Block, Entered
  <2>3. Cardinality(S \ {c}) < Cardinality(S)
    <3>1. S \in SUBSET Block
      OBVIOUS
    <3> HIDE DEF S
    <3> QED  BY <1>1, <2>1, <3>1, BlockSets
  <2>4. PhasesLeft' = PhasesLeft /\ RoundsLeft' < RoundsLeft
    BY <2>1, <2>2, <2>3 DEF PhasesLeft, RoundsLeft
  <2> QED  BY <2>4, LexBelowAt DEF Remaining
<1>5. CASE Leave
  <2>1. /\ f_graph' = f_graph /\ pc = "tree" /\ pc' = "tree" /\ cur # 1 /\ cur' = idom[cur]
        /\ m_dom_depth' = m_dom_depth
        /\ m_dominators' = [m_dominators EXCEPT ![idom[cur]] = @ \cup m_dominators[cur]]
        /\ m_dominators \in [Block -> SUBSET Block] /\ TreeInv /\ TreeBuilt
    BY <1>1, <1>5 DEF Leave, TypeOK, TreeBuilt
  <2>2. idom[cur] \in Block /\ Dom(idom[cur], cur)
    BY <1>1, <2>1, IdomDominators
  <2>3. Entered(cur) /\ Entered(idom[cur])
    BY <1>1, <2>1, <2>2 DEF TreeInv
  <2>4. m_dom_depth[idom[cur]] < m_dom_depth[cur]
    <3>1. /\ m_dom_depth[cur] = Cardinality({a \in Block : Dom(a, cur)})
          /\ m_dom_depth[idom[cur]] = Cardinality({a \in Block : Dom(a, idom[cur])})
      BY <1>1, <2>1, <2>2, <2>3 DEF TreeInv
    <3> QED  BY <1>1, <2>1, <3>1, DepthBelow
  <2>5. {b \in Block : ~Entered(b)}' = {b \in Block : ~Entered(b)}
    <3>1. \A b \in Block : m_dominators'[b] # {} <=> m_dominators[b] # {}
      BY <2>1, <2>2, <2>3 DEF Entered
    <3> QED  BY <2>1, <3>1 DEF Block, Entered
  <2>6. PhasesLeft' = PhasesLeft /\ RoundsLeft' = RoundsLeft /\ LoopsLeft' < LoopsLeft
    BY <2>1, <2>4, <2>5 DEF PhasesLeft, RoundsLeft, LoopsLeft
  <2> QED  BY <2>6, LexBelowAt DEF Remaining
<1>6. CASE TreeWalked
  <2>1. PhasesLeft' < PhasesLeft
    BY <1>6 DEF TreeWalked, PhasesLeft
  <2> QED  BY <2>1, LaterPhase
<1> QED  BY <1>2, <1>3, <1>4, <1>5, <1>6

\* The climb goes up the dominator tree; the blocks and their edges are taken
\* one after the other.
LEMMA FrontierProgress ==
    ASSUME IInv, (\E b \in Block : Edge(b)) \/ Climb \/ EdgeDone \/ NextBlock
    PROVE  LexBelow(Remaining', Remaining)
<1>1. pc = "frontier"
  BY DEF Edge, Climb, EdgeDone, NextBlock
<1>2. /\ f_graph \in Graphs /\ TypeOK /\ ImmediateRight /\ DominatorsRight /\ FrontierInv
      /\ TreeBuilt /\ path = <<>> /\ ret = 0 /\ todo \in SUBSET Block /\ 0 \notin Block
      /\ i \in Block /\ Block = 1..Cardinality(Block) /\ Cardinality(Block) \in Nat
  BY <1>1, GraphShape DEF IInv, TypeOK, Search, TreeBuilt, FrontierInv
<1>3. PhasesLeft = 1 /\ RoundsLeft = Cardinality(Block) - i /\ LoopsLeft = 0
  BY <1>1 DEF PhasesLeft, RoundsLeft, LoopsLeft
<1>4. UNCHANGED <<f_graph, pc, i>> => /\ PhasesLeft' = PhasesLeft /\ RoundsLeft' = RoundsLeft
                                      /\ LoopsLeft' = LoopsLeft
  <2> SUFFICES ASSUME UNCHANGED <<f_graph, pc, i>>
               PROVE  PhasesLeft' = PhasesLeft /\ RoundsLeft' = RoundsLeft /\ LoopsLeft' = LoopsLeft
    OBVIOUS
  <2>1. Block' = Block
    BY DEF Block
  <2> QED  BY <1>1, <2>1 DEF PhasesLeft, RoundsLeft, LoopsLeft
<1>5. ASSUME NEW b \in Block, Edge(b)
      PROVE  LexBelow(Remaining', Remaining)
  <2>1. UNCHANGED <<f_graph, pc, i, todo, ret>> /\ v = 0 /\ v' = b
    BY <1>5 DEF Edge, findVars
  <2>2. TurnsLeft' < TurnsLeft
    BY <1>2, <2>1 DEF TurnsLeft
  <2> QED  BY <1>4, <2>1, <2>2, LexBelowAt DEF Remaining
<1>6. CASE Climb
  <2>1. /\ UNCHANGED <<f_graph, pc, i, todo, v, path, ret, m_dom_depth>> /\ v # 0 /\ x # 0
        /\ x' = idom[x]
    BY <1>6 DEF Climb, Passing, findVars, domVars
  <2>2. x \in Block
    BY <1>2, <2>1 DEF TypeOK
  <2>3. /\ m_dom_depth[x] \in Nat /\ m_dom_depth[x] > 0
        /\ x # 1 => m_dom_depth[idom[x]] < m_dom_depth[x]
    <3>1. \A b \in Block : m_dom_depth[b] = Cardinality({a \in Block : Dom(a, b)})
      BY <1>1, <1>2 DEF DominatorsRight
    <3>2. x # 1 => idom[x] \in Block
      BY <1>2, <2>2, IdomDominators
    <3> QED  BY <1>2, <2>2, <3>1, <3>2, DepthBelow
  <2>4. x = 1 => idom[x] = 0
    BY <1>2 DEF ImmediateRight
  <2>5. TurnsLeft' = TurnsLeft
    BY <2>1 DEF TurnsLeft
  <2>6. WayLeft' < WayLeft
    <3>1. WayLeft = m_dom_depth[x]
      BY <1>2, <2>1 DEF WayLeft
    <3>2. WayLeft' = IF idom[x] # 0 THEN m_dom_depth[idom[x]] ELSE 0
      BY <1>2, <2>1 DEF WayLeft
    <3> QED  BY <2>3, <2>4, <3>1, <3>2
  <2> QED  BY <1>4, <2>1, <2>5, <2>6, LexBelowAt DEF Remaining
<1>7. CASE EdgeDone
  <2>1. UNCHANGED <<f_graph, pc, i>> /\ todo' = todo \ {v} /\ v # 0
    BY <1>7 DEF EdgeDone
  <2>2. v \in todo
    BY <1>2, <2>1 DEF FrontierInv
  <2>3. Cardinality(todo') < Cardinality(todo)
    BY <1>2, <2>1, <2>2, BlockSets
  <2> QED  BY <1>4, <2>1, <2>3, LexBelowAt DEF Remaining
<1>8. CASE NextBlock
  <2>1. f_graph' = f_graph /\ (pc' = "done" \/ (i + 1 \in Block /\ i' = i + 1 /\ pc' = pc))
    BY <1>8 DEF NextBlock
  <2>2. CASE pc' = "done"
    <3>1. PhasesLeft' < PhasesLeft
      BY <1>1, <2>2 DEF PhasesLeft
    <3> QED  BY <3>1, LaterPhase
  <2>3. CASE i' = i + 1 /\ pc' = pc
    <3>1. Block' = Block
      BY <2>1 DEF Block
    <3>2. i \in Int /\ Cardinality(Block) \in Int
      BY <1>2
    <3>3. PhasesLeft' = 1 /\ RoundsLeft' = Cardinality(Block) - (i + 1)
      BY <1>1, <2>3, <3>1 DEF PhasesLeft, RoundsLeft
    <3>4. PhasesLeft' = PhasesLeft /\ RoundsLeft' < RoundsLeft
      BY <1>3, <3>2, <3>3
    <3> QED  BY <3>4, LexBelowAt DEF Remaining
  <2> QED  BY <2>1, <2>2, <2>3
<1> QED  BY <1>5, <1>6, <1>7, <1>8

\* What is left is counted in natural numbers.
LEMMA RemainingIsNat ==
    ASSUME IInv
    PROVE  \A k \in DOMAIN Remaining : Remaining[k] \in Nat
<1>1. /\ f_graph \in Graphs /\ TypeOK /\ cur \in Block /\ pc \in Phases /\ i \in Nat /\ co \in Nat
      /\ dfn \in [Block -> Nat] /\ m_dom_depth \in [Block -> Nat] /\ path \in Seq(Block)
      /\ x \in Block \cup {0} /\ todo \in SUBSET Block
      /\ Block = 1..Cardinality(Block) /\ Cardinality(Block) \in Nat
      /\ (pc = "idom" => i \in 2..(co + 1)) /\ (pc = "frontier" => i \in Block)
  BY GraphShape DEF IInv, TypeOK, IdomInv, FrontierInv
<1>2. PhasesLeft \in Nat
  BY <1>1 DEF Phases, PhasesLeft
<1>3. \A S \in SUBSET Block : Cardinality(S) \in Nat
  BY <1>1, BlockSets
<1>4. RoundsLeft \in Nat
  <2>1. /\ Cardinality({b \in Block : dfn[b] = 0}) \in Nat
        /\ Cardinality({b \in Block : ~Entered(b)}) \in Nat
    BY <1>3
  <2>2. pc = "idom" => co + 1 - i \in Nat
    BY <1>1
  <2>3. pc = "frontier" => Cardinality(Block) - i \in Nat
    <3>1. \A n \in Nat : i \in 1..n => n - i \in Nat
      BY <1>1
    <3> QED  BY <1>1, <3>1
  <2> QED  BY <1>1, <2>1, <2>2, <2>3 DEF RoundsLeft
<1>5. LoopsLeft \in Nat
  BY <1>1 DEF LoopsLeft
<1>6. Cardinality(todo) \in Nat /\ TurnsLeft \in Nat
  BY <1>1, <1>3 DEF TurnsLeft
<1>7. WayLeft \in Nat
  <2>1. path # <<>> => dfn[Top] \in Nat
    BY <1>1, PathFacts
  <2> QED  BY <1>1, <2>1 DEF WayLeft
<1>8. DOMAIN Remaining = 1..6
  BY DEF Remaining
<1>9. /\ Remaining[1] \in Nat /\ Remaining[2] \in Nat /\ Remaining[3] \in Nat
      /\ Remaining[4] \in Nat /\ Remaining[5] \in Nat /\ Remaining[6] \in Nat
  BY <1>2, <1>4, <1>5, <1>6, <1>7 DEF Remaining
<1> QED  BY <1>8, <1>9

\* The analysis of dom.cpp ends on every flow graph: every step leaves less to
\* do, counted in natural numbers. So find never follows the pointers that it
\* rewrites in a circle, and the loop of line 147 reaches a strict dominator or
\* the entry.
THEOREM AnalysisAlwaysEnds ==
    Spec => /\ AnalysisEnds
            /\ [](\A k \in DOMAIN Remaining : Remaining[k] \in Nat)
<1>1. IInv /\ [Next]_vars => [LexBelow(Remaining', Remaining)]_vars
  <2> SUFFICES ASSUME IInv, Next
               PROVE  [LexBelow(Remaining', Remaining)]_vars
    OBVIOUS
  <2> QED  BY NumberingProgress, SearchProgress, TreeProgress, FrontierProgress DEF Next, Done
<1>2. IInv => \A k \in DOMAIN Remaining : Remaining[k] \in Nat
  BY RemainingIsNat
<1> QED  BY <1>1, <1>2, InitIInv, NextIInv, PTL DEF Spec, AnalysisEnds

-----------------------------------------------------------------------------
(* The analysis implements its specification.                              *)

(* The semidominator so far is one that a path enters w from.              *)
Higher(w) == [b \in Block |-> {c \in f_graph[b] : dfn[w] < dfn[c]}]
Enters(c, w) == \E s \in Reach(Higher(w), c) : w \in f_graph[s]
SemiEnters == Search => \A w \in Block : sdom[w] = w \/ Enters(sdom[w], w)

\* The graph with the edges to lower numbers left out.
LEMMA HigherShape ==
    ASSUME Tree, NEW t \in Block
    PROVE  /\ Higher(t) \in [Block -> SUBSET Block]
           /\ \A s \in Block : \A y \in f_graph[s] : dfn[t] < dfn[y] => y \in Higher(t)[s]
BY GraphShape DEF Higher, Tree, DfsTree, Shape

\* The way down the tree is a path over higher numbers.
LEMMA TreeReach ==
    ASSUME Tree, NEW t \in Block, NEW w \in Block, NEW u \in Anc(w),
           \A y \in Anc(w) : dfn[u] < dfn[y] => dfn[t] < dfn[y]
    PROVE  w \in Reach(Higher(t), u)
<1> SUFFICES ASSUME w \notin Reach(Higher(t), u)  PROVE FALSE
  OBVIOUS
<1> DEFINE S == Reach(Higher(t), u)
           Q == {y \in Anc(w) : y \notin S /\ u \in Anc(y)}
<1>1. Shape /\ DfsTree /\ Higher(t) \in [Block -> SUBSET Block]
  BY HigherShape DEF Tree, DfsTree
<1>2. Anc(w) \subseteq Block /\ u \in Block /\ w \in Anc(w)
  BY <1>1, AncBasics
<1>3. u \in S /\ S \subseteq Block /\ Closed(Higher(t), S)
  BY <1>1, <1>2, ReachClosed
<1>4. w \in Q /\ Q \in SUBSET Block
  BY <1>2
<1> HIDE DEF S
<1>5. ASSUME NEW y \in Q
      PROVE  Parent[y] \subseteq Q
  <2>1. y \in Block /\ y # u /\ u \in Anc(y) /\ Visited(y)
    BY <1>2, <1>3 DEF Tree, AllNumbered
  <2>2. y # 1 /\ dfn[u] < dfn[y] /\ u \in Anc(fa[y])
    BY <1>1, <2>1, AncOrder
  <2>3. y \in f_graph[fa[y]] /\ fa[y] \in Block /\ fa[y] \in Anc(y)
    BY <2>1, <2>2, TreeNumbers
  <2>4. fa[y] \in Anc(w)
    BY <1>1, <1>2, <2>3, AncBasics
  <2>5. fa[y] \notin S
    BY <1>3, <2>2, <2>3, HigherShape DEF Closed
  <2> QED  BY <2>1, <2>2, <2>4, <2>5 DEF Parent
<1>6. Closed(Parent, Q)
  BY <1>5 DEF Closed
<1>7. Anc(w) \subseteq Q
  BY <1>1, <1>2, <1>4, <1>6, ParentShape, ReachLeast DEF Anc
<1> QED  BY <1>3, <1>7

\* What enters a vertex gets to it over numbers above any lower one.
LEMMA EntersLower ==
    ASSUME Tree, NEW t \in Block, NEW u \in Block, dfn[t] < dfn[u],
           NEW c \in Block, Enters(c, u)
    PROVE  u \in Reach(Higher(t), c)
<1>1. PICK s \in Reach(Higher(u), c) : u \in f_graph[s]
  BY DEF Enters
<1>2. /\ c \in Reach(Higher(t), c) /\ Reach(Higher(t), c) \in SUBSET Block
      /\ Closed(Higher(t), Reach(Higher(t), c))
  BY HigherShape, ReachClosed
<1>3. dfn \in [Block -> Nat]
  BY DEF Tree, DfsTree, Shape
<1>4. \A y \in Block : Higher(u)[y] \subseteq Higher(t)[y]
  BY <1>3, GraphShape DEF Higher, Tree, DfsTree, Shape
<1>5. Closed(Higher(u), Reach(Higher(t), c))
  BY <1>2, <1>4 DEF Closed
<1>6. s \in Reach(Higher(t), c)
  BY <1>1, <1>2, <1>5, HigherShape, ReachLeast
<1> QED  BY <1>1, <1>2, <1>6, HigherShape DEF Closed

\* The semidominator that a predecessor offers is one that a path enters from.
LEMMA BetterEnters ==
    ASSUME SearchInv, SemiEnters, pc = "semi", Found, Less(mn[v], ord(i))
    PROVE  Enters(sdom[mn[v]], ord(i))
<1> DEFINE t == ord(i)
           m == mn[v]
           d == sdom[m]
<1>0. /\ Tree /\ Shape /\ DfsTree /\ dfn \in [Block -> Nat] /\ i \in Nat
      /\ t \in Block /\ dfn[t] = i /\ \A b \in Block : dfn[b] = i => b = t
      /\ \A w \in Block : sdom[w] \in Block
  BY SearchFacts DEF SearchInv
<1>1. /\ v \in Block /\ m \in Anc(v) /\ m \in Block /\ v \in Predecessors(t)
      /\ \A y \in Anc(v) : dfn[m] < dfn[y] => Hung(y)
  BY FindResult DEF SearchInv, FindInv
<1>2. \A b \in Block : Hung(b) <=> dfn[b] > i
  BY SearchFacts
<1>3. Anc(v) \subseteq Block /\ m # t /\ d \in Block
  BY <1>0, <1>1, AncBasics DEF Less
<1>4. t \in f_graph[v]
  BY <1>1 DEF Predecessors
<1> HIDE DEF t, d, m
<1>5. v \in Reach(Higher(t), m)
  BY <1>0, <1>1, <1>2, <1>3, TreeReach
<1>6. m \in Reach(Higher(t), d)
  <2>1. CASE d = m
    BY <1>0, <1>1, <2>1, HigherShape, ReachClosed
  <2>2. CASE d # m
    <3>1. Enters(d, m)
      BY <1>1, <2>2 DEF SemiEnters, SearchInv, d
    <3>2. ~(dfn[m] < i)
      BY <1>1, <2>2 DEF SearchInv, SemiInv, d
    <3>3. dfn[t] < dfn[m]
      BY <1>0, <1>1, <1>3, <3>2
    <3> QED  BY <1>0, <1>1, <1>3, <3>1, <3>3, EntersLower
  <2> QED  BY <2>1, <2>2
<1>7. v \in Reach(Higher(t), d)
  BY <1>0, <1>3, <1>5, <1>6, HigherShape, ReachTransitive
<1> QED  BY <1>4, <1>7 DEF Enters, t, d, m

\* When all predecessors of t = ord(i) have been asked, sdom[t] is the least
\* block that enters t: along a path from c, the vertices above t have an
\* ancestor above t whose semidominator is c or lower.
LEMMA SemiBest ==
    ASSUME SearchInv, SemiEnters, pc = "semi", todo = {}
    PROVE  /\ Enters(sdom[ord(i)], ord(i))
           /\ \A c \in Block : Enters(c, ord(i)) => dfn[sdom[ord(i)]] <= dfn[c]
<1> DEFINE t == ord(i)
<1>0. /\ Tree /\ Shape /\ DfsTree /\ dfn \in [Block -> Nat] /\ i \in Nat
      /\ t \in Block \ {1} /\ dfn[t] = i /\ \A b \in Block : dfn[b] = i => b = t
      /\ \A w \in Block : sdom[w] \in Block
      /\ f_graph \in [Block -> SUBSET Block]
  BY SearchFacts DEF SearchInv
<1>1. \A b \in Block : Hung(b) <=> dfn[t] < dfn[b]
  BY <1>0, SearchFacts
<1>2. \A p \in Predecessors(t) : Covers(t, p)
  BY <1>0 DEF SearchInv, SemiInv
<1>3. \A y \in Block : dfn[t] < dfn[y] => \A p \in Predecessors(y) : Covers(y, p)
  BY <1>0, <1>1 DEF SearchInv, SemiInv
<1>4. \A s \in Block : \A y \in f_graph[s] : y \in Block /\ s \in Predecessors(y)
  BY <1>0 DEF Predecessors
<1> HIDE DEF t
<1>5. Enters(sdom[t], t)
  <2>1. fa[t] \in Block /\ t \in f_graph[fa[t]] /\ dfn[fa[t]] < dfn[t]
    BY <1>0, TreeNumbers
  <2>2. dfn[sdom[t]] <= dfn[fa[t]]
    BY <1>0, <1>2, <1>4, <2>1 DEF Covers
  <2>3. sdom[t] # t
    BY <1>0, <2>1, <2>2
  <2> QED  BY <1>0, <2>3 DEF SemiEnters, SearchInv
<1>6. ASSUME NEW c \in Block, Enters(c, t)
      PROVE  dfn[sdom[t]] <= dfn[c]
  <2>1. CASE dfn[t] <= dfn[c]
    <3>1. sdom[t] \in Anc(t) /\ Visited(t)
      BY <1>0 DEF SearchInv, SemiInv, Tree, AllNumbered
    <3>2. dfn[sdom[t]] <= dfn[t]
      BY <1>0, <3>1, AncOrder
    <3> QED  BY <1>0, <2>1, <3>2
  <2>2. CASE dfn[c] < dfn[t]
    <3> DEFINE Below(s) == \E u \in Anc(s) : dfn[t] < dfn[u] /\ dfn[sdom[u]] <= dfn[c]
               Z == {s \in Block : s = c \/ Below(s)}
    <3>1. ASSUME NEW s \in Z, NEW y \in f_graph[s], dfn[t] < dfn[y]
          PROVE  Below(y)
      <4>1. s \in Block /\ y \in Block /\ Covers(y, s) /\ Anc(s) \subseteq Block /\ y \in Anc(y)
        BY <1>0, <1>3, <1>4, <3>1, AncBasics
      <4>2. CASE s = c
        BY <1>0, <2>2, <3>1, <4>1, <4>2 DEF Covers
      <4>3. CASE s # c
        <5>1. PICK u \in Anc(s) : dfn[t] < dfn[u] /\ dfn[sdom[u]] <= dfn[c]
          BY <4>3
        <5>2. CASE dfn[y] < dfn[u]
          <6>1. dfn[sdom[y]] <= dfn[sdom[u]]
            BY <4>1, <5>1, <5>2 DEF Covers
          <6>2. dfn[sdom[y]] <= dfn[c]
            BY <1>0, <4>1, <5>1, <6>1
          <6> QED  BY <3>1, <4>1, <6>2
        <5>3. CASE dfn[u] <= dfn[y]
          <6>1. Visited(s) /\ Visited(u)
            BY <1>0, <4>1 DEF Tree, AllNumbered
          <6>2. CASE dfn[y] <= dfn[s]
            BY <1>0, <4>1, <5>1, <5>3, <6>1, <6>2 DEF Tree, Intervals
          <6>3. CASE dfn[s] < dfn[y]
            <7>1. s \in Anc(y)
              BY <1>0, <4>1, <6>1, <6>3 DEF Tree, UpwardEdges
            <7> QED  BY <1>0, <4>1, <5>1, <7>1, AncBasics
          <6> QED  BY <1>0, <4>1, <6>2, <6>3
        <5> QED  BY <1>0, <4>1, <5>1, <5>2, <5>3
      <4> QED  BY <4>2, <4>3
    <3> HIDE DEF Below
    <3>2. Closed(Higher(t), Z) /\ c \in Z /\ Z \in SUBSET Block
      BY <1>0, <1>4, <3>1 DEF Closed, Higher
    <3>3. PICK s \in Reach(Higher(t), c) : t \in f_graph[s]
      BY <1>6 DEF Enters
    <3>4. s \in Z
      BY <1>0, <3>2, <3>3, HigherShape, ReachLeast
    <3>5. Covers(t, s) /\ s \in Block /\ Anc(s) \subseteq Block
      BY <1>0, <1>2, <1>4, <3>3, <3>4, AncBasics
    <3>6. CASE s = c
      BY <1>0, <2>2, <3>5, <3>6 DEF Covers
    <3>7. CASE s # c
      <4>1. PICK u \in Anc(s) : dfn[t] < dfn[u] /\ dfn[sdom[u]] <= dfn[c]
        BY <3>4, <3>7 DEF Below
      <4>2. dfn[sdom[t]] <= dfn[sdom[u]]
        BY <3>5, <4>1 DEF Covers
      <4> QED  BY <1>0, <3>5, <4>1, <4>2
    <3> QED  BY <3>6, <3>7
  <2> QED  BY <1>0, <2>1, <2>2
<1> QED  BY <1>5, <1>6 DEF t

\* Every step keeps the semidominators among the blocks that a path enters from.
LEMMA SemiEntersNext ==
    ASSUME IInv, SemiEnters, [Next]_vars
    PROVE  SemiEnters'
<1> SUFFICES ASSUME Search'  PROVE \A w \in Block' : sdom'[w] = w \/ Enters(sdom[w], w)'
  BY DEF SemiEnters
<1>1. CASE Numbered
  BY <1>1 DEF Numbered, Self, Block
<1>2. ASSUME Search, UNCHANGED <<f_graph, dfn, sdom>>
      PROVE  SemiEnters'
  BY <1>2 DEF SemiEnters, Enters, Higher, Block
<1>3. CASE SemiDominator
  <2>1. /\ SearchInv /\ pc = "semi" /\ Found /\ f_graph' = f_graph /\ dfn' = dfn /\ Search
        /\ sdom' = IF Less(mn[v], ord(i)) THEN [sdom EXCEPT ![ord(i)] = sdom[mn[v]]] ELSE sdom
    BY <1>3, SearchOn DEF SemiDominator, Search, dfsVars
  <2>2. Block' = Block /\ ord(i) \in Block /\ sdom \in [Block -> Block \cup {0}]
    BY <2>1, SearchFacts DEF Block, SearchInv, TypeOK
  <2>3. \A c, w : Enters(c, w)' <=> Enters(c, w)
    BY <2>1, <2>2 DEF Enters, Higher
  <2>4. Less(mn[v], ord(i)) => Enters(sdom[mn[v]], ord(i))
    BY <2>1, BetterEnters
  <2>5. \A w \in Block : sdom'[w] = w \/ Enters(sdom'[w], w)
    BY <2>1, <2>2, <2>4 DEF SemiEnters
  <2>6. ASSUME NEW w \in Block'
        PROVE  sdom'[w] = w \/ Enters(sdom[w], w)'
    BY <2>1, <2>2, <2>5 DEF Enters, Higher, Block
  <2> QED  BY <2>6
<1>4. CASE UNCHANGED vars
  BY <1>2, <1>4 DEF vars, dfsVars, Search, SemiEnters
<1>5. CASE Next /\ ~Numbered /\ ~SemiDominator
  <2>1. Search
    BY <1>5 DEF Next, Done, vars, Visit, Return, Call, Ascend, AtRoot, Compress, Link, Bucket,
                NextRound, FixIdom, Attached, Enter, Leave, TreeWalked, Edge, Climb, EdgeDone,
                NextBlock, Search
  <2>2. UNCHANGED <<f_graph, dfn, sdom>>
    BY <1>5, <2>1 DEF Next, Done, vars, Visit, Return, Call, Ascend, AtRoot, Compress, Link, Bucket,
                NextRound, FixIdom, Attached, Enter, Leave, TreeWalked, Edge, Climb, EdgeDone,
                NextBlock, Search, dfsVars
  <2> QED  BY <1>2, <2>1, <2>2 DEF SemiEnters
<1> QED  BY <1>1, <1>2, <1>3, <1>4, <1>5 DEF SemiEnters

\* What the specification says of dominance and of paths, in the terms of dom.cpp.
LEMMA SameTerms ==
    /\ Analysis!Block = Block /\ Analysis!Zero = Zero /\ Analysis!None = None
    /\ \A a, b : /\ Analysis!Dom(a, b) <=> Dom(a, b)
                 /\ Analysis!StrictDom(a, b) <=> StrictDom(a, b)
                 /\ Analysis!IsIdom(a, b) <=> IsIdom(a, b)
    /\ pc # "dfs" => \A c, w : Analysis!Enters(c, w) <=> Enters(c, w)
<1>1. Analysis!Block = Block
  BY DEF Analysis!Block, Block
<1>2. \A R, y0 : Analysis!Reach(R, y0) = Reach(R, y0)
  BY DEF Analysis!Reach, Reach, Analysis!Closed, Closed
<1>3. ASSUME NEW a, NEW b
      PROVE  /\ Analysis!Dom(a, b) <=> Dom(a, b)
             /\ Analysis!StrictDom(a, b) <=> StrictDom(a, b)
  <2>1. Analysis!Without(a) = Avoiding(a)
    BY <1>1 DEF Analysis!Without, Avoiding
  <2>2. Analysis!Dom(a, b) <=> Dom(a, b)
    BY <1>2, <2>1 DEF Analysis!Dom, Dom, Without
  <2> QED  BY <2>2 DEF Analysis!StrictDom, StrictDom
<1>4. \A a, b : Analysis!IsIdom(a, b) <=> IsIdom(a, b)
  BY <1>1, <1>3 DEF Analysis!IsIdom, IsIdom
<1>5. ASSUME pc # "dfs", NEW c, NEW w
      PROVE  Analysis!Enters(c, w) <=> Enters(c, w)
  <2>1. Analysis!Over(w) = Higher(w)
    BY <1>1, <1>5 DEF Analysis!Over, Higher, KnownNumber
  <2> QED  BY <1>2, <2>1 DEF Analysis!Enters, Enters
<1>6. Analysis!Zero = Zero /\ Analysis!None = None
  BY <1>1 DEF Analysis!Zero, Zero, Analysis!None, None
<1> QED  BY <1>1, <1>3, <1>4, <1>5, <1>6

\* The analysis begins as its specification does.
LEMMA InitImplements ==
    ASSUME Init
    PROVE  Analysis!Init
<1>1. f_graph \in Graphs /\ pc = "dfs"
  BY DEF Init
<1>2. /\ f_graph \in [Block -> SUBSET Block] /\ Reach(f_graph, 1) = Block
      /\ Analysis!Reach(f_graph, 1) = Reach(f_graph, 1)
  BY <1>1, GraphShape DEF Analysis!Reach, Reach, Analysis!Closed, Closed
<1>3. KnownNumber = Zero /\ KnownSemi = Zero /\ KnownIdom = Zero
  BY <1>1 DEF KnownNumber, KnownSemi, KnownIdom, SemiFound, IdomFound, TreeBuilt, Zero
<1>4. KnownDominated = None /\ KnownFrontier = None
  BY <1>1 DEF KnownDominated, KnownFrontier, Analysed
<1> QED  BY <1>2, <1>3, <1>4, SameTerms DEF Analysis!Init

Known == <<f_graph, KnownNumber, KnownSemi, KnownIdom, KnownDominated, KnownFrontier>>

\* A step that finds nothing new.
LEMMA NothingNew ==
    ASSUME UNCHANGED <<f_graph, dfn>>,
           pc = "dfs" <=> pc' = "dfs",
           \A b \in Block : (SemiFound(b)' <=> SemiFound(b)) /\ (SemiFound(b) => sdom'[b] = sdom[b]),
           \A b \in Block : (IdomFound(b)' <=> IdomFound(b)) /\ (IdomFound(b) => idom'[b] = idom[b]),
           UNCHANGED <<KnownDominated, KnownFrontier>>
    PROVE  UNCHANGED Known
<1>1. Block' = Block /\ Zero' = Zero
  BY DEF Block, Zero
<1>2. KnownNumber' = KnownNumber
  BY <1>1 DEF KnownNumber
<1>3. KnownSemi' = KnownSemi
  BY <1>1 DEF KnownSemi
<1>4. KnownIdom' = KnownIdom
  BY <1>1 DEF KnownIdom
<1> QED  BY <1>2, <1>3, <1>4 DEF Known

\* The search numbers blocks where it finds them, unknown until it is over.
LEMMA VisitImplements ==
    ASSUME (\E b \in Block : Visit(b)) \/ Return
    PROVE  UNCHANGED Known
<1>1. pc = "dfs" /\ pc' = "dfs" /\ f_graph' = f_graph /\ Block' = Block
  BY DEF Visit, Return, Block
<1>2. Zero' = Zero /\ None' = None
  BY <1>1 DEF Zero, None
<1>3. KnownNumber' = KnownNumber /\ KnownDominated' = KnownDominated /\ KnownFrontier' = KnownFrontier
  BY <1>1, <1>2 DEF KnownNumber, KnownDominated, KnownFrontier, Analysed
<1>4. KnownSemi' = KnownSemi
  BY <1>1 DEF KnownSemi, SemiFound
<1>5. KnownIdom' = KnownIdom
  BY <1>1 DEF KnownIdom, IdomFound, TreeBuilt
<1> QED  BY <1>1, <1>3, <1>4, <1>5 DEF Known

\* There are as many numbers as blocks.
LEMMA NumbersAreBlocks ==
    ASSUME Tree
    PROVE  dfn \in [Block -> Block]
<1>1. co \in Nat /\ \A b \in Block : dfn[b] \in 1..co
  BY TreeNumbers DEF Tree, DfsTree, Shape
<1>2. dfn \in Surjection(Block, 1..co)
  BY <1>1 DEF Tree, DfsTree, Shape, Numbering, Surjection
<1>3. IsFiniteSet(Block) /\ Cardinality(Block) \in Nat
  BY GraphShape, FS_Interval DEF Tree, DfsTree, Shape
<1>4. Cardinality(1..co) <= Cardinality(Block) /\ Cardinality(1..co) = co
  BY <1>1, <1>2, <1>3, FS_Surjection, FS_Interval
<1>5. Block = 1..Cardinality(Block)
  BY GraphShape DEF Tree, DfsTree, Shape
<1>6. \A b \in Block : dfn[b] \in Block
  BY <1>1, <1>3, <1>4, <1>5
<1> QED  BY <1>6 DEF Tree, DfsTree, Shape

\* The numbers are those of a depth first search.
LEMMA NumberedImplements ==
    ASSUME IInv, Numbered
    PROVE  Analysis!Number
<1>1. pc = "dfs" /\ DfsInv /\ idom = Zero /\ m_dominators = None /\ m_dominance_frontier = None
  BY DEF IInv, Numbered
<1>2. Tree /\ f_graph \in [Block -> SUBSET Block]
  BY <1>1, TreeOn, SearchComplete, GraphShape DEF IInv, Numbered, Tree, Shape
<1>3. /\ UNCHANGED <<f_graph, dfn, co>> /\ idom' = idom /\ m_dominators' = m_dominators
      /\ m_dominance_frontier' = m_dominance_frontier /\ Block' = Block
      /\ IF co >= 2 THEN pc' = "semi" /\ i' = co ELSE pc' = "idom" /\ i' = 2
  BY DEF Numbered, Round, dfsVars, domVars, frontierVars, Block
<1>4. /\ dfn \in [Block -> Nat] /\ co \in Nat /\ 1 \in Block /\ Zero' = Zero /\ None' = None
      /\ \A b \in Block : dfn[b] \in 1..co /\ (dfn[b] = 1 <=> b = 1)
  BY <1>2, <1>3, TreeNumbers DEF Tree, DfsTree, Shape, Zero, None
<1>5. KnownNumber = Zero /\ KnownNumber' = dfn /\ dfn[1] = 1
  BY <1>1, <1>3, <1>4 DEF KnownNumber
<1>6. KnownSemi = Zero /\ KnownSemi' = Zero
  BY <1>1, <1>3, <1>4 DEF KnownSemi, SemiFound, Zero
<1>7. KnownIdom = Zero /\ KnownIdom' = Zero
  BY <1>1, <1>3, <1>4 DEF KnownIdom, IdomFound, TreeBuilt, Zero
<1>8. /\ KnownDominated = None /\ KnownDominated' = None
      /\ KnownFrontier = None /\ KnownFrontier' = None
  BY <1>1, <1>3, <1>4 DEF KnownDominated, KnownFrontier, Analysed
<1>9. ASSUME NEW a \in Block, NEW b \in Block, NEW c \in f_graph[a], dfn[a] < dfn[b], dfn[b] < dfn[c]
      PROVE  \E d \in Block : dfn[a] <= dfn[d] /\ dfn[d] < dfn[b] /\ b \in f_graph[d]
  <2>1. c \in Block /\ dfn[a] < dfn[c] /\ Visited(a) /\ Visited(b) /\ Shape /\ DfsTree
    BY <1>2, <1>4, <1>9 DEF Tree, DfsTree, AllNumbered
  <2>2. a \in Anc(c)
    BY <1>2, <2>1 DEF Tree, UpwardEdges
  <2>3. a \in Anc(b)
    BY <1>2, <1>4, <1>9, <2>1, <2>2 DEF Tree, Intervals
  <2>4. b # 1 /\ a \in Anc(fa[b])
    BY <1>4, <1>9, <2>1, <2>3, AncOrder
  <2>5. fa[b] \in Block /\ b \in f_graph[fa[b]] /\ dfn[fa[b]] < dfn[b] /\ Visited(fa[b])
    BY <1>2, <2>4, TreeNumbers DEF Tree, AllNumbered
  <2>6. dfn[a] <= dfn[fa[b]]
    BY <2>1, <2>4, <2>5, AncOrder
  <2> QED  BY <2>5, <2>6
<1>10. Analysis!DepthFirst(dfn)
  BY <1>2, <1>5, <1>9, SameTerms, TreeNumbers DEF Analysis!DepthFirst
<1>11. dfn \in [Block -> Block] /\ Zero # dfn
  BY <1>2, <1>4, <1>5, NumbersAreBlocks DEF Zero
<1>12. Analysis!DepthFirst(KnownNumber') <=> Analysis!DepthFirst(dfn)
  BY <1>5 DEF Analysis!DepthFirst
<1> QED  BY <1>3, <1>5, <1>6, <1>7, <1>8, <1>10, <1>11, <1>12, SameTerms DEF Analysis!Number, Analysis!Numbered

\* Calls of find and the buckets, which keep what they find to themselves.
LEMMA RoundImplements ==
    ASSUME IInv,
           \/ \E b \in Block : Call(b)
           \/ Ascend \/ AtRoot \/ Compress \/ SemiDominator \/ Bucket \/ NextRound
    PROVE  UNCHANGED Known
<1>1. Search
  BY DEF IInv, Call, Ascend, AtRoot, Compress, SemiDominator, Bucket, NextRound, Found, Search
<1>2. SearchInv /\ idom[1] = 0
  BY <1>1, SearchOn DEF SearchInv, BucketInv
<1>3. /\ UNCHANGED <<f_graph, dfn>> /\ m_dominators' = m_dominators
      /\ m_dominance_frontier' = m_dominance_frontier /\ Block' = Block
  BY DEF Call, Ascend, AtRoot, Compress, SemiDominator, Bucket, NextRound, dfsVars, domVars,
         frontierVars, Block
<1>4. /\ dfn \in [Block -> Nat] /\ i \in Nat /\ i >= 2 /\ None' = None
      /\ \A b \in Block : dfn[b] >= 1 /\ (dfn[b] = 1 <=> b = 1)
      /\ ord(i) \in Block /\ dfn[ord(i)] = i /\ sdom \in [Block -> Block \cup {0}]
  <2>1. \A b \in Block : dfn[b] \in 1..co /\ (dfn[b] = 1 <=> b = 1)
    BY <1>2, TreeNumbers DEF SearchInv
  <2> QED  BY <1>2, <1>3, <2>1, SearchFacts DEF None, SearchInv, TypeOK
<1>5. pc' \in {"semi", "bucket", "idom"}
  BY <1>1 DEF Call, Ascend, AtRoot, Compress, SemiDominator, Bucket, NextRound, Round, Search
<1>6. UNCHANGED <<KnownDominated, KnownFrontier>>
  BY <1>1, <1>4, <1>5 DEF KnownDominated, KnownFrontier, Analysed, Search
<1>7. CASE ~NextRound /\ ~SemiDominator
  <2>1. pc' = pc /\ i' = i /\ sdom' = sdom
    BY <1>7 DEF Call, Ascend, AtRoot, Compress, Bucket
  <2>2. \A b \in Block : (SemiFound(b)' <=> SemiFound(b)) /\ ~IdomFound(b) /\ ~IdomFound(b)'
    BY <1>1, <1>3, <2>1 DEF SemiFound, IdomFound, TreeBuilt, Search
  <2> QED  BY <1>1, <1>3, <1>6, <2>1, <2>2, NothingNew DEF Search
<1>8. CASE SemiDominator
  <2>1. /\ pc = "semi" /\ pc' = "semi" /\ i' = i
        /\ sdom' = IF Less(mn[v], ord(i)) THEN [sdom EXCEPT ![ord(i)] = sdom[mn[v]]] ELSE sdom
    BY <1>8 DEF SemiDominator
  <2>2. \A b \in Block : (SemiFound(b)' <=> SemiFound(b)) /\ ~IdomFound(b) /\ ~IdomFound(b)'
    BY <1>3, <2>1 DEF SemiFound, IdomFound, TreeBuilt
  <2>3. \A b \in Block : SemiFound(b) => sdom'[b] = sdom[b]
    BY <1>4, <2>1 DEF SemiFound
  <2> QED  BY <1>3, <1>6, <2>1, <2>2, <2>3, NothingNew
<1>9. CASE NextRound
  <2>1. /\ pc = "bucket" /\ sdom' = sdom /\ idom' = idom
        /\ IF i - 1 >= 2 THEN pc' = "semi" /\ i' = i - 1 ELSE pc' = "idom" /\ i' = 2
    BY <1>9 DEF NextRound, Round
  <2>2. \A b \in Block : SemiFound(b)' <=> SemiFound(b)
    BY <1>3, <1>4, <2>1 DEF SemiFound
  <2>3. KnownSemi' = KnownSemi
    BY <1>3, <2>1, <2>2 DEF KnownSemi
  <2>4. \A b \in Block : IdomFound(b)' => b = 1
    BY <1>3, <1>4, <2>1 DEF IdomFound, TreeBuilt
  <2>5. KnownIdom' = Zero
    BY <1>2, <1>3, <2>1, <2>4 DEF KnownIdom, Zero
  <2>6. KnownIdom = Zero
    BY <2>1 DEF KnownIdom, IdomFound, TreeBuilt, Zero
  <2>7. KnownNumber' = KnownNumber
    BY <1>3, <2>1 DEF KnownNumber
  <2> QED  BY <1>3, <1>6, <2>3, <2>5, <2>6, <2>7 DEF Known
<1> QED  BY <1>7, <1>8, <1>9

\* When a vertex is linked, its semidominator is right.
LEMMA LinkImplements ==
    ASSUME IInv, SemiEnters, Link
    PROVE  ord(i) \in Block /\ Analysis!FindSemi(ord(i))
<1> DEFINE t == ord(i)
<1>1. pc = "semi" /\ todo = {} /\ SearchInv
  BY SearchOn DEF Link, Search
<1>2. /\ f_graph' = f_graph /\ dfn' = dfn /\ pc' = "bucket" /\ i' = i /\ sdom' = sdom
      /\ idom' = idom /\ m_dominators' = m_dominators
      /\ m_dominance_frontier' = m_dominance_frontier /\ Block' = Block
  BY DEF Link, dfsVars, domVars, frontierVars, Block
<1>3. /\ t \in Block \ {1} /\ dfn[t] = i /\ \A b \in Block : dfn[b] = i => b = t
      /\ dfn \in [Block -> Nat] /\ i \in Nat /\ 1 \in Block /\ dfn[1] = 1
      /\ sdom \in [Block -> Block \cup {0}] /\ sdom[t] \in Block
      /\ None' = None
  BY <1>1, <1>2, SearchFacts, TreeNumbers DEF SearchInv, TypeOK, None
<1> HIDE DEF t
<1>4. KnownNumber = dfn /\ KnownNumber' = dfn /\ dfn # Zero
  BY <1>1, <1>2, <1>3 DEF KnownNumber, Zero
<1>5. Analysis!IsSemi(sdom[t], t)
  <2>1. /\ Enters(sdom[t], t)
        /\ \A c \in Block : Enters(c, t) => dfn[sdom[t]] <= dfn[c]
    BY <1>1, SemiBest DEF t
  <2>2. \A c : Analysis!Enters(c, t) <=> Enters(c, t)
    BY <1>1, SameTerms
  <2> QED  BY <1>4, <2>1, <2>2, SameTerms DEF Analysis!IsSemi
<1>6. KnownSemi[t] = 0 /\ KnownSemi' = [KnownSemi EXCEPT ![t] = sdom[t]]
  <2>1. \A b \in Block : SemiFound(b)' <=> SemiFound(b) \/ b = t
    BY <1>1, <1>2, <1>3 DEF SemiFound
  <2>2. ~SemiFound(t)
    BY <1>1, <1>3 DEF SemiFound
  <2>3. KnownSemi' = [b \in Block |-> IF SemiFound(b) \/ b = t THEN sdom[b] ELSE 0]
    BY <1>2, <2>1 DEF KnownSemi
  <2> QED  BY <1>3, <2>2, <2>3 DEF KnownSemi
<1>7. KnownIdom' = KnownIdom
  BY <1>1, <1>2 DEF KnownIdom, IdomFound, TreeBuilt
<1>8. KnownDominated' = KnownDominated /\ KnownFrontier' = KnownFrontier
  BY <1>1, <1>2, <1>3 DEF KnownDominated, KnownFrontier, Analysed
<1>9. Analysis!FindSemi(t)
  BY <1>2, <1>3, <1>4, <1>5, <1>6, <1>7, <1>8, SameTerms DEF Analysis!FindSemi, Analysis!Numbered
<1> QED  BY <1>3, <1>9 DEF t

\* When the loop has passed a vertex, its immediate dominator is right.
LEMMA FixIdomImplements ==
    ASSUME IInv, Next, FixIdom
    PROVE  ord(i) \in Block /\ Analysis!FindIdom(ord(i))
<1> DEFINE t == ord(i)
<1>1. pc = "idom" /\ IdomInv /\ Tree /\ TypeOK /\ i <= co
  BY TreeOn DEF IInv, FixIdom
<1>2. /\ f_graph' = f_graph /\ dfn' = dfn /\ fa' = fa /\ co' = co /\ pc' = "idom" /\ i' = i + 1
      /\ sdom' = sdom /\ m_dominators' = m_dominators
      /\ m_dominance_frontier' = m_dominance_frontier /\ Block' = Block
      /\ idom' = IF idom[t] # sdom[t] THEN [idom EXCEPT ![t] = idom[idom[t]]] ELSE idom
  BY DEF FixIdom, dfsVars, domVars, frontierVars, Block
<1>3. /\ t \in Block \ {1} /\ dfn[t] = i /\ \A b \in Block : dfn[b] = i => b = t
      /\ dfn \in [Block -> Nat] /\ i \in Nat /\ idom \in [Block -> Block \cup {0}]
      /\ \A b \in Block \ {1} : sdom[b] \in Block
      /\ 0 \notin Block /\ None' = None
  <2>1. i \in 2..co /\ co \in Nat /\ Shape
    BY <1>1 DEF IdomInv, Tree, DfsTree, Shape
  <2>2. t \in Block /\ dfn[t] = i
    BY <1>1, <2>1, OrdNumber
  <2>3. \A b \in Block : sdom[b] \in Block
    BY <1>1, <2>1, AncBasics DEF IdomInv
  <2> QED  BY <1>1, <1>2, <2>1, <2>2, <2>3, TreeNumbers DEF Shape, TypeOK, None
<1> HIDE DEF t
<1>4. IdomInv'
  <2>1. IInv'
    BY NextIInv
  <2> QED  BY <1>2, <2>1 DEF IInv
<1>5. idom'[t] \in Block /\ IsIdom(idom'[t], t)
  <2>1. ASSUME NEW w \in Block \ {1}, dfn[w] = i
        PROVE  idom'[w] \in Block /\ IsIdom(idom'[w], w)
    <3>1. idom'[w] \in Block /\ IsIdom(idom[w], w)'
      BY <1>2, <1>3, <1>4, <2>1 DEF IdomInv
    <3>2. IsIdom(idom[w], w)' <=> IsIdom(idom'[w], w)
      BY <1>2 DEF IsIdom, StrictDom, Dom, Without, Avoiding, Block
    <3> QED  BY <3>1, <3>2
  <2> QED  BY <1>3, <2>1
<1>6. Analysis!IsIdom(idom'[t], t)
  BY <1>5, SameTerms
<1>7. KnownIdom[t] = 0 /\ KnownIdom' = [KnownIdom EXCEPT ![t] = idom'[t]]
  <2>1. \A b \in Block : IdomFound(b)' <=> IdomFound(b) \/ b = t
    BY <1>1, <1>2, <1>3 DEF IdomFound, TreeBuilt
  <2>2. ~IdomFound(t)
    BY <1>1, <1>3 DEF IdomFound, TreeBuilt
  <2>3. KnownIdom' = [b \in Block |-> IF IdomFound(b) \/ b = t THEN idom'[b] ELSE 0]
    BY <1>2, <2>1 DEF KnownIdom
  <2>4. \A b \in Block : b # t => idom'[b] = idom[b]
    BY <1>2, <1>3
  <2> QED  BY <1>3, <2>2, <2>3, <2>4 DEF KnownIdom
<1>8. KnownSemi' = KnownSemi /\ \A b \in Block \ {1} : KnownSemi[b] # 0
  BY <1>1, <1>2, <1>3 DEF KnownSemi, SemiFound
<1>9. KnownNumber' = KnownNumber /\ KnownDominated' = KnownDominated /\ KnownFrontier' = KnownFrontier
  BY <1>1, <1>2, <1>3 DEF KnownNumber, KnownDominated, KnownFrontier, Analysed
<1>10. Analysis!FindIdom(t)
  BY <1>2, <1>3, <1>5, <1>6, <1>7, <1>8, <1>9, SameTerms DEF Analysis!FindIdom, Analysis!Known
<1> QED  BY <1>3, <1>10 DEF t

\* The loops after, but for the two steps that end the walk of the tree and
\* the climbs.
LEMMA LoopImplements ==
    ASSUME IInv,
           \/ Attached \/ (\E c \in Block : Enter(c)) \/ Leave
           \/ (\E b \in Block : Edge(b)) \/ Climb \/ EdgeDone
           \/ NextBlock /\ pc' = "frontier"
    PROVE  UNCHANGED Known
<1>1. pc \in {"idom", "tree", "frontier"} /\ UNCHANGED <<f_graph, dfn, sdom, idom>>
  BY DEF Attached, Enter, Leave, Edge, Climb, EdgeDone, NextBlock, dfsVars
<1>2. None' = None
  BY <1>1 DEF None, Block
<1>3. CASE Attached
  <2>1. pc = "idom" /\ pc' = "tree" /\ i > co /\ IdomInv /\ Tree /\ i \in Nat /\ co \in Nat
    BY <1>3, TreeOn DEF IInv, Attached, TypeOK
  <2>2. \A b \in Block : dfn[b] < i
    BY <2>1, TreeNumbers
  <2>3. \A b \in Block : /\ SemiFound(b)' <=> SemiFound(b)
                         /\ IdomFound(b)' <=> IdomFound(b)
    BY <1>1, <2>1, <2>2 DEF SemiFound, IdomFound, TreeBuilt
  <2>4. UNCHANGED <<KnownDominated, KnownFrontier>>
    BY <1>2, <2>1 DEF KnownDominated, KnownFrontier, Analysed
  <2> QED  BY <1>1, <2>1, <2>3, <2>4, NothingNew
<1>4. CASE ~Attached
  <2>1. /\ pc \in {"tree", "frontier"} /\ pc' = pc
        /\ pc = "frontier" => m_dominators' = m_dominators
    BY <1>4 DEF Enter, Leave, Edge, Climb, EdgeDone, NextBlock, domVars
  <2>2. \A b \in Block : /\ SemiFound(b)' <=> SemiFound(b)
                         /\ IdomFound(b)' <=> IdomFound(b)
    BY <2>1 DEF SemiFound, IdomFound, TreeBuilt
  <2>3. UNCHANGED <<KnownDominated, KnownFrontier>>
    BY <1>2, <2>1 DEF KnownDominated, KnownFrontier, Analysed
  <2> QED  BY <1>1, <2>1, <2>2, <2>3, NothingNew
<1> QED  BY <1>3, <1>4

\* The walk of the tree has found what each block dominates.
LEMMA TreeWalkedImplements ==
    ASSUME IInv, Next, TreeWalked
    PROVE  Analysis!FindDominated
<1>1. pc = "tree" /\ ImmediateRight /\ Tree /\ 0 \notin Block
  BY TreeOn, TreeNumbers DEF IInv, TreeWalked
<1>2. /\ UNCHANGED <<f_graph, dfn, sdom, idom>> /\ pc' = "frontier"
      /\ m_dominators' = m_dominators /\ m_dominators' \in [Block' -> SUBSET Block'] /\ Block' = Block
      /\ DominatorsRight'
  <2>1. IInv'
    BY NextIInv
  <2> QED  BY <2>1 DEF IInv, TypeOK, TreeWalked, dfsVars, domVars, Block
<1>3. None' = None
  BY <1>2 DEF None
<1>4. KnownNumber = dfn /\ KnownNumber' = dfn /\ dfn # Zero
  BY <1>1, <1>2, TreeNumbers DEF KnownNumber, Zero
<1>5. KnownSemi' = KnownSemi
  BY <1>1, <1>2 DEF KnownSemi, SemiFound
<1>6. KnownIdom' = KnownIdom /\ \A b \in Block \ {1} : KnownIdom[b] # 0
  BY <1>1, <1>2 DEF KnownIdom, IdomFound, TreeBuilt, ImmediateRight
<1>7. KnownDominated = None /\ KnownDominated' = m_dominators /\ KnownFrontier' = KnownFrontier
  BY <1>1, <1>2, <1>3 DEF KnownDominated, KnownFrontier, Analysed
<1>8. \A a, b : Dom(a, b)' <=> Dom(a, b)
  BY <1>2 DEF Dom, Without, Avoiding, Block
<1>9. \A a \in Block : m_dominators[a] = {b \in Block : Dom(a, b)}
  BY <1>2, <1>8 DEF DominatorsRight
<1>10. m_dominators = [a \in Block |-> {b \in Block : Analysis!Dom(a, b)}]
  BY <1>2, <1>9, SameTerms
<1> QED  BY <1>2, <1>4, <1>5, <1>6, <1>7, <1>10, SameTerms
         DEF Analysis!FindDominated, Analysis!Numbered, Analysis!Known

\* The climbs have found the frontiers.
LEMMA NextBlockImplements ==
    ASSUME IInv, Next, NextBlock, pc' = "done"
    PROVE  Analysis!FindFrontiers
<1>1. /\ pc = "frontier" /\ DominatorsRight /\ f_graph \in Graphs /\ 1 \in Block
      /\ m_dominance_frontier \in [Block -> SUBSET Block]
  BY GraphShape DEF IInv, TypeOK, NextBlock
<1>2. /\ UNCHANGED <<f_graph, dfn, sdom, idom, m_dominators, m_dominance_frontier>> /\ Block' = Block
      /\ FrontierRight'
  <2>1. IInv'
    BY NextIInv
  <2> QED  BY <2>1 DEF IInv, NextBlock, dfsVars, domVars, frontierVars, Block
<1>3. KnownNumber' = KnownNumber /\ KnownSemi' = KnownSemi /\ KnownIdom' = KnownIdom
  BY <1>1, <1>2 DEF KnownNumber, KnownSemi, SemiFound, KnownIdom, IdomFound, TreeBuilt
<1>4. KnownDominated = m_dominators /\ KnownDominated' = m_dominators /\ m_dominators # None
  <2>1. 1 \in m_dominators[1]
    BY <1>1, DomReflexive DEF DominatorsRight
  <2> QED  BY <1>1, <1>2, <2>1 DEF KnownDominated, None
<1>5. KnownFrontier = None /\ KnownFrontier' = m_dominance_frontier
  BY <1>1, <1>2 DEF KnownFrontier, Analysed
<1>6. ASSUME NEW a \in Block
      PROVE  m_dominance_frontier[a] = Analysis!Ends(a)
  <2>1. m_dominance_frontier[a] = {b \in Block \ {a} : ~StrictDom(a, b)
                                       /\ \E p \in Predecessors(b) : Dom(a, p)}
    <3>1. /\ \A b, c : (Dom(b, c)' <=> Dom(b, c)) /\ (StrictDom(b, c)' <=> StrictDom(b, c))
          /\ \A b : Predecessors(b)' = Predecessors(b)
      BY <1>2 DEF StrictDom, Dom, Without, Avoiding, Predecessors, Block
    <3> QED  BY <1>2, <3>1 DEF FrontierRight, Analysed
  <2> QED  BY <2>1, SameTerms DEF Analysis!Ends, Predecessors
<1>7. m_dominance_frontier = [a \in Block |-> Analysis!Ends(a)]
  BY <1>1, <1>6
<1> QED  BY <1>2, <1>3, <1>4, <1>5, <1>7, SameTerms DEF Analysis!FindFrontiers

\* The analysis of dom.cpp implements its specification, on every flow graph and
\* in every order of successors, predecessors and buckets: the numbering is that
\* of a depth first search, each semidominator is right when its vertex is
\* linked and each immediate dominator when the loop of line 126 has passed it,
\* the dominated sets and the frontiers are right when they are complete, and no
\* result changes once it is there.
THEOREM AnalysisImplements == Spec => ImplementsDominance
<1>1. Init => IInv /\ SemiEnters
  BY InitIInv DEF Init, SemiEnters, Search
<1>2. IInv /\ SemiEnters /\ [Next]_vars => IInv' /\ SemiEnters'
  BY NextIInv, SemiEntersNext
<1>3. Init => Analysis!Init
  BY InitImplements
<1>4. IInv /\ SemiEnters /\ [Next]_vars => [Analysis!Next]_Analysis!vars
  <2> SUFFICES ASSUME IInv, SemiEnters, [Next]_vars
               PROVE  Analysis!Next \/ UNCHANGED Known
    BY DEF Known, Analysis!vars
  <2>1. CASE UNCHANGED vars
    BY <2>1 DEF vars, dfsVars, findVars, domVars, frontierVars, Known, KnownNumber, KnownSemi,
                KnownIdom, KnownDominated, KnownFrontier, SemiFound, IdomFound, TreeBuilt, Analysed,
                Zero, None, Block
  <2>2. CASE Next
    <3>1. CASE Numbered
      BY <3>1, NumberedImplements DEF Analysis!Next
    <3>2. CASE Link
      BY <3>2, LinkImplements, SameTerms DEF Analysis!Next
    <3>3. CASE FixIdom
      BY <2>2, <3>3, FixIdomImplements, SameTerms DEF Analysis!Next
    <3>4. CASE TreeWalked
      BY <2>2, <3>4, TreeWalkedImplements DEF Analysis!Next
    <3>5. CASE NextBlock
      <4>1. pc' \in {"frontier", "done"}
        BY <3>5 DEF NextBlock
      <4> QED  BY <2>2, <3>5, <4>1, NextBlockImplements, LoopImplements DEF Analysis!Next
    <3> QED  BY <2>1, <2>2, <3>1, <3>2, <3>3, <3>4, <3>5, VisitImplements, RoundImplements,
                LoopImplements DEF Next, Done
  <2> QED  BY <2>1, <2>2
<1> QED  BY <1>1, <1>2, <1>3, <1>4, PTL DEF Spec, ImplementsDominance, Analysis!Spec
=============================================================================
