----------------------------- MODULE Dominance ------------------------------
(***************************************************************************)
(* Dominators by Lengauer and Tarjan's algorithm, and dominance frontiers  *)
(* (src/ir/pass/dom.cpp).  Blocks are numbered in list order from 1; succ  *)
(* is the list of successor numbers of each, as in f_graph.  s is the      *)
(* state of the algorithm's global arrays; 0 is an entry not written yet.  *)
(***************************************************************************)
EXTENDS CfgCleanup
LOCAL INSTANCE SequencesExt

RECURSIVE Tarjan(_, _, _), Find(_, _), DomDfs(_, _, _, _)

(* Depth first numbering.                                                  *)
Tarjan(succ, s, u) ==
    LET Visit(t, v) == IF t.dfn[v] # 0 THEN t
                       ELSE Tarjan(succ, [t EXCEPT !.fa[v] = u], v)
        n == s.co + 1
    IN Each(Visit, [s EXCEPT !.co = n, !.dfn[u] = n, !.ord[n] = u], succ[u])

(* Union-find with path compression: mn[u] is the vertex with the least    *)
(* semidominator between u and the root.                                   *)
\* Mutant: the path is compressed, but the vertices on it are not compared.
FindParent(s, u) ==
    IF s.ufs[u] = u THEN s
    ELSE LET t == Find(s, s.ufs[u]) IN [t EXCEPT !.ufs[u] = t.ufs[s.ufs[u]]]
Find(s, u) ==
    IF s.ufs[u] = u THEN s
    ELSE LET p == s.ufs[u]
             t == Find(s, p) IN
         With(t.dfn[t.sdom[t.mn[p]]] < t.dfn[t.sdom[t.mn[u]]], LAMBDA better :
         [t EXCEPT !.mn[u] = IF better THEN t.mn[p] ELSE @, !.ufs[u] = t.ufs[p]])

(* One round of the main loop, for the vertex with depth first number i.   *)
SemiDominator(back, s, i) ==
    LET t == s.ord[i]
        Semi(k, v) == IF k.dfn[v] = 0 THEN k
                      ELSE With(Find(k, v), LAMBDA h :
                           With(h.sdom[h.mn[v]], LAMBDA d :
                           IF h.dfn[d] < h.dfn[h.sdom[t]] THEN [h EXCEPT !.sdom[t] = d] ELSE h))
        p == s.fa[t]
        Bucket(k, v) == With(Find(k, v), LAMBDA h :
                        [h EXCEPT !.idom[v] = IF p = h.sdom[h.mn[v]] THEN p ELSE h.mn[v]]) IN
    With(Each(Semi, s, back[t]), LAMBDA a :
    With([a EXCEPT !.ufs[t] = p, !.aux[a.sdom[t]] = Append(@, t)], LAMBDA b :
    [Each(Bucket, b, b.aux[p]) EXCEPT !.aux[p] = <<>>]))

(* The second round, for a vertex whose dominator is that of another one.  *)
FixIdom(s, i) ==
    LET t == s.ord[i] IN
    IF s.idom[t] = s.sdom[t] THEN s ELSE [s EXCEPT !.idom[t] = s.idom[@]]

ImmediateDominators(succ) ==
    LET V == DOMAIN succ
        zero == [v \in V |-> 0]
        self == [v \in V |-> v]
        edges == {<<u, v>> \in V \X V : \E n \in DOMAIN succ[u] : succ[u][n] = v}
        back == [v \in V |-> SelectSeq([n \in V |-> n], LAMBDA u : <<u, v>> \in edges)] IN
    With(Tarjan(succ, [dfn |-> zero, ord |-> zero, fa |-> zero, co |-> 0, idom |-> zero,
                       sdom |-> self, ufs |-> self, mn |-> self,
                       aux |-> [v \in V |-> <<>>]], 1), LAMBDA s :
    With([n \in 1..(s.co - 1) |-> s.co + 1 - n], LAMBDA down :
    With(Each(LAMBDA k, i : SemiDominator(back, k, i), s, down), LAMBDA a :
    Each(FixIdom, a, Reverse(down)).idom)))

(* m_dominators (the blocks that a block dominates) and m_dom_depth.       *)
DomDfs(kids, d, u, depth) ==
    LET Child(e, c) == LET r == DomDfs(kids, e, c, depth + 1) IN
                       [r EXCEPT !.doms[u] = @ \cup r.doms[c]]
    IN Each(Child, [d EXCEPT !.doms[u] = {u}, !.depth[u] = depth], kids[u])

ComputeDominanceRelationship(f0) ==
    With(RemoveUnusedBasicBlocks(f0), LAMBDA f :
    With(DOMAIN f.order, LAMBDA V :
    LET Id(b) == CHOOSE n \in V : f.order[n] = b IN
    With([n \in V |-> [k \in DOMAIN Successors(f, f.order[n]) |->
                         Id(Successors(f, f.order[n])[k])]], LAMBDA succ :
    With(ImmediateDominators(succ), LAMBDA idom :
    With([u \in V |-> SelectSeq([n \in V |-> n], LAMBDA v : idom[v] = u)], LAMBDA kids :
    With(DomDfs(kids, [doms |-> [v \in V |-> {}], depth |-> [v \in V |-> 0]], 1, 1), LAMBDA d :
    LET OfBlock(old, new(_)) == [b \in DOMAIN old |-> IF b \in Blocks(f) THEN new(Id(b)) ELSE old[b]] IN
    [UpdatePredecessors(f) EXCEPT
         !.idom = OfBlock(@, LAMBDA n : IF idom[n] = 0 THEN 0 ELSE f.order[idom[n]]),
         !.doms = OfBlock(@, LAMBDA n : {f.order[k] : k \in d.doms[n]}),
         !.depth = OfBlock(@, LAMBDA n : d.depth[n])]))))))

Dominates(f, a, b) == b \in f.doms[a]
(* Up the dominator tree from the source of each edge to the first block   *)
(* that dominates its target: the blocks passed, the target itself apart.  *)
RECURSIVE Climb(_, _, _)
Climb(f, x, b) ==
    IF x = 0 \/ (x # b /\ Dominates(f, x, b)) THEN {}
    ELSE {x} \cup Climb(f, f.idom[x], b)
ComputeDominanceFrontier(f) ==
    LET edges == {<<a, b>> \in Blocks(f) \X Blocks(f) : b \in SuccessorSet(f, a)}
    IN [f EXCEPT !.df = [x \in DOMAIN @ |->
            @[x] \cup {e[2] : e \in {e \in edges : x # e[2] /\ x \in Climb(f, e[1], e[2])}}]]
=============================================================================
