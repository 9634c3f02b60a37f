---------------------------- MODULE DominanceSpec ----------------------------
(***************************************************************************)
(* What the analysis of dom.cpp promises, whatever it computes with: a     *)
(* depth first numbering, then for each block, in any order, the           *)
(* semidominator and after these the immediate dominator, then what each   *)
(* block dominates and the frontiers.  Every result is found in one step,  *)
(* is right by its definition on the paths of the flow graph, and stays.   *)
(*                                                                         *)
(* Blocks are named 1 (the entry), 2 and so on, so a numbering of them is  *)
(* a permutation.                                                          *)
(***************************************************************************)
EXTENDS Naturals, Reachability

VARIABLES graph,        \* the flow graph: block |-> the set of its successors
          number,       \* depth first numbers, 0 before they are given
          semi, idom,   \* semidominators and immediate dominators, 0 for none
          dominated, frontier
vars == <<graph, number, semi, idom, dominated, frontier>>

Block == DOMAIN graph
Zero == [b \in Block |-> 0]
None == [b \in Block |-> {}]

(* What a depth first search may number: when b comes between a and a      *)
(* successor of a, the search is still below a, so b was entered from a or *)
(* from a later block.                                                     *)
DepthFirst(n) ==
    /\ n[1] = 1
    /\ \A a, b \in Block : n[a] = n[b] => a = b
    /\ \A a, b \in Block : \A c \in graph[a] :
           n[a] < n[b] /\ n[b] < n[c] =>
           \E d \in Block : n[a] <= n[d] /\ n[d] < n[b] /\ b \in graph[d]

(* A path from c comes to w over higher numbers than that of w alone; the  *)
(* semidominator is the block with the least number that one comes from.   *)
Over(w) == [b \in Block |-> {c \in graph[b] : number[w] < number[c]}]
Enters(c, w) == \E s \in Reach(Over(w), c) : w \in graph[s]
IsSemi(s, w) == Enters(s, w) /\ \A c \in Block : Enters(c, w) => number[s] <= number[c]

(* No path from the entry comes to b without a.                            *)
Without(a) == [b \in Block |-> graph[b] \ {a}]
Dom(a, b) == a # 1 => b \notin Reach(Without(a), 1)
StrictDom(a, b) == a # b /\ Dom(a, b)
IsIdom(a, b) == StrictDom(a, b) /\ \A c \in Block : StrictDom(c, b) => Dom(c, a)

(* Where the dominance of a ends, a itself left out.                       *)
Ends(a) == {b \in Block \ {a} : ~StrictDom(a, b) /\ \E p \in Block : b \in graph[p] /\ Dom(a, p)}

-----------------------------------------------------------------------------
Init ==
    /\ graph \in [Block -> SUBSET Block] /\ Reach(graph, 1) = Block
    /\ number = Zero /\ semi = Zero /\ idom = Zero
    /\ dominated = None /\ frontier = None

Numbered == number # Zero
Known(result) == \A b \in Block \ {1} : result[b] # 0

Number ==
    /\ ~Numbered
    /\ number' \in [Block -> Block]
    /\ DepthFirst(number')
    /\ UNCHANGED <<graph, semi, idom, dominated, frontier>>

FindSemi(w) ==
    /\ Numbered /\ w # 1 /\ semi[w] = 0
    /\ \E s \in Block : semi' = [semi EXCEPT ![w] = s] /\ IsSemi(s, w)
    /\ UNCHANGED <<graph, number, idom, dominated, frontier>>

FindIdom(w) ==
    /\ Known(semi) /\ w # 1 /\ idom[w] = 0
    /\ \E a \in Block : idom' = [idom EXCEPT ![w] = a] /\ IsIdom(a, w)
    /\ UNCHANGED <<graph, number, semi, dominated, frontier>>

FindDominated ==
    /\ Numbered /\ Known(idom) /\ dominated = None
    /\ dominated' = [a \in Block |-> {b \in Block : Dom(a, b)}]
    /\ UNCHANGED <<graph, number, semi, idom, frontier>>

FindFrontiers ==
    /\ dominated # None /\ frontier = None
    /\ frontier' = [a \in Block |-> Ends(a)]
    /\ UNCHANGED <<graph, number, semi, idom, dominated>>

Next ==
    \/ Number
    \/ \E w \in Block : FindSemi(w) \/ FindIdom(w)
    \/ FindDominated
    \/ FindFrontiers

Spec == Init /\ [][Next]_vars
=============================================================================
