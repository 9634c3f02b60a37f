---------------------------- MODULE Reachability -----------------------------
(***************************************************************************)
(* What a vertex of a graph, a function from vertices to the sets of their *)
(* successors, reaches.                                                    *)
(***************************************************************************)

(* No edge leads out of S.                                                 *)
Closed(R, S) == \A s \in S : R[s] \subseteq S

(* The least set with y0 that R does not lead out of.                      *)
Reach(R, y0) ==
    LET closed == {S \in SUBSET DOMAIN R : y0 \in S /\ Closed(R, S)}
    IN {y \in DOMAIN R : \A S \in closed : y \in S}
=============================================================================
