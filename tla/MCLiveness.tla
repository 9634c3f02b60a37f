----------------------------- MODULE MCLiveness -----------------------------
(***************************************************************************)
(* Every control-flow graph of up to three blocks with at most two         *)
(* successors each, loops and unreachable blocks included, and every way   *)
(* to use and define an operand in a block.                                *)
(***************************************************************************)
EXTENDS Liveness

Operands == {1}

\* Operand 1, and operand 2 of the other register type.
Bodies ==
    { <<>>,
      << Op({2}, {1}) >>,
      << Op({1}, {2}) >>,
      << Op({1}, {1}) >>,
      << Op({1}, {}), Op({}, {1}) >>,
      << [Op({1}, {}) EXCEPT !.isDeleted = TRUE] >> }

AllBlocks(n) ==
    [insts : Bodies, succ : {s \in SUBSET (1..n) : Cardinality(s) <= 2}]

AllPrograms == UNION {[1..n -> AllBlocks(n)] : n \in 1..3}
=============================================================================
