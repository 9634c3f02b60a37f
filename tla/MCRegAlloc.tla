----------------------------- MODULE MCRegAlloc -----------------------------
(***************************************************************************)
(* Instances of RegAlloc for TLC.  Spill programs run with registers 0 and *)
(* 1 to give out, 1 also in the role of R12, and SP = 2; copy programs     *)
(* with 0..2, 2 in the role of R12, and SP = 3.  The functions are small   *)
(* enough for every order of the worklists to be explored.                 *)
(***************************************************************************)
EXTENDS RegAlloc

Block(insts, succ) == [insts |-> insts, succ |-> succ]
Ret == Op({}, {0})     \* BX LR with the result in R0

\* Three values live at once: one has to be spilled.
Pressure ==
    << Block(<< Op({4}, {}), Op({5}, {}), Op({6}, {}),
                Op({}, {6}), Op({}, {5}), Op({}, {4}) >>, {}) >>

\* The same, where the spilled value is copied.
CopyPressure ==
    << Block(<< ParamMov(4, 0, 1), Op({5}, {}), Mov(6, 4), Op({}, {5}), Op({}, {4, 6}) >>, {}) >>

\* A copy under pressure: not safe to coalesce until its neighbours are gone.
DeferredCopy ==
    << Block(<< Op({4}, {}), Op({5}, {}), Mov(6, 4), Op({7}, {}),
                Op({}, {7, 6}), Op({}, {5}) >>, {}) >>

\* A stack parameter, 3, loaded through R12 (1) as ASM_Builder::setParams does.
ParamPressure ==
    << Block(<< Op({3, 1}, {2}), Op({4}, {}), Op({5}, {}),
                Op({}, {4}), Op({}, {5}), Op({}, {3}) >>, {}) >>

\* Copies of copies and moves to and from registers.
Copies ==
    << Block(<< ParamMov(4, 0, 2), Mov(5, 4), Mov(6, 5), Op({7}, {6, 4}), Mov(8, 7),
                Mov(0, 8), Ret >>, {}) >>

\* A loop with two phis swapped on the back edge, as GeneratePhi lowers it:
\* 4 and 5 are the phis, 6 and 7 the temporaries.
SwapLoop ==
    << Block(<< ParamMov(6, 0, 2), ParamMov(7, 1, 2) >>, {2}),
       Block(<< Mov(4, 6), Mov(5, 7), Mov(6, 5), Mov(7, 4) >>, {2, 3}),
       Block(<< Mov(0, 4), Ret >>, {}) >>

\* A diamond whose arms copy into the same operand.
Diamond ==
    << Block(<< Op({4}, {}), Op({5}, {}) >>, {2, 3}),
       Block(<< Mov(6, 4), Op({7}, {6, 5}) >>, {4}),
       Block(<< Mov(6, 5), Mov(7, 6) >>, {4}),
       Block(<< Op({8}, {6, 7}), Mov(0, 8), Ret >>, {}) >>

\* 10 is fed by 8 on one path and by 9 on another, next to a clique 4..7 of
\* significant nodes: one copy is coalesced, the other has to be frozen.
FrozenPhi ==
    << Block(<< Op({4}, {}), Op({5}, {}), Op({6}, {}), Op({7}, {}),
                Op({}, {4, 5}), Op({}, {6, 7}) >>, {2, 3}),
       Block(<< Op({8}, {}), Op({4}, {}), Op({5}, {}), Op({}, {4, 5}), Mov(10, 8) >>, {4}),
       Block(<< Op({9}, {}), Op({6}, {}), Op({7}, {}), Op({}, {6, 7}), Mov(10, 9) >>, {4}),
       Block(<< Op({}, {10}) >>, {}) >>

\* Float allocation: 3 is an integer operand that is converted into the
\* float operand 4 (VMOV and VCVT of GenerateSIToFP) under pressure.
Conversion ==
    << Block(<< Op({3}, {}), Op({5}, {}), Op({6}, {}), Mov(4, 3), Op({4}, {4}),
                Op({}, {5}), Op({}, {6}), Op({}, {4}), Op({}, {3}) >>, {}) >>

SpillPrograms == {Pressure, CopyPressure, DeferredCopy, ParamPressure}
FloatPrograms == {Conversion}
CopyPrograms  == {Copies, SwapLoop, Diamond, FrozenPhi}

AllClass    == 0..20
SmallClass  == 0..10
FloatClass  == AllClass \ {2, 3}   \* SP and the integer operand are not floats
TwoRegs     == 0..2
TwoColors   == 0..1
ThreeRegs   == 0..3
ThreeColors == 0..2
=============================================================================
