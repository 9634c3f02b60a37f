------------------------------ MODULE AsmFixed ------------------------------
(***************************************************************************)
(* What main does to a function once registers are allocated               *)
(* (src/asm/asm-fixed.cpp), and how it is written out (asm-export.cpp):    *)
(* fixedParamsOffs gives the loads of the parameters that the caller left  *)
(* on the stack their final offset, now that the size of the frame is      *)
(* known, and generateLiteralPool walks backwards over the function and    *)
(* puts a literal pool behind loads of labels that are too far from one.   *)
(*                                                                         *)
(* A function is [local, push, fpush, params, code]: the bytes of its      *)
(* local variables, how many registers it saves, the loads of stack        *)
(* parameters and what remains of its instructions, of all blocks in       *)
(* layout order, when the pools are placed.  Places of pools are gaps in   *)
(* code: a pool at n is between instructions n and n + 1.                  *)
(***************************************************************************)
EXTENDS Integers, Sequences, FiniteSets

CONSTANTS Functions,
          POOL_RANGE,
          Reach          \* words between a load of a label and its literal

Kinds == {"label", "wide", "plain", "deleted"}
Param == [offs : Nat, moved : Nat, deleted : BOOLEAN]

(* Assumed of the functions: no load of a label is the last instruction of *)
(* its block.  The address it yields is used in the same block, so that    *)
(* holds unless the user is the MOV of a zero offset (GenerateGEP), erased *)
(* once coalesced, and nothing comes after it.  A load takes one word, no  *)
(* instruction more than two, and Epilogue words follow the code.          *)
Epilogue == 5
Function ==
    [local : Nat, push : Nat, fpush : Nat, params : Seq(Param), code : Seq(Kinds)]
ASSUME FunctionsAssumption == Functions \subseteq Function
ASSUME UseFollowsLabel ==
    \A f \in Functions : \A n \in DOMAIN f.code : f.code[n] = "label" => n < Len(f.code)
ASSUME RangeAssumption == POOL_RANGE \in Nat /\ Reach \in Nat /\ POOL_RANGE >= 2
                             /\ 2 * (POOL_RANGE - 1) + Epilogue <= Reach

VARIABLES func,
          loads,         \* the parameter loads that have been fixed
          i,             \* the next instruction of the walk, backwards
          inst_pos, pool_pos,
          pools
vars == <<func, loads, i, inst_pos, pool_pos, pools>>

-----------------------------------------------------------------------------
(* The frame, as exportASM subtracts it from SP and as fixedParamsOffs     *)
(* expects it, saved registers included.                                   *)
Align8(n) == IF n % 8 # 0 THEN (n - (n % 8)) + 8 ELSE n
PushSize(f) == f.push + f.fpush
Padding(f) == IF PushSize(f) % 2 # 0 THEN 4 ELSE 0
FrameSize(f) == Align8(f.local) + Padding(f)
\* Mutant: the size of the locals is not rounded up.
StackSizeUnaligned(f) == f.local + Padding(f) + 4 * PushSize(f)
StackSize(f) == Align8(f.local) + Padding(f) + 4 * PushSize(f)

ParamsFixed == Len(loads) = Len(func.params)
(* moved is how far an argument sequence, at this instruction, has moved   *)
(* SP.  An offset too large for the instruction takes R12: SP + offs is    *)
(* read in every case.                                                     *)
FixParam ==
    /\ ~ParamsFixed
    /\ LET p == func.params[Len(loads) + 1]
       IN loads' = Append(loads, p.offs + p.moved + (IF p.deleted THEN 0 ELSE StackSize(func)))
    /\ UNCHANGED <<func, i, inst_pos, pool_pos, pools>>

-----------------------------------------------------------------------------
\* Mutant: only the loads that need a pool are counted.
CountedLabels(n) == func.code[n] = "label"
Counted(n) == func.code[n] # "deleted"
\* Mutant: one instruction further on.
PoolGapLate(n) == n + 2
PoolGap(n) == n + 1
NeedsPool(n) == func.code[n] = "label" /\ inst_pos + 1 - pool_pos > POOL_RANGE

Skip == /\ ParamsFixed /\ i > 0 /\ ~Counted(i)
        /\ i' = i - 1
        /\ UNCHANGED <<func, loads, inst_pos, pool_pos, pools>>
Count == /\ ParamsFixed /\ i > 0 /\ Counted(i) /\ ~NeedsPool(i)
         /\ i' = i - 1 /\ inst_pos' = inst_pos + 1
         /\ UNCHANGED <<func, loads, pool_pos, pools>>
PlacePool == /\ ParamsFixed /\ i > 0 /\ Counted(i) /\ NeedsPool(i)
             /\ i' = i - 1 /\ inst_pos' = inst_pos + 1
             /\ pool_pos' = inst_pos + 1
             /\ pools' = pools \cup {PoolGap(i)}
             /\ UNCHANGED <<func, loads>>

Init == /\ func \in Functions /\ loads = <<>>
        /\ i = Len(func.code) /\ inst_pos = 0 /\ pool_pos = 0 /\ pools = {}
Next == FixParam \/ Skip \/ Count \/ PlacePool
Spec == Init /\ [][Next]_vars

-----------------------------------------------------------------------------
TypeOK ==
    /\ func \in Function
    /\ loads \in Seq(Nat) /\ Len(loads) <= Len(func.params)
    /\ i \in 0..Len(func.code)
    /\ inst_pos \in Nat /\ pool_pos \in 0..inst_pos
    /\ pools \subseteq 1..(Len(func.code) - 1)

(* A parameter is read from where the caller stored it, offs above SP at   *)
(* the call: the frame that exportASM subtracts and the one the offsets    *)
(* account for are the same, whatever was pushed, rounded and spilled.     *)
SP(p) == 0 - 4 * PushSize(func) - FrameSize(func) - p.moved
ParamsFound ==
    \A k \in DOMAIN loads :
        LET p == func.params[k] IN ~p.deleted => SP(p) + loads[k] = p.offs

(* The literal of a load is in the next pool behind it, with those of the  *)
(* loads before it that share the pool; the last pool is behind the        *)
(* epilogue, each other one behind the branch around it.                   *)
In(a, b, kinds) == {n \in a..b : func.code[n] \in kinds}
Live(a, b) == In(a, b, Kinds \ {"deleted"})
NextPool(n, g) == g \in pools \cup {Len(func.code)} /\ g >= n /\ \A p \in pools : p >= n => p >= g
Sharing(n, g) == {m \in In(1, n - 1, {"label"}) : NextPool(m, g)}
Words(n, g) ==
    Cardinality(Live(n + 1, g)) + Cardinality(In(n + 1, g, {"wide"})) + Cardinality(Sharing(n, g))
        + (IF g = Len(func.code) THEN Epilogue ELSE 1)

(* No load of a label is further from its literal than the instruction can *)
(* reach, however many wide instructions, deleted ones and pools are       *)
(* between.                                                                *)
LiteralsInReach ==
    (ParamsFixed /\ i = 0) =>
        \A n \in In(1, Len(func.code), {"label"}) : \E g \in 1..Len(func.code) :
            NextPool(n, g) /\ Words(n, g) <= Reach
=============================================================================
