-------------------------- MODULE AsmOptimization --------------------------
(***************************************************************************)
(* The passes over the selected instructions before registers are          *)
(* allocated (src/asm/asm-optimization.cpp, optimizeTemp): jumps to the    *)
(* next block and to other jumps, blocks that nothing reaches and, with    *)
(* -O, additions of a product or a shift, and results that nothing reads.  *)
(***************************************************************************)
EXTENDS Assembly
LOCAL INSTANCE SequencesExt

OnEachFunction(Do(_), m) == [m EXCEPT !.fn = [g \in DOMAIN @ |-> Do(@[g])]]

(* pos = 0, end(), for a block without a branch from here on.              *)
LastBranch(a, b) == a.pos[b] = Len(a.body[b])
EraseAt(s, n) == SubSeq(s, 1, n - 1) \o SubSeq(s, n + 1, Len(s))
(* The branch to the next block goes; when it was the conditional one, the *)
(* other takes the opposite condition.                                     *)
DropJump(a, b, next) ==
    LET p == a.pos[b]
        cond == Opposite(a.body[b][p].cond)
    IN IF p = 0 THEN a
       ELSE IF a.body[b][p].tgt = next
       THEN IF LastBranch(a, b) THEN [a EXCEPT !.body[b] = EraseAt(@, p), !.pos[b] = 0]
            ELSE [a EXCEPT !.body[b] = EraseAt([@ EXCEPT ![p + 1].cond = cond], p)]
       ELSE IF ~LastBranch(a, b) /\ a.body[b][p + 1].tgt = next
       THEN [a EXCEPT !.body[b] = EraseAt(@, p + 1), !.pos[b] = 0]
       ELSE a

Without(s, x) == SelectSeq(s, LAMBDA y : y # x)
(* A branch to a block that begins with a jump goes where that jump goes.  *)
\* Mutant: the edges stay as they are.
SwitchTargetOnly(a, b, n) ==
    LET old == a.body[b][n].tgt IN
    IF a.body[old] # <<>> /\ IsBranch(a.body[old][1]) /\ a.body[old][1].cond = "none"
    THEN [a EXCEPT !.body[b][n].tgt = a.body[old][1].tgt] ELSE a
SwitchTargetBlock(a, b, n) ==
    LET old == a.body[b][n].tgt
        first == a.body[old][1]
        new == first.tgt
        cut == [a EXCEPT !.body[b][n].tgt = new, !.succ[b] = Without(@, old),
                         !.pred[old] = Without(@, b)]
    IN IF a.body[old] # <<>> /\ IsBranch(first) /\ first.cond = "none"
       THEN [cut EXCEPT !.succ[b] = Append(@, new), !.pred[new] = Append(@, b)]
       ELSE a
SwitchTargets(a, b) ==
    LET p == a.pos[b]
        one == SwitchTargetBlock(a, b, p)
    IN IF p = 0 THEN a ELSE IF LastBranch(a, b) THEN one ELSE SwitchTargetBlock(one, b, p + 1)

RECURSIVE UntilSame(_, _)
UntilSame(Do(_), a) == LET b == Do(a) IN IF b = a THEN a ELSE UntilSame(Do, b)

EliminateRedundantJump(f) ==
    LET pairs == [n \in 1..(Len(f.order) - 1) |-> <<f.order[n], f.order[n + 1]>>]
        dropped == Each(LAMBDA a, p : DropJump(a, p[1], p[2]), f, pairs)
    IN UntilSame(LAMBDA a : Each(SwitchTargets, a, f.order), dropped)

RemoveUnreachableBlock(f) ==
    LET Drop(a, b) ==
            IF b \in {f.order[1], f.order[Len(f.order)]} \/ a.pred[b] # <<>> THEN a
            ELSE [a EXCEPT !.order = Without(@, b),
                           !.pred = [s \in DOMAIN @ |->
                                        IF s \in SeqRange(a.succ[b]) THEN Without(@[s], b) ELSE @[s]]]
    IN UntilSame(LAMBDA a : Each(Drop, a, a.order), f)

-----------------------------------------------------------------------------
(* products maps a register to the last multiplication or shift into it    *)
(* that the block had so far, whatever has happened to its operands since. *)
Added(i, k) == i.srcs[IF i.srcs[1] = k THEN 2 ELSE 1]
Combined(i, k, product) ==
    IF product.op = "MUL" THEN Asm("MLA", i.dest, product.srcs \o <<Added(i, k)>>)
    ELSE [Asm("ADD", i.dest, <<Added(i, k), product.srcs[1]>>)
            EXCEPT !.shift = <<product.op, product.srcs[2][2]>>]
CombineOne(s, i) ==
    LET known == {n \in DOMAIN i.srcs : i.srcs[n] \in DOMAIN s.products}
        k == i.srcs[CHOOSE n \in known : \A p \in known : n <= p]
        isProduct == i.op \in {"MUL", "LSL", "ASR"} /\ IsVReg(i.dest)
    IN IF i.op = "ADD" /\ IsVReg(i.srcs[2]) /\ i.shift = <<>> /\ known # {}
       THEN [s EXCEPT !.out = Append(@, Combined(i, k, s.products[k]))]
       ELSE [out |-> Append(s.out, i),
             products |-> IF isProduct THEN (i.dest :> i) @@ s.products ELSE s.products]
CombineInstruction(f) ==
    [f EXCEPT !.body = [b \in DOMAIN @ |->
        Each(CombineOne, [out |-> <<>>, products |-> <<>>], @[b]).out]]

-----------------------------------------------------------------------------
(* What an instruction reads and writes, as addUse and addDef record it.   *)
UsesOf(i) == {o \in SeqRange(i.srcs) : o[1] # "int"}
DefsOf(i) == IF i.op = "BL" THEN {Reg(r) : r \in {"R0", "R1", "R2", "R3", "R12", "LR"}}
           ELSE ({i.dest} \ {NoDest}) \cup (IF i.r12 THEN {Reg("R12")} ELSE {})

(* A block defines what it does not read before.                           *)
BlockLiveness(body) ==
    LET One(s, i) == LET used == s.use \cup (UsesOf(i) \ s.def)
                     IN [use |-> used, def |-> s.def \cup (DefsOf(i) \ used)]
    IN Each(One, [use |-> {}, def |-> {}], body)
LiveOut(f) ==
    LET local == [b \in SeqRange(f.order) |-> BlockLiveness(f.body[b])]
        In(b, out) == local[b].use \cup (out[b] \ local[b].def)
        Step(out) == [b \in DOMAIN out |-> UNION {In(s, out) : s \in SeqRange(f.succ[b])}]
    IN UntilSame(Step, [b \in DOMAIN local |-> {}])

(* Backwards over a block; the live set is that after the instruction.     *)
\* Mutant: what an instruction writes is taken out after what it reads is put in.
DeleteReads(s, i) ==
    LET used == DefsOf(i) = {} \/ \E d \in DefsOf(i) : d \in s.live \/ ~IsVReg(d)
    IN IF i.op = "BL" THEN [live |-> s.live \cup UsesOf(i), out |-> <<i>> \o s.out]
       ELSE IF used THEN [live |-> (s.live \cup UsesOf(i)) \ DefsOf(i), out |-> <<i>> \o s.out]
       ELSE [s EXCEPT !.live = @ \ DefsOf(i)]
KeepOrDelete(s, i) ==
    LET used == DefsOf(i) = {} \/ \E d \in DefsOf(i) : d \in s.live \/ ~IsVReg(d)
        rest == s.live \ DefsOf(i)
    IN IF i.op = "BL" THEN [live |-> s.live \cup UsesOf(i), out |-> <<i>> \o s.out]
       ELSE IF used THEN [live |-> rest \cup UsesOf(i), out |-> <<i>> \o s.out]
       ELSE [s EXCEPT !.live = rest]
EliminateDeadInstruction(f) ==
    LET out == LiveOut(f)
        Keep(b) == Each(KeepOrDelete, [live |-> out[b], out |-> <<>>], Reverse(f.body[b])).out
    IN [f EXCEPT !.body = [b \in SeqRange(f.order) |-> Keep(b)]]
=============================================================================
