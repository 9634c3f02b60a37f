------------------------------ MODULE Assembly ------------------------------
(***************************************************************************)
(* Instruction selection (src/asm/asm-codegen.cpp on top of                *)
(* asm-builder.cpp and the constructors of asm.cpp): the intermediate      *)
(* representation of a function becomes ARM instructions over virtual      *)
(* registers, before registers are allocated.                              *)
(*                                                                         *)
(* a is the builder with the function it builds: its blocks in layout      *)
(* order, the instructions of each, the place of the first branch of each  *)
(* (0 stands for end()), the edges as kept by hand, the moves that phis    *)
(* leave for the end of a block, the operand of each value (m_value_map)   *)
(* and the operand last loaded from or stored to an address in this block  *)
(* (m_load_map).  Block 0 is the return block.                             *)
(*                                                                         *)
(* Left out: floats, and parameters after the fourth, which go through the *)
(* stack.                                                                  *)
(***************************************************************************)
EXTENDS IR
LOCAL INSTANCE SequencesExt

VReg(n) == <<"vreg", n>>
Reg(r) == <<"reg", r>>
IsVReg(o) == o[1] = "vreg"
ParamReg(n) == Reg(<<"R0", "R1", "R2", "R3">>[n])

(* cond is "none" for always; flags marks an AND that sets them; shift is  *)
(* applied to the last operand of an ADD; r12 marks the MOV of a           *)
(* parameter, which is recorded to write R12 too.                          *)
Asm(op, dest, srcs) ==
    [op |-> op, cond |-> "none", dest |-> dest, srcs |-> srcs, lab |-> "", tgt |-> 0,
     shift |-> <<>>, flags |-> FALSE, r12 |-> FALSE]
NoDest == <<"none", 0>>
Branch(b, cond) == [Asm("B", NoDest, <<>>) EXCEPT !.tgt = b, !.cond = cond]
IsBranch(i) == i.op = "B"

(* An immediate of eight bits, which the rotated forms of the instruction  *)
(* set extend; any other number goes to a register first.                  *)
ImmCheck(n) == n \in 0..255

RBlock == 0
NewBuilder(f) ==
    LET blocks == Blocks(f) \cup {RBlock}
        none == [b \in blocks |-> <<>>]
    IN [order |-> <<>>, body |-> none, pos |-> [b \in blocks |-> 0], succ |-> none, pred |-> none,
        fill |-> none, map |-> <<>>, loads |-> <<>>, nv |-> 1, cur |-> RBlock, local |-> 0,
        fault |-> {}]

Put(a, i) == [a EXCEPT !.body[a.cur] = Append(@, i)]
NewVReg(a) == [o |-> VReg(a.nv), a |-> [a EXCEPT !.nv = @ + 1]]
AppendB(a, b, cond) ==
    [Put(a, Branch(b, cond)) EXCEPT !.succ[a.cur] = Append(@, b), !.pred[b] = Append(@, a.cur)]

(* imm: a constant may stay an immediate never ("reg"), when it can be     *)
(* encoded ("imm"), or always ("any").                                     *)
GetOperand(a, v, imm) ==
    LET r == NewVReg(a) IN
    IF v \in DOMAIN a.map THEN [o |-> a.map[v], a |-> a]
    ELSE IF IsConstant(v)
    THEN IF imm = "any" \/ (imm = "imm" /\ ImmCheck(v[2])) THEN [o |-> Num(v[2]), a |-> a]
         ELSE [r EXCEPT !.a = Put(@, Asm("MOV", r.o, <<Num(v[2])>>))]
    ELSE [r EXCEPT !.a.map = (v :> r.o) @@ @]
(* The operands of an instruction, the result's first.                     *)
WithResult(a, id) == GetOperand(a, Ref(id), "reg")

-----------------------------------------------------------------------------
(* op ret, operand1, operand2 after both have been brought to registers.   *)
Three(a, id, op, v1, v2, imm2) ==
    LET ret == WithResult(a, id)
        o1 == GetOperand(ret.a, v1, "reg")
        o2 == GetOperand(o1.a, v2, imm2)
    IN Put(o2.a, Asm(op, ret.o, <<o1.o, o2.o>>))

(* A constant first operand changes places with the second.                *)
GenerateAdd(a, id, v1, v2) ==
    IF IsConstant(v1) THEN Three(a, id, "ADD", v2, v1, "imm") ELSE Three(a, id, "ADD", v1, v2, "imm")
GenerateSub(a, id, v1, v2) ==
    IF IsConstant(v1) THEN Three(a, id, "RSB", v2, v1, "imm") ELSE Three(a, id, "SUB", v1, v2, "imm")

Power(n) == {k \in 1..30 : 2 ^ k = n}
TheOne(S) == CHOOSE x \in S : TRUE
GenerateMul(a, id, u1, u2) ==
    LET v1 == IF IsConstant(u1) THEN u2 ELSE u1
        v2 == IF IsConstant(u1) THEN u1 ELSE u2
        ret == WithResult(a, id)
        o == GetOperand(ret.a, v1, "reg")
    IN IF v2 = Num(1) THEN Put(o.a, Asm("MOV", ret.o, <<o.o>>))
       ELSE IF v2[1] = "int" /\ Power(v2[2]) # {}
       THEN Put(o.a, Asm("LSL", ret.o, <<o.o, Num(TheOne(Power(v2[2])))>>))
       ELSE Three(a, id, "MUL", v1, v2, "reg")

(* DIVC stands for the multiplication by a magic number of divConst.       *)
GenerateDiv(a, id, v1, v2) ==
    LET ret == WithResult(a, id)
        o == GetOperand(ret.a, v1, "reg")
        t == NewVReg(o.a)
        k == TheOne(Power(v2[2]))
        sign == Put(t.a, Asm("ASR", t.o, <<o.o, Num(k - 1)>>))
        round == Put(sign, [Asm("ADD", t.o, <<o.o, t.o>>) EXCEPT !.shift = <<"LSR", 32 - k>>])
    IN IF ~IsConstant(v2) THEN Three(a, id, "SDIV", v1, v2, "reg")
       ELSE IF v2[2] = 1 THEN Put(o.a, Asm("MOV", ret.o, <<o.o>>))
       ELSE IF Power(v2[2]) # {} THEN Put(round, Asm("ASR", ret.o, <<t.o, Num(k)>>))
       ELSE Put(o.a, Asm("DIVC", ret.o, <<o.o, v2>>))

(* x % 2^k: the low bits, less 2^k when x is negative and they are not 0.  *)
GenerateMod(a, id, v1, v2) ==
    LET ret == WithResult(a, id)
        o == GetOperand(ret.a, v1, "reg")
        mask == GetOperand(o.a, Num(v2[2] - 1), "imm")
        bits == Put(mask.a, [Asm("AND", ret.o, <<o.o, mask.o>>) EXCEPT !.flags = TRUE])
        test == Put(bits, [Asm("CMP", NoDest, <<o.o, Num(0)>>) EXCEPT !.cond = "ne"])
        q == NewVReg(o.a)
        qa == Put(q.a, Asm("DIVC", q.o, <<o.o, v2>>)) IN
    With(GetOperand(IF IsConstant(v2) THEN qa ELSE o.a, v2, "reg"), LAMBDA d :
    With(IF IsConstant(v2) THEN [o |-> q.o, a |-> d.a]
         ELSE With(NewVReg(d.a), LAMBDA n :
              [n EXCEPT !.a = Put(@, Asm("SDIV", n.o, <<o.o, d.o>>))]), LAMBDA r :
    IF v2 = Num(1) THEN Put(o.a, Asm("MOV", ret.o, <<Num(0)>>))
    ELSE IF IsConstant(v2) /\ Power(v2[2]) # {}
    THEN Put(test, [Asm("SUB", ret.o, <<ret.o, Num(v2[2])>>) EXCEPT !.cond = "mi"])
    ELSE Put(r.a, Asm("MLS", ret.o, <<r.o, d.o, o.o>>))))

(* The flags are read by a later instruction; a negation emits nothing.    *)
GenerateCMP(a, v1, v2) ==
    LET o1 == GetOperand(a, v1, "reg")
        o2 == GetOperand(o1.a, v2, "imm")
    IN Put(o2.a, Asm("CMP", NoDest, <<o1.o, o2.o>>))

GenerateBinary(a, id, i) ==
    LET v1 == i.args[1]
        v2 == i.args[2]
    IN CASE i.op = "add" -> GenerateAdd(a, id, v1, v2)
         [] i.op = "sub" -> GenerateSub(a, id, v1, v2)
         [] i.op = "mul" -> GenerateMul(a, id, v1, v2)
         [] i.op = "sdiv" -> GenerateDiv(a, id, v1, v2)
         [] i.op = "srem" -> GenerateMod(a, id, v1, v2)
         [] i.op = "xor" -> a
         [] i.op \in IntCompare -> GenerateCMP(a, v1, v2)

-----------------------------------------------------------------------------
Opposite(cond) ==
    CASE cond = "eq" -> "ne" [] cond = "ne" -> "eq" [] cond = "sge" -> "slt" [] cond = "slt" -> "sge"
      [] cond = "sgt" -> "sle" [] cond = "sle" -> "sgt" [] cond = "none" -> "none"
(* The comparison under any number of negations, and how it is tested.     *)
RECURSIVE CondOf(_, _)
CondOf(f, v) ==
    LET i == f.ins[v[2]] IN
    IF ~IsRef(v) THEN "constant"
    ELSE IF i.op = "xor" THEN LET c == CondOf(f, i.args[1]) IN
                              IF c = "constant" THEN c ELSE Opposite(c)
    ELSE i.op

(* A value of the program is in R0-R3 only between the moves of a call.    *)
GenerateCall(m, a, id, i) ==
    LET name == i.fn
        n == IF name = "memset" THEN 3 ELSE Len(i.args)
        Param(b, k) == LET o == GetOperand(b, i.args[k], "any")
                       IN Put(o.a, Asm("MOV", ParamReg(k), <<o.o>>))
        set == Each(Param, a, [k \in 1..n |-> k])
        called == Put(set, [Asm("BL", NoDest, [k \in 1..n |-> ParamReg(k)]) EXCEPT !.lab = name])
        ret == WithResult(called, id)
        void == IF name \in Builtins THEN name # "getint" ELSE m.fn[name].void
    IN IF void THEN called ELSE Put(ret.a, Asm("MOV", ret.o, <<Reg("R0")>>))

SetBranchPos(a, n) == [a EXCEPT !.pos[a.cur] = n]
GenerateBranch(f, a, i) ==
    LET n == Len(a.body[a.cur]) + 1
        cond == CondOf(f, i.args[1])
        b == [a EXCEPT !.fault = IF cond = "constant" THEN @ \cup {"constant condition"} ELSE @]
    IN AppendB(SetBranchPos(AppendB(b, i.tgt[1], cond), n), i.tgt[2], "none")
\* Mutant: the place of the jump is not kept.
GenerateJumpUnmarked(a, i) == AppendB(a, i.tgt[1], "none")
GenerateJump(a, i) == SetBranchPos(AppendB(a, i.tgt[1], "none"), Len(a.body[a.cur]) + 1)
GenerateReturn(a, i) ==
    LET o == GetOperand(a, i.args[1], "any")
    IN AppendB(IF i.args = <<>> THEN a ELSE Put(o.a, Asm("MOV", Reg("R0"), <<o.o>>)), RBlock, "none")

(* The address of a global is loaded by its label.                         *)
GetAddr(a, v) ==
    LET r == NewVReg(a) IN
    IF v[1] = "glob" THEN [r EXCEPT !.a = Put(@, [Asm("LDRL", r.o, <<>>) EXCEPT !.lab = v[2]])]
    ELSE GetOperand(a, v, "reg")

(* base + 4 * (the sum of index * stride), the constant part apart.  The   *)
(* last index comes first; s.var holds the variable part once there is one.*)
AddIndex(i, s, n) ==
    LET index == i.args[n + 1]
        attribute == Stride(i.dims, n)
        o == GetOperand(s.a, index, "reg")
        v == NewVReg(o.a)
        rest == IF s.var = NoDest THEN v ELSE [o |-> s.var, a |-> o.a]
        scale == NewVReg(rest.a)
        scaled == Put(scale.a, Asm("MOV", scale.o, <<Num(attribute)>>))
    IN IF IsConstant(index) THEN [s EXCEPT !.const = @ + 4 * attribute * index[2]]
       ELSE [s EXCEPT !.var = rest.o, !.a =
                IF s.var # NoDest THEN Put(scaled, Asm("MLA", rest.o, <<o.o, scale.o, rest.o>>))
                ELSE IF attribute = 1 THEN Put(v.a, Asm("MOV", v.o, <<o.o>>))
                ELSE Put(scaled, Asm("MUL", v.o, <<o.o, scale.o>>))]
(* The operand of the result is asked for before the address of the base.  *)
GenerateGetElementPtr(a, id, i) ==
    LET N == Len(i.args) - 1 IN
    With(Each(LAMBDA t, n : AddIndex(i, t, n), [a |-> a, var |-> NoDest, const |-> 0],
              [n \in 1..N |-> N + 1 - n]), LAMBDA s :
    With(IF s.const = 0 THEN [o |-> Num(0), a |-> s.a] ELSE GetOperand(s.a, Num(s.const), "imm"), LAMBDA c :
    With(NewVReg(c.a), LAMBDA t :
    With(Put(t.a, Asm("LSL", t.o, <<s.var, Num(2)>>)), LAMBDA shifted :
    With(IF s.const = 0 THEN shifted ELSE Put(shifted, Asm("ADD", t.o, <<t.o, c.o>>)), LAMBDA both :
    With(IF s.var = NoDest THEN c ELSE [o |-> t.o, a |-> both], LAMBDA off :
    With(WithResult(off.a, id), LAMBDA ret :
    With(GetAddr(ret.a, i.args[1]), LAMBDA base :
    IF off.o = Num(0) THEN Put(base.a, Asm("MOV", ret.o, <<base.o>>))
    ELSE Put(base.a, Asm("ADD", ret.o, <<base.o, off.o>>))))))))))

(* A second load of an address in a block is a move.                       *)
GenerateLoad(a, id, i) ==
    LET addr == i.args[1]
        ret == WithResult(a, id)
        at == GetAddr(ret.a, addr)
    IN IF addr \in DOMAIN a.loads THEN Put(ret.a, Asm("MOV", ret.o, <<a.loads[addr]>>))
       ELSE [Put(at.a, Asm("LDR", ret.o, <<at.o>>)) EXCEPT !.loads = (addr :> ret.o) @@ @]
GenerateStore(a, i) ==
    LET src == GetOperand(a, i.args[2], "reg")
        at == GetAddr(src.a, i.args[1])
    IN [Put(at.a, Asm("STR", NoDest, <<src.o, at.o>>)) EXCEPT !.loads = (i.args[1] :> src.o) @@ @]
GenerateAlloca(a, id, i) ==
    LET off == GetOperand(a, Num(a.local), "imm")
        ret == WithResult(off.a, id)
    IN [Put(ret.a, Asm("ADD", ret.o, <<Reg("SP"), off.o>>))
            EXCEPT !.local = @ + 4 * (IF i.k > 0 THEN i.k ELSE 1)]

\* Mutant: the predecessors write the register of the phi itself.
GeneratePhiInPlace(a, id, i) ==
    LET ret == WithResult(a, id)
        Fill(b, p) == LET src == GetOperand(b, i.inc[p], "any")
                      IN [src.a EXCEPT !.fill[p] = Append(@, Asm("MOV", ret.o, <<src.o>>))]
    IN Each(Fill, ret.a, InOrder({p \in DOMAIN i.inc : i.inc[p] # Undef}))
(* The phi moves a register of its own that every predecessor fills at its *)
(* end, so that the phis of a block act at once.                           *)
GeneratePhi(a, id, i) ==
    LET tmp == NewVReg(a)
        ret == WithResult(tmp.a, id)
        Fill(b, p) == LET src == GetOperand(b, i.inc[p], "any")
                      IN [src.a EXCEPT !.fill[p] = Append(@, Asm("MOV", tmp.o, <<src.o>>))]
    IN Each(Fill, Put(ret.a, Asm("MOV", ret.o, <<tmp.o>>)),
            InOrder({p \in DOMAIN i.inc : i.inc[p] # Undef}))
GenerateBitCast(a, id, i) ==
    LET src == GetOperand(a, i.args[1], "reg") IN [src.a EXCEPT !.map = (Ref(id) :> src.o) @@ @]

(* 1 on the condition, 0 on its opposite, from the flags as they are.      *)
GenerateZExt(f, a, id, i) ==
    LET ret == WithResult(a, id)
        cond == CondOf(f, i.args[1])
        Set(b, n, c) == Put(b, [Asm("MOV", ret.o, <<Num(n)>>) EXCEPT !.cond = c])
    IN IF IsConstant(i.args[1]) THEN Put(ret.a, Asm("MOV", ret.o, <<Num(i.args[1][2])>>))
       ELSE Set(Set(ret.a, 1, cond), 0, Opposite(cond))

GenerateInstruction(m, f, a, id) ==
    LET i == f.ins[id] IN
    CASE i.op \in BinaryOps -> GenerateBinary(a, id, i)
      [] i.op = "call" -> GenerateCall(m, a, id, i)
      [] i.op = "br" -> GenerateBranch(f, a, i)
      [] i.op = "jump" -> GenerateJump(a, i)
      [] i.op = "ret" -> GenerateReturn(a, i)
      [] i.op = "gep" -> GenerateGetElementPtr(a, id, i)
      [] i.op = "load" -> GenerateLoad(a, id, i)
      [] i.op = "store" -> GenerateStore(a, i)
      [] i.op = "alloca" -> GenerateAlloca(a, id, i)
      [] i.op = "phi" -> GeneratePhi(a, id, i)
      [] i.op = "bitcast" -> GenerateBitCast(a, id, i)
      [] i.op = "zext" -> GenerateZExt(f, a, id, i)

-----------------------------------------------------------------------------
SetParams(a, n) ==
    LET Param(b, k) == LET r == NewVReg(b) IN [r.a EXCEPT !.map = (Arg(k) :> r.o) @@ @]
    IN Each(Param, a, [k \in 1..n |-> k])
AppendBlock(a, b) == [a EXCEPT !.order = Append(@, b), !.cur = b, !.loads = <<>>]
GenerateBasicblock(m, f, a, b) ==
    Each(LAMBDA c, id : GenerateInstruction(m, f, c, id), AppendBlock(a, b), f.body[b])

(* A block that needs moves for phis must have a branch to put them before. *)
FillMOV(a, b) ==
    IF a.fill[b] = <<>> THEN a
    ELSE IF a.pos[b] = 0 THEN [a EXCEPT !.fault = @ \cup {"no branch"}]
    ELSE [a EXCEPT !.body[b] = SubSeq(@, 1, a.pos[b] - 1) \o a.fill[b] \o SubSeq(@, a.pos[b], Len(@)),
                   !.pos[b] = @ + Len(a.fill[b])]
GenerateFunction(m, f) ==
    LET start == SetParams(NewBuilder(f), f.args) IN
    With(Each(LAMBDA b, c : GenerateBasicblock(m, f, b, c), start, f.order), LAMBDA a :
    With(Each(FillMOV, [a EXCEPT !.order = Append(@, RBlock)], Append(f.order, RBlock)), LAMBDA filled :
    With([k \in 1..f.args |-> [Asm("MOV", a.map[Arg(k)], <<ParamReg(k)>>) EXCEPT !.r12 = TRUE]], LAMBDA moves :
    LET first == f.order[1] IN
    [filled EXCEPT !.body[first] = moves \o @, !.pos[first] = IF @ = 0 THEN 0 ELSE @ + f.args])))
GenerateModule(m) ==
    [fn |-> [g \in SeqRange(m.list) |-> GenerateFunction(m, m.fn[g])], list |-> m.list, glob |-> m.glob]
=============================================================================
