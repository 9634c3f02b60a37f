------------------------------- MODULE Machine -------------------------------
(***************************************************************************)
(* What the selected instructions mean: an interpreter of the ARM          *)
(* instructions that asm-codegen.cpp emits (their effect is external to    *)
(* the repository), before registers are allocated.  A register holds an   *)
(* integer, an address is a number of bytes, the virtual registers belong  *)
(* to a call, and a call leaves nothing of use in R1-R3, R12 and the       *)
(* flags.  Execution falls through to the next block in layout order.      *)
(***************************************************************************)
EXTENDS Assembly, Source
LOCAL INSTANCE SequencesExt

Region == 4096           \* bytes set apart for a global or for a frame

In(regs, o) == IF o[1] = "int" THEN o[2] ELSE IF o \in DOMAIN regs THEN regs[o] ELSE Garbage

(* Right shifts by s > 0 of a word of 32 bits.                             *)
Asr(x, s) == (x \div 2 ^ (s - 1)) \div 2
Lsr(x, s) == Asr(x, s) + IF x < 0 THEN 2 ^ (32 - s) ELSE 0
Shifted(x, shift) ==
    IF shift = <<>> \/ shift[2] = 0 THEN x
    ELSE CASE shift[1] = "LSL" -> x * 2 ^ shift[2]
           [] shift[1] = "ASR" -> Asr(x, shift[2])
           [] shift[1] = "LSR" -> Lsr(x, shift[2])

(* The flags are the two numbers last compared.                            *)
Holds(cond, flags) ==
    CASE cond = "none" -> TRUE
      [] cond = "mi" -> flags[1] < flags[2]
      [] OTHER -> Arith(cond, flags[1], flags[2]) = 1

(* AND is only used with a mask of low bits.                               *)
Computes(i, vs) ==
    CASE i.op = "MOV" -> vs[1]
      [] i.op = "ADD" -> vs[1] + Shifted(vs[2], i.shift)
      [] i.op = "SUB" -> vs[1] - vs[2]
      [] i.op = "RSB" -> vs[2] - vs[1]
      [] i.op = "MUL" -> vs[1] * vs[2]
      [] i.op = "MLA" -> vs[1] * vs[2] + vs[3]
      [] i.op = "MLS" -> vs[3] - vs[1] * vs[2]
      [] i.op \in {"LSL", "ASR"} -> Shifted(vs[1], <<i.op, vs[2]>>)
      [] i.op \in {"SDIV", "DIVC"} -> Arith("sdiv", vs[1], vs[2])
      [] i.op = "AND" -> vs[1] % (vs[2] + 1)

NextBlock(f, b) == f.order[(CHOOSE n \in DOMAIN f.order : f.order[n] = b) + 1]

(* x is [w, val, stack, lab]; a frame is [g, b, n, regs, flags].           *)
Frame(g, b, regs) == [g |-> g, b |-> b, n |-> 1, regs |-> regs, flags |-> <<Garbage, 0>>]
EnterBlock(x, b) == [x EXCEPT !.w = Burn(@), !.stack[1].b = b, !.stack[1].n = 1]
CallAsm(a, x, g, regs) ==
    LET params == {r \in DOMAIN regs : r[1] = "reg"}
        sp == Region * (Cardinality(DOMAIN x.lab) + Len(x.stack) + 1)
        new == (Reg("SP") :> sp) @@ [r \in params |-> regs[r]]
    IN [x EXCEPT !.w = Burn(@), !.stack = <<Frame(g, a.fn[g].order[1], new)>> \o @]

AfterCall(c, val) ==
    LET lost == {Reg(r) : r \in {"R1", "R2", "R3", "R12"}}
    IN [c EXCEPT !.n = @ + 1, !.flags = <<Garbage, 0>>,
                 !.regs = (Reg("R0") :> val) @@ [r \in lost |-> Garbage] @@ @]
CallExternal(x, i) ==
    LET vs == [n \in DOMAIN i.srcs |-> In(x.stack[1].regs, i.srcs[n])]
        cells == {vs[1] + 4 * d : d \in 0..((vs[3] \div 4) - 1)}
        r == IF i.lab = "memset"
             THEN [val |-> 0, w |-> [x.w EXCEPT !.mem = [c \in cells |-> vs[2]] @@ @]]
             ELSE External(i.lab, vs, x.w)
    IN [x EXCEPT !.w = r.w, !.stack[1] = AfterCall(@, r.val)]

OneAsm(a, x) ==
    LET c == x.stack[1]
        f == a.fn[c.g]
        i == f.body[c.b][c.n]
        vs == [n \in DOMAIN i.srcs |-> In(c.regs, i.srcs[n])]
        Next1(y) == [y EXCEPT !.stack[1].n = @ + 1]
        Set(v) == Next1([x EXCEPT !.stack[1].regs = (i.dest :> v) @@ @])
    IN IF c.b = RBlock
       THEN LET y == [x EXCEPT !.stack = Tail(@), !.val = In(c.regs, Reg("R0"))]
            IN IF y.stack = <<>> THEN y ELSE [y EXCEPT !.stack[1] = AfterCall(@, y.val)]
       ELSE IF c.n > Len(f.body[c.b]) THEN EnterBlock(x, NextBlock(f, c.b))
       ELSE IF ~Holds(i.cond, c.flags) THEN Next1(x)
       ELSE CASE i.op = "B" -> EnterBlock(x, i.tgt)
              [] i.op = "BL" -> IF i.lab \in Builtins THEN CallExternal(x, i)
                                ELSE CallAsm(a, x, i.lab, c.regs)
              [] i.op = "CMP" -> Next1([x EXCEPT !.stack[1].flags = vs])
              [] i.op = "STR" -> Next1([x EXCEPT !.w.mem = (vs[2] :> vs[1]) @@ @])
              [] i.op = "LDR" -> Set(Read(x.w, vs[1]))
              [] i.op = "LDRL" -> Set(x.lab[i.lab])
              [] i.flags -> [Set(Computes(i, vs)) EXCEPT !.stack[1].flags = <<Computes(i, vs), 0>>]
              [] OTHER -> Set(Computes(i, vs))

LoadImage(a, input) ==
    LET names == SetToSeq(DOMAIN a.glob)
        lab == [g \in DOMAIN a.glob |-> Region * CHOOSE n \in DOMAIN names : names[n] = g]
        cells == UNION {{<<g, n>> : n \in DOMAIN a.glob[g].vals} : g \in DOMAIN a.glob}
        At(c) == lab[c[1]] + 4 * (c[2] - 1)
        mem == [p \in {At(c) : c \in cells} |->
                    LET c == CHOOSE d \in cells : At(d) = p IN a.glob[c[1]].vals[c[2]]]
    IN [w |-> [World(<<>>, input) EXCEPT !.mem = mem], val |-> 0, stack |-> <<>>, lab |-> lab]
AsmResult(a, input) ==
    With(CallAsm(a, LoadImage(a, input), "main", <<>>), LAMBDA start :
    Outcome(Repeat(LAMBDA x : OneAsm(a, x), LAMBDA x : x.stack = <<>> \/ x.w.fuel = 0,
                   start, 2 * Steps)))
=============================================================================
