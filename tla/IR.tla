--------------------------------- MODULE IR ---------------------------------
(***************************************************************************)
(* The intermediate representation of the compiler (include/ir/ir.h,       *)
(* src/ir/ir.cpp and the instruction constructors of src/ir/builder.cpp).  *)
(*                                                                         *)
(* A function is a record: the list of its blocks, the list of             *)
(* instructions of each block, the instructions themselves and the         *)
(* predecessor sets, which the code keeps by hand and which may be stale.  *)
(* Blocks and instructions are numbered as they are created.  A use list   *)
(* of the code is the set of operands that name the value; an operand      *)
(* whose use list entry was destroyed is Dangling.                         *)
(*                                                                         *)
(* Floats and names are left out.                                          *)
(***************************************************************************)
EXTENDS Integers, Sequences, FiniteSets, TLC
LOCAL INSTANCE SequencesExt

(* A local variable of the code: v, computed once, wherever Do names it.   *)
(* TLC computes an argument at most once, and counts the steps that lead   *)
(* to it once, where it would count those of a LET again at every use.     *)
With(v, Do(_)) == Do(v)

(* ------------------------------- values ------------------------------- *)
Num(n) == <<"int", n>>
Bool(b) == <<"bool", IF b THEN 1 ELSE 0>>
Arg(i) == <<"arg", i>>
Ref(id) == <<"ins", id>>
Global(g) == <<"glob", g>>
Undef == <<"undef", 0>>             \* a null phi operand
Dangling == <<"dangling", 0>>       \* a Use that its value has destroyed

(* Division of the source language and of C++ truncates.                    *)
Quotient(a, b) == LET Abs(x) == IF x < 0 THEN -x ELSE x
                      q == Abs(a) \div Abs(b)
                  IN IF (a < 0) = (b < 0) THEN q ELSE -q

IsConstant(v) == v[1] \in {"int", "bool"}
IsRef(v) == v[1] = "ins"

(* ---------------------------- instructions ---------------------------- *)
IntCompare == {"sge", "sgt", "sle", "slt", "eq", "ne"}
BinaryOps == {"add", "sub", "mul", "sdiv", "srem", "xor"} \cup IntCompare
Terminators == {"br", "jump", "ret"}

(* k: cells of an alloca (0 a scalar, -1 the pointer of an array           *)
(* parameter), 1 for an lcssa phi.  dims: the dimensions of the array that *)
(* a GetElementPtr goes into, the outermost always 1.                      *)
Instr(op, args) ==
    [op |-> op, args |-> args, inc |-> <<>>, tgt |-> <<>>, fn |-> "", k |-> 0, dims |-> <<>>]
(* The cells that a step of the n-th index skips.                          *)
RECURSIVE Stride(_, _)
Stride(dims, n) == IF n > Len(dims) THEN 1 ELSE dims[n] * Stride(dims, n + 1)
RECURSIVE Offset(_, _)
Offset(is, dims) ==
    IF is = <<>> THEN 0
    ELSE Head(is) * Stride(dims, 1) + Offset(Tail(is), IF dims = <<>> THEN dims ELSE Tail(dims))
ConstOffset(i) == Offset([n \in 1..(Len(i.args) - 1) |-> i.args[n + 1][2]], i.dims)
JumpTo(b) == [Instr("jump", <<>>) EXCEPT !.tgt = <<b>>]
BranchTo(c, t, e) == [Instr("br", <<c>>) EXCEPT !.tgt = <<t, e>>]
Phi(inc) == [Instr("phi", <<>>) EXCEPT !.inc = inc]
CallOf(g, args) == [Instr("call", args) EXCEPT !.fn = g]
Alloca(k) == [Instr("alloca", <<>>) EXCEPT !.k = k]

IsTerminator(i) == i.op \in Terminators
SeqRange(s) == {s[n] : n \in DOMAIN s}
Operands(i) == SeqRange(i.args) \cup {i.inc[b] : b \in DOMAIN i.inc}

(* ----------------------------- functions ------------------------------ *)
NewFunction(nargs, void) ==
    [args |-> nargs, void |-> void, order |-> <<>>, body |-> <<>>, ins |-> <<>>, pred |-> <<>>,
     depth |-> <<>>, idom |-> <<>>, doms |-> <<>>, df |-> <<>>, fault |-> {}, nb |-> 1, ni |-> 1]

(* A failed assertion, or a read through a destroyed use, is remembered.   *)
FaultUnless(ok, what, f) == IF ok THEN f ELSE [f EXCEPT !.fault = @ \cup {what}]

Blocks(f) == SeqRange(f.order)
Entry(f) == f.order[1]
IdsOf(f) == UNION {SeqRange(f.body[b]) : b \in Blocks(f)}
BlockOf(f, id) == CHOOSE b \in DOMAIN f.body : id \in SeqRange(f.body[b])
LastId(f, b) == f.body[b][Len(f.body[b])]
Terminator(f, b) == f.ins[LastId(f, b)]

(* A block that exists but is not in the function's list yet.              *)
MakeBlock(f) ==
    [f EXCEPT !.body = @ @@ (f.nb :> <<>>), !.pred = @ @@ (f.nb :> {}),
              !.depth = @ @@ (f.nb :> -1), !.idom = @ @@ (f.nb :> 0),
              !.doms = @ @@ (f.nb :> {}), !.df = @ @@ (f.nb :> {}), !.nb = @ + 1]
AppendBasicBlock(f, b) == [f EXCEPT !.order = Append(@, b)]

Create(f, i) == [f EXCEPT !.ins = @ @@ (f.ni :> i), !.ni = @ + 1]
PushBack(f, b, i) == [Create(f, i) EXCEPT !.body[b] = Append(@, f.ni)]
PushFront(f, b, i) == [Create(f, i) EXCEPT !.body[b] = <<f.ni>> \o @]
Insert(f, b, n, i) == [Create(f, i) EXCEPT !.body[b] = InsertAt(@, n, f.ni)]

Successors(f, b) == IF f.body[b] = <<>> THEN <<>> ELSE Terminator(f, b).tgt
SuccessorSet(f, b) == SeqRange(Successors(f, b))

(* The phis at the front of a block, in order: every loop over the phis of *)
(* a block stops at the first other instruction.                           *)
LeadingPhis(f, b) ==
    LET IsPhi(n) == f.ins[f.body[b][n]].op = "phi"
        N == Len(f.body[b]) IN
    With(CHOOSE n \in 0..N : (\A p \in 1..n : IsPhi(p)) /\ (n < N => ~IsPhi(n + 1)), LAMBDA last :
    SubSeq(f.body[b], 1, last))

(* The use list of a value.  An instruction that is taken out of its block *)
(* without RemoveInstruction stays in f.ins and keeps its uses.            *)
Users(f, v) == {id \in DOMAIN f.ins : v \in Operands(f.ins[id])}

(* ------------------------- operands and uses --------------------------- *)
Substitute(i, old, new) ==
    [i EXCEPT !.args = [n \in DOMAIN @ |-> IF @[n] = old THEN new ELSE @[n]],
              !.inc = [b \in DOMAIN @ |-> IF @[b] = old THEN new ELSE @[b]]]
ReplaceUseBy(f, id, new) ==
    [f EXCEPT !.ins = [j \in DOMAIN @ |-> Substitute(@[j], Ref(id), new)]]

Detach(f, id) ==
    [f EXCEPT !.body = [b \in DOMAIN @ |-> SelectSeq(@[b], LAMBDA j : j # id)]]

(* Whoever still uses a removed instruction is left with a dangling use.   *)
RemoveInstruction(f, id) ==
    LET g == FaultUnless(Dangling \notin Operands(f.ins[id]), "dangling use", f) IN
    With(Detach(ReplaceUseBy(g, id, Dangling), id), LAMBDA h :
    [h EXCEPT !.ins = [j \in DOMAIN @ \ {id} |-> @[j]]])

(* For each element of a list, in turn, by halves so that TLC's recursion   *)
(* stays flat.  g = g always holds: TLC compares and so computes g once,    *)
(* where it would keep its functions unevaluated and apply them again.      *)
RECURSIVE Each(_, _, _)
Each(Do(_, _), f, s) ==
    IF s = <<>> THEN f
    ELSE IF Len(s) = 1 THEN Do(f, s[1])
    ELSE LET h == Len(s) \div 2
             g == Each(Do, f, SubSeq(s, 1, h))
         IN IF g = g THEN Each(Do, g, SubSeq(s, h + 1, Len(s))) ELSE f

(* Do, n times, or until stop.                                             *)
RECURSIVE Repeat(_, _, _, _)
Repeat(Do(_), stop(_), x, n) ==
    IF n = 0 \/ stop(x) THEN x
    ELSE IF n = 1 THEN Do(x)
    ELSE LET y == Repeat(Do, stop, x, n \div 2)
         IN IF y = y THEN Repeat(Do, stop, y, n - n \div 2) ELSE x

(* A set of blocks or instructions in the order of their creation.  The    *)
(* sets of the code are ordered by address or hash.                        *)
RECURSIVE InOrder(_)
InOrder(S) ==
    IF S = {} THEN <<>>
    ELSE LET first == CHOOSE x \in S : \A y \in S : x <= y
         IN <<first>> \o InOrder(S \ {first})

RemoveAll(f, ids) == Each(RemoveInstruction, f, ids)

(* ------------------------------ phi edges ------------------------------ *)
AddPhiOperand(f, id, b, v) ==
    [FaultUnless(b \notin DOMAIN f.ins[id].inc, "operand exists", f)
        EXCEPT !.ins[id].inc = (b :> v) @@ @]
RemoveByBasicBlock(f, id, b) ==
    [FaultUnless(b \in DOMAIN f.ins[id].inc, "no operand", f)
        EXCEPT !.ins[id].inc = [p \in DOMAIN @ \ {b} |-> @[p]]]
IsValid(f, b, id) == f.pred[b] \subseteq DOMAIN f.ins[id].inc

(* RemovePredecessor drops the phi operands of the edge as well.           *)
\* Mutant: the phi operands of the edge stay.
ForgetPredecessor(f, b, p) == [f EXCEPT !.pred[b] = @ \ {p}]
RemovePredecessor(f, b, p) ==
    [Each(LAMBDA g, id : RemoveByBasicBlock(g, id, p), f, LeadingPhis(f, b))
        EXCEPT !.pred[b] = @ \ {p}]

(* old is replaced by every block of news: each gets old's phi operand.    *)
SplitPredecessor(f, b, old, news) ==
    LET Change(g, id) ==
            LET inc == g.ins[id].inc
                h == FaultUnless(old \in DOMAIN inc /\ news \cap DOMAIN inc = {},
                                 "operand exists", g)
            IN [h EXCEPT !.ins[id].inc =
                    [p \in (DOMAIN inc \ {old}) \cup news |->
                        IF p \notin news THEN inc[p]
                        ELSE IF old \in DOMAIN inc THEN inc[old] ELSE Undef]]
        known == FaultUnless(old \notin news /\ old \in f.pred[b], "no predecessor", f)
    IN [Each(Change, known, LeadingPhis(f, b)) EXCEPT !.pred[b] = (@ \ {old}) \cup news]

(* olds are replaced by one block; operands that differ are merged by a    *)
(* new phi in that block.                                                  *)
MergePredecessors(f, b, olds, new) ==
    LET Incoming(g, id, p) == IF p \in DOMAIN g.ins[id].inc THEN g.ins[id].inc[p] ELSE Undef
        Without(g, id) == [p \in DOMAIN g.ins[id].inc \ olds |-> g.ins[id].inc[p]]
        Change(g, id) ==
            LET vals == {Incoming(g, id, p) : p \in olds} IN
            IF Cardinality(vals) = 1
            THEN [g EXCEPT !.ins[id].inc = (new :> CHOOSE v \in vals : TRUE) @@ Without(g, id)]
            ELSE LET h == PushFront(g, new, Phi([p \in olds |-> Incoming(g, id, p)]))
                 IN [h EXCEPT !.ins[id].inc = (new :> Ref(g.ni)) @@ Without(g, id)]
    IN Each(Change, [f EXCEPT !.pred[b] = (@ \ olds) \cup {new}], LeadingPhis(f, b))

(* A branch whose two targets become equal is replaced by a jump; it keeps *)
(* its place in the use list of its condition.                             *)
ReplaceSuccessorBy(f, b, old, new) ==
    With([n \in DOMAIN Terminator(f, b).tgt |->
            IF Terminator(f, b).tgt[n] = old THEN new ELSE Terminator(f, b).tgt[n]], LAMBDA t :
    With(IF Len(t) = 2 /\ t[1] = t[2]
         THEN PushBack(Detach(f, LastId(f, b)), b, JumpTo(t[1]))
         ELSE [f EXCEPT !.ins[LastId(f, b)].tgt = t], LAMBDA g :
    [g EXCEPT !.pred = [p \in DOMAIN @ |->
         IF p = new THEN @[p] \cup {b} ELSE IF p = old THEN @[p] \ {b} ELSE @[p]]]))

(* ------------------------------ modules -------------------------------- *)
(* fn: every function that was generated; list: the module's functions in  *)
(* order; glob: the global variables; side: m_side_effect; calls: who calls*)
(* a function, as <<call, caller>>; called: m_called_depth.                *)
Builtins == {"getint", "putint", "memset"}
HasSideEffect(m, i) ==
    i.op \in {"br", "jump", "ret", "store"} \/ (i.op = "call" /\ m.side[i.fn])

RemoveInstrsAfterTerminator(f) ==
    LET Cut(b) == CHOOSE n \in DOMAIN f.body[b] :
                     /\ IsTerminator(f.ins[f.body[b][n]])
                     /\ \A p \in 1..(n - 1) : ~IsTerminator(f.ins[f.body[b][p]])
    IN [f EXCEPT !.body = [b \in DOMAIN @ |-> SubSeq(@[b], 1, Cut(b))]]
=============================================================================
