----------------------------- MODULE AsmProgram -----------------------------
(***************************************************************************)
(* The part of an ASM_Function that liveness analysis and the register     *)
(* allocator look at (include/asm/asm.h).                                  *)
(*                                                                         *)
(* A function is a sequence of blocks in layout order.  A block is a       *)
(* record of its instructions and of the indices of its successors.  An    *)
(* instruction keeps only what data flow depends on: the operands it       *)
(* defines and uses, the two ends <<m_dest, m_src>> of a register move     *)
(* (empty for any other instruction), and whether it has been deleted.  An *)
(* operand is a natural number; Class is the set of operands of the        *)
(* register type being allocated (m_def/m_use for R, m_f_def/m_f_use for   *)
(* S), so an instruction mentions operands of both types and every         *)
(* analysis filters with Class.                                            *)
(***************************************************************************)
EXTENDS Integers, Sequences, FiniteSets

CONSTANT Class   \* the operands of the register type under analysis

Inst(ends, def, use) ==
    [ends |-> ends, def |-> def, use |-> use, isDeleted |-> FALSE]

Op(def, use)   == Inst(<<>>, def, use)
Mov(dest, src) == Inst(<<dest, src>>, {dest}, {src})

\* The move that fetches a parameter also claims R12 (setParams).
ParamMov(dest, src, scratch) == Inst(<<dest, src>>, {dest, scratch}, {src})

IsMov(i) == i.ends # <<>>

\* The shape of a function: blocks, and the instructions of each, are
\* lists, and the successors of a block are blocks of the function.
IsList(s) == Len(s) \in Nat /\ DOMAIN s = 1..Len(s)

IsFlowGraph(prog) ==
    /\ IsList(prog)
    /\ \A b \in DOMAIN prog : IsList(prog[b].insts) /\ prog[b].succ \subseteq DOMAIN prog

\* Mutant: the operands of both register types are taken.
UseOfEither(i) == IF i.isDeleted THEN {} ELSE i.use

Def(i) == IF i.isDeleted THEN {} ELSE i.def \cap Class
Use(i) == IF i.isDeleted THEN {} ELSE i.use \cap Class

Instructions(prog) ==
    UNION {{prog[b].insts[k] : k \in DOMAIN prog[b].insts} : b \in DOMAIN prog}

\* The operands of the class, and of either class, that a function mentions.
Occurring(prog) == UNION {Def(i) \cup Use(i) : i \in Instructions(prog)}
Mentioned(prog) == UNION {i.def \cup i.use : i \in Instructions(prog)}

-----------------------------------------------------------------------------
(***************************************************************************)
(* Block summaries.  The code scans a block forwards; in one instruction   *)
(* the uses are entered before the definitions, and an operand is recorded *)
(* as defined only while it is not yet recorded as used.                   *)
(***************************************************************************)
UpwardUse(insts) ==
    UNION {{v \in Use(insts[k]) : \A j \in 1..(k - 1) : v \notin Def(insts[j])} :
              k \in DOMAIN insts}

FirstDef(insts) ==
    UNION {{v \in Def(insts[k]) : \A j \in 1..k : v \notin Use(insts[j])} :
              k \in DOMAIN insts}

(***************************************************************************)
(* The set of operands live out of each block, as the least solution of    *)
(* the data-flow equations: a fact travels over at most one edge in a      *)
(* round and a shortest path visits a block at most once, so as many       *)
(* rounds as there are blocks reach it.  Module Liveness has the           *)
(* round-robin iteration of the code, which ends in the same solution.     *)
(***************************************************************************)
LiveOut(prog) ==
    LET after(in, b) == UNION {in[s] : s \in prog[b].succ}
        in[r \in 0..Len(prog)] ==
           IF r = 0 THEN [b \in DOMAIN prog |-> UpwardUse(prog[b].insts)]
           ELSE LET prev == in[r - 1]
                IN  [b \in DOMAIN prog |->
                        UpwardUse(prog[b].insts)
                          \cup (after(prev, b) \ FirstDef(prog[b].insts))]
    IN [b \in DOMAIN prog |-> after(in[Len(prog)], b)]

(***************************************************************************)
(* The operands live after each instruction of a block, given those live   *)
(* at its end: what the backward scan of Build carries in `live'.          *)
(***************************************************************************)
LiveAfter(insts, liveout) ==
    LET n       == Len(insts)
        rest(k) == SubSeq(insts, k + 1, n)
    IN [k \in 1..n |->
          UpwardUse(rest(k)) \cup (liveout \ UNION {Def(insts[j]) : j \in (k + 1)..n})]

(***************************************************************************)
(* The interference edges: every operand an instruction defines against    *)
(* every other operand live after it or defined with it.  The source of a  *)
(* move is not taken out of the live set first.                            *)
(***************************************************************************)
BlockEdges(insts, liveout) ==
    LET live == LiveAfter(insts, liveout)
    IN UNION {LET d == Def(insts[k])
              IN  (d \X (live[k] \cup d)) \cup ((live[k] \cup d) \X d) :
                k \in DOMAIN insts}

Interference(prog) ==
    LET out   == LiveOut(prog)
        edges == UNION {BlockEdges(prog[b].insts, out[b]) : b \in DOMAIN prog}
    IN {e \in edges : e \in Class \X Class /\ e[1] # e[2]}
=============================================================================
