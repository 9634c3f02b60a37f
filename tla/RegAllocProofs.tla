--------------------------- MODULE RegAllocProofs ---------------------------
(***************************************************************************)
(* Theorems about RegAlloc, for every program, register set and bound.     *)
(*                                                                         *)
(* TypeOK is not inductive by itself: Coalesce, AssignColor and            *)
(* ColorCoalesced follow GetAlias, and GetAlias of a node is a node only   *)
(* because aliases never form a cycle.  IInv adds that fact, and that      *)
(* RewriteProgram leaves a well-formed program behind, in which a spilled  *)
(* operand is named only where a spilled move lends it.                    *)
(***************************************************************************)
EXTENDS RegAlloc, AsmProgramProofs, SequenceTheorems

-----------------------------------------------------------------------------
(***************************************************************************)
(* Numbers and sets                                                        *)
(***************************************************************************)

\* Min of a non-empty set of operands, *okColors.begin(), is one of them.
LEMMA MinOfNodes ==
    ASSUME NEW S, S \subseteq Node, S # {}
    PROVE  Min(S) \in S
<1>1. S \subseteq Nat
  BY RegAllocAssumption DEF RegAllocAssumption, Node
<1>2. \E m \in S : \A k \in S : m <= k
  BY <1>1, NatHasLeast
<1> QED  BY <1>2 DEF Min

\* There are finitely many operands, so sets of them and of edges have a size.
LEMMA NodeFinite == IsFiniteSet(Node)
BY FS_Interval, RegAllocAssumption DEF RegAllocAssumption, Node

LEMMA CardinalityOfNodes ==
    ASSUME NEW S, S \subseteq Node
    PROVE  Cardinality(S) \in Nat
BY NodeFinite, FS_Subset, FS_CardinalityType

LEMMA CardinalityOfEdges ==
    ASSUME NEW S, S \subseteq Node \X Node
    PROVE  Cardinality(S) \in Nat
<1>1. IsFiniteSet(Node \X Node)
  BY NodeFinite, FS_Product
<1> QED  BY <1>1, FS_Subset, FS_CardinalityType

-----------------------------------------------------------------------------
(***************************************************************************)
(* Aliases                                                                 *)
(***************************************************************************)
\* A rank that falls from every coalesced node to its alias, and the root
\* in which the chain of aliases ends.
Ranked(root, rank) ==
    /\ root \in [Node -> Node \ coalescedNodes]
    /\ rank \in [Node -> Nat]
    /\ \A n \in Node \ coalescedNodes : root[n] = n
    /\ \A n \in coalescedNodes : root[n] = root[alias[n]] /\ rank[alias[n]] < rank[n]

AliasInv == \E root, rank : Ranked(root, rank)

\* GetAlias computes the root, so GetAlias terminates on every node.
LEMMA GetAliasIsRoot ==
    ASSUME coalescedNodes \subseteq Node, alias \in [Node -> Node],
           NEW root, NEW rank, Ranked(root, rank)
    PROVE  GetAlias = root
<1> DEFINE Eqn(g) == g = [n \in Node |-> IF n \in coalescedNodes THEN g[alias[n]] ELSE n]
<1>1. Eqn(root)
  BY DEF Ranked
<1>2. Eqn(GetAlias)
  <2>1. GetAlias = CHOOSE g : Eqn(g)
    BY DEF GetAlias
  <2> HIDE DEF Eqn
  <2> QED  BY <1>1, <2>1
<1>3. SUFFICES ASSUME NEW n \in Node, GetAlias[n] # root[n]
               PROVE  FALSE
  BY <1>2 DEF Ranked
<1> DEFINE wrong == {m \in Node : GetAlias[m] # root[m]}
<1>4. PICK r \in {rank[m] : m \in wrong} : \A k \in {rank[m] : m \in wrong} : r <= k
  <2>1. {rank[m] : m \in wrong} \subseteq Nat
    BY DEF Ranked
  <2>2. {rank[m] : m \in wrong} # {}
    BY <1>3
  <2> QED  BY <2>1, <2>2, NatHasLeast
<1>5. PICK m \in wrong : r = rank[m]
  BY <1>4
<1>6. m \in coalescedNodes
  <2>1. SUFFICES ASSUME m \notin coalescedNodes PROVE FALSE
    OBVIOUS
  <2>2. GetAlias[m] = m
    BY <1>2, <1>5, <2>1
  <2> QED  BY <2>1, <2>2, <1>5 DEF Ranked
<1>7. /\ alias[m] \in Node
      /\ GetAlias[m] = GetAlias[alias[m]]
      /\ root[m] = root[alias[m]]
      /\ rank[alias[m]] < rank[m]
      /\ rank[m] \in Nat /\ rank[alias[m]] \in Nat
  BY <1>2, <1>5, <1>6 DEF Ranked
<1>8. alias[m] \in wrong
  BY <1>5, <1>7
<1> QED  BY <1>4, <1>5, <1>7, <1>8

\* The alias of a node is a node that stands for itself.
LEMMA GetAliasType ==
    ASSUME coalescedNodes \subseteq Node, alias \in [Node -> Node], AliasInv
    PROVE  \A n \in Node : GetAlias[n] \in Node \ coalescedNodes
BY GetAliasIsRoot DEF AliasInv, Ranked

\* The same of the state after a step.
LEMMA GetAliasIsRootNext ==
    (coalescedNodes \subseteq Node /\ alias \in [Node -> Node]
       => \A root, rank : Ranked(root, rank) => GetAlias = root)'
<1>1. coalescedNodes \subseteq Node /\ alias \in [Node -> Node]
        => \A root, rank : Ranked(root, rank) => GetAlias = root
  BY GetAliasIsRoot
<1> QED  BY <1>1, PTL

\* With nothing coalesced every node stands for itself.
LEMMA AliasesOfNone ==
    coalescedNodes = {} /\ alias \in [Node -> Node] => \A n \in Node : GetAlias[n] = n
<1> SUFFICES ASSUME coalescedNodes = {}, alias \in [Node -> Node], NEW n \in Node
             PROVE  GetAlias[n] = n
  OBVIOUS
<1>1. Ranked([k \in Node |-> k], [k \in Node |-> 0])
  BY DEF Ranked
<1>2. GetAlias = [k \in Node |-> k]
  BY <1>1, GetAliasIsRoot
<1> QED  BY <1>2

\* No alias changes, or coalescedNodes is cleared, or v gets the alias u.
LEMMA AliasesKept ==
    ASSUME AliasInv, UNCHANGED aliases
    PROVE  AliasInv'
BY DEF AliasInv, Ranked, aliases

LEMMA AliasesCleared ==
    ASSUME coalescedNodes' = {}
    PROVE  AliasInv'
<1>1. Ranked([n \in Node |-> n], [n \in Node |-> 0])'
  BY DEF Ranked
<1> QED  BY <1>1 DEF AliasInv

LEMMA AliasesExtended ==
    ASSUME coalescedNodes \subseteq Node, alias \in [Node -> Node], AliasInv,
           NEW u \in Node \ coalescedNodes, NEW v \in Node \ coalescedNodes, u # v,
           coalescedNodes' = coalescedNodes \cup {v},
           alias' = [alias EXCEPT ![v] = u]
    PROVE  /\ AliasInv'
           /\ \A n \in Node : GetAlias'[n] = IF GetAlias[n] = v THEN u ELSE GetAlias[n]
<1>1. PICK root, rank : Ranked(root, rank)
  BY DEF AliasInv
<1> DEFINE root1 == [n \in Node |-> IF root[n] = v THEN u ELSE root[n]]
           rank1 == [n \in Node |-> IF root[n] = v THEN rank[n] + rank[u] + 1 ELSE rank[n]]
<1>2. root \in [Node -> Node \ coalescedNodes] /\ rank \in [Node -> Nat]
  BY <1>1 DEF Ranked
<1>3. \A n \in Node : /\ root1[n] = IF root[n] = v THEN u ELSE root[n]
                      /\ rank1[n] = IF root[n] = v THEN rank[n] + rank[u] + 1 ELSE rank[n]
  OBVIOUS
<1>4. root1 \in [Node -> Node \ coalescedNodes'] /\ rank1 \in [Node -> Nat]
  <2>1. ASSUME NEW n \in Node
        PROVE  /\ (IF root[n] = v THEN u ELSE root[n]) \in Node \ (coalescedNodes \cup {v})
               /\ (IF root[n] = v THEN rank[n] + rank[u] + 1 ELSE rank[n]) \in Nat
    <3>1. rank[n] \in Nat /\ rank[u] \in Nat /\ root[n] \in Node \ coalescedNodes
      BY <1>2
    <3>2. (IF root[n] = v THEN rank[n] + rank[u] + 1 ELSE rank[n]) \in Nat
      BY <3>1
    <3> QED  BY <3>1, <3>2
  <2> QED  BY <2>1
<1>5. /\ root[v] = v /\ root[u] = u
      /\ \A n \in Node \ coalescedNodes : root[n] = n
      /\ \A n \in coalescedNodes : root[n] = root[alias[n]] /\ rank[alias[n]] < rank[n]
  BY <1>1 DEF Ranked
<1> HIDE DEF root1, rank1
<1>6. ASSUME NEW n \in Node \ coalescedNodes'
      PROVE  root1[n] = n
  BY <1>3, <1>5
<1>7. ASSUME NEW n \in coalescedNodes'
      PROVE  root1[n] = root1[alias'[n]] /\ rank1[alias'[n]] < rank1[n]
  <2>1. CASE n = v
    <3>1. alias'[n] = u /\ root1[n] = u /\ root1[u] = u
      BY <2>1, <1>3, <1>5
    <3>2. rank1[n] = rank[v] + rank[u] + 1 /\ rank1[u] = rank[u]
      BY <2>1, <1>3, <1>5
    <3>3. rank[v] \in Nat /\ rank[u] \in Nat
      BY <1>2
    <3> QED  BY <3>1, <3>2, <3>3
  <2>2. CASE n # v
    <3>1. n \in coalescedNodes /\ alias'[n] = alias[n] /\ alias[n] \in Node /\ n \in Node
      BY <2>2
    <3>2. root[n] = root[alias[n]] /\ rank[alias[n]] < rank[n]
      BY <1>5, <3>1
    <3>3. rank[n] \in Nat /\ rank[u] \in Nat /\ rank[alias[n]] \in Nat
      BY <1>2, <3>1
    <3> QED  BY <3>1, <3>2, <3>3, <1>3
  <2> QED  BY <2>1, <2>2
<1>8. Ranked(root1, rank1)'
  BY <1>4, <1>6, <1>7 DEF Ranked
<1>9. GetAlias = root
  BY <1>1, GetAliasIsRoot
<1>10. GetAlias' = root1
  <2>1. coalescedNodes' \subseteq Node /\ alias' \in [Node -> Node]
    OBVIOUS
  <2> QED  BY <1>8, <2>1, GetAliasIsRootNext
<1> QED  BY <1>3, <1>8, <1>9, <1>10 DEF AliasInv

-----------------------------------------------------------------------------
(***************************************************************************)
(* Worklists                                                               *)
(***************************************************************************)
\* A record of three sets of operands.
WorklistsType == [simplify : SUBSET Node, freeze : SUBSET Node, spill : SUBSET Node]

LEMMA LoweredType ==
    ASSUME NEW w \in WorklistsType, NEW low \in SUBSET Node, NEW list, NEW live
    PROVE  Lowered(w, low, list, live) \in WorklistsType
BY DEF Lowered, WorklistsType

LEMMA AddWorkListType ==
    ASSUME NEW w \in WorklistsType, NEW n \in Node, NEW list, NEW live, NEW deg
    PROVE  AddWorkList(w, n, list, live, deg) \in WorklistsType
BY DEF AddWorkList, WorklistsType

\* What the invariant says of the sets an action assigns together.
WorklistsOK ==
    /\ simplifyWorklist \subseteq Node
    /\ freezeWorklist \subseteq Node
    /\ spillWorklist \subseteq Node

LEMMA SetWorklistsOK ==
    ASSUME NEW w \in WorklistsType, SetWorklists(w)
    PROVE  WorklistsOK'
BY DEF SetWorklists, WorklistsType, WorklistsOK

LEMMA WorklistsIsType ==
    ASSUME WorklistsOK
    PROVE  Worklists \in WorklistsType
BY DEF Worklists, WorklistsType, WorklistsOK

-----------------------------------------------------------------------------
(***************************************************************************)
(* Flattening                                                              *)
(***************************************************************************)
\* The function FlattenSeq evaluates at the last index.
AreFlattened(seqs, k, f) ==
    f = [i \in 1..k |-> IF i = 1 THEN seqs[i] ELSE f[i - 1] \o seqs[i]]

LEMMA FlattenSeqDef ==
    ASSUME NEW seqs
    PROVE  FlattenSeq(seqs) = IF Len(seqs) = 0 THEN seqs
                              ELSE (CHOOSE f : AreFlattened(seqs, Len(seqs), f))[Len(seqs)]
BY DEF FlattenSeq, AreFlattened

LEMMA FlattenedExists ==
    ASSUME NEW S, NEW seqs \in Seq(Seq(S)), NEW k \in 1..Len(seqs)
    PROVE  \E f : AreFlattened(seqs, k, f)
<1> DEFINE none == {j \in 1..Len(seqs) : ~\E f : AreFlattened(seqs, j, f)}
<1>1. SUFFICES ASSUME none # {} PROVE FALSE
  OBVIOUS
<1>2. PICK j \in none : \A i \in none : j <= i
  <2>1. none \subseteq Nat
    OBVIOUS
  <2> HIDE DEF none
  <2> QED  BY <1>1, <2>1, NatHasLeast
<1>3. j # 1
  <2>1. SUFFICES ASSUME j = 1 PROVE FALSE
    OBVIOUS
  <2> DEFINE f == [i \in 1..1 |-> seqs[i]]
  <2>2. AreFlattened(seqs, 1, f)
    BY DEF AreFlattened
  <2> QED  BY <1>2, <2>1, <2>2
<1>4. j - 1 \in 1..Len(seqs) /\ ~(j <= j - 1)
  BY <1>2, <1>3
<1>5. PICK g : AreFlattened(seqs, j - 1, g)
  BY <1>2, <1>4
<1> DEFINE last == g[j - 1] \o seqs[j]
           f    == [i \in 1..j |-> IF i = j THEN last ELSE g[i]]
<1>6. ASSUME NEW i \in 1..j
      PROVE  f[i] = IF i = 1 THEN seqs[i] ELSE f[i - 1] \o seqs[i]
  <2>1. CASE i = j
    <3>1. j - 1 \in 1..j /\ j - 1 # j
      BY <1>4
    <3> HIDE DEF last
    <3>2. f[j] = last /\ f[j - 1] = g[j - 1]
      BY <3>1
    <3> QED  BY <1>3, <2>1, <3>2 DEF last
  <2>2. CASE i # j
    <3>1. i \in 1..(j - 1)
      BY <1>2, <2>2
    <3>2. f[i] = g[i] /\ (i # 1 => f[i - 1] = g[i - 1])
      BY <3>1, <2>2
    <3>3. g[i] = IF i = 1 THEN seqs[i] ELSE g[i - 1] \o seqs[i]
      BY <1>5, <3>1 DEF AreFlattened
    <3> QED  BY <3>2, <3>3
  <2> QED  BY <2>1, <2>2
<1>7. f = [i \in 1..j |-> f[i]]
  OBVIOUS
<1> HIDE DEF f
<1>8. AreFlattened(seqs, j, f)
  BY <1>6, <1>7 DEF AreFlattened
<1> QED  BY <1>2, <1>8

\* Flattening lists over S gives a list over S.
LEMMA FlattenSeqType ==
    ASSUME NEW S, NEW seqs \in Seq(Seq(S))
    PROVE  FlattenSeq(seqs) \in Seq(S)
<1> DEFINE n == Len(seqs)
           f == CHOOSE g : AreFlattened(seqs, n, g)
           bad == {i \in 1..n : f[i] \notin Seq(S)}
<1>1. CASE n = 0
  BY <1>1, FlattenSeqDef, EmptySeq
<1>2. CASE n # 0
  <2>1. n \in 1..n /\ n \in Nat
    BY <1>2
  <2>2. AreFlattened(seqs, n, f)
    BY <2>1, FlattenedExists
  <2>3. \A i \in 1..n : f[i] = IF i = 1 THEN seqs[i] ELSE f[i - 1] \o seqs[i]
    <3> HIDE DEF f
    <3> QED  BY <2>2 DEF AreFlattened
  <2>4. bad = {}
    <3>1. SUFFICES ASSUME bad # {} PROVE FALSE
      OBVIOUS
    <3>2. PICK i \in bad : \A j \in bad : i <= j
      <4>1. bad \subseteq Nat
        OBVIOUS
      <4> HIDE DEF bad
      <4> QED  BY <3>1, <4>1, NatHasLeast
    <3> HIDE DEF f
    <3>3. seqs[i] \in Seq(S) /\ i # 1
      BY <2>3, <3>2
    <3>4. i - 1 \in 1..n /\ f[i - 1] \in Seq(S)
      BY <3>2, <3>3
    <3>5. f[i] = f[i - 1] \o seqs[i]
      BY <2>3, <3>2, <3>3
    <3> DEFINE x == f[i - 1]
               y == seqs[i]
    <3>6. x \o y \in Seq(S)
      <4>1. x \in Seq(S) /\ y \in Seq(S)
        BY <3>3, <3>4
      <4> HIDE DEF x, y
      <4> QED  BY <4>1, ConcatProperties
    <3> QED  BY <3>2, <3>5, <3>6
  <2> QED  BY <1>2, <2>1, <2>4, FlattenSeqDef
<1> QED  BY <1>1, <1>2

-----------------------------------------------------------------------------
(***************************************************************************)
(* Rewriting                                                               *)
(***************************************************************************)
\* What RewriteProgram leaves of v: an instruction it writes names v only
\* where v is one of the operands lent, and otherwise what was named before,
\* the new operands and machine registers.
Allowed(v, p) == (Occurring(p) \ {v}) \cup SpillOperands(v, p) \cup Regs

Rewritten(v, p) == {i \in Instruction : Def(i) \cup Use(i) \subseteq Allowed(v, p)}

LEMMA CodeType ==
    ASSUME NEW p \in Code
    PROVE  /\ IsFlowGraph(p)
           /\ \A b \in DOMAIN p :
                /\ p[b] \in [insts : Seq(Instruction), succ : SUBSET Nat]
                /\ \A k \in DOMAIN p[b].insts :
                      /\ p[b].insts[k] \in Instruction
                      /\ Def(p[b].insts[k]) \cup Use(p[b].insts[k]) \subseteq Occurring(p)
<1>1. IsFlowGraph(p) /\ p \in Seq([insts : Seq(Instruction), succ : SUBSET Nat])
  BY DEF Code
<1> HIDE DEF Code
<1>2. ASSUME NEW b \in DOMAIN p
      PROVE  p[b] \in [insts : Seq(Instruction), succ : SUBSET Nat]
  <2> DEFINE blocks == [insts : Seq(Instruction), succ : SUBSET Nat]
  <2>1. p \in Seq(blocks)
    BY <1>1
  <2> HIDE DEF blocks
  <2>2. p[b] \in blocks
    BY <2>1
  <2> QED  BY <2>2 DEF blocks
<1>3. ASSUME NEW b \in DOMAIN p, NEW k \in DOMAIN p[b].insts
      PROVE  p[b].insts[k] \in Instruction
  BY <1>2
<1>4. ASSUME NEW b \in DOMAIN p, NEW k \in DOMAIN p[b].insts
      PROVE  Def(p[b].insts[k]) \cup Use(p[b].insts[k]) \subseteq Occurring(p)
  BY DEF Occurring, Instructions
<1> QED  BY <1>1, <1>2, <1>3, <1>4

LEMMA LoadStoreRewritten ==
    ASSUME NEW p, NEW v, NEW n \in SpillOperands(v, p), n \in Node
    PROVE  Load(v, n) \in Rewritten(v, p) /\ Store(n) \in Rewritten(v, p)
<1>1. SP \in Node /\ Scratch \in Node /\ SP \in Regs /\ Scratch \in Regs
  BY RegAllocAssumption DEF RegAllocAssumption
<1>2. Load(v, n) \in Instruction /\ Store(n) \in Instruction
  BY <1>1 DEF Load, Store, Op, Inst, Instruction, IsMov
<1>3. Def(Load(v, n)) \cup Use(Load(v, n)) \subseteq Allowed(v, p)
  BY <1>1 DEF Load, Op, Inst, Def, Use, Allowed
<1>4. Def(Store(n)) \cup Use(Store(n)) \subseteq Allowed(v, p)
  BY <1>1 DEF Store, Op, Inst, Def, Use, Allowed
<1> QED  BY <1>2, <1>3, <1>4 DEF Rewritten

\* The rewritten instruction itself.
Body(v, p, b, k) ==
    LET i      == p[b].insts[k]
        stores == Stores(v, p, b, k)
        loads  == Loads(v, p, b, k)
        used   == CASE Carries(v, p, b, k)  -> Replace(i.use, v, DefOp(v, p, b, k - 1))
                    [] loads /\ ~IsMov(i)   -> Replace(i.use, v, UseOp(v, p, b, k))
                    [] OTHER                -> i.use
    IN  [i EXCEPT
           !.def = IF stores /\ ~IsMov(i) THEN Replace(@, v, DefOp(v, p, b, k)) ELSE @,
           !.use = used,
           !.isDeleted = @ \/ Drops(v, p, b, k) \/ (IsMov(i) /\ (stores \/ loads)),
           !.ends = IF IsMov(i) /\ Carries(v, p, b, k)
                    THEN <<dest(@), DefOp(v, p, b, k - 1)>> ELSE @]

LEMMA SpillInstDef ==
    ASSUME NEW v, NEW p, NEW b, NEW k
    PROVE  SpillInst(v, p, b, k) =
             (IF Loads(v, p, b, k) THEN <<Load(v, UseOp(v, p, b, k))>> ELSE <<>>)
               \o <<Body(v, p, b, k)>>
               \o (IF Stores(v, p, b, k) THEN <<Store(DefOp(v, p, b, k))>> ELSE <<>>)
BY DEF SpillInst, Body

\* An operand lent for a store is among SpillOperands, also where it is
\* carried to the next instruction, and so is one lent for a load.
LEMMA LentOperands ==
    ASSUME NEW v, NEW p, NEW b \in DOMAIN p, IsList(p[b].insts), NEW k \in DOMAIN p[b].insts
    PROVE  /\ Stores(v, p, b, k) => DefOp(v, p, b, k) \in SpillOperands(v, p)
           /\ Loads(v, p, b, k) => UseOp(v, p, b, k) \in SpillOperands(v, p)
           /\ Carries(v, p, b, k) => DefOp(v, p, b, k - 1) \in SpillOperands(v, p)
<1>1. \A j \in DOMAIN p[b].insts : Stores(v, p, b, j) => DefOp(v, p, b, j) \in SpillOperands(v, p)
  BY DEF SpillOperands
<1>2. Loads(v, p, b, k) => UseOp(v, p, b, k) \in SpillOperands(v, p)
  BY DEF SpillOperands
<1>3. Carries(v, p, b, k) => Stores(v, p, b, k - 1) /\ k - 1 \in DOMAIN p[b].insts
  BY DEF Carries, IsList
<1> QED  BY <1>1, <1>2, <1>3

LEMMA BodyRewritten ==
    ASSUME NEW p \in Code, NEW v, SpillOperands(v, p) \subseteq Node,
           NEW b \in DOMAIN p, NEW k \in DOMAIN p[b].insts
    PROVE  Body(v, p, b, k) \in Rewritten(v, p)
<1> DEFINE i      == p[b].insts[k]
           stores == Stores(v, p, b, k)
           loads  == Loads(v, p, b, k)
           drops  == Drops(v, p, b, k)
           carried == Carries(v, p, b, k)
           d      == DefOp(v, p, b, k)
           c      == DefOp(v, p, b, k - 1)
           u      == UseOp(v, p, b, k)
           ends1  == IF IsMov(i) /\ carried THEN <<dest(i.ends), c>> ELSE i.ends
           def1   == IF stores /\ ~IsMov(i) THEN Replace(i.def, v, d) ELSE i.def
           use1   == CASE carried            -> Replace(i.use, v, c)
                       [] loads /\ ~IsMov(i) -> Replace(i.use, v, u)
                       [] OTHER              -> i.use
           del1   == i.isDeleted \/ drops \/ (IsMov(i) /\ (stores \/ loads))
           body   == [ends |-> ends1, def |-> def1, use |-> use1, isDeleted |-> del1]
<1>1. /\ i.ends \in {<<>>} \cup Move /\ i.def \subseteq Node /\ i.use \subseteq Node
      /\ i.isDeleted \in BOOLEAN
      /\ IsMov(i) => dest(i.ends) \in i.def /\ i.use = {src(i.ends)}
      /\ i = [ends |-> i.ends, def |-> i.def, use |-> i.use, isDeleted |-> i.isDeleted]
  <2>1. i \in Instruction
    BY CodeType
  <2> HIDE DEF i
  <2> QED  BY <2>1 DEF Instruction
<1>2. Body(v, p, b, k) = body
  <2>1. Body(v, p, b, k) = [i EXCEPT !.def = def1, !.use = use1, !.isDeleted = del1, !.ends = ends1]
    BY DEF Body
  <2> HIDE DEF i, ends1, def1, use1, del1
  <2> QED  BY <1>1, <2>1
<1>3. /\ stores => d \in SpillOperands(v, p)
      /\ loads => u \in SpillOperands(v, p)
      /\ carried => c \in SpillOperands(v, p)
  BY LentOperands, CodeType DEF IsFlowGraph
<1>4. Def(i) \subseteq Occurring(p) /\ Use(i) \subseteq Occurring(p)
  BY CodeType
<1>5. /\ stores <=> v \in Def(i) /\ ~Param(v)
      /\ drops <=> v \in Def(i) /\ Param(v)
      /\ loads <=> v \in Use(i) /\ ~carried /\ ~drops
      /\ carried => v \in i.use
  BY DEF Stores, Drops, Loads, Carries
<1> HIDE DEF i, stores, loads, drops, carried, d, c, u
<1>6. def1 \subseteq Node /\ use1 \subseteq Node /\ del1 \in BOOLEAN
  BY <1>1, <1>3 DEF Replace
<1>7. ends1 \in {<<>>} \cup Move
  BY <1>1, <1>3 DEF Move, IsMov, dest
<1>8. IsMov(body) => dest(ends1) \in def1 /\ use1 = {src(ends1)}
  <2>1. CASE ~IsMov(i)
    BY <2>1 DEF IsMov
  <2>2. CASE IsMov(i) /\ carried
    BY <1>1, <1>5, <2>2 DEF Replace, dest, src
  <2>3. CASE IsMov(i) /\ ~carried
    BY <1>1, <2>3
  <2> QED  BY <2>1, <2>2, <2>3
<1>9. body \in Instruction
  <2> HIDE DEF ends1, def1, use1, del1
  <2> QED  BY <1>6, <1>7, <1>8 DEF Instruction
<1>10. Def(body) \subseteq Allowed(v, p)
  BY <1>1, <1>3, <1>4, <1>5 DEF Def, Allowed, Replace
<1>11. Use(body) \subseteq Allowed(v, p)
  BY <1>1, <1>3, <1>4, <1>5 DEF Use, Def, Allowed, Replace
<1> QED  BY <1>2, <1>9, <1>10, <1>11 DEF Rewritten

LEMMA SpillInstRewritten ==
    ASSUME NEW p \in Code, NEW v, SpillOperands(v, p) \subseteq Node,
           NEW b \in DOMAIN p, NEW k \in DOMAIN p[b].insts
    PROVE  SpillInst(v, p, b, k) \in Seq(Rewritten(v, p))
<1> DEFINE S     == Rewritten(v, p)
           load  == Load(v, UseOp(v, p, b, k))
           store == Store(DefOp(v, p, b, k))
           body  == Body(v, p, b, k)
           pre   == IF Loads(v, p, b, k) THEN <<load>> ELSE <<>>
           post  == IF Stores(v, p, b, k) THEN <<store>> ELSE <<>>
<1>1. IsList(p[b].insts)
  BY CodeType DEF IsFlowGraph
<1>2. body \in S
  BY BodyRewritten
<1>3. Loads(v, p, b, k) => load \in S
  BY <1>1, LentOperands, LoadStoreRewritten
<1>4. Stores(v, p, b, k) => store \in S
  BY <1>1, LentOperands, LoadStoreRewritten
<1> HIDE DEF S, load, store, body
<1>5. pre \in Seq(S) /\ post \in Seq(S) /\ <<body>> \in Seq(S)
  BY <1>2, <1>3, <1>4
<1> HIDE DEF pre, post
<1>6. pre \o <<body>> \in Seq(S)
  BY <1>5, ConcatProperties
<1>7. (pre \o <<body>>) \o post \in Seq(S)
  <2> DEFINE x == pre \o <<body>>
  <2>1. x \in Seq(S)
    BY <1>6
  <2> HIDE DEF x
  <2>2. x \o post \in Seq(S)
    BY <1>5, <2>1, ConcatProperties
  <2> QED  BY <2>2 DEF x
<1> QED  BY <1>7, SpillInstDef DEF S, load, store, body, pre, post

\* Rewriting keeps a program a program, and takes v out of it.
LEMMA SpillCodeRewrites ==
    ASSUME NEW p \in Code, NEW v, SpillOperands(v, p) \subseteq Node
    PROVE  SpillCode(v, p) \in Code /\ Occurring(SpillCode(v, p)) \subseteq Allowed(v, p)
<1> DEFINE S      == Rewritten(v, p)
           q      == SpillCode(v, p)
           list(b) == FlattenSeq([k \in DOMAIN p[b].insts |-> SpillInst(v, p, b, k)])
<1>1. IsList(p) /\ \A b \in DOMAIN p : IsList(p[b].insts) /\ p[b].succ \subseteq DOMAIN p
                                         /\ p[b].succ \subseteq Nat
  BY CodeType DEF IsFlowGraph
<1>2. ASSUME NEW b \in DOMAIN p
      PROVE  list(b) \in Seq(S)
  <2> DEFINE n      == Len(p[b].insts)
             pieces == [k \in DOMAIN p[b].insts |-> SpillInst(v, p, b, k)]
  <2>1. n \in Nat /\ DOMAIN p[b].insts = 1..n
    BY <1>1 DEF IsList
  <2>2. \A k \in 1..n : SpillInst(v, p, b, k) \in Seq(S)
    BY <2>1, SpillInstRewritten
  <2>3. pieces \in [1..n -> Seq(S)]
    BY <2>1, <2>2
  <2> HIDE DEF pieces, S, n
  <2>4. pieces \in Seq(Seq(S))
    BY <2>1, <2>3, SeqDef
  <2>5. FlattenSeq(pieces) \in Seq(S)
    BY <2>4, FlattenSeqType
  <2> QED  BY <2>5 DEF pieces
<1> HIDE DEF list
<1>3. /\ q = [b \in DOMAIN p |-> [p[b] EXCEPT !.insts = list(b)]]
      /\ \A b \in DOMAIN p : p[b] \in [insts : Seq(Instruction), succ : SUBSET Nat]
  BY CodeType DEF SpillCode, list
<1> HIDE DEF q
<1>4. \A b \in DOMAIN p : q[b] = [insts |-> list(b), succ |-> p[b].succ]
  BY <1>3
<1>5. \A b \in DOMAIN p : list(b) \in Seq(Instruction)
  <2>1. S \subseteq Instruction
    BY DEF Rewritten
  <2> HIDE DEF S
  <2> QED  BY <1>2, <2>1, SeqMonotonic
<1>6. DOMAIN q = DOMAIN p /\ Len(p) \in Nat /\ DOMAIN p = 1..Len(p)
  BY <1>1, <1>3 DEF IsList
<1>7. q \in [1..Len(p) -> [insts : Seq(Instruction), succ : SUBSET Nat]]
  <2>1. ASSUME NEW b \in DOMAIN p
        PROVE  q[b] \in [insts : Seq(Instruction), succ : SUBSET Nat]
    <3>1. list(b) \in Seq(Instruction) /\ p[b].succ \in SUBSET Nat
      BY <1>1, <1>5
    <3>2. q[b] = [insts |-> list(b), succ |-> p[b].succ]
      BY <1>4
    <3> QED  BY <3>1, <3>2
  <2>2. q = [b \in 1..Len(p) |-> q[b]]
    BY <1>3, <1>6
  <2> QED  BY <1>6, <2>1, <2>2
<1>8. q \in Seq([insts : Seq(Instruction), succ : SUBSET Nat])
  <2> DEFINE T == [insts : Seq(Instruction), succ : SUBSET Nat]
  <2>1. q \in [1..Len(p) -> T]
    BY <1>7
  <2> HIDE DEF T
  <2>2. q \in Seq(T)
    BY <1>6, <2>1, SeqDef
  <2> QED  BY <2>2 DEF T
<1>9. IsFlowGraph(q)
  <2>1. IsList(q)
    BY <1>6, <1>8, LenProperties DEF IsList
  <2>2. ASSUME NEW b \in DOMAIN q
        PROVE  IsList(q[b].insts) /\ q[b].succ \subseteq DOMAIN q
    <3>1. q[b].insts \in Seq(Instruction) /\ q[b].succ = p[b].succ
      BY <1>4, <1>5, <1>6, <2>2
    <3>2. IsList(q[b].insts)
      BY <3>1, LenProperties DEF IsList
    <3> QED  BY <1>1, <1>6, <3>1, <3>2
  <2> QED  BY <2>1, <2>2 DEF IsFlowGraph
<1>10. ASSUME NEW b \in DOMAIN q, NEW k \in DOMAIN q[b].insts
       PROVE  Def(q[b].insts[k]) \cup Use(q[b].insts[k]) \subseteq Allowed(v, p)
  <2>1. q[b].insts \in Seq(S)
    BY <1>2, <1>4, <1>6
  <2>2. q[b].insts[k] \in S
    <3> HIDE DEF S
    <3> QED  BY <2>1
  <2> QED  BY <2>2 DEF Rewritten
<1>11. Occurring(q) \subseteq Allowed(v, p)
  BY <1>10 DEF Occurring, Instructions
<1> QED  BY <1>8, <1>9, <1>11 DEF Code, q

-----------------------------------------------------------------------------
(***************************************************************************)
(* The inductive invariant                                                 *)
(***************************************************************************)
\* A machine register stands for itself: Combine never gives it away.
NoREGCoalesced == coalescedNodes \cap Regs = {}

IInv == TypeOK /\ AliasInv /\ NoREGCoalesced /\ prog \in Code

LEMMA BuildType ==
    ASSUME TypeOK, Build
    PROVE  TypeOK'
<1> DEFINE edges == Interference(prog)
           mvs   == {i.ends : i \in MoveInsts(prog)}
<1>1. edges \subseteq Node \X Node /\ mvs \subseteq Move
  BY RegAllocAssumption DEF RegAllocAssumption, Interference, MoveInsts, Move
<1>2. adjSet' \subseteq Node \X Node
  BY <1>1 DEF TypeOK, Build
<1>3. degree' \in [Node -> Int]
  <2>1. ASSUME NEW n \in Node
        PROVE  /\ degree[n] \in Int
               /\ Cardinality({e \in edges \ adjSet : e[1] = n}) \in Nat
    BY <1>1, CardinalityOfEdges DEF TypeOK
  <2> HIDE DEF edges
  <2>2. ASSUME NEW n \in Node
        PROVE  degree[n] + Cardinality({e \in edges \ adjSet : e[1] = n}) \in Int
    BY <2>1
  <2>3. degree' = [n \in Node |->
                     IF n \in Regs THEN degree[n]
                     ELSE degree[n] + Cardinality({e \in edges \ adjSet : e[1] = n})]
    BY DEF Build, edges
  <2> QED  BY <2>1, <2>2, <2>3
<1>4. moveList' \in [Node -> SUBSET Move] /\ worklistMoves' \subseteq Move
  BY <1>1 DEF TypeOK, Build
<1> HIDE DEF edges, mvs
<1> QED  BY <1>2, <1>3, <1>4 DEF TypeOK, Build, worklists, aliases, colouring, rewriting

LEMMA MkWorklistType ==
    ASSUME TypeOK, MkWorklist
    PROVE  TypeOK'
BY DEF TypeOK, MkWorklist, aliases, graph, moves, colouring, rewriting

\* EnableMoves enables moves.
LEMMA EnabledType ==
    ASSUME activeMoves \subseteq Move, NEW low, NEW list, NEW edges, NEW removed
    PROVE  Enabled(low, list, edges, removed) \subseteq Move
BY DEF Enabled

LEMMA SimplifyType ==
    ASSUME TypeOK, NEW n \in simplifyWorklist, Simplify(n)
    PROVE  TypeOK'
<1> DEFINE removed == Removed(selectStack', coalescedNodes)
           adj     == Adjacent(n, adjSet, removed)
           low     == {m \in adj : degree[m] = K}
           w       == [Worklists EXCEPT !.simplify = @ \ {n}]
<1>1. adj \subseteq Node
  BY DEF Adjacent, AdjList
<1>2. degree' \in [Node -> Int]
  <2> HIDE DEF adj
  <2>1. degree' = [m \in Node |-> IF m \in adj THEN degree[m] - 1 ELSE degree[m]]
    BY DEF Simplify, adj
  <2> QED  BY <2>1 DEF TypeOK
<1>3. WorklistsOK'
  <2>1. WorklistsOK
    BY DEF TypeOK, WorklistsOK
  <2>2. w \in WorklistsType
    BY <2>1 DEF Worklists, WorklistsOK, WorklistsType
  <2>3. low \in SUBSET Node
    BY <1>1
  <2>4. SetWorklists(Lowered(w, low, moveList, LiveMoves))
    BY DEF Simplify
  <2> HIDE DEF w, low
  <2> QED  BY <2>2, <2>3, <2>4, LoweredType, SetWorklistsOK
<1>4. activeMoves' \subseteq Move /\ worklistMoves' \subseteq Move
  BY EnabledType DEF TypeOK, Simplify
<1>5. selectStack' \in Seq(Node)
  BY DEF TypeOK, Simplify
<1> QED  BY <1>2, <1>3, <1>4, <1>5
         DEF TypeOK, Simplify, WorklistsOK, aliases, colouring, rewriting

\* Coalesce works on two nodes that stand for themselves.
LEMMA MoveEndsType ==
    ASSUME TypeOK, AliasInv, NEW m \in worklistMoves
    PROVE  /\ MoveEnds(m)[1] \in Node \ coalescedNodes
           /\ MoveEnds(m)[2] \in Node \ coalescedNodes
<1>1. src(m) \in Node /\ dest(m) \in Node
  BY DEF TypeOK, Move, src, dest
<1>2. GetAlias[src(m)] \in Node \ coalescedNodes /\ GetAlias[dest(m)] \in Node \ coalescedNodes
  BY <1>1, GetAliasType DEF TypeOK
<1> QED  BY <1>2 DEF MoveEnds

LEMMA CoalesceSameType ==
    ASSUME TypeOK, AliasInv, NEW m \in worklistMoves, CoalesceSame(m)
    PROVE  TypeOK'
<1>1. WorklistsOK'
  <2>1. Worklists \in WorklistsType
    BY WorklistsIsType DEF TypeOK, WorklistsOK
  <2> QED  BY <2>1, MoveEndsType, AddWorkListType, SetWorklistsOK DEF CoalesceSame
<1> QED  BY <1>1 DEF TypeOK, CoalesceSame, WorklistsOK, aliases, graph, colouring, rewriting

LEMMA CoalesceConstrainedType ==
    ASSUME TypeOK, AliasInv, NEW m \in worklistMoves, CoalesceConstrained(m)
    PROVE  TypeOK'
<1>1. WorklistsOK'
  <2>1. Worklists \in WorklistsType
    BY WorklistsIsType DEF TypeOK, WorklistsOK
  <2> DEFINE u    == MoveEnds(m)[1]
             v    == MoveEnds(m)[2]
             live == LiveMoves \ {m}
             w    == AddWorkList(Worklists, u, moveList, live, degree)
  <2>2. w \in WorklistsType
    BY <2>1, MoveEndsType, AddWorkListType
  <2>3. SetWorklists(AddWorkList(w, v, moveList, live, degree))
    BY DEF CoalesceConstrained
  <2>4. v \in Node
    BY MoveEndsType
  <2> HIDE DEF u, v, w, live
  <2> QED  BY <2>2, <2>3, <2>4, AddWorkListType, SetWorklistsOK
<1> QED  BY <1>1 DEF TypeOK, CoalesceConstrained, WorklistsOK, aliases, graph, colouring, rewriting

LEMMA CoalesceDeferType ==
    ASSUME TypeOK, NEW m \in worklistMoves, CoalesceDefer(m)
    PROVE  TypeOK'
BY DEF TypeOK, CoalesceDefer, worklists, aliases, graph, colouring, rewriting

\* FreezeMoves names ends of moves; they are operands.
LEMMA FreezeMovesType ==
    ASSUME TypeOK, NEW u, NEW w \in WorklistsType, FreezeMoves(u, w)
    PROVE  WorklistsOK' /\ activeMoves' \subseteq Move /\ worklistMoves' \subseteq Move
<1> DEFINE frozen == NodeMoves(u, moveList, LiveMoves)
<1>1. PICK order \in Orders(frozen) :
        /\ SetWorklists([w EXCEPT !.freeze = @ \ Freed(u, frozen, order),
                                  !.simplify = @ \cup Freed(u, frozen, order)])
        /\ activeMoves' = activeMoves \ frozen
        /\ worklistMoves' = worklistMoves \ frozen
  BY DEF FreezeMoves
<1>2. frozen \subseteq Move
  BY DEF TypeOK, NodeMoves, LiveMoves
<1>3. Freed(u, frozen, order) \subseteq Node
  BY <1>2 DEF Freed, Other, Move, dest, src
<1>4. WorklistsOK'
  BY <1>1, <1>3 DEF WorklistsOK, SetWorklists, WorklistsType
<1> QED  BY <1>1, <1>4 DEF TypeOK

LEMMA FreezeType ==
    ASSUME TypeOK, NEW u \in freezeWorklist, Freeze(u)
    PROVE  TypeOK'
<1> DEFINE w == [Worklists EXCEPT !.freeze = @ \ {u}, !.simplify = @ \cup {u}]
<1>1. w \in WorklistsType
  BY DEF TypeOK, Worklists, WorklistsType
<1>2. WorklistsOK' /\ activeMoves' \subseteq Move /\ worklistMoves' \subseteq Move
  BY <1>1, FreezeMovesType DEF Freeze
<1> QED  BY <1>2 DEF TypeOK, WorklistsOK, Freeze, aliases, graph, colouring, rewriting

LEMMA SelectSpillType ==
    ASSUME TypeOK, NEW u \in spillWorklist, SelectSpill(u)
    PROVE  TypeOK'
<1> DEFINE w == [Worklists EXCEPT !.spill = @ \ {u}, !.simplify = @ \cup {u}]
<1>1. w \in WorklistsType
  BY DEF TypeOK, Worklists, WorklistsType
<1>2. WorklistsOK' /\ activeMoves' \subseteq Move /\ worklistMoves' \subseteq Move
  BY <1>1, FreezeMovesType DEF SelectSpill
<1> QED  BY <1>2 DEF TypeOK, WorklistsOK, SelectSpill, aliases, graph, colouring, rewriting

LEMMA EndSelectType ==
    ASSUME TypeOK, EndSelect
    PROVE  TypeOK'
BY DEF TypeOK, EndSelect, worklists, aliases, graph, moves, colouring, rewriting

LEMMA AssignColorType ==
    ASSUME TypeOK, AssignColor
    PROVE  TypeOK'
<1>1. Last(selectStack) \in Node /\ Front(selectStack) \in Seq(Node)
  BY DEF TypeOK, AssignColor, Last, Front
<1>2. color' \in [Node -> Colors]
  <2>1. CASE OkColors(Last(selectStack)) = {}
    BY <2>1 DEF TypeOK, AssignColor
  <2>2. CASE OkColors(Last(selectStack)) # {}
    <3>1. OkColors(Last(selectStack)) \subseteq Colors /\ Colors \subseteq Node
      BY RegAllocAssumption DEF RegAllocAssumption, OkColors
    <3>2. Min(OkColors(Last(selectStack))) \in Colors
      BY <3>1, <2>2, MinOfNodes
    <3> QED  BY <3>2, <2>2 DEF TypeOK, AssignColor
  <2> QED  BY <2>1, <2>2
<1>3. coloredNodes' \subseteq Node /\ spilledNodes' \subseteq Node
  BY <1>1 DEF TypeOK, AssignColor
<1> QED  BY <1>1, <1>2, <1>3 DEF TypeOK, AssignColor, worklists, aliases, graph, moves, rewriting

LEMMA ColorCoalescedType ==
    ASSUME TypeOK, AliasInv, ColorCoalesced
    PROVE  TypeOK'
<1>1. color' \in [Node -> Colors]
  BY GetAliasType DEF TypeOK, ColorCoalesced
<1> QED  BY <1>1 DEF TypeOK, ColorCoalesced, worklists, graph, moves, rewriting

LEMMA RewriteType ==
    ASSUME TypeOK,
           NEW v \in spilledNodes, RetrySpilled(v) \/ RewriteSpilled(v)
    PROVE  TypeOK'
<1>1. CASE RetrySpilled(v)
  BY <1>1 DEF TypeOK, RetrySpilled, worklists, aliases, graph, moves
<1>2. CASE RewriteSpilled(v)
  BY <1>2 DEF TypeOK, RewriteSpilled, worklists, aliases, graph, moves
<1> QED  BY <1>1, <1>2

LEMMA EndRewriteType ==
    ASSUME TypeOK, EndRewrite
    PROVE  TypeOK'
BY DEF TypeOK, EndRewrite, worklists, graph, moves

\* Combine: v stops standing for itself, and it was not a register.
LEMMA CoalesceCombineType ==
    ASSUME TypeOK, AliasInv, NEW m \in worklistMoves, CoalesceCombine(m)
    PROVE  TypeOK'
<1> DEFINE u       == MoveEnds(m)[1]
           v       == MoveEnds(m)[2]
           removed == Removed(selectStack, coalescedNodes')
           adj     == Adjacent(v, adjSet, removed)
           gained  == {t \in adj : <<t, u>> \notin adjSet /\ t # u}
           up(n)   == CASE n \in Regs  -> 0
                        [] n = u       -> Cardinality(gained)
                        [] n \in gained -> 1
                        [] OTHER       -> 0
           low     == {t \in adj : degree[t] + up(t) = K}
           live    == LiveMoves \ {m}
           enabled == Enabled(low, moveList', adjSet', removed)
           w1 == IF v \in freezeWorklist
                 THEN [Worklists EXCEPT !.freeze = @ \ {v}]
                 ELSE [Worklists EXCEPT !.spill = @ \ {v}]
           w2 == Lowered(w1, low, moveList', live)
           w3 == IF degree'[u] >= K /\ u \in w2.freeze
                 THEN [w2 EXCEPT !.freeze = @ \ {u}, !.spill = @ \cup {u}]
                 ELSE w2
<1>1. /\ coalescedNodes' = coalescedNodes \cup {v}
      /\ alias' = [alias EXCEPT ![v] = u]
      /\ moveList' = MergedMoves(u, v)
      /\ adjSet' = adjSet \cup (gained \X {u}) \cup ({u} \X gained)
      /\ degree' = [n \in Node |->
                      degree[n] + up(n) - (IF n \in adj THEN 1 ELSE 0)]
      /\ activeMoves' = activeMoves \ enabled
      /\ worklistMoves' = (worklistMoves \ {m}) \cup enabled
      /\ SetWorklists(AddWorkList(w3, u, moveList', live, degree'))
  BY DEF CoalesceCombine
<1>2. u \in Node /\ v \in Node
  BY MoveEndsType
<1>3. adj \subseteq Node /\ gained \subseteq Node
  BY DEF Adjacent, AdjList
<1>4. degree' \in [Node -> Int]
  <2>1. Cardinality(gained) \in Nat
    BY <1>3, CardinalityOfNodes
  <2> HIDE DEF gained, adj, u
  <2>2. ASSUME NEW n \in Node
        PROVE  up(n) \in Int
    BY <2>1
  <2> HIDE DEF up
  <2>3. ASSUME NEW n \in Node
        PROVE  degree[n] + up(n) - (IF n \in adj THEN 1 ELSE 0) \in Int
    <3>1. degree[n] \in Int /\ up(n) \in Int
      BY <2>2 DEF TypeOK
    <3> QED  BY <3>1
  <2> QED  BY <1>1, <2>3
<1>5. moveList' \in [Node -> SUBSET Move]
  BY <1>1, <1>2 DEF TypeOK, MergedMoves
<1>6. enabled \subseteq Move
  BY EnabledType DEF TypeOK
<1>7. WorklistsOK'
  <2>1. w1 \in WorklistsType
    BY DEF TypeOK, Worklists, WorklistsType
  <2>2. low \in SUBSET Node
    BY <1>3
  <2> HIDE DEF w1, low
  <2>3. w2 \in WorklistsType
    BY <2>1, <2>2, LoweredType
  <2> HIDE DEF w2
  <2>4. w3 \in WorklistsType
    BY <2>3, <1>2 DEF WorklistsType
  <2> HIDE DEF w3, u, live
  <2> QED  BY <1>1, <1>2, <2>4, AddWorkListType, SetWorklistsOK
<1>8. adjSet' \subseteq Node \X Node
  BY <1>1, <1>2, <1>3 DEF TypeOK
<1>9. UNCHANGED <<pc, initial, selectStack, colouring, rewriting, lifespan>>
  BY DEF CoalesceCombine
<1>10. /\ coalescedNodes' \subseteq Node /\ alias' \in [Node -> Node]
       /\ worklistMoves' \subseteq Move /\ activeMoves' \subseteq Move
  <2> HIDE DEF u, v, enabled
  <2> QED  BY <1>1, <1>2, <1>6 DEF TypeOK
<1> HIDE DEF u, v, removed, adj, gained, up, low, live, enabled, w1, w2, w3
<1> QED  BY <1>4, <1>5, <1>7, <1>8, <1>9, <1>10 DEF TypeOK, WorklistsOK, colouring, rewriting

-----------------------------------------------------------------------------
(***************************************************************************)
(* The invariant holds                                                     *)
(***************************************************************************)
LEMMA InitIInv == Init => IInv
<1> SUFFICES ASSUME Init PROVE IInv
  OBVIOUS
<1>1. Colors \subseteq Node /\ 0 \in Colors
  BY RegAllocAssumption DEF RegAllocAssumption
<1>2. TypeOK
  BY <1>1 DEF Init, TypeOK
<1>3. Ranked([n \in Node |-> n], [n \in Node |-> 0])
  BY DEF Init, Ranked
<1>4. prog \in Code
  BY RegAllocAssumption DEF RegAllocAssumption, Init
<1> QED  BY <1>2, <1>3, <1>4 DEF Init, IInv, AliasInv, NoREGCoalesced

LEMMA TypePreserved == ASSUME IInv, [Next]_vars PROVE TypeOK'
<1>1. CASE UNCHANGED vars
  BY <1>1 DEF IInv, TypeOK, vars, worklists, aliases, graph, moves, colouring, rewriting
<1>2. ASSUME NEW m \in worklistMoves, Coalesce(m)
      PROVE  TypeOK'
  BY <1>2, CoalesceSameType, CoalesceConstrainedType, CoalesceCombineType,
     CoalesceDeferType DEF IInv, Coalesce
<1> QED  BY <1>1, <1>2, BuildType, MkWorklistType, SimplifyType, FreezeType,
            SelectSpillType, EndSelectType, AssignColorType, ColorCoalescedType,
            RewriteType, EndRewriteType DEF IInv, Next

LEMMA AliasPreserved == ASSUME IInv, [Next]_vars PROVE AliasInv' /\ NoREGCoalesced'
<1>1. CASE UNCHANGED aliases
  BY <1>1, AliasesKept DEF IInv, NoREGCoalesced, aliases
<1>2. CASE coalescedNodes' = {}
  BY <1>2, AliasesCleared DEF NoREGCoalesced
<1>3. ASSUME NEW m \in worklistMoves, CoalesceCombine(m)
      PROVE  AliasInv' /\ NoREGCoalesced'
  <2> DEFINE u == MoveEnds(m)[1]
             v == MoveEnds(m)[2]
  <2>1. /\ u \in Node \ coalescedNodes
        /\ v \in Node \ coalescedNodes
    BY MoveEndsType DEF IInv
  <2>2. /\ u # v /\ v \notin Regs
        /\ coalescedNodes' = coalescedNodes \cup {v}
        /\ alias' = [alias EXCEPT ![v] = u]
    BY <1>3 DEF CoalesceCombine, Constrained
  <2> HIDE DEF u, v
  <2>3. AliasInv'
    BY <2>1, <2>2, AliasesExtended DEF IInv, TypeOK
  <2> QED  BY <2>2, <2>3 DEF IInv, NoREGCoalesced
<1>4. CASE Next
  BY <1>1, <1>2, <1>3, <1>4
     DEF Next, Build, MkWorklist, Simplify, Coalesce, CoalesceSame,
         CoalesceConstrained, CoalesceDefer, Freeze, SelectSpill, EndSelect,
         AssignColor, ColorCoalesced, RetrySpilled, RewriteSpilled, EndRewrite
<1> QED  BY <1>1, <1>4 DEF vars

LEMMA ProgramPreserved == ASSUME IInv, [Next]_vars PROVE prog' \in Code
<1>1. CASE UNCHANGED rewriting
  BY <1>1 DEF IInv, rewriting
<1>2. ASSUME NEW v \in spilledNodes, RewriteSpilled(v)
      PROVE  prog' \in Code
  BY <1>2, SpillCodeRewrites DEF IInv, RewriteSpilled
<1>3. CASE Next
  BY <1>1, <1>2, <1>3
     DEF Next, IInv, Build, MkWorklist, Simplify, Coalesce, CoalesceSame,
         CoalesceConstrained, CoalesceCombine, CoalesceDefer, Freeze, SelectSpill,
         EndSelect, AssignColor, ColorCoalesced, RetrySpilled, EndRewrite
<1> QED  BY <1>1, <1>3 DEF vars

THEOREM Invariance == Spec => []IInv
<1>1. IInv /\ [Next]_vars => IInv'
  BY TypePreserved, AliasPreserved, ProgramPreserved DEF IInv
<1> QED  BY InitIInv, <1>1, PTL DEF Spec

\* Whatever program is allocated with whatever registers, and however the
\* sets are walked, every table keeps to operands, every colour given is an
\* allocatable register and following aliases always ends.
THEOREM TypeCorrect == Spec => []TypeOK
<1>1. IInv => TypeOK
  BY DEF IInv
<1> QED  BY Invariance, <1>1, PTL
=============================================================================
