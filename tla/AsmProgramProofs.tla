-------------------------- MODULE AsmProgramProofs --------------------------
(***************************************************************************)
(* What AsmProgram!LiveOut computes, for every control flow: the operands  *)
(* with a walk to a use on which nothing redefines them.                   *)
(*                                                                         *)
(* A walk of n blocks is found by round n of the iteration (RoundsFind),   *)
(* and a walk with more blocks than the function has visits one twice, so  *)
(* the part between the two visits can be left out (ShortWalk).            *)
(***************************************************************************)
EXTENDS AsmProgram, TLAPS, FiniteSetTheorems, WellFoundedInduction

-----------------------------------------------------------------------------
\* Every non-empty set of naturals has a least element.
LEMMA NatHasLeast ==
    ASSUME NEW S, S \subseteq Nat, S # {}
    PROVE  \E m \in S : \A k \in S : m <= k
<1> DEFINE below == {0 .. (k - 1) : k \in S}
<1>1. below \subseteq FiniteSubsetsOf(Nat)
  <2>1. \A k \in S : IsFiniteSet(0 .. (k - 1))
    BY FS_Interval
  <2> QED  BY <2>1 DEF FiniteSubsetsOf
<1>2. below # {}
  OBVIOUS
<1>3. PICK x \in below : \A y \in below : <<y, x>> \notin StrictSubsetOrdering(Nat)
  <2> HIDE DEF below
  <2> QED  BY <1>1, <1>2, WFMin, FS_StrictSubsetOrderingWellFounded
<1>4. PICK m \in S : x = 0 .. (m - 1)
  BY <1>3
<1>5. ASSUME NEW k \in S, k < m
      PROVE  FALSE
  <2>1. 0 .. (k - 1) \in below
    OBVIOUS
  <2>2. <<0 .. (k - 1), x>> \in StrictSubsetOrdering(Nat)
    BY <1>4, <1>5 DEF StrictSubsetOrdering
  <2> QED  BY <2>1, <2>2, <1>3
<1> QED  BY <1>5

-----------------------------------------------------------------------------
(***************************************************************************)
(* Blocks                                                                  *)
(***************************************************************************)
\* Block b of p uses v before any definition of it; b defines v.
ExposedIn(p, b, v) ==
    \E k \in DOMAIN p[b].insts :
        /\ v \in Use(p[b].insts[k])
        /\ \A j \in 1..(k - 1) : v \notin Def(p[b].insts[j])

KilledIn(p, b, v) == \E k \in DOMAIN p[b].insts : v \in Def(p[b].insts[k])

LEMMA UpwardUseExposed ==
    ASSUME NEW p, NEW b, NEW v
    PROVE  v \in UpwardUse(p[b].insts) <=> ExposedIn(p, b, v)
BY DEF UpwardUse, ExposedIn

\* The summary FirstDef leaves out what the block uses before it defines it;
\* such an operand is in UpwardUse, so the equation for livein means what it
\* should.
LEMMA TransferMeaning ==
    ASSUME NEW p, NEW b, IsList(p[b].insts), NEW X, NEW v
    PROVE  v \in UpwardUse(p[b].insts) \cup (X \ FirstDef(p[b].insts))
             <=> ExposedIn(p, b, v) \/ (v \in X /\ ~KilledIn(p, b, v))
<1> DEFINE s    == p[b].insts
           defs == {k \in DOMAIN s : v \in Def(s[k])}
<1>1. DOMAIN s = 1..Len(s) /\ Len(s) \in Nat
  BY DEF IsList
<1>2. v \in FirstDef(s) => KilledIn(p, b, v)
  BY DEF FirstDef, KilledIn
<1>3. ASSUME KilledIn(p, b, v), v \notin FirstDef(s)
      PROVE  ExposedIn(p, b, v)
  <2>1. defs # {} /\ defs \subseteq Nat
    BY <1>1, <1>3 DEF KilledIn
  <2>2. PICK k \in defs : \A m \in defs : k <= m
    BY <2>1, NatHasLeast
  <2>3. PICK j \in 1..k : v \in Use(s[j])
    BY <1>3, <2>2 DEF FirstDef
  <2>4. j \in DOMAIN s /\ \A m \in 1..(j - 1) : v \notin Def(s[m])
    BY <1>1, <2>2, <2>3
  <2> QED  BY <2>3, <2>4 DEF ExposedIn
<1> QED  BY <1>2, <1>3, UpwardUseExposed

-----------------------------------------------------------------------------
(***************************************************************************)
(* Walks                                                                   *)
(***************************************************************************)
\* A walk of n blocks from b to a use of v, through blocks that keep v.
WalkToUse(p, b, v, n, path) ==
    /\ path[1] = b
    /\ \A i \in 1..(n - 1) : path[i + 1] \in p[path[i]].succ /\ ~KilledIn(p, path[i], v)
    /\ ExposedIn(p, path[n], v)

LiveInBy(p, b, v, n) == \E path \in [1..n -> DOMAIN p] : WalkToUse(p, b, v, n, path)

LEMMA WalkOfOne ==
    ASSUME NEW p, NEW b \in DOMAIN p, NEW v
    PROVE  LiveInBy(p, b, v, 1) <=> ExposedIn(p, b, v)
<1>1. ASSUME ExposedIn(p, b, v)
      PROVE  LiveInBy(p, b, v, 1)
  <2> DEFINE path == [i \in 1..1 |-> b]
  <2>1. path \in [1..1 -> DOMAIN p] /\ WalkToUse(p, b, v, 1, path)
    BY <1>1 DEF WalkToUse
  <2> QED  BY <2>1 DEF LiveInBy
<1> QED  BY <1>1 DEF LiveInBy, WalkToUse

\* A longer walk is one step and a walk from there.
LEMMA WalkStep ==
    ASSUME NEW p, NEW b \in DOMAIN p, p[b].succ \subseteq DOMAIN p, NEW v,
           NEW n \in Nat \ {0}
    PROVE  LiveInBy(p, b, v, n + 1)
             <=> ~KilledIn(p, b, v) /\ \E s \in p[b].succ : LiveInBy(p, s, v, n)
<1>1. ASSUME LiveInBy(p, b, v, n + 1)
      PROVE  ~KilledIn(p, b, v) /\ \E s \in p[b].succ : LiveInBy(p, s, v, n)
  <2>1. PICK path \in [1..(n + 1) -> DOMAIN p] : WalkToUse(p, b, v, n + 1, path)
    BY <1>1 DEF LiveInBy
  <2> DEFINE rest == [i \in 1..n |-> path[i + 1]]
  <2>2. rest \in [1..n -> DOMAIN p]
    OBVIOUS
  <2>3. path[1 + 1] \in p[path[1]].succ /\ ~KilledIn(p, path[1], v) /\ path[1] = b
    BY <2>1 DEF WalkToUse
  <2>4. WalkToUse(p, path[2], v, n, rest)
    <3>1. rest[1] = path[2]
      OBVIOUS
    <3>2. ASSUME NEW i \in 1..(n - 1)
          PROVE  rest[i + 1] \in p[rest[i]].succ /\ ~KilledIn(p, rest[i], v)
      <4>1. i + 1 \in 1..((n + 1) - 1) /\ i \in 1..n /\ i + 1 \in 1..n
        OBVIOUS
      <4>2. path[(i + 1) + 1] \in p[path[i + 1]].succ /\ ~KilledIn(p, path[i + 1], v)
        BY <2>1, <4>1 DEF WalkToUse
      <4> QED  BY <4>1, <4>2
    <3>3. ExposedIn(p, rest[n], v)
      BY <2>1 DEF WalkToUse
    <3> QED  BY <3>1, <3>2, <3>3 DEF WalkToUse
  <2> QED  BY <2>2, <2>3, <2>4 DEF LiveInBy
<1>2. ASSUME ~KilledIn(p, b, v), NEW s \in p[b].succ, LiveInBy(p, s, v, n)
      PROVE  LiveInBy(p, b, v, n + 1)
  <2>1. PICK rest \in [1..n -> DOMAIN p] : WalkToUse(p, s, v, n, rest)
    BY <1>2 DEF LiveInBy
  <2> DEFINE path == [i \in 1..(n + 1) |-> IF i = 1 THEN b ELSE rest[i - 1]]
  <2>2. path \in [1..(n + 1) -> DOMAIN p]
    OBVIOUS
  <2>3. WalkToUse(p, b, v, n + 1, path)
    <3>1. path[1] = b /\ rest[1] = s /\ ExposedIn(p, path[n + 1], v)
      BY <2>1 DEF WalkToUse
    <3>2. ASSUME NEW i \in 1..((n + 1) - 1)
          PROVE  path[i + 1] \in p[path[i]].succ /\ ~KilledIn(p, path[i], v)
      <4>1. CASE i = 1
        BY <4>1, <3>1, <1>2
      <4>2. CASE i # 1
        <5>1. i - 1 \in 1..(n - 1) /\ (i - 1) + 1 = i /\ path[i + 1] = rest[i]
              /\ path[i] = rest[i - 1]
          BY <4>2
        <5>2. rest[(i - 1) + 1] \in p[rest[i - 1]].succ /\ ~KilledIn(p, rest[i - 1], v)
          BY <2>1, <5>1 DEF WalkToUse
        <5> QED  BY <5>1, <5>2
      <4> QED  BY <4>1, <4>2
    <3> QED  BY <3>1, <3>2 DEF WalkToUse
  <2> QED  BY <2>2, <2>3 DEF LiveInBy
<1> QED  BY <1>1, <1>2

\* A walk with more blocks than the function has can be shortened.
LEMMA CutWalk ==
    ASSUME NEW p, IsFlowGraph(p), NEW b, NEW v, NEW n \in Nat, n > Len(p),
           LiveInBy(p, b, v, n)
    PROVE  \E m \in 1..(n - 1) : LiveInBy(p, b, v, m)
<1> DEFINE len == Len(p)
<1>1. len \in Nat /\ DOMAIN p = 1..len
  BY DEF IsFlowGraph, IsList
<1>2. PICK path \in [1..n -> DOMAIN p] : WalkToUse(p, b, v, n, path)
  BY DEF LiveInBy
<1>3. \E i, j \in 1..n : i # j /\ path[i] = path[j]
  <2>1. len < n
    OBVIOUS
  <2> HIDE DEF len
  <2>2. IsFiniteSet(1..n) /\ Cardinality(1..n) = n
    BY FS_Interval
  <2>3. IsFiniteSet(1..len) /\ Cardinality(1..len) = len
    BY <1>1, FS_Interval
  <2> QED  BY <1>1, <2>1, <2>2, <2>3, FS_PigeonHole
<1>4. PICK x \in 1..n, y \in 1..n : x < y /\ path[x] = path[y]
  BY <1>3
<1> DEFINE m     == n - (y - x)
           short == [i \in 1..m |-> IF i <= x THEN path[i] ELSE path[i + (y - x)]]
<1>5. m \in 1..(n - 1) /\ x <= m
  BY <1>4
<1>6. short \in [1..m -> DOMAIN p]
  BY <1>4
<1>7. WalkToUse(p, b, v, m, short)
  <2>1. short[1] = b
    BY <1>2, <1>5 DEF WalkToUse
  <2>2. ASSUME NEW i \in 1..(m - 1)
        PROVE  short[i + 1] \in p[short[i]].succ /\ ~KilledIn(p, short[i], v)
    <3>1. CASE i < x
      <4>1. short[i] = path[i] /\ short[i + 1] = path[i + 1] /\ i \in 1..(n - 1)
        BY <1>4, <1>5, <3>1
      <4> QED  BY <1>2, <4>1 DEF WalkToUse
    <3>2. CASE i = x
      <4>1. short[i] = path[y] /\ short[i + 1] = path[y + 1] /\ y \in 1..(n - 1)
        BY <1>4, <1>5, <3>2
      <4> QED  BY <1>2, <4>1 DEF WalkToUse
    <3>3. CASE i > x
      <4> DEFINE k == i + (y - x)
      <4>1. short[i] = path[k] /\ short[i + 1] = path[k + 1] /\ k \in 1..(n - 1)
        BY <1>4, <1>5, <3>3
      <4> HIDE DEF k
      <4> QED  BY <1>2, <4>1 DEF WalkToUse
    <3> QED  BY <3>1, <3>2, <3>3, <1>4
  <2>3. short[m] = path[n]
    BY <1>4, <1>5
  <2> QED  BY <1>2, <2>1, <2>2, <2>3 DEF WalkToUse
<1> QED  BY <1>5, <1>6, <1>7 DEF LiveInBy

LEMMA ShortWalk ==
    ASSUME NEW p, IsFlowGraph(p), NEW b, NEW v, NEW n \in Nat \ {0}, LiveInBy(p, b, v, n)
    PROVE  \E m \in 1..Len(p) : LiveInBy(p, b, v, m)
<1> DEFINE walks == {m \in Nat \ {0} : LiveInBy(p, b, v, m)}
<1>1. walks \subseteq Nat /\ walks # {}
  OBVIOUS
<1>2. PICK m \in walks : \A k \in walks : m <= k
  BY <1>1, NatHasLeast
<1>3. Len(p) \in Nat
  BY DEF IsFlowGraph, IsList
<1>4. ~(m > Len(p))
  <2>1. SUFFICES ASSUME m > Len(p) PROVE FALSE
    OBVIOUS
  <2>2. PICK k \in 1..(m - 1) : LiveInBy(p, b, v, k)
    BY <2>1, CutWalk
  <2> QED  BY <1>2, <2>2
<1> QED  BY <1>3, <1>4

-----------------------------------------------------------------------------
(***************************************************************************)
(* The rounds of LiveOut                                                   *)
(***************************************************************************)
\* The sets after round r, from those of the rounds before.
Round(p, in, r) ==
    IF r = 0 THEN [b \in DOMAIN p |-> UpwardUse(p[b].insts)]
    ELSE [b \in DOMAIN p |->
             UpwardUse(p[b].insts)
               \cup ((UNION {in[r - 1][s] : s \in p[b].succ}) \ FirstDef(p[b].insts))]

AreRounds(p, in) == in = [r \in 0..Len(p) |-> Round(p, in, r)]

Rounds(p) == CHOOSE in : AreRounds(p, in)

LEMMA LiveOutOfRounds ==
    ASSUME NEW p
    PROVE  LiveOut(p) = [b \in DOMAIN p |-> UNION {Rounds(p)[Len(p)][s] : s \in p[b].succ}]
BY DEF LiveOut, Rounds, AreRounds, Round

\* The equations of the rounds have one solution.
LEMMA RoundsUnique ==
    ASSUME NEW p, IsFlowGraph(p), NEW in, AreRounds(p, in), NEW other, AreRounds(p, other)
    PROVE  in = other
<1> DEFINE wrong == {r \in 0..Len(p) : in[r] # other[r]}
<1>1. Len(p) \in Nat
  BY DEF IsFlowGraph, IsList
<1>2. \A r \in 0..Len(p) : in[r] = Round(p, in, r) /\ other[r] = Round(p, other, r)
  BY DEF AreRounds
<1>3. wrong = {}
  <2>1. SUFFICES ASSUME wrong # {} PROVE FALSE
    OBVIOUS
  <2>2. PICK r \in wrong : \A k \in wrong : r <= k
    <3>1. wrong \subseteq Nat
      BY <1>1
    <3> HIDE DEF wrong
    <3> QED  BY <2>1, <3>1, NatHasLeast
  <2>3. r = 0 \/ (r - 1 \in 0..Len(p) /\ in[r - 1] = other[r - 1])
    BY <1>1, <2>2
  <2>4. Round(p, in, r) = Round(p, other, r)
    BY <2>3 DEF Round
  <2> QED  BY <1>2, <2>2, <2>4
<1>4. /\ in = [r \in 0..Len(p) |-> in[r]]
      /\ other = [r \in 0..Len(p) |-> other[r]]
  BY DEF AreRounds
<1> QED  BY <1>3, <1>4

\* After r further rounds the walks of at most r + 1 blocks are known.
WalkRounds(p) ==
    [r \in 0..Len(p) |->
        [b \in DOMAIN p |-> {v \in Class : \E n \in 1..(r + 1) : LiveInBy(p, b, v, n)}]]

LEMMA WalksSatisfyRounds ==
    ASSUME NEW p, IsFlowGraph(p)
    PROVE  AreRounds(p, WalkRounds(p))
<1> DEFINE w == WalkRounds(p)
<1>1. Len(p) \in Nat
      /\ \A b \in DOMAIN p : IsList(p[b].insts) /\ p[b].succ \subseteq DOMAIN p
  BY DEF IsFlowGraph, IsList
<1>2. ASSUME NEW b \in DOMAIN p
      PROVE  UpwardUse(p[b].insts) = {v \in Class : ExposedIn(p, b, v)}
  <2>1. UpwardUse(p[b].insts) \subseteq Class
    BY DEF UpwardUse, Use
  <2> QED  BY <2>1, UpwardUseExposed
<1>3. w[0] = Round(p, w, 0)
  <2>1. ASSUME NEW b \in DOMAIN p
        PROVE  {v \in Class : \E n \in 1..(0 + 1) : LiveInBy(p, b, v, n)}
                 = UpwardUse(p[b].insts)
    BY <1>2, WalkOfOne
  <2>2. w[0] = [b \in DOMAIN p |-> {v \in Class : \E n \in 1..(0 + 1) : LiveInBy(p, b, v, n)}]
    BY <1>1 DEF WalkRounds
  <2> QED  BY <2>1, <2>2 DEF Round
<1>4. ASSUME NEW r \in 1..Len(p)
      PROVE  w[r] = Round(p, w, r)
  <2>1. r - 1 \in 0..Len(p) /\ (r - 1) + 1 = r /\ r \in 0..Len(p)
    BY <1>1
  <2>2. w[r - 1] = [b \in DOMAIN p |-> {v \in Class : \E n \in 1..r : LiveInBy(p, b, v, n)}]
    BY <2>1 DEF WalkRounds
  <2> HIDE DEF w
  <2>3. ASSUME NEW b \in DOMAIN p
        PROVE  {v \in Class : \E n \in 1..(r + 1) : LiveInBy(p, b, v, n)}
                 = UpwardUse(p[b].insts)
                     \cup ((UNION {w[r - 1][s] : s \in p[b].succ}) \ FirstDef(p[b].insts))
    <3> DEFINE later == UNION {w[r - 1][s] : s \in p[b].succ}
    <3>1. \A v : v \in later
                   <=> v \in Class /\ \E s \in p[b].succ : \E n \in 1..r : LiveInBy(p, s, v, n)
      BY <1>1, <2>2
    <3>2. ASSUME NEW v \in Class
          PROVE  (\E n \in 1..(r + 1) : LiveInBy(p, b, v, n))
                   <=> ExposedIn(p, b, v) \/ (v \in later /\ ~KilledIn(p, b, v))
      <4>1. \A n \in 1..r : LiveInBy(p, b, v, n + 1)
                 <=> ~KilledIn(p, b, v) /\ \E s \in p[b].succ : LiveInBy(p, s, v, n)
        <5>1. \A n \in 1..r : n \in Nat \ {0}
          OBVIOUS
        <5> QED  BY <5>1, <1>1, WalkStep
      <4>2. /\ \A n \in 1..(r + 1) : n = 1 \/ (n - 1 \in 1..r /\ n = (n - 1) + 1)
            /\ \A n \in 1..r : n + 1 \in 1..(r + 1)
            /\ 1 \in 1..(r + 1)
        BY <1>1
      <4>3. (\E n \in 1..(r + 1) : LiveInBy(p, b, v, n))
              <=> LiveInBy(p, b, v, 1) \/ \E n \in 1..r : LiveInBy(p, b, v, n + 1)
        BY <4>2
      <4> HIDE DEF later
      <4> QED  BY <3>1, <4>1, <4>3, WalkOfOne
    <3>3. later \subseteq Class /\ UpwardUse(p[b].insts) \subseteq Class
      BY <1>2, <3>1
    <3>4. \A v : v \in UpwardUse(p[b].insts) \cup (later \ FirstDef(p[b].insts))
                   <=> ExposedIn(p, b, v) \/ (v \in later /\ ~KilledIn(p, b, v))
      <4> HIDE DEF later
      <4> QED  BY <1>1, TransferMeaning
    <3> HIDE DEF later
    <3>5. UpwardUse(p[b].insts) \cup (later \ FirstDef(p[b].insts))
            = {v \in Class : \E n \in 1..(r + 1) : LiveInBy(p, b, v, n)}
      BY <3>2, <3>3, <3>4
    <3> QED  BY <3>5 DEF later
  <2>4. w[r] = [b \in DOMAIN p |-> {v \in Class : \E n \in 1..(r + 1) : LiveInBy(p, b, v, n)}]
    BY <2>1 DEF WalkRounds, w
  <2>5. r # 0
    OBVIOUS
  <2> QED  BY <2>3, <2>4, <2>5 DEF Round
<1>5. \A r \in 0..Len(p) : w[r] = Round(p, w, r)
  BY <1>1, <1>3, <1>4
<1>6. w = [r \in 0..Len(p) |-> w[r]]
  BY DEF WalkRounds
<1> HIDE DEF w
<1>7. w = [r \in 0..Len(p) |-> Round(p, w, r)]
  BY <1>5, <1>6
<1> QED  BY <1>7 DEF AreRounds, w

\* The closed form is the meaning of liveness: v is live out of b if a walk
\* from a successor reaches a use.
LEMMA LiveOutWalks ==
    ASSUME NEW p, IsFlowGraph(p), NEW b \in DOMAIN p
    PROVE  LiveOut(p)[b] = {v \in Class :
               \E s \in p[b].succ : \E n \in 1..Len(p) : LiveInBy(p, s, v, n)}
<1>1. Rounds(p) = WalkRounds(p)
  <2>1. AreRounds(p, Rounds(p))
    BY WalksSatisfyRounds DEF Rounds
  <2> QED  BY <2>1, WalksSatisfyRounds, RoundsUnique
<1>2. Len(p) \in Nat /\ p[b].succ \subseteq DOMAIN p
  BY DEF IsFlowGraph, IsList
<1>3. Rounds(p)[Len(p)] = [s \in DOMAIN p |->
          {v \in Class : \E n \in 1..(Len(p) + 1) : LiveInBy(p, s, v, n)}]
  BY <1>1, <1>2 DEF WalkRounds
<1>4. LiveOut(p)[b] = UNION {Rounds(p)[Len(p)][s] : s \in p[b].succ}
  BY LiveOutOfRounds
<1>5. \A s, v : (\E n \in 1..(Len(p) + 1) : LiveInBy(p, s, v, n))
                  <=> \E n \in 1..Len(p) : LiveInBy(p, s, v, n)
  <2>1. 1..Len(p) \subseteq 1..(Len(p) + 1) /\ 1..(Len(p) + 1) \subseteq Nat \ {0}
    BY <1>2
  <2> QED  BY <2>1, ShortWalk
<1> QED  BY <1>2, <1>3, <1>4, <1>5

\* What is live somewhere occurs in the function.
LEMMA LiveOutOccurs ==
    ASSUME NEW p, IsFlowGraph(p), NEW b \in DOMAIN p
    PROVE  LiveOut(p)[b] \subseteq Occurring(p)
<1> SUFFICES ASSUME NEW v \in LiveOut(p)[b] PROVE v \in Occurring(p)
  OBVIOUS
<1>1. PICK s \in p[b].succ : \E n \in 1..Len(p) : LiveInBy(p, s, v, n)
  BY LiveOutWalks
<1>2. PICK n \in 1..Len(p) : LiveInBy(p, s, v, n)
  BY <1>1
<1>3. PICK path \in [1..n -> DOMAIN p] : WalkToUse(p, s, v, n, path)
  BY <1>2 DEF LiveInBy
<1>4. Len(p) \in Nat
  BY DEF IsFlowGraph, IsList
<1>5. ExposedIn(p, path[n], v) /\ path[n] \in DOMAIN p
  BY <1>3, <1>4 DEF WalkToUse
<1> QED  BY <1>5 DEF ExposedIn, Occurring, Instructions
=============================================================================
