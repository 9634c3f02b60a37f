--------------------------- MODULE AsmFixedProofs ---------------------------
(***************************************************************************)
(* Every parameter is found and every literal is in reach, for every       *)
(* function, every distance between pools and every reach of a load that   *)
(* satisfy the assumptions of AsmFixed.  The argument about the pools      *)
(* counts instructions: Live(a, c) splits into Live(a, b) and              *)
(* Live(b + 1, c), and inst_pos is what Live(i + 1, N) counts.             *)
(***************************************************************************)
EXTENDS AsmFixed, FiniteSetTheorems, TLAPS

N == Len(func.code)

(* Sets of instructions are finite, and a part has no more elements.       *)
LEMMA InFinite ==
    ASSUME NEW a \in Int, NEW b \in Int, NEW kinds
    PROVE  IsFiniteSet(In(a, b, kinds)) /\ Cardinality(In(a, b, kinds)) \in Nat
<1>1. IsFiniteSet(a..b)
  BY FS_Interval
<1>2. In(a, b, kinds) \subseteq a..b
  BY DEF In
<1> QED
  BY <1>1, <1>2, FS_Subset, FS_CardinalityType

LEMMA LiveFinite ==
    ASSUME NEW a \in Int, NEW b \in Int
    PROVE  IsFiniteSet(Live(a, b)) /\ Cardinality(Live(a, b)) \in Nat
BY InFinite DEF Live

(* A range of instructions is counted in two parts.                        *)
LEMMA LiveSplit ==
    ASSUME NEW a \in Int, NEW b \in Int, NEW c \in Int, a <= b + 1, b <= c
    PROVE  Cardinality(Live(a, c)) = Cardinality(Live(a, b)) + Cardinality(Live(b + 1, c))
<1>1. Live(a, c) = Live(a, b) \cup Live(b + 1, c)
  BY DEF Live, In
<1>2. Live(a, b) \cap Live(b + 1, c) = {}
  BY DEF Live, In
<1>3. IsFiniteSet(Live(a, b)) /\ IsFiniteSet(Live(b + 1, c))
  BY LiveFinite
<1>4. /\ Cardinality(Live(a, b)) \in Nat
      /\ Cardinality(Live(b + 1, c)) \in Nat
  BY LiveFinite
<1> QED
  BY <1>1, <1>2, <1>3, <1>4, FS_Union, FS_EmptySet

(* One instruction counts once unless it is deleted.                       *)
LEMMA LiveOne ==
    ASSUME NEW a \in Int
    PROVE  /\ Cardinality(Live(a, a)) \in {0, 1}
           /\ func.code[a] \in Kinds /\ Counted(a) => Cardinality(Live(a, a)) = 1
           /\ ~Counted(a) => Cardinality(Live(a, a)) = 0
<1>1. Live(a, a) = {} \/ Live(a, a) = {a}
  BY DEF Live, In
<1>2. Cardinality({}) = 0 /\ Cardinality({a}) = 1
  BY FS_EmptySet, FS_Singleton
<1>3. func.code[a] \in Kinds /\ Counted(a) => a \in Live(a, a)
  BY DEF Live, In, Counted
<1>4. ~Counted(a) => a \notin Live(a, a)
  BY DEF Live, In, Counted
<1> QED
  BY <1>1, <1>2, <1>3, <1>4

(* A range counts no more instructions than it is long.                    *)
LEMMA LiveShort ==
    ASSUME NEW a \in Int, NEW b \in Int, a <= b + 1
    PROVE  Cardinality(Live(a, b)) <= b - a + 1
<1>1. IsFiniteSet(a..b) /\ Cardinality(a..b) = b - a + 1
  <2>1. CASE a <= b
    BY <2>1, FS_Interval
  <2>2. CASE a > b
    <3>1. a..b = {}
      BY <2>2
    <3> QED
      BY <2>2, <3>1, FS_EmptySet
  <2> QED
    BY <2>1, <2>2
<1>2. Live(a, b) \subseteq a..b
  BY DEF Live, In
<1> QED
  BY <1>1, <1>2, FS_Subset

-----------------------------------------------------------------------------
(* What holds while the walk is at instruction i.  Counting: inst_pos      *)
(* counts the instructions passed, and pool_pos, set when the last pool    *)
(* was placed, is at most two more than what lies behind that pool.        *)
Bound(g) == IF g = N THEN POOL_RANGE ELSE POOL_RANGE + 2
LastPool(c) == /\ c \in pools /\ i < c
               /\ \A p \in pools : c <= p
               /\ pool_pos <= Cardinality(Live(c + 1, N)) + 2
Counting == /\ inst_pos = Cardinality(Live(i + 1, N))
            /\ \/ pools = {} /\ pool_pos = 0
               \/ \E c \in pools : LastPool(c)

(* The loads that were passed and share a pool with n, and everything up   *)
(* to that pool, lie in a range of at most Bound instructions.             *)
Near(n, g, m) == /\ NextPool(n, g)
                 /\ Cardinality(Live(m, g)) <= Bound(g)
                 /\ \A k \in In(i + 1, n - 1, {"label"}) : NextPool(k, g) => m <= k
LoadsNear == \A n \in In(i + 1, N, {"label"}) :
                 \E g \in 1..N, m \in (i + 1)..n : Near(n, g, m)

IInv == func \in Functions /\ TypeOK /\ ParamsFound /\ Counting /\ LoadsNear

LEMMA InitIInv == Init => IInv
<1> SUFFICES ASSUME Init PROVE IInv
  OBVIOUS
<1>1. func \in Function /\ N \in Nat
  BY FunctionsAssumption DEF Init, Function, N
<1>2. TypeOK
  BY <1>1 DEF Init, TypeOK, N
<1>3. ParamsFound
  BY DEF Init, ParamsFound
<1>4. Live(N + 1, N) = {}
  BY <1>1 DEF Live, In
<1>5. Counting
  BY <1>4, FS_EmptySet DEF Init, Counting, N
<1>6. LoadsNear
  BY <1>1 DEF Init, LoadsNear, In, N
<1> QED
  BY <1>2, <1>3, <1>5, <1>6 DEF Init, IInv

-----------------------------------------------------------------------------
(* What a load of a parameter is given: the frame is all that SP has moved *)
(* by since the caller left, besides the argument sequence under way.      *)
LEMMA FrameNat ==
    ASSUME NEW f \in Function
    PROVE  /\ StackSize(f) \in Nat
           /\ FrameSize(f) + 4 * PushSize(f) = StackSize(f)
<1>1. f.local \in Nat /\ f.push \in Nat /\ f.fpush \in Nat
  BY DEF Function
<1>2. Align8(f.local) \in Nat
  BY <1>1 DEF Align8
<1>3. PushSize(f) \in Nat /\ Padding(f) \in {0, 4}
  BY <1>1 DEF PushSize, Padding
<1> QED
  BY <1>2, <1>3 DEF StackSize, FrameSize

LEMMA FixParamStep ==
    ASSUME TypeOK, ParamsFound, FixParam
    PROVE  /\ loads' \in Seq(Nat) /\ Len(loads') <= Len(func.params)
           /\ ParamsFound'
<1> DEFINE n == Len(loads) + 1
           p == func.params[n]
           x == p.offs + p.moved + (IF p.deleted THEN 0 ELSE StackSize(func))
<1>1. func \in Function /\ func.params \in Seq(Param) /\ loads \in Seq(Nat)
  BY DEF TypeOK, Function
<1>2. n \in DOMAIN func.params
  BY <1>1 DEF TypeOK, FixParam, ParamsFixed
<1>3. p \in Param
  BY <1>1, <1>2
<1>4. p.offs \in Nat /\ p.moved \in Nat
  BY <1>3 DEF Param
<1>5. StackSize(func) \in Nat /\ FrameSize(func) + 4 * PushSize(func) = StackSize(func)
  BY <1>1, FrameNat
<1>6. x \in Nat
  <2>1. CASE p.deleted
    <3>1. x = p.offs + p.moved + 0
      BY <2>1
    <3> QED
      BY <3>1, <1>4
  <2>2. CASE ~p.deleted
    <3>1. x = p.offs + p.moved + StackSize(func)
      BY <2>2
    <3> QED
      BY <3>1, <1>4, <1>5
  <2> QED
    BY <2>1, <2>2
<1>7. loads' = Append(loads, x) /\ func' = func
  BY DEF FixParam
<1>8. loads' \in Seq(Nat) /\ Len(loads') = n
  BY <1>1, <1>6, <1>7
<1>9. ParamsFound'
  <2> SUFFICES ASSUME NEW k \in DOMAIN loads', ~(func.params[k]).deleted
               PROVE  SP(func.params[k]) + loads'[k] = (func.params[k]).offs
    BY <1>7 DEF ParamsFound, SP, PushSize, FrameSize, Align8, Padding
  <2>1. CASE k = n
    <3>1. loads'[k] = p.offs + p.moved + StackSize(func)
      BY <2>1, <1>1, <1>6, <1>7
    <3>2. PushSize(func) \in Nat /\ FrameSize(func) \in Int
      BY <1>1 DEF PushSize, FrameSize, Align8, Padding, Function
    <3> QED
      BY <2>1, <3>1, <3>2, <1>4, <1>5 DEF SP
  <2>2. CASE k # n
    <3>1. k \in DOMAIN loads /\ loads'[k] = loads[k]
      BY <2>2, <1>1, <1>7, <1>8
    <3> QED
      BY <3>1 DEF ParamsFound
  <2> QED
    BY <2>1, <2>2
<1> QED
  BY <1>1, <1>2, <1>8, <1>9

(* While an instruction is being passed: it exists, it is of some kind and *)
(* a pool is put two instructions from the end at least.                   *)
LEMMA Walking ==
    ASSUME TypeOK, Counting, i > 0
    PROVE  /\ N \in Nat /\ i \in 1..N /\ func.code[i] \in Kinds
           /\ inst_pos \in Nat /\ pool_pos \in Nat /\ pools \subseteq 1..(N - 1)
           /\ NeedsPool(i) => PoolGap(i) \in 1..(N - 1)
<1>1. N \in Nat /\ i \in 1..N /\ func.code[i] \in Kinds
  BY DEF TypeOK, Function, N
<1>2. inst_pos \in Nat /\ pool_pos \in Nat /\ pools \subseteq 1..(N - 1)
  BY DEF TypeOK, N
<1>3. ASSUME NeedsPool(i) PROVE PoolGap(i) \in 1..(N - 1)
  <2>1. inst_pos >= 2
    BY <1>2, <1>3, RangeAssumption DEF NeedsPool
  <2>2. inst_pos <= N - (i + 1) + 1
    BY <1>1, LiveShort DEF Counting
  <2> QED
    BY <1>1, <2>1, <2>2, <1>2 DEF PoolGap
<1> QED
  BY <1>1, <1>2, <1>3

(* One more instruction is counted in what follows, and pool_pos stays     *)
(* within two of what lies behind the last pool.                           *)
LEMMA CountingStep ==
    ASSUME TypeOK, Counting, Skip \/ Count \/ PlacePool
    PROVE  Counting'
<1>1. i > 0 /\ i' = i - 1 /\ func' = func
  BY DEF Skip, Count, PlacePool
<1>2. /\ N \in Nat /\ i \in 1..N /\ func.code[i] \in Kinds
      /\ inst_pos \in Nat /\ pool_pos \in Nat /\ pools \subseteq 1..(N - 1)
      /\ NeedsPool(i) => PoolGap(i) \in 1..(N - 1)
  BY <1>1, Walking
<1>3. /\ (Live(i + 1, N))' = Live(i, N)
      /\ \A c : (Live(c + 1, N))' = Live(c + 1, N)
  BY <1>1, <1>2 DEF N, Live, In
<1>4. Cardinality(Live(i, N)) = Cardinality(Live(i, i)) + inst_pos
  BY <1>2, LiveSplit DEF Counting
<1>5. ASSUME NEW c \in pools, LastPool(c), c \in pools',
             \A p \in pools' : c <= p, pool_pos' = pool_pos
      PROVE  LastPool(c)'
  <2>1. i' < c /\ pool_pos' <= Cardinality(Live(c + 1, N)) + 2
    BY <1>1, <1>2, <1>5 DEF LastPool
  <2> QED
    BY <2>1, <1>3, <1>5 DEF LastPool
<1>6. CASE Skip
  <2>1. Cardinality(Live(i, N)) = inst_pos
    BY <1>2, <1>4, <1>6, LiveOne DEF Skip
  <2>2. (inst_pos = Cardinality(Live(i + 1, N)))'
    BY <2>1, <1>1, <1>2, <1>3, <1>6 DEF Skip
  <2>3. pools' = pools /\ pool_pos' = pool_pos
    BY <1>6 DEF Skip
  <2>4. (pools = {} /\ pool_pos = 0)' \/ \E c \in pools' : LastPool(c)'
    BY <2>3, <1>5 DEF Counting, LastPool
  <2> QED
    BY <2>2, <2>4 DEF Counting
<1>7. CASE Count
  <2>1. Cardinality(Live(i, N)) = inst_pos + 1
    BY <1>2, <1>4, <1>7, LiveOne DEF Count
  <2>2. (inst_pos = Cardinality(Live(i + 1, N)))'
    BY <2>1, <1>1, <1>2, <1>3, <1>7 DEF Count
  <2>3. pools' = pools /\ pool_pos' = pool_pos
    BY <1>7 DEF Count
  <2>4. (pools = {} /\ pool_pos = 0)' \/ \E c \in pools' : LastPool(c)'
    BY <2>3, <1>5 DEF Counting, LastPool
  <2> QED
    BY <2>2, <2>4 DEF Counting
<1>8. CASE PlacePool
  <2> PICK c \in 1..(N - 1) : c = i + 1
    BY <1>2, <1>8 DEF PlacePool, PoolGap
  <2>1. /\ pools' = pools \cup {c} /\ pool_pos' = inst_pos + 1
        /\ inst_pos' = inst_pos + 1 /\ Counted(i)
    BY <1>2, <1>8 DEF PlacePool, PoolGap
  <2>2. Cardinality(Live(i, N)) = inst_pos + 1
    BY <1>2, <1>4, <2>1, LiveOne
  <2>3. (inst_pos = Cardinality(Live(i + 1, N)))'
    BY <2>1, <2>2, <1>1, <1>2, <1>3
  <2>4. inst_pos = Cardinality(Live(c, c)) + Cardinality(Live(c + 1, N))
    BY <1>2, <2>1, LiveSplit DEF Counting
  <2>5. /\ Cardinality(Live(c, c)) \in {0, 1}
        /\ Cardinality(Live(c + 1, N)) \in Nat
    <3>1. c \in Int /\ c + 1 \in Int /\ N \in Int
      BY <1>2
    <3> QED
      BY <3>1, LiveOne, LiveFinite
  <2>6. pool_pos' <= Cardinality(Live(c + 1, N)) + 2
    BY <2>1, <2>4, <2>5
  <2>7. \A p \in pools : c <= p
    BY <1>2 DEF Counting, LastPool
  <2>8. LastPool(c)'
    <3>1. c \in pools' /\ i' < c /\ \A p \in pools' : c <= p
      BY <2>1, <2>7, <1>1, <1>2
    <3>2. (Live(c + 1, N))' = Live(c + 1, N)
      BY <1>3
    <3> QED
      BY <2>6, <3>1, <3>2 DEF LastPool
  <2> QED
    BY <2>1, <2>3, <2>8 DEF Counting
<1> QED
  BY <1>6, <1>7, <1>8

(* An instruction has one next pool.                                       *)
LEMMA NextPoolUnique ==
    ASSUME TypeOK, NEW n \in Int, NEW g, NEW h, NextPool(n, g), NextPool(n, h)
    PROVE  g = h
<1>1. N \in Nat /\ pools \subseteq 1..(N - 1)
  BY DEF TypeOK, Function, N
<1>2. g \in pools \cup {N} /\ h \in pools \cup {N}
  BY DEF NextPool, N
<1> QED
  BY <1>1, <1>2 DEF NextPool

(* A load that is not given a pool is near the one it will use.            *)
LEMMA NearAhead ==
    ASSUME TypeOK, Counting, i > 0, Counted(i), ~NeedsPool(i), func.code[i] = "label"
    PROVE  \E g \in 1..N : NextPool(i, g) /\ Cardinality(Live(i, g)) <= Bound(g)
<1>1. /\ N \in Nat /\ i \in 1..N /\ func.code[i] \in Kinds
      /\ inst_pos \in Nat /\ pool_pos \in Nat /\ pools \subseteq 1..(N - 1)
  BY Walking
<1>2. inst_pos + 1 - pool_pos <= POOL_RANGE
  BY <1>1, RangeAssumption DEF NeedsPool
<1>3. Cardinality(Live(i, N)) = inst_pos + 1
  BY <1>1, LiveSplit, LiveOne DEF Counting
<1>4. CASE pools = {} /\ pool_pos = 0
  <2>1. NextPool(i, N)
    BY <1>1, <1>4 DEF NextPool, N
  <2>2. Cardinality(Live(i, N)) <= Bound(N)
    BY <1>1, <1>2, <1>3, <1>4 DEF Bound
  <2> QED
    BY <1>1, <2>1, <2>2
<1>5. CASE \E c \in pools : LastPool(c)
  <2>1. PICK c \in pools : LastPool(c)
    BY <1>5
  <2>2. c \in 1..(N - 1) /\ c \in Int /\ c + 1 \in Int /\ N \in Int /\ i \in Int /\ i < c
    BY <1>1, <2>1 DEF LastPool
  <2>3. NextPool(i, c)
    BY <2>1, <2>2, <1>1 DEF NextPool, LastPool
  <2>4. Cardinality(Live(i, N)) = Cardinality(Live(i, c)) + Cardinality(Live(c + 1, N))
    BY <1>1, <2>2, LiveSplit
  <2>5. Cardinality(Live(i, c)) \in Nat /\ Cardinality(Live(c + 1, N)) \in Nat
    BY <2>2, LiveFinite
  <2>6. Cardinality(Live(i, c)) <= POOL_RANGE + 2
    BY <1>1, <1>2, <1>3, <2>1, <2>4, <2>5, RangeAssumption DEF LastPool
  <2>7. Bound(c) = POOL_RANGE + 2
    BY <2>2 DEF Bound
  <2> QED
    BY <2>2, <2>3, <2>6, <2>7
<1> QED
  BY <1>4, <1>5 DEF Counting

LEMMA NearStep ==
    ASSUME TypeOK, Counting, LoadsNear, Skip \/ Count \/ PlacePool
    PROVE  LoadsNear'
<1>1. i > 0 /\ i' = i - 1 /\ func' = func
  BY DEF Skip, Count, PlacePool
<1>2. /\ N \in Nat /\ i \in 1..N /\ func.code[i] \in Kinds
      /\ inst_pos \in Nat /\ pool_pos \in Nat /\ pools \subseteq 1..(N - 1)
      /\ NeedsPool(i) => PoolGap(i) \in 1..(N - 1)
  BY <1>1, Walking
<1> DEFINE Next2(n, g) == /\ g \in pools' \cup {N} /\ g >= n
                          /\ \A p \in pools' : p >= n => p >= g
           Near2(n, g, m) == /\ Next2(n, g)
                             /\ Cardinality(Live(m, g)) <= Bound(g)
                             /\ \A k \in In(i, n - 1, {"label"}) : Next2(k, g) => m <= k
<1>3. SUFFICES ASSUME NEW n \in In(i, N, {"label"})
               PROVE  \E g \in 1..N, m \in i..n : Near2(n, g, m)
  <2>1. N' = N
    BY <1>1 DEF N
  <2>2. (In(i + 1, N, {"label"}))' = In(i, N, {"label"})
    BY <1>1, <1>2, <2>1 DEF In
  <2>3. ASSUME NEW k, NEW g PROVE (NextPool(k, g))' <=> Next2(k, g)
    BY <1>1 DEF NextPool, N
  <2>4. ASSUME NEW k, NEW g, NEW m PROVE (Near(k, g, m))' <=> Near2(k, g, m)
    <3>1. (Bound(g))' = Bound(g)
      BY <2>1 DEF Bound
    <3>2. (Live(m, g))' = Live(m, g)
      BY <1>1 DEF Live, In
    <3>3. (In(i + 1, k - 1, {"label"}))' = In(i, k - 1, {"label"})
      BY <1>1, <1>2 DEF In
    <3> HIDE DEF Next2
    <3> QED
      BY <2>3, <3>1, <3>2, <3>3 DEF Near
  <2>5. (i + 1)' = i
    BY <1>1, <1>2
  <2> HIDE DEF Near2
  <2> QED
    BY <1>3, <2>1, <2>2, <2>4, <2>5 DEF LoadsNear
<1>4. n \in i..N /\ func.code[n] = "label" /\ n \in Int
  BY <1>2, <1>3 DEF In
<1>5. In(i, i - 1, {"label"}) = {}
  BY <1>2 DEF In
<1>6. CASE PlacePool /\ n <= i + 1
  <2> PICK c \in 1..(N - 1) : c = i + 1
    BY <1>2, <1>6 DEF PlacePool, PoolGap
  <2>1. pools' = pools \cup {c}
    BY <1>6 DEF PlacePool, PoolGap
  <2>2. \A p \in pools : c <= p
    BY <1>2 DEF Counting, LastPool
  <2>3. Next2(n, c)
    BY <1>2, <1>4, <1>6, <2>1, <2>2
  <2>4. Cardinality(Live(i, c)) <= c - i + 1
    BY <1>2, LiveShort
  <2>5. Bound(c) = POOL_RANGE + 2
    BY <1>2 DEF Bound
  <2>6. Cardinality(Live(i, c)) \in Nat /\ Cardinality(Live(i, c)) <= Bound(c)
    <3>1. i \in Int /\ c \in Int
      BY <1>2
    <3>2. Cardinality(Live(i, c)) \in Nat
      BY <3>1, LiveFinite
    <3> QED
      BY <3>1, <3>2, <2>4, <2>5, RangeAssumption
  <2>7. \A k \in In(i, n - 1, {"label"}) : i <= k
    BY <1>2, <1>4 DEF In
  <2> QED
    BY <1>2, <1>4, <2>3, <2>6, <2>7
<1>7. CASE PlacePool /\ n > i + 1
  <2> PICK c \in 1..(N - 1) : c = i + 1
    BY <1>2, <1>7 DEF PlacePool, PoolGap
  <2>1. pools' = pools \cup {c}
    BY <1>7 DEF PlacePool, PoolGap
  <2>2. n \in In(i + 1, N, {"label"})
    BY <1>2, <1>4, <1>7 DEF In
  <2>3. PICK g \in 1..N, m \in (i + 1)..n : Near(n, g, m)
    BY <2>2 DEF LoadsNear
  <2>4. Next2(n, g)
    BY <1>2, <1>4, <1>7, <2>1, <2>3 DEF Near, NextPool, N
  <2>5. ASSUME NEW k \in In(i, n - 1, {"label"}), Next2(k, g) PROVE m <= k
    <3>1. k > c
      BY <1>2, <1>4, <1>7, <2>1, <2>4, <2>5 DEF In
    <3>2. k \in In(i + 1, n - 1, {"label"})
      BY <1>2, <1>4, <2>5, <3>1 DEF In
    <3>3. NextPool(k, g)
      BY <1>2, <1>4, <1>7, <2>1, <2>3, <2>5 DEF NextPool, Near, N
    <3> QED
      BY <2>3, <3>2, <3>3 DEF Near
  <2> QED
    BY <1>2, <2>3, <2>4, <2>5 DEF Near
<1>8. CASE Skip \/ Count
  <2>1. pools' = pools
    BY <1>8 DEF Skip, Count
  <2>2. \A k, g : Next2(k, g) <=> NextPool(k, g)
    BY <2>1 DEF NextPool, N
  <2> HIDE DEF Next2
  <2>3. func.code[i] = "label" => Count /\ Counted(i) /\ ~NeedsPool(i)
    BY <1>8 DEF Skip, Count, Counted
  <2>4. CASE n = i
    <3>1. PICK g \in 1..N : NextPool(i, g) /\ Cardinality(Live(i, g)) <= Bound(g)
      BY <1>1, <1>4, <2>3, <2>4, NearAhead
    <3> QED
      BY <1>2, <1>5, <2>2, <2>4, <3>1
  <2>5. CASE n # i
    <3>1. n \in In(i + 1, N, {"label"})
      BY <1>2, <1>4, <2>5 DEF In
    <3>2. PICK g \in 1..N, m \in (i + 1)..n : Near(n, g, m)
      BY <3>1 DEF LoadsNear
    <3>3. \A k \in In(i, n - 1, {"label"}) : k # i => k \in In(i + 1, n - 1, {"label"})
      BY <1>2, <1>4 DEF In
    <3>4. CASE func.code[i] = "label" /\ NextPool(i, g)
      <4>1. Cardinality(Live(i, g)) <= Bound(g)
        <5>1. PICK h \in 1..N : NextPool(i, h) /\ Cardinality(Live(i, h)) <= Bound(h)
          BY <1>1, <2>3, <3>4, NearAhead
        <5>2. h = g
          BY <1>2, <3>4, <5>1, NextPoolUnique
        <5> QED
          BY <5>1, <5>2
      <4>2. \A k \in In(i, n - 1, {"label"}) : i <= k
        BY <1>2, <1>4 DEF In
      <4> QED
        BY <1>2, <1>4, <2>2, <3>2, <4>1, <4>2 DEF Near
    <3>5. CASE ~(func.code[i] = "label" /\ NextPool(i, g))
      <4>1. ASSUME NEW k \in In(i, n - 1, {"label"}), NextPool(k, g) PROVE m <= k
        <5>1. k # i
          BY <3>5, <4>1 DEF In
        <5> QED
          BY <3>2, <3>3, <4>1, <5>1 DEF Near
      <4> QED
        BY <1>2, <2>2, <3>2, <4>1 DEF Near
    <3> QED
      BY <3>4, <3>5
  <2> QED
    BY <2>4, <2>5
<1> QED
  BY <1>2, <1>4, <1>6, <1>7, <1>8

(* A step that leaves the walk alone changes nothing that was counted.     *)
LEMMA NearStutter ==
    ASSUME LoadsNear, UNCHANGED <<func, i, pools>>
    PROVE  LoadsNear'
<1>1. (In(i + 1, N, {"label"}))' = In(i + 1, N, {"label"}) /\ N' = N /\ i' = i
  BY DEF In, N
<1>2. ASSUME NEW k, NEW g, NEW m PROVE (Near(k, g, m))' <=> Near(k, g, m)
  <2>1. ASSUME NEW l PROVE (NextPool(l, g))' <=> NextPool(l, g)
    BY DEF NextPool
  <2>2. (Bound(g))' = Bound(g)
    BY <1>1 DEF Bound
  <2>3. (Live(m, g))' = Live(m, g)
    BY DEF Live, In
  <2>4. (In(i + 1, k - 1, {"label"}))' = In(i + 1, k - 1, {"label"})
    BY DEF In
  <2> QED
    BY <2>1, <2>2, <2>3, <2>4 DEF Near
<1> QED
  BY <1>1, <1>2 DEF LoadsNear

LEMMA NextIInv == IInv /\ [Next]_vars => IInv'
<1> SUFFICES ASSUME IInv, [Next]_vars PROVE IInv'
  OBVIOUS
<1> USE DEF IInv
<1>1. CASE FixParam
  <2>1. UNCHANGED <<func, i, inst_pos, pool_pos, pools>>
    BY <1>1 DEF FixParam
  <2>2. TypeOK' /\ ParamsFound'
    BY <1>1, <2>1, FixParamStep DEF TypeOK
  <2>3. Counting'
    BY <2>1 DEF Counting, LastPool, Live, In, N
  <2>4. LoadsNear'
    BY <2>1, NearStutter
  <2> QED
    BY <2>1, <2>2, <2>3, <2>4
<1>2. CASE Skip \/ Count \/ PlacePool
  <2>1. func' = func /\ loads' = loads /\ i > 0 /\ i' = i - 1
    BY <1>2 DEF Skip, Count, PlacePool
  <2>2. /\ N \in Nat /\ i \in 1..N
        /\ inst_pos \in Nat /\ pool_pos \in 0..inst_pos /\ pools \subseteq 1..(N - 1)
        /\ NeedsPool(i) => PoolGap(i) \in 1..(N - 1)
    BY <2>1, Walking DEF TypeOK
  <2>3. inst_pos' \in Nat /\ pool_pos' \in 0..inst_pos'
    BY <1>2, <2>2 DEF Skip, Count, PlacePool
  <2>4. pools' \subseteq 1..(N - 1)
    BY <1>2, <2>2 DEF Skip, Count, PlacePool
  <2>5. TypeOK'
    BY <2>1, <2>2, <2>3, <2>4 DEF TypeOK, N
  <2>6. ParamsFound'
    BY <2>1 DEF ParamsFound, SP, PushSize, FrameSize, Align8, Padding
  <2> QED
    BY <1>2, <2>1, <2>5, <2>6, CountingStep, NearStep
<1>3. CASE UNCHANGED vars
  <2>1. UNCHANGED <<func, loads, i, inst_pos, pool_pos, pools>>
    BY <1>3 DEF vars
  <2>2. TypeOK' /\ ParamsFound'
    BY <2>1 DEF TypeOK, ParamsFound, SP, PushSize, FrameSize, Align8, Padding
  <2>3. Counting'
    BY <2>1 DEF Counting, LastPool, Live, In, N
  <2>4. LoadsNear'
    BY <2>1, NearStutter
  <2> QED
    BY <2>1, <2>2, <2>3, <2>4
<1> QED
  BY <1>1, <1>2, <1>3 DEF Next

(* What lies between a load and its pool, wide instructions twice, and the *)
(* literals of the loads that share the pool, is at most twice Bound.      *)
LEMMA NearIsInReach ==
    ASSUME TypeOK, i = 0, NEW n \in In(1, N, {"label"}), NEW g \in 1..N,
           NEW m \in 1..n, Near(n, g, m)
    PROVE  Words(n, g) <= Reach
<1>1. N \in Nat /\ n \in 1..N /\ func.code[n] = "label"
  BY DEF TypeOK, Function, N, In
<1>2. /\ m \in Int /\ n \in Int /\ g \in Int /\ n - 1 \in Int /\ n + 1 \in Int
      /\ m <= n /\ n <= g
  BY <1>1 DEF Near, NextPool
<1> DEFINE before == Cardinality(Live(m, n - 1))
           after == Cardinality(Live(n + 1, g))
           wide == Cardinality(In(n + 1, g, {"wide"}))
           shared == Cardinality(Sharing(n, g))
<1>3. before \in Nat /\ after \in Nat /\ wide \in Nat
  BY <1>2, LiveFinite, InFinite
<1>4. before + 1 + after <= Bound(g)
  <2>1. Cardinality(Live(m, g)) = before + Cardinality(Live((n - 1) + 1, g))
    BY <1>2, LiveSplit
  <2>2. Cardinality(Live(n, g)) = Cardinality(Live(n, n)) + after
    BY <1>2, LiveSplit
  <2>3. Cardinality(Live(n, n)) = 1
    BY <1>1, <1>2, LiveOne DEF Kinds, Counted
  <2>4. (n - 1) + 1 = n
    BY <1>2
  <2>5. Cardinality(Live(m, g)) <= Bound(g)
    BY DEF Near
  <2>6. Cardinality(Live(m, g)) = before + (1 + after)
    BY <2>1, <2>2, <2>3, <2>4
  <2> HIDE DEF before, after
  <2> QED
    BY <1>3, <2>5, <2>6
<1>5. wide <= after
  <2>1. In(n + 1, g, {"wide"}) \subseteq Live(n + 1, g)
    BY DEF In, Live, Kinds
  <2> QED
    BY <1>2, <2>1, LiveFinite, FS_Subset
<1>6. shared \in Nat /\ shared <= before
  <2>1. Sharing(n, g) \subseteq Live(m, n - 1)
    BY <1>2 DEF Sharing, Near, In, Live, Kinds
  <2> QED
    BY <1>2, <2>1, LiveFinite, FS_Subset, FS_CardinalityType
<1>7. Words(n, g) = after + wide + shared + (IF g = N THEN Epilogue ELSE 1)
  BY DEF Words, N
<1> HIDE DEF before, after, wide, shared
<1>8. CASE g = N
  BY <1>3, <1>4, <1>5, <1>6, <1>7, <1>8, RangeAssumption DEF Bound, Epilogue
<1>9. CASE g # N
  BY <1>3, <1>4, <1>5, <1>6, <1>7, <1>9, RangeAssumption DEF Bound, Epilogue
<1> QED
  BY <1>8, <1>9

LEMMA IInvReach == IInv => LiteralsInReach
<1> SUFFICES ASSUME IInv, i = 0, NEW n \in In(1, N, {"label"})
             PROVE  \E g \in 1..N : NextPool(n, g) /\ Words(n, g) <= Reach
  BY DEF LiteralsInReach, N
<1>1. PICK g \in 1..N, m \in 1..n : Near(n, g, m)
  BY DEF IInv, LoadsNear
<1> QED
  BY <1>1, NearIsInReach DEF IInv, Near

LEMMA SpecIInv == Spec => []IInv
BY InitIInv, NextIInv, PTL DEF Spec

-----------------------------------------------------------------------------
(* Fixing the loads and placing the pools keeps to the function: every     *)
(* pool is put between two of its instructions.                            *)
THEOREM TypeCorrect == Spec => []TypeOK
<1>1. IInv => TypeOK
  BY DEF IInv
<1> QED
  BY <1>1, SpecIInv, PTL

(* Whatever the locals and the saved registers take, a load of a parameter *)
(* reads what the caller stored for it.                                    *)
THEOREM ParamsRight == Spec => []ParamsFound
<1>1. IInv => ParamsFound
  BY DEF IInv
<1> QED
  BY <1>1, SpecIInv, PTL

(* When the walk is over every load of a label reaches its literal, in     *)
(* every function, for every POOL_RANGE that leaves a load room for twice  *)
(* the instructions counted and the epilogue.                              *)
THEOREM LiteralsReached == Spec => []LiteralsInReach
BY IInvReach, SpecIInv, PTL
=============================================================================
