-------------------------- MODULE RegAllocMoveProofs --------------------------
(***************************************************************************)
(* Where operands and moves are in the allocator's tables, for every       *)
(* program and register set: no operand is lost (NoNodeLost), a move that  *)
(* may still be coalesced is known to the nodes that stand for its ends    *)
(* (MovesKnownToRoots), and none is left when colouring starts             *)
(* (NoMoveLeft).  With these, every round is shown to end (RoundsEnd).     *)
(*                                                                         *)
(* None of the three invariants is inductive.  That no move is left needs  *)
(* that the ends of every live move are represented on freezeWorklist or   *)
(* spillWorklist (Listed); that stays true because a node enters           *)
(* simplifyWorklist only with its last live move gone (Settled), which     *)
(* the tests of MoveRelated see only because the node knows all its moves  *)
(* (MovesKnownToRoots); and at Build it is true because every operand of a *)
(* move is in `initial' (NoNodeLost).                                      *)
(***************************************************************************)
EXTENDS RegAllocProofs

-----------------------------------------------------------------------------
(***************************************************************************)
(* The inductive invariant                                                 *)
(***************************************************************************)
\* What is empty at each call of AllocateCurFunc.
Phases ==
    /\ pc \notin {"build", "mkworklist"} => initial = {}
    /\ pc # "select" => /\ simplifyWorklist = {} /\ freezeWorklist = {}
                        /\ spillWorklist = {} /\ activeMoves = {}
    /\ pc \notin {"mkworklist", "select"} => worklistMoves = {}
    /\ pc \notin {"select", "color"} => selectStack = <<>> /\ coalescedNodes = {}
    /\ pc \in {"build", "mkworklist", "select"} => coloredNodes = {} /\ spilledNodes = {}
    /\ pc # "rewrite" => newTemps = {}
    /\ pc = "done" => spilledNodes = {}

\* A deferred move waits in one place, and neither of its ends is a REG.
Deferred ==
    /\ activeMoves \cap worklistMoves = {}
    /\ \A m \in activeMoves : dest(m) \notin Regs /\ src(m) \notin Regs

\* Both operands of a live move list it, also when they are coalesced.
EndsKnown == \A m \in LiveMoves : m \in moveList[dest(m)] /\ m \in moveList[src(m)]

\* What is to be simplified, or has been, takes part in no live move.
Settled ==
    \A n \in simplifyWorklist \cup ToSet(selectStack) : moveList[n] \cap LiveMoves = {}

\* The virtual ends of a live move are represented on a worklist from which
\* the loop has yet to take them.
Listed ==
    \A m \in LiveMoves : \A n \in {dest(m), src(m)} \ Regs :
        /\ pc = "select" => GetAlias[n] \in freezeWorklist \cup spillWorklist
        /\ pc = "mkworklist" => n \in initial

\* No virtual register is merged into a machine register.
RootsVirtual == \A n \in Node \ Regs : GetAlias[n] \notin Regs

\* What stands for a coalesced node is itself still on its way to a colour.
RootsSomewhere ==
    \A n \in coalescedNodes :
        GetAlias[n] \in simplifyWorklist \cup freezeWorklist \cup spillWorklist
                          \cup ToSet(selectStack) \cup coloredNodes \cup spilledNodes

MovesInv ==
    /\ Phases
    /\ Deferred
    /\ EndsKnown
    /\ MovesKnownToRoots
    /\ Settled
    /\ Listed
    /\ RootsVirtual
    /\ RootsSomewhere
    /\ NoNodeLost

Inv == IInv /\ MovesInv

-----------------------------------------------------------------------------
(***************************************************************************)
(* Sequences and aliases                                                   *)
(***************************************************************************)
LEMMA ToSetAppend ==
    ASSUME NEW s \in Seq(Node), NEW n \in Node
    PROVE  ToSet(Append(s, n)) = ToSet(s) \cup {n}
<1>1. /\ Len(s) \in Nat /\ DOMAIN s = 1..Len(s)
      /\ DOMAIN Append(s, n) = 1..(Len(s) + 1)
      /\ \A i \in 1..Len(s) : Append(s, n)[i] = s[i]
      /\ Append(s, n)[Len(s) + 1] = n
  BY LenProperties, AppendProperties
<1>2. \A i \in 1..(Len(s) + 1) : i \in 1..Len(s) \/ i = Len(s) + 1
  BY <1>1
<1>3. 1..Len(s) \subseteq 1..(Len(s) + 1) /\ Len(s) + 1 \in 1..(Len(s) + 1)
  BY <1>1
<1> QED  BY <1>1, <1>2, <1>3 DEF ToSet

LEMMA ToSetFront ==
    ASSUME NEW s \in Seq(Node), s # <<>>
    PROVE  /\ ToSet(s) = ToSet(Front(s)) \cup {Last(s)}
           /\ Last(s) \in Node
           /\ DOMAIN Front(s) = 1..(Len(s) - 1) /\ DOMAIN s = 1..Len(s)
           /\ Len(s) \in Nat \ {0}
           /\ \A i \in 1..(Len(s) - 1) : Front(s)[i] = s[i]
<1> DEFINE n == Len(s)
           f == Front(s)
<1>1. /\ n \in Nat \ {0} /\ DOMAIN s = 1..n /\ DOMAIN f = 1..(n - 1)
      /\ \A i \in 1..(n - 1) : f[i] = s[i]
  BY LenProperties DEF Front
<1>2. s[n] \in Node
  BY <1>1, ElementOfSeq
<1> HIDE DEF n, f
<1>3. (\A i \in 1..n : i \in 1..(n - 1) \/ i = n) /\ n \in 1..n
  BY <1>1
<1>4. 1..(n - 1) \subseteq 1..n
  BY <1>1
<1>5. {s[i] : i \in 1..n} = {f[i] : i \in 1..(n - 1)} \cup {s[n]}
  BY <1>1, <1>3, <1>4
<1>6. ToSet(s) = ToSet(f) \cup {Last(s)}
  BY <1>1, <1>5 DEF ToSet, Last, n
<1> QED  BY <1>1, <1>2, <1>6 DEF Last, n, f

\* A machine register and every other root stand for themselves.
LEMMA RootFacts ==
    ASSUME IInv
    PROVE  /\ \A n \in Node : GetAlias[n] \in Node \ coalescedNodes
           /\ \A n \in Node \ coalescedNodes : GetAlias[n] = n
           /\ \A n \in Regs : n \in Node /\ GetAlias[n] = n
<1>1. coalescedNodes \subseteq Node /\ alias \in [Node -> Node]
  BY DEF IInv, TypeOK
<1>2. \A n \in Node : GetAlias[n] \in Node \ coalescedNodes
  BY <1>1, GetAliasType DEF IInv
<1>3. PICK root, rank : Ranked(root, rank)
  BY DEF IInv, AliasInv
<1>4. \A n \in Node \ coalescedNodes : GetAlias[n] = n
  BY <1>1, <1>3, GetAliasIsRoot DEF Ranked
<1>5. \A n \in Regs : n \in Node \ coalescedNodes
  BY RegAllocAssumption DEF RegAllocAssumption, IInv, NoREGCoalesced
<1> QED  BY <1>2, <1>4, <1>5

LEMMA AliasesUnchanged ==
    ASSUME UNCHANGED aliases
    PROVE  GetAlias' = GetAlias
BY DEF aliases, GetAlias

\* After coalescedNodes is cleared every node stands for itself.
LEMMA AliasesAfterClear ==
    ASSUME coalescedNodes' = {}, alias' \in [Node -> Node]
    PROVE  \A n \in Node : GetAlias'[n] = n
<1>1. (coalescedNodes = {} /\ alias \in [Node -> Node] => \A n \in Node : GetAlias[n] = n)'
  BY AliasesOfNone, PTL
<1> QED  BY <1>1

\* The ends of a move and the nodes that stand for them.
LEMMA MoveFacts ==
    ASSUME TypeOK, NEW m \in LiveMoves
    PROVE  /\ m \in Move /\ dest(m) \in Node /\ src(m) \in Node
BY DEF TypeOK, LiveMoves, Move, dest, src

-----------------------------------------------------------------------------
(***************************************************************************)
(* Updates of the worklists                                                *)
(***************************************************************************)
\* From w to x no node leaves the worklists, none leaves `simplify', and a
\* node enters it only when its last live move is gone.
Advances(w, x, list, live) ==
    /\ w.simplify \subseteq x.simplify
    /\ w.freeze \cup w.spill \subseteq x.simplify \cup x.freeze \cup x.spill
    /\ \A n \in x.simplify \ w.simplify : NodeMoves(n, list, live) = {}

LEMMA AdvancesTrans ==
    ASSUME NEW w, NEW x, NEW y, NEW list, NEW live,
           Advances(w, x, list, live), Advances(x, y, list, live)
    PROVE  Advances(w, y, list, live)
BY DEF Advances

LEMMA LoweredAdvances ==
    ASSUME NEW w \in WorklistsType, NEW low, NEW list, NEW live
    PROVE  Advances(w, Lowered(w, low, list, live), list, live)
BY DEF Advances, Lowered, MoveRelated, WorklistsType

LEMMA AddWorkListAdvances ==
    ASSUME NEW w \in WorklistsType, NEW n, NEW list, NEW live, NEW deg
    PROVE  Advances(w, AddWorkList(w, n, list, live, deg), list, live)
BY DEF Advances, AddWorkList, MoveRelated, WorklistsType

LEMMA SetWorklistsIs ==
    ASSUME NEW x \in WorklistsType, SetWorklists(x)
    PROVE  Worklists' = x
BY DEF SetWorklists, Worklists, WorklistsType

LEMMA FreezeMovesDef ==
    ASSUME NEW u, NEW w, FreezeMoves(u, w)
    PROVE  LET frozen == NodeMoves(u, moveList, LiveMoves)
           IN  \E order \in Orders(frozen) :
                 /\ SetWorklists([w EXCEPT !.freeze = @ \ Freed(u, frozen, order),
                                           !.simplify = @ \cup Freed(u, frozen, order)])
                 /\ activeMoves' = activeMoves \ frozen
                 /\ worklistMoves' = worklistMoves \ frozen
BY DEF FreezeMoves

\* FreezeMoves frees the nodes whose moves it gives up.
LEMMA FreezeMovesAdvances ==
    ASSUME TypeOK, NEW u, NEW w \in WorklistsType, FreezeMoves(u, w),
           UNCHANGED moveList
    PROVE  /\ LiveMoves' = LiveMoves \ NodeMoves(u, moveList, LiveMoves)
           /\ activeMoves' \subseteq activeMoves /\ worklistMoves' \subseteq worklistMoves
           /\ Advances(w, Worklists', moveList, LiveMoves')
<1> DEFINE frozen == NodeMoves(u, moveList, LiveMoves)
<1>1. PICK order \in Orders(frozen) :
        /\ SetWorklists([w EXCEPT !.freeze = @ \ Freed(u, frozen, order),
                                  !.simplify = @ \cup Freed(u, frozen, order)])
        /\ activeMoves' = activeMoves \ frozen
        /\ worklistMoves' = worklistMoves \ frozen
  BY FreezeMovesDef
<1> DEFINE freed == Freed(u, frozen, order)
           x     == [w EXCEPT !.freeze = @ \ freed, !.simplify = @ \cup freed]
<1>2. LiveMoves' = LiveMoves \ frozen
  <2> HIDE DEF frozen
  <2> QED  BY <1>1 DEF LiveMoves
<1>3. \A n \in freed : NodeMoves(n, moveList, LiveMoves) \subseteq frozen
  <2>1. freed = {Other(m, u) : m \in
          {y \in frozen :
              /\ degree[Other(y, u)] < K
              /\ NodeMoves(Other(y, u), moveList, LiveMoves)
                   \subseteq {z \in frozen : order[z] <= order[y]}}}
    BY DEF Freed
  <2> HIDE DEF freed, frozen
  <2> QED  BY <2>1
<1>4. \A n \in freed : NodeMoves(n, moveList, LiveMoves') = {}
  <2> HIDE DEF freed, frozen
  <2> QED  BY <1>2, <1>3 DEF NodeMoves
<1>5. Worklists' = [simplify |-> w.simplify \cup freed, freeze |-> w.freeze \ freed,
                    spill |-> w.spill]
  <2> HIDE DEF freed
  <2> QED  BY <1>1 DEF SetWorklists, Worklists, WorklistsType, freed
<1>6. Advances(w, Worklists', moveList, LiveMoves')
  <2> HIDE DEF freed
  <2> QED  BY <1>4, <1>5 DEF Advances
<1> QED  BY <1>1, <1>2, <1>6

-----------------------------------------------------------------------------
(***************************************************************************)
(* Steps of the selection loop that leave stack and aliases alone          *)
(***************************************************************************)
\* A root of a live move that waits on a worklist still waits when the
\* worklists have advanced: it has a live move.
LEMMA QuietStep ==
    ASSUME Inv, pc = "select",
           UNCHANGED <<pc, initial, selectStack, aliases, moveList, colouring,
                       prog, newTemps>>,
           LiveMoves' \subseteq LiveMoves,
           Deferred',
           Advances(Worklists, Worklists', moveList, LiveMoves')
    PROVE  MovesInv'
<1>1. /\ GetAlias' = GetAlias /\ moveList' = moveList /\ pc' = "select"
      /\ coalescedNodes' = coalescedNodes /\ selectStack' = selectStack
      /\ coloredNodes' = coloredNodes /\ spilledNodes' = spilledNodes
      /\ initial' = initial /\ prog' = prog /\ newTemps' = newTemps
  BY AliasesUnchanged DEF aliases, colouring
<1>2. /\ simplifyWorklist \subseteq simplifyWorklist'
      /\ freezeWorklist \cup spillWorklist
           \subseteq simplifyWorklist' \cup freezeWorklist' \cup spillWorklist'
      /\ \A n \in simplifyWorklist' \ simplifyWorklist : moveList[n] \cap LiveMoves' = {}
  BY DEF Advances, Worklists, NodeMoves
<1>3. Phases'
  BY <1>1 DEF Inv, MovesInv, Phases
<1>4. EndsKnown' /\ MovesKnownToRoots'
  BY <1>1 DEF Inv, MovesInv, EndsKnown, MovesKnownToRoots
<1>5. Settled'
  <2>1. ASSUME NEW n \in simplifyWorklist' \cup ToSet(selectStack)
        PROVE  moveList[n] \cap LiveMoves' = {}
    BY <1>2 DEF Inv, MovesInv, Settled
  <2> QED  BY <1>1, <2>1 DEF Settled
<1>6. Listed'
  <2>1. ASSUME NEW m \in LiveMoves', NEW n \in {dest(m), src(m)} \ Regs
        PROVE  GetAlias[n] \in freezeWorklist' \cup spillWorklist'
    <3>1. GetAlias[n] \in freezeWorklist \cup spillWorklist
      BY DEF Inv, MovesInv, Listed
    <3>2. m \in moveList[GetAlias[n]]
      BY DEF Inv, MovesInv, MovesKnownToRoots
    <3>3. GetAlias[n] \notin simplifyWorklist'
      BY <1>2, <3>2 DEF Inv, MovesInv, Settled
    <3> QED  BY <1>2, <3>1, <3>3
  <2> QED  BY <1>1, <2>1 DEF Listed
<1>7. RootsVirtual' /\ RootsSomewhere' /\ NoNodeLost'
  BY <1>1, <1>2 DEF Inv, MovesInv, RootsVirtual, RootsSomewhere, NoNodeLost, Virtuals
<1> QED  BY <1>3, <1>4, <1>5, <1>6, <1>7 DEF MovesInv

LEMMA CoalesceSameMoves ==
    ASSUME Inv, NEW m \in worklistMoves, CoalesceSame(m)
    PROVE  MovesInv'
<1>1. /\ pc = "select" /\ worklistMoves' = worklistMoves \ {m}
      /\ UNCHANGED <<pc, initial, selectStack, aliases, graph, moveList, activeMoves,
                     colouring, rewriting, lifespan>>
  BY DEF CoalesceSame, CoalesceGuard
<1>2. LiveMoves' = LiveMoves \ {m} /\ Deferred'
  BY <1>1 DEF LiveMoves, Inv, MovesInv, Deferred
<1>3. Advances(Worklists, Worklists', moveList, LiveMoves')
  <2> DEFINE u == MoveEnds(m)[1]
             w == AddWorkList(Worklists, u, moveList, LiveMoves \ {m}, degree)
  <2>1. Worklists \in WorklistsType
    BY WorklistsIsType DEF Inv, IInv, TypeOK, WorklistsOK
  <2>2. SetWorklists(w) /\ w \in WorklistsType
    BY <2>1, MoveEndsType, AddWorkListType DEF CoalesceSame, Inv, IInv
  <2>3. Advances(Worklists, w, moveList, LiveMoves \ {m})
    BY <2>1, AddWorkListAdvances
  <2> HIDE DEF w
  <2> QED  BY <1>2, <2>2, <2>3, SetWorklistsIs
<1> QED  BY <1>1, <1>2, <1>3, QuietStep DEF rewriting

LEMMA CoalesceConstrainedMoves ==
    ASSUME Inv, NEW m \in worklistMoves, CoalesceConstrained(m)
    PROVE  MovesInv'
<1>1. /\ pc = "select" /\ worklistMoves' = worklistMoves \ {m}
      /\ UNCHANGED <<pc, initial, selectStack, aliases, graph, moveList, activeMoves,
                     colouring, rewriting, lifespan>>
  BY DEF CoalesceConstrained, CoalesceGuard
<1>2. LiveMoves' = LiveMoves \ {m} /\ Deferred'
  BY <1>1 DEF LiveMoves, Inv, MovesInv, Deferred
<1>3. Advances(Worklists, Worklists', moveList, LiveMoves')
  <2> DEFINE u    == MoveEnds(m)[1]
             v    == MoveEnds(m)[2]
             live == LiveMoves \ {m}
             w1   == AddWorkList(Worklists, u, moveList, live, degree)
             w2   == AddWorkList(w1, v, moveList, live, degree)
  <2>1. Worklists \in WorklistsType
    BY WorklistsIsType DEF Inv, IInv, TypeOK, WorklistsOK
  <2>2. u \in Node /\ v \in Node
    BY MoveEndsType DEF Inv, IInv
  <2>3. SetWorklists(w2)
    BY DEF CoalesceConstrained
  <2> HIDE DEF u, v, live
  <2>4. w1 \in WorklistsType /\ Advances(Worklists, w1, moveList, live)
    BY <2>1, <2>2, AddWorkListType, AddWorkListAdvances
  <2> HIDE DEF w1
  <2>5. w2 \in WorklistsType /\ Advances(w1, w2, moveList, live)
    BY <2>2, <2>4, AddWorkListType, AddWorkListAdvances
  <2> HIDE DEF w2
  <2>6. Advances(Worklists, w2, moveList, live)
    BY <2>4, <2>5, AdvancesTrans
  <2>7. Worklists' = w2
    BY <2>3, <2>5, SetWorklistsIs
  <2> QED  BY <1>2, <2>6, <2>7 DEF live
<1> QED  BY <1>1, <1>2, <1>3, QuietStep DEF rewriting

\* A move is deferred only between two virtual registers: MoveEnds puts a REG
\* into v, and with a REG in v the move counts as constrained.
LEMMA UnconstrainedEnds ==
    ASSUME Inv, NEW m \in worklistMoves,
           ~Constrained(MoveEnds(m)[1], MoveEnds(m)[2])
    PROVE  /\ dest(m) \in Node \ Regs /\ src(m) \in Node \ Regs
           /\ MoveEnds(m)[1] = GetAlias[src(m)] /\ MoveEnds(m)[1] \notin Regs
           /\ MoveEnds(m)[2] = GetAlias[dest(m)] /\ MoveEnds(m)[2] \notin Regs
<1>1. dest(m) \in Node /\ src(m) \in Node
  BY MoveFacts DEF Inv, IInv, LiveMoves
<1>2. GetAlias[src(m)] \notin Regs /\ GetAlias[dest(m)] \notin Regs
      /\ MoveEnds(m)[1] = GetAlias[src(m)] /\ MoveEnds(m)[2] = GetAlias[dest(m)]
  BY DEF Constrained, MoveEnds
<1> QED  BY <1>1, <1>2, RootFacts DEF Inv

LEMMA CoalesceDeferMoves ==
    ASSUME Inv, NEW m \in worklistMoves, CoalesceDefer(m)
    PROVE  MovesInv'
<1>1. /\ pc = "select" /\ ~Constrained(MoveEnds(m)[1], MoveEnds(m)[2])
      /\ worklistMoves' = worklistMoves \ {m} /\ activeMoves' = activeMoves \cup {m}
      /\ UNCHANGED <<pc, initial, worklists, selectStack, aliases, graph, moveList,
                     colouring, rewriting, lifespan>>
  BY DEF CoalesceDefer, CoalesceGuard
<1>2. LiveMoves' = LiveMoves
  BY <1>1 DEF LiveMoves
<1>3. Deferred'
  <2>1. dest(m) \notin Regs /\ src(m) \notin Regs
    BY <1>1, UnconstrainedEnds
  <2> QED  BY <1>1, <2>1 DEF Inv, MovesInv, Deferred
<1>4. Advances(Worklists, Worklists', moveList, LiveMoves')
  BY <1>1 DEF Advances, Worklists, worklists
<1> QED  BY <1>1, <1>2, <1>3, <1>4, QuietStep DEF rewriting

LEMMA FreezeMovesQuiet ==
    ASSUME Inv, NEW u, NEW w \in WorklistsType, FreezeMoves(u, w),
           pc = "select", w.simplify = simplifyWorklist \cup {u},
           freezeWorklist \cup spillWorklist \subseteq w.simplify \cup w.freeze \cup w.spill,
           UNCHANGED <<pc, initial, selectStack, aliases, graph, moveList, colouring,
                       rewriting, lifespan>>
    PROVE  MovesInv'
<1>1. /\ LiveMoves' = LiveMoves \ NodeMoves(u, moveList, LiveMoves)
      /\ activeMoves' \subseteq activeMoves /\ worklistMoves' \subseteq worklistMoves
      /\ Advances(w, Worklists', moveList, LiveMoves')
  BY FreezeMovesAdvances DEF Inv, IInv
<1>2. Deferred'
  BY <1>1 DEF Inv, MovesInv, Deferred
<1>3. Advances(Worklists, w, moveList, LiveMoves')
  BY <1>1 DEF Advances, Worklists, NodeMoves
<1>4. Advances(Worklists, Worklists', moveList, LiveMoves')
  BY <1>1, <1>3, AdvancesTrans
<1> QED  BY <1>1, <1>2, <1>4, QuietStep DEF rewriting

LEMMA FreezeMovesInv ==
    ASSUME Inv, NEW u \in freezeWorklist, Freeze(u)
    PROVE  MovesInv'
<1> DEFINE w == [Worklists EXCEPT !.freeze = @ \ {u}, !.simplify = @ \cup {u}]
<1>1. /\ w \in WorklistsType /\ w.simplify = simplifyWorklist \cup {u}
      /\ freezeWorklist \cup spillWorklist \subseteq w.simplify \cup w.freeze \cup w.spill
  BY DEF Inv, IInv, TypeOK, Worklists, WorklistsType
<1>2. FreezeMoves(u, w) /\ pc = "select"
      /\ UNCHANGED <<pc, initial, selectStack, aliases, graph, moveList, colouring,
                     rewriting, lifespan>>
  BY DEF Freeze
<1> QED  BY <1>1, <1>2, FreezeMovesQuiet

LEMMA SelectSpillMoves ==
    ASSUME Inv, NEW u \in spillWorklist, SelectSpill(u)
    PROVE  MovesInv'
<1> DEFINE w == [Worklists EXCEPT !.spill = @ \ {u}, !.simplify = @ \cup {u}]
<1>1. /\ w \in WorklistsType /\ w.simplify = simplifyWorklist \cup {u}
      /\ freezeWorklist \cup spillWorklist \subseteq w.simplify \cup w.freeze \cup w.spill
  BY DEF Inv, IInv, TypeOK, Worklists, WorklistsType
<1>2. FreezeMoves(u, w) /\ pc = "select"
      /\ UNCHANGED <<pc, initial, selectStack, aliases, graph, moveList, colouring,
                     rewriting, lifespan>>
  BY DEF SelectSpill
<1> QED  BY <1>1, <1>2, FreezeMovesQuiet

-----------------------------------------------------------------------------
(***************************************************************************)
(* Simplify and Combine                                                    *)
(***************************************************************************)
\* What EnableMoves takes from activeMoves it gives to worklistMoves.
LEMMA EnabledLive ==
    ASSUME NEW low, NEW list, NEW edges, NEW removed
    PROVE  Enabled(low, list, edges, removed) \subseteq activeMoves
BY DEF Enabled

LEMMA SimplifyMoves ==
    ASSUME Inv, NEW n \in simplifyWorklist, Simplify(n)
    PROVE  MovesInv'
<1> DEFINE removed == Removed(selectStack', coalescedNodes)
           adj     == Adjacent(n, adjSet, removed)
           low     == {m \in adj : degree[m] = K}
           enabled == Enabled(low, moveList, adjSet, removed)
           w       == [Worklists EXCEPT !.simplify = @ \ {n}]
           x       == Lowered(w, low, moveList, LiveMoves)
<1>1. /\ pc = "select" /\ selectStack' = Append(selectStack, n)
      /\ activeMoves' = activeMoves \ enabled
      /\ worklistMoves' = worklistMoves \cup enabled
      /\ SetWorklists(x)
      /\ UNCHANGED <<pc, initial, aliases, adjSet, moveList, colouring, rewriting,
                     lifespan>>
  BY DEF Simplify
<1>2. enabled \subseteq activeMoves
  BY EnabledLive
<1>3. low \in SUBSET Node
  BY DEF Adjacent, AdjList
<1>4. /\ w \in WorklistsType /\ w.simplify = simplifyWorklist \ {n}
      /\ w.freeze = freezeWorklist /\ w.spill = spillWorklist
  BY DEF Inv, IInv, TypeOK, Worklists, WorklistsType
<1> HIDE DEF low, enabled, w
<1>5. x \in WorklistsType /\ Advances(w, x, moveList, LiveMoves)
  BY <1>3, <1>4, LoweredType, LoweredAdvances
<1>6. Worklists' = x
  BY <1>1, <1>5, SetWorklistsIs
<1> HIDE DEF x
<1>7. LiveMoves' = LiveMoves /\ Deferred'
  BY <1>1, <1>2 DEF LiveMoves, Inv, MovesInv, Deferred
<1>8. /\ GetAlias' = GetAlias /\ moveList' = moveList /\ pc' = "select"
      /\ coalescedNodes' = coalescedNodes
      /\ coloredNodes' = coloredNodes /\ spilledNodes' = spilledNodes
      /\ initial' = initial /\ prog' = prog /\ newTemps' = newTemps
  BY <1>1, AliasesUnchanged DEF aliases, colouring, rewriting
<1>9. ToSet(selectStack') = ToSet(selectStack) \cup {n}
  BY <1>1, ToSetAppend DEF Inv, IInv, TypeOK
<1>10. /\ simplifyWorklist \ {n} \subseteq simplifyWorklist'
       /\ freezeWorklist \cup spillWorklist
            \subseteq simplifyWorklist' \cup freezeWorklist' \cup spillWorklist'
       /\ \A k \in simplifyWorklist' \ (simplifyWorklist \ {n}) :
             moveList[k] \cap LiveMoves = {}
  BY <1>4, <1>5, <1>6 DEF Advances, Worklists, NodeMoves
<1>11. Phases'
  BY <1>8 DEF Inv, MovesInv, Phases
<1>12. EndsKnown' /\ MovesKnownToRoots'
  BY <1>7, <1>8 DEF Inv, MovesInv, EndsKnown, MovesKnownToRoots
<1>13. Settled'
  <2>1. ASSUME NEW k \in simplifyWorklist' \cup ToSet(selectStack')
        PROVE  moveList[k] \cap LiveMoves = {}
    BY <1>9, <1>10 DEF Inv, MovesInv, Settled
  <2> QED  BY <1>7, <1>8, <2>1 DEF Settled
<1>14. Listed'
  <2>1. ASSUME NEW m \in LiveMoves, NEW k \in {dest(m), src(m)} \ Regs
        PROVE  GetAlias[k] \in freezeWorklist' \cup spillWorklist'
    <3>1. GetAlias[k] \in freezeWorklist \cup spillWorklist
      BY <1>1 DEF Inv, MovesInv, Listed
    <3>2. m \in moveList[GetAlias[k]]
      BY DEF Inv, MovesInv, MovesKnownToRoots
    <3>3. GetAlias[k] \notin simplifyWorklist'
      BY <1>10, <3>2 DEF Inv, MovesInv, Settled
    <3> QED  BY <1>10, <3>1, <3>3
  <2> QED  BY <1>7, <1>8, <2>1 DEF Listed
<1>15. RootsVirtual' /\ RootsSomewhere' /\ NoNodeLost'
  <2>1. simplifyWorklist \cup freezeWorklist \cup spillWorklist \cup ToSet(selectStack)
          \subseteq simplifyWorklist' \cup freezeWorklist' \cup spillWorklist' \cup ToSet(selectStack')
    BY <1>9, <1>10
  <2> QED  BY <1>8, <2>1
           DEF Inv, MovesInv, RootsVirtual, RootsSomewhere, NoNodeLost, Virtuals
<1> QED  BY <1>7, <1>11, <1>12, <1>13, <1>14, <1>15 DEF MovesInv

\* Two roots that are merged are virtual, wait on a worklist, and are not on
\* the stack: the move between them is still live.
LEMMA CombineFacts ==
    ASSUME Inv, NEW m \in worklistMoves, CoalesceCombine(m)
    PROVE  LET u == MoveEnds(m)[1]
               v == MoveEnds(m)[2]
           IN
           /\ u \in Node \ (coalescedNodes \cup Regs) /\ GetAlias[u] = u
           /\ v \in Node \ (coalescedNodes \cup Regs) /\ GetAlias[v] = v
           /\ u # v /\ <<u, v>> \notin adjSet
           /\ u \in freezeWorklist \cup spillWorklist
           /\ u \notin ToSet(selectStack) /\ v \notin ToSet(selectStack)
           /\ coalescedNodes' = coalescedNodes \cup {v}
           /\ \A n \in Node : GetAlias'[n] = IF GetAlias[n] = v THEN u ELSE GetAlias[n]
<1> DEFINE u == MoveEnds(m)[1]
           v == MoveEnds(m)[2]
<1>1. /\ pc = "select" /\ u # v /\ ~Constrained(u, v)
      /\ coalescedNodes' = coalescedNodes \cup {v}
      /\ alias' = [alias EXCEPT ![v] = u]
  BY DEF CoalesceCombine, CoalesceGuard
<1>2. /\ dest(m) \in Node \ Regs /\ src(m) \in Node \ Regs
      /\ u = GetAlias[src(m)] /\ u \notin Regs
      /\ v = GetAlias[dest(m)] /\ v \notin Regs
  BY <1>1, UnconstrainedEnds
<1> HIDE DEF u, v
<1>3. u \in Node \ coalescedNodes /\ v \in Node \ coalescedNodes
      /\ GetAlias[u] = u /\ GetAlias[v] = v
  BY <1>2, RootFacts DEF Inv
<1>4. m \in LiveMoves
  BY DEF LiveMoves
<1>5. u \in freezeWorklist \cup spillWorklist
  BY <1>1, <1>2, <1>4 DEF Inv, MovesInv, Listed
<1>6. m \in moveList[u] /\ m \in moveList[v]
  BY <1>2, <1>4 DEF Inv, MovesInv, MovesKnownToRoots
<1>7. u \notin ToSet(selectStack) /\ v \notin ToSet(selectStack)
  BY <1>4, <1>6 DEF Inv, MovesInv, Settled
<1>8. \A n \in Node : GetAlias'[n] = IF GetAlias[n] = v THEN u ELSE GetAlias[n]
  BY <1>1, <1>3, AliasesExtended DEF Inv, IInv, TypeOK
<1> QED  BY <1>1, <1>2, <1>3, <1>5, <1>7, <1>8 DEF Constrained, u, v

\* The worklists after Combine, from those without v.
LEMMA CombineAdvances ==
    ASSUME Inv, NEW m \in worklistMoves, CoalesceCombine(m)
    PROVE  /\ LiveMoves' = LiveMoves \ {m} /\ Deferred'
           /\ simplifyWorklist = {}
           /\ (freezeWorklist \cup spillWorklist) \ {MoveEnds(m)[2]}
                \subseteq simplifyWorklist' \cup freezeWorklist' \cup spillWorklist'
           /\ \A n \in simplifyWorklist' : moveList'[n] \cap LiveMoves' = {}
<1> DEFINE u       == MoveEnds(m)[1]
           v       == MoveEnds(m)[2]
           removed == Removed(selectStack, coalescedNodes')
           adj     == Adjacent(v, adjSet, removed)
           gained  == {t \in adj : <<t, u>> \notin adjSet /\ t # u}
           up(n)   == CASE n \in Regs  -> 0
                        [] n = u       -> Cardinality(gained)
                        [] n \in gained -> 1
                        [] OTHER       -> 0
           low     == {t \in adj : degree[t] + up(t) = K}
           live    == LiveMoves \ {m}
           enabled == Enabled(low, moveList', adjSet', removed)
           w1 == IF v \in freezeWorklist
                 THEN [Worklists EXCEPT !.freeze = @ \ {v}]
                 ELSE [Worklists EXCEPT !.spill = @ \ {v}]
           w2 == Lowered(w1, low, moveList', live)
           w3 == IF degree'[u] >= K /\ u \in w2.freeze
                 THEN [w2 EXCEPT !.freeze = @ \ {u}, !.spill = @ \cup {u}]
                 ELSE w2
           w4 == AddWorkList(w3, u, moveList', live, degree')
<1>1. /\ simplifyWorklist = {}
      /\ activeMoves' = activeMoves \ enabled
      /\ worklistMoves' = (worklistMoves \ {m}) \cup enabled
      /\ SetWorklists(w4)
  BY DEF CoalesceCombine, CoalesceGuard
<1>2. enabled \subseteq activeMoves
  BY EnabledLive
<1>3. u \in Node /\ low \in SUBSET Node
  BY MoveEndsType DEF Inv, IInv, Adjacent, AdjList
<1>4. /\ w1 \in WorklistsType /\ w1.simplify = {}
      /\ (freezeWorklist \cup spillWorklist) \ {v} \subseteq w1.freeze \cup w1.spill
  BY <1>1 DEF Inv, IInv, TypeOK, Worklists, WorklistsType
<1> HIDE DEF u, v, low, live, enabled, w1
<1>5. LiveMoves' = live /\ Deferred'
  <2>1. m \notin activeMoves
    BY DEF Inv, MovesInv, Deferred
  <2>2. LiveMoves' = live
    BY <1>1, <1>2, <2>1 DEF LiveMoves, live
  <2> QED  BY <1>1, <1>2, <2>1, <2>2 DEF Inv, MovesInv, Deferred
<1>6. w2 \in WorklistsType /\ Advances(w1, w2, moveList', live)
  BY <1>3, <1>4, LoweredType, LoweredAdvances
<1> HIDE DEF w2
<1>7. w3 \in WorklistsType /\ Advances(w2, w3, moveList', live)
  BY <1>3, <1>6 DEF Advances, WorklistsType
<1> HIDE DEF w3
<1>8. w4 \in WorklistsType /\ Advances(w3, w4, moveList', live)
  BY <1>3, <1>7, AddWorkListType, AddWorkListAdvances
<1> HIDE DEF w4
<1>9. Advances(w1, w4, moveList', live)
  BY <1>6, <1>7, <1>8, AdvancesTrans
<1>10. Worklists' = w4
  BY <1>1, <1>8, SetWorklistsIs
<1> QED  BY <1>1, <1>4, <1>5, <1>9, <1>10 DEF Advances, Worklists, NodeMoves, live, v

LEMMA CoalesceCombineMoves ==
    ASSUME Inv, NEW m \in worklistMoves, CoalesceCombine(m)
    PROVE  MovesInv'
<1> DEFINE u == MoveEnds(m)[1]
           v == MoveEnds(m)[2]
<1>1. /\ u \in Node \ (coalescedNodes \cup Regs) /\ GetAlias[u] = u
      /\ v \in Node \ (coalescedNodes \cup Regs) /\ GetAlias[v] = v
      /\ u # v
      /\ u \in freezeWorklist \cup spillWorklist
      /\ u \notin ToSet(selectStack) /\ v \notin ToSet(selectStack)
      /\ coalescedNodes' = coalescedNodes \cup {v}
      /\ \A n \in Node : GetAlias'[n] = IF GetAlias[n] = v THEN u ELSE GetAlias[n]
  BY CombineFacts
<1>2. /\ LiveMoves' = LiveMoves \ {m} /\ Deferred'
      /\ simplifyWorklist = {}
      /\ (freezeWorklist \cup spillWorklist) \ {v}
           \subseteq simplifyWorklist' \cup freezeWorklist' \cup spillWorklist'
      /\ \A n \in simplifyWorklist' : moveList'[n] \cap LiveMoves' = {}
  BY CombineAdvances
<1>3. /\ pc = "select" /\ moveList' = MergedMoves(u, v)
      /\ UNCHANGED <<pc, initial, selectStack, colouring, rewriting, lifespan>>
  BY DEF CoalesceCombine, CoalesceGuard
<1> HIDE DEF u, v
<1>4. \A n \in Node : moveList'[n] = IF n = u THEN moveList[u] \cup moveList[v] ELSE moveList[n]
  BY <1>1, <1>3 DEF MergedMoves, Inv, IInv, TypeOK
<1>5. /\ pc' = "select" /\ selectStack' = selectStack
      /\ coloredNodes' = coloredNodes /\ spilledNodes' = spilledNodes
      /\ initial' = initial /\ prog' = prog /\ newTemps' = newTemps
  BY <1>3 DEF colouring, rewriting
<1>6. Phases'
  BY <1>3, <1>5 DEF Inv, MovesInv, Phases
<1>7. \A n \in Node : GetAlias[n] \in Node
  BY RootFacts DEF Inv
<1>8. \A k \in LiveMoves : dest(k) \in Node /\ src(k) \in Node
  BY MoveFacts DEF Inv, IInv
<1>9. EndsKnown'
  BY <1>2, <1>4, <1>8 DEF Inv, MovesInv, EndsKnown
<1>10. MovesKnownToRoots'
  <2>1. ASSUME NEW k \in LiveMoves', NEW n \in {dest(k), src(k)}
        PROVE  k \in moveList'[GetAlias'[n]]
    <3>1. n \in Node /\ k \in moveList[GetAlias[n]]
      BY <1>2, <1>8 DEF Inv, MovesInv, MovesKnownToRoots
    <3> QED  BY <1>1, <1>4, <1>7, <3>1
  <2> QED  BY <2>1 DEF MovesKnownToRoots
<1>11. Settled'
  <2>1. ASSUME NEW n \in ToSet(selectStack)
        PROVE  moveList'[n] \cap LiveMoves' = {}
    <3>1. n \in Node
      BY <2>1 DEF Inv, IInv, TypeOK, ToSet
    <3> QED  BY <1>1, <1>2, <1>4, <3>1 DEF Inv, MovesInv, Settled
  <2> QED  BY <1>2, <1>5, <2>1 DEF Settled
<1>12. Listed'
  <2>1. ASSUME NEW k \in LiveMoves', NEW n \in {dest(k), src(k)} \ Regs
        PROVE  GetAlias'[n] \in freezeWorklist' \cup spillWorklist'
    <3>1. n \in Node /\ GetAlias[n] \in freezeWorklist \cup spillWorklist
      BY <1>2, <1>3, <1>8 DEF Inv, MovesInv, Listed
    <3>2. GetAlias'[n] \in (freezeWorklist \cup spillWorklist) \ {v}
      BY <1>1, <3>1
    <3>3. k \in moveList'[GetAlias'[n]]
      BY <1>10 DEF MovesKnownToRoots
    <3>4. GetAlias'[n] \notin simplifyWorklist'
      BY <1>2, <3>3
    <3> QED  BY <1>2, <3>2, <3>4
  <2> QED  BY <1>5, <2>1 DEF Listed
<1>13. RootsVirtual'
  BY <1>1 DEF Inv, MovesInv, RootsVirtual
<1>14. RootsSomewhere'
  <2>1. ASSUME NEW n \in coalescedNodes'
        PROVE  GetAlias'[n] \in simplifyWorklist' \cup freezeWorklist' \cup spillWorklist'
                    \cup ToSet(selectStack) \cup coloredNodes \cup spilledNodes
    <3>1. n \in Node
      BY <1>1 DEF Inv, IInv, TypeOK
    <3>2. CASE GetAlias[n] = v
      BY <1>1, <1>2, <3>1, <3>2
    <3>3. CASE GetAlias[n] # v
      <4>1. n \in coalescedNodes /\ GetAlias'[n] = GetAlias[n]
        BY <1>1, <3>1, <3>3
      <4> QED  BY <1>2, <3>3, <4>1 DEF Inv, MovesInv, RootsSomewhere
    <3> QED  BY <3>2, <3>3
  <2> QED  BY <1>5, <2>1 DEF RootsSomewhere
<1>15. NoNodeLost'
  BY <1>1, <1>2, <1>5 DEF Inv, MovesInv, NoNodeLost, Virtuals
<1> QED  BY <1>2, <1>6, <1>9, <1>10, <1>11, <1>12, <1>13, <1>14, <1>15 DEF MovesInv

-----------------------------------------------------------------------------
(***************************************************************************)
(* The other steps of a round                                              *)
(***************************************************************************)
LEMMA InitMoves == ASSUME Init PROVE MovesInv
<1>1. /\ pc = "build" /\ coalescedNodes = {} /\ alias \in [Node -> Node]
      /\ simplifyWorklist = {} /\ freezeWorklist = {} /\ spillWorklist = {}
      /\ selectStack = <<>> /\ worklistMoves = {} /\ activeMoves = {}
      /\ coloredNodes = {} /\ spilledNodes = {} /\ newTemps = {}
      /\ initial = {n \in Occurring(prog) : n \in Node \ Regs}
  BY DEF Init
<1>2. LiveMoves = {} /\ ToSet(selectStack) = {}
  BY <1>1 DEF LiveMoves, ToSet
<1>3. Phases /\ Deferred /\ EndsKnown /\ MovesKnownToRoots /\ Settled /\ Listed
      /\ RootsSomewhere
  BY <1>1, <1>2 DEF Phases, Deferred, EndsKnown, MovesKnownToRoots, Settled, Listed,
                    RootsSomewhere
<1>4. RootsVirtual
  BY <1>1, AliasesOfNone DEF RootsVirtual
<1>5. NoNodeLost
  <2>1. Occurring(prog) \subseteq Node
    BY RegAllocAssumption DEF RegAllocAssumption, Occurring, Def, Use
  <2> QED  BY <1>1, <2>1 DEF NoNodeLost, Virtuals
<1> QED  BY <1>3, <1>4, <1>5 DEF MovesInv

\* The moves Build finds, and the operands they are entered for.
LEMMA MoveInstFacts ==
    ASSUME IInv, NEW i \in MoveInsts(prog)
    PROVE  /\ dest(i.ends) \in Def(i) /\ src(i.ends) \in Use(i)
           /\ Def(i) \cup Use(i) \subseteq Occurring(prog)
<1>1. i \in Instructions(prog) /\ ~i.isDeleted /\ IsMov(i) /\ i.ends \in Class \X Class
  BY DEF MoveInsts
<1>2. PICK b \in DOMAIN prog : \E k \in DOMAIN prog[b].insts : i = prog[b].insts[k]
  BY <1>1 DEF Instructions
<1>3. PICK k \in DOMAIN prog[b].insts : i = prog[b].insts[k]
  BY <1>2
<1>4. i \in Instruction /\ Def(i) \cup Use(i) \subseteq Occurring(prog)
  BY <1>3, CodeType DEF IInv
<1>5. dest(i.ends) \in i.def /\ i.use = {src(i.ends)}
  BY <1>1, <1>4 DEF Instruction
<1>6. dest(i.ends) \in Class /\ src(i.ends) \in Class
  BY <1>1 DEF dest, src
<1> QED  BY <1>1, <1>4, <1>5, <1>6 DEF Def, Use

LEMMA BuildMoves ==
    ASSUME Inv, Build
    PROVE  MovesInv'
<1> DEFINE mvs == MoveInsts(prog)
<1>1. /\ pc = "build" /\ pc' = "mkworklist"
      /\ moveList' = [n \in Node |->
                        moveList[n] \cup {i.ends : i \in {j \in mvs : n \in Def(j) \cup Use(j)}}]
      /\ worklistMoves' = worklistMoves \cup {i.ends : i \in mvs}
      /\ UNCHANGED <<initial, worklists, selectStack, aliases, activeMoves, colouring, rewriting>>
  BY DEF Build
<1>2. /\ worklistMoves = {} /\ activeMoves = {} /\ coalescedNodes = {}
      /\ simplifyWorklist = {} /\ freezeWorklist = {} /\ spillWorklist = {}
      /\ selectStack = <<>> /\ coloredNodes = {} /\ spilledNodes = {} /\ newTemps = {}
  BY <1>1 DEF Inv, MovesInv, Phases
<1>3. /\ initial' = initial /\ prog' = prog /\ activeMoves' = {} /\ coalescedNodes' = {}
      /\ simplifyWorklist' = {} /\ freezeWorklist' = {} /\ spillWorklist' = {}
      /\ selectStack' = <<>> /\ coloredNodes' = {} /\ spilledNodes' = {} /\ newTemps' = {}
      /\ GetAlias' = GetAlias
  BY <1>1, <1>2, AliasesUnchanged DEF worklists, aliases, colouring, rewriting
<1>4. LiveMoves' = {i.ends : i \in mvs} /\ ToSet(selectStack') = {}
  BY <1>1, <1>2, <1>3 DEF LiveMoves, ToSet
<1>5. \A n \in Node : GetAlias[n] = n
  BY <1>2, RootFacts DEF Inv
<1>6. ASSUME NEW i \in mvs
      PROVE  /\ dest(i.ends) \in Node /\ src(i.ends) \in Node
             /\ i.ends \in moveList'[dest(i.ends)] /\ i.ends \in moveList'[src(i.ends)]
             /\ dest(i.ends) \in Occurring(prog) /\ src(i.ends) \in Occurring(prog)
  <2>1. /\ dest(i.ends) \in Def(i) /\ src(i.ends) \in Use(i)
        /\ Def(i) \cup Use(i) \subseteq Occurring(prog)
    BY MoveInstFacts DEF Inv
  <2>2. Def(i) \subseteq Node /\ Use(i) \subseteq Node
    BY RegAllocAssumption DEF RegAllocAssumption, Def, Use
  <2> HIDE DEF mvs
  <2> QED  BY <1>1, <2>1, <2>2
<1> HIDE DEF mvs
<1>7. Phases' /\ Deferred'
  BY <1>1, <1>2, <1>3 DEF Inv, MovesInv, Phases, Deferred
<1>8. EndsKnown' /\ MovesKnownToRoots'
  BY <1>3, <1>4, <1>5, <1>6 DEF EndsKnown, MovesKnownToRoots
<1>9. Settled' /\ RootsSomewhere'
  BY <1>3, <1>4 DEF Settled, RootsSomewhere
<1>10. Listed'
  <2>1. Virtuals \subseteq initial
    BY <1>2 DEF Inv, MovesInv, NoNodeLost, ToSet
  <2> QED  BY <1>1, <1>3, <1>4, <1>6, <2>1 DEF Listed, Virtuals
<1>11. RootsVirtual' /\ NoNodeLost'
  BY <1>2, <1>3 DEF Inv, MovesInv, RootsVirtual, NoNodeLost, Virtuals
<1> QED  BY <1>7, <1>8, <1>9, <1>10, <1>11 DEF MovesInv

LEMMA MkWorklistMoves ==
    ASSUME Inv, MkWorklist
    PROVE  MovesInv'
<1> DEFINE high    == {n \in initial : degree[n] >= K}
           related == {n \in initial \ high : MoveRelated(n, moveList, LiveMoves)}
<1>1. /\ pc = "mkworklist" /\ pc' = "select" /\ initial' = {}
      /\ spillWorklist'    = spillWorklist \cup high
      /\ freezeWorklist'   = freezeWorklist \cup related
      /\ simplifyWorklist' = simplifyWorklist \cup (initial \ (high \cup related))
      /\ UNCHANGED <<selectStack, aliases, graph, moves, colouring, rewriting, lifespan>>
  BY DEF MkWorklist
<1>2. /\ coalescedNodes = {} /\ selectStack = <<>> /\ activeMoves = {}
      /\ simplifyWorklist = {} /\ freezeWorklist = {} /\ spillWorklist = {}
      /\ coloredNodes = {} /\ spilledNodes = {} /\ newTemps = {}
  BY <1>1 DEF Inv, MovesInv, Phases
<1>3. /\ prog' = prog /\ coalescedNodes' = {} /\ selectStack' = <<>>
      /\ coloredNodes' = {} /\ spilledNodes' = {} /\ newTemps' = {}
      /\ moveList' = moveList /\ LiveMoves' = LiveMoves
      /\ worklistMoves' = worklistMoves /\ activeMoves' = activeMoves
      /\ GetAlias' = GetAlias
  BY <1>1, <1>2, AliasesUnchanged DEF aliases, moves, colouring, rewriting, LiveMoves
<1>4. initial \subseteq simplifyWorklist' \cup freezeWorklist' \cup spillWorklist'
  BY <1>1
<1>5. \A n \in simplifyWorklist' : moveList[n] \cap LiveMoves = {}
  BY <1>1, <1>2 DEF MoveRelated, NodeMoves
<1> HIDE DEF high, related
<1>6. Phases' /\ Deferred'
  BY <1>1, <1>3 DEF Inv, MovesInv, Phases, Deferred
<1>7. EndsKnown' /\ MovesKnownToRoots' /\ RootsVirtual' /\ RootsSomewhere'
  BY <1>3 DEF Inv, MovesInv, EndsKnown, MovesKnownToRoots, RootsVirtual, RootsSomewhere
<1>8. Settled'
  BY <1>3, <1>5 DEF Settled, ToSet
<1>9. Listed'
  <2>1. ASSUME NEW m \in LiveMoves, NEW n \in {dest(m), src(m)} \ Regs
        PROVE  GetAlias[n] \in freezeWorklist' \cup spillWorklist'
    <3>1. n \in Node /\ n \in initial /\ GetAlias[n] = n
      BY <1>1, <1>2, MoveFacts, RootFacts DEF Inv, IInv, MovesInv, Listed
    <3>2. m \in moveList[n]
      BY DEF Inv, MovesInv, EndsKnown
    <3> QED  BY <1>4, <1>5, <3>1, <3>2
  <2> QED  BY <1>1, <1>3, <2>1 DEF Listed
<1>10. NoNodeLost'
  BY <1>2, <1>3, <1>4 DEF Inv, MovesInv, NoNodeLost, Virtuals
<1> QED  BY <1>6, <1>7, <1>8, <1>9, <1>10 DEF MovesInv

\* With freezeWorklist and spillWorklist empty no virtual register can be the
\* end of a live move, so no deferred move is left.
LEMMA EndSelectMoves ==
    ASSUME Inv, EndSelect
    PROVE  MovesInv'
<1>1. /\ pc = "select" /\ pc' = "color"
      /\ simplifyWorklist = {} /\ worklistMoves = {}
      /\ freezeWorklist = {} /\ spillWorklist = {}
      /\ UNCHANGED <<initial, worklists, selectStack, aliases, graph, moves, colouring,
                     rewriting, lifespan>>
  BY DEF EndSelect
<1>2. LiveMoves = {} /\ activeMoves = {}
  <2>1. \A m \in activeMoves : m \in LiveMoves
    BY DEF LiveMoves
  <2>2. activeMoves = {}
    BY <1>1, <2>1 DEF Inv, MovesInv, Deferred, Listed
  <2> QED  BY <1>1, <2>2 DEF LiveMoves
<1>3. /\ initial' = initial /\ prog' = prog /\ coalescedNodes' = coalescedNodes
      /\ simplifyWorklist' = {} /\ freezeWorklist' = {} /\ spillWorklist' = {}
      /\ selectStack' = selectStack /\ worklistMoves' = {} /\ activeMoves' = {}
      /\ coloredNodes' = coloredNodes /\ spilledNodes' = spilledNodes /\ newTemps' = newTemps
      /\ LiveMoves' = {} /\ GetAlias' = GetAlias
  BY <1>1, <1>2, AliasesUnchanged
     DEF worklists, aliases, moves, colouring, rewriting, LiveMoves
<1>4. Phases' /\ Deferred'
  BY <1>1, <1>3 DEF Inv, MovesInv, Phases, Deferred
<1>5. EndsKnown' /\ MovesKnownToRoots' /\ Settled' /\ Listed'
  BY <1>3 DEF EndsKnown, MovesKnownToRoots, Settled, Listed
<1>6. RootsVirtual' /\ RootsSomewhere' /\ NoNodeLost'
  BY <1>1, <1>3 DEF Inv, MovesInv, RootsVirtual, RootsSomewhere, NoNodeLost, Virtuals
<1> QED  BY <1>4, <1>5, <1>6 DEF MovesInv

LEMMA AssignColorMoves ==
    ASSUME Inv, AssignColor
    PROVE  MovesInv'
<1> DEFINE n == Last(selectStack)
<1>1. /\ pc = "color" /\ pc' = "color" /\ selectStack # <<>>
      /\ selectStack' = Front(selectStack)
      /\ UNCHANGED <<initial, worklists, aliases, graph, moves, rewriting, lifespan>>
      /\ coloredNodes \subseteq coloredNodes' /\ spilledNodes \subseteq spilledNodes'
      /\ n \in coloredNodes' \cup spilledNodes'
  BY DEF AssignColor
<1>2. ToSet(selectStack) = ToSet(selectStack') \cup {n}
  BY <1>1, ToSetFront DEF Inv, IInv, TypeOK
<1> HIDE DEF n
<1>3. /\ initial' = initial /\ prog' = prog /\ coalescedNodes' = coalescedNodes
      /\ simplifyWorklist' = simplifyWorklist /\ freezeWorklist' = freezeWorklist
      /\ spillWorklist' = spillWorklist
      /\ worklistMoves' = worklistMoves /\ activeMoves' = activeMoves
      /\ moveList' = moveList /\ newTemps' = newTemps
      /\ LiveMoves' = LiveMoves /\ GetAlias' = GetAlias
  BY <1>1, AliasesUnchanged DEF worklists, aliases, moves, rewriting, LiveMoves
<1>4. Phases' /\ Deferred'
  BY <1>1, <1>3 DEF Inv, MovesInv, Phases, Deferred
<1>5. EndsKnown' /\ MovesKnownToRoots' /\ Settled' /\ Listed'
  BY <1>1, <1>2, <1>3 DEF Inv, MovesInv, EndsKnown, MovesKnownToRoots, Settled, Listed
<1>6. RootsVirtual' /\ RootsSomewhere' /\ NoNodeLost'
  BY <1>1, <1>2, <1>3 DEF Inv, MovesInv, RootsVirtual, RootsSomewhere, NoNodeLost, Virtuals
<1> QED  BY <1>4, <1>5, <1>6 DEF MovesInv

\* From here on there are no live moves, worklists, stack or aliases.
LEMMA ClearedMoves ==
    ASSUME alias' \in [Node -> Node], coalescedNodes' = {}, selectStack' = <<>>,
           simplifyWorklist' = {}, worklistMoves' = {}, activeMoves' = {},
           Phases', NoNodeLost'
    PROVE  MovesInv'
<1>1. LiveMoves' = {} /\ ToSet(selectStack') = {}
  BY DEF LiveMoves, ToSet
<1>2. Deferred' /\ EndsKnown' /\ MovesKnownToRoots' /\ Settled' /\ Listed' /\ RootsSomewhere'
  BY <1>1 DEF Deferred, EndsKnown, MovesKnownToRoots, Settled, Listed, RootsSomewhere
<1>3. RootsVirtual'
  BY AliasesAfterClear DEF RootsVirtual
<1> QED  BY <1>2, <1>3 DEF MovesInv

LEMMA ColorCoalescedMoves ==
    ASSUME Inv, ColorCoalesced
    PROVE  MovesInv'
<1>1. /\ pc = "color" /\ pc' \in {"done", "rewrite"} /\ selectStack = <<>>
      /\ (pc' = "done" => spilledNodes = {})
      /\ coloredNodes' = coloredNodes \cup coalescedNodes /\ coalescedNodes' = {}
      /\ UNCHANGED <<initial, worklists, selectStack, alias, graph, moves, spilledNodes,
                     rewriting, lifespan>>
  BY DEF ColorCoalesced
<1>2. /\ simplifyWorklist = {} /\ freezeWorklist = {} /\ spillWorklist = {}
      /\ worklistMoves = {} /\ activeMoves = {} /\ initial = {} /\ newTemps = {}
  BY <1>1 DEF Inv, MovesInv, Phases
<1>3. /\ simplifyWorklist' = {} /\ freezeWorklist' = {} /\ spillWorklist' = {}
      /\ worklistMoves' = {} /\ activeMoves' = {} /\ initial' = {} /\ newTemps' = {}
      /\ selectStack' = <<>> /\ prog' = prog /\ spilledNodes' = spilledNodes
      /\ alias' \in [Node -> Node]
  BY <1>1, <1>2 DEF worklists, moves, rewriting, Inv, IInv, TypeOK
<1>4. Phases'
  BY <1>1, <1>3 DEF Phases
<1>5. NoNodeLost'
  BY <1>1, <1>2, <1>3 DEF Inv, MovesInv, NoNodeLost, Virtuals
<1> QED  BY <1>1, <1>3, <1>4, <1>5, ClearedMoves

LEMMA RewriteMoves ==
    ASSUME Inv, NEW v \in spilledNodes, RetrySpilled(v) \/ RewriteSpilled(v)
    PROVE  MovesInv'
<1>1. /\ pc = "rewrite" /\ pc' = "rewrite" /\ spilledNodes' = spilledNodes \ {v}
      /\ UNCHANGED <<initial, worklists, selectStack, aliases, graph, moves, coloredNodes>>
  BY DEF RetrySpilled, RewriteSpilled
<1>2. /\ coalescedNodes = {} /\ selectStack = <<>> /\ initial = {}
      /\ simplifyWorklist = {} /\ freezeWorklist = {} /\ spillWorklist = {}
      /\ worklistMoves = {} /\ activeMoves = {}
  BY <1>1 DEF Inv, MovesInv, Phases
<1>3. /\ coalescedNodes' = {} /\ selectStack' = <<>> /\ initial' = {}
      /\ simplifyWorklist' = {} /\ freezeWorklist' = {} /\ spillWorklist' = {}
      /\ worklistMoves' = {} /\ activeMoves' = {} /\ coloredNodes' = coloredNodes
      /\ alias' \in [Node -> Node]
  BY <1>1, <1>2 DEF worklists, aliases, moves, Inv, IInv, TypeOK
<1>4. Phases'
  BY <1>1, <1>3 DEF Phases
<1>5. Virtuals \subseteq coloredNodes \cup spilledNodes \cup newTemps
  BY <1>2 DEF Inv, MovesInv, NoNodeLost, ToSet
<1>6. Virtuals' \subseteq coloredNodes' \cup spilledNodes' \cup newTemps'
  <2>1. CASE RetrySpilled(v)
    BY <1>1, <1>3, <1>5, <2>1 DEF RetrySpilled, Virtuals
  <2>2. CASE RewriteSpilled(v)
    <3>1. /\ prog' = SpillCode(v, prog) /\ SpillOperands(v, prog) \subseteq Node
          /\ newTemps' = newTemps \cup SpillOperands(v, prog)
      BY <2>2 DEF RewriteSpilled
    <3>2. Occurring(prog') \subseteq Allowed(v, prog)
      BY <3>1, SpillCodeRewrites DEF Inv, IInv
    <3>3. Virtuals' \subseteq (Virtuals \ {v}) \cup SpillOperands(v, prog)
      BY <3>2 DEF Virtuals, Allowed
    <3> QED  BY <1>1, <1>3, <1>5, <3>1, <3>3
  <2> QED  BY <2>1, <2>2
<1>7. NoNodeLost'
  BY <1>6 DEF NoNodeLost
<1> QED  BY <1>3, <1>4, <1>7, ClearedMoves

LEMMA EndRewriteMoves ==
    ASSUME Inv, EndRewrite
    PROVE  MovesInv'
<1>1. /\ pc = "rewrite" /\ pc' = "build" /\ spilledNodes = {}
      /\ initial' = coloredNodes \cup coalescedNodes \cup newTemps
      /\ coloredNodes' = {} /\ coalescedNodes' = {} /\ newTemps' = {}
      /\ UNCHANGED <<worklists, selectStack, alias, graph, moves, color, spilledNodes, prog>>
  BY DEF EndRewrite
<1>2. /\ selectStack = <<>> /\ initial = {}
      /\ simplifyWorklist = {} /\ freezeWorklist = {} /\ spillWorklist = {}
      /\ worklistMoves = {} /\ activeMoves = {}
  BY <1>1 DEF Inv, MovesInv, Phases
<1>3. /\ selectStack' = <<>> /\ prog' = prog /\ spilledNodes' = {}
      /\ simplifyWorklist' = {} /\ freezeWorklist' = {} /\ spillWorklist' = {}
      /\ worklistMoves' = {} /\ activeMoves' = {} /\ alias' \in [Node -> Node]
  BY <1>1, <1>2 DEF worklists, moves, Inv, IInv, TypeOK
<1>4. Phases'
  BY <1>1, <1>3 DEF Phases
<1>5. NoNodeLost'
  BY <1>1, <1>2, <1>3 DEF Inv, MovesInv, NoNodeLost, Virtuals, ToSet
<1> QED  BY <1>1, <1>3, <1>4, <1>5, ClearedMoves

-----------------------------------------------------------------------------
LEMMA MovesPreserved == ASSUME Inv, [Next]_vars PROVE MovesInv'
<1>1. CASE UNCHANGED vars
  <2>1. GetAlias' = GetAlias
    BY <1>1, AliasesUnchanged DEF vars
  <2> QED  BY <1>1, <2>1
           DEF Inv, MovesInv, Phases, Deferred, EndsKnown, MovesKnownToRoots, Settled,
               Listed, RootsVirtual, RootsSomewhere, NoNodeLost, Virtuals, LiveMoves,
               vars, worklists, aliases, moves, colouring, rewriting
<1>2. ASSUME NEW m \in worklistMoves, Coalesce(m)
      PROVE  MovesInv'
  BY <1>2, CoalesceSameMoves, CoalesceConstrainedMoves, CoalesceCombineMoves,
     CoalesceDeferMoves DEF Coalesce
<1> QED  BY <1>1, <1>2, BuildMoves, MkWorklistMoves, SimplifyMoves, FreezeMovesInv,
            SelectSpillMoves, EndSelectMoves, AssignColorMoves, ColorCoalescedMoves,
            RewriteMoves, EndRewriteMoves DEF Next

THEOREM MovesInvariance == Spec => []Inv
<1>1. Init => Inv
  BY InitIInv, InitMoves DEF Inv
<1>2. Inv /\ [Next]_vars => Inv'
  BY MovesPreserved, TypePreserved, AliasPreserved, ProgramPreserved DEF Inv, IInv
<1> QED  BY <1>1, <1>2, PTL DEF Spec

\* In every round each virtual register of the program is in one of the
\* allocator's tables, so none keeps its VREG type into the assembler text.
THEOREM NodesKept == Spec => []NoNodeLost
<1>1. Inv => NoNodeLost
  BY DEF Inv, MovesInv
<1> QED  BY <1>1, MovesInvariance, PTL

\* Freezing a node finds every live move that keeps it from simplifying,
\* however many nodes were merged into it.
THEOREM RootsKnowMoves == Spec => []MovesKnownToRoots
<1>1. Inv => MovesKnownToRoots
  BY DEF Inv, MovesInv
<1> QED  BY <1>1, MovesInvariance, PTL

\* The loop of AllocateCurFunc, which tests four worklists and never looks at
\* activeMoves, leaves no move in it.
THEOREM MovesAllDecided == Spec => []NoMoveLeft
<1>1. Inv => NoMoveLeft
  BY DEF Inv, MovesInv, Phases, NoMoveLeft, LiveMoves
<1> QED  BY <1>1, MovesInvariance, PTL

-----------------------------------------------------------------------------
(***************************************************************************)
(* Every step of a round leaves less to do                                 *)
(***************************************************************************)
\* LexBelow compares the first components that differ.
LEMMA LexBelowAt ==
    ASSUME NEW a1, NEW a2, NEW a3, NEW a4, NEW a5, NEW a6,
           NEW b1, NEW b2, NEW b3, NEW b4, NEW b5, NEW b6
    PROVE  LET a == <<a1, a2, a3, a4, a5, a6>>
               b == <<b1, b2, b3, b4, b5, b6>>
           IN  /\ a1 < b1 => LexBelow(a, b)
               /\ a1 = b1 /\ a2 < b2 => LexBelow(a, b)
               /\ a1 = b1 /\ a2 = b2 /\ a3 < b3 => LexBelow(a, b)
               /\ a1 = b1 /\ a2 = b2 /\ a3 = b3 /\ a4 < b4 => LexBelow(a, b)
               /\ a1 = b1 /\ a2 = b2 /\ a3 = b3 /\ a4 = b4 /\ a5 < b5 => LexBelow(a, b)
               /\ a1 = b1 /\ a2 = b2 /\ a3 = b3 /\ a4 = b4 /\ a5 = b5 /\ a6 < b6
                    => LexBelow(a, b)
<1> DEFINE a == <<a1, a2, a3, a4, a5, a6>>
           b == <<b1, b2, b3, b4, b5, b6>>
<1>1. DOMAIN b = 1..6
  OBVIOUS
<1>2. /\ a[1] = a1 /\ a[2] = a2 /\ a[3] = a3 /\ a[4] = a4 /\ a[5] = a5 /\ a[6] = a6
      /\ b[1] = b1 /\ b[2] = b2 /\ b[3] = b3 /\ b[4] = b4 /\ b[5] = b5 /\ b[6] = b6
  OBVIOUS
<1> HIDE DEF a, b
<1>3. \A i \in 1..6 : a[i] < b[i] /\ (\A j \in 1..(i - 1) : a[j] = b[j]) => LexBelow(a, b)
  BY <1>1 DEF LexBelow
<1>4. /\ 1..(1 - 1) = {} /\ 1..(2 - 1) = {1} /\ 1..(3 - 1) = {1, 2}
      /\ 1..(4 - 1) = {1, 2, 3} /\ 1..(5 - 1) = {1, 2, 3, 4}
      /\ 1..(6 - 1) = {1, 2, 3, 4, 5}
  OBVIOUS
<1>5. /\ a1 < b1 => LexBelow(a, b)
      /\ a1 = b1 /\ a2 < b2 => LexBelow(a, b)
      /\ a1 = b1 /\ a2 = b2 /\ a3 < b3 => LexBelow(a, b)
  BY <1>2, <1>3, <1>4
<1>6. /\ a1 = b1 /\ a2 = b2 /\ a3 = b3 /\ a4 < b4 => LexBelow(a, b)
      /\ a1 = b1 /\ a2 = b2 /\ a3 = b3 /\ a4 = b4 /\ a5 < b5 => LexBelow(a, b)
      /\ a1 = b1 /\ a2 = b2 /\ a3 = b3 /\ a4 = b4 /\ a5 = b5 /\ a6 < b6 => LexBelow(a, b)
  BY <1>2, <1>3, <1>4
<1> QED  BY <1>5, <1>6 DEF a, b

\* A set that loses an element has fewer.
LEMMA FewerNodes ==
    ASSUME NEW S, NEW T, S \subseteq T, S # T, IsFiniteSet(T)
    PROVE  Cardinality(S) \in Nat /\ Cardinality(T) \in Nat /\ Cardinality(S) < Cardinality(T)
<1>1. IsFiniteSet(S) /\ Cardinality(S) <= Cardinality(T) /\ Cardinality(S) # Cardinality(T)
  BY FS_Subset
<1>2. Cardinality(S) \in Nat /\ Cardinality(T) \in Nat
  BY <1>1, FS_CardinalityType
<1> QED  BY <1>1, <1>2

LEMMA UnionAtMost ==
    ASSUME NEW S, NEW T, IsFiniteSet(S), IsFiniteSet(T)
    PROVE  Cardinality(S \cup T) <= Cardinality(S) + Cardinality(T)
<1>1. Cardinality(S \cup T) = Cardinality(S) + Cardinality(T) - Cardinality(S \cap T)
  BY FS_Union
<1>2. /\ Cardinality(S) \in Nat /\ Cardinality(T) \in Nat
      /\ Cardinality(S \cap T) \in Nat
  BY FS_Intersection, FS_CardinalityType
<1> QED  BY <1>1, <1>2

LEMMA MovesFinite == ASSUME NEW S, S \subseteq Move PROVE IsFiniteSet(S)
BY NodeFinite, FS_Product, FS_Subset DEF Move

\* A step that decides a move.
LEMMA MoveDecided ==
    ASSUME TypeOK, pc' = pc, LiveMoves' \subseteq LiveMoves, LiveMoves' # LiveMoves
    PROVE  LexBelow(Remaining', Remaining)
<1>1. IsFiniteSet(LiveMoves)
  BY MovesFinite DEF TypeOK, LiveMoves
<1>2. Cardinality(LiveMoves') < Cardinality(LiveMoves)
  BY <1>1, FewerNodes
<1>3. CallsLeft' = CallsLeft
  BY DEF CallsLeft
<1> QED  BY <1>2, <1>3, LexBelowAt DEF Remaining

\* A step that keeps the live moves and takes a node off the worklists.
LEMMA NodeDone ==
    ASSUME pc' = pc, LiveMoves' = LiveMoves, NodesLeft' < NodesLeft
    PROVE  LexBelow(Remaining', Remaining)
<1>1. CallsLeft' = CallsLeft
  BY DEF CallsLeft
<1> QED  BY <1>1, LexBelowAt DEF Remaining

LEMMA KIsNat == K \in Nat
BY RegAllocAssumption, FS_CardinalityType DEF RegAllocAssumption, K

\* Each node that stops being significant enters at most one worklist, which
\* weighs no more than its significance did.
LEMMA SimplifyProgress ==
    ASSUME Inv, NEW n \in simplifyWorklist, Simplify(n)
    PROVE  LexBelow(Remaining', Remaining)
<1> DEFINE removed == Removed(selectStack', coalescedNodes)
           adj     == Adjacent(n, adjSet, removed)
           low     == {m \in adj : degree[m] = K}
           related == {m \in low : MoveRelated(m, moveList, LiveMoves)}
           enabled == Enabled(low, moveList, adjSet, removed)
           w       == [Worklists EXCEPT !.simplify = @ \ {n}]
           x       == Lowered(w, low, moveList, LiveMoves)
           high    == {m \in Node : degree[m] >= K}
<1>1. /\ pc' = pc
      /\ degree' = [m \in Node |-> IF m \in adj THEN degree[m] - 1 ELSE degree[m]]
      /\ activeMoves' = activeMoves \ enabled
      /\ worklistMoves' = worklistMoves \cup enabled
      /\ SetWorklists(x)
  BY DEF Simplify
<1>2. enabled \subseteq activeMoves
  BY EnabledLive
<1>3. adj \in SUBSET Node
  BY DEF Adjacent, AdjList
<1>4. /\ w \in WorklistsType /\ w.simplify = simplifyWorklist \ {n}
      /\ w.freeze = freezeWorklist /\ w.spill = spillWorklist
  BY DEF Inv, IInv, TypeOK, Worklists, WorklistsType
<1>5. /\ simplifyWorklist' = (simplifyWorklist \ {n}) \cup (low \ related)
      /\ freezeWorklist' = freezeWorklist \cup related
      /\ spillWorklist' = spillWorklist \ low
  <2> HIDE DEF w, low
  <2> QED  BY <1>1, <1>4 DEF SetWorklists, Lowered
<1>6. {m \in Node : degree'[m] >= K} = high \ low /\ low \subseteq high
  <2> HIDE DEF adj
  <2>1. degree \in [Node -> Int] /\ K \in Nat
    BY KIsNat DEF Inv, IInv, TypeOK
  <2>2. \A m \in Node : degree'[m] = IF m \in adj THEN degree[m] - 1 ELSE degree[m]
    BY <1>1
  <2>3. \A m \in Node : degree'[m] >= K <=> degree[m] >= K /\ ~(m \in adj /\ degree[m] = K)
    BY <2>1, <2>2
  <2> QED  BY <1>3, <2>1, <2>3
<1>7. /\ low \subseteq Node /\ related \subseteq low /\ high \subseteq Node
      /\ simplifyWorklist \subseteq Node /\ freezeWorklist \subseteq Node
      /\ spillWorklist \subseteq Node
  BY <1>3 DEF Inv, IInv, TypeOK
<1> HIDE DEF low, related, high, enabled
<1>8. /\ IsFiniteSet(low) /\ IsFiniteSet(related) /\ IsFiniteSet(high)
      /\ IsFiniteSet(simplifyWorklist) /\ IsFiniteSet(freezeWorklist)
      /\ IsFiniteSet(spillWorklist) /\ IsFiniteSet(low \ related)
      /\ IsFiniteSet(simplifyWorklist \ {n})
  BY <1>7, NodeFinite, FS_Subset
<1>9. Cardinality(high \ low) = Cardinality(high) - Cardinality(low)
  <2>1. high \cap low = low
    BY <1>6
  <2> QED  BY <1>8, <2>1, FS_Difference
<1>10. Cardinality(low \ related) = Cardinality(low) - Cardinality(related)
  <2>1. low \cap related = related
    BY <1>7
  <2> QED  BY <1>8, <2>1, FS_Difference
<1>11. Cardinality(freezeWorklist') <= Cardinality(freezeWorklist) + Cardinality(related)
  BY <1>5, <1>8, UnionAtMost
<1>12. Cardinality(spillWorklist') <= Cardinality(spillWorklist)
  BY <1>5, <1>8, FS_Subset
<1>13. Cardinality(simplifyWorklist')
         <= Cardinality(simplifyWorklist) - 1 + Cardinality(low \ related)
  <2>1. Cardinality(simplifyWorklist \ {n}) = Cardinality(simplifyWorklist) - 1
    BY <1>8, FS_RemoveElement
  <2>2. Cardinality(simplifyWorklist')
          <= Cardinality(simplifyWorklist \ {n}) + Cardinality(low \ related)
    BY <1>5, <1>8, UnionAtMost
  <2> QED  BY <2>1, <2>2
<1>14. /\ Cardinality(low) \in Nat /\ Cardinality(related) \in Nat
       /\ Cardinality(low \ related) \in Nat /\ Cardinality(high) \in Nat
       /\ Cardinality(simplifyWorklist) \in Nat /\ Cardinality(freezeWorklist) \in Nat
       /\ Cardinality(spillWorklist) \in Nat
       /\ Cardinality(high \ low) \in Int
       /\ Cardinality(simplifyWorklist') \in Int /\ Cardinality(freezeWorklist') \in Int
       /\ Cardinality(spillWorklist') \in Int
  <2>1. /\ IsFiniteSet(high \ low) /\ IsFiniteSet(simplifyWorklist')
        /\ IsFiniteSet(freezeWorklist') /\ IsFiniteSet(spillWorklist')
    BY <1>5, <1>8, FS_Union, FS_Difference
  <2> QED  BY <1>8, <2>1, FS_CardinalityType
<1>15. NodesLeft = 2 * (Cardinality(high) + Cardinality(freezeWorklist)
                          + Cardinality(spillWorklist)) + Cardinality(simplifyWorklist)
       /\ NodesLeft' = 2 * (Cardinality(high \ low) + Cardinality(freezeWorklist')
                          + Cardinality(spillWorklist')) + Cardinality(simplifyWorklist')
  BY <1>6 DEF NodesLeft, high
<1>16. NodesLeft' < NodesLeft
  BY <1>9, <1>10, <1>11, <1>12, <1>13, <1>14, <1>15
<1>17. LiveMoves' = LiveMoves
  BY <1>1, <1>2 DEF LiveMoves
<1> QED  BY <1>1, <1>16, <1>17, NodeDone

LEMMA CombineStays == ASSUME NEW m, CoalesceCombine(m) PROVE pc' = pc
BY Zenon DEF CoalesceCombine

\* Merging, too, decides a move, whatever it does to degrees and worklists.
LEMMA CoalesceProgress ==
    ASSUME Inv, NEW m \in worklistMoves, Coalesce(m)
    PROVE  LexBelow(Remaining', Remaining)
<1>1. m \in LiveMoves /\ m \notin activeMoves
  BY DEF LiveMoves, Inv, MovesInv, Deferred
<1>2. CASE CoalesceSame(m) \/ CoalesceConstrained(m)
  <2>1. pc' = pc /\ worklistMoves' = worklistMoves \ {m} /\ activeMoves' = activeMoves
    BY <1>2 DEF CoalesceSame, CoalesceConstrained
  <2>2. LiveMoves' = LiveMoves \ {m}
    BY <1>1, <2>1 DEF LiveMoves
  <2> QED  BY <1>1, <2>1, <2>2, MoveDecided DEF Inv, IInv
<1>3. CASE CoalesceCombine(m)
  <2>1. pc' = pc
    BY <1>3, CombineStays
  <2>2. LiveMoves' = LiveMoves \ {m}
    BY <1>3, CombineAdvances
  <2> QED  BY <1>1, <2>1, <2>2, MoveDecided DEF Inv, IInv
<1>4. CASE CoalesceDefer(m)
  <2>1. /\ worklistMoves' = worklistMoves \ {m} /\ activeMoves' = activeMoves \cup {m}
        /\ UNCHANGED <<pc, worklists, graph>>
    BY <1>4 DEF CoalesceDefer
  <2>2. LiveMoves' = LiveMoves /\ CallsLeft' = CallsLeft
    BY <2>1 DEF LiveMoves, CallsLeft
  <2>3. NodesLeft' = NodesLeft
    BY <2>1 DEF NodesLeft, worklists, graph
  <2>4. IsFiniteSet(worklistMoves)
    BY MovesFinite DEF Inv, IInv, TypeOK
  <2>5. Cardinality(worklistMoves') < Cardinality(worklistMoves)
    BY <2>1, <2>4, FewerNodes
  <2> QED  BY <2>2, <2>3, <2>5, LexBelowAt DEF Remaining
<1> QED  BY <1>2, <1>3, <1>4 DEF Coalesce

\* Freezing gives up a live move or moves a node to the lighter worklist.
LEMMA FreezeMovesProgress ==
    ASSUME Inv, NEW u, NEW w \in WorklistsType, FreezeMoves(u, w),
           UNCHANGED <<pc, graph, moveList>>, simplifyWorklist = {}, w.simplify = {u},
           \/ u \in freezeWorklist /\ w.freeze = freezeWorklist \ {u} /\ w.spill = spillWorklist
           \/ u \in spillWorklist /\ w.spill = spillWorklist \ {u} /\ w.freeze = freezeWorklist
    PROVE  LexBelow(Remaining', Remaining)
<1> DEFINE frozen == NodeMoves(u, moveList, LiveMoves)
<1>1. pc' = pc /\ degree' = degree /\ moveList' = moveList
  BY DEF graph
<1>2. LiveMoves' = LiveMoves \ frozen
  BY <1>1, FreezeMovesAdvances DEF Inv, IInv
<1>3. PICK order \in Orders(frozen) :
        /\ SetWorklists([w EXCEPT !.freeze = @ \ Freed(u, frozen, order),
                                  !.simplify = @ \cup Freed(u, frozen, order)])
        /\ activeMoves' = activeMoves \ frozen
        /\ worklistMoves' = worklistMoves \ frozen
  BY FreezeMovesDef, Zenon
<1>4. CASE frozen # {}
  <2>1. LiveMoves' \subseteq LiveMoves /\ LiveMoves' # LiveMoves
    BY <1>2, <1>4 DEF NodeMoves
  <2> QED  BY <1>1, <2>1, MoveDecided DEF Inv, IInv
<1>5. CASE frozen = {}
  <2>1. Freed(u, frozen, order) = {}
    <3> HIDE DEF frozen
    <3> QED  BY <1>5 DEF Freed
  <2>2. /\ simplifyWorklist' = {u} /\ freezeWorklist' = w.freeze
        /\ spillWorklist' = w.spill
    <3> HIDE DEF frozen
    <3> QED  BY <1>3, <2>1 DEF SetWorklists, WorklistsType
  <2>3. /\ IsFiniteSet(freezeWorklist) /\ IsFiniteSet(spillWorklist)
        /\ {n \in Node : degree[n] >= K} \subseteq Node
    BY NodeFinite, FS_Subset DEF Inv, IInv, TypeOK
  <2>4. /\ Cardinality(freezeWorklist) \in Nat /\ Cardinality(spillWorklist) \in Nat
        /\ Cardinality({n \in Node : degree[n] >= K}) \in Nat
    BY <2>3, FS_CardinalityType, CardinalityOfNodes
  <2>5. Cardinality(simplifyWorklist) = 0 /\ Cardinality(simplifyWorklist') = 1
    BY <2>2, FS_EmptySet, FS_Singleton
  <2>6. Cardinality(freezeWorklist') + Cardinality(spillWorklist')
          = Cardinality(freezeWorklist) + Cardinality(spillWorklist) - 1
    <3>1. CASE u \in freezeWorklist /\ w.freeze = freezeWorklist \ {u} /\ w.spill = spillWorklist
      <4>1. Cardinality(freezeWorklist') = Cardinality(freezeWorklist) - 1
            /\ Cardinality(spillWorklist') = Cardinality(spillWorklist)
        BY <2>2, <2>3, <3>1, FS_RemoveElement
      <4> QED  BY <2>4, <4>1
    <3>2. CASE u \in spillWorklist /\ w.spill = spillWorklist \ {u} /\ w.freeze = freezeWorklist
      <4>1. Cardinality(spillWorklist') = Cardinality(spillWorklist) - 1
            /\ Cardinality(freezeWorklist') = Cardinality(freezeWorklist)
        BY <2>2, <2>3, <3>2, FS_RemoveElement
      <4> QED  BY <2>4, <4>1
    <3> QED  BY <3>1, <3>2
  <2>7. Cardinality(freezeWorklist') \in Nat /\ Cardinality(spillWorklist') \in Nat
    <3>1. freezeWorklist' \subseteq Node /\ spillWorklist' \subseteq Node
      BY <2>2 DEF WorklistsType
    <3> QED  BY <3>1, CardinalityOfNodes
  <2>8. /\ NodesLeft = 2 * (Cardinality({n \in Node : degree[n] >= K})
             + Cardinality(freezeWorklist) + Cardinality(spillWorklist))
             + Cardinality(simplifyWorklist)
        /\ NodesLeft' = 2 * (Cardinality({n \in Node : degree[n] >= K})
             + Cardinality(freezeWorklist') + Cardinality(spillWorklist'))
             + Cardinality(simplifyWorklist')
    BY <1>1 DEF NodesLeft
  <2>9. NodesLeft' < NodesLeft
    BY <2>4, <2>5, <2>6, <2>7, <2>8
  <2>10. LiveMoves' = LiveMoves
    BY <1>2, <1>5
  <2> QED  BY <1>1, <2>9, <2>10, NodeDone
<1> QED  BY <1>4, <1>5

LEMMA FreezeProgress ==
    ASSUME Inv, NEW u \in freezeWorklist, Freeze(u)
    PROVE  LexBelow(Remaining', Remaining)
<1> DEFINE w == [Worklists EXCEPT !.freeze = @ \ {u}, !.simplify = @ \cup {u}]
<1>1. /\ FreezeMoves(u, w) /\ simplifyWorklist = {} /\ UNCHANGED <<pc, graph, moveList>>
  BY DEF Freeze
<1>2. /\ w \in WorklistsType /\ w.simplify = {u}
      /\ w.freeze = freezeWorklist \ {u} /\ w.spill = spillWorklist
  BY <1>1 DEF Inv, IInv, TypeOK, Worklists, WorklistsType
<1> QED  BY <1>1, <1>2, FreezeMovesProgress

LEMMA SelectSpillProgress ==
    ASSUME Inv, NEW u \in spillWorklist, SelectSpill(u)
    PROVE  LexBelow(Remaining', Remaining)
<1> DEFINE w == [Worklists EXCEPT !.spill = @ \ {u}, !.simplify = @ \cup {u}]
<1>1. /\ FreezeMoves(u, w) /\ simplifyWorklist = {} /\ UNCHANGED <<pc, graph, moveList>>
  BY DEF SelectSpill
<1>2. /\ w \in WorklistsType /\ w.simplify = {u}
      /\ w.spill = spillWorklist \ {u} /\ w.freeze = freezeWorklist
  BY <1>1 DEF Inv, IInv, TypeOK, Worklists, WorklistsType
<1> QED  BY <1>1, <1>2, FreezeMovesProgress

\* A step to a later call of AllocateCurFunc.
LEMMA CallProgress ==
    ASSUME Build \/ MkWorklist \/ EndSelect \/ ColorCoalesced
    PROVE  LexBelow(Remaining', Remaining)
<1>1. \/ pc = "build" /\ pc' = "mkworklist"
      \/ pc = "mkworklist" /\ pc' = "select"
      \/ pc = "select" /\ pc' = "color"
      \/ pc = "color" /\ pc' \in {"done", "rewrite"}
  BY DEF Build, MkWorklist, EndSelect, ColorCoalesced
<1>2. CallsLeft' < CallsLeft
  BY <1>1 DEF CallsLeft
<1> QED  BY <1>2, LexBelowAt DEF Remaining

LEMMA ColourProgress ==
    ASSUME Inv, AssignColor
    PROVE  LexBelow(Remaining', Remaining)
<1>1. /\ selectStack # <<>> /\ selectStack' = Front(selectStack)
      /\ UNCHANGED <<pc, worklists, graph, moves>>
  BY DEF AssignColor
<1>2. /\ CallsLeft' = CallsLeft /\ LiveMoves' = LiveMoves /\ NodesLeft' = NodesLeft
      /\ worklistMoves' = worklistMoves
  BY <1>1 DEF CallsLeft, LiveMoves, NodesLeft, worklists, graph, moves
<1>3. Len(selectStack') < Len(selectStack)
  <2> DEFINE n == Len(selectStack)
  <2>1. selectStack \in Seq(Node)
    BY DEF Inv, IInv, TypeOK
  <2>2. n \in Nat \ {0}
    BY <1>1, <2>1, ToSetFront
  <2>3. \A i \in 1..(n - 1) : selectStack[i] \in Node
    BY <2>1, <2>2, ElementOfSeq
  <2>4. selectStack' = SubSeq(selectStack, 1, n - 1)
    BY <1>1 DEF Front
  <2> HIDE DEF n
  <2>5. Len(SubSeq(selectStack, 1, n - 1)) = IF 1 <= n - 1 THEN (n - 1) - 1 + 1 ELSE 0
    BY <2>2, <2>3, SubSeqProperties
  <2>6. Len(selectStack') < n
    BY <2>2, <2>4, <2>5
  <2> QED  BY <2>6 DEF n
<1> QED  BY <1>2, <1>3, LexBelowAt DEF Remaining

LEMMA RewriteProgress ==
    ASSUME Inv, NEW v \in spilledNodes, RetrySpilled(v) \/ RewriteSpilled(v)
    PROVE  LexBelow(Remaining', Remaining)
<1>1. /\ spilledNodes' = spilledNodes \ {v}
      /\ UNCHANGED <<pc, worklists, selectStack, graph, moves>>
  BY DEF RetrySpilled, RewriteSpilled
<1>2. /\ CallsLeft' = CallsLeft /\ LiveMoves' = LiveMoves /\ NodesLeft' = NodesLeft
      /\ worklistMoves' = worklistMoves /\ selectStack' = selectStack
  BY <1>1 DEF CallsLeft, LiveMoves, NodesLeft, worklists, graph, moves
<1>3. Cardinality(spilledNodes') < Cardinality(spilledNodes)
  <2>1. IsFiniteSet(spilledNodes)
    BY NodeFinite, FS_Subset DEF Inv, IInv, TypeOK
  <2> QED  BY <1>1, <2>1, FewerNodes
<1> QED  BY <1>2, <1>3, LexBelowAt DEF Remaining

\* What Remaining counts is never negative, so a fall of it cannot go on.
LEMMA RemainingIsNat == ASSUME Inv PROVE \A i \in DOMAIN Remaining : Remaining[i] \in Nat
<1>1. CallsLeft \in Nat
  BY DEF Inv, IInv, TypeOK, CallsLeft
<1>2. Cardinality(LiveMoves) \in Nat /\ Cardinality(worklistMoves) \in Nat
  BY MovesFinite, FS_CardinalityType DEF Inv, IInv, TypeOK, LiveMoves
<1>3. NodesLeft \in Nat
  <2>1. /\ Cardinality({n \in Node : degree[n] >= K}) \in Nat
        /\ Cardinality(freezeWorklist) \in Nat /\ Cardinality(spillWorklist) \in Nat
        /\ Cardinality(simplifyWorklist) \in Nat
    BY CardinalityOfNodes DEF Inv, IInv, TypeOK
  <2> QED  BY <2>1 DEF NodesLeft
<1>4. Len(selectStack) \in Nat /\ Cardinality(spilledNodes) \in Nat
  BY LenProperties, CardinalityOfNodes DEF Inv, IInv, TypeOK
<1>5. DOMAIN Remaining = 1..6 /\ \A i \in 1..6 : i \in {1, 2, 3, 4, 5, 6}
  BY DEF Remaining
<1>6. /\ Remaining[1] \in Nat /\ Remaining[2] \in Nat /\ Remaining[3] \in Nat
      /\ Remaining[4] \in Nat /\ Remaining[5] \in Nat /\ Remaining[6] \in Nat
  BY <1>1, <1>2, <1>3, <1>4 DEF Remaining
<1> QED  BY <1>5, <1>6

\* No round of allocation goes on forever: every step but the recursive call
\* at the end of RewriteProgram leaves less to do.
THEOREM EveryRoundEnds ==
    Spec => /\ RoundsEnd
            /\ [](\A i \in DOMAIN Remaining : Remaining[i] \in Nat)
<1>1. Inv /\ [Next]_vars => [EndRewrite \/ LexBelow(Remaining', Remaining)]_vars
  <2> SUFFICES ASSUME Inv, Next
               PROVE  EndRewrite \/ LexBelow(Remaining', Remaining)
    OBVIOUS
  <2> QED  BY SimplifyProgress, CoalesceProgress, FreezeProgress, SelectSpillProgress,
              CallProgress, ColourProgress, RewriteProgress DEF Next
<1>2. Inv => \A i \in DOMAIN Remaining : Remaining[i] \in Nat
  BY RemainingIsNat
<1> QED  BY <1>1, <1>2, MovesInvariance, PTL DEF Spec, RoundsEnd
=============================================================================
