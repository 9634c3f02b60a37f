--------------------------- MODULE LivenessProofs ---------------------------
(***************************************************************************)
(* For every function with any control flow, the round-robin iteration     *)
(* stops, and only in the least solution of the liveness equations.        *)
(*                                                                         *)
(* The three parts of the argument are parts of IInv: the sets never hold  *)
(* more than the equations call for (Below), they are inside every         *)
(* solution (Inside), and while `end' is still set the equations hold at   *)
(* every block the current round has visited (Stable).                     *)
(***************************************************************************)
EXTENDS Liveness, AsmProgramProofs

\* Nothing is live without a reason.
Below ==
    \A b \in Blocks :
        /\ livein[b] \subseteq BlockUse(b) \cup (liveout[b] \ BlockDef(b))
        /\ liveout[b] \subseteq UNION {livein[s] : s \in prog[b].succ}

\* The equations hold where this round has been, if it changed nothing.
Stable ==
    end => \A b \in Blocks :
              b > block =>
                 /\ livein[b] = BlockUse(b) \cup (liveout[b] \ BlockDef(b))
                 /\ liveout[b] = UNION {livein[s] : s \in prog[b].succ}

\* livein and liveout are inside any solution.
Within(in, out) ==
    \A b \in Blocks : livein[b] \subseteq in[b] /\ liveout[b] \subseteq out[b]

Inside ==
    \A in, out \in [Blocks -> SUBSET Class] : Solution(in, out) => Within(in, out)

Stopped == done => end /\ block = 0

IInv == prog \in Programs /\ TypeOK /\ Below /\ Stable /\ Inside /\ Stopped

-----------------------------------------------------------------------------
\* What the assumption on Programs says of the one analysed.
LEMMA BlocksType ==
    ASSUME prog \in Programs
    PROVE  /\ Len(prog) \in Nat \ {0}
           /\ Blocks = 1..Len(prog)
           /\ \A b \in Blocks : prog[b].succ \subseteq Blocks
BY LivenessAssumption DEF LivenessAssumption, IsFlowGraph, IsList, Blocks

\* The positions the inner loop passes through.
LEMMA BlockRange ==
    ASSUME prog \in Programs
    PROVE  /\ Len(prog) \in 0..Len(prog)
           /\ \A k \in 0..Len(prog) : k > 0 => k \in Blocks /\ k - 1 \in 0..Len(prog)
<1> DEFINE n == Len(prog)
<1>1. n \in Nat /\ Blocks = 1..n
  BY BlocksType
<1> HIDE DEF n
<1>2. n \in 0..n /\ \A k \in 0..n : k > 0 => k \in Blocks /\ k - 1 \in 0..n
  BY <1>1
<1> QED  BY <1>2 DEF n

\* Block summaries are sets of operands of the class.
LEMMA SummaryType == \A b \in Blocks : BlockUse(b) \subseteq Class
BY DEF BlockUse, UpwardUse, Use

LEMMA InitIInv == Init => IInv
<1> SUFFICES ASSUME Init PROVE IInv
  OBVIOUS
<1>1. prog \in Programs
  BY DEF Init
<1>2. /\ livein = [b \in Blocks |-> {}] /\ liveout = [b \in Blocks |-> {}]
      /\ block = Len(prog) /\ end = TRUE /\ done = FALSE
  BY DEF Init, Blocks
<1>3. TypeOK
  BY <1>1, <1>2, BlockRange DEF TypeOK
<1>4. Below /\ Inside /\ Stopped
  BY <1>2 DEF Below, Inside, Within, Stopped
<1>5. Stable
  BY <1>1, <1>2, BlocksType DEF Stable
<1> QED  BY <1>1, <1>3, <1>4, <1>5 DEF IInv

-----------------------------------------------------------------------------
(***************************************************************************)
(* A visit adds to the sets of one block.                                  *)
(***************************************************************************)
LEMMA VisitAdds ==
    ASSUME IInv, Visit
    PROVE  /\ block \in Blocks
           /\ \A b \in Blocks :
                /\ livein'[b] = IF b = block THEN LiveIn(b) ELSE livein[b]
                /\ liveout'[b] = IF b = block THEN LiveOutOf(b) ELSE liveout[b]
                /\ livein[b] \subseteq livein'[b]
                /\ liveout[b] \subseteq liveout'[b]
<1>1. block \in Blocks
  BY BlockRange DEF IInv, TypeOK, Visit
<1>2. /\ livein' = [livein EXCEPT ![block] = LiveIn(block)]
      /\ liveout' = [liveout EXCEPT ![block] = LiveOutOf(block)]
      /\ livein \in [Blocks -> SUBSET Class] /\ liveout \in [Blocks -> SUBSET Class]
  BY DEF Visit, IInv, TypeOK
<1>3. livein[block] \subseteq LiveIn(block) /\ liveout[block] \subseteq LiveOutOf(block)
  BY <1>1 DEF IInv, Below, LiveIn, LiveOutOf
<1> QED  BY <1>1, <1>2, <1>3

LEMMA VisitType ==
    ASSUME IInv, Visit
    PROVE  TypeOK' /\ prog' \in Programs
<1> USE DEF IInv
<1>1. prog' = prog /\ done' = done /\ Blocks' = Blocks
  BY DEF Visit, Blocks
<1>2. block' \in 0..Len(prog') /\ end' \in BOOLEAN
  BY <1>1, BlocksType DEF TypeOK, Visit
<1>3. block \in Blocks
  BY VisitAdds
<1>4. LiveIn(block) \in SUBSET Class
  BY <1>3, SummaryType DEF TypeOK, LiveIn
<1>5. livein' \in [Blocks -> SUBSET Class]
  BY <1>4 DEF Visit, TypeOK
<1>6. LiveOutOf(block) \in SUBSET Class
  <2>1. \A s \in prog[block].succ : livein'[s] \subseteq Class
    BY <1>3, <1>5, BlocksType
  <2>2. liveout[block] \subseteq Class
    BY <1>3 DEF TypeOK
  <2> QED  BY <2>1, <2>2 DEF LiveOutOf
<1>7. liveout' \in [Blocks -> SUBSET Class]
  BY <1>6 DEF Visit, TypeOK
<1> QED  BY <1>1, <1>2, <1>5, <1>7 DEF TypeOK

LEMMA VisitBelow ==
    ASSUME IInv, Visit
    PROVE  Below'
<1>1. prog' = prog /\ Blocks' = Blocks
  BY DEF Visit, Blocks
<1>2. ASSUME NEW b \in Blocks
      PROVE  /\ livein'[b] \subseteq BlockUse(b) \cup (liveout'[b] \ BlockDef(b))
             /\ liveout'[b] \subseteq UNION {livein'[s] : s \in prog[b].succ}
  <2>1. /\ livein[b] \subseteq BlockUse(b) \cup (liveout[b] \ BlockDef(b))
        /\ liveout[b] \subseteq UNION {livein[s] : s \in prog[b].succ}
    BY DEF IInv, Below
  <2>2. \A s \in prog[b].succ : livein[s] \subseteq livein'[s]
    BY VisitAdds, BlocksType DEF IInv
  <2>3. livein'[b] \subseteq BlockUse(b) \cup (liveout[b] \ BlockDef(b))
    BY <2>1, VisitAdds DEF LiveIn
  <2>4. liveout[b] \subseteq liveout'[b]
    BY VisitAdds
  <2>5. liveout'[b] \subseteq liveout[b] \cup UNION {livein'[s] : s \in prog[b].succ}
    BY VisitAdds DEF LiveOutOf
  <2> QED  BY <2>1, <2>2, <2>3, <2>4, <2>5
<1> QED  BY <1>1, <1>2 DEF Below, BlockUse, BlockDef

LEMMA VisitStable ==
    ASSUME IInv, Visit
    PROVE  Stable'
<1> SUFFICES ASSUME end', NEW b \in Blocks, b > block'
             PROVE  /\ livein'[b] = BlockUse(b) \cup (liveout'[b] \ BlockDef(b))
                    /\ liveout'[b] = UNION {livein'[s] : s \in prog[b].succ}
  BY DEF Stable, Visit, Blocks, BlockUse, BlockDef
<1>1. end /\ Unchanged(block) /\ block' = block - 1
  BY DEF Visit
<1>2. livein' = livein /\ liveout' = liveout
  <2>1. /\ livein' = [livein EXCEPT ![block] = LiveIn(block)]
        /\ liveout' = [liveout EXCEPT ![block] = LiveOutOf(block)]
        /\ livein \in [Blocks -> SUBSET Class] /\ liveout \in [Blocks -> SUBSET Class]
    BY DEF Visit, IInv, TypeOK
  <2>2. livein'[block] = livein[block] /\ liveout'[block] = liveout[block]
    BY <1>1 DEF Unchanged
  <2> QED  BY <2>1, <2>2
<1>3. CASE b = block
  <2>1. livein'[b] = LiveIn(b) /\ liveout'[b] = LiveOutOf(b)
    BY <1>3, VisitAdds
  <2>2. liveout[b] \subseteq UNION {livein[s] : s \in prog[b].succ}
    BY DEF IInv, Below
  <2> QED  BY <1>2, <2>1, <2>2 DEF LiveIn, LiveOutOf
<1>4. CASE b # block
  <2>1. b > block
    BY <1>1, <1>4, BlocksType DEF IInv, TypeOK
  <2> QED  BY <1>1, <1>2, <2>1 DEF IInv, Stable
<1> QED  BY <1>3, <1>4

LEMMA VisitInside ==
    ASSUME IInv, Visit
    PROVE  Inside'
<1>1. prog' = prog /\ Blocks' = Blocks
  BY DEF Visit, Blocks
<1>2. ASSUME NEW in \in [Blocks -> SUBSET Class], NEW out \in [Blocks -> SUBSET Class],
             Solution(in, out), NEW b \in Blocks
      PROVE  livein'[b] \subseteq in[b] /\ liveout'[b] \subseteq out[b]
  <2>1. \A c \in Blocks : livein[c] \subseteq in[c] /\ liveout[c] \subseteq out[c]
    BY <1>2 DEF IInv, Inside, Within
  <2>2. \A c \in Blocks : livein'[c] \subseteq in[c]
    BY <1>2, <2>1, VisitAdds DEF Solution, LiveIn
  <2>3. \A s \in prog[b].succ : livein'[s] \subseteq in[s]
    BY <2>2, BlocksType DEF IInv
  <2>4. liveout'[b] \subseteq liveout[b] \cup UNION {livein'[s] : s \in prog[b].succ}
    BY VisitAdds DEF LiveOutOf
  <2> QED  BY <1>2, <2>1, <2>2, <2>3, <2>4 DEF Solution
<1> QED  BY <1>1, <1>2 DEF Inside, Within, Solution, BlockUse, BlockDef

-----------------------------------------------------------------------------
LEMMA NextIInv == ASSUME IInv, [Next]_vars PROVE IInv'
<1>1. CASE Visit
  BY <1>1, VisitType, VisitBelow, VisitStable, VisitInside DEF IInv, Stopped, Visit
<1>2. ASSUME prog' = prog, livein' = livein, liveout' = liveout
      PROVE  Below' /\ Inside' /\ Blocks' = Blocks
  BY <1>2 DEF IInv, Below, Inside, Within, Solution, Blocks, BlockUse, BlockDef
<1>3. CASE NextRound
  <2>1. prog' = prog /\ livein' = livein /\ liveout' = liveout /\ block' = Len(prog)
        /\ end' = TRUE /\ done' = done /\ done = FALSE
    BY <1>3 DEF NextRound, IInv, TypeOK
  <2>2. TypeOK' /\ Stable'
    BY <1>2, <2>1, BlocksType DEF IInv, TypeOK, Stable
  <2> QED  BY <1>2, <2>1, <2>2 DEF IInv, Stopped
<1>4. CASE Finish
  <2>1. UNCHANGED <<prog, livein, liveout, block, end>> /\ done' = TRUE /\ end /\ block = 0
    BY <1>4 DEF Finish
  <2>2. TypeOK' /\ Stable'
    BY <1>2, <2>1 DEF IInv, TypeOK, Stable, BlockUse, BlockDef
  <2> QED  BY <1>2, <2>1, <2>2 DEF IInv, Stopped
<1>5. CASE UNCHANGED vars
  BY <1>2, <1>5 DEF IInv, TypeOK, Stable, Stopped, vars, BlockUse, BlockDef
<1> QED  BY <1>1, <1>3, <1>4, <1>5 DEF Next

THEOREM Invariance == Spec => []IInv
BY InitIInv, NextIInv, PTL DEF Spec

\* Whatever the control flow, when the loop of LivenessAnalysis ends livein
\* and liveout are the least solution of the data-flow equations: the code's
\* comparison with temp_in and temp_out is enough to know it.
THEOREM LeastSolutionReached == Spec => []LeastSolution
<1>1. IInv => LeastSolution
  <2> SUFFICES ASSUME IInv, done PROVE /\ Solution(livein, liveout)
                                       /\ Inside
    BY DEF LeastSolution, Inside, Within
  <2>1. \A b \in Blocks : b > block
    BY BlocksType DEF IInv, Stopped
  <2> QED  BY <2>1 DEF IInv, Stopped, Stable, Solution
<1> QED  BY <1>1, Invariance, PTL

\* Every table holds operands of the class analysed.
THEOREM TypeCorrect == Spec => []TypeOK
BY Invariance, PTL DEF IInv

-----------------------------------------------------------------------------
(***************************************************************************)
(* What the least solution means                                           *)
(***************************************************************************)
\* The operands with a walk from the start of b to a use, and those with one
\* from a successor of b.
WalkIn(b)  == {v \in Class : \E n \in 1..Len(prog) : LiveInBy(prog, b, v, n)}
WalkOut(b) == {v \in Class :
                  \E s \in prog[b].succ : \E n \in 1..Len(prog) : LiveInBy(prog, s, v, n)}

LEMMA FlowGraph ==
    ASSUME prog \in Programs
    PROVE  /\ IsFlowGraph(prog) /\ Blocks = DOMAIN prog
           /\ \A b \in Blocks : IsList(prog[b].insts)
BY LivenessAssumption DEF LivenessAssumption, IsFlowGraph, Blocks

\* The walks solve the equations.
LEMMA WalksAreSolution ==
    ASSUME prog \in Programs
    PROVE  Solution([b \in Blocks |-> WalkIn(b)], [b \in Blocks |-> WalkOut(b)])
<1> DEFINE in  == [b \in Blocks |-> WalkIn(b)]
           out == [b \in Blocks |-> WalkOut(b)]
<1> SUFFICES ASSUME NEW b \in Blocks
             PROVE  /\ WalkIn(b) = BlockUse(b) \cup (WalkOut(b) \ BlockDef(b))
                    /\ WalkOut(b) = UNION {WalkIn(s) : s \in prog[b].succ}
  <2>1. \A b \in Blocks : prog[b].succ \subseteq Blocks
    BY BlocksType
  <2>2. \A b \in Blocks : {in[s] : s \in prog[b].succ} = {WalkIn(s) : s \in prog[b].succ}
    BY <2>1
  <2> QED  BY <2>2 DEF Solution
<1>1. WalkOut(b) = UNION {WalkIn(s) : s \in prog[b].succ}
  BY DEF WalkIn, WalkOut
<1>2. /\ b \in DOMAIN prog /\ prog[b].succ \subseteq DOMAIN prog
      /\ IsFlowGraph(prog) /\ IsList(prog[b].insts)
  BY FlowGraph, BlocksType
<1>3. ASSUME NEW v \in Class
      PROVE  v \in WalkIn(b) <=> ExposedIn(prog, b, v) \/ (v \in WalkOut(b) /\ ~KilledIn(prog, b, v))
  <2>1. Len(prog) \in Nat \ {0}
    BY BlocksType
  <2>2. ASSUME NEW n \in 1..Len(prog), LiveInBy(prog, b, v, n), n # 1
        PROVE  v \in WalkOut(b) /\ ~KilledIn(prog, b, v)
    <3>1. n - 1 \in Nat \ {0} /\ n - 1 \in 1..Len(prog) /\ (n - 1) + 1 = n
      BY <2>1, <2>2
    <3>2. LiveInBy(prog, b, v, (n - 1) + 1)
      BY <2>2, <3>1
    <3>3. ~KilledIn(prog, b, v) /\ \E s \in prog[b].succ : LiveInBy(prog, s, v, n - 1)
      BY <1>2, <3>1, <3>2, WalkStep
    <3> QED  BY <3>1, <3>3 DEF WalkOut
  <2>3. ASSUME v \in WalkOut(b), ~KilledIn(prog, b, v)
        PROVE  v \in WalkIn(b)
    <3>1. PICK s \in prog[b].succ, n \in 1..Len(prog) : LiveInBy(prog, s, v, n)
      BY <2>3 DEF WalkOut
    <3>2. n \in Nat \ {0} /\ n + 1 \in Nat \ {0}
      OBVIOUS
    <3>3. LiveInBy(prog, b, v, n + 1)
      BY <1>2, <2>3, <3>1, <3>2, WalkStep
    <3> QED  BY <1>2, <3>2, <3>3, ShortWalk DEF WalkIn
  <2>4. ExposedIn(prog, b, v) <=> LiveInBy(prog, b, v, 1)
    BY <1>2, WalkOfOne
  <2>5. 1 \in 1..Len(prog)
    BY <2>1
  <2> QED  BY <2>2, <2>3, <2>4, <2>5 DEF WalkIn
<1>4. ASSUME NEW v
      PROVE  v \in BlockUse(b) \cup (WalkOut(b) \ BlockDef(b))
               <=> ExposedIn(prog, b, v) \/ (v \in WalkOut(b) /\ ~KilledIn(prog, b, v))
  BY <1>2, TransferMeaning DEF BlockUse, BlockDef
<1>5. WalkIn(b) \subseteq Class /\ WalkOut(b) \subseteq Class /\ BlockUse(b) \subseteq Class
  BY SummaryType DEF WalkIn, WalkOut
<1> QED  BY <1>1, <1>3, <1>4, <1>5

\* Every solution contains the walks.
LEMMA SolutionHasWalks ==
    ASSUME prog \in Programs, Solution(livein, liveout), NEW v \in Class,
           NEW b \in Blocks, NEW n \in Nat \ {0}, LiveInBy(prog, b, v, n)
    PROVE  v \in livein[b]
<1> DEFINE found == {k \in Nat \ {0} :
                       \E c \in Blocks : LiveInBy(prog, c, v, k) /\ v \notin livein[c]}
<1>1. SUFFICES ASSUME v \notin livein[b] PROVE FALSE
  OBVIOUS
<1>2. PICK k \in found : \A j \in found : k <= j
  <2>1. found \subseteq Nat /\ found # {}
    BY <1>1
  <2> HIDE DEF found
  <2> QED  BY <2>1, NatHasLeast
<1>3. PICK c \in Blocks : LiveInBy(prog, c, v, k) /\ v \notin livein[c]
  BY <1>2
<1>4. /\ c \in DOMAIN prog /\ prog[c].succ \subseteq DOMAIN prog /\ IsList(prog[c].insts)
      /\ prog[c].succ \subseteq Blocks
  BY FlowGraph, BlocksType
<1>5. livein[c] = UpwardUse(prog[c].insts) \cup (liveout[c] \ FirstDef(prog[c].insts))
      /\ liveout[c] = UNION {livein[s] : s \in prog[c].succ}
  BY DEF Solution, BlockUse, BlockDef
<1>6. ~ExposedIn(prog, c, v) /\ (KilledIn(prog, c, v) \/ v \notin liveout[c])
  BY <1>3, <1>4, <1>5, TransferMeaning
<1>7. k # 1
  BY <1>3, <1>4, <1>6, WalkOfOne
<1>8. k - 1 \in Nat \ {0} /\ (k - 1) + 1 = k /\ ~(k <= k - 1)
  BY <1>7
<1>9. PICK s \in prog[c].succ : ~KilledIn(prog, c, v) /\ LiveInBy(prog, s, v, k - 1)
  <2>1. LiveInBy(prog, c, v, (k - 1) + 1)
    BY <1>3, <1>8
  <2> QED  BY <1>4, <1>8, <2>1, WalkStep
<1>10. v \notin livein[s]
  BY <1>5, <1>6, <1>9
<1> QED  BY <1>2, <1>4, <1>8, <1>9, <1>10

\* When the loop has stopped, liveout is the walks.
LEMMA DoneIsWalks ==
    ASSUME IInv, LeastSolution, done
    PROVE  \A b \in Blocks : liveout[b] = WalkOut(b)
<1> DEFINE in  == [b \in Blocks |-> WalkIn(b)]
           out == [b \in Blocks |-> WalkOut(b)]
<1>1. prog \in Programs /\ Solution(livein, liveout)
  BY DEF IInv, LeastSolution
<1>2. \A b \in Blocks : liveout[b] \subseteq WalkOut(b)
  <2>1. in \in [Blocks -> SUBSET Class] /\ out \in [Blocks -> SUBSET Class]
    BY DEF WalkIn, WalkOut
  <2>2. Solution(in, out)
    BY <1>1, WalksAreSolution
  <2>3. \A b \in Blocks : liveout[b] \subseteq out[b]
    <3> HIDE DEF in, out
    <3> QED  BY <2>1, <2>2 DEF LeastSolution
  <2> QED  BY <2>3
<1>3. ASSUME NEW b \in Blocks, NEW v \in WalkOut(b)
      PROVE  v \in liveout[b]
  <2>1. PICK s \in prog[b].succ, n \in 1..Len(prog) : LiveInBy(prog, s, v, n)
    BY <1>3 DEF WalkOut
  <2>2. s \in Blocks /\ n \in Nat \ {0} /\ v \in Class
    BY <1>1, BlocksType DEF WalkOut
  <2>3. v \in livein[s]
    BY <1>1, <2>1, <2>2, SolutionHasWalks
  <2> QED  BY <1>1, <2>3 DEF Solution
<1> QED  BY <1>2, <1>3

\* A path of LiveByPath is a walk from a successor.
LEMMA PathIsWalk ==
    ASSUME prog \in Programs, NEW b \in Blocks, NEW v
    PROVE  LiveByPath(b, v) <=>
             \E s \in prog[b].succ : \E n \in 1..Len(prog) : LiveInBy(prog, s, v, n)
<1>1. Blocks = DOMAIN prog /\ Blocks = 1..Len(prog) /\ Len(prog) \in Nat
  BY BlocksType DEF Blocks
<1>2. \A n, path : (/\ path[1] \in prog[b].succ
                    /\ \A i \in 1..(n - 1) :
                          path[i + 1] \in prog[path[i]].succ /\ ~Kills(path[i], v)
                    /\ Exposes(path[n], v))
                   <=> \E s \in prog[b].succ : WalkToUse(prog, s, v, n, path)
  BY DEF WalkToUse, Kills, KilledIn, Exposes, ExposedIn
<1> QED  BY <1>1, <1>2 DEF LiveByPath, LiveInBy

\* When the loop of LivenessAnalysis ends, the operands live out of a block
\* are those with a path to a use: none is missing, none is made up.
THEOREM LiveOutMeans == Spec => []LiveOutIsMeaning
<1>1. IInv /\ LeastSolution => LiveOutIsMeaning
  <2> SUFFICES ASSUME IInv, LeastSolution, done, NEW b \in Blocks
               PROVE  liveout[b] = {v \in Class : LiveByPath(b, v)}
    BY DEF LiveOutIsMeaning
  <2>1. liveout[b] = WalkOut(b)
    BY DoneIsWalks
  <2> QED  BY <2>1, PathIsWalk DEF WalkOut, IInv
<1> QED  BY <1>1, Invariance, LeastSolutionReached, PTL

\* The closed form that the model of the register allocator uses in place
\* of the iteration is what the iteration computes.
THEOREM LiveOutComputed == Spec => []LiveOutIsClosedForm
<1>1. IInv /\ LeastSolution => LiveOutIsClosedForm
  <2> SUFFICES ASSUME IInv, LeastSolution, done
               PROVE  liveout = LiveOut(prog)
    BY DEF LiveOutIsClosedForm
  <2>1. \A b \in Blocks : liveout[b] = LiveOut(prog)[b]
    BY DoneIsWalks, FlowGraph, LiveOutWalks DEF WalkOut, IInv
  <2>2. liveout = [b \in Blocks |-> liveout[b]]
    BY DEF IInv, TypeOK
  <2>3. LiveOut(prog) = [b \in Blocks |-> LiveOut(prog)[b]]
    BY LiveOutOfRounds DEF Blocks
  <2> QED  BY <2>1, <2>2, <2>3
<1> QED  BY <1>1, Invariance, LeastSolutionReached, PTL

-----------------------------------------------------------------------------
(***************************************************************************)
(* The iteration ends                                                      *)
(***************************************************************************)
\* The gaps of sets that grow are finitely many, and fewer if one has grown.
LEMMA GapsFall ==
    ASSUME prog \in Programs, NEW old, NEW new,
           \A b \in Blocks : old[b] \subseteq new[b] /\ new[b] \subseteq Class
    PROVE  /\ Cardinality(Gaps(old)) \in Nat /\ Cardinality(Gaps(new)) \in Nat
           /\ Cardinality(Gaps(new)) <= Cardinality(Gaps(old))
           /\ \A b \in Blocks : new[b] # old[b] => Cardinality(Gaps(new)) < Cardinality(Gaps(old))
<1>1. IsFiniteSet(Blocks \X Class)
  <2>1. Blocks = 1..Len(prog) /\ Len(prog) \in Nat
    BY BlocksType
  <2>2. IsFiniteSet(Blocks)
    BY <2>1, FS_Interval
  <2> QED  BY <2>2, ClassAssumption, FS_Product
<1>2. Gaps(old) \in SUBSET (Blocks \X Class) /\ Gaps(new) \in SUBSET Gaps(old)
  BY DEF Gaps
<1>3. IsFiniteSet(Gaps(old)) /\ IsFiniteSet(Gaps(new))
  BY <1>1, <1>2, FS_Subset
<1>4. Cardinality(Gaps(old)) \in Nat /\ Cardinality(Gaps(new)) \in Nat
  BY <1>3, FS_CardinalityType
<1>5. /\ Cardinality(Gaps(new)) <= Cardinality(Gaps(old))
      /\ Cardinality(Gaps(old)) = Cardinality(Gaps(new)) => Gaps(old) = Gaps(new)
  BY <1>2, <1>3, FS_Subset
<1>6. ASSUME NEW b \in Blocks, new[b] # old[b]
      PROVE  Gaps(old) # Gaps(new)
  <2>1. PICK o \in Class : o \in new[b] /\ o \notin old[b]
    BY <1>6
  <2>2. <<b, o>> \in Gaps(old) /\ <<b, o>> \notin Gaps(new)
    BY <2>1 DEF Gaps
  <2> QED  BY <2>2
<1> QED  BY <1>4, <1>5, <1>6

\* LexBelow compares the first components that differ.
LEMMA LexBelowAt ==
    ASSUME NEW a1, NEW a2, NEW a3, NEW a4, NEW b1, NEW b2, NEW b3, NEW b4
    PROVE  LET a == <<a1, a2, a3, a4>>
               b == <<b1, b2, b3, b4>>
           IN  /\ a1 < b1 => LexBelow(a, b)
               /\ a1 = b1 /\ a2 < b2 => LexBelow(a, b)
               /\ a1 = b1 /\ a2 = b2 /\ a3 < b3 => LexBelow(a, b)
               /\ a1 = b1 /\ a2 = b2 /\ a3 = b3 /\ a4 < b4 => LexBelow(a, b)
<1> DEFINE a == <<a1, a2, a3, a4>>
           b == <<b1, b2, b3, b4>>
<1>1. /\ DOMAIN b = 1..4
      /\ a[1] = a1 /\ a[2] = a2 /\ a[3] = a3 /\ a[4] = a4
      /\ b[1] = b1 /\ b[2] = b2 /\ b[3] = b3 /\ b[4] = b4
  OBVIOUS
<1> HIDE DEF a, b
<1>2. \A k \in 1..4 : a[k] < b[k] /\ (\A j \in 1..(k - 1) : a[j] = b[j]) => LexBelow(a, b)
  BY <1>1 DEF LexBelow
<1>3. 1..(1 - 1) = {} /\ 1..(2 - 1) = {1} /\ 1..(3 - 1) = {1, 2} /\ 1..(4 - 1) = {1, 2, 3}
  OBVIOUS
<1>4. /\ a1 < b1 => LexBelow(a, b)
      /\ a1 = b1 /\ a2 < b2 => LexBelow(a, b)
      /\ a1 = b1 /\ a2 = b2 /\ a3 < b3 => LexBelow(a, b)
      /\ a1 = b1 /\ a2 = b2 /\ a3 = b3 /\ a4 < b4 => LexBelow(a, b)
  BY <1>1, <1>2, <1>3
<1> QED  BY <1>4 DEF a, b

\* A visit that changes a set closes a gap; one that does not goes on to the
\* block before.
LEMMA VisitProgress ==
    ASSUME IInv, Visit
    PROVE  LexBelow(Remaining', Remaining)
<1> DEFINE gaps == Cardinality(Gaps(livein)) + Cardinality(Gaps(liveout))
<1>1. /\ prog \in Programs /\ Blocks' = Blocks /\ block \in Blocks /\ block \in Int
      /\ block' = block - 1 /\ end' = (end /\ Unchanged(block))
      /\ \A b \in Blocks : /\ livein[b] \subseteq livein'[b] /\ livein'[b] \subseteq Class
                           /\ liveout[b] \subseteq liveout'[b] /\ liveout'[b] \subseteq Class
  <2>1. Blocks' = Blocks /\ TypeOK'
    BY VisitType DEF Visit, Blocks
  <2>2. block \in Blocks /\ block \in Int
    BY VisitAdds, BlocksType DEF IInv
  <2> QED  BY <2>1, <2>2, VisitAdds DEF IInv, Visit, TypeOK
<1>2. Gaps(livein)' = Gaps(livein') /\ Gaps(liveout)' = Gaps(liveout')
  BY <1>1 DEF Gaps
<1>3. /\ Cardinality(Gaps(livein)) \in Nat /\ Cardinality(Gaps(livein')) \in Nat
      /\ Cardinality(Gaps(livein')) <= Cardinality(Gaps(livein))
      /\ livein'[block] # livein[block] => Cardinality(Gaps(livein')) < Cardinality(Gaps(livein))
  BY <1>1, GapsFall
<1>4. /\ Cardinality(Gaps(liveout)) \in Nat /\ Cardinality(Gaps(liveout')) \in Nat
      /\ Cardinality(Gaps(liveout')) <= Cardinality(Gaps(liveout))
      /\ liveout'[block] # liveout[block] => Cardinality(Gaps(liveout')) < Cardinality(Gaps(liveout))
  BY <1>1, GapsFall
<1>5. CASE ~Unchanged(block)
  <2>1. gaps' < gaps
    BY <1>2, <1>3, <1>4, <1>5 DEF Unchanged
  <2> QED  BY <2>1, LexBelowAt DEF Remaining
<1>6. CASE Unchanged(block)
  <2>1. livein' = livein /\ liveout' = liveout
    <3>1. /\ livein' = [livein EXCEPT ![block] = LiveIn(block)]
          /\ liveout' = [liveout EXCEPT ![block] = LiveOutOf(block)]
          /\ livein \in [Blocks -> SUBSET Class] /\ liveout \in [Blocks -> SUBSET Class]
      BY DEF Visit, IInv, TypeOK
    <3> QED  BY <1>1, <1>6, <3>1 DEF Unchanged
  <2>2. gaps' = gaps /\ end' = end /\ block' < block
    BY <1>1, <1>2, <1>6, <2>1 DEF IInv, TypeOK
  <2> QED  BY <2>2, LexBelowAt DEF Remaining
<1> QED  BY <1>5, <1>6

\* LivenessAnalysis ends on every function: each step leaves less to do,
\* counted in natural numbers. So the round that changes nothing, after which
\* its do-while is left, comes for every control flow and set of operands.
THEOREM AnalysisAlwaysEnds ==
    Spec => /\ AnalysisEnds
            /\ [](\A k \in DOMAIN Remaining : Remaining[k] \in Nat)
<1>1. IInv /\ [Next]_vars => [LexBelow(Remaining', Remaining)]_vars
  <2> SUFFICES ASSUME IInv, Next
               PROVE  LexBelow(Remaining', Remaining)
    OBVIOUS
  <2>1. CASE NextRound
    <3>1. UNCHANGED <<prog, livein, liveout>> /\ ~end /\ end'
      BY <2>1 DEF NextRound
    <3>2. Gaps(livein)' = Gaps(livein) /\ Gaps(liveout)' = Gaps(liveout)
      BY <3>1 DEF Gaps, Blocks
    <3> QED  BY <3>1, <3>2, LexBelowAt DEF Remaining
  <2>2. CASE Finish
    <3>1. UNCHANGED <<prog, livein, liveout, block, end>> /\ ~done /\ done'
      BY <2>2 DEF Finish
    <3>2. Gaps(livein)' = Gaps(livein) /\ Gaps(liveout)' = Gaps(liveout)
      BY <3>1 DEF Gaps, Blocks
    <3> QED  BY <3>1, <3>2, LexBelowAt DEF Remaining
  <2> QED  BY <2>1, <2>2, VisitProgress DEF Next
<1>2. IInv => \A k \in DOMAIN Remaining : Remaining[k] \in Nat
  <2> SUFFICES ASSUME IInv
               PROVE  \A k \in DOMAIN Remaining : Remaining[k] \in Nat
    OBVIOUS
  <2>1. Cardinality(Gaps(livein)) \in Nat /\ Cardinality(Gaps(liveout)) \in Nat
    BY GapsFall DEF IInv, TypeOK
  <2>2. block \in Nat
    BY BlocksType DEF IInv, TypeOK
  <2>3. DOMAIN Remaining = 1..4
    BY DEF Remaining
  <2>4. /\ Remaining[1] \in Nat /\ Remaining[2] \in Nat
        /\ Remaining[3] \in Nat /\ Remaining[4] \in Nat
    BY <2>1, <2>2 DEF Remaining
  <2> QED  BY <2>3, <2>4
<1> QED  BY <1>1, <1>2, Invariance, PTL DEF Spec, AnalysisEnds
=============================================================================
