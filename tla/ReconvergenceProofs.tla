------------------------ MODULE ReconvergenceProofs ------------------------
(***************************************************************************)
(* The analysis records the immediate post-dominator of every branch, for  *)
(* every program it accepts.  The argument: a block is a straight line, so *)
(* its post-dominators are those of its last instruction; a set of the     *)
(* data flow has every post-dominator at all times, and only them once a   *)
(* sweep changes nothing; the strict post-dominators of a block that can   *)
(* exit are a chain, so counting finds the nearest.                        *)
(***************************************************************************)
EXTENDS Reconvergence, ControlProofs

-----------------------------------------------------------------------------
(* The least and the greatest of a set                                     *)

LEMMA MinOf ==
    ASSUME NEW S \in SUBSET Nat, S # {}
    PROVE  Min(S) \in S /\ \A y \in S : Min(S) <= y
BY LeastOf DEF Min

LEMMA MaxOf ==
    ASSUME NEW m \in Nat, NEW S \in SUBSET (0..m), S # {}
    PROVE  Max(S) \in S /\ \A y \in S : y <= Max(S)
<1> DEFINE Gap == {k \in 0..m : m - k \in S}
<1>1. Gap \in SUBSET Nat /\ Gap # {}
  <2>1. PICK y \in S : TRUE
    OBVIOUS
  <2>2. m - y \in 0..m /\ m - (m - y) = y
    OBVIOUS
  <2> QED
    BY <2>1, <2>2
<1>2. PICK k \in Gap : \A j \in Gap : k <= j
  <2> HIDE DEF Gap
  <2> QED
    BY <1>1, LeastOf
<1>3. ASSUME NEW y \in S PROVE m - k >= y
  <2>1. y \in 0..m /\ m - y \in 0..m /\ m - (m - y) = y
    OBVIOUS
  <2>2. k <= m - y
    BY <1>2, <2>1
  <2> QED
    BY <1>2, <2>1, <2>2
<1>4. m - k \in S /\ \A y \in S : m - k >= y
  BY <1>2, <1>3
<1>5. Max(S) \in S /\ \A y \in S : Max(S) >= y
  <2> DEFINE Greatest(x) == x \in S /\ \A y \in S : x >= y
  <2>1. Greatest(m - k)
    BY <1>4
  <2>2. Max(S) = CHOOSE x : Greatest(x)
    BY DEF Max
  <2> HIDE DEF Greatest
  <2>3. Greatest(Max(S))
    BY <2>1, <2>2
  <2> QED
    BY <2>3 DEF Greatest
<1> QED
  BY <1>5

-----------------------------------------------------------------------------
(* The blocks of a program                                                 *)

\* Nodes are PCs and the exit.
LEMMA NodesAre ==
    ASSUME WellFormed(program)
    PROVE  /\ Size \in Nat \ {0} /\ 0 \in Leaders
           /\ Leaders \subseteq 0..Size - 1 /\ Nodes = Leaders \cup {Size}
           /\ Nodes \subseteq 0..Size /\ ExitNode = Size
<1>1. Size \in Nat \ {0}
  BY DEF WellFormed, Size
<1>2. ASSUME NEW k \in 1..Size, program[k].op = "bra"
      PROVE  program[k].target \in 0..Size - 1
  BY <1>2 DEF WellFormed, Size
<1>3. Leaders \subseteq 0..Size - 1 /\ 0 \in Leaders
  <2>1. \A k \in 1..Size - 1 : k \in 0..Size - 1
    BY <1>1
  <2> QED
    BY <1>1, <1>2, <2>1 DEF Leaders
<1> QED
  BY <1>1, <1>3 DEF Nodes, ExitNode

\* The block of a PC begins at or before it.
LEMMA BlockOfIs ==
    ASSUME WellFormed(program), NEW pc \in 0..Size - 1
    PROVE  /\ BlockOf(pc) \in Leaders /\ BlockOf(pc) <= pc
           /\ \A b \in Leaders : b <= pc => b <= BlockOf(pc)
<1> DEFINE S == {b \in Leaders : b <= pc}
<1>1. Size \in Nat /\ S \in SUBSET (0..Size) /\ 0 \in S
  BY NodesAre
<1>2. BlockOf(pc) = Max(S)
  BY DEF BlockOf
<1>3. Max(S) \in S /\ \A y \in S : y <= Max(S)
  <2> HIDE DEF S
  <2> QED
    BY <1>1, MaxOf
<1> QED
  BY <1>2, <1>3

LEMMA BlockOfLeader ==
    ASSUME WellFormed(program), NEW b \in Leaders
    PROVE  BlockOf(b) = b
<1>1. b \in 0..Size - 1 /\ Size \in Nat /\ Leaders \subseteq 0..Size - 1
  BY NodesAre
<1>2. BlockOf(b) \in Leaders /\ BlockOf(b) <= b /\ b <= BlockOf(b)
  BY <1>1, BlockOfIs
<1>3. BlockOf(b) \in 0..Size - 1
  BY <1>1, <1>2, Zenon
<1> QED
  BY <1>1, <1>2, <1>3

\* A block ends before the next node.
LEMMA LastPCIs ==
    ASSUME WellFormed(program), NEW b \in Leaders
    PROVE  /\ LastPC(b) \in b..Size - 1 /\ LastPC(b) + 1 \in Nodes
           /\ \A c \in Nodes : c > b => c >= LastPC(b) + 1
           /\ Min({c \in Nodes : c > b}) = LastPC(b) + 1
<1> DEFINE S == {c \in Nodes : c > b}
<1>1. Size \in Nat /\ b \in 0..Size - 1 /\ Nodes \subseteq 0..Size /\ Size \in Nodes
  BY NodesAre
<1>2. S \in SUBSET Nat /\ Size \in S
  <2>1. \A c \in Nodes : c \in Nat
    BY <1>1
  <2>2. Size > b
    BY <1>1
  <2> QED
    BY <1>1, <2>1, <2>2
<1>3. Min(S) \in S /\ \A y \in S : Min(S) <= y
  <2> HIDE DEF S
  <2> QED
    BY <1>2, MinOf
<1>4. LastPC(b) = Min(S) - 1
  BY DEF LastPC
<1>5. Min(S) \in 0..Size /\ Min(S) > b
  BY <1>1, <1>3
<1>6. Min(S) = LastPC(b) + 1 /\ LastPC(b) \in b..Size - 1
  BY <1>1, <1>4, <1>5
<1> QED
  BY <1>3, <1>6

\* In the terms of LastPC: what build_cfg finds of block b.
LEMMA BlockIsALine ==
    ASSUME WellFormed(program), NEW b \in Leaders
    PROVE  /\ b \in 0..Size /\ LastPC(b) \in 0..Size /\ b <= LastPC(b)
           /\ \A q \in b..LastPC(b) - 1 : SuccPCs(program, q) = {q + 1}
           /\ \A q \in b + 1..LastPC(b) : q \notin Nodes
<1>1. /\ Size \in Nat /\ b \in 0..Size - 1 /\ Nodes \subseteq 0..Size
      /\ LastPC(b) \in b..Size - 1 /\ \A c \in Nodes : c > b => c >= LastPC(b) + 1
  BY NodesAre, LastPCIs
<1>2. \A q \in b + 1..LastPC(b) : q \notin Nodes
  BY <1>1
<1>3. ASSUME NEW q \in b..LastPC(b) - 1
      PROVE  SuccPCs(program, q) = {q + 1}
  <2>1. q + 1 \in 1..Size - 1 /\ q + 1 \in b + 1..LastPC(b)
    BY <1>1
  <2>2. ~IsTerminator(program[q + 1])
    BY <1>2, <2>1 DEF Leaders, Nodes
  <2> QED
    BY <2>2 DEF IsTerminator, SuccPCs
<1> QED
  BY <1>1, <1>2, <1>3

\* Its successors are those of its last instruction.
LEMMA SuccsAre ==
    ASSUME WellFormed(program), NEW b \in Leaders
    PROVE  /\ LastPC(b) \in 0..Size - 1
           /\ Succs(b) = SuccPCs(program, LastPC(b)) /\ Succs(b) \subseteq Nodes
<1> DEFINE l == LastPC(b)
           i == program[l + 1]
<1>1. /\ Size \in Nat /\ b \in 0..Size - 1 /\ Nodes = Leaders \cup {Size} /\ ExitNode = Size
      /\ l \in 0..Size - 1 /\ l + 1 \in Nodes
  <2>1. Size \in Nat /\ b \in 0..Size - 1 /\ Nodes = Leaders \cup {Size} /\ ExitNode = Size
    BY NodesAre
  <2>2. l \in b..Size - 1 /\ l + 1 \in Nodes
    BY LastPCIs
  <2> QED
    BY <2>1, <2>2
<1>2. Fallthrough(l) = l + 1
  <2>1. CASE l + 1 < Size
    <3>1. l + 1 \in Leaders
      BY <1>1, <2>1
    <3> QED
      BY <2>1, <3>1, BlockOfLeader DEF Fallthrough
  <2>2. CASE ~(l + 1 < Size)
    BY <1>1, <2>2 DEF Fallthrough
  <2> QED
    BY <2>1, <2>2
<1>3. i.op = "bra" => i.target \in Leaders /\ BlockOf(i.target) = i.target
  <2>1. l + 1 \in 1..Size
    BY <1>1
  <2>2. i.op = "bra" => i.target \in Leaders
    BY <2>1 DEF Leaders
  <2> QED
    BY <2>2, BlockOfLeader
<1> HIDE DEF l
<1>4. Succs(b) = SuccPCs(program, l)
  <2>1. Succs(b) = CASE i.op = "bra" -> {BlockOf(i.target)} \cup ThroughOf(b)
                     [] i.op = "exit" -> {ExitNode} \cup ThroughOf(b)
                     [] OTHER -> ThroughOf(b)
    BY DEF Succs, l
  <2>2. ThroughOf(b) = IF IsTerminator(i) /\ ~i.guard.present THEN {} ELSE {l + 1}
    BY <1>2 DEF ThroughOf, l
  <2>3. SuccPCs(program, l) =
            CASE i.op = "bra" -> {i.target} \cup (IF i.guard.present THEN {l + 1} ELSE {})
              [] i.op = "exit" -> {Size} \cup (IF i.guard.present THEN {l + 1} ELSE {})
              [] OTHER -> {l + 1}
    BY DEF SuccPCs, Size
  <2> HIDE DEF i
  <2>4. CASE i.op = "bra"
    BY <1>3, <2>1, <2>2, <2>3, <2>4 DEF IsTerminator, i
  <2>5. CASE i.op = "exit"
    BY <1>1, <2>1, <2>2, <2>3, <2>5 DEF IsTerminator, i
  <2>6. CASE i.op # "bra" /\ i.op # "exit"
    BY <2>1, <2>2, <2>3, <2>6 DEF IsTerminator, i
  <2> QED
    BY <2>4, <2>5, <2>6
<1>5. SuccPCs(program, l) \subseteq Nodes
  BY <1>1, <1>3 DEF SuccPCs, Size
<1> QED
  BY <1>1, <1>4, <1>5 DEF l

\* A branch ends its block.
LEMMA BranchEnds ==
    ASSUME WellFormed(program), NEW k \in 1..Size, IsTerminator(program[k])
    PROVE  k - 1 \in 0..Size - 1 /\ LastPC(BlockOf(k - 1)) = k - 1
<1>1. Size \in Nat /\ k - 1 \in 0..Size - 1 /\ Size \in Nodes
  BY NodesAre
<1> DEFINE b == BlockOf(k - 1)
<1>2. b \in Leaders /\ b <= k - 1 /\ b \in 0..Size - 1
  BY <1>1, BlockOfIs, NodesAre
<1>3. LastPC(b) \in b..Size - 1 /\ LastPC(b) + 1 \in Nodes /\ \A c \in Nodes : c > b => c >= LastPC(b) + 1
  BY <1>2, LastPCIs
<1>4. k \in Nodes
  <2>1. k = Size \/ k \in 1..Size - 1
    BY <1>1
  <2> QED
    BY <1>1, <2>1 DEF Leaders, Nodes
<1>5. LastPC(b) <= k - 1
  BY <1>1, <1>2, <1>3, <1>4
<1>6. ~(LastPC(b) < k - 1)
  <2> SUFFICES ASSUME LastPC(b) < k - 1 PROVE FALSE
    OBVIOUS
  <2>1. LastPC(b) + 1 \in Leaders /\ LastPC(b) + 1 <= k - 1 /\ LastPC(b) + 1 > b
    BY <1>1, <1>2, <1>3, NodesAre
  <2>2. LastPC(b) + 1 <= b
    BY <1>1, <2>1, BlockOfIs
  <2> QED
    BY <1>2, <1>3, <2>1, <2>2
<1> QED
  BY <1>1, <1>3, <1>5, <1>6

\* Only its line leads into the middle of a block.
LEMMA OnlyTheLine ==
    ASSUME WellFormed(program), NEW q \in 0..Size - 1, NEW s \in SuccPCs(program, q), s \notin Nodes
    PROVE  s = q + 1
<1>1. Size \in Nat /\ q + 1 \in 1..Size /\ ExitNode = Size /\ Size \in Nodes
  BY NodesAre
<1>2. program[q + 1].op = "bra" => program[q + 1].target \in Nodes
  BY <1>1 DEF Leaders, Nodes
<1> QED
  BY <1>1, <1>2 DEF SuccPCs, Size

-----------------------------------------------------------------------------
(* The data flow                                                           *)

\* The nodes that post-dominate a block post-dominate its last instruction.
LEMMA ThroughTheBlock ==
    ASSUME WellFormed(program), NEW b \in Leaders, NEW d \in Nodes, d # b
    PROVE  /\ PostDominates(program, d, b) <=> PostDominates(program, d, LastPC(b))
           /\ d # LastPC(b)
<1> DEFINE l == LastPC(b)
<1>1. /\ b \in 0..Size /\ l \in 0..Size /\ b <= l
      /\ \A q \in b..l - 1 : SuccPCs(program, q) = {q + 1}
      /\ \A q \in b + 1..l : q \notin Nodes
  BY BlockIsALine
<1>2. d \notin b..l
  <2> SUFFICES ASSUME d \in b..l PROVE FALSE
    OBVIOUS
  <2>1. d \in b + 1..l
    BY <1>1
  <2> QED
    BY <1>1, <2>1
<1>3. d \notin b..l - 1 /\ d # l
  BY <1>1, <1>2
<1> HIDE DEF l
<1>4. /\ PostDominates(program, l, b)
      /\ PostDominates(program, d, b) => PostDominates(program, d, l)
  BY <1>1, <1>3, StraightLine DEF Size
<1>5. PostDominates(program, d, l) => PostDominates(program, d, b)
  BY <1>1, <1>4, Transitive DEF Size
<1> QED
  BY <1>3, <1>4, <1>5 DEF l

\* A visit takes no post-dominator out of a set: the direction that holds at all times.
LEMMA NoneIsLost ==
    ASSUME WellFormed(program), NEW b \in Leaders, NEW d \in Nodes,
           PostDominates(program, d, b),
           \A s \in Nodes : PostDominates(program, d, s) => d \in pdom[s]
    PROVE  d \in Transfer(b)
<1>1. CASE d = b
  BY <1>1 DEF Transfer
<1>2. CASE d # b
  <2>1. LastPC(b) \in 0..Size - 1 /\ Succs(b) = SuccPCs(program, LastPC(b)) /\ Succs(b) \subseteq Nodes
    BY SuccsAre
  <2>2. PostDominates(program, d, LastPC(b)) /\ d # LastPC(b)
    BY <1>2, ThroughTheBlock
  <2>3. \A s \in Succs(b) : PostDominates(program, d, s)
    BY <2>1, <2>2, PassedOn DEF Size
  <2> QED
    BY <2>1, <2>3 DEF Transfer
<1> QED
  BY <1>1, <1>2

\* Nothing but post-dominators is left when no visit would change a set: the blocks
\* that d is left of, without the block of d, are a set that keeps paths from the exit.
LEMMA OnlyTheyAreLeft ==
    ASSUME WellFormed(program), pdom[ExitNode] = {ExitNode},
           \A b \in Leaders : pdom[b] = Transfer(b),
           NEW b \in Nodes, NEW d \in Nodes, d \in pdom[b]
    PROVE  PostDominates(program, d, b)
<1>1. /\ Size \in Nat \ {0} /\ Leaders \subseteq 0..Size - 1 /\ Nodes = Leaders \cup {Size}
      /\ Nodes \subseteq 0..Size /\ ExitNode = Size
  BY NodesAre
<1> SUFFICES ASSUME d # b PROVE PostDominates(program, d, b)
  BY PostDominatesSelf
<1>2. b \in Leaders
  BY <1>1
<1> DEFINE X == {x \in Leaders : d \in pdom[x] /\ x # d}
           S == {q \in 0..Size - 1 : BlockOf(q) \in X}
<1>3. ASSUME NEW x \in X, NEW s \in Succs(x), s # d
      PROVE  s \in X
  <2>1. d \in Transfer(x) /\ d # x /\ x \in Leaders
    OBVIOUS
  <2>2. d \in pdom[s] /\ s \in Nodes
    BY <2>1, SuccsAre DEF Transfer
  <2>3. s # Size
    BY <1>1, <1>3, <2>2
  <2> QED
    BY <1>1, <1>3, <2>2, <2>3
<1>4. ASSUME NEW q \in S, NEW s \in SuccPCs(program, q), s # d
      PROVE  s \in S
  <2> DEFINE x == BlockOf(q)
  <2>1. x \in X /\ q \in 0..Size - 1 /\ x \in Leaders /\ x <= q /\ x \in 0..Size - 1
    BY <1>1, BlockOfIs
  <2>2. /\ LastPC(x) \in x..Size - 1 /\ \A y \in Nodes : y > x => y >= LastPC(x) + 1
        /\ LastPC(x) + 1 \in Nodes
    BY <2>1, LastPCIs
  <2>3. q <= LastPC(x)
    <3> SUFFICES ASSUME q > LastPC(x) PROVE FALSE
      BY <2>1, <2>2
    <3>1. LastPC(x) + 1 \in Leaders /\ LastPC(x) + 1 <= q /\ LastPC(x) + 1 > x
      BY <1>1, <2>1, <2>2
    <3>2. LastPC(x) + 1 <= x
      BY <2>1, <3>1, BlockOfIs
    <3> QED
      BY <2>1, <2>2, <3>1, <3>2
  <2>4. CASE q = LastPC(x)
    <3>1. s \in Succs(x)
      BY <2>1, <2>4, SuccsAre
    <3>2. s \in X
      BY <1>3, <1>4, <2>1, <3>1
    <3>3. BlockOf(s) = s /\ s \in 0..Size - 1
      BY <1>1, <3>2, BlockOfLeader
    <3> QED
      BY <3>2, <3>3
  <2>5. CASE q # LastPC(x)
    <3>1. q \in x..LastPC(x) - 1 /\ q + 1 \in 0..Size - 1 /\ q + 1 \in x + 1..LastPC(x)
      <4>1. x \in Int /\ LastPC(x) \in Int /\ LastPC(x) <= Size - 1 /\ Size \in Int /\ q \in Int
        BY <1>1, <2>1, <2>2
      <4>2. x <= q /\ q < LastPC(x) /\ 0 <= q
        BY <2>1, <2>3, <2>5, <4>1
      <4> QED
        BY <4>1, <4>2
    <3>2. s = q + 1
      BY <2>1, <3>1, BlockIsALine
    <3>3. BlockOf(q + 1) \in Leaders /\ BlockOf(q + 1) <= q + 1 /\ x <= BlockOf(q + 1)
      BY <2>1, <3>1, BlockOfIs
    <3>4. BlockOf(q + 1) \in 0..Size /\ BlockOf(q + 1) \in Nodes
      BY <1>1, <3>3
    <3>5. ~(BlockOf(q + 1) > x)
      BY <2>1, <2>2, <3>1, <3>3, <3>4
    <3>6. BlockOf(q + 1) = x
      BY <2>1, <3>3, <3>4, <3>5
    <3> QED
      BY <2>1, <3>1, <3>2, <3>6
  <2> QED
    BY <2>4, <2>5
<1>5. b \in S
  <2>1. b \in X /\ b \in 0..Size - 1 /\ BlockOf(b) = b
    BY <1>1, <1>2, BlockOfLeader
  <2> QED
    BY <2>1
<1>6. S \subseteq 0..Size /\ Size \notin S
  BY <1>1
<1> HIDE DEF S
<1>7. Closed(program, S, d)
  BY <1>4, <1>6 DEF Closed, Size
<1>8. Closed(program, S \ {d}, d) /\ b \in S \ {d}
  BY <1>5, <1>7 DEF Closed
<1>9. \E U : Closed(program, U, d) /\ b \in U /\ Len(program) \notin U /\ d \notin U
  BY <1>6, <1>8 DEF Size
<1> QED
  BY <1>1, <1>9, Separated DEF Size

-----------------------------------------------------------------------------
(* Counting                                                                *)

\* The sets of the data flow are the post-dominators.
Exact ==
    /\ pdom \in [Nodes -> SUBSET Nodes]
    /\ \A b, d \in Nodes : d \in pdom[b] <=> PostDominates(program, d, b)

LEMMA NodesFinite ==
    ASSUME WellFormed(program)
    PROVE  IsFiniteSet(Nodes) /\ Cardinality(Nodes) \in Nat
<1>1. Size \in Nat /\ Nodes \subseteq 0..Size
  BY NodesAre
<1>2. IsFiniteSet(0..Size)
  BY <1>1, FS_Interval
<1>3. IsFiniteSet(Nodes)
  BY <1>1, <1>2, FS_Subset
<1> QED
  BY <1>3, FS_CardinalityType

\* What post-dominates a strict post-dominator of a block that can exit strictly
\* post-dominates the block; the counts tell whether it is all that do.
LEMMA Counted ==
    ASSUME WellFormed(program), Exact, NEW b \in Leaders, CanExit(program, b),
           NEW d \in pdom[b] \ {b}
    PROVE  /\ d \in Nodes /\ pdom[d] \subseteq pdom[b] \ {b}
           /\ Cardinality(pdom[d]) \in Nat
           /\ Cardinality(pdom[d]) = Cardinality(pdom[b] \ {b}) <=> pdom[d] = pdom[b] \ {b}
<1>1. b \in Nodes /\ d \in Nodes /\ Nodes \subseteq 0..Len(program)
  BY NodesAre DEF Exact, Size
<1>2. ASSUME NEW e \in pdom[d]
      PROVE  e \in pdom[b] /\ e # b
  <2>1. e \in Nodes /\ PostDominates(program, e, d) /\ PostDominates(program, d, b)
    BY <1>1, <1>2 DEF Exact
  <2>2. PostDominates(program, e, b)
    BY <1>1, <2>1, Transitive
  <2>3. e # b
    BY <1>1, <2>1, Antisymmetric
  <2> QED
    BY <1>1, <2>1, <2>2, <2>3 DEF Exact
<1>3. IsFiniteSet(pdom[b] \ {b})
  <2>1. pdom[b] \ {b} \subseteq Nodes
    BY <1>1 DEF Exact
  <2> QED
    BY <2>1, NodesFinite, FS_Subset
<1>4. pdom[d] \subseteq pdom[b] \ {b}
  BY <1>2
<1> QED
  BY <1>1, <1>3, <1>4, FS_Subset, FS_CardinalityType

\* One node is counted for a block that can exit: the nearest, which its other strict
\* post-dominators post-dominate.
LEMMA OneCandidate ==
    ASSUME WellFormed(program), Exact, NEW b \in Leaders, CanExit(program, b)
    PROVE  \E d \in pdom[b] \ {b} :
               Candidates(b) = {d} /\ \A e \in pdom[b] \ {b} : e \in pdom[d]
<1> DEFINE Q == pdom[b] \ {b}
<1>1. /\ b \in Nodes /\ Nodes \subseteq 0..Len(program) /\ Len(program) \in Nodes
      /\ b # Len(program) /\ pdom[b] \subseteq Nodes
  BY NodesAre DEF Exact, Size
<1>2. Len(program) \in Q
  BY <1>1, ExitLast DEF Exact
<1>3. \A d \in Q : /\ d \in Nodes /\ pdom[d] \subseteq Q /\ Cardinality(pdom[d]) \in Nat
                   /\ Cardinality(pdom[d]) = Cardinality(Q) <=> pdom[d] = Q
  BY Counted
<1> DEFINE Counts == {Cardinality(pdom[d]) : d \in Q}
           m == Cardinality(Nodes)
<1>4. Counts \in SUBSET (0..m) /\ Counts # {} /\ m \in Nat
  <2>1. ASSUME NEW d \in Q PROVE Cardinality(pdom[d]) \in 0..m
    <3>1. pdom[d] \subseteq Nodes /\ Cardinality(pdom[d]) \in Nat
      BY <1>1, <1>3, <2>1
    <3>2. Cardinality(pdom[d]) <= m
      BY <3>1, NodesFinite, FS_Subset
    <3> QED
      BY <3>1, <3>2, NodesFinite
  <2> QED
    BY <1>2, <2>1, NodesFinite
<1>5. PICK d \in Q : \A e \in Q : Cardinality(pdom[e]) <= Cardinality(pdom[d])
  <2>1. Max(Counts) \in Counts /\ \A y \in Counts : y <= Max(Counts)
    <3> HIDE DEF Counts, m
    <3> QED
      BY <1>4, MaxOf
  <2> QED
    BY <2>1
<1>6. ASSUME NEW e \in Q PROVE e \in pdom[d]
  <2> SUFFICES ASSUME e \notin pdom[d] PROVE FALSE
    OBVIOUS
  <2>1. /\ d \in Nodes /\ e \in Nodes /\ d \in pdom[d] /\ e \in pdom[e]
        /\ PostDominates(program, d, b) /\ PostDominates(program, e, b)
    BY <1>1, <1>3, PostDominatesSelf DEF Exact
  <2>2. PostDominates(program, d, e)
    BY <1>1, <2>1, Chain DEF Exact
  <2>3. pdom[d] \subseteq pdom[e]
    <3>1. ASSUME NEW x \in pdom[d] PROVE x \in pdom[e]
      <4>1. x \in Nodes /\ PostDominates(program, x, d)
        BY <2>1, <3>1 DEF Exact
      <4> QED
        BY <1>1, <2>1, <2>2, <4>1, Transitive DEF Exact
    <3> QED
      BY <3>1
  <2>4. IsFiniteSet(pdom[e])
    BY <1>1, <1>3, <2>1, NodesFinite, FS_Subset DEF Exact
  <2>5. Cardinality(pdom[d]) <= Cardinality(pdom[e]) /\ Cardinality(pdom[d]) # Cardinality(pdom[e])
    BY <2>1, <2>3, <2>4, FS_Subset
  <2> QED
    BY <1>3, <1>5, <2>5
<1>7. pdom[d] = Q
  BY <1>3, <1>6
<1>8. d \in Candidates(b)
  BY <1>3, <1>7 DEF Candidates
<1>9. ASSUME NEW c \in Candidates(b) PROVE c = d
  <2>1. c \in Q /\ pdom[c] = Q
    BY <1>3, <1>9 DEF Candidates
  <2>2. c \in Nodes /\ d \in Nodes
    BY <1>3, <2>1
  <2>3. PostDominates(program, c, d) /\ PostDominates(program, d, c)
    BY <1>7, <2>1, <2>2 DEF Exact
  <2>4. CanExit(program, d)
    BY <1>1, <2>2, Exits DEF Exact
  <2> QED
    BY <1>1, <2>2, <2>3, <2>4, Antisymmetric
<1> QED
  BY <1>6, <1>8, <1>9

\* Nothing is counted for a guarded branch that cannot reach the exit: neither can
\* where it falls through to, and so every set that has neither block is too small
\* and every other set too large.
LEMMA NoCandidate ==
    ASSUME WellFormed(program), Exact, NEW b \in Leaders, ~CanExit(program, b),
           LastPC(b) + 1 \in SuccPCs(program, LastPC(b))
    PROVE  Candidates(b) = {}
<1>1. /\ b \in Nodes /\ Nodes \subseteq 0..Len(program) /\ b \in 0..Len(program)
      /\ LastPC(b) + 1 \in Nodes /\ LastPC(b) \in 0..Len(program) - 1 /\ b <= LastPC(b)
  BY NodesAre, LastPCIs, SuccsAre, BlockIsALine DEF Size
<1> DEFINE f == LastPC(b) + 1
<1>2. f \in Nodes /\ f # b /\ ~CanExit(program, f)
  <2>1. ~CanExit(program, LastPC(b))
    BY BlockIsALine, LineExits DEF Size
  <2>2. ~CanExit(program, f)
    BY <1>1, <2>1, KeptOn
  <2>3. f # b
    BY <1>1, NodesArePCs
  <2> QED
    BY <1>1, <2>2, <2>3
<1> HIDE DEF f
<1>3. pdom[b] = Nodes
  BY <1>1, NeverExits DEF Exact
<1>4. IsFiniteSet(Nodes) /\ IsFiniteSet(Nodes \ {b}) /\ IsFiniteSet(Nodes \ {b, f})
  BY NodesFinite, FS_Subset
<1>5. Cardinality(Nodes) # Cardinality(Nodes \ {b})
  BY <1>1, <1>4, FS_Subset
<1>6. /\ Cardinality(Nodes \ {b, f}) <= Cardinality(Nodes \ {b})
      /\ Cardinality(Nodes \ {b, f}) # Cardinality(Nodes \ {b})
      /\ Cardinality(Nodes \ {b, f}) \in Nat /\ Cardinality(Nodes \ {b}) \in Nat
  <2>1. Nodes \ {b, f} \subseteq Nodes \ {b} /\ Nodes \ {b, f} # Nodes \ {b}
    BY <1>2
  <2> QED
    BY <1>4, <2>1, FS_Subset, FS_CardinalityType
<1>7. ASSUME NEW d \in Nodes
      PROVE  Cardinality(pdom[d]) # Cardinality(Nodes \ {b})
  <2>1. CASE CanExit(program, d)
    <3>1. pdom[d] \subseteq Nodes \ {b, f}
      BY <1>1, <1>2, <2>1, Exits DEF Exact
    <3>2. Cardinality(pdom[d]) <= Cardinality(Nodes \ {b, f}) /\ Cardinality(pdom[d]) \in Nat
      BY <1>4, <3>1, FS_Subset, FS_CardinalityType
    <3> QED
      BY <1>6, <3>2
  <2>2. CASE ~CanExit(program, d)
    <3>1. pdom[d] = Nodes
      BY <1>1, <2>2, NeverExits DEF Exact
    <3> QED
      BY <1>5, <3>1
  <2> QED
    BY <2>1, <2>2
<1> QED
  BY <1>3, <1>7 DEF Candidates

-----------------------------------------------------------------------------
(* What annotate writes                                                    *)

\* A PC in the middle of a block that post-dominates a branch elsewhere: so does
\* the block, and every path from the block passes through the PC.
LEMMA MiddleOfABlock ==
    ASSUME WellFormed(program), NEW b \in Leaders, CanExit(program, b),
           NEW e \in 0..Size, e \notin Nodes, e # LastPC(b),
           PostDominates(program, e, LastPC(b))
    PROVE  \E c \in Leaders : /\ c # b /\ PostDominates(program, c, LastPC(b))
                              /\ PostDominates(program, e, c)
<1> DEFINE c == BlockOf(e)
           l == LastPC(b)
<1>1. /\ Size \in Nat /\ Nodes = Leaders \cup {Size} /\ e \in 0..Size - 1
      /\ \A x \in Leaders : x \in 0..Size - 1
  BY NodesAre
<1>2. c \in Leaders /\ c <= e /\ \A x \in Leaders : x <= e => x <= c
  BY <1>1, BlockOfIs
<1>3. c < e /\ c \in 0..Size
  BY <1>1, <1>2
<1>4. \A q \in c + 1..e : q \notin Nodes
  BY <1>1, <1>2, <1>3
<1>5. /\ LastPC(c) \in c..Size - 1 /\ LastPC(c) + 1 \in Nodes
      /\ \A q \in c..LastPC(c) - 1 : SuccPCs(program, q) = {q + 1}
  BY <1>2, LastPCIs, BlockIsALine
<1>6. e <= LastPC(c)
  <2>1. LastPC(c) + 1 \notin c + 1..e
    BY <1>4, <1>5
  <2> QED
    BY <1>1, <1>3, <1>5, <2>1
<1>7. PostDominates(program, e, c)
  <2>1. \A q \in c..e - 1 : SuccPCs(program, q) = {q + 1}
    BY <1>1, <1>3, <1>5, <1>6
  <2> QED
    BY <1>1, <1>3, <2>1, StraightLine DEF Size
<1>8. /\ l \in b..Size - 1 /\ l \in 0..Size /\ l + 1 \in Nodes /\ b \in 0..Size
      /\ \A q \in b..l - 1 : SuccPCs(program, q) = {q + 1}
      /\ CanExit(program, l)
  <2>1. /\ l \in b..Size - 1 /\ l \in 0..Size /\ l + 1 \in Nodes /\ b \in 0..Size /\ b <= l
        /\ \A q \in b..l - 1 : SuccPCs(program, q) = {q + 1}
    BY LastPCIs, BlockIsALine
  <2> QED
    BY <2>1, LineExits DEF Size
<1>9. c # b
  <2> SUFFICES ASSUME c = b PROVE FALSE
    OBVIOUS
  <2>1. b <= e /\ e < l /\ e \in 0..Size
    BY <1>1, <1>3, <1>6, <1>8
  <2>2. \A q \in e..l - 1 : SuccPCs(program, q) = {q + 1}
    BY <1>1, <1>8, <2>1
  <2>3. PostDominates(program, l, e)
    BY <1>1, <1>8, <2>1, <2>2, StraightLine DEF Size
  <2> QED
    BY <1>8, <2>1, <2>3, Antisymmetric DEF Size
<1>10. PostDominates(program, c, l)
  <2>1. l \notin c..e
    <3> SUFFICES ASSUME l \in c..e PROVE FALSE
      OBVIOUS
    <3>1. l < e
      BY <1>1, <1>8
    <3>2. l + 1 \in c + 1..e
      BY <1>1, <1>3, <1>8, <3>1
    <3> QED
      BY <1>4, <1>8, <3>2
  <2>2. \A q \in 0..Size - 1 : \A s \in SuccPCs(program, q) : s \in c + 1..e => s = q + 1
    BY <1>4, OnlyTheLine
  <2> QED
    BY <1>3, <1>8, <2>1, <2>2, Entered DEF Size
<1> QED
  BY <1>2, <1>7, <1>9, <1>10

\* The candidate has the properties of the immediate post-dominator of the last
\* instruction, among all PCs.
LEMMA CandidateHas ==
    ASSUME WellFormed(program), Exact, NEW b \in Leaders, CanExit(program, b)
    PROVE  \E d \in 0..Len(program) :
               /\ ImmediatePdom(b) = d /\ d # LastPC(b) /\ PostDominates(program, d, LastPC(b))
               /\ \A e \in 0..Len(program) \ {LastPC(b)} :
                      PostDominates(program, e, LastPC(b)) => PostDominates(program, e, d)
<1> DEFINE l == LastPC(b)
<1>1. PICK d \in pdom[b] \ {b} : Candidates(b) = {d} /\ \A e \in pdom[b] \ {b} : e \in pdom[d]
  BY OneCandidate
<1>2. /\ b \in Nodes /\ d \in Nodes /\ Nodes \subseteq 0..Len(program) /\ Leaders \subseteq Nodes
      /\ l \in 0..Len(program)
  BY NodesAre, BlockIsALine DEF Exact, Size
<1>3. CanExit(program, l)
  BY <1>2, BlockIsALine, LineExits DEF Size
<1>4. d # l /\ PostDominates(program, d, l)
  BY <1>2, ThroughTheBlock DEF Exact
<1>5. ASSUME NEW e \in 0..Len(program) \ {l}, PostDominates(program, e, l)
      PROVE  PostDominates(program, e, d)
  <2>1. CASE e \in Nodes /\ e # b
    <3>1. PostDominates(program, e, b)
      BY <1>5, <2>1, ThroughTheBlock
    <3> QED
      BY <1>1, <1>2, <2>1, <3>1 DEF Exact
  <2>2. CASE e = b
    <3>1. PostDominates(program, l, b)
      BY <1>2, BlockIsALine, StraightLine DEF Size
    <3> QED
      BY <1>2, <1>3, <1>5, <2>2, <3>1, Antisymmetric
  <2>3. CASE e \notin Nodes
    <3>1. PICK c \in Leaders : c # b /\ PostDominates(program, c, l) /\ PostDominates(program, e, c)
      BY <1>5, <2>3, MiddleOfABlock DEF Size
    <3>2. PostDominates(program, c, b) /\ c \in Nodes
      BY <1>2, <3>1, ThroughTheBlock
    <3>3. PostDominates(program, c, d)
      BY <1>1, <1>2, <3>1, <3>2 DEF Exact
    <3> QED
      BY <1>2, <3>1, <3>2, <3>3, Transitive
  <2> QED
    BY <2>1, <2>2, <2>3
<1>6. ImmediatePdom(b) = d
  <2>1. {d} \in SUBSET Nat /\ {d} # {}
    BY <1>2, NodesArePCs
  <2>2. Min({d}) = d
    BY <2>1, MinOf
  <2> QED
    BY <1>1, <2>2 DEF ImmediatePdom
<1> QED
  BY <1>2, <1>4, <1>5, <1>6

LEMMA CandidateIsImmediate ==
    ASSUME WellFormed(program), Exact, NEW b \in Leaders, CanExit(program, b)
    PROVE  ImmediatePdom(b) = ImmediatePostDominator(program, LastPC(b))
<1>1. LastPC(b) \in 0..Len(program) /\ CanExit(program, LastPC(b))
  BY BlockIsALine, LineExits DEF Size
<1> QED
  BY <1>1, CandidateHas, TheImmediate

\* So every branch gets what the definitions say.
LEMMA RecordedIsReference ==
    ASSUME WellFormed(program), Exact, NEW k \in 1..Size, program[k].op = "bra"
    PROVE  Recorded(k - 1) = ReconvergencePC(program, k - 1)
<1> DEFINE b == BlockOf(k - 1)
<1>1. k - 1 \in 0..Size - 1 /\ LastPC(b) = k - 1 /\ (k - 1) + 1 = k
  BY NodesAre, BranchEnds DEF IsTerminator
<1>2. b \in Leaders /\ ExitNode = Len(program)
  BY <1>1, NodesAre, BlockOfIs DEF Size
<1>3. CASE ~program[k].guard.present
  BY <1>1, <1>3 DEF Recorded, ReconvergencePC
<1>6. CanExit(program, b) <=> CanExit(program, k - 1)
  <2>1. /\ b \in 0..Len(program) /\ k - 1 \in 0..Len(program) /\ b <= k - 1
        /\ \A q \in b..(k - 1) - 1 : SuccPCs(program, q) = {q + 1}
    BY <1>1, <1>2, BlockIsALine DEF Size
  <2> HIDE DEF b
  <2> QED
    BY <2>1, LineExits
<1>4. CASE program[k].guard.present /\ CanExit(program, b)
  <2>1. CanExit(program, k - 1)
    BY <1>6, <1>4
  <2>2. ImmediatePdom(b) = ImmediatePostDominator(program, k - 1)
    BY <1>1, <1>2, <1>4, CandidateIsImmediate
  <2> QED
    BY <1>1, <1>2, <1>4, <2>1, <2>2 DEF Recorded, ReconvergencePC
<1>5. CASE program[k].guard.present /\ ~CanExit(program, b)
  <2>1. ~CanExit(program, k - 1)
    BY <1>6, <1>5
  <2>2. k \in SuccPCs(program, k - 1)
    BY <1>1, <1>5 DEF SuccPCs
  <2>3. Candidates(b) = {}
    BY <1>1, <1>2, <1>5, <2>2, NoCandidate
  <2> QED
    BY <1>1, <1>2, <1>5, <2>1, <2>3 DEF Recorded, ReconvergencePC, ImmediatePdom
<1> QED
  BY <1>3, <1>4, <1>5

-----------------------------------------------------------------------------
(* The steps of the analysis                                               *)

\* The module names the definitions apart from its own.
LEMMA SameDefinitions ==
    ASSUME NEW prog, NEW pc
    PROVE  Reference!ReconvergencePC(prog, pc) = ReconvergencePC(prog, pc)
BY DEF Reference!ReconvergencePC, ReconvergencePC, Reference!CanExit, CanExit,
   Reference!ReachAvoiding, ReachAvoiding, Reference!PostDominates, PostDominates,
   Reference!ImmediatePostDominator, ImmediatePostDominator, Reference!SuccPCs, SuccPCs

Parsed(prog) ==
    /\ prog \in Seq(Instructions) /\ Len(prog) \in 1..NoReconv
    /\ \A k \in DOMAIN prog : prog[k].target \in 0..Len(prog)

\* While the sweeps run: no set has lost a post-dominator, and the sets that a sweep
\* has visited without a change are what a visit would make of them.
FlowOK ==
    /\ program \in Seq(Instructions) /\ WellFormed(program)
    /\ pdom \in [Nodes -> SUBSET Nodes] /\ pdom[ExitNode] = {ExitNode}
    /\ visit \in Nodes /\ changed \in BOOLEAN
    /\ \A b, d \in Nodes : PostDominates(program, d, b) => d \in pdom[b]
    /\ ~changed => \A b \in Leaders : b < visit => pdom[b] = Transfer(b)

AnalysisInv ==
    /\ phase \in {"build", "sweep", "done", "error"}
    /\ phase \in {"build", "sweep"} => Parsed(program)
    /\ phase = "sweep" => FlowOK
    /\ RecordsReference

LEMMA AnalysisInit == Init => AnalysisInv
<1> SUFFICES ASSUME Init PROVE AnalysisInv
  OBVIOUS
<1>1. Parsed(program)
  BY ProgramsAssumption DEF Init, Parsed
<1> QED
  BY <1>1 DEF Init, AnalysisInv, RecordsReference

\* A program the analysis goes on with branches to instructions of it.
LEMMA Accepted ==
    ASSUME Parsed(program), ~BadTarget
    PROVE  program \in Seq(Instructions) /\ WellFormed(program)
<1>1. program \in Seq(Instructions) /\ Len(program) \in Nat \ {0} /\ DOMAIN program = 1..Len(program)
  BY IsaAssumption, LenProperties DEF Parsed
<1>2. ASSUME NEW k \in DOMAIN program, program[k].op = "bra"
      PROVE  program[k].target \in 0..Len(program) - 1
  <2>1. ~(program[k].target >= Len(program))
    BY <1>1, <1>2 DEF BadTarget, Size
  <2>2. program[k].target \in Nat
    BY <1>1 DEF Parsed
  <2> QED
    BY <1>1, <2>1, <2>2
<1> QED
  BY <1>1, <1>2 DEF WellFormed

\* The nodes are the program's.
LEMMA SameProgram ==
    ASSUME program' = program
    PROVE  /\ Nodes' = Nodes /\ Leaders' = Leaders /\ ExitNode' = ExitNode
           /\ \A b : Succs(b)' = Succs(b)
BY DEF Nodes, Leaders, ExitNode, Size, Succs, ThroughOf, LastPC, BlockOf, Fallthrough

LEMMA BuildStep ==
    ASSUME AnalysisInv, BuildCfg
    PROVE  AnalysisInv'
<1>1. /\ phase = "build" /\ phase' = "sweep" /\ program' = program
      /\ visit' = 0 /\ changed' = FALSE
      /\ pdom' = [b \in Nodes |-> IF b = ExitNode THEN {ExitNode} ELSE Nodes]
  BY DEF BuildCfg
<1>2. program \in Seq(Instructions) /\ WellFormed(program)
  BY Accepted DEF AnalysisInv, BuildCfg
<1>3. /\ 0 \in Nodes /\ ExitNode \in Nodes /\ ExitNode = Len(program)
      /\ \A b \in Leaders : ~(b < 0)
  <2>1. \A b \in Leaders : b \in 0..Size - 1
    BY <1>2, NodesAre
  <2> QED
    BY <1>2, <2>1, NodesAre DEF Size
<1>4. Nodes' = Nodes /\ Leaders' = Leaders /\ ExitNode' = ExitNode
  BY <1>1, SameProgram
<1>5. \A b, d \in Nodes : PostDominates(program, d, b) => d \in pdom'[b]
  BY <1>1, <1>2, <1>3, ExitAlone
<1>6. FlowOK'
  <2>1. pdom' \in [Nodes -> SUBSET Nodes] /\ pdom'[ExitNode] = {ExitNode}
    BY <1>1, <1>3
  <2>2. /\ program' \in Seq(Instructions) /\ WellFormed(program')
        /\ (visit \in Nodes /\ changed \in BOOLEAN)'
    BY <1>1, <1>2, <1>3, <1>4
  <2>3. (\A b, d \in Nodes : PostDominates(program, d, b) => d \in pdom[b])'
    BY <1>1, <1>4, <1>5
  <2>4. (\A b \in Leaders : ~(b < visit))'
    BY <1>1, <1>3, <1>4
  <2> QED
    BY <1>4, <2>1, <2>2, <2>3, <2>4 DEF FlowOK
<1> QED
  BY <1>1, <1>6 DEF AnalysisInv, RecordsReference

LEMMA VisitStep ==
    ASSUME AnalysisInv, Visit
    PROVE  AnalysisInv'
<1>1. /\ phase = "sweep" /\ phase' = phase /\ program' = program
      /\ pdom' = [pdom EXCEPT ![visit] = Transfer(visit)]
      /\ changed' = (changed \/ Transfer(visit) # pdom[visit])
      /\ visit' = Min({c \in Nodes : c > visit}) /\ visit < ExitNode
  BY DEF Visit
<1>2. FlowOK /\ WellFormed(program)
  BY <1>1 DEF AnalysisInv, FlowOK
<1>3. /\ Size \in Nat /\ Nodes = Leaders \cup {Size} /\ ExitNode = Size
      /\ \A b \in Leaders : b \in 0..Size - 1
  BY <1>2, NodesAre
<1>4. visit \in Leaders /\ visit # ExitNode
  BY <1>1, <1>2, <1>3 DEF FlowOK
<1>5. Nodes' = Nodes /\ Leaders' = Leaders /\ ExitNode' = ExitNode /\ \A b : Succs(b)' = Succs(b)
  BY <1>1, SameProgram
<1>6. Transfer(visit) \subseteq Nodes
  BY <1>3, <1>4 DEF Transfer
<1>7. pdom' \in [Nodes -> SUBSET Nodes] /\ pdom'[ExitNode] = {ExitNode}
  BY <1>1, <1>2, <1>3, <1>4, <1>6 DEF FlowOK
<1>8. visit' = LastPC(visit) + 1 /\ visit' \in Nodes /\ \A c \in Nodes : c > visit => c >= visit'
  BY <1>1, <1>2, <1>4, LastPCIs
<1>9. ASSUME NEW b \in Nodes, NEW d \in Nodes, PostDominates(program, d, b)
      PROVE  d \in pdom'[b]
  <2>1. CASE b = visit
    <3>1. d \in Transfer(visit)
      BY <1>2, <1>4, <1>9, <2>1, NoneIsLost DEF FlowOK
    <3> QED
      BY <1>1, <1>2, <2>1, <3>1 DEF FlowOK
  <2>2. CASE b # visit
    BY <1>1, <1>2, <1>9, <2>2 DEF FlowOK
  <2> QED
    BY <2>1, <2>2
<1>10. ASSUME ~changed', NEW b \in Leaders, b < visit'
       PROVE  pdom'[b] = Transfer(b)'
  <2>1. ~changed /\ Transfer(visit) = pdom[visit]
    BY <1>1, <1>10
  <2>2. pdom' = pdom
    BY <1>1, <1>2, <2>1 DEF FlowOK
  <2>3. Transfer(b)' = Transfer(b)
    BY <1>5, <2>2 DEF Transfer
  <2>4. b < visit \/ b = visit
    BY <1>3, <1>4, <1>8, <1>10
  <2> QED
    BY <1>2, <2>1, <2>2, <2>3, <2>4 DEF FlowOK
<1>11. FlowOK'
  <2>1. changed' \in BOOLEAN /\ program' \in Seq(Instructions) /\ WellFormed(program')
    BY <1>1, <1>2 DEF FlowOK
  <2>2. (\A b, d \in Nodes : PostDominates(program, d, b) => d \in pdom[b])'
    BY <1>1, <1>5, <1>9
  <2>3. (~changed => \A b \in Leaders : b < visit => pdom[b] = Transfer(b))'
    BY <1>5, <1>10
  <2> QED
    BY <1>5, <1>7, <1>8, <2>1, <2>2, <2>3 DEF FlowOK
<1> QED
  BY <1>1, <1>11 DEF AnalysisInv, RecordsReference

LEMMA SweepStep ==
    ASSUME AnalysisInv, Sweep
    PROVE  AnalysisInv'
<1>1. /\ phase = "sweep" /\ phase' = phase /\ program' = program /\ pdom' = pdom
      /\ visit' = 0 /\ changed' = FALSE
  BY DEF Sweep
<1>2. FlowOK /\ WellFormed(program)
  BY <1>1 DEF AnalysisInv, FlowOK
<1>3. 0 \in Nodes /\ \A b \in Leaders : b \in 0..Size - 1 /\ ~(b < 0)
  BY <1>2, NodesAre
<1>4. Nodes' = Nodes /\ Leaders' = Leaders /\ ExitNode' = ExitNode
  BY <1>1, SameProgram
<1>5. FlowOK'
  <2>1. (\A b \in Leaders : ~(b < visit))'
    BY <1>1, <1>3, <1>4
  <2>2. (\A b, d \in Nodes : PostDominates(program, d, b) => d \in pdom[b])'
    BY <1>1, <1>2, <1>4 DEF FlowOK
  <2> QED
    BY <1>1, <1>2, <1>3, <1>4, <2>1, <2>2 DEF FlowOK
<1> QED
  BY <1>1, <1>5 DEF AnalysisInv, RecordsReference

\* Writing the reconvergence PCs does not change what they are.
LEMMA AnnotateStep ==
    ASSUME AnalysisInv, Annotate
    PROVE  AnalysisInv'
<1>1. /\ phase = "sweep" /\ phase' = "done" /\ visit = ExitNode /\ ~changed
      /\ program' = [k \in DOMAIN program |->
                        IF program[k].op = "bra"
                        THEN [program[k] EXCEPT !.rpc = Recorded(k - 1)]
                        ELSE program[k]]
  BY DEF Annotate
<1>2. FlowOK /\ WellFormed(program)
  BY <1>1 DEF AnalysisInv, FlowOK
<1>3. /\ Size \in Nat \ {0} /\ Leaders \subseteq Nodes /\ ExitNode = Size /\ Nodes = Leaders \cup {Size}
      /\ \A b \in Leaders : b \in 0..Size - 1 /\ b < Size
  BY <1>2, NodesAre
<1>4. Exact
  <2>1. \A b \in Leaders : pdom[b] = Transfer(b)
    BY <1>1, <1>2, <1>3 DEF FlowOK
  <2>2. \A b, d \in Nodes : d \in pdom[b] => PostDominates(program, d, b)
    BY <1>2, <2>1, OnlyTheyAreLeft DEF FlowOK
  <2> QED
    BY <1>2, <2>2 DEF FlowOK, Exact
<1>5. /\ program \in Seq(Instructions) /\ Len(program) = Size /\ DOMAIN program = 1..Size
      /\ \A k \in 1..Size : program[k] \in Instructions
  BY <1>2, LenProperties, ElementOfSeq DEF FlowOK, WellFormed, Size
<1>6. ASSUME NEW k \in 1..Size, program[k].op = "bra"
      PROVE  Recorded(k - 1) = ReconvergencePC(program, k - 1) /\ Recorded(k - 1) \in PC
  <2> DEFINE b == BlockOf(k - 1)
  <2>1. Recorded(k - 1) = ReconvergencePC(program, k - 1)
    BY <1>2, <1>4, <1>6, RecordedIsReference
  <2>2. b \in Nodes
    BY <1>2, <1>3, <1>6, BranchEnds, BlockOfIs DEF IsTerminator
  <2>3. Candidates(b) \subseteq Nodes
    BY <2>2, <1>4 DEF Candidates, Exact
  <2>4. \A x \in Nodes : x \in Nat
    BY <1>3
  <2>5. Candidates(b) # {} => Min(Candidates(b)) \in Candidates(b)
    <3>1. Candidates(b) \in SUBSET Nat
      BY <2>3, <2>4
    <3> QED
      BY <3>1, MinOf
  <2>6. ImmediatePdom(b) \in Nodes
    BY <1>3, <2>3, <2>5 DEF ImmediatePdom
  <2>7. Size <= NoReconv /\ NoReconv \in Nat
    BY <1>1, IsaAssumption DEF AnalysisInv, Parsed, Size
  <2>8. \A x \in Nodes : x \in PC
    BY <1>3, <2>7 DEF PC
  <2>9. Recorded(k - 1) \in PC
    BY <2>6, <2>7, <2>8 DEF Recorded, PC
  <2> QED
    BY <2>1, <2>9
<1>7. ASSUME NEW k \in 1..Size
      PROVE  /\ program'[k] \in Instructions
             /\ program'[k].op = program[k].op /\ program'[k].target = program[k].target
             /\ program'[k].guard = program[k].guard
             /\ program[k].op = "bra" => program'[k].rpc = Recorded(k - 1)
  <2>1. program[k] \in Instructions
    BY <1>5
  <2>2. program'[k] = IF program[k].op = "bra"
                      THEN [program[k] EXCEPT !.rpc = Recorded(k - 1)] ELSE program[k]
    BY <1>1, <1>5
  <2>3. CASE program[k].op = "bra"
    <3> DEFINE r == Recorded(k - 1)
    <3>1. r \in PC /\ program'[k] = [program[k] EXCEPT !.rpc = r]
      BY <1>6, <2>2, <2>3
    <3> HIDE DEF r
    <3>2. /\ program'[k] \in Instructions
          /\ program'[k].op = program[k].op /\ program'[k].target = program[k].target
          /\ program'[k].guard = program[k].guard /\ program'[k].rpc = r
      BY <2>1, <3>1 DEF Instructions
    <3> QED
      BY <3>2 DEF r
  <2>4. CASE program[k].op # "bra"
    BY <2>1, <2>2, <2>4
  <2> QED
    BY <2>3, <2>4
<1>8. Len(program') = Size /\ DOMAIN program' = 1..Size /\ program' \in Seq(Instructions)
  <2>1. DOMAIN program' = 1..Size
    BY <1>1, <1>5
  <2>2. program' \in [1..Size -> Instructions]
    BY <1>1, <1>5, <1>7
  <2> QED
    BY <1>3, <2>1, <2>2, SeqDef, LenProperties
<1>9. WellFormed(program')
  BY <1>2, <1>3, <1>5, <1>7, <1>8 DEF WellFormed
<1>10. ASSUME NEW q \in 0..Size - 1
       PROVE  SuccPCs(program', q) = SuccPCs(program, q)
  <2>1. q + 1 \in 1..Size
    BY <1>3
  <2> QED
    BY <1>5, <1>7, <1>8, <2>1 DEF SuccPCs
<1>11. ASSUME NEW k \in 1..Size, program[k].op = "bra"
       PROVE  ReconvergencePC(program', k - 1) = ReconvergencePC(program, k - 1)
  <2> DEFINE pc == k - 1
             b == BlockOf(pc)
  <2>1. /\ pc \in 0..Size - 1 /\ pc \in 0..Size /\ pc + 1 = k /\ LastPC(b) = pc
        /\ b \in Leaders /\ Size = Len(program)
    <3>1. pc \in 0..Size - 1 /\ pc \in 0..Size /\ pc + 1 = k
      BY <1>3
    <3>2. LastPC(b) = pc
      BY <1>2, <1>11, BranchEnds DEF IsTerminator
    <3>3. b \in Leaders
      BY <1>2, <3>1, BlockOfIs
    <3> QED
      BY <1>5, <3>1, <3>2, <3>3
  <2>2. /\ \A x \in 0..Size : \A d : PostDominates(program', d, x) <=> PostDominates(program, d, x)
        /\ CanExit(program', pc) <=> CanExit(program, pc)
    BY <1>2, <1>5, <1>8, <1>9, <1>10, <2>1, SameSuccessors
  <2>3. program'[k].guard = program[k].guard
    BY <1>7
  <2>4. CASE ~CanExit(program, pc) \/ ~program[k].guard.present
    BY <2>1, <2>2, <2>3, <2>4 DEF ReconvergencePC
  <2>5. CASE CanExit(program, pc)
    <3>1. CanExit(program, b)
      <4> HIDE DEF b, pc
      <4>1. /\ b \in 0..Len(program) /\ pc \in 0..Len(program) /\ b <= pc
            /\ \A q \in b..pc - 1 : SuccPCs(program, q) = {q + 1}
        BY <1>2, <2>1, BlockIsALine
      <4> QED
        BY <1>2, <2>5, <4>1, LineExits
    <3>2. PICK d \in 0..Size :
              /\ d # pc /\ PostDominates(program, d, pc)
              /\ \A e \in 0..Size \ {pc} : PostDominates(program, e, pc) => PostDominates(program, e, d)
      BY <1>2, <1>4, <2>1, <3>1, CandidateHas DEF Size
    <3>3. ImmediatePostDominator(program, pc) = d
      BY <1>2, <2>1, <2>5, <3>2, TheImmediate
    <3>4. ImmediatePostDominator(program', pc) = d
      BY <1>8, <1>9, <2>1, <2>2, <2>5, <3>2, TheImmediate
    <3> QED
      BY <1>5, <1>8, <2>1, <2>2, <2>3, <3>3, <3>4 DEF ReconvergencePC
  <2> QED
    BY <2>4, <2>5
<1>12. RecordsReference'
  <2> SUFFICES ASSUME NEW k \in 1..Size, program'[k].op = "bra"
               PROVE  program'[k].rpc = Reference!ReconvergencePC(program', k - 1)
    BY <1>8 DEF RecordsReference, Size
  <2>1. program[k].op = "bra"
    BY <1>7
  <2>2. program'[k].rpc = ReconvergencePC(program', k - 1)
    BY <1>6, <1>7, <1>11, <2>1
  <2> QED
    BY <2>2, SameDefinitions
<1> QED
  BY <1>1, <1>12 DEF AnalysisInv

LEMMA AnalysisNext == AnalysisInv /\ [Next]_vars => AnalysisInv'
<1> SUFFICES ASSUME AnalysisInv, [Next]_vars PROVE AnalysisInv'
  OBVIOUS
<1>1. CASE Reject
  BY <1>1 DEF Reject, AnalysisInv, RecordsReference
<1>2. CASE Done \/ UNCHANGED vars
  <2>1. UNCHANGED vars
    BY <1>2 DEF Done
  <2>2. AnalysisInv' <=> AnalysisInv
    BY <2>1 DEF vars, AnalysisInv, FlowOK, RecordsReference, Size, Nodes, Leaders, ExitNode,
       Transfer, Succs, ThroughOf, LastPC, BlockOf, Fallthrough
  <2> QED
    BY <2>2
<1> QED
  BY <1>1, <1>2, BuildStep, VisitStep, SweepStep, AnnotateStep DEF Next

\* For every program, however its branches nest, cross and loop: what the analysis
\* records for a guarded branch is the immediate post-dominator that sections 8.1
\* and 8.2 define by paths, or 0xFFFF where there is none but the exit or no path
\* to it (annotate_reconvergence, reconvergence.cpp).
THEOREM AnalysisIsRight == Spec => []RecordsReference
<1>1. AnalysisInv => RecordsReference
  BY DEF AnalysisInv
<1> QED
  BY AnalysisInit, AnalysisNext, <1>1, PTL DEF Spec
=============================================================================
