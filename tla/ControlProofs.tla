---------------------------- MODULE ControlProofs ----------------------------
(***************************************************************************)
(* Lemmas on control flow, for every set of lanes and every program.       *)
(*                                                                         *)
(* First the definitions of PostDom without paths: a set of nodes that is  *)
(* closed under the successors other than d holds all that paths reach     *)
(* that do not enter d.  So d post-dominates a node when some such set has *)
(* the node and not the exit, and what is to be known of post-dominators   *)
(* follows from unions and intersections of these sets.                    *)
(*                                                                         *)
(* Then what the transitions of one warp preserve, for the modules that    *)
(* drive warps; its first part is about an active mask, a stack and a live *)
(* mask on their own.                                                      *)
(***************************************************************************)
EXTENDS Simt, PostDom, FiniteSetTheorems, SequenceTheorems, WellFoundedInduction, TLAPS

\* A set of nodes that no path leaves but through d.
Closed(prog, S, d) ==
    /\ S \subseteq 0..Len(prog)
    /\ \A q \in S \ {Len(prog)} : SuccPCs(prog, q) \ {d} \subseteq S

\* A program whose branches are to instructions of it.
WellFormed(prog) ==
    /\ Len(prog) \in Nat \ {0} /\ DOMAIN prog = 1..Len(prog)
    /\ \A k \in DOMAIN prog : prog[k].op = "bra" => prog[k].target \in 0..Len(prog) - 1

LEMMA SuccType ==
    ASSUME NEW prog, WellFormed(prog), NEW pc \in 0..Len(prog) - 1
    PROVE  SuccPCs(prog, pc) \subseteq 0..Len(prog)
<1>1. pc + 1 \in DOMAIN prog /\ pc + 1 \in 0..Len(prog) /\ Len(prog) \in 0..Len(prog)
  BY DEF WellFormed
<1>2. prog[pc + 1].op = "bra" => prog[pc + 1].target \in 0..Len(prog)
  BY <1>1 DEF WellFormed
<1> QED
  BY <1>1, <1>2 DEF SuccPCs

Spread(prog, S, d) ==
    S \cup ((UNION {SuccPCs(prog, q) : q \in S \ {Len(prog)}}) \ {d})

\* A set of numbers that is not empty has a least: what proofs by induction rest on.
LEMMA LeastOf ==
    ASSUME NEW S \in SUBSET Nat, S # {}
    PROVE  \E x \in S : \A y \in S : x <= y
<1>1. \E x \in S : \A y \in S : <<y, x>> \notin OpToRel(<, Nat)
  BY NatLessThanWellFounded, WFMin
<1>2. \A x, y \in S : <<y, x>> \notin OpToRel(<, Nat) => x <= y
  BY DEF OpToRel
<1> QED
  BY <1>1, <1>2

Rounds(prog, pc, d, R) ==
    R = [k \in 0..Len(prog) |-> IF k = 0 THEN {pc} ELSE Spread(prog, R[k - 1], d)]

\* A recursive function on 0..n exists: one more step on 0..k for every k.
LEMMA ReachDefined ==
    ASSUME NEW prog, NEW pc, NEW d, Len(prog) \in Nat
    PROVE  \E R : ReachAvoiding(prog, pc, d) = R[Len(prog)] /\ Rounds(prog, pc, d, R)
<1> DEFINE n == Len(prog)
           F(k) == \E R : R = [j \in 0..k |-> IF j = 0 THEN {pc} ELSE Spread(prog, R[j - 1], d)]
           Bad == {k \in Nat : ~F(k)}
<1>1. F(0)
  <2> DEFINE R == [j \in 0..0 |-> {pc}]
  <2>1. R = [j \in 0..0 |-> IF j = 0 THEN {pc} ELSE Spread(prog, R[j - 1], d)]
    OBVIOUS
  <2> QED
    BY <2>1
<1>2. ASSUME NEW k \in Nat, F(k)
      PROVE  F(k + 1)
  <2>1. PICK R : R = [j \in 0..k |-> IF j = 0 THEN {pc} ELSE Spread(prog, R[j - 1], d)]
    BY <1>2
  <2> DEFINE T == [j \in 0..k + 1 |-> IF j = 0 THEN {pc} ELSE Spread(prog, R[j - 1], d)]
  <2>2. \A j \in 0..k : R[j] = IF j = 0 THEN {pc} ELSE Spread(prog, R[j - 1], d)
    BY <2>1
  <2>3. \A j \in 0..k + 1 : T[j] = IF j = 0 THEN {pc} ELSE Spread(prog, R[j - 1], d)
    OBVIOUS
  <2> HIDE DEF T
  <2>4. \A j \in 0..k + 1 : j # 0 => j - 1 \in 0..k /\ T[j - 1] = R[j - 1]
    <3>1. \A j \in 0..k : j \in 0..k + 1
      OBVIOUS
    <3>2. \A j \in 0..k : T[j] = R[j]
      BY <2>2, <2>3, <3>1
    <3> QED
      BY <3>2
  <2>5. T = [j \in 0..k + 1 |-> IF j = 0 THEN {pc} ELSE Spread(prog, T[j - 1], d)]
    BY <2>4 DEF T
  <2> QED
    BY <2>5
<1> HIDE DEF F
<1>3. \A k \in Nat : F(k)
  <2> SUFFICES ASSUME Bad # {} PROVE FALSE
    OBVIOUS
  <2>1. PICK k \in Bad : \A j \in Bad : k <= j
    BY LeastOf
  <2>2. k \in Nat /\ k # 0 /\ ~F(k)
    BY <1>1, <2>1
  <2>3. k - 1 \in Nat /\ k - 1 \notin Bad
    <3>1. k - 1 \in Nat /\ ~(k <= k - 1)
      BY <2>2
    <3> HIDE DEF Bad
    <3> QED
      BY <2>1, <3>1
  <2> QED
    BY <1>2, <2>2, <2>3
<1>4. \E R : Rounds(prog, pc, d, R)
  BY <1>3 DEF F, Rounds
<1>5. Rounds(prog, pc, d, CHOOSE R : Rounds(prog, pc, d, R))
  BY <1>4
<1>6. ReachAvoiding(prog, pc, d) = (CHOOSE R : Rounds(prog, pc, d, R))[n]
  BY DEF ReachAvoiding, Spread, Rounds
<1> QED
  BY <1>5, <1>6

\* Induction up to n, on the set of the numbers a fact holds of.
LEMMA UpTo ==
    ASSUME NEW n \in Nat, NEW S, 0 \in S, \A k \in 0..n - 1 : k \in S => k + 1 \in S
    PROVE  0..n \subseteq S
<1> DEFINE Bad == {k \in 0..n : k \notin S}
<1> SUFFICES ASSUME Bad # {} PROVE FALSE
  OBVIOUS
<1>1. PICK k \in Bad : \A j \in Bad : k <= j
  <2>1. Bad \in SUBSET Nat
    OBVIOUS
  <2> HIDE DEF Bad
  <2> QED
    BY <2>1, LeastOf
<1>2. k \in 0..n /\ k # 0 /\ k \notin S
  BY <1>1
<1>3. k - 1 \in 0..n - 1 /\ (k - 1) + 1 = k /\ k - 1 \in 0..n /\ ~(k <= k - 1)
  BY <1>2
<1>4. k - 1 \in S
  <2>1. k - 1 \notin Bad
    BY <1>1, <1>3
  <2> QED
    BY <1>3, <2>1
<1> QED
  BY <1>2, <1>3, <1>4

\* What ReachAvoiding computes is the least closed set with the node in it: it has
\* as many rounds as there are nodes, and a round that adds nothing is the last to.
LEMMA ReachIsLeast ==
    ASSUME NEW prog, WellFormed(prog), NEW pc \in 0..Len(prog), NEW d
    PROVE  /\ Closed(prog, ReachAvoiding(prog, pc, d), d)
           /\ pc \in ReachAvoiding(prog, pc, d)
           /\ \A S : Closed(prog, S, d) /\ pc \in S => ReachAvoiding(prog, pc, d) \subseteq S
<1> DEFINE n == Len(prog)
<1>1. n \in Nat /\ n # 0
  BY DEF WellFormed
<1>2. PICK R : ReachAvoiding(prog, pc, d) = R[n] /\ Rounds(prog, pc, d, R)
  BY <1>1, ReachDefined
<1>3. R[0] = {pc} /\ \A k \in 0..n - 1 : R[k + 1] = Spread(prog, R[k], d)
  <2>1. 0 \in 0..n /\ \A k \in 0..n - 1 : k + 1 \in 0..n /\ k + 1 # 0 /\ (k + 1) - 1 = k
    BY <1>1
  <2>2. \A k \in 0..n : R[k] = IF k = 0 THEN {pc} ELSE Spread(prog, R[k - 1], d)
    BY <1>2 DEF Rounds
  <2> QED
    BY <2>1, <2>2
<1>4. n \in 0..n /\ \A k \in 0..n - 1 : k \in 0..n /\ k + 1 \in 0..n
  BY <1>1
<1>5. ASSUME NEW S, S \subseteq 0..n
      PROVE  /\ Spread(prog, S, d) \subseteq 0..n /\ S \subseteq Spread(prog, S, d)
             /\ Spread(prog, S, d) = S => Closed(prog, S, d)
  <2>1. \A q \in S \ {n} : q \in 0..n - 1
    BY <1>1, <1>5
  <2>2. \A q \in S \ {n} : SuccPCs(prog, q) \subseteq 0..n
    BY <2>1, SuccType
  <2> QED
    BY <1>5, <2>2 DEF Spread, Closed
<1>6. \A k \in 0..n : R[k] \subseteq 0..n /\ pc \in R[k]
  <2> DEFINE Good == {k \in 0..n : R[k] \subseteq 0..n /\ pc \in R[k]}
  <2>1. 0 \in Good
    BY <1>1, <1>3
  <2>2. \A k \in 0..n - 1 : k \in Good => k + 1 \in Good
    BY <1>3, <1>4, <1>5
  <2> HIDE DEF Good
  <2>3. 0..n \subseteq Good
    BY <1>1, <2>1, <2>2, UpTo
  <2> QED
    BY <2>3 DEF Good
<1>7. ASSUME NEW S, Closed(prog, S, d), pc \in S
      PROVE  R[n] \subseteq S
  <2> DEFINE Good == {k \in 0..n : R[k] \subseteq S}
  <2>1. 0 \in Good
    BY <1>1, <1>3, <1>7
  <2>2. ASSUME NEW k \in 0..n - 1, k \in Good PROVE k + 1 \in Good
    <3>1. Spread(prog, R[k], d) \subseteq S
      BY <1>7, <2>2 DEF Spread, Closed
    <3> QED
      BY <1>3, <1>4, <3>1
  <2> HIDE DEF Good
  <2>3. 0..n \subseteq Good
    BY <1>1, <2>1, <2>2, UpTo
  <2> QED
    BY <1>4, <2>3 DEF Good
<1>8. Closed(prog, R[n], d)
  <2>1. CASE \A k \in 0..n - 1 : R[k + 1] # R[k]
    <3>1. IsFiniteSet(0..n) /\ Cardinality(0..n) = n + 1
      BY <1>1, FS_Interval
    <3>2. \A k \in 0..n : IsFiniteSet(R[k]) /\ Cardinality(R[k]) \in Nat
      BY <1>6, <3>1, FS_Subset, FS_CardinalityType
    <3> DEFINE Good == {k \in 0..n : k + 1 <= Cardinality(R[k])}
    <3>3. 0 \in Good
      <4>1. Cardinality(R[0]) = 1
        BY <1>3, FS_Singleton, Zenon
      <4>2. 0 \in 0..n /\ 0 + 1 = 1 /\ 1 <= 1
        BY <1>1
      <4> QED
        BY <4>1, <4>2
    <3>4. ASSUME NEW k \in 0..n - 1, k \in Good PROVE k + 1 \in Good
      <4>1. R[k] \subseteq R[k + 1] /\ R[k] # R[k + 1]
        BY <1>3, <1>4, <1>5, <1>6, <2>1
      <4>2. Cardinality(R[k]) <= Cardinality(R[k + 1]) /\ Cardinality(R[k]) # Cardinality(R[k + 1])
        BY <1>4, <3>2, <4>1, FS_Subset
      <4> QED
        BY <1>4, <3>2, <3>4, <4>2
    <3> HIDE DEF Good
    <3>5. 0..n \subseteq Good
      BY <1>1, <3>3, <3>4, UpTo
    <3>6. n + 1 <= Cardinality(R[n])
      BY <1>4, <3>5 DEF Good
    <3>7. R[n] \subseteq 0..n
      BY <1>4, <1>6
    <3>8. Cardinality(R[n]) <= n + 1
      BY <3>1, <3>7, FS_Subset
    <3>9. R[n] = 0..n
      <4>1. Cardinality(R[n]) = Cardinality(0..n)
        <5> DEFINE c == Cardinality(R[n])
        <5>1. c \in Nat
          BY <1>4, <3>2
        <5>2. n + 1 <= c /\ c <= n + 1
          BY <3>6, <3>8
        <5> HIDE DEF c
        <5>3. c = n + 1
          BY <1>1, <5>1, <5>2
        <5> QED
          BY <3>1, <5>3 DEF c
      <4> QED
        BY <3>1, <3>7, <4>1, FS_Subset
    <3> QED
      BY <1>5, <3>9
  <2>2. CASE ~(\A k \in 0..n - 1 : R[k + 1] # R[k])
    <3>1. PICK k \in 0..n - 1 : R[k + 1] = R[k]
      BY <2>2
    <3> DEFINE Good == {j \in 0..n : j >= k => R[j] = R[k]}
    <3>2. 0 \in Good
      BY <1>1, <3>1
    <3>3. ASSUME NEW j \in 0..n - 1, j \in Good PROVE j + 1 \in Good
      <4>1. CASE j >= k
        BY <1>3, <1>4, <3>1, <3>3, <4>1
      <4>2. CASE ~(j >= k)
        <5>1. j + 1 >= k => j + 1 = k
          BY <4>2
        <5> QED
          BY <1>4, <5>1
      <4> QED
        BY <4>1, <4>2
    <3> HIDE DEF Good
    <3>4. 0..n \subseteq Good
      BY <1>1, <3>2, <3>3, UpTo
    <3>5. R[n] = R[k]
      BY <1>1, <1>4, <3>4 DEF Good
    <3> QED
      BY <1>3, <1>4, <1>5, <1>6, <3>1, <3>5
  <2> QED
    BY <2>1, <2>2
<1> QED
  BY <1>2, <1>4, <1>6, <1>7, <1>8

-----------------------------------------------------------------------------
(* Post-dominance by closed sets                                           *)

\* Another node post-dominates pc when a set closed but for it keeps pc from the exit.
LEMMA Separated ==
    ASSUME NEW prog, WellFormed(prog), NEW pc \in 0..Len(prog), NEW d, d # pc
    PROVE  PostDominates(prog, d, pc) <=>
               \E S : Closed(prog, S, d) /\ pc \in S /\ Len(prog) \notin S /\ d \notin S
<1>1. ASSUME PostDominates(prog, d, pc)
      PROVE  \E S : Closed(prog, S, d) /\ pc \in S /\ Len(prog) \notin S /\ d \notin S
  <2> DEFINE S == ReachAvoiding(prog, pc, d)
  <2>1. Closed(prog, S, d) /\ pc \in S /\ Len(prog) \notin S
    BY <1>1, ReachIsLeast DEF PostDominates
  <2> HIDE DEF S
  <2>2. Closed(prog, S \ {d}, d)
    BY <2>1 DEF Closed
  <2> QED
    BY <2>1, <2>2
<1>2. ASSUME NEW S, Closed(prog, S, d), pc \in S, Len(prog) \notin S
      PROVE  PostDominates(prog, d, pc)
  BY <1>2, ReachIsLeast DEF PostDominates
<1> QED
  BY <1>1, <1>2

\* A node cannot exit when a closed set keeps it from the exit.
LEMMA Kept ==
    ASSUME NEW prog, WellFormed(prog), NEW pc \in 0..Len(prog)
    PROVE  ~CanExit(prog, pc) <=>
               \E S : Closed(prog, S, -1) /\ pc \in S /\ Len(prog) \notin S
BY ReachIsLeast DEF CanExit

\* Avoiding -1 is avoiding nothing.
LEMMA ClosedAll ==
    ASSUME NEW prog, WellFormed(prog), NEW S
    PROVE  Closed(prog, S, -1) <=>
               /\ S \subseteq 0..Len(prog)
               /\ \A q \in S \ {Len(prog)} : SuccPCs(prog, q) \subseteq S
<1>1. Len(prog) \in Nat /\ \A q \in 0..Len(prog) : q # -1 /\ (q # Len(prog) => q \in 0..Len(prog) - 1)
  BY DEF WellFormed
<1>2. S \subseteq 0..Len(prog) => \A q \in S \ {Len(prog)} : SuccPCs(prog, q) \subseteq 0..Len(prog)
  BY <1>1, SuccType
<1> QED
  BY <1>1, <1>2 DEF Closed

-----------------------------------------------------------------------------
(* The order of post-dominators                                            *)

LEMMA NodesArePCs ==
    ASSUME NEW prog, WellFormed(prog)
    PROVE  /\ Len(prog) \in Nat /\ Len(prog) \in 0..Len(prog)
           /\ \A q \in 0..Len(prog) : q \in Int /\ (q # Len(prog) => q \in 0..Len(prog) - 1)
<1>1. Len(prog) \in Nat
  BY DEF WellFormed
<1> QED
  BY <1>1

\* A node post-dominates itself, and nothing else post-dominates the exit.
LEMMA PostDominatesSelf ==
    ASSUME NEW prog, NEW d
    PROVE  PostDominates(prog, d, d)
BY DEF PostDominates

LEMMA ExitAlone ==
    ASSUME NEW prog, WellFormed(prog), NEW d
    PROVE  PostDominates(prog, d, Len(prog)) => d = Len(prog)
BY Separated, NodesArePCs

\* Every path passes through the exit.
LEMMA ExitLast ==
    ASSUME NEW prog, WellFormed(prog), NEW pc \in 0..Len(prog)
    PROVE  PostDominates(prog, Len(prog), pc)
<1>1. CASE pc = Len(prog)
  BY <1>1, PostDominatesSelf
<1>2. CASE pc # Len(prog)
  <2> DEFINE S == 0..Len(prog) \ {Len(prog)}
  <2>1. pc \in S /\ Len(prog) \notin S
    BY <1>2
  <2>2. Closed(prog, S, Len(prog))
    BY NodesArePCs, SuccType DEF Closed
  <2> HIDE DEF S
  <2> QED
    BY <1>2, <2>1, <2>2, Separated DEF PostDominates
<1> QED
  BY <1>1, <1>2

LEMMA Transitive ==
    ASSUME NEW prog, WellFormed(prog), NEW d, NEW e \in 0..Len(prog), NEW pc \in 0..Len(prog),
           PostDominates(prog, d, e), PostDominates(prog, e, pc)
    PROVE  PostDominates(prog, d, pc)
<1>1. CASE d = e \/ e = pc \/ d = pc
  BY <1>1, PostDominatesSelf
<1>2. CASE d # e /\ e # pc /\ d # pc
  <2>1. PICK S : Closed(prog, S, d) /\ e \in S /\ Len(prog) \notin S
    BY <1>2, Separated
  <2>2. PICK T : Closed(prog, T, e) /\ pc \in T /\ Len(prog) \notin T
    BY <1>2, Separated
  <2>3. Closed(prog, S \cup T, d) /\ pc \in S \cup T /\ Len(prog) \notin S \cup T
    BY <2>1, <2>2 DEF Closed
  <2>4. Closed(prog, (S \cup T) \ {d}, d) /\ pc \in (S \cup T) \ {d}
    BY <1>2, <2>3 DEF Closed
  <2>5. \E U : Closed(prog, U, d) /\ pc \in U /\ Len(prog) \notin U /\ d \notin U
    BY <2>3, <2>4
  <2> QED
    BY <1>2, <2>5, Separated
<1> QED
  BY <1>1, <1>2

\* Two nodes that post-dominate each other cannot exit.
LEMMA Antisymmetric ==
    ASSUME NEW prog, WellFormed(prog), NEW d \in 0..Len(prog), NEW pc \in 0..Len(prog),
           PostDominates(prog, d, pc), PostDominates(prog, pc, d), d # pc
    PROVE  ~CanExit(prog, pc)
<1>1. PICK S : Closed(prog, S, d) /\ pc \in S /\ Len(prog) \notin S
  BY Separated
<1>2. PICK T : Closed(prog, T, pc) /\ d \in T /\ Len(prog) \notin T
  BY Separated
<1>3. Closed(prog, S \cup T, -1)
  BY <1>1, <1>2 DEF Closed
<1> QED
  BY <1>1, <1>2, <1>3, Kept

\* The post-dominators of a node that can exit are a chain.
LEMMA Chain ==
    ASSUME NEW prog, WellFormed(prog), NEW pc \in 0..Len(prog), CanExit(prog, pc),
           NEW d \in 0..Len(prog), NEW e \in 0..Len(prog),
           PostDominates(prog, d, pc), PostDominates(prog, e, pc)
    PROVE  PostDominates(prog, d, e) \/ PostDominates(prog, e, d)
<1>1. CASE d = e \/ d = pc \/ e = pc
  BY <1>1, PostDominatesSelf
<1>2. CASE d # e /\ d # pc /\ e # pc
  <2>1. PICK S : Closed(prog, S, d) /\ pc \in S /\ Len(prog) \notin S /\ d \notin S
    BY <1>2, Separated
  <2>2. PICK T : Closed(prog, T, e) /\ pc \in T /\ Len(prog) \notin T /\ e \notin T
    BY <1>2, Separated
  <2>3. e \in S => PostDominates(prog, d, e)
    BY <1>2, <2>1, Separated
  <2>4. d \in T => PostDominates(prog, e, d)
    BY <1>2, <2>2, Separated
  <2>5. ASSUME e \notin S, d \notin T
        PROVE  Closed(prog, S \cap T, -1)
    <3>1. ASSUME NEW q \in (S \cap T) \ {Len(prog)}, NEW s \in SuccPCs(prog, q)
          PROVE  s \in S /\ s \in T
      <4>1. s = d \/ s \in S
        BY <2>1, <3>1 DEF Closed
      <4>2. s = e \/ s \in T
        BY <2>2, <3>1 DEF Closed
      <4> QED
        BY <1>2, <2>5, <4>1, <4>2
    <3>2. S \cap T \subseteq 0..Len(prog)
      BY <2>1 DEF Closed
    <3> QED
      BY <3>1, <3>2 DEF Closed
  <2> QED
    BY <2>1, <2>2, <2>3, <2>4, <2>5, Kept
<1> QED
  BY <1>1, <1>2

\* What post-dominates a node that can exit can exit.
LEMMA Exits ==
    ASSUME NEW prog, WellFormed(prog), NEW pc \in 0..Len(prog), CanExit(prog, pc),
           NEW d \in 0..Len(prog), PostDominates(prog, d, pc)
    PROVE  CanExit(prog, d)
<1> SUFFICES ASSUME ~CanExit(prog, d) PROVE FALSE
  OBVIOUS
<1>1. d # pc
  OBVIOUS
<1>2. PICK S : Closed(prog, S, d) /\ pc \in S /\ Len(prog) \notin S
  BY <1>1, Separated
<1>3. PICK T : Closed(prog, T, -1) /\ d \in T /\ Len(prog) \notin T
  BY Kept
<1>4. Closed(prog, S \cup T, -1)
  BY <1>2, <1>3 DEF Closed
<1> QED
  BY <1>2, <1>3, <1>4, Kept

\* Everything post-dominates a node that cannot exit.
LEMMA NeverExits ==
    ASSUME NEW prog, WellFormed(prog), NEW pc \in 0..Len(prog), ~CanExit(prog, pc), NEW d
    PROVE  PostDominates(prog, d, pc)
<1>1. PICK T : Closed(prog, T, -1) /\ pc \in T /\ Len(prog) \notin T
  BY Kept
<1>2. Closed(prog, T \ {d}, d)
  BY <1>1, ClosedAll DEF Closed
<1> QED
  BY <1>1, <1>2, Separated DEF PostDominates

\* The successors of a node that cannot exit cannot.
LEMMA KeptOn ==
    ASSUME NEW prog, WellFormed(prog), NEW pc \in 0..Len(prog) - 1, ~CanExit(prog, pc),
           NEW s \in SuccPCs(prog, pc)
    PROVE  s \in 0..Len(prog) - 1 /\ ~CanExit(prog, s)
<1>1. pc \in 0..Len(prog) /\ pc # Len(prog)
  BY NodesArePCs
<1>2. PICK T : Closed(prog, T, -1) /\ pc \in T /\ Len(prog) \notin T
  BY <1>1, Kept
<1>3. s \in T /\ s \in 0..Len(prog)
  BY <1>1, <1>2, ClosedAll
<1> QED
  BY <1>2, <1>3, Kept, NodesArePCs

\* A strict post-dominator post-dominates every successor.
LEMMA PassedOn ==
    ASSUME NEW prog, WellFormed(prog), NEW pc \in 0..Len(prog) - 1, NEW d, d # pc,
           PostDominates(prog, d, pc), NEW s \in SuccPCs(prog, pc)
    PROVE  PostDominates(prog, d, s)
<1>1. pc \in 0..Len(prog) /\ pc # Len(prog) /\ s \in 0..Len(prog)
  BY NodesArePCs, SuccType
<1>2. PICK S : Closed(prog, S, d) /\ pc \in S /\ Len(prog) \notin S /\ d \notin S
  BY <1>1, Separated
<1>3. s = d \/ s \in S
  BY <1>1, <1>2 DEF Closed
<1> QED
  BY <1>1, <1>2, <1>3, Separated, PostDominatesSelf

\* The node the definition chooses is the one that has its properties.
LEMMA TheImmediate ==
    ASSUME NEW prog, WellFormed(prog), NEW pc \in 0..Len(prog), CanExit(prog, pc),
           NEW d \in 0..Len(prog), d # pc, PostDominates(prog, d, pc),
           \A e \in 0..Len(prog) \ {pc} :
               PostDominates(prog, e, pc) => PostDominates(prog, e, d)
    PROVE  ImmediatePostDominator(prog, pc) = d
<1> DEFINE strict == {e \in 0..Len(prog) \ {pc} : PostDominates(prog, e, pc)}
           Nearest(c) == c \in strict /\ \A e \in strict : PostDominates(prog, e, c)
<1>1. Nearest(d)
  OBVIOUS
<1>2. ASSUME NEW c, Nearest(c) PROVE c = d
  <2>1. PostDominates(prog, c, d) /\ PostDominates(prog, d, c) /\ c \in 0..Len(prog)
    BY <1>1, <1>2
  <2>2. CanExit(prog, d)
    BY Exits
  <2> QED
    BY <2>1, <2>2, Antisymmetric
<1>3. ImmediatePostDominator(prog, pc) = CHOOSE c : Nearest(c)
  BY DEF ImmediatePostDominator
<1> HIDE DEF Nearest
<1> QED
  BY <1>1, <1>2, <1>3

-----------------------------------------------------------------------------
(* Straight lines                                                          *)

\* From a, where only one way goes on as far as c, every path passes through c, and
\* through whatever it passes from c on.
LEMMA StraightLine ==
    ASSUME NEW prog, WellFormed(prog), NEW a \in 0..Len(prog), NEW c \in 0..Len(prog), a <= c,
           \A q \in a..c - 1 : SuccPCs(prog, q) = {q + 1}
    PROVE  /\ PostDominates(prog, c, a)
           /\ \A d : d \notin a..c - 1 /\ PostDominates(prog, d, a) => PostDominates(prog, d, c)
<1> Len(prog) \in Nat
  BY NodesArePCs
<1>1. PostDominates(prog, c, a)
  <2>1. CASE a = c
    BY <2>1, PostDominatesSelf
  <2>2. CASE a # c
    <3>1. a \in a..c - 1 /\ Len(prog) \notin a..c - 1 /\ c \notin a..c - 1 /\ a..c - 1 \subseteq 0..Len(prog)
      BY <2>2
    <3>2. \A q \in a..c - 1 : q + 1 = c \/ q + 1 \in a..c - 1
      OBVIOUS
    <3>3. Closed(prog, a..c - 1, c)
      BY <3>1, <3>2 DEF Closed
    <3> QED
      BY <2>2, <3>1, <3>3, Separated
  <2> QED
    BY <2>1, <2>2
<1>2. ASSUME NEW d, d \notin a..c - 1, PostDominates(prog, d, a)
      PROVE  PostDominates(prog, d, c)
  <2> DEFINE On == {k \in 0..c - a : PostDominates(prog, d, a + k)}
  <2>1. 0 \in On /\ c - a \in Nat
    BY <1>2
  <2>2. ASSUME NEW k \in 0..(c - a) - 1, k \in On PROVE k + 1 \in On
    <3>1. a + k \in a..c - 1 /\ a + k \in 0..Len(prog) - 1 /\ k + 1 \in 0..c - a
          /\ (a + k) + 1 = a + (k + 1)
      OBVIOUS
    <3>2. d # a + k /\ a + (k + 1) \in SuccPCs(prog, a + k)
      BY <1>2, <3>1
    <3> QED
      BY <2>2, <3>1, <3>2, PassedOn
  <2> HIDE DEF On
  <2>3. c - a \in On
    BY <2>1, <2>2, UpTo
  <2> QED
    BY <2>3 DEF On
<1> QED
  BY <1>1, <1>2

\* It can exit exactly when c can.
LEMMA LineExits ==
    ASSUME NEW prog, WellFormed(prog), NEW a \in 0..Len(prog), NEW c \in 0..Len(prog), a <= c,
           \A q \in a..c - 1 : SuccPCs(prog, q) = {q + 1}
    PROVE  CanExit(prog, a) <=> CanExit(prog, c)
<1>1. \A x \in 0..Len(prog) : PostDominates(prog, -1, x) <=> ~CanExit(prog, x)
  BY NodesArePCs DEF PostDominates, CanExit
<1>2. -1 \notin a..c - 1
  BY NodesArePCs
<1>3. PostDominates(prog, c, a) /\ (PostDominates(prog, -1, a) => PostDominates(prog, -1, c))
  BY <1>2, StraightLine
<1> QED
  BY <1>1, <1>3, Exits

\* A path that comes to e, where only the line from c leads, has come to c.
LEMMA Entered ==
    ASSUME NEW prog, WellFormed(prog), NEW c \in 0..Len(prog), NEW e \in 0..Len(prog), c < e,
           \A q \in 0..Len(prog) - 1 : \A s \in SuccPCs(prog, q) : s \in c + 1..e => s = q + 1,
           NEW pc \in 0..Len(prog), pc \notin c..e, PostDominates(prog, e, pc)
    PROVE  PostDominates(prog, c, pc)
<1> Len(prog) \in Nat
  BY NodesArePCs
<1>1. e # pc /\ c # pc
  OBVIOUS
<1>2. PICK S : Closed(prog, S, e) /\ pc \in S /\ Len(prog) \notin S /\ e \notin S
  BY <1>1, Separated
<1> DEFINE T == S \ c..e
<1>3. pc \in T /\ Len(prog) \notin T /\ c \notin T
  BY <1>2
<1>4. ASSUME NEW q \in T \ {Len(prog)}, NEW s \in SuccPCs(prog, q), s # c
      PROVE  s \in T
  <2>1. q \in 0..Len(prog) - 1 /\ q \in S /\ q \notin c..e
    BY <1>2 DEF Closed
  <2>2. s \in 0..Len(prog)
    BY <2>1, SuccType
  <2>3. s \notin c + 1..e
    BY <2>1
  <2>4. s \notin c..e
    BY <1>4, <2>2, <2>3
  <2>5. s # e
    BY <2>4
  <2>6. s \in S
    BY <1>2, <2>1, <2>5 DEF Closed
  <2> QED
    BY <2>4, <2>6
<1>5. T \subseteq 0..Len(prog)
  BY <1>2 DEF Closed
<1> HIDE DEF T
<1>6. Closed(prog, T, c)
  BY <1>4, <1>5 DEF Closed
<1> QED
  BY <1>1, <1>3, <1>6, Separated

\* Only the successors matter: two programs with the same have the same post-dominators.
LEMMA SameSuccessors ==
    ASSUME NEW prog, WellFormed(prog), NEW other, WellFormed(other), Len(other) = Len(prog),
           \A q \in 0..Len(prog) - 1 : SuccPCs(other, q) = SuccPCs(prog, q),
           NEW pc \in 0..Len(prog)
    PROVE  /\ \A d : PostDominates(other, d, pc) <=> PostDominates(prog, d, pc)
           /\ CanExit(other, pc) <=> CanExit(prog, pc)
<1>1. \A S, d : Closed(other, S, d) <=> Closed(prog, S, d)
  BY NodesArePCs DEF Closed
<1> QED
  BY <1>1, Separated, Kept, PostDominatesSelf

-----------------------------------------------------------------------------
(* Immediate post-dominators                                               *)

PostDominators(prog, pc) == {d \in 0..Len(prog) : PostDominates(prog, d, pc)}

\* Of the strict post-dominators of a node that can exit one is the nearest: the
\* one with most post-dominators, for they are a chain.
LEMMA HasNearest ==
    ASSUME NEW prog, WellFormed(prog), NEW pc \in 0..Len(prog) - 1, CanExit(prog, pc)
    PROVE  \E d \in 0..Len(prog) \ {pc} :
               /\ PostDominates(prog, d, pc)
               /\ \A e \in 0..Len(prog) \ {pc} :
                      PostDominates(prog, e, pc) => PostDominates(prog, e, d)
<1> DEFINE n == Len(prog)
           Strict == PostDominators(prog, pc) \ {pc}
           Count(d) == Cardinality(PostDominators(prog, d))
           Far == {k \in 0..n + 1 : \E d \in Strict : Count(d) = (n + 1) - k}
<1>1. n \in Nat /\ pc \in 0..n /\ pc # n /\ n \in 0..n
  BY NodesArePCs
<1>2. n \in Strict
  BY <1>1, ExitLast DEF PostDominators
<1>3. ASSUME NEW d
      PROVE  /\ PostDominators(prog, d) \subseteq 0..n /\ IsFiniteSet(PostDominators(prog, d))
             /\ Count(d) \in 0..n + 1
  <2>1. IsFiniteSet(0..n) /\ Cardinality(0..n) = n + 1
    BY <1>1, FS_Interval
  <2>2. PostDominators(prog, d) \subseteq 0..n
    BY DEF PostDominators
  <2>3. IsFiniteSet(PostDominators(prog, d)) /\ Count(d) <= n + 1
    BY <2>1, <2>2, FS_Subset
  <2>4. Count(d) \in Nat
    BY <2>3, FS_CardinalityType
  <2> HIDE DEF Count
  <2> QED
    BY <1>1, <2>2, <2>3, <2>4
<1> HIDE DEF Count
<1>4. Far \in SUBSET Nat /\ Far # {}
  <2>1. (n + 1) - Count(n) \in 0..n + 1 /\ Count(n) = (n + 1) - ((n + 1) - Count(n))
    BY <1>1, <1>3
  <2> QED
    BY <1>1, <1>2, <2>1
<1>5. PICK k \in Far : \A j \in Far : k <= j
  <2> HIDE DEF Far
  <2> QED
    BY <1>4, LeastOf
<1>6. PICK d \in Strict : Count(d) = (n + 1) - k
  BY <1>5
<1>7. ASSUME NEW e \in Strict PROVE Count(e) <= Count(d)
  <2>1. (n + 1) - Count(e) \in 0..n + 1 /\ Count(e) = (n + 1) - ((n + 1) - Count(e))
    BY <1>1, <1>3
  <2>2. (n + 1) - Count(e) \in Far
    BY <2>1
  <2>3. k <= (n + 1) - Count(e) /\ k \in 0..n + 1
    BY <1>5, <2>2
  <2>4. Count(e) \in 0..n + 1
    BY <1>3
  <2> QED
    BY <1>1, <1>6, <2>3, <2>4
<1>8. ASSUME NEW e \in Strict
      PROVE  PostDominates(prog, e, d)
  <2> SUFFICES ASSUME ~PostDominates(prog, e, d) PROVE FALSE
    OBVIOUS
  <2>1. /\ d \in 0..n /\ e \in 0..n /\ PostDominates(prog, d, pc) /\ PostDominates(prog, e, pc)
    BY DEF PostDominators
  <2>2. PostDominates(prog, d, e)
    BY <1>1, <2>1, Chain
  <2>3. PostDominators(prog, d) \subseteq PostDominators(prog, e)
    BY <2>1, <2>2, Transitive DEF PostDominators
  <2>4. e \in PostDominators(prog, e) /\ e \notin PostDominators(prog, d)
    BY <2>1, PostDominatesSelf DEF PostDominators
  <2>5. Count(d) <= Count(e) /\ Count(d) # Count(e)
    BY <1>3, <2>3, <2>4, FS_Subset DEF Count
  <2>6. Count(e) <= Count(d) /\ Count(d) \in 0..n + 1 /\ Count(e) \in 0..n + 1
    BY <1>3, <1>7
  <2> QED
    BY <1>1, <2>5, <2>6
<1>9. d \in 0..n \ {pc} /\ PostDominates(prog, d, pc)
  BY DEF PostDominators
<1>10. \A e \in 0..n \ {pc} : PostDominates(prog, e, pc) => e \in Strict
  BY DEF PostDominators
<1> HIDE DEF Strict
<1> QED
  BY <1>8, <1>9, <1>10

\* What section 8.2 records is a PC, and depends on the successors and guards alone.
LEMMA SameReconvergence ==
    ASSUME NEW prog, WellFormed(prog), NEW other, WellFormed(other), Len(other) = Len(prog),
           \A q \in 0..Len(prog) - 1 : SuccPCs(other, q) = SuccPCs(prog, q),
           NEW pc \in 0..Len(prog) - 1,
           other[pc + 1].guard.present <=> prog[pc + 1].guard.present
    PROVE  /\ ReconvergencePC(other, pc) = ReconvergencePC(prog, pc)
           /\ ReconvergencePC(prog, pc) \in 0..Len(prog) - 1 \cup {NoReconv}
<1>1. pc \in 0..Len(prog)
  BY NodesArePCs
<1>2. \A x \in 0..Len(prog) : /\ \A d : PostDominates(other, d, x) <=> PostDominates(prog, d, x)
                              /\ CanExit(other, x) <=> CanExit(prog, x)
  BY SameSuccessors
<1>3. CASE ~CanExit(prog, pc)
  BY <1>1, <1>2, <1>3 DEF ReconvergencePC
<1>4. CASE CanExit(prog, pc)
  <2>1. PICK d \in 0..Len(prog) \ {pc} :
            /\ PostDominates(prog, d, pc)
            /\ \A e \in 0..Len(prog) \ {pc} : PostDominates(prog, e, pc) => PostDominates(prog, e, d)
    BY <1>4, HasNearest
  <2>2. ImmediatePostDominator(prog, pc) = d
    BY <1>1, <1>4, <2>1, TheImmediate
  <2>3. ImmediatePostDominator(other, pc) = d
    <3>1. /\ CanExit(other, pc) /\ PostDominates(other, d, pc) /\ d \in 0..Len(other) /\ d # pc
          /\ \A e \in 0..Len(other) \ {pc} :
                 PostDominates(other, e, pc) => PostDominates(other, e, d)
      BY <1>1, <1>2, <1>4, <2>1
    <3> QED
      BY <1>1, <3>1, TheImmediate
  <2>4. d # Len(prog) => d \in 0..Len(prog) - 1
    BY NodesArePCs
  <2> QED
    BY <1>1, <1>2, <2>2, <2>3, <2>4 DEF ReconvergencePC
<1> QED
  BY <1>3, <1>4

\* What the assembler has recorded at pc, a guarded branch.
NearestRecorded(prog, pc) ==
    LET r == prog[pc + 1].rpc
    IN  \/ /\ r \in 0..Len(prog) - 1 /\ r # NoReconv /\ r # pc
           /\ CanExit(prog, pc) /\ PostDominates(prog, r, pc)
           /\ \A e \in 0..Len(prog) \ {pc} : PostDominates(prog, e, pc) => PostDominates(prog, e, r)
        \/ /\ r = NoReconv
           /\ CanExit(prog, pc) =>
                  \A e \in 0..Len(prog) \ {pc} : PostDominates(prog, e, pc) => e = Len(prog)

WellAnnotated(prog) ==
    /\ WellFormed(prog) /\ Len(prog) <= NoReconv
    /\ \A pc \in 0..Len(prog) - 1 :
           prog[pc + 1].op = "bra" /\ prog[pc + 1].guard.present => NearestRecorded(prog, pc)

\* A program as the assembler emits it records the nearest strict post-dominator of
\* every guarded branch, but for the exit; its own post-dominators, for a branch goes
\* where it went.
LEMMA AnnotatedWell ==
    ASSUME NEW prog, prog \in Seq(Instructions), WellFormed(prog), Len(prog) <= NoReconv,
           Annotated(prog) \in Seq(Instructions)
    PROVE  WellAnnotated(Annotated(prog))
<1> DEFINE n == Len(prog)
           out == Annotated(prog)
<1>1. n \in Nat \ {0} /\ prog \in Seq(Instructions) /\ DOMAIN prog = 1..n
  BY LenProperties DEF WellFormed
<1>2. /\ DOMAIN out = 1..n
      /\ \A k \in 1..n : out[k] = IF prog[k].op = "bra"
                                  THEN [prog[k] EXCEPT !.rpc = ReconvergencePC(prog, k - 1)]
                                  ELSE prog[k]
  BY <1>1 DEF Annotated
<1>3. ASSUME NEW k \in 1..n
      PROVE  /\ out[k].op = prog[k].op /\ out[k].target = prog[k].target
             /\ out[k].guard = prog[k].guard
             /\ prog[k].op = "bra" => out[k].rpc = ReconvergencePC(prog, k - 1)
  <2>1. prog[k] \in Instructions
    BY <1>1, ElementOfSeq
  <2> QED
    BY <1>2, <2>1 DEF Instructions
<1>4. out \in Seq(Instructions)
  OBVIOUS
<1> HIDE DEF out
<1>5. Len(out) = n
  BY <1>1, <1>2, <1>4, LenProperties
<1>6. WellFormed(out)
  BY <1>1, <1>2, <1>3, <1>4, <1>5 DEF WellFormed
<1>7. \A q \in 0..n - 1 : SuccPCs(out, q) = SuccPCs(prog, q)
  <2> SUFFICES ASSUME NEW q \in 0..n - 1 PROVE SuccPCs(out, q) = SuccPCs(prog, q)
    OBVIOUS
  <2>1. q + 1 \in 1..n
    BY <1>1
  <2> QED
    BY <1>3, <1>5, <2>1 DEF SuccPCs
<1>8. \A x \in 0..n : /\ \A d : PostDominates(out, d, x) <=> PostDominates(prog, d, x)
                      /\ CanExit(out, x) <=> CanExit(prog, x)
  BY <1>5, <1>6, <1>7, SameSuccessors
<1>9. ASSUME NEW pc \in 0..n - 1, out[pc + 1].op = "bra", out[pc + 1].guard.present
      PROVE  NearestRecorded(out, pc)
  <2>1. pc + 1 \in 1..n /\ (pc + 1) - 1 = pc /\ pc \in 0..n
    BY <1>1
  <2>2. out[pc + 1].rpc = ReconvergencePC(prog, pc) /\ prog[pc + 1].guard.present
    BY <1>3, <1>9, <2>1
  <2>3. CASE ~CanExit(prog, pc)
    BY <1>8, <2>1, <2>2, <2>3 DEF ReconvergencePC, NearestRecorded
  <2>4. CASE CanExit(prog, pc)
    <3>1. PICK d \in 0..n \ {pc} :
              /\ PostDominates(prog, d, pc)
              /\ \A e \in 0..n \ {pc} : PostDominates(prog, e, pc) => PostDominates(prog, e, d)
      BY <2>4, HasNearest
    <3>2. ImmediatePostDominator(prog, pc) = d
      BY <2>1, <2>4, <3>1, TheImmediate
    <3>3. out[pc + 1].rpc = IF d = n THEN NoReconv ELSE d
      BY <2>2, <2>4, <3>2 DEF ReconvergencePC
    <3>4. CASE d = n
      <4>1. \A e \in 0..n \ {pc} : PostDominates(prog, e, pc) => e = n
        BY <3>1, <3>4, ExitAlone
      <4> QED
        BY <1>5, <1>8, <2>1, <3>3, <3>4, <4>1 DEF NearestRecorded
    <3>5. CASE d # n
      <4>1. d \in 0..n - 1 /\ d # NoReconv /\ d # pc
        <5>1. d \in 0..n /\ d # pc
          OBVIOUS
        <5>2. d \in 0..n - 1
          BY <3>5, <5>1, NodesArePCs
        <5> QED
          BY <1>1, <5>1, <5>2, IsaAssumption
      <4>2. /\ CanExit(out, pc) /\ PostDominates(out, d, pc)
            /\ \A e \in 0..n \ {pc} : PostDominates(out, e, pc) => PostDominates(out, e, d)
        BY <1>8, <2>1, <2>4, <3>1
      <4>3. out[pc + 1].rpc = d
        BY <3>3, <3>5
      <4> QED
        BY <1>5, <4>1, <4>2, <4>3 DEF NearestRecorded
    <3> QED
      BY <3>4, <3>5
  <2> QED
    BY <2>3, <2>4
<1>10. Len(out) <= NoReconv
  BY <1>5
<1>11. WellAnnotated(out)
  BY <1>5, <1>6, <1>9, <1>10 DEF WellAnnotated
<1> QED
  BY <1>11 DEF out

-----------------------------------------------------------------------------
(* Sequences of entries                                                    *)

\* Popping a non-empty stack yields a stack with the entries below the top.
LEMMA PopStack ==
    ASSUME NEW s \in Seq(Entries), s # <<>>
    PROVE  /\ Len(s) \in Nat \ {0}
           /\ Top(s) \in Entries /\ Pop(s) \in Seq(Entries)
           /\ Len(Pop(s)) = Len(s) - 1
           /\ \A k \in 1..Len(s) - 1 : Pop(s)[k] = s[k]
<1>1. Len(s) \in Nat \ {0}
  BY EmptySeq
<1>2. \A k \in 1..Len(s) - 1 : s[k] \in Entries
  BY <1>1, ElementOfSeq
<1> DEFINE n == Len(s) - 1
<1> DEFINE t == SubSeq(s, 1, n)
<1>3. Pop(s) = t
  BY DEF Pop
<1>4. n \in Nat /\ \A k \in 1..n : s[k] \in Entries
  BY <1>1, <1>2
<1> HIDE DEF n
<1>5. /\ t \in Seq(Entries)
      /\ Len(t) = IF 1 <= n THEN n - 1 + 1 ELSE 0
      /\ \A k \in 1..n - 1 + 1 : t[k] = s[1 + k - 1]
  BY <1>4, SubSeqProperties
<1> HIDE DEF t
<1>6. Len(t) = n
  BY <1>4, <1>5
<1>7. ASSUME NEW k \in 1..n PROVE t[k] = s[k]
  <2>1. k \in 1..n - 1 + 1 /\ 1 + k - 1 = k
    BY <1>4
  <2> QED
    BY <1>5, <2>1
<1>8. Top(s) \in Entries
  BY <1>1, ElementOfSeq DEF Top
<1> QED
  BY <1>1, <1>3, <1>5, <1>6, <1>7, <1>8 DEF n

\* Pushing an entry.
LEMMA PushStack ==
    ASSUME NEW s \in Seq(Entries), NEW e \in Entries
    PROVE  /\ Append(s, e) \in Seq(Entries)
           /\ DOMAIN Append(s, e) = 1..Len(s) + 1
           /\ \A k \in 1..Len(s) : Append(s, e)[k] = s[k]
           /\ Append(s, e)[Len(s) + 1] = e
BY AppendProperties, LenProperties

-----------------------------------------------------------------------------
(* Partitions of the live lanes                                            *)

\* switch_to a join entry, and rule 4 (a = {}): the top's lanes become active.
LEMMA JoinPartition ==
    ASSUME NEW a \in SUBSET Lanes, NEW live \in SUBSET Lanes,
           NEW s \in Seq(Entries), s # <<>>, Partition(a, s, live)
    PROVE  Partition(a \cup Top(s).mask, Pop(s), live)
<1> DEFINE t == Pop(s)
           n == Len(s)
<1>1. /\ n \in Nat \ {0} /\ DOMAIN s = 1..n /\ DOMAIN t = 1..n - 1
      /\ \A k \in 1..n - 1 : t[k] = s[k]
  BY PopStack, LenProperties
<1>2. Top(s) = s[n] /\ n \in DOMAIN s
  BY <1>1 DEF Top
<1> HIDE DEF t, n
<1>3. MasksDisjoint(a \cup Top(s).mask, t)
  BY <1>1, <1>2 DEF Partition, MasksDisjoint
<1>4. MasksCover(a \cup Top(s).mask, t, live)
  BY <1>1, <1>2 DEF Partition, MasksCover
<1>5. \A k \in DOMAIN t : t[k].mask # {}
  BY <1>1 DEF Partition
<1> QED
  BY <1>3, <1>4, <1>5 DEF Partition, t

\* Pushing an entry with some but not all of the active lanes: rule 2.
LEMMA PushPartition ==
    ASSUME NEW a \in SUBSET Lanes, NEW live \in SUBSET Lanes,
           NEW s \in Seq(Entries), Partition(a, s, live),
           NEW e \in Entries, e.mask \subseteq a, e.mask # {}
    PROVE  Partition(a \ e.mask, Append(s, e), live)
<1> DEFINE t == Append(s, e)
           n == Len(s)
<1>1. /\ n \in Nat /\ DOMAIN s = 1..n /\ DOMAIN t = 1..n + 1
      /\ \A k \in 1..n : t[k] = s[k]
      /\ t[n + 1] = e
  BY PushStack, LenProperties
<1> HIDE DEF t, n
<1>2. DOMAIN t = DOMAIN s \cup {n + 1}
  BY <1>1
<1>3. MasksDisjoint(a \ e.mask, t)
  <2>1. \A k \in DOMAIN t : t[k].mask \cap (a \ e.mask) = {}
    BY <1>1, <1>2 DEF Partition, MasksDisjoint
  <2>2. ASSUME NEW j \in DOMAIN t, NEW k \in DOMAIN t, j # k
        PROVE  t[j].mask \cap t[k].mask = {}
    BY <1>1, <1>2, <2>2 DEF Partition, MasksDisjoint
  <2> QED
    BY <2>1, <2>2 DEF MasksDisjoint
<1>4. MasksCover(a \ e.mask, t, live)
  <2> SUFFICES ASSUME NEW l \in Lanes
               PROVE  l \in live <=> l \in a \ e.mask \/ \E k \in DOMAIN t : l \in t[k].mask
    BY DEF MasksCover
  <2>1. l \in live <=> l \in a \/ \E k \in DOMAIN s : l \in s[k].mask
    BY DEF Partition, MasksCover
  <2> QED
    BY <1>1, <1>2, <2>1
<1>5. \A k \in DOMAIN t : t[k].mask # {}
  BY <1>1, <1>2 DEF Partition
<1> QED
  BY <1>3, <1>4, <1>5 DEF Partition, t

\* retire walks the stack (warp.cpp:96-98) and changes no entry: the lanes it
\* retires are active, and no active lane is deferred.
LEMMA RetireLeavesStack ==
    ASSUME NEW w \in WarpStates, Partitioned(w), NEW x \in SUBSET w.active
    PROVE  Retire(w, x).stack = w.stack
<1>1. \A k \in DOMAIN w.stack : [w.stack[k] EXCEPT !.mask = @ \ x] = w.stack[k]
  <2> SUFFICES ASSUME NEW k \in DOMAIN w.stack
               PROVE  [w.stack[k] EXCEPT !.mask = @ \ x] = w.stack[k]
    OBVIOUS
  <2>1. w.stack[k] \in Entries
    BY ElementOfSeq, LenProperties DEF WarpStates
  <2>2. w.stack[k].mask \ x = w.stack[k].mask
    BY DEF Partitioned, Partition, MasksDisjoint
  <2> QED
    BY <2>1, <2>2 DEF Entries
<1>2. w.stack = [k \in DOMAIN w.stack |-> w.stack[k]]
  BY LenProperties DEF WarpStates
<1>3. Retire(w, x).stack = [k \in DOMAIN w.stack |-> [w.stack[k] EXCEPT !.mask = @ \ x]]
  BY DEF Retire, WarpStates
<1> QED
  BY <1>1, <1>2, <1>3

\* Retiring active lanes.
LEMMA RetirePartition ==
    ASSUME NEW a \in SUBSET Lanes, NEW live \in SUBSET Lanes,
           NEW s \in Seq(Entries), Partition(a, s, live), NEW x \in SUBSET a
    PROVE  Partition(a \ x, s, live \ x)
<1>1. MasksDisjoint(a \ x, s)
  BY DEF Partition, MasksDisjoint
<1>2. MasksCover(a \ x, s, live \ x)
  <2> SUFFICES ASSUME NEW l \in Lanes
               PROVE  l \in live \ x <=>
                        l \in a \ x \/ \E k \in DOMAIN s : l \in s[k].mask
    BY DEF MasksCover
  <2>1. l \in live <=> l \in a \/ \E k \in DOMAIN s : l \in s[k].mask
    BY DEF Partition, MasksCover
  <2>2. \A k \in DOMAIN s : l \in s[k].mask => l \notin x
    BY DEF Partition, MasksDisjoint
  <2> QED
    BY <2>1, <2>2
<1> QED
  BY <1>1, <1>2 DEF Partition

-----------------------------------------------------------------------------
(* Sound warps: the invariant every transition of a warp preserves.        *)

Sound(w) == w \in WarpStates /\ Partitioned(w) /\ ParkedConverged(w)

\* A lane mask of run_block makes a sound warp.
LEMMA NewWarpSound ==
    ASSUME NEW live \in SUBSET Lanes
    PROVE  Sound(NewWarp(live))
<1> DEFINE w == NewWarp(live)
<1>1. w \in WarpStates
  BY IsaAssumption, EmptySeq DEF NewWarp, WarpStates, PC
<1>2. w.stack = <<>> /\ w.active = live /\ w.live = live
  BY DEF NewWarp
<1>3. DOMAIN <<>> = {}
  OBVIOUS
<1>4. Partition(live, <<>>, live)
  BY <1>3 DEF Partition, MasksDisjoint, MasksCover
<1> QED
  BY <1>1, <1>2, <1>4 DEF Sound, Partitioned, ParkedConverged, Converged

\* The type of a warp that has switched to another path.
LEMMA SwitchedType ==
    ASSUME NEW w \in WarpStates, NEW s \in Seq(Entries), NEW a \in SUBSET Lanes,
           NEW pc \in PC, NEW r \in Nat
    PROVE  [w EXCEPT !.stack = s, !.active = a, !.pc = pc, !.reconverged = r]
               \in WarpStates
BY DEF WarpStates

\* Rule 3.
LEMMA RejoinedSound ==
    ASSUME NEW w, Sound(w), ~w.parked, AtReconvergence(w)
    PROVE  Sound(Rejoined(w)) /\ ~Rejoined(w).parked
<1> DEFINE e == Top(w.stack)
           t == Pop(w.stack)
           joined == [w EXCEPT !.stack = t, !.active = w.active \cup e.mask,
                               !.pc = e.rpc, !.reconverged = w.reconverged + 1]
           f == ArrivedEntry(e, w.active)
           switched == [w EXCEPT !.stack = Append(t, f), !.active = e.mask,
                                 !.pc = e.resume, !.reconverged = w.reconverged + 1]
<1>1. w \in WarpStates /\ Partition(w.active, w.stack, w.live)
  BY DEF Sound, Partitioned
<1>2. w.stack \in Seq(Entries) /\ w.stack # <<>> /\ w.active # {}
      /\ w.active \in SUBSET Lanes /\ w.live \in SUBSET Lanes /\ w.reconverged \in Nat
  BY <1>1 DEF AtReconvergence, WarpStates
<1>3. e \in Entries /\ t \in Seq(Entries)
  BY <1>2, PopStack
<1>4. Partition(w.active \cup e.mask, t, w.live)
  BY <1>1, <1>2, JoinPartition
<1> e.rpc \in PC /\ e.resume \in PC /\ e.mask \in SUBSET Lanes /\ w.reconverged + 1 \in Nat
  BY <1>2, <1>3 DEF Entries
<1>5. CASE IsJoin(e)
  <2>1. Rejoined(w) = joined
    BY <1>1, <1>5 DEF Rejoined, SwitchTo, Popped, WarpStates
  <2>2. joined \in WarpStates /\ ~joined.parked
    <3>1. w.active \cup e.mask \in SUBSET Lanes
      BY <1>2
    <3>2. joined \in WarpStates
      BY <1>1, <1>3, <3>1, SwitchedType
    <3> QED
      BY <3>2, <1>1 DEF WarpStates
  <2>3. joined.stack = t /\ joined.active = w.active \cup e.mask /\ joined.live = w.live
    BY <1>1 DEF WarpStates
  <2> QED
    BY <2>1, <2>2, <2>3, <1>4 DEF Sound, Partitioned, ParkedConverged
<1>6. CASE ~IsJoin(e)
  <2>1. Rejoined(w) = switched
    BY <1>1, <1>2, <1>6 DEF Rejoined, SwitchTo, Popped, WarpStates
  <2>2. f \in Entries /\ f.mask = w.active
    BY <1>2, <1>3 DEF ArrivedEntry, Entries
  <2>3. Append(t, f) \in Seq(Entries)
    BY <2>2, <1>3, PushStack
  <2>4. switched \in WarpStates /\ ~switched.parked
    <3>1. switched \in WarpStates
      BY <1>1, <2>3, SwitchedType
    <3> QED
      BY <3>1, <1>1 DEF WarpStates
  <2>5. e.mask \cap w.active = {}
    BY <1>1, <1>2, PopStack, LenProperties DEF Partition, MasksDisjoint, Top
  <2>6. Partition(e.mask, Append(t, f), w.live)
    <3>1. (w.active \cup e.mask) \ f.mask = e.mask
      BY <2>2, <2>5
    <3>2. w.active \cup e.mask \in SUBSET Lanes
      BY <1>2, <1>3 DEF Entries
    <3> QED
      BY <1>2, <1>3, <1>4, <2>2, <3>1, <3>2, PushPartition
  <2>7. /\ switched.stack = Append(t, f) /\ switched.active = e.mask
        /\ switched.live = w.live
    BY <1>1 DEF WarpStates
  <2> QED
    BY <2>1, <2>4, <2>6, <2>7 DEF Sound, Partitioned, ParkedConverged
<1> QED
  BY <1>5, <1>6

\* Rule 4.
LEMMA ResumedSound ==
    ASSUME NEW w, Sound(w), ~w.parked, Emptied(w)
    PROVE  Sound(Resumed(w)) /\ ~Resumed(w).parked
<1> DEFINE e == Top(w.stack)
           t == Pop(w.stack)
           resumed == [w EXCEPT !.stack = t, !.active = e.mask, !.pc = e.resume]
<1>1. w \in WarpStates /\ Partition(w.active, w.stack, w.live)
  BY DEF Sound, Partitioned
<1>2. w.stack \in Seq(Entries) /\ w.stack # <<>> /\ w.active = {}
      /\ w.active \in SUBSET Lanes /\ w.live \in SUBSET Lanes
  BY <1>1 DEF Emptied, WarpStates
<1>3. e \in Entries /\ t \in Seq(Entries)
  BY <1>2, PopStack
<1>4. Partition(w.active \cup e.mask, t, w.live)
  BY <1>1, <1>2, JoinPartition
<1>5. Resumed(w) = resumed
  BY <1>1 DEF Resumed, SwitchTo, Popped, IsJoin, WarpStates
<1>6. resumed \in WarpStates /\ ~resumed.parked
  BY <1>1, <1>3 DEF WarpStates, Entries
<1>7. resumed.stack = t /\ resumed.active = w.active \cup e.mask /\ resumed.live = w.live
  BY <1>1, <1>2 DEF WarpStates
<1> QED
  BY <1>4, <1>5, <1>6, <1>7 DEF Sound, Partitioned, ParkedConverged

\* ++pc stays in 16 bits.
LEMMA SuccessorType ==
    ASSUME NEW pc \in PC
    PROVE  Successor(pc) \in PC
BY IsaAssumption DEF Successor, PC

\* retire of active lanes.
LEMMA RetireSound ==
    ASSUME NEW w, Sound(w), ~w.parked, NEW x \in SUBSET w.active
    PROVE  Sound(Retire(w, x)) /\ ~Retire(w, x).parked
<1> DEFINE r == [w EXCEPT !.live = w.live \ x, !.active = w.active \ x]
<1>1. w \in WarpStates /\ Partition(w.active, w.stack, w.live)
  BY DEF Sound, Partitioned
<1>2. /\ w.stack \in Seq(Entries)
      /\ w.active \in SUBSET Lanes /\ w.live \in SUBSET Lanes
  BY <1>1 DEF WarpStates
<1>3. Retire(w, x).stack = w.stack
  BY <1>1, RetireLeavesStack DEF Sound
<1>4. Retire(w, x) = r
  BY <1>1, <1>3 DEF Retire, WarpStates
<1>5. r \in WarpStates /\ ~r.parked
  BY <1>1, <1>2 DEF WarpStates
<1>6. r.stack = w.stack /\ r.active = w.active \ x /\ r.live = w.live \ x
  BY <1>1 DEF WarpStates
<1>7. Partition(w.active \ x, w.stack, w.live \ x)
  BY <1>1, <1>2, RetirePartition
<1> QED
  BY <1>4, <1>5, <1>6, <1>7 DEF Sound, Partitioned, ParkedConverged

\* Moving a warp to another PC.
LEMMA MovedSound ==
    ASSUME NEW w, Sound(w), NEW pc \in PC
    PROVE  Sound([w EXCEPT !.pc = pc])
BY DEF Sound, Partitioned, ParkedConverged, Converged, WarpStates

\* The next instruction.
LEMMA AdvanceSound ==
    ASSUME NEW w, Sound(w)
    PROVE  Sound(Advance(w)) /\ Advance(w).parked = w.parked
<1>1. w \in WarpStates /\ Successor(w.pc) \in PC
  BY SuccessorType DEF Sound, WarpStates
<1>2. Advance(w) = [w EXCEPT !.pc = Successor(w.pc)]
  BY <1>1 DEF Advance, WarpStates
<1> QED
  BY <1>1, <1>2, MovedSound DEF WarpStates

\* A branch all or none of the lanes take.
LEMMA JumpedSound ==
    ASSUME NEW w, Sound(w), NEW i \in Instructions
    PROVE  Sound(Jumped(i, w))
BY AdvanceSound, MovedSound DEF Jumped, Instructions

\* Rule 2.
LEMMA DivergedSound ==
    ASSUME NEW w, Sound(w), ~w.parked, NEW i \in Instructions, Splits(i, w)
    PROVE  Sound(Diverged(i, w))
<1> DEFINE e == Deferred(i, w)
           a == Exec(i, w)
           d == [w EXCEPT !.stack = Append(w.stack, e), !.active = a,
                          !.pc = i.target, !.divergent = w.divergent + 1]
<1>1. w \in WarpStates /\ Partition(w.active, w.stack, w.live)
  BY DEF Sound, Partitioned
<1>2. /\ w.stack \in Seq(Entries) /\ w.pc \in PC
      /\ w.active \in SUBSET Lanes /\ w.live \in SUBSET Lanes
      /\ w.divergent + 1 \in Nat
  BY <1>1 DEF WarpStates
<1>3. a \subseteq w.active /\ a # w.active
  BY DEF Splits, Exec
<1>4. /\ e \in Entries
      /\ e.mask \subseteq w.active /\ e.mask # {} /\ w.active \ e.mask = a
  BY <1>2, <1>3, SuccessorType DEF Deferred, Entries, Instructions
<1>5. Append(w.stack, e) \in Seq(Entries)
  BY <1>2, <1>4, PushStack
<1>6. Partition(a, Append(w.stack, e), w.live)
  <2> HIDE DEF a, e
  <2>1. Partition(w.active \ e.mask, Append(w.stack, e), w.live)
    BY <1>1, <1>2, <1>4, PushPartition
  <2> QED
    BY <2>1, <1>4
<1>7. Diverged(i, w) = d
  BY <1>1 DEF Diverged, WarpStates
<1>8. a \in SUBSET Lanes /\ i.target \in PC
  BY <1>2, <1>3 DEF Instructions
<1> HIDE DEF a, e
<1>9. d \in WarpStates /\ ~d.parked
  BY <1>1, <1>2, <1>5, <1>8 DEF WarpStates
<1>10. d.stack = Append(w.stack, e) /\ d.active = a /\ d.live = w.live
  BY <1>1 DEF WarpStates
<1> QED
  BY <1>6, <1>7, <1>9, <1>10 DEF Sound, Partitioned, ParkedConverged

\* exit retires lanes of the active mask and moves on.
LEMMA ExitedSound ==
    ASSUME NEW w, Sound(w), ~w.parked, NEW i
    PROVE  Sound(Exited(i, w))
BY RetireSound, AdvanceSound DEF Exited, Exec

\* When all live lanes are active, nothing is deferred.
LEMMA FullMaskEmptyStack ==
    ASSUME NEW w, Sound(w), w.active = w.live
    PROVE  w.stack = <<>>
<1> SUFFICES ASSUME w.stack # <<>> PROVE FALSE
  OBVIOUS
<1>1. w.stack \in Seq(Entries)
  BY DEF Sound, WarpStates
<1>2. PICK k \in DOMAIN w.stack : TRUE
  <2>1. Len(w.stack) \in Nat \ {0} /\ DOMAIN w.stack = 1..Len(w.stack)
    BY <1>1, EmptySeq, LenProperties
  <2>2. 1 \in DOMAIN w.stack
    BY <2>1
  <2> QED
    BY <2>2
<1>3. PICK l \in w.stack[k].mask : TRUE
  BY DEF Sound, Partitioned, Partition
<1>4. l \in Lanes
  <2>1. w.stack[k] \in Entries
    BY <1>1, <1>2, ElementOfSeq, LenProperties
  <2> QED
    BY <1>3, <2>1 DEF Entries
<1>5. l \in w.live
  BY <1>2, <1>3, <1>4 DEF Sound, Partitioned, Partition, MasksCover
<1> QED
  BY <1>2, <1>3, <1>5 DEF Sound, Partitioned, Partition, MasksDisjoint

\* bar.sync parks only a converged warp.
LEMMA ParkedSound ==
    ASSUME NEW w, Sound(w), ~BarrierFaults(w)
    PROVE  Sound(Parked(w)) /\ Parked(w).parked
<1> DEFINE v == Advance(w)
           u == [v EXCEPT !.parked = TRUE]
<1>1. Sound(v)
  BY AdvanceSound
<1>2. v.active = v.live
  BY DEF BarrierFaults, Advance, Sound, WarpStates
<1>3. v.stack = <<>>
  BY <1>1, <1>2, FullMaskEmptyStack
<1> HIDE DEF v
<1>4. Sound(u) /\ u.parked
  BY <1>1, <1>2, <1>3 DEF Sound, Partitioned, ParkedConverged, Converged, WarpStates
<1> QED
  BY <1>4 DEF Parked, v

\* Releasing a warp.
LEMMA ReleasedSound ==
    ASSUME NEW w, Sound(w)
    PROVE  Sound(Released(w))
BY DEF Released, Sound, Partitioned, ParkedConverged, WarpStates

\* setp.
LEMMA ComparedSound ==
    ASSUME NEW w, Sound(w), NEW i \in Instructions, NEW true
    PROVE  Sound(Compared(i, w, true))
<1> DEFINE v == Advance(w)
           preds == [l \in Lanes |-> IF l \notin Exec(i, w) THEN w.preds[l]
                                     ELSE IF l \in true THEN w.preds[l] \cup {i.dst}
                                     ELSE w.preds[l] \ {i.dst}]
<1>1. Sound(v)
  BY AdvanceSound
<1>2. preds \in [Lanes -> SUBSET Preds]
  BY DEF Sound, WarpStates, Instructions
<1>3. Compared(i, w, true) = [v EXCEPT !.preds = preds]
  BY DEF Compared
<1> HIDE DEF v, preds
<1> QED
  BY <1>1, <1>2, <1>3 DEF Sound, Partitioned, ParkedConverged, Converged, WarpStates

-----------------------------------------------------------------------------
(* Consequences                                                            *)

\* A warp with nothing to run has finished: resolve_stack returns false only for
\* a warp the scheduler will not poll again.
LEMMA DrainedFinished ==
    ASSUME NEW w, Sound(w), Drained(w)
    PROVE  Finished(w)
<1>1. w.live \in SUBSET Lanes /\ w.active = {} /\ DOMAIN w.stack = {}
  BY DEF Drained, Sound, WarpStates
<1> QED
  BY <1>1 DEF Sound, Partitioned, Partition, MasksCover, Finished

\* Deferred paths and the running path are disjoint non-empty sets of live lanes,
\* so there are no more of them than live lanes.
LEMMA StackDepth ==
    ASSUME NEW w, Sound(w)
    PROVE  Len(w.stack) + (IF w.active = {} THEN 0 ELSE 1) <= Cardinality(w.live)
<1> DEFINE s == w.stack
           n == Len(w.stack)
           waiting == w.live \ w.active
           f == [k \in 1..n |-> CHOOSE l \in s[k].mask : TRUE]
<1>1. /\ s \in Seq(Entries) /\ n \in Nat /\ DOMAIN s = 1..n
      /\ w.live \in SUBSET Lanes /\ w.active \in SUBSET Lanes
      /\ Partition(w.active, s, w.live)
  BY LenProperties DEF Sound, Partitioned, WarpStates
<1>2. IsFiniteSet(w.live) /\ IsFiniteSet(waiting) /\ Cardinality(w.live) \in Nat
  BY <1>1, SimtAssumption, FS_Subset, FS_CardinalityType
<1>3. \A k \in 1..n : f[k] \in s[k].mask
  BY <1>1 DEF Partition
<1>4. \A k \in 1..n : s[k].mask \subseteq waiting
  <2> SUFFICES ASSUME NEW k \in 1..n, NEW l \in s[k].mask PROVE l \in waiting
    OBVIOUS
  <2>1. s[k] \in Entries
    BY <1>1, ElementOfSeq
  <2>2. l \in Lanes
    BY <2>1 DEF Entries
  <2> QED
    BY <1>1, <2>2 DEF Partition, MasksDisjoint, MasksCover
<1>5. \A j, k \in 1..n : f[j] = f[k] => j = k
  BY <1>1, <1>3 DEF Partition, MasksDisjoint
<1>6. f \in [1..n -> waiting] /\ \A j, k \in DOMAIN f : f[j] = f[k] => j = k
  <2>1. f \in [1..n -> waiting]
    BY <1>3, <1>4
  <2>2. DOMAIN f = 1..n
    OBVIOUS
  <2> HIDE DEF f
  <2> QED
    BY <2>1, <2>2, <1>5
<1> HIDE DEF s, n, waiting, f
<1>7. f \in Injection(1..n, waiting)
  BY <1>6 DEF Injection, IsInjective
<1>8. n <= Cardinality(waiting)
  <2>1. Cardinality(1..n) <= Cardinality(waiting)
    BY <1>2, <1>7, FS_Injection
  <2>2. Cardinality(1..n) = n
    <3>1. n \in Int /\ 1 \in Int
      BY <1>1
    <3>2. Cardinality(1..n) = IF 1 > n THEN 0 ELSE n - 1 + 1
      BY <3>1, FS_Interval, Zenon
    <3> QED
      BY <1>1, <3>2
  <2> QED
    BY <2>1, <2>2
<1>9. CASE w.active = {}
  BY <1>8, <1>9, <1>2, <1>1, FS_Subset DEF n, waiting
<1>10. CASE w.active # {}
  <2>1. PICK l \in w.active : TRUE
    BY <1>10
  <2>2. l \in w.live
    BY <1>1, <2>1 DEF Partition, MasksCover
  <2>3. /\ IsFiniteSet(w.live \ {l})
        /\ Cardinality(w.live \ {l}) = Cardinality(w.live) - 1
    BY <1>2, <2>2, FS_RemoveElement
  <2>4. waiting \in SUBSET (w.live \ {l})
    BY <2>1 DEF waiting
  <2>5. Cardinality(waiting) <= Cardinality(w.live \ {l}) /\ Cardinality(waiting) \in Nat
    BY <1>2, <2>3, <2>4, FS_Subset, FS_CardinalityType
  <2>6. n + 1 <= Cardinality(w.live)
    <3>1. \A a, b, c \in Nat : a <= b /\ b <= c - 1 => a + 1 <= c
      OBVIOUS
    <3> QED
      BY <1>1, <1>2, <1>8, <2>3, <2>5, <3>1
  <2> QED
    BY <1>10, <2>6 DEF n
<1> QED
  BY <1>9, <1>10
=============================================================================
