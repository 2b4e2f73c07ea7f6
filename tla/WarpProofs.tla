----------------------------- MODULE WarpProofs -----------------------------
(***************************************************************************)
(* One warp, for every set of lanes and every program.  First its safety,  *)
(* whatever reconvergence PCs the branches carry, and that its lanes run   *)
(* the paths of LanePaths.  Then what the PCs the assembler records add:   *)
(* the paths stay nested, and a well-placed barrier is met (Assembled).    *)
(***************************************************************************)
EXTENDS Assembled, ControlProofs

\* The inductive invariant: the program is fixed and legal, the warp is sound,
\* and the fault is one that a step returns.
WarpInv ==
    /\ program \in Seq(Instructions)
    /\ Sound(warp)
    /\ fault \in {"none", "divergent barrier", "memory"}

LEMMA InitInv == Init => WarpInv
BY ProgramsAssumption, NewWarpSound DEF Init, WarpInv

LEMMA ProgramInstruction ==
    ASSUME WarpInv, NEW k \in DOMAIN program
    PROVE  program[k] \in Instructions
BY ElementOfSeq, LenProperties DEF WarpInv

LEMMA NextInv == WarpInv /\ [Next]_vars => WarpInv'
<1> SUFFICES ASSUME WarpInv, [Next]_vars
             PROVE  WarpInv'
  OBVIOUS
<1> USE DEF Become, Stepping
<1>1. Sound(warp)
  BY DEF WarpInv
<1>2. CASE Rejoin
  BY <1>1, <1>2, RejoinedSound DEF Rejoin, WarpInv
<1>3. CASE Resume
  BY <1>1, <1>3, ResumedSound DEF Resume, WarpInv
<1>4. CASE FallOffEnd
  BY <1>1, <1>4, RetireSound DEF FallOffEnd, WarpInv
<1>5. ASSUME NEW k \in DOMAIN program, Instruction(program[k])
      PROVE  WarpInv'
  <2> DEFINE i == program[k]
  <2>1. i \in Instructions
    BY ProgramInstruction
  <2> HIDE DEF i
  <2> USE DEF Issues
  <2>2. CASE Bra(i)
    BY <1>1, <2>1, <2>2, JumpedSound DEF Bra, WarpInv
  <2>3. CASE Diverge(i)
    BY <1>1, <2>1, <2>3, DivergedSound DEF Diverge, WarpInv
  <2>4. CASE Exit(i)
    BY <1>1, <2>4, ExitedSound DEF Exit, WarpInv
  <2>5. CASE BarSync(i)
    BY <1>1, <2>5, ParkedSound DEF BarSync, WarpInv
  <2>6. CASE Setp(i)
    BY <1>1, <2>1, <2>6, ComparedSound DEF Setp, WarpInv
  <2>7. CASE Other(i)
    BY <1>1, <2>7, AdvanceSound DEF Other, WarpInv
  <2>8. CASE Fault(i)
    BY <1>1, <2>8 DEF Fault, WarpInv
  <2> QED
    BY <1>5, <2>2, <2>3, <2>4, <2>5, <2>6, <2>7, <2>8 DEF Instruction, i
<1>6. CASE Release
  BY <1>1, <1>6, ReleasedSound DEF Release, WarpInv
<1>7. CASE Stopped
  BY <1>1, <1>7 DEF Stopped, WarpInv, vars
<1>8. CASE UNCHANGED vars
  BY <1>1, <1>8 DEF WarpInv, vars
<1> QED
  BY <1>2, <1>3, <1>4, <1>5, <1>6, <1>7, <1>8 DEF Next

\* The invariant holds in every reachable state.
THEOREM Invariance == Spec => []WarpInv
BY InitInv, NextInv, PTL DEF Spec

\* Type correctness: no PC leaves its 16 bits, no mask holds a lane that is not
\* of the warp.
THEOREM TypeCorrect == Spec => []TypeOK
<1>1. WarpInv => TypeOK
  BY DEF WarpInv, Sound, TypeOK
<1> QED
  BY <1>1, Invariance, PTL

\* No lane is lost, duplicated or resurrected by divergence and reconvergence,
\* whatever reconvergence PCs a program carries.
THEOREM LanesPartitioned == Spec => []LanePartition
<1>1. WarpInv => LanePartition
  BY DEF WarpInv, Sound, LanePartition
<1> QED
  BY <1>1, Invariance, PTL

\* A waiting warp is converged, so that its release resumes all its lanes.
THEOREM BarriersConverge == Spec => []BarrierConvergent
<1>1. WarpInv => BarrierConvergent
  BY DEF WarpInv, Sound, BarrierConvergent
<1> QED
  BY <1>1, Invariance, PTL

\* The divergence stack never has more entries than the warp has live lanes.
THEOREM StackBoundedByLanes == Spec => []StackBounded
<1>1. WarpInv => StackBounded
  BY StackDepth DEF WarpInv, StackBounded
<1> QED
  BY <1>1, Invariance, PTL

\* A warp with no path left to run has finished: the scheduler, which skips only
\* finished and parked warps, never polls a warp that has nothing to issue.
THEOREM NoLaneLeftBehind == Spec => [](Drained(warp) => Finished(warp))
<1>1. WarpInv => (Drained(warp) => Finished(warp))
  BY DrainedFinished DEF WarpInv
<1> QED
  BY <1>1, Invariance, PTL

-----------------------------------------------------------------------------
(* The stack is a stack                                                    *)

LEMMA PushKeeps ==
    ASSUME NEW s \in Seq(Entries), NEW e \in Entries
    PROVE  /\ Len(Append(s, e)) >= Len(s) - 1
           /\ \A k \in 1..Len(s) - 1 : Append(s, e)[k] = s[k]
BY AppendProperties, LenProperties

LEMMA RejoinedKeeps ==
    ASSUME NEW w, Sound(w), AtReconvergence(w)
    PROVE  /\ Len(Rejoined(w).stack) >= Len(w.stack) - 1
           /\ \A k \in 1..Len(w.stack) - 1 : Rejoined(w).stack[k] = w.stack[k]
<1> DEFINE t == Pop(w.stack)
           e == ArrivedEntry(Top(w.stack), w.active)
<1>1. w \in WarpStates /\ w.stack \in Seq(Entries) /\ w.stack # <<>>
      /\ w.active \in SUBSET Lanes
  BY DEF Sound, WarpStates, AtReconvergence
<1>2. /\ Len(w.stack) \in Nat \ {0} /\ t \in Seq(Entries)
      /\ Len(t) = Len(w.stack) - 1
      /\ \A k \in 1..Len(w.stack) - 1 : t[k] = w.stack[k]
  BY <1>1, PopStack
<1>3. e \in Entries
  BY <1>1, PopStack DEF ArrivedEntry, Entries
<1>4. Rejoined(w).stack = t \/ Rejoined(w).stack = Append(t, e)
  BY <1>1 DEF Rejoined, SwitchTo, Popped, WarpStates
<1> HIDE DEF t, e
<1>5. /\ Len(Append(t, e)) = Len(t) + 1
      /\ \A k \in 1..Len(t) : Append(t, e)[k] = t[k]
  BY <1>2, <1>3, AppendProperties
<1> QED
  BY <1>2, <1>4, <1>5

\* A step changes the stack at its top only: what a branch deferred stays as it
\* was deferred until the entry is the top again (warp.cpp:51-99).
THEOREM StackIsDisciplined == Spec => StackDiscipline
<1>1. WarpInv /\ [Next]_vars => [KeepsBelowTop]_vars
  <2> SUFFICES ASSUME WarpInv, Next PROVE KeepsBelowTop
    BY DEF vars
  <2> USE DEF Become, Stepping
  <2>1. Sound(warp) /\ warp \in WarpStates /\ warp.stack \in Seq(Entries)
        /\ Len(warp.stack) \in Nat
    BY LenProperties DEF WarpInv, Sound, WarpStates
  <2>2. CASE Rejoin
    BY <2>1, <2>2, RejoinedKeeps DEF Rejoin, KeepsBelowTop
  <2>3. CASE Resume
    <3>1. warp'.stack = Pop(warp.stack) /\ warp.stack # <<>>
      BY <2>1, <2>3 DEF Resume, Emptied, Resumed, SwitchTo, Popped, WarpStates
    <3> QED
      BY <2>1, <3>1, PopStack DEF KeepsBelowTop
  <2>4. ASSUME warp'.stack = warp.stack PROVE KeepsBelowTop
    BY <2>1, <2>4 DEF KeepsBelowTop
  <2>5. CASE FallOffEnd
    <3>1. warp'.stack = warp.stack
      BY <2>1, <2>5, RetireLeavesStack DEF FallOffEnd, Sound
    <3> QED
      BY <2>4, <3>1
  <2>6. ASSUME NEW k \in DOMAIN program, Instruction(program[k])
        PROVE  KeepsBelowTop
    <3> DEFINE i == program[k]
    <3>1. i \in Instructions
      BY ProgramInstruction
    <3>2. Advance(warp).stack = warp.stack
      BY <2>1 DEF Advance, WarpStates
    <3> HIDE DEF i
    <3>3. CASE Diverge(i)
      <4>1. Deferred(i, warp) \in Entries
        BY <2>1, <3>1, SuccessorType DEF Deferred, Entries, Instructions, WarpStates
      <4>2. warp'.stack = Append(warp.stack, Deferred(i, warp))
        BY <2>1, <3>3 DEF Diverge, Diverged, WarpStates
      <4> QED
        BY <2>1, <4>1, <4>2, PushKeeps DEF KeepsBelowTop
    <3>4. CASE Bra(i)
      BY <2>1, <2>4, <3>2, <3>4 DEF Bra, Jumped, WarpStates
    <3>5. CASE Exit(i)
      <4>1. Exec(i, warp) \in SUBSET warp.active
        BY DEF Exec
      <4>2. Retire(warp, Exec(i, warp)).stack = warp.stack
        BY <2>1, <4>1, RetireLeavesStack DEF Sound
      <4>3. warp'.stack = Retire(warp, Exec(i, warp)).stack
        BY <2>1, <3>5 DEF Exit, Exited, Advance, Retire, WarpStates
      <4> QED
        BY <2>4, <4>2, <4>3
    <3>6. CASE BarSync(i)
      BY <2>1, <2>4, <3>2, <3>6 DEF BarSync, Parked, Advance, WarpStates
    <3>7. CASE Setp(i)
      BY <2>1, <2>4, <3>2, <3>7 DEF Setp, Compared, Advance, WarpStates
    <3>8. CASE Other(i) \/ Fault(i)
      BY <2>4, <3>2, <3>8 DEF Other, Fault
    <3> QED
      BY <2>6, <3>3, <3>4, <3>5, <3>6, <3>7, <3>8 DEF Instruction, i
  <2>7. CASE Release \/ Stopped
    BY <2>1, <2>4, <2>7 DEF Release, Released, Stopped, vars, WarpStates
  <2> QED
    BY <2>2, <2>3, <2>5, <2>6, <2>7 DEF Next
<1> QED
  BY <1>1, Invariance, PTL DEF Spec, StackDiscipline

-----------------------------------------------------------------------------
(* The reconvergence counter                                               *)

\* The arrivals that the entries of a stack can still cause: two for a deferred
\* path, one for lanes that wait at their reconvergence point.
Pending(s) == Len(s) + Cardinality({k \in DOMAIN s : ~IsJoin(s[k])})

LEMMA LastPending ==
    ASSUME NEW s \in Seq(Entries), NEW t \in Seq(Entries), Len(t) = Len(s) + 1,
           \A k \in 1..Len(s) : t[k] = s[k]
    PROVE  /\ Pending(s) \in Nat
           /\ Pending(t) = Pending(s) + IF IsJoin(t[Len(t)]) THEN 1 ELSE 2
<1> DEFINE n == Len(s)
           S == {k \in DOMAIN s : ~IsJoin(s[k])}
           T == {k \in DOMAIN t : ~IsJoin(t[k])}
<1>1. n \in Nat /\ DOMAIN s = 1..n /\ DOMAIN t = 1..n + 1
  BY LenProperties
<1>2. S \subseteq 1..n /\ n + 1 \notin S
  BY <1>1
<1>3. IsFiniteSet(S) /\ Cardinality(S) \in Nat
  <2>1. IsFiniteSet(1..n)
    <3>1. n \in Int /\ 1 \in Int
      BY <1>1
    <3> QED
      BY <3>1, FS_Interval, Zenon
  <2> QED
    BY <1>2, <2>1, FS_Subset, FS_CardinalityType
<1>4. T = IF IsJoin(t[n + 1]) THEN S ELSE S \cup {n + 1}
  BY <1>1
<1>5. Cardinality(S \cup {n + 1}) = Cardinality(S) + 1
  BY <1>2, <1>3, FS_AddElement
<1>6. Pending(s) = n + Cardinality(S) /\ Pending(t) = n + 1 + Cardinality(T)
  BY DEF Pending
<1> HIDE DEF n, S, T
<1>7. Cardinality(T) = Cardinality(S) + IF IsJoin(t[n + 1]) THEN 0 ELSE 1
  BY <1>3, <1>4, <1>5
<1> QED
  BY <1>1, <1>3, <1>6, <1>7 DEF n

LEMMA PopPending ==
    ASSUME NEW s \in Seq(Entries), s # <<>>
    PROVE  /\ Pending(s) \in Nat /\ Pending(Pop(s)) \in Nat
           /\ Pending(s) = Pending(Pop(s)) + IF IsJoin(Top(s)) THEN 1 ELSE 2
<1> DEFINE t == Pop(s)
<1>1. /\ t \in Seq(Entries) /\ Len(s) \in Nat /\ Len(s) = Len(t) + 1
      /\ \A k \in 1..Len(t) : s[k] = t[k]
  BY PopStack
<1> HIDE DEF t
<1>2. Pending(t) \in Nat /\ Pending(s) = Pending(t) + IF IsJoin(s[Len(s)]) THEN 1 ELSE 2
  BY <1>1, LastPending
<1> QED
  BY <1>2 DEF t, Top

LEMMA PushPending ==
    ASSUME NEW s \in Seq(Entries), NEW e \in Entries
    PROVE  /\ Pending(s) \in Nat
           /\ Pending(Append(s, e)) = Pending(s) + IF IsJoin(e) THEN 1 ELSE 2
<1> DEFINE t == Append(s, e)
<1>1. /\ t \in Seq(Entries) /\ Len(t) = Len(s) + 1 /\ t[Len(t)] = e
      /\ \A k \in 1..Len(s) : t[k] = s[k]
  BY AppendProperties
<1> HIDE DEF t
<1>2. /\ Pending(s) \in Nat
      /\ Pending(t) = Pending(s) + IF IsJoin(t[Len(t)]) THEN 1 ELSE 2
  BY <1>1, LastPending
<1> QED
  BY <1>1, <1>2 DEF t

\* An arrival is counted once and is no longer pending.
LEMMA RejoinedCounts ==
    ASSUME NEW w, Sound(w), AtReconvergence(w)
    PROVE  /\ Rejoined(w).reconverged = w.reconverged + 1
           /\ Rejoined(w).divergent = w.divergent
           /\ Pending(w.stack) \in Nat
           /\ Pending(Rejoined(w).stack) = Pending(w.stack) - 1
<1> DEFINE t == Pop(w.stack)
           top == Top(w.stack)
           e == ArrivedEntry(top, w.active)
<1>1. w \in WarpStates /\ w.stack \in Seq(Entries) /\ w.stack # <<>>
      /\ w.active \in SUBSET Lanes /\ w.active # {}
  BY DEF Sound, WarpStates, AtReconvergence
<1>2. t \in Seq(Entries) /\ top \in Entries
  BY <1>1, PopStack
<1>3. e \in Entries /\ IsJoin(e)
  BY <1>1, <1>2 DEF ArrivedEntry, Entries, IsJoin
<1>4. /\ Rejoined(w).stack = IF IsJoin(top) THEN t ELSE Append(t, e)
      /\ Rejoined(w).reconverged = w.reconverged + 1
      /\ Rejoined(w).divergent = w.divergent
  BY <1>1 DEF Rejoined, SwitchTo, Popped, WarpStates
<1>5. /\ Pending(w.stack) \in Nat /\ Pending(t) \in Nat
      /\ Pending(w.stack) = Pending(t) + IF IsJoin(top) THEN 1 ELSE 2
  BY <1>1, PopPending
<1> HIDE DEF t, top, e
<1>6. Pending(Append(t, e)) = Pending(t) + 1
  BY <1>2, <1>3, PushPending
<1> QED
  BY <1>4, <1>5, <1>6

\* CounterBound, the inductive form.
Counted == warp.reconverged + Pending(warp.stack) <= 2 * warp.divergent

\* counters.md:15: reconvergence_events counts at most two arrivals per divergence,
\* never an arrival twice and none of a path that is resumed by rule 4
\* (warp.cpp:71-88).
THEOREM ArrivalsBounded == Spec => []CounterBound
<1>1. \A w \in WarpStates : /\ w.stack \in Seq(Entries)
                           /\ w.reconverged \in Nat /\ w.divergent \in Nat
  BY DEF WarpStates
<1>2. WarpInv => (CounterBound <=> Counted)
  <2> SUFFICES ASSUME WarpInv PROVE CounterBound <=> Counted
    OBVIOUS
  <2> DEFINE c == Cardinality({k \in DOMAIN warp.stack : ~IsJoin(warp.stack[k])})
  <2>1. warp \in WarpStates /\ Len(warp.stack) \in Nat
    BY <1>1, LenProperties DEF WarpInv, Sound
  <2>2. c \in Nat
    <3>1. IsFiniteSet(DOMAIN warp.stack)
      BY <1>1, <2>1, LenProperties, FS_Interval
    <3> QED
      BY <3>1, FS_Subset, FS_CardinalityType
  <2>3. /\ CounterBound <=> warp.reconverged + Len(warp.stack) + c <= 2 * warp.divergent
        /\ Pending(warp.stack) = Len(warp.stack) + c
    BY DEF CounterBound, Pending
  <2> HIDE DEF c
  <2> QED
    BY <1>1, <2>1, <2>2, <2>3 DEF Counted
<1>3. Init => Counted
  <2>1. Pending(<<>>) = 0
    <3>1. {k \in DOMAIN <<>> : ~IsJoin(<<>>[k])} = {}
      OBVIOUS
    <3> QED
      BY <3>1, FS_EmptySet DEF Pending
  <2> QED
    BY <2>1 DEF Init, NewWarp, Counted
<1>4. WarpInv /\ Counted /\ [Next]_vars => Counted'
  <2> SUFFICES ASSUME WarpInv, Counted, [Next]_vars PROVE Counted'
    OBVIOUS
  <2> USE DEF Become, Stepping, Counted
  <2>1. /\ Sound(warp) /\ warp \in WarpStates /\ warp.stack \in Seq(Entries)
        /\ warp.reconverged \in Nat /\ warp.divergent \in Nat
    BY <1>1 DEF WarpInv, Sound
  <2>2. ASSUME UNCHANGED <<warp.stack, warp.reconverged, warp.divergent>>
        PROVE  Counted'
    BY <2>2
  <2>3. CASE Rejoin
    BY <2>1, <2>3, RejoinedCounts DEF Rejoin
  <2>4. CASE Resume
    <3>1. /\ warp.stack # <<>> /\ warp'.stack = Pop(warp.stack)
          /\ UNCHANGED <<warp.reconverged, warp.divergent>>
      BY <2>1, <2>4 DEF Resume, Emptied, Resumed, SwitchTo, Popped, WarpStates
    <3>2. Pending(warp.stack) \in Nat /\ Pending(warp'.stack) \in Nat
          /\ Pending(warp'.stack) <= Pending(warp.stack)
      BY <2>1, <3>1, PopPending
    <3> QED
      BY <2>1, <3>1, <3>2
  <2>5. CASE FallOffEnd
    <3>1. warp'.stack = warp.stack
      BY <2>1, <2>5, RetireLeavesStack DEF FallOffEnd, Sound
    <3> QED
      BY <2>1, <2>2, <2>5, <3>1 DEF FallOffEnd, Retire, WarpStates
  <2>6. ASSUME NEW k \in DOMAIN program, Instruction(program[k])
        PROVE  Counted'
    <3> DEFINE i == program[k]
    <3>1. i \in Instructions
      BY ProgramInstruction
    <3> HIDE DEF i
    <3>2. CASE Diverge(i)
      <4>1. Deferred(i, warp) \in Entries
        BY <2>1, <3>1, SuccessorType DEF Deferred, Entries, Instructions, WarpStates
      <4>2. /\ warp'.stack = Append(warp.stack, Deferred(i, warp))
            /\ warp'.divergent = warp.divergent + 1
            /\ warp'.reconverged = warp.reconverged
        BY <2>1, <3>2 DEF Diverge, Diverged, WarpStates
      <4>3. /\ Pending(warp.stack) \in Nat /\ Pending(warp'.stack) \in Nat
            /\ Pending(warp'.stack) <= Pending(warp.stack) + 2
        BY <2>1, <4>1, <4>2, PushPending
      <4> QED
        BY <2>1, <4>2, <4>3
    <3>3. CASE Exit(i)
      <4>1. Retire(warp, Exec(i, warp)).stack = warp.stack
        BY <2>1, RetireLeavesStack DEF Sound, Exec
      <4>2. /\ warp'.stack = Retire(warp, Exec(i, warp)).stack
            /\ UNCHANGED <<warp.reconverged, warp.divergent>>
        BY <2>1, <3>3 DEF Exit, Exited, Advance, Retire, WarpStates
      <4> QED
        BY <2>2, <4>1, <4>2
    <3>4. CASE Bra(i) \/ BarSync(i) \/ Setp(i) \/ Other(i) \/ Fault(i)
      BY <2>1, <2>2, <3>4
      DEF Bra, BarSync, Setp, Other, Fault, Jumped, Parked, Compared, Advance, WarpStates
    <3> QED
      BY <2>6, <3>2, <3>3, <3>4 DEF Instruction, i
  <2>7. CASE Release \/ Stopped \/ UNCHANGED vars
    BY <2>1, <2>2, <2>7 DEF Release, Released, Stopped, vars, WarpStates
  <2> QED
    BY <2>3, <2>4, <2>5, <2>6, <2>7 DEF Next
<1>5. (WarpInv /\ Counted => CounterBound)
  BY <1>2
<1> QED
  BY <1>3, <1>4, <1>5, Invariance, PTL DEF Spec

-----------------------------------------------------------------------------
(* The PC of a lane                                                        *)

\* The lanes of a mask are at the PC the mask will run from.
LEMMA PathOf ==
    ASSUME NEW w, Sound(w), NEW l \in Lanes
    PROVE  /\ l \in w.active => LanePC(w)[l] = w.pc
           /\ \A k \in DOMAIN w.stack :
                  l \in w.stack[k].mask => LanePC(w)[l] = w.stack[k].resume
           /\ l \notin w.live => LanePC(w)[l] = -1
<1>1. l \in w.active => LanePC(w)[l] = w.pc
  BY DEF LanePC
<1>2. ASSUME NEW k \in DOMAIN w.stack, l \in w.stack[k].mask
      PROVE  LanePC(w)[l] = w.stack[k].resume
  <2>1. l \notin w.active
    BY <1>2 DEF Sound, Partitioned, Partition, MasksDisjoint
  <2>2. EntriesOf(w, l) = {k}
    BY <1>2 DEF EntriesOf, Sound, Partitioned, Partition, MasksDisjoint
  <2>3. (CHOOSE j \in EntriesOf(w, l) : TRUE) = k
    BY <2>2
  <2> QED
    BY <2>1, <2>2, <2>3 DEF LanePC
<1>3. l \notin w.live => LanePC(w)[l] = -1
  BY DEF LanePC, EntriesOf, Sound, Partitioned, Partition, MasksCover
<1> QED
  BY <1>1, <1>2, <1>3

\* A function that is right on every mask is LanePC.
LEMMA PathIs ==
    ASSUME NEW w, Sound(w), NEW f, f = [l \in Lanes |-> f[l]],
           \A l \in Lanes : l \in w.active => f[l] = w.pc,
           \A l \in Lanes : \A k \in DOMAIN w.stack :
               l \in w.stack[k].mask => f[l] = w.stack[k].resume,
           \A l \in Lanes : l \notin w.live => f[l] = -1
    PROVE  LanePC(w) = f
<1>1. ASSUME NEW l \in Lanes PROVE LanePC(w)[l] = f[l]
  <2>1. \/ l \in w.active
        \/ \E k \in DOMAIN w.stack : l \in w.stack[k].mask
        \/ l \notin w.live
    BY DEF Sound, Partitioned, Partition, MasksCover
  <2> QED
    BY <2>1, PathOf
<1>2. LanePC(w) = [l \in Lanes |-> LanePC(w)[l]]
  BY DEF LanePC
<1> HIDE DEF LanePC
<1> QED
  BY <1>1, <1>2

\* A lane has retired exactly if its PC says so.
LEMMA LiveLanes ==
    ASSUME NEW w, Sound(w)
    PROVE  w.live = {l \in Lanes : LanePC(w)[l] # -1}
<1>1. w.pc \in PC /\ \A k \in DOMAIN w.stack : w.stack[k].resume \in PC
  <2>1. w.stack \in Seq(Entries) /\ w.pc \in PC
    BY DEF Sound, WarpStates
  <2>2. \A k \in DOMAIN w.stack : w.stack[k] \in Entries
    BY <2>1, ElementOfSeq, LenProperties
  <2> QED
    BY <2>1, <2>2 DEF Entries
<1>2. -1 \notin PC
  BY IsaAssumption DEF PC
<1>3. w.live \subseteq Lanes
  BY DEF Sound, WarpStates
<1>4. ASSUME NEW l \in Lanes PROVE l \in w.live <=> LanePC(w)[l] # -1
  <2>1. l \in w.live <=> l \in w.active \/ \E k \in DOMAIN w.stack : l \in w.stack[k].mask
    BY DEF Sound, Partitioned, Partition, MasksCover
  <2> QED
    BY <1>1, <1>2, <2>1, PathOf
<1> QED
  BY <1>3, <1>4

-----------------------------------------------------------------------------
(* Switching paths moves no lane                                           *)

LEMMA LanePCFunction ==
    ASSUME NEW w
    PROVE  LanePC(w) = [l \in Lanes |-> LanePC(w)[l]]
BY DEF LanePC

LEMMA RejoinedPaths ==
    ASSUME NEW w, Sound(w), ~w.parked, AtReconvergence(w)
    PROVE  /\ LanePC(Rejoined(w)) = LanePC(w)
           /\ Rejoined(w).preds = w.preds /\ ~Rejoined(w).parked
<1> DEFINE e == Top(w.stack)
           t == Pop(w.stack)
           n == Len(w.stack)
           r == Rejoined(w)
           f == LanePC(w)
           g == ArrivedEntry(e, w.active)
<1>1. w \in WarpStates /\ w.stack \in Seq(Entries) /\ w.stack # <<>> /\ e.rpc = w.pc
  BY DEF Sound, WarpStates, AtReconvergence
<1>2. /\ n \in Nat \ {0} /\ DOMAIN w.stack = 1..n /\ DOMAIN t = 1..n - 1
      /\ e = w.stack[n] /\ e \in Entries /\ t \in Seq(Entries)
      /\ \A k \in 1..n - 1 : t[k] = w.stack[k]
      /\ Len(t) = n - 1
  BY <1>1, PopStack, LenProperties DEF Top
<1>3. Sound(r) /\ ~r.parked
  BY RejoinedSound
<1>4. f = [l \in Lanes |-> f[l]]
  BY LanePCFunction
<1>5. \A l \in Lanes : l \in w.active => f[l] = w.pc
  BY PathOf
<1>6. \A l \in Lanes : \A k \in 1..n : l \in w.stack[k].mask => f[l] = w.stack[k].resume
  BY <1>2, PathOf
<1>7. \A l \in Lanes : l \notin w.live => f[l] = -1
  BY PathOf
<1>8. CASE IsJoin(e)
  <2>1. /\ r.active = w.active \cup e.mask /\ r.pc = e.rpc /\ r.stack = t
        /\ r.live = w.live /\ r.preds = w.preds
    BY <1>1, <1>8 DEF Rejoined, SwitchTo, Popped, WarpStates
  <2> HIDE DEF e, t, n, r, f
  <2>2. \A l \in Lanes : l \in r.active => f[l] = r.pc
    BY <1>1, <1>2, <1>5, <1>6, <1>8, <2>1 DEF IsJoin
  <2>3. \A l \in Lanes : \A k \in DOMAIN r.stack :
            l \in r.stack[k].mask => f[l] = r.stack[k].resume
    BY <1>2, <1>6, <2>1
  <2>4. LanePC(r) = f
    BY <1>3, <1>4, <1>7, <2>1, <2>2, <2>3, PathIs
  <2> QED
    BY <1>3, <2>1, <2>4 DEF r, f
<1>9. CASE ~IsJoin(e)
  <2>1. w.active # {}
    BY DEF AtReconvergence
  <2>2. /\ r.active = e.mask /\ r.pc = e.resume /\ r.stack = Append(t, g)
        /\ r.live = w.live /\ r.preds = w.preds
    BY <1>1, <1>9, <2>1 DEF Rejoined, SwitchTo, Popped, WarpStates
  <2>3. g \in Entries /\ g.mask = w.active /\ g.resume = w.pc
    BY <1>1, <1>2 DEF ArrivedEntry, Entries, WarpStates
  <2> HIDE DEF g, e, t, r, f
  <2>4. /\ DOMAIN r.stack = 1..(n - 1) + 1
        /\ \A k \in 1..n - 1 : r.stack[k] = t[k]
        /\ r.stack[(n - 1) + 1] = g
    BY <1>2, <2>2, <2>3, PushStack
  <2> HIDE DEF n
  <2>5. \A l \in Lanes : l \in r.active => f[l] = r.pc
    BY <1>2, <1>6, <2>2
  <2>6. ASSUME NEW l \in Lanes, NEW k \in DOMAIN r.stack, l \in r.stack[k].mask
        PROVE  f[l] = r.stack[k].resume
    <3>1. CASE k \in 1..n - 1
      BY <1>2, <1>6, <2>4, <2>6, <3>1
    <3>2. CASE k = (n - 1) + 1
      BY <1>5, <2>3, <2>4, <2>6, <3>2
    <3> QED
      BY <1>2, <2>4, <3>1, <3>2
  <2>7. LanePC(r) = f
    BY <1>3, <1>4, <1>7, <2>2, <2>5, <2>6, PathIs
  <2> QED
    BY <1>3, <2>2, <2>7 DEF r, f
<1> QED
  BY <1>8, <1>9

LEMMA ResumedPaths ==
    ASSUME NEW w, Sound(w), ~w.parked, Emptied(w)
    PROVE  /\ LanePC(Resumed(w)) = LanePC(w)
           /\ Resumed(w).preds = w.preds /\ ~Resumed(w).parked
<1> DEFINE e == Top(w.stack)
           t == Pop(w.stack)
           n == Len(w.stack)
           r == Resumed(w)
           f == LanePC(w)
<1>1. w \in WarpStates /\ w.stack \in Seq(Entries) /\ w.stack # <<>>
  BY DEF Sound, WarpStates, Emptied
<1>2. /\ n \in Nat \ {0} /\ DOMAIN w.stack = 1..n /\ DOMAIN t = 1..n - 1
      /\ e = w.stack[n]
      /\ \A k \in 1..n - 1 : t[k] = w.stack[k]
  BY <1>1, PopStack, LenProperties DEF Top
<1>3. Sound(r) /\ ~r.parked
  BY ResumedSound
<1>4. f = [l \in Lanes |-> f[l]]
  BY LanePCFunction
<1>5. \A l \in Lanes : \A k \in 1..n : l \in w.stack[k].mask => f[l] = w.stack[k].resume
  BY <1>2, PathOf
<1>6. \A l \in Lanes : l \notin w.live => f[l] = -1
  BY PathOf
<1>7. /\ r.active = e.mask /\ r.pc = e.resume /\ r.stack = t
      /\ r.live = w.live /\ r.preds = w.preds
  BY <1>1 DEF Resumed, SwitchTo, Popped, IsJoin, WarpStates
<1> HIDE DEF e, t, n, r, f
<1>8. \A l \in Lanes : l \in r.active => f[l] = r.pc
  BY <1>2, <1>5, <1>7
<1>9. \A l \in Lanes : \A k \in DOMAIN r.stack :
          l \in r.stack[k].mask => f[l] = r.stack[k].resume
  BY <1>2, <1>5, <1>7
<1>10. LanePC(r) = f
  BY <1>3, <1>4, <1>6, <1>7, <1>8, <1>9, PathIs
<1> QED
  BY <1>3, <1>7, <1>10 DEF r, f

-----------------------------------------------------------------------------
(* Instructions move the active lanes                                      *)

\* An instruction that retires the lanes x of the active mask and leaves the
\* others together.
LEMMA IssuedPaths ==
    ASSUME NEW w, Sound(w), NEW v, Sound(v), NEW x \in SUBSET w.active,
           v.stack = w.stack, v.active = w.active \ x, v.live = w.live \ x
    PROVE  LanePC(v) = [l \in Lanes |->
               IF l \in w.active THEN IF l \in x THEN -1 ELSE v.pc ELSE LanePC(w)[l]]
<1> DEFINE f == [l \in Lanes |->
               IF l \in w.active THEN IF l \in x THEN -1 ELSE v.pc ELSE LanePC(w)[l]]
<1>1. f = [l \in Lanes |-> f[l]]
  OBVIOUS
<1>2. \A l \in Lanes : l \in v.active => f[l] = v.pc
  OBVIOUS
<1>3. ASSUME NEW l \in Lanes, NEW k \in DOMAIN v.stack, l \in v.stack[k].mask
      PROVE  f[l] = v.stack[k].resume
  <2>1. l \notin w.active
    BY <1>3 DEF Sound, Partitioned, Partition, MasksDisjoint
  <2> QED
    BY <1>3, <2>1, PathOf
<1>4. ASSUME NEW l \in Lanes, l \notin v.live PROVE f[l] = -1
  <2>1. CASE l \in x
    BY <2>1
  <2>2. CASE l \notin x
    <3>1. l \notin w.live /\ l \notin w.active
      BY <1>4, <2>2 DEF Sound, Partitioned, Partition, MasksCover
    <3> QED
      BY <3>1, PathOf
  <2> QED
    BY <2>1, <2>2
<1> HIDE DEF f
<1>5. LanePC(v) = f
  BY <1>1, <1>2, <1>3, <1>4, PathIs
<1> QED
  BY <1>5 DEF f

\* An instruction that retires no lane.
LEMMA SteppedPaths ==
    ASSUME NEW w, Sound(w), NEW v, Sound(v),
           v.stack = w.stack, v.active = w.active, v.live = w.live
    PROVE  LanePC(v) = [l \in Lanes |-> IF l \in w.active THEN v.pc ELSE LanePC(w)[l]]
<1> DEFINE x == {}
<1>1. x \in SUBSET w.active /\ v.active = w.active \ x /\ v.live = w.live \ x
  OBVIOUS
<1>2. \A l \in Lanes : l \notin x
  OBVIOUS
<1> HIDE DEF x
<1>3. LanePC(v) = [l \in Lanes |->
          IF l \in w.active THEN IF l \in x THEN -1 ELSE v.pc ELSE LanePC(w)[l]]
  BY <1>1, IssuedPaths
<1> QED
  BY <1>2, <1>3

\* Rule 2: a lane goes where its guard sends it, deferred or not.
LEMMA DivergedPaths ==
    ASSUME NEW w, Sound(w), ~w.parked, NEW i \in Instructions, Splits(i, w)
    PROVE  LanePC(Diverged(i, w)) = [l \in Lanes |->
               IF l \in w.active
               THEN IF l \in Exec(i, w) THEN i.target ELSE Successor(w.pc)
               ELSE LanePC(w)[l]]
<1> DEFINE v == Diverged(i, w)
           n == Len(w.stack)
           e == Deferred(i, w)
           x == Exec(i, w)
           f == [l \in Lanes |->
                    IF l \in w.active THEN IF l \in x THEN i.target ELSE Successor(w.pc)
                    ELSE LanePC(w)[l]]
<1>1. w \in WarpStates /\ w.stack \in Seq(Entries)
  BY DEF Sound, WarpStates
<1>2. /\ v.stack = Append(w.stack, e) /\ v.active = x /\ v.pc = i.target
      /\ v.live = w.live
  BY <1>1 DEF Diverged, WarpStates
<1>3. e.mask = w.active \ x /\ e.resume = Successor(w.pc) /\ x \subseteq w.active
  BY DEF Deferred, Exec
<1>4. e \in Entries
  BY <1>1, <1>3, SuccessorType DEF Deferred, Entries, Instructions, WarpStates
<1>5. Sound(v)
  BY DivergedSound
<1>6. /\ n \in Nat /\ DOMAIN w.stack = 1..n /\ DOMAIN v.stack = 1..n + 1
      /\ \A k \in 1..n : v.stack[k] = w.stack[k]
      /\ v.stack[n + 1] = e
  BY <1>1, <1>2, <1>4, PushStack, LenProperties
<1> HIDE DEF v, n, e, x
<1>7. f = [l \in Lanes |-> f[l]]
  OBVIOUS
<1>8. \A l \in Lanes : l \in v.active => f[l] = v.pc
  BY <1>2, <1>3
<1>9. ASSUME NEW l \in Lanes, NEW k \in DOMAIN v.stack, l \in v.stack[k].mask
      PROVE  f[l] = v.stack[k].resume
  <2>1. CASE k \in 1..n
    <3>1. l \in w.stack[k].mask /\ k \in DOMAIN w.stack
      BY <1>6, <1>9, <2>1
    <3>2. l \notin w.active
      BY <3>1 DEF Sound, Partitioned, Partition, MasksDisjoint
    <3> QED
      BY <1>6, <2>1, <3>1, <3>2, PathOf
  <2>2. CASE k = n + 1
    BY <1>3, <1>6, <1>9, <2>2
  <2> QED
    BY <1>6, <2>1, <2>2
<1>10. ASSUME NEW l \in Lanes, l \notin v.live PROVE f[l] = -1
  <2>1. l \notin w.live /\ l \notin w.active
    BY <1>2, <1>10 DEF Sound, Partitioned, Partition, MasksCover
  <2> QED
    BY <2>1, PathOf
<1> HIDE DEF f
<1>11. LanePC(v) = f
  BY <1>5, <1>7, <1>8, <1>9, <1>10, PathIs
<1> QED
  BY <1>11 DEF f, v, x

-----------------------------------------------------------------------------
(* The refinement                                                          *)

LEMMA NewWarpPaths ==
    ASSUME NEW live \in SUBSET Lanes
    PROVE  LanePC(NewWarp(live)) = [l \in Lanes |-> IF l \in live THEN 0 ELSE -1]
<1> DEFINE w == NewWarp(live)
<1>1. w.pc = 0 /\ w.active = live /\ DOMAIN w.stack = {}
  BY DEF NewWarp
<1> HIDE DEF w
<1>2. LanePC(w) = [l \in Lanes |-> IF l \in live THEN 0 ELSE -1]
  BY <1>1 DEF LanePC, EntriesOf
<1> QED
  BY <1>2 DEF w

LEMMA InitImplements == Init => Paths!Init
<1> SUFFICES ASSUME Init PROVE Paths!Init
  OBVIOUS
<1>1. PICK live \in (SUBSET Lanes) \ {{}} : warp = NewWarp(live)
  BY DEF Init
<1>2. LanePC(warp) = [l \in Lanes |-> IF l \in live THEN 0 ELSE Paths!Retired]
  BY <1>1, NewWarpPaths DEF Paths!Retired
<1>3. warp.preds = [l \in Lanes |-> {}] /\ warp.parked = FALSE
  BY <1>1 DEF NewWarp
<1> QED
  BY <1>1, <1>2, <1>3 DEF Init, Paths!Init

\* What an issued instruction finds: the active lanes are a group at it, and its
\* guard holds on the lanes it executes on.
LEMMA IssueGroup ==
    ASSUME WarpInv, NEW k \in DOMAIN program, Issues(program[k])
    PROVE  /\ program[k] \in Instructions
           /\ warp \in WarpStates
           /\ warp.active \in SUBSET Paths!Running
           /\ Paths!At(warp.active, program[k])
           /\ Paths!Successor(warp.pc) = Successor(warp.pc)
           /\ \A l \in warp.active : LanePC(warp)[l] = warp.pc
           /\ \A l \in warp.active :
                  l \in Exec(program[k], warp) <=> Paths!Guarded(program[k], l)
<1> DEFINE i == program[k]
<1>1. i \in Instructions
  BY ProgramInstruction
<1>2. /\ warp \in WarpStates /\ warp.pc \in PC
      /\ warp.active \in SUBSET Lanes /\ warp.active # {}
  BY DEF WarpInv, Sound, WarpStates, Issues, Settled
<1>3. \A l \in warp.active : LanePC(warp)[l] = warp.pc
  BY <1>2, PathOf DEF WarpInv
<1>4. -1 \notin PC
  BY IsaAssumption DEF PC
<1>5. warp.active \in SUBSET Paths!Running
  BY <1>2, <1>3, <1>4 DEF Paths!Running, Paths!Retired
<1>6. Paths!Group(warp.active, warp.pc)
  BY <1>2, <1>3 DEF Paths!Group, Issues, Stepping
<1>7. Paths!At(warp.active, i)
  <2>1. warp.pc \in Paths!PC
    BY <1>2 DEF PC, Paths!PC
  <2> QED
    BY <1>6, <2>1 DEF Paths!At, Issues
<1>8. Paths!Successor(warp.pc) = Successor(warp.pc)
  BY DEF Paths!Successor, Successor
<1>9. \A l \in warp.active : l \in Exec(i, warp) <=> Paths!Guarded(i, l)
  BY <1>1 DEF Exec, Holds, Paths!Guarded, Instructions, Guards
<1> QED
  BY <1>1, <1>2, <1>3, <1>5, <1>7, <1>8, <1>9

\* One instruction of the warp is one step of the lanes at it.
LEMMA InstructionImplements ==
    ASSUME WarpInv, NEW k \in DOMAIN program, Instruction(program[k])
    PROVE  Paths!Next
<1> DEFINE i == program[k]
           S == warp.active
           v == warp'
<1>1. Issues(i)
  BY DEF Instruction, Bra, Diverge, Exit, BarSync, Setp, Other, Fault
<1>2. /\ i \in Instructions /\ warp \in WarpStates
      /\ S \in SUBSET Paths!Running /\ Paths!At(S, i)
      /\ Paths!Successor(warp.pc) = Successor(warp.pc)
      /\ \A l \in S : LanePC(warp)[l] = warp.pc
      /\ \A l \in S : l \in Exec(i, warp) <=> Paths!Guarded(i, l)
  BY <1>1, IssueGroup
<1>3. Sound(warp) /\ ~warp.parked
  BY <1>1 DEF WarpInv, Issues, Stepping
<1>4. Advance(warp) = [warp EXCEPT !.pc = Successor(warp.pc)] /\ Sound(Advance(warp))
  BY <1>2, <1>3, AdvanceSound DEF Advance, WarpStates
\* Any of the actions of S is a step.
<1>5. SUFFICES \/ Paths!Bra(S, i) \/ Paths!Exit(S, i) \/ Paths!BarSync(S, i)
               \/ Paths!Setp(S, i) \/ Paths!Other(S, i) \/ Paths!Fault(S, i)
  BY <1>2 DEF Paths!Next
\* A step over the instruction.
<1>6. ASSUME Sound(v), v.stack = warp.stack, v.active = warp.active,
             v.live = warp.live, v.pc = Successor(warp.pc), UNCHANGED <<program, fault>>
      PROVE  Paths!StepOver(S)
  <2>1. LanePC(v) = [l \in Lanes |-> IF l \in S THEN Successor(warp.pc) ELSE LanePC(warp)[l]]
    BY <1>3, <1>6, SteppedPaths
  <2> QED
    BY <1>2, <1>6, <2>1 DEF Paths!StepOver, Paths!Move
\* Every lane of S moves as its guard says.
<1>7. CASE Bra(i)
  <2>1. v = Jumped(i, warp) /\ UNCHANGED <<program, fault>> /\ Sound(v)
    BY <1>2, <1>3, <1>7, JumpedSound DEF Bra, Become
  <2>2. CASE i.guard.present /\ Exec(i, warp) = {}
    <3>1. v = [warp EXCEPT !.pc = Successor(warp.pc)]
      BY <1>4, <2>1, <2>2 DEF Jumped
    <3>2. Paths!StepOver(S) /\ v.preds = warp.preds /\ v.parked = warp.parked
      BY <1>2, <1>6, <2>1, <3>1 DEF WarpStates
    <3>3. \A l \in S : ~Paths!Guarded(i, l)
      BY <1>2, <2>2
    <3>4. [l \in S |-> IF Paths!Guarded(i, l) THEN i.target ELSE Paths!Successor(LanePC(warp)[l])]
            = [l \in S |-> Paths!Successor(LanePC(warp)[l])]
      BY <3>3
    <3>5. Paths!Bra(S, i)
      BY <1>2, <1>7, <3>2, <3>4 DEF Paths!Bra, Paths!StepOver, Bra
    <3> QED
      BY <1>5, <3>5
  <2>3. CASE ~(i.guard.present /\ Exec(i, warp) = {})
    <3>1. v = [warp EXCEPT !.pc = i.target]
      BY <2>1, <2>3 DEF Jumped
    <3>2. /\ v.stack = warp.stack /\ v.active = warp.active /\ v.live = warp.live
          /\ v.pc = i.target /\ v.preds = warp.preds /\ v.parked = warp.parked
      BY <1>2, <3>1 DEF WarpStates
    <3>3. Exec(i, warp) = warp.active
      BY <1>7, <2>3 DEF Bra, Splits, Exec
    <3>4. \A l \in S : Paths!Guarded(i, l)
      BY <1>2, <3>3
    <3>5. LanePC(v) = [l \in Lanes |-> IF l \in S THEN i.target ELSE LanePC(warp)[l]]
      BY <1>3, <2>1, <3>2, SteppedPaths
    <3>6. Paths!Move(S, [l \in S |->
              IF Paths!Guarded(i, l) THEN i.target ELSE Paths!Successor(LanePC(warp)[l])])
      BY <2>1, <3>4, <3>5 DEF Paths!Move
    <3>7. Paths!Bra(S, i)
      BY <1>2, <1>7, <3>2, <3>6 DEF Paths!Bra, Bra
    <3> QED
      BY <1>5, <3>7
  <2> QED
    BY <2>2, <2>3
<1>8. CASE Diverge(i)
  <2>1. v = Diverged(i, warp) /\ UNCHANGED <<program, fault>> /\ Splits(i, warp)
    BY <1>8 DEF Diverge, Become
  <2>2. v.preds = warp.preds /\ v.parked = warp.parked
    BY <1>2, <2>1 DEF Diverged, WarpStates
  <2>3. LanePC(v) = [l \in Lanes |->
            IF l \in S THEN IF l \in Exec(i, warp) THEN i.target ELSE Successor(warp.pc)
            ELSE LanePC(warp)[l]]
    BY <1>2, <1>3, <2>1, DivergedPaths
  <2>4. Paths!Move(S, [l \in S |->
            IF Paths!Guarded(i, l) THEN i.target ELSE Paths!Successor(LanePC(warp)[l])])
    BY <1>2, <2>1, <2>3 DEF Paths!Move
  <2>5. Paths!Bra(S, i)
    BY <1>2, <1>8, <2>2, <2>4 DEF Paths!Bra, Diverge
  <2> QED
    BY <1>5, <2>5
<1>9. CASE Exit(i)
  <2> DEFINE x == Exec(i, warp)
  <2>1. v = Exited(i, warp) /\ UNCHANGED <<program, fault>> /\ Sound(v)
    BY <1>3, <1>9, ExitedSound DEF Exit, Become
  <2>2. x \in SUBSET warp.active
    BY DEF Exec
  <2>3. Retire(warp, x).stack = warp.stack
    BY <1>2, <1>3, <2>2, RetireLeavesStack DEF Sound
  <2>4. Retire(warp, x) = [warp EXCEPT !.live = warp.live \ x, !.active = warp.active \ x]
    BY <1>2, <2>3 DEF Retire, WarpStates
  <2>5. v = [warp EXCEPT !.live = warp.live \ x, !.active = warp.active \ x,
                         !.pc = Successor(warp.pc)]
    BY <1>2, <2>1, <2>4 DEF Exited, Advance, WarpStates
  <2>6. /\ v.stack = warp.stack /\ v.active = warp.active \ x /\ v.live = warp.live \ x
        /\ v.pc = Successor(warp.pc) /\ v.preds = warp.preds /\ v.parked = warp.parked
    BY <1>2, <2>5 DEF WarpStates
  <2>7. LanePC(v) = [l \in Lanes |->
            IF l \in S THEN IF l \in x THEN -1 ELSE v.pc ELSE LanePC(warp)[l]]
    BY <1>3, <2>1, <2>2, <2>6, IssuedPaths
  <2>8. Paths!Move(S, [l \in S |->
            IF Paths!Guarded(i, l) THEN Paths!Retired ELSE Paths!Successor(LanePC(warp)[l])])
    BY <1>2, <2>1, <2>6, <2>7 DEF Paths!Move, Paths!Retired
  <2>9. Paths!Exit(S, i)
    BY <1>2, <1>9, <2>6, <2>8 DEF Paths!Exit, Exit
  <2> QED
    BY <1>5, <2>9
<1>10. CASE BarSync(i)
  <2>1. v = Parked(warp) /\ UNCHANGED <<program, fault>> /\ warp.active = warp.live
    BY <1>10 DEF BarSync, Become, BarrierFaults
  <2>2. Sound(v)
    BY <1>3, <1>10, <2>1, ParkedSound DEF BarSync
  <2>3. v = [warp EXCEPT !.pc = Successor(warp.pc), !.parked = TRUE]
    BY <1>2, <1>4, <2>1 DEF Parked, WarpStates
  <2>4. Paths!StepOver(S) /\ v.preds = warp.preds /\ v.parked = TRUE
    BY <1>2, <1>6, <2>1, <2>2, <2>3 DEF WarpStates
  <2>5. S = Paths!Running
    BY <1>3, <2>1, LiveLanes DEF Paths!Running, Paths!Retired
  <2>6. Paths!BarSync(S, i)
    BY <1>2, <1>10, <2>4, <2>5 DEF Paths!BarSync, BarSync
  <2> QED
    BY <1>5, <2>6
<1>11. CASE Setp(i)
  <2>1. PICK true \in SUBSET Exec(i, warp) : v = Compared(i, warp, true)
    BY <1>11 DEF Setp, Become
  <2>2. Sound(v) /\ UNCHANGED <<program, fault>>
    BY <1>2, <1>3, <1>11, <2>1, ComparedSound DEF Setp, Become
  <2> DEFINE preds == [l \in Lanes |-> IF l \notin Exec(i, warp) THEN warp.preds[l]
                                       ELSE IF l \in true THEN warp.preds[l] \cup {i.dst}
                                       ELSE warp.preds[l] \ {i.dst}]
  <2>3. v = [warp EXCEPT !.pc = Successor(warp.pc), !.preds = preds]
    BY <1>2, <1>4, <2>1 DEF Compared, WarpStates
  <2>4. v.preds = preds
    BY <1>2, <2>3 DEF WarpStates
  <2>5. Paths!StepOver(S) /\ v.parked = warp.parked
    <3> HIDE DEF preds
    <3> QED
      BY <1>2, <1>6, <2>2, <2>3 DEF WarpStates
  <2>6. preds = [l \in Lanes |-> IF ~(l \in S /\ Paths!Guarded(i, l)) THEN warp.preds[l]
                                 ELSE IF l \in true THEN warp.preds[l] \cup {i.dst}
                                 ELSE warp.preds[l] \ {i.dst}]
    <3>1. \A l \in Lanes : l \in Exec(i, warp) <=> l \in S /\ Paths!Guarded(i, l)
      BY <1>2 DEF Exec
    <3> QED
      BY <3>1
  <2>7. true \in SUBSET S
    BY DEF Exec
  <2> HIDE DEF preds
  <2>8. Paths!Setp(S, i)
    BY <1>2, <1>11, <2>4, <2>5, <2>6, <2>7 DEF Paths!Setp, Setp
  <2> QED
    BY <1>5, <2>8
<1>12. CASE Other(i)
  <2>1. v = [warp EXCEPT !.pc = Successor(warp.pc)] /\ Sound(v) /\ UNCHANGED <<program, fault>>
    BY <1>4, <1>12 DEF Other, Become
  <2>2. Paths!StepOver(S) /\ v.preds = warp.preds /\ v.parked = warp.parked
    BY <1>2, <1>6, <2>1 DEF WarpStates
  <2>3. Paths!Other(S, i)
    BY <1>2, <1>12, <2>2 DEF Paths!Other, Other
  <2> QED
    BY <1>5, <2>3
<1>13. CASE Fault(i)
  <2>1. S = Paths!Running <=> warp.active = warp.live
    BY <1>3, LiveLanes DEF Paths!Running, Paths!Retired
  <2>2. Exec(i, warp) # {} => \E l \in S : Paths!Guarded(i, l)
    <3>1. Exec(i, warp) \subseteq S
      BY DEF Exec
    <3> QED
      BY <1>2, <3>1
  <2>3. \/ i.op = "bar.sync" /\ S # Paths!Running /\ fault' = "divergent barrier"
        \/ i.op = "memory" /\ (\E l \in S : Paths!Guarded(i, l)) /\ fault' = "memory"
    BY <1>13, <2>1, <2>2 DEF Fault, BarrierFaults
  <2>4. Paths!Fault(S, i)
    BY <1>2, <1>13, <2>3 DEF Paths!Fault, Fault
  <2> QED
    BY <1>5, <2>4
<1> QED
  BY <1>7, <1>8, <1>9, <1>10, <1>11, <1>12, <1>13 DEF Instruction

\* Falling off the end retires a group; the other transitions move no lane.
LEMMA NextImplements == WarpInv /\ [Next]_vars => [Paths!Next]_(Paths!vars)
<1> SUFFICES ASSUME WarpInv, [Next]_vars
             PROVE  Paths!Next \/ UNCHANGED Paths!vars
  OBVIOUS
<1> USE DEF Become, Stepping, Paths!vars
<1>1. Sound(warp) /\ warp \in WarpStates
  BY DEF WarpInv, Sound
<1>2. CASE Rejoin
  <2>1. /\ LanePC(warp') = LanePC(warp) /\ warp'.preds = warp.preds
        /\ Sound(warp') /\ ~warp'.parked /\ ~warp.parked /\ UNCHANGED <<program, fault>>
    BY <1>1, <1>2, RejoinedPaths, RejoinedSound DEF Rejoin
  <2>2. warp'.parked = warp.parked
    BY <1>1, <2>1 DEF Sound, WarpStates
  <2> QED
    BY <2>1, <2>2
<1>3. CASE Resume
  <2>1. /\ LanePC(warp') = LanePC(warp) /\ warp'.preds = warp.preds
        /\ Sound(warp') /\ ~warp'.parked /\ ~warp.parked /\ UNCHANGED <<program, fault>>
    BY <1>1, <1>3, ResumedPaths, ResumedSound DEF Resume
  <2>2. warp'.parked = warp.parked
    BY <1>1, <2>1 DEF Sound, WarpStates
  <2> QED
    BY <2>1, <2>2
<1>4. CASE FallOffEnd
  <2> DEFINE S == warp.active
             v == warp'
  <2>1. /\ v = Retire(warp, S) /\ UNCHANGED <<program, fault>>
        /\ S # {} /\ warp.pc >= Len(program) /\ fault = "none" /\ ~warp.parked
    BY <1>4 DEF FallOffEnd, Settled
  <2>2. Sound(v) /\ S \in SUBSET S /\ S \in SUBSET Lanes
    BY <1>1, <2>1, RetireSound DEF WarpStates
  <2>3. v.stack = warp.stack
    BY <1>1, <2>1, <2>2, RetireLeavesStack DEF Sound
  <2>4. /\ v.active = warp.active \ S /\ v.live = warp.live \ S
        /\ v.preds = warp.preds /\ v.parked = warp.parked
    BY <1>1, <2>1 DEF Retire, WarpStates
  <2>5. LanePC(v) = [l \in Lanes |->
            IF l \in S THEN IF l \in S THEN -1 ELSE v.pc ELSE LanePC(warp)[l]]
    BY <1>1, <2>2, <2>3, <2>4, IssuedPaths
  <2>6. \A l \in S : LanePC(warp)[l] = warp.pc
    BY <1>1, <2>2, PathOf
  <2>7. warp.pc \in Paths!PC /\ -1 \notin Paths!PC
    BY <1>1, IsaAssumption DEF WarpStates, PC, Paths!PC
  <2>8. S \in SUBSET Paths!Running
    BY <2>2, <2>6, <2>7 DEF Paths!Running, Paths!Retired
  <2>9. Paths!Move(S, [l \in S |-> Paths!Retired])
    BY <2>1, <2>5 DEF Paths!Move, Paths!Retired
  <2>10. Paths!FallOffEnd(S)
    BY <2>1, <2>4, <2>6, <2>7, <2>9 DEF Paths!FallOffEnd, Paths!Group
  <2> QED
    BY <2>8, <2>10 DEF Paths!Next
<1>5. CASE \E k \in DOMAIN program : Instruction(program[k])
  BY <1>5, InstructionImplements
<1>6. CASE Release
  <2>1. /\ warp' = [warp EXCEPT !.parked = FALSE] /\ UNCHANGED <<program, fault>>
        /\ fault = "none" /\ warp.parked
    BY <1>6 DEF Release, Released
  <2>2. /\ warp'.active = warp.active /\ warp'.stack = warp.stack /\ warp'.pc = warp.pc
        /\ warp'.preds = warp.preds /\ warp'.parked = FALSE
    BY <1>1, <2>1 DEF WarpStates
  <2>3. LanePC(warp') = LanePC(warp)
    BY <2>2 DEF LanePC, EntriesOf
  <2>4. Paths!Release
    BY <2>1, <2>2, <2>3 DEF Paths!Release
  <2> QED
    BY <2>4 DEF Paths!Next
<1>7. CASE Stopped \/ UNCHANGED vars
  BY <1>7 DEF Stopped, vars
<1> QED
  BY <1>2, <1>3, <1>4, <1>5, <1>6, <1>7 DEF Next

\* Every lane executes exactly its own path, for every number of lanes, every
\* program and every choice of reconvergence PCs (wisa-spec.md section 8.4).
THEOREM LanesRunTheirOwnPaths == Spec => LanePathsSpec
<1>1. Init => Paths!Init
  BY InitImplements
<1>2. WarpInv /\ [Next]_vars => [Paths!Next]_(Paths!vars)
  BY NextImplements
<1> QED
  BY <1>1, <1>2, Invariance, PTL DEF Spec, LanePathsSpec, Paths!Spec

-----------------------------------------------------------------------------
(* A warp that runs an assembled program                                   *)

\* The path of entry j ends at its reconvergence PC.
Waits(s, j) == s[j].rpc # NoReconv

PCsOK(prog, w) ==
    /\ w.pc \in 0..Len(prog)
    /\ \A k \in DOMAIN w.stack :
           /\ w.stack[k].resume \in 0..Len(prog)
           /\ w.stack[k].rpc \in 0..Len(prog) - 1 \cup {NoReconv}

\* What is recorded below is still ahead of the path that runs and of those deferred
\* above: the first two parts of PathsNested.
StillAhead(prog, w) ==
    /\ \A k \in DOMAIN w.stack : \A j \in 1..k :
           Waits(w.stack, j) => PostDominates(prog, w.stack[j].rpc, w.stack[k].resume)
    /\ w.active # {} =>
           \A j \in DOMAIN w.stack :
               Waits(w.stack, j) => PostDominates(prog, w.stack[j].rpc, w.pc)

\* And of what is recorded above; above a path without a reconvergence PC, that is
\* because the paths there cannot exit at all: they loop for ever.
Trapped(prog, w, k) ==
    /\ w.active # {} /\ ~CanExit(prog, w.pc)
    /\ \A m \in k..Len(w.stack) : ~CanExit(prog, w.stack[m].resume)
RecordsNested(prog, w) ==
    \A k \in DOMAIN w.stack : \A j \in 1..k - 1 :
        Waits(w.stack, j) =>
            IF Waits(w.stack, k) THEN PostDominates(prog, w.stack[j].rpc, w.stack[k].rpc)
            ELSE Trapped(prog, w, k)

Nested(prog, w) ==
    /\ PCsOK(prog, w) /\ StillAhead(prog, w) /\ RecordsNested(prog, w)
    /\ Emptied(w) => Top(w.stack).rpc = NoReconv

\* Every entry is of a branch that the paths from it on have come from.
BranchOf(prog, w, k, c) ==
    /\ c \in 0..Len(prog) - 1 /\ prog[c + 1].op = "bra" /\ prog[c + 1].guard.present
    /\ w.stack[k].rpc = prog[c + 1].rpc
    /\ \A m \in k..Len(w.stack) : w.stack[m].resume \in ReachAvoiding(prog, c, -1)
    /\ w.active # {} => w.pc \in ReachAvoiding(prog, c, -1)
HaveBranches(prog, w) == \A k \in DOMAIN w.stack : \E c : BranchOf(prog, w, k, c)

\* Nothing recorded is at the PC of a path that can exit and is not at the top's.
LEMMA StrictlyAhead ==
    ASSUME NEW prog, WellAnnotated(prog), NEW w, w.stack \in Seq(Entries), Nested(prog, w),
           Settled(w), CanExit(prog, w.pc), NEW j \in DOMAIN w.stack, Waits(w.stack, j)
    PROVE  w.stack[j].rpc # w.pc /\ PostDominates(prog, w.stack[j].rpc, w.pc)
<1> DEFINE s == w.stack
           n == Len(s)
           r == s[j].rpc
<1>1. n \in Nat /\ j \in 1..n /\ DOMAIN s = 1..n /\ n \in DOMAIN s
  BY LenProperties
<1>2. /\ WellFormed(prog) /\ w.pc \in 0..Len(prog) /\ w.active # {}
      /\ PostDominates(prog, r, w.pc) /\ r \in 0..Len(prog)
  BY <1>1, NodesArePCs DEF WellAnnotated, Nested, PCsOK, StillAhead, Settled, Waits
<1>3. CASE j = n
  <2>1. s # <<>>
    BY <1>1
  <2> QED
    BY <1>2, <1>3, <2>1 DEF Settled, AtReconvergence, Top
<1>4. CASE j # n
  <2>1. j \in 1..n - 1 /\ s # <<>>
    BY <1>1, <1>4
  <2>2. Waits(s, n) /\ PostDominates(prog, r, s[n].rpc)
    BY <1>1, <2>1 DEF Nested, RecordsNested, Trapped
  <2>3. PostDominates(prog, s[n].rpc, w.pc) /\ s[n].rpc \in 0..Len(prog)
    <3>1. PostDominates(prog, s[n].rpc, w.pc)
      BY <1>1, <1>2, <2>2 DEF Nested, StillAhead
    <3>2. s[n].rpc \in 0..Len(prog) - 1 /\ Len(prog) \in Nat
      BY <1>1, <1>2, <2>2, NodesArePCs DEF Nested, PCsOK, Waits
    <3> QED
      BY <3>1, <3>2
  <2>4. s[n].rpc # w.pc
    BY <1>2, <2>1 DEF Settled, AtReconvergence, Top
  <2> QED
    BY <1>2, <2>2, <2>3, <2>4, Antisymmetric
<1> QED
  BY <1>3, <1>4

\* What is ahead stays ahead: nothing recorded is passed by an instruction.
LEMMA StaysAhead ==
    ASSUME NEW prog, WellAnnotated(prog), NEW w, w.stack \in Seq(Entries), Nested(prog, w),
           Settled(w), w.pc \in 0..Len(prog) - 1, NEW to \in SuccPCs(prog, w.pc),
           NEW j \in DOMAIN w.stack, Waits(w.stack, j)
    PROVE  PostDominates(prog, w.stack[j].rpc, to)
<1>1. WellFormed(prog) /\ to \in 0..Len(prog)
  BY SuccType DEF WellAnnotated
<1>2. CASE CanExit(prog, w.pc)
  BY <1>1, <1>2, StrictlyAhead, PassedOn
<1>3. CASE ~CanExit(prog, w.pc)
  BY <1>1, <1>3, KeptOn, NeverExits
<1> QED
  BY <1>2, <1>3

\* An exit, or the end of the program, is no successor of a path with something ahead.
LEMMA NoExitAhead ==
    ASSUME NEW prog, WellAnnotated(prog), NEW w, w.stack \in Seq(Entries), Nested(prog, w),
           Settled(w), \/ w.pc = Len(prog)
                       \/ w.pc \in 0..Len(prog) - 1 /\ Len(prog) \in SuccPCs(prog, w.pc)
    PROVE  \A j \in DOMAIN w.stack : ~Waits(w.stack, j)
<1> SUFFICES ASSUME NEW j \in DOMAIN w.stack, Waits(w.stack, j) PROVE FALSE
  OBVIOUS
<1>1. WellFormed(prog) /\ w.active # {}
  BY DEF WellAnnotated, Settled
<1>2. PostDominates(prog, w.stack[j].rpc, Len(prog))
  <2>1. CASE w.pc = Len(prog)
    BY <1>1, <2>1 DEF Nested, StillAhead
  <2>2. CASE w.pc # Len(prog)
    BY <2>2, StaysAhead
  <2> QED
    BY <2>1, <2>2
<1>3. w.stack[j].rpc \in 0..Len(prog) - 1
  BY DEF Nested, PCsOK, Waits
<1> QED
  BY <1>1, <1>2, <1>3, ExitAlone, NodesArePCs

\* With nothing ahead there is nothing to nest.
LEMMA NothingAhead ==
    ASSUME NEW prog, NEW w, w.stack \in Seq(Entries), PCsOK(prog, w),
           \A j \in DOMAIN w.stack : ~Waits(w.stack, j)
    PROVE  Nested(prog, w)
<1>1. DOMAIN w.stack = 1..Len(w.stack) /\ Len(w.stack) \in Nat
  BY LenProperties
<1>2. \A k \in DOMAIN w.stack : \A j \in 1..k : j \in DOMAIN w.stack
  BY <1>1
<1>3. Emptied(w) => Len(w.stack) \in DOMAIN w.stack
  BY <1>1, EmptySeq DEF Emptied
<1> QED
  BY <1>1, <1>2, <1>3 DEF Nested, StillAhead, RecordsNested, Waits, Top

\* The path moves on by an instruction.
LEMMA MovesNested ==
    ASSUME NEW prog, WellAnnotated(prog), NEW w, w.stack \in Seq(Entries), Nested(prog, w),
           Settled(w), w.pc \in 0..Len(prog) - 1,
           NEW v, v.stack = w.stack, v.active = w.active, v.pc \in SuccPCs(prog, w.pc)
    PROVE  Nested(prog, v)
<1>1. WellFormed(prog) /\ v.active # {} /\ w.active # {}
  BY DEF WellAnnotated, Settled
<1>2. PCsOK(prog, v)
  <2>1. v.pc \in 0..Len(prog)
    BY <1>1, SuccType
  <2> QED
    BY <2>1 DEF Nested, PCsOK
<1>3. StillAhead(prog, v)
  <2>1. \A j \in DOMAIN w.stack : Waits(w.stack, j) => PostDominates(prog, w.stack[j].rpc, v.pc)
    BY StaysAhead
  <2> QED
    BY <2>1 DEF Nested, StillAhead
<1>4. ~CanExit(prog, w.pc) => ~CanExit(prog, v.pc)
  BY <1>1, KeptOn
<1>5. \A k \in DOMAIN w.stack : Trapped(prog, w, k) => Trapped(prog, v, k)
  BY <1>1, <1>4 DEF Trapped
<1>6. RecordsNested(prog, v)
  BY <1>5 DEF Nested, RecordsNested
<1> QED
  BY <1>1, <1>2, <1>3, <1>6 DEF Nested, Emptied

\* Rule 2: the warp diverges at a guarded branch.
LEMMA DivergesNested ==
    ASSUME NEW prog, WellAnnotated(prog), NEW w, w.stack \in Seq(Entries), Nested(prog, w),
           Settled(w), w.pc \in 0..Len(prog) - 1,
           prog[w.pc + 1].op = "bra", prog[w.pc + 1].guard.present,
           NEW e \in Entries, e.rpc = prog[w.pc + 1].rpc, e.resume = w.pc + 1,
           NEW v, v.stack = Append(w.stack, e), v.active # {}, v.pc = prog[w.pc + 1].target
    PROVE  Nested(prog, v)
<1> DEFINE s == w.stack
           t == Append(s, e)
           n == Len(s)
           c == w.pc
<1>1. /\ n \in Nat /\ DOMAIN s = 1..n /\ DOMAIN t = 1..n + 1 /\ Len(t) = n + 1
      /\ \A k \in 1..n : t[k] = s[k]
      /\ t[n + 1] = e
  BY PushStack, LenProperties
<1>2. /\ WellFormed(prog) /\ Len(prog) \in Nat /\ NearestRecorded(prog, c) /\ w.active # {}
      /\ c \in 0..Len(prog)
  BY NodesArePCs DEF WellAnnotated, Settled
<1>3. v.pc \in SuccPCs(prog, c) /\ e.resume \in SuccPCs(prog, c)
  BY DEF SuccPCs
<1>4. v.pc \in 0..Len(prog) /\ e.resume \in 0..Len(prog)
  BY <1>2, <1>3, SuccType
<1>5. ASSUME NEW j \in 1..n + 1, Waits(t, j)
      PROVE  /\ PostDominates(prog, t[j].rpc, v.pc)
             /\ PostDominates(prog, t[j].rpc, e.resume)
  <2>1. CASE j = n + 1
    <3>1. t[j].rpc # c /\ PostDominates(prog, t[j].rpc, c)
      BY <1>1, <1>2, <1>5, <2>1 DEF NearestRecorded, Waits
    <3> QED
      BY <1>2, <1>3, <3>1, PassedOn
  <2>2. CASE j # n + 1
    <3>1. j \in DOMAIN s /\ Waits(s, j) /\ t[j] = s[j]
      BY <1>1, <1>5, <2>2 DEF Waits
    <3> QED
      BY <1>3, <3>1, StaysAhead
  <2> QED
    BY <2>1, <2>2
<1>6. ASSUME ~CanExit(prog, c)
      PROVE  ~CanExit(prog, v.pc) /\ ~CanExit(prog, e.resume)
  BY <1>2, <1>3, <1>6, KeptOn
<1>7. PCsOK(prog, v)
  <2>1. ASSUME NEW k \in DOMAIN t
        PROVE  t[k].resume \in 0..Len(prog) /\ t[k].rpc \in 0..Len(prog) - 1 \cup {NoReconv}
    <3>1. CASE k = n + 1
      BY <1>1, <1>2, <1>4, <3>1 DEF NearestRecorded
    <3>2. CASE k # n + 1
      BY <1>1, <2>1, <3>2 DEF Nested, PCsOK
    <3> QED
      BY <3>1, <3>2
  <2> QED
    BY <1>4, <2>1 DEF PCsOK
<1>8. StillAhead(prog, v)
  <2>1. ASSUME NEW k \in 1..n + 1, NEW j \in 1..k, Waits(t, j)
        PROVE  PostDominates(prog, t[j].rpc, t[k].resume)
    <3>1. j \in 1..n + 1
      BY <1>1
    <3>2. CASE k = n + 1
      BY <1>1, <1>5, <2>1, <3>1, <3>2
    <3>3. CASE k # n + 1
      <4>1. k \in 1..n /\ j \in 1..n /\ t[j] = s[j] /\ t[k] = s[k]
        BY <1>1, <3>3
      <4> QED
        BY <1>1, <2>1, <4>1 DEF Nested, StillAhead, Waits
    <3> QED
      BY <3>2, <3>3
  <2> QED
    BY <1>1, <1>5, <2>1 DEF StillAhead
<1>9. RecordsNested(prog, v)
  <2> SUFFICES ASSUME NEW k \in 1..n + 1, NEW j \in 1..k - 1, Waits(t, j)
               PROVE  IF Waits(t, k) THEN PostDominates(prog, t[j].rpc, t[k].rpc)
                      ELSE Trapped(prog, v, k)
    BY <1>1 DEF RecordsNested
  <2>1. j \in 1..n /\ t[j] = s[j] /\ Waits(s, j)
    BY <1>1 DEF Waits
  <2>2. s[j].rpc \in 0..Len(prog) - 1
    BY <1>1, <2>1 DEF Nested, PCsOK, Waits
  <2>3. CASE k = n + 1
    <3>1. CASE CanExit(prog, c)
      <4>1. s[j].rpc \in 0..Len(prog) \ {c} /\ PostDominates(prog, s[j].rpc, c)
        BY <1>1, <1>2, <2>1, <2>2, <3>1, StrictlyAhead
      <4>2. s[j].rpc # Len(prog)
        BY <1>2, <2>2
      <4> QED
        BY <1>1, <1>2, <2>1, <2>3, <3>1, <4>1, <4>2 DEF NearestRecorded, Waits
    <3>2. CASE ~CanExit(prog, c)
      <4>1. ~Waits(t, k)
        BY <1>1, <1>2, <2>3, <3>2 DEF NearestRecorded, Waits
      <4>2. Trapped(prog, v, k)
        <5>1. \A m \in k..Len(t) : m = n + 1
          BY <1>1, <2>3
        <5> QED
          BY <1>1, <1>6, <3>2, <5>1 DEF Trapped
      <4> QED
        BY <4>1, <4>2
    <3> QED
      BY <3>1, <3>2
  <2>4. CASE k # n + 1
    <3>1. k \in 1..n /\ t[k] = s[k]
      BY <1>1, <2>4
    <3>2. CASE Waits(s, k)
      BY <1>1, <2>1, <3>1, <3>2 DEF Nested, RecordsNested, Waits
    <3>3. CASE ~Waits(s, k)
      <4>1. Trapped(prog, w, k)
        BY <1>1, <2>1, <3>1, <3>3 DEF Nested, RecordsNested
      <4>2. \A m \in k..n + 1 : ~CanExit(prog, t[m].resume)
        <5>1. \A m \in k..n : m \in 1..n
          BY <1>1, <3>1
        <5>2. \A m \in k..n + 1 : m = n + 1 \/ m \in k..n
          BY <1>1, <3>1
        <5> QED
          BY <1>1, <1>6, <4>1, <5>1, <5>2 DEF Trapped
      <4>3. Trapped(prog, v, k)
        BY <1>1, <1>6, <4>1, <4>2 DEF Trapped
      <4> QED
        BY <3>1, <3>3, <4>3 DEF Waits
    <3> QED
      BY <3>2, <3>3
  <2> QED
    BY <2>3, <2>4
<1> QED
  BY <1>7, <1>8, <1>9 DEF Nested, Emptied

\* Rule 3 with a join on top: the lanes that wait there go on with those that arrive.
LEMMA JoinsNested ==
    ASSUME NEW prog, NEW w, w.stack \in Seq(Entries), Nested(prog, w), AtReconvergence(w),
           NEW v, v.stack = Pop(w.stack), v.active # {}, v.pc = w.pc
    PROVE  Nested(prog, v)
<1> DEFINE s == w.stack
           t == Pop(s)
           n == Len(s)
<1>1. /\ n \in Nat \ {0} /\ DOMAIN s = 1..n /\ DOMAIN t = 1..n - 1 /\ Len(t) = n - 1
      /\ \A k \in 1..n - 1 : t[k] = s[k]
      /\ w.active # {}
  BY PopStack, LenProperties DEF AtReconvergence
<1> HIDE DEF t
<1>2. \A k \in 1..n - 1 : k \in 1..n /\ (\A j \in 1..k : j \in 1..n - 1)
  BY <1>1
<1>3. PCsOK(prog, v)
  BY <1>1, <1>2 DEF Nested, PCsOK, t
<1>4. StillAhead(prog, v)
  BY <1>1, <1>2 DEF Nested, StillAhead, Waits, t
<1>5. ASSUME NEW k \in 1..n - 1, Trapped(prog, w, k) PROVE Trapped(prog, v, k)
  <2>1. \A m \in k..n - 1 : m \in k..n /\ m \in 1..n - 1
    BY <1>1
  <2> QED
    BY <1>1, <1>5, <2>1 DEF Trapped, t
<1>6. RecordsNested(prog, v)
  <2> SUFFICES ASSUME NEW k \in 1..n - 1, NEW j \in 1..k - 1, Waits(t, j)
               PROVE  IF Waits(t, k) THEN PostDominates(prog, t[j].rpc, t[k].rpc)
                      ELSE Trapped(prog, v, k)
    BY <1>1 DEF RecordsNested, t
  <2>1. j \in 1..n - 1 /\ k \in 1..n
    BY <1>1
  <2> QED
    BY <1>1, <1>5, <2>1 DEF Nested, RecordsNested, Waits
<1> QED
  BY <1>3, <1>4, <1>6 DEF Nested, Emptied

\* Rule 3 with a deferred path on top: it runs, and the lanes that have arrived wait.
LEMMA SwitchesNested ==
    ASSUME NEW prog, NEW w, w.stack \in Seq(Entries), Nested(prog, w), AtReconvergence(w),
           NEW f \in Entries, f.rpc = w.pc, f.resume = w.pc,
           NEW v, v.stack = Append(Pop(w.stack), f), v.active # {}, v.pc = Top(w.stack).resume
    PROVE  Nested(prog, v)
<1> DEFINE s == w.stack
           t == Append(Pop(s), f)
           n == Len(s)
<1>1. /\ n \in Nat \ {0} /\ DOMAIN s = 1..n /\ w.active # {}
      /\ Pop(s) \in Seq(Entries) /\ Len(Pop(s)) = n - 1 /\ \A k \in 1..n - 1 : Pop(s)[k] = s[k]
  BY PopStack, LenProperties DEF AtReconvergence
<1>2. /\ DOMAIN t = 1..n /\ Len(t) = n /\ \A k \in 1..n - 1 : t[k] = s[k]
      /\ t[n].resume = w.pc /\ t[n].rpc = s[n].rpc /\ s[n].rpc = w.pc /\ v.pc = s[n].resume
  <2>1. (n - 1) + 1 = n /\ n - 1 \in Nat
    BY <1>1
  <2>2. DOMAIN t = 1..n /\ (\A k \in 1..n - 1 : t[k] = s[k]) /\ t[n] = f
    BY <1>1, <2>1, PushStack
  <2>3. Len(t) = n
    BY <1>1, <2>1, AppendProperties
  <2> QED
    BY <2>2, <2>3 DEF AtReconvergence, Top
<1> HIDE DEF t
<1>3. \A k \in 1..n : t[k].rpc = s[k].rpc
  <2>1. \A k \in 1..n : k = n \/ k \in 1..n - 1
    BY <1>1
  <2> QED
    BY <1>2, <2>1
<1>4. \A k \in 1..n : k # n => k \in 1..n - 1
  BY <1>1
<1>5. n \in 1..n /\ \A k \in 1..n : \A j \in 1..k : j \in 1..n
  BY <1>1
<1>6. PCsOK(prog, v)
  <2>1. \A k \in 1..n : t[k].resume \in 0..Len(prog)
    BY <1>1, <1>2, <1>4 DEF Nested, PCsOK
  <2> QED
    BY <1>1, <1>2, <1>3, <1>5, <2>1 DEF Nested, PCsOK, t
<1>7. StillAhead(prog, v)
  <2>1. ASSUME NEW k \in 1..n, NEW j \in 1..k, Waits(t, j)
        PROVE  PostDominates(prog, t[j].rpc, t[k].resume)
    <3>1. j \in 1..n /\ Waits(s, j) /\ t[j].rpc = s[j].rpc
      BY <1>3, <1>5, <2>1 DEF Waits
    <3>2. CASE k = n
      BY <1>1, <1>2, <3>1, <3>2 DEF Nested, StillAhead
    <3>3. CASE k # n
      BY <1>1, <1>2, <1>4, <3>1, <3>3 DEF Nested, StillAhead
    <3> QED
      BY <3>2, <3>3
  <2>2. ASSUME NEW j \in 1..n, Waits(t, j) PROVE PostDominates(prog, t[j].rpc, v.pc)
    BY <1>1, <1>2, <1>3, <1>5, <2>2 DEF Nested, StillAhead, Waits
  <2> QED
    BY <1>2, <2>1, <2>2 DEF StillAhead, t
<1>8. ASSUME NEW k \in 1..n, Trapped(prog, w, k) PROVE Trapped(prog, v, k)
  <2>1. n \in k..n /\ \A m \in k..n : m \in 1..n
    BY <1>1
  <2> QED
    BY <1>2, <1>4, <1>8, <2>1 DEF Trapped, t
<1>9. RecordsNested(prog, v)
  <2> SUFFICES ASSUME NEW k \in 1..n, NEW j \in 1..k - 1, Waits(t, j)
               PROVE  IF Waits(t, k) THEN PostDominates(prog, t[j].rpc, t[k].rpc)
                      ELSE Trapped(prog, v, k)
    BY <1>2 DEF RecordsNested, t
  <2>1. j \in 1..n
    BY <1>1
  <2> QED
    BY <1>1, <1>3, <1>8, <2>1 DEF Nested, RecordsNested, Waits
<1> QED
  BY <1>6, <1>7, <1>9 DEF Nested, Emptied

\* Rule 4 finds nothing recorded below a path without a reconvergence PC.
LEMMA NothingBelow ==
    ASSUME NEW prog, NEW w, w.stack \in Seq(Entries), Nested(prog, w), Emptied(w)
    PROVE  \A j \in DOMAIN w.stack : ~Waits(w.stack, j)
<1> DEFINE n == Len(w.stack)
<1>1. n \in Nat \ {0} /\ DOMAIN w.stack = 1..n /\ n \in 1..n
  BY EmptySeq, LenProperties DEF Emptied
<1>2. ~Waits(w.stack, n) /\ w.active = {}
  BY DEF Nested, Emptied, Top, Waits
<1>3. \A j \in 1..n - 1 : ~Waits(w.stack, j)
  BY <1>1, <1>2 DEF Nested, RecordsNested, Trapped
<1>4. \A j \in 1..n : j = n \/ j \in 1..n - 1
  BY <1>1
<1> QED
  BY <1>1, <1>2, <1>3, <1>4

-----------------------------------------------------------------------------
(* Every entry has a branch                                                *)

\* Reaching goes on.
LEMMA ReachedOn ==
    ASSUME NEW prog, WellFormed(prog), NEW c \in 0..Len(prog) - 1,
           NEW q \in 0..Len(prog) - 1, q \in ReachAvoiding(prog, c, -1),
           NEW to \in SuccPCs(prog, q)
    PROVE  to \in ReachAvoiding(prog, c, -1)
<1>1. c \in 0..Len(prog) /\ q # Len(prog)
  BY NodesArePCs
<1>2. Closed(prog, ReachAvoiding(prog, c, -1), -1)
  BY <1>1, ReachIsLeast
<1> QED
  BY <1>1, <1>2, ClosedAll

\* The path moves on by an instruction, or all its lanes retire.
LEMMA MovesBranches ==
    ASSUME NEW prog, WellFormed(prog), NEW w, HaveBranches(prog, w),
           NEW v, v.stack = w.stack,
           \/ v.active = {}
           \/ /\ w.active # {} /\ w.pc \in 0..Len(prog) - 1
              /\ v.pc \in SuccPCs(prog, w.pc)
    PROVE  HaveBranches(prog, v)
<1> SUFFICES ASSUME NEW k \in DOMAIN w.stack
             PROVE  \E c : BranchOf(prog, v, k, c)
  BY DEF HaveBranches
<1>1. PICK c : BranchOf(prog, w, k, c)
  BY DEF HaveBranches
<1>2. v.active # {} => v.pc \in ReachAvoiding(prog, c, -1)
  BY <1>1, ReachedOn DEF BranchOf
<1>3. BranchOf(prog, v, k, c)
  BY <1>1, <1>2 DEF BranchOf
<1> QED
  BY <1>3

\* Rule 2: the branch at the PC is the new entry's.
LEMMA DivergesBranches ==
    ASSUME NEW prog, WellFormed(prog), NEW w, w.stack \in Seq(Entries), HaveBranches(prog, w),
           w.active # {}, w.pc \in 0..Len(prog) - 1,
           prog[w.pc + 1].op = "bra", prog[w.pc + 1].guard.present,
           NEW e \in Entries, e.rpc = prog[w.pc + 1].rpc, e.resume = w.pc + 1,
           NEW v, v.stack = Append(w.stack, e), v.pc = prog[w.pc + 1].target
    PROVE  HaveBranches(prog, v)
<1> DEFINE s == w.stack
           t == Append(s, e)
           n == Len(s)
<1>1. /\ n \in Nat /\ DOMAIN s = 1..n /\ DOMAIN t = 1..n + 1 /\ Len(t) = n + 1
      /\ \A k \in 1..n : t[k] = s[k]
      /\ t[n + 1] = e
  BY PushStack, LenProperties
<1> HIDE DEF t
<1>2. v.pc \in SuccPCs(prog, w.pc) /\ e.resume \in SuccPCs(prog, w.pc)
  BY DEF SuccPCs
<1>3. ASSUME NEW c \in 0..Len(prog) - 1, w.pc \in ReachAvoiding(prog, c, -1)
      PROVE  v.pc \in ReachAvoiding(prog, c, -1) /\ e.resume \in ReachAvoiding(prog, c, -1)
  BY <1>2, <1>3, ReachedOn
<1>4. ASSUME NEW k \in 1..n + 1
      PROVE  \E c : BranchOf(prog, v, k, c)
  <2>1. CASE k = n + 1
    <3>1. w.pc \in ReachAvoiding(prog, w.pc, -1)
      <4>1. w.pc \in 0..Len(prog)
        BY NodesArePCs
      <4> QED
        BY <4>1, ReachIsLeast
    <3>2. \A m \in k..n + 1 : m = n + 1
      BY <1>1, <2>1
    <3>3. BranchOf(prog, v, k, w.pc)
      BY <1>1, <1>3, <2>1, <3>1, <3>2 DEF BranchOf, t
    <3> QED
      BY <3>3
  <2>2. CASE k # n + 1
    <3>1. k \in 1..n
      BY <1>1, <2>2
    <3>2. PICK c : BranchOf(prog, w, k, c)
      BY <1>1, <3>1 DEF HaveBranches
    <3>3. \A m \in k..n + 1 : m = n + 1 \/ (m \in k..n /\ m \in 1..n)
      BY <1>1, <3>1
    <3>4. \A m \in k..n + 1 : t[m].resume \in ReachAvoiding(prog, c, -1)
      BY <1>1, <1>3, <3>2, <3>3 DEF BranchOf
    <3>5. BranchOf(prog, v, k, c)
      BY <1>1, <1>3, <3>1, <3>2, <3>4 DEF BranchOf, t
    <3> QED
      BY <3>5
  <2> QED
    BY <2>1, <2>2
<1> QED
  BY <1>1, <1>4 DEF HaveBranches, t

\* Rules 3 and 4 with the top popped: where it was to resume, or the path that runs.
LEMMA PopsBranches ==
    ASSUME NEW prog, NEW w, w.stack \in Seq(Entries), w.stack # <<>>, HaveBranches(prog, w),
           NEW v, v.stack = Pop(w.stack),
           v.pc = Top(w.stack).resume \/ (w.active # {} /\ v.pc = w.pc)
    PROVE  HaveBranches(prog, v)
<1> DEFINE s == w.stack
           t == Pop(s)
           n == Len(s)
<1>1. /\ n \in Nat \ {0} /\ DOMAIN s = 1..n /\ DOMAIN t = 1..n - 1 /\ Len(t) = n - 1
      /\ \A k \in 1..n - 1 : t[k] = s[k]
  BY PopStack, LenProperties
<1> HIDE DEF t
<1> SUFFICES ASSUME NEW k \in 1..n - 1
             PROVE  \E c : BranchOf(prog, v, k, c)
  BY <1>1 DEF HaveBranches, t
<1>2. k \in 1..n /\ n \in k..n /\ \A m \in k..n - 1 : m \in k..n /\ m \in 1..n - 1
  BY <1>1
<1>3. PICK c : BranchOf(prog, w, k, c)
  BY <1>1, <1>2 DEF HaveBranches
<1>4. v.pc \in ReachAvoiding(prog, c, -1)
  BY <1>2, <1>3 DEF BranchOf, Top
<1>5. BranchOf(prog, v, k, c)
  BY <1>1, <1>2, <1>3, <1>4 DEF BranchOf, t
<1> QED
  BY <1>5

\* Rule 3 with a deferred path on top: the entry of the lanes that wait is of the
\* same branch.
LEMMA SwitchesBranches ==
    ASSUME NEW prog, NEW w, w.stack \in Seq(Entries), HaveBranches(prog, w), AtReconvergence(w),
           NEW f \in Entries, f.rpc = w.pc, f.resume = w.pc,
           NEW v, v.stack = Append(Pop(w.stack), f), v.pc = Top(w.stack).resume
    PROVE  HaveBranches(prog, v)
<1> DEFINE s == w.stack
           t == Append(Pop(s), f)
           n == Len(s)
<1>1. /\ n \in Nat \ {0} /\ DOMAIN s = 1..n /\ w.active # {}
      /\ Pop(s) \in Seq(Entries) /\ Len(Pop(s)) = n - 1 /\ \A k \in 1..n - 1 : Pop(s)[k] = s[k]
  BY PopStack, LenProperties DEF AtReconvergence
<1>2. /\ DOMAIN t = 1..n /\ Len(t) = n /\ \A k \in 1..n - 1 : t[k] = s[k]
      /\ t[n].resume = w.pc /\ t[n].rpc = s[n].rpc /\ v.pc = s[n].resume
  <2>1. (n - 1) + 1 = n /\ n - 1 \in Nat
    BY <1>1
  <2>2. DOMAIN t = 1..n /\ (\A k \in 1..n - 1 : t[k] = s[k]) /\ t[n] = f
    BY <1>1, <2>1, PushStack
  <2>3. Len(t) = n
    BY <1>1, <2>1, AppendProperties
  <2> QED
    BY <2>2, <2>3 DEF AtReconvergence, Top
<1> HIDE DEF t
<1> SUFFICES ASSUME NEW k \in 1..n
             PROVE  \E c : BranchOf(prog, v, k, c)
  BY <1>2 DEF HaveBranches, t
<1>3. PICK c : BranchOf(prog, w, k, c)
  BY <1>1 DEF HaveBranches
<1>4. n \in k..n /\ \A m \in k..n : m = n \/ m \in 1..n - 1
  BY <1>1
<1>5. t[k].rpc = s[k].rpc
  BY <1>1, <1>2, <1>4
<1>6. \A m \in k..n : t[m].resume \in ReachAvoiding(prog, c, -1)
  BY <1>1, <1>2, <1>3, <1>4 DEF BranchOf
<1>7. v.pc \in ReachAvoiding(prog, c, -1)
  BY <1>2, <1>3, <1>4 DEF BranchOf
<1>8. BranchOf(prog, v, k, c)
  BY <1>1, <1>2, <1>3, <1>5, <1>6, <1>7 DEF BranchOf, t
<1> QED
  BY <1>8

-----------------------------------------------------------------------------
(* The transitions of a warp that runs an assembled program                *)

\* Only the PC, the active mask and the stack matter.
InPlace(prog, w) == Nested(prog, w) /\ HaveBranches(prog, w)

LEMMA UnmovedInPlace ==
    ASSUME NEW prog, NEW w, InPlace(prog, w),
           NEW v, v.stack = w.stack, v.active = w.active, v.pc = w.pc
    PROVE  InPlace(prog, v)
BY DEF InPlace, Nested, PCsOK, StillAhead, RecordsNested, Trapped, Emptied, HaveBranches, BranchOf

LEMMA NewWarpInPlace ==
    ASSUME NEW prog, WellFormed(prog), NEW live \in SUBSET Lanes
    PROVE  InPlace(prog, NewWarp(live))
<1> DEFINE w == NewWarp(live)
<1>1. w.stack = <<>> /\ w.pc = 0 /\ <<>> \in Seq(Entries) /\ DOMAIN <<>> = {}
  BY EmptySeq DEF NewWarp
<1> HIDE DEF w
<1>2. PCsOK(prog, w) /\ HaveBranches(prog, w)
  BY <1>1, NodesArePCs DEF PCsOK, HaveBranches
<1>3. Nested(prog, w)
  BY <1>1, <1>2, NothingAhead
<1> QED
  BY <1>2, <1>3 DEF InPlace, w

\* Rule 3.
LEMMA RejoinedInPlace ==
    ASSUME NEW prog, NEW w, Sound(w), InPlace(prog, w), AtReconvergence(w)
    PROVE  InPlace(prog, Rejoined(w))
<1> DEFINE e == Top(w.stack)
           v == Rejoined(w)
           f == ArrivedEntry(e, w.active)
<1>1. /\ w \in WarpStates /\ w.stack \in Seq(Entries) /\ w.active \in SUBSET Lanes
      /\ w.stack # <<>> /\ w.active # {} /\ e.rpc = w.pc
  BY DEF Sound, WarpStates, AtReconvergence
<1>2. e \in Entries /\ e.mask # {}
  BY <1>1, PopStack, LenProperties DEF Sound, Partitioned, Partition, Top
<1>3. Nested(prog, w) /\ HaveBranches(prog, w)
  BY DEF InPlace
<1>4. CASE IsJoin(e)
  <2>1. v.stack = Pop(w.stack) /\ v.active = w.active \cup e.mask /\ v.pc = e.rpc
    BY <1>1, <1>4 DEF Rejoined, SwitchTo, Popped, WarpStates
  <2> HIDE DEF v, e
  <2>2. v.active # {} /\ v.pc = w.pc
    BY <1>1, <2>1
  <2>3. Nested(prog, v)
    BY <1>1, <1>3, <2>1, <2>2, JoinsNested
  <2>4. HaveBranches(prog, v)
    BY <1>1, <1>3, <2>1, <2>2, PopsBranches
  <2> QED
    BY <2>3, <2>4 DEF InPlace, v
<1>5. CASE ~IsJoin(e)
  <2>1. v.stack = Append(Pop(w.stack), f) /\ v.active = e.mask /\ v.pc = e.resume
    BY <1>1, <1>5 DEF Rejoined, SwitchTo, Popped, WarpStates
  <2>2. f \in Entries /\ f.rpc = w.pc /\ f.resume = w.pc
    BY <1>1, <1>2 DEF ArrivedEntry, Entries
  <2> HIDE DEF v, f
  <2>3. Nested(prog, v)
    BY <1>1, <1>2, <1>3, <2>1, <2>2, SwitchesNested
  <2>4. HaveBranches(prog, v)
    BY <1>1, <1>3, <2>1, <2>2, SwitchesBranches
  <2> QED
    BY <2>3, <2>4 DEF InPlace, v
<1> QED
  BY <1>4, <1>5

\* Rule 4.
LEMMA ResumedInPlace ==
    ASSUME NEW prog, NEW w, Sound(w), InPlace(prog, w), Emptied(w)
    PROVE  InPlace(prog, Resumed(w))
<1> DEFINE e == Top(w.stack)
           v == Resumed(w)
           n == Len(w.stack)
<1>1. w \in WarpStates /\ w.stack \in Seq(Entries) /\ w.stack # <<>>
  BY DEF Sound, WarpStates, Emptied
<1>2. Nested(prog, w) /\ HaveBranches(prog, w)
  BY DEF InPlace
<1>3. v.stack = Pop(w.stack) /\ v.pc = e.resume
  <2>1. CASE IsJoin(e)
    BY <1>1, <2>1 DEF Resumed, SwitchTo, Popped, WarpStates, IsJoin
  <2>2. CASE ~IsJoin(e)
    BY <1>1, <2>2 DEF Resumed, SwitchTo, Popped, WarpStates
  <2> QED
    BY <2>1, <2>2
<1> HIDE DEF v
<1>4. HaveBranches(prog, v)
  BY <1>1, <1>2, <1>3, PopsBranches
<1>5. /\ n \in Nat \ {0} /\ DOMAIN w.stack = 1..n /\ v.stack \in Seq(Entries)
      /\ DOMAIN v.stack = 1..n - 1 /\ \A k \in 1..n - 1 : v.stack[k] = w.stack[k]
  BY <1>1, <1>3, PopStack, LenProperties
<1>6. n \in 1..n /\ \A k \in 1..n - 1 : k \in 1..n
  BY <1>5
<1>7. PCsOK(prog, v)
  BY <1>2, <1>3, <1>5, <1>6 DEF Nested, PCsOK, Top
<1>8. \A j \in DOMAIN v.stack : ~Waits(v.stack, j)
  BY <1>1, <1>2, <1>5, <1>6, NothingBelow DEF Waits
<1>9. Nested(prog, v)
  BY <1>5, <1>7, <1>8, NothingAhead
<1> QED
  BY <1>4, <1>9 DEF InPlace, v

\* exit, and the end of the program: lanes of the path that runs retire.
LEMMA RetiresInPlace ==
    ASSUME NEW prog, WellAnnotated(prog), NEW w, w.stack \in Seq(Entries), InPlace(prog, w),
           Settled(w),
           \/ w.pc = Len(prog)
           \/ w.pc \in 0..Len(prog) - 1 /\ Len(prog) \in SuccPCs(prog, w.pc),
           NEW v, v.stack = w.stack, v.pc \in 0..Len(prog),
           \/ v.active = {}
           \/ w.pc \in 0..Len(prog) - 1 /\ v.pc \in SuccPCs(prog, w.pc)
    PROVE  InPlace(prog, v)
<1>1. WellFormed(prog) /\ w.active # {} /\ Nested(prog, w) /\ HaveBranches(prog, w)
  BY DEF WellAnnotated, Settled, InPlace
<1>2. HaveBranches(prog, v)
  BY <1>1, MovesBranches
<1>3. \A j \in DOMAIN v.stack : ~Waits(v.stack, j)
  BY <1>1, NoExitAhead
<1>4. PCsOK(prog, v)
  BY <1>1 DEF Nested, PCsOK
<1> QED
  BY <1>2, <1>3, <1>4, NothingAhead DEF InPlace

\* Any instruction that moves the path on as a whole.
LEMMA MovesInPlace ==
    ASSUME NEW prog, WellAnnotated(prog), NEW w, w.stack \in Seq(Entries), InPlace(prog, w),
           Settled(w), w.pc \in 0..Len(prog) - 1,
           NEW v, v.stack = w.stack, v.active = w.active, v.pc \in SuccPCs(prog, w.pc)
    PROVE  InPlace(prog, v)
<1>1. WellFormed(prog) /\ w.active # {} /\ Nested(prog, w) /\ HaveBranches(prog, w)
  BY DEF WellAnnotated, Settled, InPlace
<1> QED
  BY <1>1, MovesNested, MovesBranches DEF InPlace

\* Rule 2.
LEMMA DivergedInPlace ==
    ASSUME NEW prog, WellAnnotated(prog), NEW w, Sound(w), InPlace(prog, w), Settled(w),
           w.pc \in 0..Len(prog) - 1, NEW i \in Instructions, i = prog[w.pc + 1],
           i.op = "bra", Splits(i, w)
    PROVE  InPlace(prog, Diverged(i, w))
<1> DEFINE e == Deferred(i, w)
           v == Diverged(i, w)
<1>1. w \in WarpStates /\ w.stack \in Seq(Entries) /\ w.active \in SUBSET Lanes /\ w.pc \in PC
  BY DEF Sound, WarpStates
<1>2. Successor(w.pc) = w.pc + 1
  BY <1>1, IsaAssumption DEF WellAnnotated, WellFormed, Successor, PC
<1>3. e \in Entries /\ e.rpc = i.rpc /\ e.resume = w.pc + 1
  BY <1>1, <1>2, SuccessorType DEF Deferred, Entries, Instructions
<1>4. /\ v.stack = Append(w.stack, e) /\ v.active = Exec(i, w) /\ v.pc = i.target
      /\ v.active # {} /\ i.guard.present
  BY <1>1 DEF Diverged, WarpStates, Splits
<1> HIDE DEF e, v
<1>5. WellFormed(prog) /\ w.active # {} /\ Nested(prog, w) /\ HaveBranches(prog, w)
  BY DEF WellAnnotated, Settled, InPlace
<1>6. Nested(prog, v)
  BY <1>1, <1>3, <1>4, <1>5, DivergesNested
<1>7. HaveBranches(prog, v)
  BY <1>1, <1>3, <1>4, <1>5, DivergesBranches
<1> QED
  BY <1>6, <1>7 DEF InPlace, v

\* Lanes that have not come to a well-placed barrier keep the others from it: were
\* any deferred, the branch of the top entry would record the barrier, or a point
\* before it.
LEMMA BarriersWait ==
    ASSUME NEW prog, WellAnnotated(prog), NEW w, Sound(w), InPlace(prog, w), Settled(w),
           w.pc \in 0..Len(prog) - 1, prog[w.pc + 1].op = "bar.sync",
           BarrierPlacedWell(prog, w.pc)
    PROVE  ~BarrierFaults(w)
<1> SUFFICES ASSUME w.active # w.live PROVE FALSE
  BY DEF BarrierFaults
<1> DEFINE s == w.stack
           n == Len(s)
           b == w.pc
           r == s[n].rpc
<1>1. /\ w.stack \in Seq(Entries) /\ w.active \in SUBSET Lanes /\ w.live \in SUBSET Lanes
      /\ WellFormed(prog) /\ Nested(prog, w) /\ HaveBranches(prog, w) /\ w.active # {}
  BY DEF Sound, WarpStates, WellAnnotated, InPlace, Settled
<1>2. n \in DOMAIN s
  <2>1. DOMAIN s # {}
    BY <1>1 DEF Sound, Partitioned, Partition, MasksCover
  <2>2. n \in Nat /\ DOMAIN s = 1..n
    BY <1>1, LenProperties
  <2> QED
    BY <2>1, <2>2
<1>3. PICK c : BranchOf(prog, w, n, c)
  BY <1>1, <1>2 DEF HaveBranches
<1>4. /\ c \in 0..Len(prog) - 1 /\ prog[c + 1].op = "bra" /\ prog[c + 1].guard.present
      /\ r = prog[c + 1].rpc /\ b \in ReachAvoiding(prog, c, -1)
  BY <1>1, <1>3 DEF BranchOf
<1>5. PostDominates(prog, b, c) /\ CanExit(prog, c) /\ b # c
  BY <1>4 DEF BarrierPlacedWell
<1>6. b \in 0..Len(prog) \ {c} /\ c \in 0..Len(prog) /\ b # Len(prog)
  BY <1>1, <1>4, <1>5, NodesArePCs
<1>7. CanExit(prog, b)
  BY <1>1, <1>5, <1>6, Exits
<1>8. NearestRecorded(prog, c)
  BY <1>4 DEF WellAnnotated
<1>9. /\ Waits(s, n) /\ r \in 0..Len(prog) - 1 /\ PostDominates(prog, b, r)
  BY <1>4, <1>5, <1>6, <1>8 DEF NearestRecorded, Waits
<1>10. r # b /\ PostDominates(prog, r, b)
  BY <1>1, <1>2, <1>7, <1>9, StrictlyAhead
<1>11. r \in 0..Len(prog)
  BY <1>1, <1>9, NodesArePCs
<1> QED
  BY <1>1, <1>6, <1>7, <1>9, <1>10, <1>11, Antisymmetric

\* The inductive invariant of a warp that runs an assembled program.
AssembledInv == WarpInv /\ (program \in Emitted => InPlace(program, warp))

LEMMA EmittedWell ==
    ASSUME NEW prog \in Emitted
    PROVE  WellAnnotated(prog)
<1>1. PICK p \in Parsed : prog = Annotated(p)
  BY DEF Emitted
<1>2. prog \in Seq(Instructions)
  BY AssembledAssumption, ProgramsAssumption
<1>3. /\ p \in Seq(Instructions) /\ Len(p) \in 1..NoReconv
      /\ \A k \in DOMAIN p : p[k].op = "bra" => p[k].target < Len(p)
  BY AssembledAssumption
<1>4. WellFormed(p) /\ Len(p) <= NoReconv
  <2>1. DOMAIN p = 1..Len(p) /\ \A k \in DOMAIN p : p[k] \in Instructions
    BY <1>3, LenProperties, ElementOfSeq
  <2> QED
    BY <1>3, <2>1, IsaAssumption DEF WellFormed, Instructions, PC
<1> QED
  BY <1>1, <1>2, <1>3, <1>4, AnnotatedWell

LEMMA AssembledInit == Init => AssembledInv
<1> SUFFICES ASSUME Init, program \in Emitted PROVE InPlace(program, warp)
  BY InitInv DEF AssembledInv
<1> QED
  BY EmittedWell, NewWarpInPlace DEF Init, WellAnnotated

LEMMA InstructionInPlace ==
    ASSUME WarpInv, WellAnnotated(program), InPlace(program, warp),
           NEW k \in DOMAIN program, Instruction(program[k])
    PROVE  InPlace(program, warp)'
<1> DEFINE i == program[k]
           n == Len(program)
<1>1. i \in Instructions
  BY ProgramInstruction
<1>2. /\ Sound(warp) /\ warp \in WarpStates /\ warp.stack \in Seq(Entries) /\ warp.pc \in PC
      /\ warp.active \in SUBSET Lanes /\ WellFormed(program)
      /\ n \in Nat /\ n <= NoReconv
  BY LenProperties DEF WarpInv, Sound, WarpStates, WellAnnotated
<1> HIDE DEF i
<1>3. ASSUME NEW j, Issues(j), j = i
      PROVE  /\ Settled(warp) /\ warp.active # {} /\ warp.pc \in 0..n - 1 /\ i = program[warp.pc + 1]
             /\ Successor(warp.pc) = warp.pc + 1
  BY <1>2, <1>3, IsaAssumption DEF Issues, Settled, PC, Successor
<1> USE DEF Become
<1>4. CASE Bra(i)
  <2>1. Issues(i) /\ i.op = "bra" /\ program' = program /\ warp' = Jumped(i, warp)
    BY <1>4 DEF Bra
  <2>2. /\ Jumped(i, warp).stack = warp.stack /\ Jumped(i, warp).active = warp.active
        /\ Jumped(i, warp).pc = IF i.guard.present /\ Exec(i, warp) = {}
                                THEN Successor(warp.pc) ELSE i.target
    BY <1>2 DEF Jumped, Advance, WarpStates
  <2>3. Jumped(i, warp).pc \in SuccPCs(program, warp.pc)
    BY <1>3, <2>1, <2>2 DEF SuccPCs
  <2>4. InPlace(program, Jumped(i, warp))
    BY <1>2, <1>3, <2>1, <2>2, <2>3, MovesInPlace
  <2> QED
    BY <2>1, <2>4
<1>5. CASE Diverge(i)
  <2>1. Issues(i) /\ i.op = "bra" /\ Splits(i, warp) /\ program' = program /\ warp' = Diverged(i, warp)
    BY <1>5 DEF Diverge
  <2>2. InPlace(program, Diverged(i, warp))
    BY <1>1, <1>2, <1>3, <2>1, DivergedInPlace
  <2> QED
    BY <2>1, <2>2
<1>6. CASE Exit(i)
  <2> DEFINE x == Exec(i, warp)
             v == Exited(i, warp)
  <2>1. Issues(i) /\ i.op = "exit" /\ program' = program /\ warp' = v
    BY <1>6 DEF Exit
  <2>2. x \in SUBSET warp.active /\ (~i.guard.present => x = warp.active)
    BY DEF Exec
  <2>3. Retire(warp, x).stack = warp.stack
    BY <1>2, <2>2, RetireLeavesStack DEF Sound
  <2>4. /\ v.stack = Retire(warp, x).stack /\ v.active = warp.active \ x
        /\ v.pc = Successor(warp.pc)
    BY <1>2 DEF Exited, Advance, Retire, WarpStates
  <2>5. /\ n \in SuccPCs(program, warp.pc) /\ v.pc \in 0..n
        /\ i.guard.present => v.pc \in SuccPCs(program, warp.pc)
    BY <1>2, <1>3, <2>1, <2>4 DEF SuccPCs
  <2>6. ~i.guard.present => v.active = {}
    BY <2>2, <2>4
  <2> HIDE DEF v, x
  <2>7. InPlace(program, v)
    BY <1>2, <1>3, <2>1, <2>3, <2>4, <2>5, <2>6, RetiresInPlace
  <2> QED
    BY <2>1, <2>7
<1>7. ASSUME NEW v, warp' = v, program' = program, Issues(i),
             i.op \in {"bar.sync", "setp", "alu", "memory"},
             v.stack = warp.stack, v.active = warp.active, v.pc = Successor(warp.pc)
      PROVE  InPlace(program, warp)'
  <2>1. v.pc \in SuccPCs(program, warp.pc)
    BY <1>3, <1>7 DEF SuccPCs
  <2>2. InPlace(program, v)
    BY <1>2, <1>3, <1>7, <2>1, MovesInPlace
  <2> QED
    BY <1>7, <2>2
<1>8. CASE BarSync(i)
  <2>1. /\ Parked(warp).stack = warp.stack /\ Parked(warp).active = warp.active
        /\ Parked(warp).pc = Successor(warp.pc)
    BY <1>2 DEF Parked, Advance, WarpStates
  <2> QED
    BY <1>7, <1>8, <2>1 DEF BarSync
<1>9. CASE Setp(i)
  <2>1. PICK true \in SUBSET Exec(i, warp) : warp' = Compared(i, warp, true)
    BY <1>9 DEF Setp
  <2>2. /\ Compared(i, warp, true).stack = warp.stack
        /\ Compared(i, warp, true).active = warp.active
        /\ Compared(i, warp, true).pc = Successor(warp.pc)
    BY <1>2 DEF Compared, Advance, WarpStates
  <2> QED
    BY <1>7, <1>9, <2>1, <2>2 DEF Setp
<1>10. CASE Other(i)
  <2>1. /\ Advance(warp).stack = warp.stack /\ Advance(warp).active = warp.active
        /\ Advance(warp).pc = Successor(warp.pc)
    BY <1>2 DEF Advance, WarpStates
  <2> QED
    BY <1>7, <1>10, <2>1 DEF Other
<1>11. CASE Fault(i)
  BY <1>11 DEF Fault
<1> QED
  BY <1>4, <1>5, <1>6, <1>8, <1>9, <1>10, <1>11 DEF Instruction, i

LEMMA AssembledNext == AssembledInv /\ [Next]_vars => AssembledInv'
<1> SUFFICES ASSUME AssembledInv, [Next]_vars, program' \in Emitted'
             PROVE  InPlace(program, warp)'
  BY NextInv DEF AssembledInv
<1>1. program' = program
  BY DEF Next, vars, Rejoin, Resume, FallOffEnd, Instruction, Bra, Diverge, Exit, BarSync, Setp,
         Other, Fault, Release, Stopped, Become
<1>2. program \in Emitted
  BY <1>1 DEF Emitted
<1>3. WarpInv /\ InPlace(program, warp) /\ WellAnnotated(program) /\ Sound(warp)
  BY <1>2, EmittedWell DEF AssembledInv, WarpInv
<1>4. /\ warp \in WarpStates /\ warp.stack \in Seq(Entries) /\ WellFormed(program)
  BY <1>3 DEF Sound, WarpStates, WellAnnotated
<1> USE DEF Become
<1>5. CASE Rejoin
  <2>1. InPlace(program, Rejoined(warp)) /\ warp' = Rejoined(warp)
    BY <1>3, <1>5, RejoinedInPlace DEF Rejoin
  <2> QED
    BY <1>1, <2>1
<1>6. CASE Resume
  <2>1. InPlace(program, Resumed(warp)) /\ warp' = Resumed(warp)
    BY <1>3, <1>6, ResumedInPlace DEF Resume
  <2> QED
    BY <1>1, <2>1
<1>7. CASE FallOffEnd
  <2> DEFINE v == Retire(warp, warp.active)
  <2>1. Settled(warp) /\ warp' = v /\ warp.pc = Len(program)
    <3>1. Settled(warp) /\ warp' = v /\ warp.pc >= Len(program)
      BY <1>7 DEF FallOffEnd
    <3>2. warp.pc \in 0..Len(program)
      BY <1>3 DEF InPlace, Nested, PCsOK
    <3> QED
      BY <1>4, <3>1, <3>2, NodesArePCs
  <2>2. v.stack = warp.stack
    BY <1>3, <1>4, RetireLeavesStack DEF Sound
  <2>3. v.active = {} /\ v.pc = warp.pc
    BY <1>4 DEF Retire, WarpStates
  <2>4. v.pc \in 0..Len(program)
    BY <1>4, <2>1, <2>3, NodesArePCs
  <2> HIDE DEF v
  <2>5. InPlace(program, v)
    BY <1>3, <1>4, <2>1, <2>2, <2>3, <2>4, RetiresInPlace
  <2> QED
    BY <1>1, <2>1, <2>5
<1>8. ASSUME NEW k \in DOMAIN program, Instruction(program[k]) PROVE InPlace(program, warp)'
  BY <1>3, <1>8, InstructionInPlace
<1>9. CASE Release
  <2> DEFINE v == Released(warp)
  <2>1. warp' = v /\ v.stack = warp.stack /\ v.active = warp.active /\ v.pc = warp.pc
    BY <1>4, <1>9 DEF Release, Released, WarpStates
  <2> HIDE DEF v
  <2>2. InPlace(program, v)
    BY <1>3, <2>1, UnmovedInPlace
  <2> QED
    BY <1>1, <2>1, <2>2
<1>10. CASE Stopped \/ UNCHANGED vars
  BY <1>1, <1>3, <1>10 DEF Stopped, vars
<1> QED
  BY <1>5, <1>6, <1>7, <1>8, <1>9, <1>10 DEF Next

THEOREM AssembledInvariance == Spec => []AssembledInv
BY AssembledInit, AssembledNext, PTL DEF Spec

\* Whatever a program branches to, loops and exits in the middle of others included,
\* the reconvergence PCs the assembler records keep the stack nested: no path passes a
\* PC at which others wait for it (resolve_stack compares only the top entry's), and
\* only lanes without a reconvergence PC are resumed by rule 4.
THEOREM PathsStayNested == Spec => []PathsNested
<1>1. AssembledInv => PathsNested
  <2> SUFFICES ASSUME AssembledInv, program \in Emitted
               PROVE  /\ StillAhead(program, warp)
                      /\ Emptied(warp) => Top(warp.stack).rpc = NoReconv
                      /\ DOMAIN warp.stack = 1..Len(warp.stack)
    BY DEF PathsNested, StillAhead, Waits
  <2> QED
    BY LenProperties DEF AssembledInv, WarpInv, Sound, WarpStates, InPlace, Nested
<1> QED
  BY <1>1, AssembledInvariance, PTL

LEMMA IssuedAt ==
    ASSUME WarpInv, warp.pc < Len(program)
    PROVE  /\ warp.pc \in 0..Len(program) - 1 /\ warp.pc + 1 \in DOMAIN program
           /\ (warp.pc + 1) - 1 = warp.pc
<1>1. Len(program) \in Nat /\ DOMAIN program = 1..Len(program)
  BY LenProperties DEF WarpInv
<1>2. warp.pc \in PC
  BY DEF WarpInv, Sound, WarpStates
<1>3. warp.pc \in Nat
  BY <1>2, IsaAssumption DEF PC
<1> QED
  BY <1>1, <1>3

LEMMA BarriersNext ==
    AssembledInv /\ WellPlacedBarriersMeet /\ [Next]_vars => WellPlacedBarriersMeet'
<1> SUFFICES ASSUME AssembledInv, WellPlacedBarriersMeet, [Next]_vars, program' \in Emitted',
                    \A k \in DOMAIN program' :
                        program'[k].op = "bar.sync" => BarrierPlacedWell(program', k - 1),
                    fault' = "divergent barrier"
             PROVE  FALSE
  BY DEF WellPlacedBarriersMeet, BarriersMet, BarrierPlacedWell
<1>1. program' = program
  BY DEF Next, vars, Rejoin, Resume, FallOffEnd, Instruction, Bra, Diverge, Exit, BarSync, Setp,
         Other, Fault, Release, Stopped, Become
<1>2. /\ program \in Emitted
      /\ \A k \in DOMAIN program :
             program[k].op = "bar.sync" => BarrierPlacedWell(program, k - 1)
  BY <1>1 DEF Emitted
<1>3. fault # "divergent barrier"
  BY <1>2 DEF WellPlacedBarriersMeet, BarriersMet
<1>4. PICK k \in DOMAIN program : Fault(program[k])
  BY <1>3 DEF Next, vars, Rejoin, Resume, FallOffEnd, Instruction, Bra, Diverge, Exit, BarSync,
              Setp, Other, Release, Stopped, Become
<1> DEFINE i == program[k]
<1>5. Settled(warp) /\ warp.pc < Len(program) /\ i = program[warp.pc + 1]
      /\ i.op = "bar.sync" /\ BarrierFaults(warp)
  BY <1>4 DEF Fault, Issues
<1>6. WarpInv /\ Sound(warp) /\ InPlace(program, warp) /\ WellAnnotated(program)
  BY <1>2, EmittedWell DEF AssembledInv, WarpInv
<1>7. warp.pc \in 0..Len(program) - 1 /\ warp.pc + 1 \in DOMAIN program /\ (warp.pc + 1) - 1 = warp.pc
  BY <1>5, <1>6, IssuedAt
<1>8. BarrierPlacedWell(program, warp.pc)
  BY <1>2, <1>5, <1>7
<1> QED
  BY <1>5, <1>6, <1>7, <1>8, BarriersWait

\* A kernel whose barriers are where every divergent branch before them has rejoined
\* is never stopped by the fault of warp.cpp's bar.sync, however its lanes branch: the
\* stack rejoins them in time.
THEOREM WellPlacedBarriersAreMet == Spec => []WellPlacedBarriersMeet
<1>1. Init => WellPlacedBarriersMeet
  BY DEF Init, WellPlacedBarriersMeet, BarriersMet
<1> QED
  BY <1>1, BarriersNext, AssembledInvariance, PTL DEF Spec
=============================================================================
