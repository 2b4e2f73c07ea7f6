---------------------------- MODULE DeviceProofs ----------------------------
(***************************************************************************)
(* Blocks, and memory between the lanes, warps and blocks of a launch,     *)
(* between launches and with the host, for every program, every grid and   *)
(* every size of block, warp and memory.                                   *)
(*                                                                         *)
(* A block: the scheduler keeps the invariants of each warp, see module    *)
(* ControlProofs; the warps stay in phase, a pass always steps a warp or   *)
(* completes a barrier, and run_block implements the barrier of Barrier.   *)
(*                                                                         *)
(* What a load may deliver: every event is later than those so far, or     *)
(* unordered with them, and the event that a word of memory holds is never *)
(* overwritten by an earlier one.                                          *)
(***************************************************************************)
EXTENDS Device, ControlProofs

AllSound == \A w \in DOMAIN warps : Sound(warps[w])

\* A pass that has stepped no warp so far has found only finished or parked ones.
NothingToStep ==
    fault = "none" /\ ~anyRunnable =>
        \A w \in 1..turn - 1 : Finished(warps[w]) \/ warps[w].parked

\* The inductive invariant.
BlockInv == TypeOK /\ AllSound /\ BarrierPhases /\ NothingToStep /\ AlwaysProgress

-----------------------------------------------------------------------------
(* Initially                                                               *)

LEMMA InitInv == Init => BlockInv
<1> SUFFICES ASSUME Init PROVE BlockInv
  OBVIOUS
<1>1. PICK n \in BlockSizes :
          /\ warps = [w \in 1..WarpCount(n) |-> NewWarp(LiveMask(n, w))]
          /\ issued = [w \in 1..WarpCount(n) |-> 0]
          /\ arrivals = [w \in 1..WarpCount(n) |-> 0]
  BY DEF Init
<1>2. WarpCount(n) \in Nat
  <2>1. WarpSize \in Nat \ {0}
    BY SimtAssumption, FS_CardinalityType, FS_EmptySet DEF WarpSize
  <2>2. n \in Nat \ {0}
    BY BlockAssumption
  <2> QED
    BY <2>1, <2>2 DEF WarpCount
<1>3. \A w \in DOMAIN warps : Sound(warps[w]) /\ warps[w].parked = FALSE
  <2>1. ASSUME NEW w \in DOMAIN warps
        PROVE  Sound(warps[w]) /\ warps[w].parked = FALSE
    <3>1. warps[w] = NewWarp(LiveMask(n, w)) /\ LiveMask(n, w) \in SUBSET Lanes
      BY <1>1, <2>1 DEF LiveMask
    <3> QED
      BY <3>1, NewWarpSound DEF NewWarp
  <2> QED
    BY <2>1
<1>4. warps \in [1..WarpCount(n) -> WarpStates]
  BY <1>1, <1>3 DEF Sound
<1>5. warps \in Seq(WarpStates) /\ Len(warps) = WarpCount(n)
  BY <1>2, <1>4, IsASeq, LenProperties
<1>6. TypeOK
  <2>1. /\ program \in Seq(Instructions)
        /\ turn = 1 /\ anyRunnable = FALSE /\ completed = 0 /\ fault = "none"
    BY BlockAssumption DEF Init
  <2>2. DOMAIN warps = 1..WarpCount(n)
    BY <1>1
  <2>3. issued \in [DOMAIN warps -> Nat] /\ arrivals \in [DOMAIN warps -> Nat]
    BY <1>1, <2>2
  <2>4. turn \in 1..Len(warps) + 1
    BY <1>2, <1>5, <2>1
  <2> QED
    BY <1>5, <2>1, <2>3, <2>4 DEF TypeOK
<1>7. BarrierPhases
  BY <1>1, <1>3, <1>4 DEF Init, BarrierPhases
<1> QED
  BY <1>3, <1>6, <1>7 DEF Init, BlockInv, AllSound, NothingToStep, AlwaysProgress

-----------------------------------------------------------------------------
(* A step of the warp whose turn it is                                     *)

\* The warps, with the warp at the turn replaced by a sound one.
LEMMA UpdateWarp ==
    ASSUME TypeOK, AllSound, turn \in DOMAIN warps, NEW v, Sound(v),
           warps' = [warps EXCEPT ![turn] = v]
    PROVE  /\ warps' \in Seq(WarpStates) /\ Len(warps') = Len(warps)
           /\ DOMAIN warps' = DOMAIN warps
           /\ AllSound'
           /\ warps'[turn] = v
           /\ \A w \in DOMAIN warps : w # turn => warps'[w] = warps[w]
<1>1. warps \in Seq(WarpStates) /\ v \in WarpStates
  BY DEF TypeOK, Sound
<1>2. warps' \in Seq(WarpStates) /\ Len(warps') = Len(warps)
  BY <1>1, ExceptSeq, LenProperties
<1>3. DOMAIN warps' = DOMAIN warps
  BY <1>1, <1>2, LenProperties
<1>4. warps'[turn] = v /\ \A w \in DOMAIN warps : w # turn => warps'[w] = warps[w]
  OBVIOUS
<1>5. AllSound'
  BY <1>3, <1>4 DEF AllSound
<1> QED
  BY <1>2, <1>3, <1>4, <1>5

\* What one turn of a warp's loops, or one instruction of it, may do to the block.
WarpMoves(v) ==
    /\ Stepping /\ Sound(v)
    /\ warps' = [warps EXCEPT ![turn] = v]
    /\ anyRunnable' = TRUE
    /\ turn' \in {turn, turn + 1}
    /\ issued' \in [DOMAIN warps -> Nat]
    /\ UNCHANGED <<program, completed, fault>>

\* A warp that does not arrive at a barrier stays in phase.
LEMMA MoveInv ==
    ASSUME BlockInv, NEW v, WarpMoves(v), ~v.parked, UNCHANGED arrivals
    PROVE  BlockInv'
<1> USE DEF WarpMoves, Stepping, InPass, Current
<1>1. TypeOK /\ AllSound /\ BarrierPhases
  BY DEF BlockInv
<1>2. /\ warps' \in Seq(WarpStates) /\ Len(warps') = Len(warps)
      /\ DOMAIN warps' = DOMAIN warps
      /\ AllSound'
      /\ warps'[turn] = v
      /\ \A w \in DOMAIN warps : w # turn => warps'[w] = warps[w]
  BY <1>1, UpdateWarp
<1>3. DOMAIN warps = 1..Len(warps) /\ Len(warps) \in Nat
  BY <1>1, LenProperties DEF TypeOK
<1>4. TypeOK'
  BY <1>1, <1>2, <1>3 DEF TypeOK
<1>5. arrivals[turn] = completed /\ completed \in Nat
  BY <1>1 DEF BarrierPhases, TypeOK
<1>6. BarrierPhases'
  BY <1>1, <1>2, <1>5 DEF BarrierPhases
<1> QED
  BY <1>2, <1>4, <1>6 DEF BlockInv, NothingToStep, AlwaysProgress

\* A warp that arrives waits one barrier ahead of the warps that run.
LEMMA ArriveInv ==
    ASSUME BlockInv, NEW v, WarpMoves(v), v.parked, ~Finished(v), turn' = turn + 1,
           arrivals' = [arrivals EXCEPT ![turn] = @ + 1]
    PROVE  BlockInv'
<1> USE DEF WarpMoves, Stepping, InPass, Current
<1>1. TypeOK /\ AllSound /\ BarrierPhases
  BY DEF BlockInv
<1>2. /\ warps' \in Seq(WarpStates) /\ Len(warps') = Len(warps)
      /\ DOMAIN warps' = DOMAIN warps
      /\ AllSound'
      /\ warps'[turn] = v
      /\ \A w \in DOMAIN warps : w # turn => warps'[w] = warps[w]
  BY <1>1, UpdateWarp
<1>3. DOMAIN warps = 1..Len(warps) /\ Len(warps) \in Nat
  BY <1>1, LenProperties DEF TypeOK
<1>4. /\ arrivals \in [DOMAIN warps -> Nat] /\ arrivals' \in [DOMAIN warps -> Nat]
      /\ arrivals'[turn] = arrivals[turn] + 1
      /\ \A w \in DOMAIN warps : w # turn => arrivals'[w] = arrivals[w]
  BY <1>1 DEF TypeOK
<1>5. TypeOK'
  BY <1>1, <1>2, <1>3, <1>4 DEF TypeOK
<1>6. arrivals[turn] = completed /\ completed \in Nat
  BY <1>1 DEF BarrierPhases, TypeOK
<1>7. BarrierPhases'
  <2>1. arrivals'[turn] = completed' + 1
    BY <1>4, <1>6
  <2>2. \A w \in DOMAIN warps' :
            IF Finished(warps'[w]) THEN ~warps'[w].parked /\ arrivals'[w] <= completed'
            ELSE arrivals'[w] = completed' + (IF warps'[w].parked THEN 1 ELSE 0)
    BY <1>1, <1>2, <1>4, <2>1 DEF BarrierPhases
  <2> QED
    BY <2>2 DEF BarrierPhases
<1> QED
  BY <1>2, <1>5, <1>7 DEF BlockInv, NothingToStep, AlwaysProgress

LEMMA ProgramInstruction ==
    ASSUME BlockInv, NEW k \in DOMAIN program
    PROVE  program[k] \in Instructions
BY ElementOfSeq, LenProperties DEF BlockInv, TypeOK

\* A warp that does not arrive at a barrier, and one that does.
Moves == \E v : WarpMoves(v) /\ ~v.parked /\ UNCHANGED arrivals
Arrives ==
    \E v : /\ WarpMoves(v) /\ v.parked /\ ~Finished(v) /\ turn' = turn + 1
          /\ arrivals' = [arrivals EXCEPT ![turn] = @ + 1]

\* One instruction of the warp at the turn.
LEMMA InstructionMoves ==
    ASSUME BlockInv, NEW i \in Instructions,
           Bra(i) \/ Exit(i) \/ BarSync(i) \/ Setp(i) \/ Other(i)
    PROVE  Moves \/ Arrives
<1> DEFINE w == Current
<1> USE DEF Issues, Issue
<1>1. /\ Stepping /\ Sound(w) /\ w \in WarpStates /\ ~w.parked /\ ~Finished(w)
      /\ issued \in [DOMAIN warps -> Nat]
  <2>1. Stepping
    BY DEF Bra, Exit, BarSync, Setp, Other
  <2> QED
    BY <2>1 DEF BlockInv, TypeOK, AllSound, Sound, Stepping, InPass, Current
<1>2. Sound(Advance(w)) /\ ~Advance(w).parked
  BY <1>1, AdvanceSound
<1>3. ASSUME NEW v, Sound(v), Issue(v)
      PROVE  WarpMoves(v) /\ turn' = turn + 1
  <2>1. issued' \in [DOMAIN warps -> Nat]
    BY <1>1, <1>3 DEF Stepping, InPass
  <2> QED
    BY <1>1, <1>3, <2>1 DEF WarpMoves
<1> HIDE DEF w
<1>4. CASE Bra(i)
  <2>1. CASE Splits(i, w)
    <3>1. Sound(Diverged(i, w))
      BY <1>1, <2>1, DivergedSound
    <3>2. ~Diverged(i, w).parked
      BY <1>1 DEF Diverged, WarpStates
    <3> QED
      BY <1>3, <1>4, <2>1, <3>1, <3>2 DEF Bra, w, Moves
  <2>2. CASE ~Splits(i, w)
    <3>1. Sound(Jumped(i, w))
      BY <1>1, JumpedSound
    <3>2. ~Jumped(i, w).parked
      BY <1>1, <1>2 DEF Jumped, WarpStates
    <3> QED
      BY <1>3, <1>4, <2>2, <3>1, <3>2 DEF Bra, w, Moves
  <2> QED
    BY <2>1, <2>2
<1>5. CASE Exit(i)
  <2>1. Exec(i, w) \in SUBSET w.active
    BY DEF Exec
  <2>2. Sound(Exited(i, w)) /\ ~Exited(i, w).parked
    BY <1>1, <2>1, RetireSound, AdvanceSound DEF Exited
  <2> QED
    BY <1>3, <1>5, <2>2 DEF Exit, w, Moves
<1>6. CASE BarSync(i)
  <2>1. ~BarrierFaults(w) /\ Issue(Parked(w))
        /\ arrivals' = [arrivals EXCEPT ![turn] = @ + 1]
    BY <1>6 DEF BarSync, w
  <2>2. Sound(Parked(w)) /\ Parked(w).parked
    BY <1>1, <2>1, ParkedSound
  <2>3. ~Finished(Parked(w))
    BY <1>1 DEF Finished, Parked, Advance, WarpStates
  <2> QED
    BY <1>3, <2>1, <2>2, <2>3 DEF Arrives
<1>7. CASE Setp(i)
  <2>1. PICK true : Issue(Compared(i, w, true)) /\ UNCHANGED arrivals
    BY <1>7 DEF Setp, w
  <2>2. Sound(Compared(i, w, true))
    BY <1>1, ComparedSound
  <2>3. ~Compared(i, w, true).parked
    BY <1>1, <1>2 DEF Compared, Advance, WarpStates
  <2> QED
    BY <1>3, <2>1, <2>2, <2>3 DEF Moves
<1>8. CASE Other(i)
  BY <1>2, <1>3, <1>8 DEF Other, w, Moves
<1> QED
  BY <1>4, <1>5, <1>6, <1>7, <1>8

LEMMA FaultInv ==
    ASSUME BlockInv, NEW i, Fault(i)
    PROVE  BlockInv'
BY DEF Fault, BlockInv, TypeOK, AllSound, BarrierPhases, NothingToStep, AlwaysProgress

\* A turn of the loops of resolve_stack and step.
LEMMA ResolveMoves ==
    ASSUME BlockInv, Resolve
    PROVE  Moves
<1> DEFINE w == Current
<1>1. /\ Stepping /\ Sound(w) /\ ~w.parked
      /\ issued \in [DOMAIN warps -> Nat] /\ UNCHANGED <<issued, arrivals, turn>>
  <2>1. Stepping /\ UNCHANGED <<issued, arrivals, turn>>
    BY DEF Resolve
  <2> QED
    BY <2>1 DEF BlockInv, TypeOK, AllSound, Stepping, InPass, Current
<1> HIDE DEF w
<1>2. PICK v : /\ warps' = [warps EXCEPT ![turn] = v]
               /\ Sound(v) /\ ~v.parked
  <2>1. CASE AtReconvergence(w) /\ warps' = [warps EXCEPT ![turn] = Rejoined(@)]
    <3>1. warps' = [warps EXCEPT ![turn] = Rejoined(w)]
      BY <2>1 DEF w, Current
    <3> QED
      BY <1>1, <2>1, <3>1, RejoinedSound
  <2>2. CASE Emptied(w) /\ warps' = [warps EXCEPT ![turn] = Resumed(@)]
    <3>1. warps' = [warps EXCEPT ![turn] = Resumed(w)]
      BY <2>2 DEF w, Current
    <3> QED
      BY <1>1, <2>2, <3>1, ResumedSound
  <2>3. CASE warps' = [warps EXCEPT ![turn] = Retire(@, @.active)]
    <3>1. warps' = [warps EXCEPT ![turn] = Retire(w, w.active)]
      BY <2>3 DEF w, Current
    <3> QED
      BY <1>1, <3>1, RetireSound
  <2> QED
    BY <2>1, <2>2, <2>3 DEF Resolve, w
<1>3. WarpMoves(v)
  BY <1>1, <1>2 DEF WarpMoves, Resolve
<1> QED
  BY <1>1, <1>2, <1>3 DEF Moves

\* A warp that is passed over has nothing to do.
LEMMA SkipInv ==
    ASSUME BlockInv, Skip
    PROVE  BlockInv'
<1> USE DEF Skip, InPass, Current
<1>1. TypeOK /\ AllSound /\ BarrierPhases /\ NothingToStep
  BY DEF BlockInv
<1>2. DOMAIN warps = 1..Len(warps) /\ Len(warps) \in Nat /\ turn \in 1..Len(warps)
  BY <1>1, LenProperties DEF TypeOK
<1>3. TypeOK'
  BY <1>1, <1>2 DEF TypeOK
<1>4. NothingToStep'
  <2>1. ASSUME fault = "none", ~anyRunnable, NEW w \in 1..turn
        PROVE  Finished(warps[w]) \/ warps[w].parked
    <3>1. w = turn \/ w \in 1..turn - 1
      BY <1>2
    <3> QED
      BY <1>1, <2>1, <3>1 DEF NothingToStep
  <2>2. turn' - 1 = turn
    BY <1>2
  <2> QED
    BY <2>1, <2>2 DEF NothingToStep
<1> QED
  BY <1>1, <1>3, <1>4 DEF BlockInv, AllSound, BarrierPhases, AlwaysProgress

\* A barrier completes: the warps that wait are exactly the unfinished ones.
LEMMA CompleteInv ==
    ASSUME BlockInv, CompleteBarrier
    PROVE  BlockInv'
<1> USE DEF CompleteBarrier, PassEnds
<1>1. TypeOK /\ AllSound /\ BarrierPhases
  BY DEF BlockInv
<1>2. DOMAIN warps = 1..Len(warps) /\ Len(warps) \in Nat /\ completed \in Nat
      /\ warps \in Seq(WarpStates)
  BY <1>1, LenProperties DEF TypeOK
<1>3. DOMAIN warps' = DOMAIN warps
  OBVIOUS
<1>4. \A w \in DOMAIN warps :
          /\ Sound(warps'[w]) /\ ~warps'[w].parked
          /\ Finished(warps'[w]) <=> Finished(warps[w])
  <2>1. ASSUME NEW w \in DOMAIN warps
        PROVE  /\ Sound(warps'[w]) /\ ~warps'[w].parked
               /\ Finished(warps'[w]) <=> Finished(warps[w])
    <3>1. warps'[w] = Released(warps[w]) /\ Sound(warps[w])
      BY <1>1 DEF AllSound
    <3> QED
      BY <3>1, ReleasedSound DEF Released, Finished, Sound, WarpStates
  <2> QED
    BY <2>1
<1>5. warps' \in Seq(WarpStates) /\ Len(warps') = Len(warps)
  <2>1. warps' \in [1..Len(warps) -> WarpStates]
    BY <1>2, <1>4 DEF Sound
  <2> QED
    BY <1>2, <2>1, IsASeq, LenProperties
<1>6. TypeOK'
  <2>1. turn' \in 1..Len(warps') + 1
    BY <1>2, <1>5
  <2>2. issued' \in [DOMAIN warps' -> Nat] /\ arrivals' \in [DOMAIN warps' -> Nat]
    BY <1>1, <1>3 DEF TypeOK
  <2>3. completed' \in Nat
    BY <1>2
  <2> QED
    BY <1>1, <1>5, <2>1, <2>2, <2>3 DEF TypeOK
<1>7. BarrierPhases'
  <2>1. ASSUME NEW w \in DOMAIN warps
        PROVE  IF Finished(warps'[w])
               THEN ~warps'[w].parked /\ arrivals[w] <= completed + 1
               ELSE arrivals[w] = completed + 1 + (IF warps'[w].parked THEN 1 ELSE 0)
    <3>1. arrivals[w] \in Nat
      BY <1>1 DEF TypeOK
    <3>2. CASE Finished(warps[w])
      BY <1>1, <1>2, <1>4, <3>1, <3>2 DEF BarrierPhases
    <3>3. CASE ~Finished(warps[w])
      <4>1. arrivals[w] = completed + 1
        BY <1>1, <3>3 DEF BarrierPhases, AllParked, Unfinished
      <4> QED
        BY <1>2, <1>4, <3>3, <4>1
    <3> QED
      BY <3>2, <3>3
  <2> QED
    BY <1>3, <2>1 DEF BarrierPhases
<1>8. AllSound'
  BY <1>3, <1>4 DEF AllSound
<1>9. NothingToStep'
  BY DEF NothingToStep
<1> QED
  BY <1>6, <1>7, <1>8, <1>9 DEF BlockInv, AlwaysProgress

\* A pass that found warps running and others waiting has stepped the first.
LEMMA NextPassInv ==
    ASSUME BlockInv, NextPass
    PROVE  BlockInv'
<1>1. TypeOK /\ AllSound /\ BarrierPhases /\ NothingToStep
  BY DEF BlockInv
<1>2. DOMAIN warps = 1..Len(warps) /\ Len(warps) \in Nat
  BY <1>1, LenProperties DEF TypeOK
<1>3. /\ fault = "none" /\ turn = Len(warps) + 1 /\ ~AllParked
      /\ turn' = 1 /\ anyRunnable' = FALSE
      /\ UNCHANGED <<program, warps, issued, arrivals, completed>>
  BY DEF NextPass, PassEnds
<1>4. anyRunnable
  <2>1. PICK w \in DOMAIN warps : ~Finished(warps[w]) /\ ~warps[w].parked
    BY <1>3 DEF AllParked, Unfinished
  <2>2. w \in 1..turn - 1
    BY <1>2, <1>3
  <2> QED
    BY <1>1, <1>3, <2>1, <2>2 DEF NothingToStep
<1>5. fault' = "none"
  BY <1>4 DEF NextPass
<1>6. turn' \in 1..Len(warps') + 1
  BY <1>2, <1>3
<1>7. TypeOK'
  BY <1>1, <1>3, <1>5, <1>6 DEF TypeOK
<1> QED
  BY <1>1, <1>3, <1>5, <1>6, <1>7
  DEF BlockInv, AllSound, BarrierPhases, NothingToStep, AlwaysProgress

LEMMA NextInv == BlockInv /\ [Next]_vars => BlockInv'
<1> SUFFICES ASSUME BlockInv, [Next]_vars PROVE BlockInv'
  OBVIOUS
<1>1. CASE Skip
  BY <1>1, SkipInv
<1>2. CASE Resolve
  BY <1>2, ResolveMoves, MoveInv DEF Moves
<1>3. ASSUME NEW k \in DOMAIN program,
             \/ Bra(program[k]) \/ Exit(program[k]) \/ BarSync(program[k])
             \/ Setp(program[k]) \/ Other(program[k]) \/ Fault(program[k])
      PROVE  BlockInv'
  <2> DEFINE i == program[k]
  <2>1. i \in Instructions
    BY ProgramInstruction
  <2> HIDE DEF i
  <2>2. CASE Fault(i)
    BY <2>2, FaultInv
  <2>3. CASE Bra(i) \/ Exit(i) \/ BarSync(i) \/ Setp(i) \/ Other(i)
    BY <2>1, <2>3, InstructionMoves, MoveInv, ArriveInv DEF Moves, Arrives
  <2> QED
    BY <1>3, <2>2, <2>3 DEF i
<1>4. CASE CompleteBarrier
  BY <1>4, CompleteInv
<1>5. CASE NextPass
  BY <1>5, NextPassInv
<1>6. CASE Ended \/ UNCHANGED vars
  BY <1>6 DEF Ended, vars, BlockInv, TypeOK, AllSound, BarrierPhases, NothingToStep,
              AlwaysProgress
<1> QED
  BY <1>1, <1>2, <1>3, <1>4, <1>5, <1>6 DEF Next

-----------------------------------------------------------------------------
(* Round-robin issue                                                       *)

Running(w) == ~Finished(warps[w]) /\ ~warps[w].parked

\* Of two running warps the earlier is one instruction ahead while the turn is
\* after it and not yet past the later one; otherwise they are level.
InStep ==
    \A v, w \in DOMAIN warps :
        v < w /\ Running(v) /\ Running(w) =>
            issued[v] - issued[w] = IF v < turn /\ turn <= w THEN 1 ELSE 0

\* The turn moves past a running warp that has issued one instruction.
LEMMA IssueInStep ==
    ASSUME BlockInv, InStep, Stepping, NEW x, Issue(x)
    PROVE  InStep'
<1>1. /\ turn \in Nat /\ turn \in DOMAIN warps /\ DOMAIN warps \subseteq Nat
      /\ issued \in [DOMAIN warps -> Nat]
  BY LenProperties DEF BlockInv, TypeOK, Stepping, InPass
<1>2. DOMAIN warps' = DOMAIN warps /\ turn' = turn + 1
  BY DEF Issue
<1>3. \A w \in DOMAIN warps :
          /\ issued'[w] = IF w = turn THEN issued[w] + 1 ELSE issued[w]
          /\ Running(w)' => Running(w)
  <2>1. Running(turn)
    BY DEF Running, Stepping, Current
  <2>2. \A w \in DOMAIN warps : w # turn => warps'[w] = warps[w]
    BY DEF Issue
  <2> QED
    BY <1>1, <2>1, <2>2 DEF Issue, Running
<1>4. ASSUME NEW v \in DOMAIN warps, NEW w \in DOMAIN warps,
             v < w, Running(v)', Running(w)'
      PROVE  issued'[v] - issued'[w] = IF v < turn' /\ turn' <= w THEN 1 ELSE 0
  <2>1. issued[v] - issued[w] = IF v < turn /\ turn <= w THEN 1 ELSE 0
    BY <1>3, <1>4 DEF InStep
  <2>2. v \in Nat /\ w \in Nat /\ issued[v] \in Nat /\ issued[w] \in Nat
    BY <1>1
  <2>3. /\ issued'[v] = IF v = turn THEN issued[v] + 1 ELSE issued[v]
        /\ issued'[w] = IF w = turn THEN issued[w] + 1 ELSE issued[w]
    BY <1>3
  <2> QED
    BY <1>1, <1>2, <1>4, <2>1, <2>2, <2>3
<1> QED
  BY <1>2, <1>4 DEF InStep

\* A turn of resolve_stack's loop may end the warp and starts none.
LEMMA ResolveInStep ==
    ASSUME BlockInv, InStep, Resolve
    PROVE  InStep'
<1>1. PICK x : WarpMoves(x) /\ UNCHANGED <<turn, issued>>
  BY ResolveMoves DEF Moves, Resolve
<1>2. /\ DOMAIN warps' = DOMAIN warps
      /\ \A w \in DOMAIN warps : w # turn => warps'[w] = warps[w]
      /\ Running(turn)
  BY <1>1 DEF WarpMoves, Stepping, Current, Running
<1>3. \A w \in DOMAIN warps : Running(w)' => Running(w)
  BY <1>2 DEF Running
<1> QED
  BY <1>1, <1>2, <1>3 DEF InStep

\* The warp that is passed over is not running.
LEMMA SkipInStep ==
    ASSUME BlockInv, InStep, Skip
    PROVE  InStep'
<1>1. /\ turn \in Nat /\ DOMAIN warps \subseteq Nat /\ ~Running(turn)
      /\ turn' = turn + 1 /\ UNCHANGED <<warps, issued>>
  BY LenProperties DEF BlockInv, TypeOK, Skip, InPass, Current, Running
<1>2. ASSUME NEW v \in DOMAIN warps, NEW w \in DOMAIN warps,
             v < w, Running(v), Running(w)
      PROVE  issued[v] - issued[w] = IF v < turn + 1 /\ turn + 1 <= w THEN 1 ELSE 0
  <2>1. issued[v] - issued[w] = IF v < turn /\ turn <= w THEN 1 ELSE 0
    BY <1>2 DEF InStep
  <2>2. v # turn /\ w # turn
    BY <1>1, <1>2
  <2> QED
    BY <1>1, <2>1, <2>2
<1>3. \A w : Running(w)' <=> Running(w)
  BY <1>1 DEF Running
<1> QED
  BY <1>1, <1>2, <1>3 DEF InStep

\* At the end of a pass, and after a barrier, running warps are level.
LEMMA EndOfPassInStep ==
    ASSUME BlockInv, InStep, CompleteBarrier \/ NextPass
    PROVE  InStep'
<1>1. /\ DOMAIN warps = 1..Len(warps) /\ Len(warps) \in Nat
      /\ turn = Len(warps) + 1 /\ turn' = 1
  BY LenProperties DEF BlockInv, TypeOK, CompleteBarrier, NextPass, PassEnds
<1>2. CASE CompleteBarrier
  <2>1. DOMAIN warps' = DOMAIN warps /\ \A w \in DOMAIN warps : issued'[w] = 0
    BY <1>2 DEF CompleteBarrier
  <2> QED
    BY <1>1, <2>1 DEF InStep
<1>3. CASE NextPass
  <2>1. UNCHANGED <<warps, issued>>
    BY <1>3 DEF NextPass
  <2>2. \A v, w \in DOMAIN warps :
            v < w /\ Running(v) /\ Running(w) => issued[v] - issued[w] = 0
    BY <1>1 DEF InStep
  <2>3. \A w : Running(w)' <=> Running(w)
    BY <2>1 DEF Running
  <2> QED
    BY <1>1, <2>1, <2>2, <2>3 DEF InStep
<1> QED
  BY <1>2, <1>3

LEMMA NextInStep == BlockInv /\ InStep /\ [Next]_vars => InStep'
<1> SUFFICES ASSUME BlockInv, InStep, [Next]_vars PROVE InStep'
  OBVIOUS
<1>1. CASE Skip
  BY <1>1, SkipInStep
<1>2. CASE Resolve
  BY <1>2, ResolveInStep
<1>3. ASSUME NEW i, Bra(i) \/ Exit(i) \/ BarSync(i) \/ Setp(i) \/ Other(i)
      PROVE  InStep'
  <2>1. Stepping /\ \E x : Issue(x)
    BY <1>3 DEF Bra, Exit, BarSync, Setp, Other, Issues
  <2> QED
    BY <2>1, IssueInStep
<1>4. ASSUME NEW i, Fault(i)
      PROVE  InStep'
  BY <1>4 DEF Fault, InStep, Running
<1>5. CASE CompleteBarrier \/ NextPass
  BY <1>5, EndOfPassInStep
<1>6. CASE Ended \/ UNCHANGED vars
  BY <1>6 DEF Ended, vars, InStep, Running
<1> QED
  BY <1>1, <1>2, <1>3, <1>4, <1>5, <1>6 DEF Next

LEMMA InitInStep == Init => InStep
<1> SUFFICES ASSUME Init PROVE InStep
  OBVIOUS
<1>1. turn = 1 /\ DOMAIN warps \subseteq Nat \ {0}
      /\ \A w \in DOMAIN warps : issued[w] = 0
  <2>1. TypeOK
    BY InitInv DEF BlockInv
  <2> QED
    BY <2>1, LenProperties DEF Init, TypeOK
<1> QED
  BY <1>1 DEF InStep

LEMMA InStepIsFair == TypeOK /\ InStep => RoundRobin
<1> SUFFICES ASSUME InStep,
                    NEW v \in Unfinished, ~warps[v].parked,
                    NEW w \in Unfinished, ~warps[w].parked, v < w
             PROVE  issued[v] - issued[w] \in {0, 1}
  BY DEF RoundRobin
<1> QED
  BY DEF InStep, Running, Unfinished

-----------------------------------------------------------------------------
(* Theorems                                                                *)

\* The invariant holds in every reachable state of a block.
THEOREM Invariance == Spec => []BlockInv
BY InitInv, NextInv, PTL DEF Spec

\* Type correctness of the scheduler's state, for blocks of any size.
THEOREM TypeCorrect == Spec => []TypeOK
BY Invariance, PTL DEF BlockInv

\* Every warp of a block keeps the partition of its lanes, and waits converged
\* (warp.cpp:101-110 for every warp run_block steps).
THEOREM WarpsSound == Spec => []AllSound
BY Invariance, PTL DEF BlockInv

\* Barriers keep the warps in phase: no warp passes a barrier before all
\* unfinished warps have arrived at it, and no finished warp is left waiting.
THEOREM WarpsInPhase == Spec => []BarrierPhases
BY Invariance, PTL DEF BlockInv

\* "Cannot happen: an unfinished warp that is not parked is runnable"
\* (device.cpp:98-101): the fault after that comment is never returned.
THEOREM ProgressFaultUnreachable == Spec => []AlwaysProgress
BY Invariance, PTL DEF BlockInv

\* Issue is fair between two barriers at every moment, whichever warps of the
\* block finish, wait or are skipped (device.cpp:44-47).
THEOREM IssueIsFair == Spec => []RoundRobin
<1>1. Spec => []InStep
  BY Invariance, InitInStep, NextInStep, PTL DEF Spec
<1>2. BlockInv /\ InStep => RoundRobin
  BY InStepIsFair DEF BlockInv
<1> QED
  BY Invariance, <1>1, <1>2, PTL

-----------------------------------------------------------------------------
(* The barrier contract of Barrier.tla                                     *)

\* The status of every warp, as the refinement mapping has it.
StatusOf == [w \in DOMAIN warps |-> Status(warps[w])]

LEMMA WarpSizePositive == WarpSize \in Nat \ {0}
BY SimtAssumption, FS_CardinalityType, FS_EmptySet DEF WarpSize

\* The rounding up of (n + W - 1) / W: every warp of a block has a lane.
LEMMA EveryWarpHasLanes ==
    ASSUME NEW n \in BlockSizes, NEW w \in 1..WarpCount(n)
    PROVE  LiveMask(n, w) # {}
<1>1. n \in Nat \ {0} /\ WarpSize \in Nat \ {0}
  BY BlockAssumption, WarpSizePositive
<1>2. WarpCount(n) \in Nat /\ WarpCount(n) * WarpSize <= n + WarpSize - 1
  BY <1>1 DEF WarpCount
<1>3. w * WarpSize <= WarpCount(n) * WarpSize
  BY <1>1, <1>2
<1>4. (w - 1) * WarpSize = w * WarpSize - WarpSize
  BY <1>1
<1>5. (w - 1) * WarpSize + 0 < n
  BY <1>1, <1>2, <1>3, <1>4
<1>6. 0 \in Lanes
  BY <1>1, BlockAssumption
<1> QED
  BY <1>5, <1>6 DEF LiveMask

LEMMA InitContract == Init => Contract!Init
<1> SUFFICES ASSUME Init PROVE Contract!Init
  OBVIOUS
<1>1. PICK n \in BlockSizes :
          /\ warps = [w \in 1..WarpCount(n) |-> NewWarp(LiveMask(n, w))]
          /\ arrivals = [w \in 1..WarpCount(n) |-> 0]
  BY DEF Init
<1>2. \A w \in 1..WarpCount(n) : Status(warps[w]) = "running"
  BY <1>1, EveryWarpHasLanes DEF Status, Finished, NewWarp
<1>3. StatusOf = [w \in 1..WarpCount(n) |-> "running"]
  BY <1>1, <1>2 DEF StatusOf
<1> QED
  BY <1>1, <1>3 DEF Init, Contract!Init, StatusOf

\* A step that changes one running warp only.
LEMMA OneStatus ==
    ASSUME BlockInv, NEW v, WarpMoves(v)
    PROVE  /\ turn \in DOMAIN warps /\ StatusOf[turn] = "running"
           /\ StatusOf' = [StatusOf EXCEPT ![turn] = Status(v)]
<1>1. TypeOK /\ AllSound /\ turn \in DOMAIN warps
      /\ ~Finished(warps[turn]) /\ ~warps[turn].parked
      /\ Sound(v) /\ warps' = [warps EXCEPT ![turn] = v]
  BY DEF BlockInv, WarpMoves, Stepping, InPass, Current
<1>2. /\ DOMAIN warps' = DOMAIN warps
      /\ warps'[turn] = v
      /\ \A w \in DOMAIN warps : w # turn => warps'[w] = warps[w]
  BY <1>1, UpdateWarp
<1>3. StatusOf[turn] = "running"
  BY <1>1 DEF StatusOf, Status
<1>4. StatusOf' = [StatusOf EXCEPT ![turn] = Status(v)]
  BY <1>1, <1>2 DEF StatusOf
<1> QED
  BY <1>1, <1>3, <1>4

\* What is not an arrival is a stutter, or the warp finishes.
LEMMA MoveContract ==
    ASSUME BlockInv, NEW v, WarpMoves(v), ~v.parked, UNCHANGED arrivals
    PROVE  Contract!Next \/ UNCHANGED Contract!vars
<1>1. /\ turn \in DOMAIN warps /\ StatusOf[turn] = "running"
      /\ StatusOf' = [StatusOf EXCEPT ![turn] = Status(v)]
      /\ DOMAIN StatusOf = DOMAIN warps
  BY OneStatus DEF StatusOf
<1>2. UNCHANGED <<arrivals, completed>>
  BY DEF WarpMoves
<1>3. CASE Finished(v)
  <2>1. Contract!Finish(turn)
    BY <1>1, <1>2, <1>3 DEF Contract!Finish, StatusOf, Status
  <2> QED
    BY <1>1, <2>1 DEF Contract!Next, StatusOf
<1>4. CASE ~Finished(v)
  <2>1. Status(v) = "running"
    BY <1>4 DEF Status
  <2>2. [StatusOf EXCEPT ![turn] = "running"] = StatusOf
    BY <1>1 DEF StatusOf
  <2>3. StatusOf' = StatusOf
    BY <1>1, <2>1, <2>2
  <2> QED
    BY <1>2, <2>3 DEF Contract!vars, StatusOf
<1> QED
  BY <1>3, <1>4

\* bar.sync.
LEMMA ArriveContract ==
    ASSUME BlockInv, NEW v, WarpMoves(v), v.parked, ~Finished(v),
           arrivals' = [arrivals EXCEPT ![turn] = @ + 1]
    PROVE  Contract!Next
<1>1. /\ turn \in DOMAIN warps /\ StatusOf[turn] = "running"
      /\ StatusOf' = [StatusOf EXCEPT ![turn] = Status(v)]
      /\ DOMAIN StatusOf = DOMAIN warps
  BY OneStatus DEF StatusOf
<1>2. UNCHANGED completed /\ arrivals[turn] = completed
  <2>1. BarrierPhases /\ completed \in Nat
    BY DEF BlockInv, TypeOK
  <2>2. ~Finished(warps[turn]) /\ ~warps[turn].parked /\ UNCHANGED completed
    BY DEF WarpMoves, Stepping, InPass, Current
  <2> QED
    BY <1>1, <2>1, <2>2 DEF BarrierPhases
<1>3. Status(v) = "waiting"
  BY DEF Status
<1>4. Contract!Arrive(turn)
  BY <1>1, <1>2, <1>3 DEF Contract!Arrive, StatusOf
<1> QED
  BY <1>1, <1>4 DEF Contract!Next, StatusOf

\* The release of the warps that wait.
LEMMA CompleteContract ==
    ASSUME BlockInv, CompleteBarrier
    PROVE  Contract!Next
<1>1. AllSound /\ BarrierPhases /\ Unfinished # {} /\ AllParked
      /\ warps' = [w \in DOMAIN warps |-> Released(warps[w])]
      /\ completed' = completed + 1 /\ UNCHANGED arrivals
  BY DEF BlockInv, CompleteBarrier
<1>2. DOMAIN StatusOf = DOMAIN warps /\ DOMAIN warps' = DOMAIN warps
  BY <1>1 DEF StatusOf
<1>3. ASSUME NEW w \in DOMAIN warps
      PROVE  /\ Status(warps[w]) # "finished" =>
                    Status(warps[w]) = "waiting" /\ arrivals[w] = completed + 1
             /\ Status(warps'[w]) = (IF Status(warps[w]) = "waiting" THEN "running"
                                     ELSE Status(warps[w]))
  <2>1. warps'[w] = Released(warps[w]) /\ warps[w] \in WarpStates
    BY <1>1 DEF AllSound, Sound
  <2>2. warps'[w].live = warps[w].live /\ warps'[w].parked = FALSE
    BY <2>1 DEF Released, WarpStates
  <2>3. CASE Finished(warps[w])
    BY <2>2, <2>3 DEF Status, Finished
  <2>4. CASE ~Finished(warps[w])
    <3>1. warps[w].parked
      BY <1>1, <2>4 DEF AllParked, Unfinished
    <3>2. arrivals[w] = completed + 1
      BY <1>1, <2>4, <3>1 DEF BarrierPhases
    <3> QED
      BY <2>2, <2>4, <3>1, <3>2 DEF Status, Finished
  <2> QED
    BY <2>3, <2>4
<1>4. \E w \in DOMAIN StatusOf : StatusOf[w] = "waiting"
  BY <1>1, <1>2 DEF StatusOf, Status, Unfinished, AllParked
<1>5. \A w \in DOMAIN StatusOf : StatusOf[w] # "finished" =>
          StatusOf[w] = "waiting" /\ arrivals[w] = completed + 1
  BY <1>2, <1>3 DEF StatusOf
<1>6. StatusOf' = [w \in DOMAIN StatusOf |->
                      IF StatusOf[w] = "waiting" THEN "running" ELSE StatusOf[w]]
  BY <1>2, <1>3 DEF StatusOf
<1>7. Contract!Complete
  BY <1>1, <1>4, <1>5, <1>6 DEF Contract!Complete, StatusOf
<1> QED
  BY <1>7 DEF Contract!Next

LEMMA NextContract == BlockInv /\ [Next]_vars => [Contract!Next]_(Contract!vars)
<1> SUFFICES ASSUME BlockInv, [Next]_vars
             PROVE  Contract!Next \/ UNCHANGED Contract!vars
  OBVIOUS
<1>1. CASE UNCHANGED <<warps, arrivals, completed>>
  BY <1>1 DEF Contract!vars
<1>2. CASE Moves
  BY <1>2, MoveContract DEF Moves
<1>3. CASE Arrives
  BY <1>3, ArriveContract DEF Arrives
<1>4. CASE Resolve
  BY <1>2, <1>4, ResolveMoves
<1>5. ASSUME NEW k \in DOMAIN program,
             \/ Bra(program[k]) \/ Exit(program[k]) \/ BarSync(program[k])
             \/ Setp(program[k]) \/ Other(program[k])
      PROVE  Contract!Next \/ UNCHANGED Contract!vars
  BY <1>2, <1>3, <1>5, ProgramInstruction, InstructionMoves
<1>6. ASSUME NEW k \in DOMAIN program, Fault(program[k])
      PROVE  Contract!Next \/ UNCHANGED Contract!vars
  BY <1>1, <1>6 DEF Fault
<1>7. CASE CompleteBarrier
  BY <1>7, CompleteContract
<1>8. CASE Skip \/ NextPass \/ Ended \/ UNCHANGED vars
  BY <1>1, <1>8 DEF Skip, NextPass, Ended, vars
<1> QED
  BY <1>4, <1>5, <1>6, <1>7, <1>8 DEF Next

\* run_block implements the barrier contract: a warp that arrives waits until
\* every warp of the block that has not finished has arrived as often, then all
\* of them go on (device.cpp:79-97, wisa-spec.md:123).
THEOREM BlockImplementsBarrier == Spec => BarrierContract
<1>1. Init => Contract!Init
  BY InitContract
<1>2. BlockInv /\ [Next]_vars => [Contract!Next]_(Contract!vars)
  BY NextContract
<1> QED
  BY <1>1, <1>2, Invariance, PTL DEF Spec, BarrierContract, Contract!Spec

-----------------------------------------------------------------------------
(* What the launches so far and the block that runs have left              *)

Spaces == {"global", "shared"}
Cells(space) == IF space = "global" THEN GlobalCells ELSE SharedCells
Words(space) == 0..Cells(space) - 1
Events == [epoch : Nat, phase : Nat, warp : Nat, number : Nat, lane : Nat]
Places == [space : Spaces, epoch : Nat, cell : Nat]
StoreType == [place : Places, event : Events]
LoadType == [place : Places, event : Events, from : Events]

DataTypeOK ==
    /\ running \in BOOLEAN /\ epoch \in Nat
    /\ memory \in [global : [Words("global") -> Events], shared : [Words("shared") -> Events]]
    /\ stored \in SUBSET StoreType /\ loaded \in SUBSET LoadType

\* A block that runs is one of the launch, and its warps have only lanes that it has.
BlockOK ==
    /\ BlockInv
    /\ program \in Programs /\ size \in BlockSizes /\ blocks \in GridSizes
    /\ block \in 0..blocks - 1
    /\ DOMAIN warps = 1..WarpCount(size)
    /\ \A w \in DOMAIN warps : warps[w].live \subseteq LiveMask(size, w)

\* Nothing that a lane does from now on comes before e.
Past(e) ==
    /\ e.epoch <= epoch
    /\ running /\ fault = "none" /\ e.epoch = epoch =>
           \/ e.phase < completed
           \/ e.phase = completed /\ e.warp \in DOMAIN warps /\ e.number < issued[e.warp]

AllPast ==
    /\ \A s \in stored : Past(s.event) /\ s.place.epoch <= epoch
    /\ \A r \in loaded : Past(r.event)

\* A word holds a last store of its place, in an order of all stores.
StoresAt(place, S) == {s.event : s \in {t \in S : t.place = place}}
Latest(m, place, S) ==
    /\ m \in StoresAt(place, S) \cup {Zeroed}
    /\ \A s \in StoresAt(place, S) : ~Before(m, s)

AllLatest ==
    \A space \in Spaces : space = "global" \/ running =>
        \A c \in Words(space) : Latest(memory[space][c], Place(space, c), stored)

\* LoadsInOrder for one load.
InOrder(load, S) ==
    /\ load.from \in StoresAt(load.place, S) \cup {Zeroed}
    /\ ~Before(load.event, load.from)
    /\ \A s \in StoresAt(load.place, S) : Before(s, load.event) => ~Before(load.from, s)

\* The inductive invariant.
DeviceInv ==
    /\ DataTypeOK /\ (running => BlockOK)
    /\ AllPast /\ AllLatest /\ \A load \in loaded : InOrder(load, stored)

-----------------------------------------------------------------------------
(* The order of events                                                     *)

LEMMA PlacedEvent ==
    ASSUME NEW S, NEW place, NEW e
    PROVE  e \in StoresAt(place, S) <=> \E s \in S : s.place = place /\ s.event = e
BY DEF StoresAt

\* Nothing comes before what memory starts with.
LEMMA ZeroedFirst ==
    ASSUME NEW e \in Events
    PROVE  Zeroed \in Events /\ ~Before(e, Zeroed)
<1>1. Zeroed = [epoch |-> 0, phase |-> 0, warp |-> 0, number |-> 0, lane |-> 0]
  BY DEF Zeroed, Event
<1>2. /\ Zeroed \in Events
      /\ Zeroed.epoch = 0 /\ Zeroed.phase = 0 /\ Zeroed.number = 0 /\ Zeroed.lane = 0
  BY <1>1 DEF Events
<1>3. e.epoch \in Nat /\ e.phase \in Nat /\ e.number \in Nat /\ e.lane \in Nat
  BY DEF Events
<1> QED
  BY <1>2, <1>3 DEF Before

\* Stores later than every load so far leave these loads in order.
LEMMA LaterStores ==
    ASSUME NEW load, NEW S, NEW N, InOrder(load, S),
           \A n \in N : ~Before(n.event, load.event)
    PROVE  InOrder(load, S \cup N)
<1>1. \A s \in StoresAt(load.place, S \cup N) :
          s \in StoresAt(load.place, S) \/ ~Before(s, load.event)
  BY PlacedEvent
<1>2. StoresAt(load.place, S) \subseteq StoresAt(load.place, S \cup N)
  BY PlacedEvent
<1> QED
  BY <1>1, <1>2 DEF InOrder

\* Stores at other places.
LEMMA OtherStores ==
    ASSUME NEW m, NEW place, NEW S, NEW N, Latest(m, place, S),
           \A n \in N : n.place # place
    PROVE  Latest(m, place, S \cup N)
<1>1. \A e : e \in StoresAt(place, S \cup N) <=> e \in StoresAt(place, S)
  BY PlacedEvent
<1>2. StoresAt(place, S \cup N) = StoresAt(place, S)
  BY <1>1
<1> QED
  BY <1>2 DEF Latest

\* The last of some stores that are later than those before.
LEMMA LastStore ==
    ASSUME NEW place, NEW S, NEW N, NEW last \in N, last.place = place,
           \A s \in S : ~Before(last.event, s.event),
           \A n \in N : n.place = place => ~Before(last.event, n.event)
    PROVE  Latest(last.event, place, S \cup N)
<1>1. last.event \in StoresAt(place, S \cup N)
  BY PlacedEvent
<1>2. ASSUME NEW e \in StoresAt(place, S \cup N)
      PROVE  ~Before(last.event, e)
  <2>1. PICK s \in S \cup N : s.place = place /\ s.event = e
    BY PlacedEvent
  <2> QED
    BY <2>1
<1> QED
  BY <1>1, <1>2 DEF Latest

\* A load later than every store so far.
LEMMA LoadOfLatest ==
    ASSUME NEW m, NEW place, NEW S, NEW e \in Events, Latest(m, place, S),
           \A s \in S : ~Before(e, s.event)
    PROVE  InOrder([place |-> place, event |-> e, from |-> m], S)
<1>1. ~Before(e, m)
  <2>1. CASE m = Zeroed
    BY <2>1, ZeroedFirst
  <2>2. CASE m \in StoresAt(place, S)
    BY <2>2, PlacedEvent
  <2> QED
    BY <2>1, <2>2 DEF Latest
<1> QED
  BY <1>1 DEF InOrder, Latest

\* The greatest of some lanes, and the least.
LEMMA MinOf ==
    ASSUME NEW S \in SUBSET Nat, S # {}
    PROVE  Min(S) \in S /\ \A s \in S : Min(S) <= s
<1>1. \E x \in S : \A y \in S : <<y, x>> \notin OpToRel(<, Nat)
  BY NatLessThanWellFounded, WFMin
<1>2. \A x, y \in S : <<y, x>> \notin OpToRel(<, Nat) => x =< y
  BY DEF OpToRel
<1>3. \E x \in S : \A y \in S : x =< y
  BY <1>1, <1>2
<1> QED
  BY <1>3 DEF Min

LEMMA MaxOf ==
    ASSUME NEW S \in SUBSET Nat, S # {}, NEW n \in Nat, \A s \in S : s < n
    PROVE  Max(S) \in S /\ \A s \in S : s <= Max(S)
<1> DEFINE Gap == {m \in Nat : n - m \in S}
<1>1. \A s \in S : s \in Nat /\ n - s \in Gap
  OBVIOUS
<1>2. PICK g \in Gap : \A h \in Gap : g <= h
  <2>1. Gap \in SUBSET Nat /\ Gap # {}
    BY <1>1
  <2> HIDE DEF Gap
  <2> QED
    BY <2>1, MinOf
<1>3. g \in Nat /\ n - g \in S /\ \A s \in S : s \in Nat /\ g <= n - s
  BY <1>1, <1>2
<1> HIDE DEF Gap
<1>4. \E x \in S : \A y \in S : x >= y
  <2>1. \A y \in S : n - g >= y
    BY <1>3
  <2> QED
    BY <1>3, <2>1
<1> QED
  BY <1>4 DEF Max

-----------------------------------------------------------------------------
(* The steps of a block                                                    *)

\* No instruction, and no turn of resolve_stack, gives a warp a lane.
LEMMA LanesRetireOnly ==
    ASSUME NEW w, Sound(w), NEW i, NEW x
    PROVE  /\ Rejoined(w).live = w.live /\ Resumed(w).live = w.live
           /\ Retire(w, x).live \subseteq w.live /\ Advance(w).live = w.live
           /\ Jumped(i, w).live = w.live /\ Diverged(i, w).live = w.live
           /\ Exited(i, w).live \subseteq w.live /\ Parked(w).live = w.live
           /\ Released(w).live = w.live /\ Compared(i, w, x).live = w.live
<1>1. w \in WarpStates
  BY DEF Sound
<1>2. \A v, e, a : "live" \in DOMAIN v =>
          SwitchTo(v, e, a).live = v.live /\ "live" \in DOMAIN SwitchTo(v, e, a)
  BY DEF SwitchTo
<1>3. Popped(w).live = w.live /\ "live" \in DOMAIN Popped(w)
  BY <1>1 DEF Popped, WarpStates
<1>4. Resumed(w).live = w.live
  BY <1>2, <1>3 DEF Resumed
<1>5. Rejoined(w).live = w.live
  <2> DEFINE v == SwitchTo(Popped(w), Top(w.stack), w.active)
  <2>1. v.live = w.live /\ "live" \in DOMAIN v
    BY <1>2, <1>3
  <2> HIDE DEF v
  <2>2. [v EXCEPT !.reconverged = @ + 1].live = v.live
    BY <2>1
  <2> QED
    BY <2>1, <2>2 DEF Rejoined, v
<1>6. \A y : /\ Retire(w, y).live = w.live \ y /\ "live" \in DOMAIN Retire(w, y)
             /\ Advance(Retire(w, y)).live = w.live \ y
  BY <1>1 DEF Retire, Advance, WarpStates
<1>7. Advance(w).live = w.live /\ "live" \in DOMAIN Advance(w)
  BY <1>1 DEF Advance, WarpStates
<1>8. Jumped(i, w).live = w.live /\ Diverged(i, w).live = w.live
  BY <1>1, <1>7 DEF Jumped, Diverged, WarpStates
<1>9. Parked(w).live = w.live /\ Compared(i, w, x).live = w.live
  BY <1>7 DEF Parked, Compared
<1>10. Released(w).live = w.live
  BY <1>1 DEF Released, WarpStates
<1> QED
  BY <1>4, <1>5, <1>6, <1>7, <1>8, <1>9, <1>10 DEF Exited

\* What a step of a block does to what the invariant says of its warps.
StepKeeps ==
    /\ program' = program /\ DOMAIN warps' = DOMAIN warps
    /\ \A w \in DOMAIN warps : warps'[w].live \subseteq warps[w].live
    /\ fault = "none"
    /\ \/ fault' # "none"
       \/ completed' = completed + 1
       \/ completed' = completed /\ \A w \in DOMAIN warps : issued[w] <= issued'[w]

LEMMA IssueKeeps ==
    ASSUME BlockInv, Stepping, NEW v, Issue(v), v.live \subseteq Current.live
    PROVE  StepKeeps
<1>1. turn \in DOMAIN warps /\ fault = "none" /\ issued \in [DOMAIN warps -> Nat]
  BY DEF BlockInv, TypeOK, Stepping, InPass
<1>2. /\ DOMAIN warps' = DOMAIN warps
      /\ \A w \in DOMAIN warps : warps'[w] = IF w = turn THEN v ELSE warps[w]
  BY DEF Issue
<1>3. \A w \in DOMAIN warps : issued'[w] = issued[w] + (IF w = turn THEN 1 ELSE 0)
  BY <1>1 DEF Issue
<1>4. \A w \in DOMAIN warps : issued[w] <= issued'[w]
  BY <1>1, <1>3
<1> QED
  BY <1>1, <1>2, <1>4 DEF Issue, StepKeeps, Current

LEMMA InstructionKeeps ==
    ASSUME BlockInv, NEW i,
           Bra(i) \/ Exit(i) \/ BarSync(i) \/ Setp(i) \/ Other(i) \/ Fault(i)
    PROVE  StepKeeps
<1>1. Stepping /\ turn \in DOMAIN warps /\ fault = "none"
  BY DEF Bra, Exit, BarSync, Setp, Other, Fault, Issues, Stepping, InPass
<1>2. Sound(Current)
  BY <1>1 DEF BlockInv, AllSound, Current
<1>3. CASE Bra(i)
  <2>1. Issue(Diverged(i, Current)) \/ Issue(Jumped(i, Current))
    BY <1>3 DEF Bra
  <2> QED
    BY <1>1, <1>2, <2>1, LanesRetireOnly, IssueKeeps
<1>4. CASE Exit(i)
  BY <1>1, <1>2, <1>4, LanesRetireOnly, IssueKeeps DEF Exit
<1>5. CASE BarSync(i)
  BY <1>1, <1>2, <1>5, LanesRetireOnly, IssueKeeps DEF BarSync
<1>6. CASE Setp(i)
  BY <1>1, <1>2, <1>6, LanesRetireOnly, IssueKeeps DEF Setp
<1>7. CASE Other(i)
  BY <1>1, <1>2, <1>7, LanesRetireOnly, IssueKeeps DEF Other
<1>8. CASE Fault(i)
  BY <1>1, <1>8 DEF Fault, StepKeeps
<1> QED
  BY <1>3, <1>4, <1>5, <1>6, <1>7, <1>8

LEMMA SchedulerKeeps ==
    ASSUME BlockInv, Skip \/ Resolve \/ CompleteBarrier \/ NextPass
    PROVE  StepKeeps
<1>1. /\ issued \in [DOMAIN warps -> Nat]
      /\ \A w \in DOMAIN warps : Sound(warps[w])
  BY DEF BlockInv, TypeOK, AllSound
<1>2. CASE Skip \/ NextPass
  <2>1. \A w \in DOMAIN warps : issued[w] <= issued[w]
    BY <1>1
  <2> QED
    BY <1>2, <2>1 DEF Skip, InPass, NextPass, PassEnds, StepKeeps
<1>3. CASE Resolve
  <2>1. Stepping /\ fault = "none" /\ turn \in DOMAIN warps /\ UNCHANGED <<program, issued, completed>>
    BY <1>3 DEF Resolve, Stepping, InPass
  <2>2. PICK v : v.live \subseteq warps[turn].live /\ warps' = [warps EXCEPT ![turn] = v]
    <3>1. Sound(warps[turn])
      BY <1>1, <2>1
    <3>2. \/ warps' = [warps EXCEPT ![turn] = Rejoined(warps[turn])]
          \/ warps' = [warps EXCEPT ![turn] = Resumed(warps[turn])]
          \/ warps' = [warps EXCEPT ![turn] = Retire(warps[turn], warps[turn].active)]
      BY <1>3 DEF Resolve
    <3> QED
      BY <3>1, <3>2, LanesRetireOnly
  <2>3. /\ DOMAIN warps' = DOMAIN warps
        /\ \A w \in DOMAIN warps : warps'[w] = IF w = turn THEN v ELSE warps[w]
    BY <2>2
  <2>4. \A w \in DOMAIN warps : issued[w] <= issued'[w]
    BY <1>1, <2>1
  <2> QED
    BY <2>1, <2>2, <2>3, <2>4 DEF StepKeeps
<1>4. CASE CompleteBarrier
  <2>1. /\ DOMAIN warps' = DOMAIN warps
        /\ \A w \in DOMAIN warps : warps'[w] = Released(warps[w])
    BY <1>4 DEF CompleteBarrier
  <2>2. \A w \in DOMAIN warps : warps'[w].live = warps[w].live
    BY <1>1, <2>1, LanesRetireOnly
  <2> QED
    BY <1>4, <2>1, <2>2 DEF CompleteBarrier, PassEnds, StepKeeps
<1> QED
  BY <1>2, <1>3, <1>4

LEMMA StepOK ==
    ASSUME BlockOK, StepKeeps, BlockInv', UNCHANGED geometry
    PROVE  BlockOK'
<1>1. ASSUME NEW w \in DOMAIN warps'
      PROVE  warps'[w].live \subseteq LiveMask(size, w)
  BY <1>1 DEF StepKeeps, BlockOK
<1> QED
  BY <1>1 DEF StepKeeps, BlockOK, geometry

\* What is past stays past: the warps issue more, and a barrier is completed after all
\* that they have issued before.
LEMMA StepPast ==
    ASSUME BlockOK, StepKeeps, UNCHANGED <<running, epoch>>, BlockInv',
           NEW e \in Events, Past(e)
    PROVE  Past(e)'
<1>1. e.phase \in Nat /\ e.number \in Nat /\ completed \in Nat
  BY DEF Events, BlockOK, BlockInv, TypeOK
<1>2. /\ \A w \in DOMAIN warps : issued[w] \in Nat
      /\ \A w \in DOMAIN warps' : issued'[w] \in Nat
      /\ DOMAIN warps' = DOMAIN warps
  BY DEF BlockOK, BlockInv, TypeOK, StepKeeps
<1>3. e.epoch <= epoch'
  BY DEF Past
<1>4. ASSUME running', fault' = "none", e.epoch = epoch'
      PROVE  \/ e.phase < completed'
             \/ /\ e.phase = completed' /\ e.warp \in DOMAIN warps'
                /\ e.number < issued'[e.warp]
  <2>1. \/ e.phase < completed
        \/ e.phase = completed /\ e.warp \in DOMAIN warps /\ e.number < issued[e.warp]
    BY <1>4 DEF Past, StepKeeps
  <2>2. CASE completed' = completed + 1
    BY <1>1, <2>1, <2>2
  <2>3. CASE completed' = completed /\ \A w \in DOMAIN warps : issued[w] <= issued'[w]
    BY <1>1, <1>2, <2>1, <2>3
  <2> QED
    BY <1>4, <2>2, <2>3 DEF StepKeeps
<1> QED
  BY <1>3, <1>4 DEF Past

\* A step that leaves the memories alone.
LEMMA ControlInv ==
    ASSUME DeviceInv, Control
    PROVE  DeviceInv'
<1>1. running /\ BlockOK /\ BlockInv /\ UNCHANGED <<running, geometry, epoch, data>>
  BY DEF Control, DeviceInv, BlockOK
<1>2. StepKeeps
  BY <1>1, InstructionKeeps, SchedulerKeeps DEF Control
<1>3. BlockInv'
  <2>1. Next
    BY DEF Control, Next
  <2> QED
    BY <1>1, <2>1, NextInv
<1>4. BlockOK'
  BY <1>1, <1>2, <1>3, StepOK
<1>5. AllPast'
  <2>1. \A e \in Events : Past(e) => Past(e)'
    BY <1>1, <1>2, <1>3, StepPast
  <2>2. (\A s \in stored : s.event \in Events) /\ (\A r \in loaded : r.event \in Events)
    BY DEF DeviceInv, DataTypeOK, StoreType, LoadType
  <2> QED
    BY <1>1, <2>1, <2>2 DEF DeviceInv, AllPast, data
<1>6. DataTypeOK' /\ AllLatest' /\ \A load \in loaded' : InOrder(load, stored')
  BY <1>1 DEF DeviceInv, DataTypeOK, AllLatest, Place, data
<1> QED
  BY <1>4, <1>5, <1>6 DEF DeviceInv

-----------------------------------------------------------------------------
(* The accesses of an instruction                                          *)

LEMMA MemoryType ==
    ASSUME DataTypeOK, NEW space \in Spaces
    PROVE  /\ DOMAIN memory = Spaces /\ memory[space] \in [Words(space) -> Events]
           /\ Words(space) \subseteq Nat
BY DeviceAssumption DEF DataTypeOK, Spaces, Words, Cells

LEMMA PlaceType ==
    ASSUME DataTypeOK, NEW space \in Spaces, NEW c \in Nat
    PROVE  /\ Place(space, c) \in Places
           /\ Place(space, c).space = space /\ Place(space, c).cell = c
           /\ Place(space, c).epoch <= epoch
BY DEF DataTypeOK, Place, GlobalPlace, Places, Spaces

\* The event of a lane of the warp that steps is none that is past, and the lanes of one
\* instruction are in order.
LEMMA LaneEventLast ==
    ASSUME DataTypeOK, BlockOK, running, Stepping, NEW l \in Lanes
    PROVE  /\ LaneEvent(l) \in Events /\ LaneEvent(l).epoch = epoch
           /\ LaneEvent(l).phase = completed /\ LaneEvent(l).warp = turn
           /\ LaneEvent(l).number = issued[turn]
           /\ \A e \in Events : Past(e) => ~Before(LaneEvent(l), e)
           /\ \A m \in Lanes : m <= l => ~Before(LaneEvent(l), LaneEvent(m))
<1>1. /\ turn \in DOMAIN warps /\ fault = "none"
      /\ ~Finished(warps[turn]) /\ ~warps[turn].parked
  BY DEF Stepping, InPass, Current
<1>2. /\ turn \in Nat /\ arrivals[turn] = completed /\ completed \in Nat
      /\ issued[turn] \in Nat /\ epoch \in Nat
  BY <1>1, LenProperties DEF BlockOK, BlockInv, TypeOK, BarrierPhases, DataTypeOK
<1>3. \A m \in Lanes : m \in Nat
  BY WarpSizePositive, BlockAssumption
<1>4. \A m \in Lanes : LaneEvent(m) =
          [epoch |-> epoch, phase |-> completed, warp |-> turn, number |-> issued[turn],
           lane |-> m]
  BY <1>2 DEF LaneEvent, Event
<1> DEFINE f == LaneEvent(l)
<1>5. /\ f \in Events /\ f.epoch = epoch /\ f.phase = completed /\ f.warp = turn
      /\ f.number = issued[turn] /\ f.lane = l
  BY <1>2, <1>3, <1>4 DEF Events
<1>6. ASSUME NEW m \in Lanes, m <= l
      PROVE  ~Before(f, LaneEvent(m))
  BY <1>2, <1>3, <1>4, <1>5, <1>6 DEF Before
<1> HIDE DEF f
<1>7. ASSUME NEW e \in Events, Past(e)
      PROVE  ~Before(f, e)
  <2>1. e.epoch \in Nat /\ e.phase \in Nat /\ e.number \in Nat /\ e.epoch <= epoch
    BY <1>7 DEF Events, Past
  <2>2. CASE e.epoch = epoch
    <3>1. \/ e.phase < completed
          \/ e.phase = completed /\ e.number < issued[e.warp]
      BY <1>1, <1>7, <2>2 DEF Past
    <3> QED
      BY <1>2, <1>5, <2>1, <2>2, <3>1 DEF Before
  <2>3. CASE e.epoch # epoch
    BY <1>2, <1>5, <2>1, <2>3 DEF Before
  <2> QED
    BY <2>2, <2>3
<1> QED
  BY <1>5, <1>6, <1>7 DEF f

\* A lane that executes an access is one of the block, and has a word.
LEMMA CellType ==
    ASSUME BlockOK, Stepping, NEW k \in DOMAIN program, program[k].op = "memory",
           NEW l \in Exec(program[k], Current)
    PROVE  /\ Accesses[program[k].target] \in AccessType
           /\ l \in Lanes /\ Cell(program[k], l) \in Nat
<1> DEFINE a == Accesses[program[k].target]
           t == (turn - 1) * WarpSize + l
<1>1. a \in AccessType
  BY DeviceAssumption DEF BlockOK
<1>2. /\ turn \in DOMAIN warps /\ turn \in Nat \ {0} /\ Sound(Current)
  BY LenProperties DEF BlockOK, BlockInv, TypeOK, AllSound, Stepping, InPass, Current
<1>3. l \in Current.active /\ l \in Lanes
  BY <1>2 DEF Exec, Sound, WarpStates
<1>4. l \in LiveMask(size, turn)
  <2>1. l \in Current.live
    BY <1>2, <1>3 DEF Sound, Partitioned, Partition, MasksCover
  <2> QED
    BY <1>2, <2>1 DEF BlockOK, Current
<1>5. t \in Threads
  <2>1. size \in BlockSizes /\ size \in Nat /\ WarpSize \in Nat /\ l \in Nat /\ t < size
    BY <1>3, <1>4, BlockAssumption, WarpSizePositive DEF BlockOK, LiveMask
  <2>2. (turn - 1) * WarpSize \in Nat
    BY <1>2, <2>1
  <2>3. t \in 0..size - 1
    BY <2>1, <2>2
  <2> HIDE DEF t
  <2> QED
    BY <2>1, <2>3 DEF Threads
<1>6. block \in BlockIndices
  BY DEF BlockOK, BlockIndices
<1>7. a.cell[<<block, t>>] \in Nat
  <2> HIDE DEF a, t
  <2> QED
    BY <1>1, <1>5, <1>6 DEF AccessType
<1> QED
  BY <1>1, <1>3, <1>7 DEF Cell

\* What the accesses of one instruction leave of the invariant: what is stored and loaded
\* is new only with events of its lanes.
Performed(lanes) ==
    /\ DataTypeOK' /\ AllLatest' /\ \A load \in loaded' : InOrder(load, stored')
    /\ \A s \in stored' :
           \/ s \in stored
           \/ s.place.epoch <= epoch /\ \E l \in lanes : s.event = LaneEvent(l)
    /\ \A r \in loaded' : r \in loaded \/ \E l \in lanes : r.event = LaneEvent(l)

\* The context of the lemmas that follow: lanes of the current warp access words.
Accessing(i, lanes) ==
    /\ DeviceInv /\ running /\ Stepping
    /\ Accesses[i.target] \in AccessType
    /\ lanes \in SUBSET Lanes
    /\ \A l \in lanes : Cell(i, l) \in Words(Accesses[i.target].space)
    /\ UNCHANGED <<running, epoch>>

LEMMA AccessContext ==
    ASSUME NEW i, NEW lanes, Accessing(i, lanes)
    PROVE  /\ DataTypeOK /\ BlockOK /\ AllLatest
           /\ \A load \in loaded : InOrder(load, stored)
           /\ Accesses[i.target].space \in Spaces
           /\ \A l \in lanes :
                  /\ LaneEvent(l) \in Events
                  /\ \A m \in lanes : m <= l => ~Before(LaneEvent(l), LaneEvent(m))
                  /\ \A s \in stored : ~Before(LaneEvent(l), s.event)
                  /\ \A r \in loaded : ~Before(LaneEvent(l), r.event)
           /\ \A l \in lanes :
                  /\ Place(Accesses[i.target].space, Cell(i, l)) \in Places
                  /\ Place(Accesses[i.target].space, Cell(i, l)).epoch <= epoch
<1>1. /\ DataTypeOK /\ BlockOK /\ AllLatest /\ AllPast /\ running /\ Stepping
      /\ \A load \in loaded : InOrder(load, stored)
  BY DEF Accessing, DeviceInv
<1>2. Accesses[i.target].space \in Spaces /\ lanes \in SUBSET Lanes
  BY DEF Accessing, AccessType, Spaces
<1>3. \A s \in stored : s.event \in Events /\ Past(s.event)
  BY <1>1 DEF DataTypeOK, StoreType, AllPast
<1>4. \A r \in loaded : r.event \in Events /\ Past(r.event)
  BY <1>1 DEF DataTypeOK, LoadType, AllPast
<1>5. ASSUME NEW l \in lanes
      PROVE  /\ LaneEvent(l) \in Events
             /\ \A m \in lanes : m <= l => ~Before(LaneEvent(l), LaneEvent(m))
             /\ \A s \in stored : ~Before(LaneEvent(l), s.event)
             /\ \A r \in loaded : ~Before(LaneEvent(l), r.event)
  BY <1>1, <1>2, <1>3, <1>4, LaneEventLast
<1>6. ASSUME NEW l \in lanes
      PROVE  /\ Place(Accesses[i.target].space, Cell(i, l)) \in Places
             /\ Place(Accesses[i.target].space, Cell(i, l)).epoch <= epoch
  <2>1. Cell(i, l) \in Nat
    BY <1>1, <1>2, MemoryType DEF Accessing
  <2> QED
    BY <1>1, <1>2, <2>1, PlaceType
<1> QED
  BY <1>1, <1>2, <1>5, <1>6

LEMMA StorePerformed ==
    ASSUME NEW i, NEW lanes, Accessing(i, lanes), Perform(i, lanes), Accesses[i.target].store
    PROVE  Performed(lanes)
<1> DEFINE space == Accesses[i.target].space
           at(c) == {l \in lanes : Cell(i, l) = c}
           N == {[place |-> Place(space, Cell(i, l)), event |-> LaneEvent(l)] : l \in lanes}
<1>1. /\ DataTypeOK /\ BlockOK /\ AllLatest
      /\ \A load \in loaded : InOrder(load, stored)
      /\ space \in Spaces
  BY AccessContext
<1>2. ASSUME NEW l \in lanes
      PROVE  /\ l \in Lanes /\ Cell(i, l) \in Words(space) /\ LaneEvent(l) \in Events
             /\ \A m \in lanes : m <= l => ~Before(LaneEvent(l), LaneEvent(m))
             /\ \A s \in stored : ~Before(LaneEvent(l), s.event)
             /\ \A r \in loaded : ~Before(LaneEvent(l), r.event)
             /\ Place(space, Cell(i, l)) \in Places
             /\ Place(space, Cell(i, l)).epoch <= epoch
  BY AccessContext DEF Accessing
<1>3. /\ memory' = [memory EXCEPT ![space] =
             [c \in DOMAIN memory[space] |->
                 IF at(c) = {} THEN memory[space][c] ELSE LaneEvent(Prevailing(at(c)))]]
      /\ stored' = stored \cup N
      /\ loaded' = loaded /\ running' = running /\ epoch' = epoch
  BY DEF Perform, Accessing
<1>4. \A n \in N : \E l \in lanes :
          n.place = Place(space, Cell(i, l)) /\ n.event = LaneEvent(l)
  OBVIOUS
<1>5. \A l \in lanes : \E n \in N :
          n.place = Place(space, Cell(i, l)) /\ n.event = LaneEvent(l)
  <2> SUFFICES ASSUME NEW l \in lanes
               PROVE  \E n \in N : n.place = Place(space, Cell(i, l)) /\ n.event = LaneEvent(l)
    OBVIOUS
  <2> WITNESS [place |-> Place(space, Cell(i, l)), event |-> LaneEvent(l)] \in N
  <2> QED
    OBVIOUS
<1>6. N \in SUBSET StoreType
  BY <1>2 DEF StoreType
<1> HIDE DEF N
<1>7. \A c : at(c) # {} => Prevailing(at(c)) \in at(c)
                           /\ \A l \in at(c) : l <= Prevailing(at(c))
  <2> SUFFICES ASSUME NEW c, at(c) # {}
               PROVE  Prevailing(at(c)) \in at(c) /\ \A l \in at(c) : l <= Prevailing(at(c))
    OBVIOUS
  <2>1. WarpSize \in Nat /\ \A l \in at(c) : l \in Nat /\ l < WarpSize
    BY <1>2, BlockAssumption, WarpSizePositive
  <2>2. at(c) \in SUBSET Nat
    BY <2>1
  <2> HIDE DEF at
  <2> QED
    BY <2>1, <2>2, MaxOf DEF Prevailing
<1>8. \A c : at(c) \subseteq lanes /\ \A l \in lanes : l \in at(c) <=> Cell(i, l) = c
  OBVIOUS
<1> HIDE DEF at
<1>9. DOMAIN memory = Spaces /\ DOMAIN memory[space] = Words(space)
      /\ memory[space] \in [Words(space) -> Events] /\ Words(space) \subseteq Nat
  BY <1>1, MemoryType
<1> DEFINE words == [c \in Words(space) |->
               IF at(c) = {} THEN memory[space][c] ELSE LaneEvent(Prevailing(at(c)))]
<1>10. /\ memory'[space] = words
       /\ \A other \in Spaces : other # space => memory'[other] = memory[other]
       /\ \A c \in Words(space) : memory'[space][c] =
              IF at(c) = {} THEN memory[space][c] ELSE LaneEvent(Prevailing(at(c)))
  <2>1. memory' = [memory EXCEPT ![space] = words]
    BY <1>3, <1>9
  <2>2. \A c \in Words(space) : words[c] =
            IF at(c) = {} THEN memory[space][c] ELSE LaneEvent(Prevailing(at(c)))
    OBVIOUS
  <2> HIDE DEF words
  <2>3. memory'[space] = words /\ \A other \in Spaces : other # space => memory'[other] = memory[other]
    BY <1>1, <1>9, <2>1
  <2> QED
    BY <2>2, <2>3
<1>11. memory'[space] \in [Words(space) -> Events]
  <2>1. \A c \in Words(space) : words[c] \in Events
    BY <1>2, <1>7, <1>8, <1>9
  <2> QED
    BY <1>10, <2>1
<1>12. DataTypeOK'
  <2>1. memory' \in [global : [Words("global") -> Events], shared : [Words("shared") -> Events]]
    BY <1>1, <1>3, <1>10, <1>11 DEF DataTypeOK, Spaces
  <2> QED
    BY <1>1, <1>3, <1>6, <2>1 DEF DataTypeOK
<1>13. \A load \in loaded' : InOrder(load, stored')
  <2> SUFFICES ASSUME NEW load \in loaded
               PROVE  InOrder(load, stored \cup N)
    BY <1>3
  <2>1. \A n \in N : ~Before(n.event, load.event)
    BY <1>2, <1>4
  <2> QED
    BY <1>1, <2>1, LaterStores
<1>14. AllLatest'
  <2> SUFFICES ASSUME NEW other \in Spaces, other = "global" \/ running,
                      NEW c \in Words(other)
               PROVE  Latest(memory'[other][c], Place(other, c), stored \cup N)
    BY <1>3 DEF AllLatest, Place
  <2>1. Latest(memory[other][c], Place(other, c), stored) /\ c \in Nat
    BY <1>1, MemoryType DEF AllLatest
  <2>2. ASSUME NEW l \in lanes, Place(space, Cell(i, l)) = Place(other, c)
        PROVE  space = other /\ Cell(i, l) = c
    <3>1. Cell(i, l) \in Nat
      BY <1>2, <1>9
    <3> QED
      BY <1>1, <2>1, <2>2, <3>1, PlaceType
  <2>3. CASE other # space \/ at(c) = {}
    <3>1. \A n \in N : n.place # Place(other, c)
      BY <1>4, <1>8, <2>2, <2>3
    <3>2. memory'[other][c] = memory[other][c]
      BY <1>10, <2>3
    <3> QED
      BY <2>1, <3>1, <3>2, OtherStores
  <2>4. CASE other = space /\ at(c) # {}
    <3> DEFINE top == Prevailing(at(c))
    <3>1. top \in lanes /\ Cell(i, top) = c /\ \A l \in at(c) : l <= top
      BY <1>7, <1>8, <2>4
    <3>2. memory'[other][c] = LaneEvent(top)
      BY <1>10, <2>4
    <3> HIDE DEF top
    <3>3. PICK last \in N : last.place = Place(other, c) /\ last.event = LaneEvent(top)
      BY <1>5, <2>4, <3>1
    <3>4. \A s \in stored : ~Before(last.event, s.event)
      BY <1>2, <3>1, <3>3
    <3>5. \A n \in N : n.place = Place(other, c) => ~Before(last.event, n.event)
      <4> SUFFICES ASSUME NEW n \in N, n.place = Place(other, c)
                   PROVE  ~Before(LaneEvent(top), n.event)
        BY <3>3
      <4>1. PICK l \in lanes : n.place = Place(space, Cell(i, l)) /\ n.event = LaneEvent(l)
        BY <1>4
      <4>2. l <= top
        BY <1>8, <2>2, <3>1, <4>1
      <4> QED
        BY <1>2, <3>1, <4>1, <4>2
    <3> QED
      BY <3>2, <3>3, <3>4, <3>5, LastStore
  <2> QED
    BY <2>3, <2>4
<1>15. \A s \in stored' :
           \/ s \in stored
           \/ s.place.epoch <= epoch /\ \E l \in lanes : s.event = LaneEvent(l)
  BY <1>2, <1>3, <1>4
<1> QED
  BY <1>3, <1>12, <1>13, <1>14, <1>15 DEF Performed

LEMMA LoadPerformed ==
    ASSUME NEW i, NEW lanes, Accessing(i, lanes), Perform(i, lanes), ~Accesses[i.target].store
    PROVE  Performed(lanes)
<1> DEFINE space == Accesses[i.target].space
           Load(l) == [place |-> Place(space, Cell(i, l)), event |-> LaneEvent(l),
                       from |-> memory[space][Cell(i, l)]]
<1>1. /\ DataTypeOK /\ BlockOK /\ AllLatest
      /\ \A load \in loaded : InOrder(load, stored)
      /\ space \in Spaces
  BY AccessContext
<1>2. ASSUME NEW l \in lanes
      PROVE  /\ Cell(i, l) \in Words(space) /\ LaneEvent(l) \in Events
             /\ \A s \in stored : ~Before(LaneEvent(l), s.event)
             /\ Place(space, Cell(i, l)) \in Places
  BY AccessContext DEF Accessing
<1>3. /\ loaded' = loaded \cup {Load(l) : l \in lanes}
      /\ memory' = memory /\ stored' = stored /\ running' = running /\ epoch' = epoch
      /\ running
  BY DEF Perform, Accessing
<1>4. ASSUME NEW l \in lanes
      PROVE  Load(l) \in LoadType /\ Load(l).event = LaneEvent(l) /\ InOrder(Load(l), stored)
  <2>1. memory[space][Cell(i, l)] \in Events
    BY <1>1, <1>2, MemoryType
  <2>2. Latest(memory[space][Cell(i, l)], Place(space, Cell(i, l)), stored)
    BY <1>1, <1>2, <1>3 DEF AllLatest
  <2>3. InOrder(Load(l), stored)
    BY <1>2, <2>2, LoadOfLatest
  <2> QED
    BY <1>2, <2>1, <2>3 DEF LoadType
<1> HIDE DEF Load
<1>5. DataTypeOK'
  BY <1>1, <1>3, <1>4 DEF DataTypeOK
<1>6. AllLatest'
  BY <1>1, <1>3 DEF AllLatest, Place
<1> QED
  BY <1>1, <1>3, <1>4, <1>5, <1>6 DEF Performed

\* The lanes of an access that is not refused have words, and so have those below the
\* first that is.
LEMMA AccessedWords ==
    ASSUME DeviceInv, NEW k \in DOMAIN program, Performs(program[k]) \/ Refuses(program[k])
    PROVE  \E lanes : Accessing(program[k], lanes) /\ Perform(program[k], lanes)
<1> DEFINE i == program[k]
           space == Accesses[i.target].space
           exec == Exec(i, Current)
<1>1. /\ running /\ Stepping /\ i.op = "memory" /\ BlockOK /\ DataTypeOK
      /\ UNCHANGED <<running, epoch>>
  BY DEF Performs, Refuses, Other, Fault, Issues, DeviceInv
<1>2. ASSUME NEW l \in exec
      PROVE  Accesses[i.target] \in AccessType /\ l \in Lanes /\ l \in Nat /\ Cell(i, l) \in Nat
  BY <1>1, <1>2, CellType, BlockAssumption, WarpSizePositive
<1>3. \A l \in exec : l \in RefusedLanes(i) <=> ~(Cell(i, l) < Cells(space))
  <2>1. Cells(space) \in Nat
    BY DeviceAssumption DEF Cells
  <2> QED
    BY <1>2, <2>1 DEF RefusedLanes, Cells
<1>4. RefusedLanes(i) \subseteq exec
  BY DEF RefusedLanes
<1>5. \A l \in exec : l \notin RefusedLanes(i) => Cell(i, l) \in Words(space)
  <2>1. Cells(space) \in Nat
    BY DeviceAssumption DEF Cells
  <2> QED
    BY <1>2, <1>3, <2>1 DEF Words
<1>6. CASE Performs(i)
  <2>1. Perform(i, exec) /\ RefusedLanes(i) = {}
    BY <1>6 DEF Performs
  <2>2. Accesses[i.target] \in AccessType
    BY <1>1, DeviceAssumption DEF BlockOK
  <2>3. Accessing(i, exec)
    BY <1>1, <1>2, <1>5, <2>1, <2>2 DEF Accessing
  <2> QED
    BY <2>1, <2>3
<1>7. CASE Refuses(i)
  <2> DEFINE lanes == {l \in exec : l < Min(RefusedLanes(i))}
  <2>1. Perform(i, lanes) /\ RefusedLanes(i) # {}
    BY <1>7 DEF Refuses
  <2>2. RefusedLanes(i) \in SUBSET Nat
    BY <1>2, <1>4
  <2>3. Min(RefusedLanes(i)) \in Nat /\ \A l \in RefusedLanes(i) : Min(RefusedLanes(i)) <= l
    BY <2>1, <2>2, MinOf
  <2>4. \A l \in lanes : l \in exec /\ l \notin RefusedLanes(i)
    BY <1>2, <2>3
  <2>5. Accesses[i.target] \in AccessType
    BY <1>1, DeviceAssumption DEF BlockOK
  <2> HIDE DEF lanes
  <2>6. Accessing(i, lanes)
    BY <1>1, <1>2, <1>5, <2>4, <2>5 DEF Accessing
  <2> QED
    BY <2>1, <2>6
<1> QED
  BY <1>6, <1>7

LEMMA AccessInv ==
    ASSUME DeviceInv, NEW k \in DOMAIN program, Performs(program[k]) \/ Refuses(program[k])
    PROVE  DeviceInv'
<1> DEFINE i == program[k]
<1>1. /\ running /\ Stepping /\ BlockOK /\ DataTypeOK /\ AllPast /\ BlockInv
      /\ UNCHANGED <<running, geometry, epoch>>
      /\ Other(i) \/ Fault(i)
  BY DEF Performs, Refuses, Other, Fault, Issues, DeviceInv, BlockOK
<1>2. PICK lanes : Accessing(i, lanes) /\ Performed(lanes)
  <2>1. PICK lanes : Accessing(i, lanes) /\ Perform(i, lanes)
    BY AccessedWords
  <2> QED
    BY <2>1, StorePerformed, LoadPerformed
<1>3. StepKeeps
  BY <1>1, InstructionKeeps
<1>4. BlockInv'
  <2>1. Next
    BY <1>1 DEF Next
  <2> QED
    BY <1>1, <2>1, NextInv
<1>5. BlockOK'
  BY <1>1, <1>3, <1>4, StepOK
<1>6. \A e \in Events : Past(e) => Past(e)'
  BY <1>1, <1>3, <1>4, StepPast
<1>7. ASSUME NEW e \in Events, e.epoch = epoch, e.phase = completed, e.warp = turn,
             e.number = issued[turn]
      PROVE  Past(e)'
  <2>1. CASE Fault(i)
    <3>1. fault' # "none"
      BY <2>1 DEF Fault
    <3>2. e.epoch <= epoch' /\ epoch' = epoch
      BY <1>1, <1>7 DEF DataTypeOK
    <3> QED
      BY <3>1, <3>2 DEF Past
  <2>2. CASE Other(i)
    <3>1. /\ turn \in DOMAIN warps /\ completed' = completed
          /\ issued[turn] \in Nat /\ issued'[turn] = issued[turn] + 1
      BY <1>1, <2>2 DEF Other, Issue, Stepping, InPass, BlockInv, TypeOK
    <3>2. DOMAIN warps' = DOMAIN warps
      BY <1>3 DEF StepKeeps
    <3> QED
      BY <1>1, <1>7, <3>1, <3>2 DEF Past, DataTypeOK
  <2> QED
    BY <1>1, <2>1, <2>2
<1>8. ASSUME NEW l \in lanes
      PROVE  /\ LaneEvent(l) \in Events /\ LaneEvent(l).epoch = epoch
             /\ LaneEvent(l).phase = completed /\ LaneEvent(l).warp = turn
             /\ LaneEvent(l).number = issued[turn]
  BY <1>1, <1>2, LaneEventLast DEF Accessing
<1>9. ASSUME NEW s \in stored'
      PROVE  Past(s.event)' /\ s.place.epoch <= epoch'
  <2>1. CASE s \in stored
    BY <1>1, <1>6, <2>1 DEF AllPast, DataTypeOK, StoreType
  <2>2. CASE s.place.epoch <= epoch /\ \E l \in lanes : s.event = LaneEvent(l)
    BY <1>1, <1>7, <1>8, <2>2
  <2> QED
    BY <1>2, <2>1, <2>2 DEF Performed
<1>10. ASSUME NEW r \in loaded'
       PROVE  Past(r.event)'
  <2>1. CASE r \in loaded
    BY <1>1, <1>6, <2>1 DEF AllPast, DataTypeOK, LoadType
  <2>2. CASE \E l \in lanes : r.event = LaneEvent(l)
    BY <1>7, <1>8, <2>2
  <2> QED
    BY <1>2, <2>1, <2>2 DEF Performed
<1>11. AllPast'
  BY <1>9, <1>10 DEF AllPast
<1> QED
  BY <1>2, <1>5, <1>11 DEF DeviceInv, Performed

-----------------------------------------------------------------------------
(* Blocks and the host                                                     *)

LEMMA InitInvPrime == Init' => BlockInv'
BY InitInv, PTL

LEMMA BeginOK ==
    ASSUME NEW p \in Programs, NEW g \in GridSizes, NEW b \in 0..g - 1, NEW n \in BlockSizes,
           BeginBlock(p, b, n), blocks' = g, size' = n
    PROVE  BlockOK'
<1>1. Init'
  BY DEF BeginBlock, Init
<1>2. BlockInv'
  BY <1>1, InitInvPrime
<1>3. DOMAIN warps' = 1..WarpCount(n)
      /\ \A w \in DOMAIN warps' : warps'[w].live \subseteq LiveMask(n, w)
  BY DEF BeginBlock, NewWarp
<1>4. program' = p /\ block' = b
  BY DEF BeginBlock
<1> QED
  BY <1>2, <1>3, <1>4 DEF BlockOK

\* In a new epoch everything so far is past.
LEMMA EpochPast ==
    ASSUME DataTypeOK, NewEpoch, NEW e \in Events, Past(e)
    PROVE  e.epoch < epoch' /\ Past(e)'
<1>1. e.epoch \in Nat /\ epoch \in Nat /\ e.epoch <= epoch /\ epoch' = epoch + 1
  BY DEF NewEpoch, DataTypeOK, Events, Past
<1> QED
  BY <1>1 DEF Past

LEMMA EpochAllPast ==
    ASSUME DeviceInv, NewEpoch
    PROVE  /\ \A s \in stored : s.event.epoch < epoch' /\ Past(s.event)' /\ s.place.epoch < epoch'
           /\ \A r \in loaded : r.event.epoch < epoch' /\ Past(r.event)'
<1>1. DataTypeOK /\ AllPast
  BY DEF DeviceInv
<1>2. \A s \in stored : s.event \in Events /\ Past(s.event)
                        /\ s.place.epoch \in Nat /\ s.place.epoch <= epoch
  BY <1>1 DEF DataTypeOK, StoreType, Places, AllPast
<1>3. \A r \in loaded : r.event \in Events /\ Past(r.event)
  BY <1>1 DEF DataTypeOK, LoadType, AllPast
<1>4. epoch \in Nat /\ epoch' = epoch + 1
  BY <1>1 DEF DataTypeOK, NewEpoch
<1>5. \A s \in stored : s.place.epoch < epoch'
  BY <1>2, <1>4
<1> QED
  BY <1>1, <1>2, <1>3, <1>5, EpochPast

\* A block finds global memory as it was left, and its shared memory zeroed.
LEMMA BeginInv ==
    ASSUME DeviceInv, NEW p \in Programs, NEW b, NEW n,
           BeginBlock(p, b, n), BlockOK', running'
    PROVE  DeviceInv'
<1> DEFINE zeroed == [c \in Words("shared") |-> Zeroed]
<1>1. /\ DataTypeOK /\ AllLatest /\ NewEpoch /\ epoch \in Nat /\ epoch' = epoch + 1
      /\ UNCHANGED <<stored, loaded>>
      /\ memory' = [memory EXCEPT !.shared = zeroed]
  BY DEF DeviceInv, DataTypeOK, BeginBlock, NewEpoch, SharedOfBlock, Words, Cells
<1>2. Zeroed \in Events
  BY DEF Zeroed, Event, Events
<1>3. /\ memory'["global"] = memory["global"] /\ memory'["shared"] = zeroed
      /\ memory' \in [global : [Words("global") -> Events], shared : [Words("shared") -> Events]]
  BY <1>1, <1>2 DEF DataTypeOK
<1>4. DataTypeOK'
  BY <1>1, <1>3 DEF DataTypeOK
<1>5. AllPast'
  <2>1. \A s \in stored : Past(s.event)' /\ s.place.epoch <= epoch'
    <3>1. \A s \in stored : s.place.epoch \in Nat
      BY <1>1 DEF DataTypeOK, StoreType, Places
    <3> QED
      BY <1>1, <3>1, EpochAllPast
  <2>2. \A r \in loaded : Past(r.event)'
    BY <1>1, EpochAllPast
  <2> QED
    BY <1>1, <2>1, <2>2 DEF AllPast
<1>6. AllLatest'
  <2>1. ASSUME NEW c \in Words("global")
        PROVE  Latest(memory'["global"][c], Place("global", c)', stored)
    <3>1. Latest(memory["global"][c], Place("global", c), stored)
      BY <1>1 DEF AllLatest, Spaces
    <3> QED
      BY <1>3, <3>1 DEF Place
  <2>2. ASSUME NEW c \in Words("shared")
        PROVE  Latest(memory'["shared"][c], Place("shared", c)', stored)
    <3>1. Place("shared", c)' = [space |-> "shared", epoch |-> epoch', cell |-> c]
      BY DEF Place
    <3>2. \A s \in stored : s.place.epoch # epoch'
      <4>1. \A s \in stored : s.place.epoch \in Nat
        BY <1>1 DEF DataTypeOK, StoreType, Places
      <4> QED
        BY <1>1, <4>1, EpochAllPast
    <3>3. \A e : e \notin StoresAt([space |-> "shared", epoch |-> epoch', cell |-> c], stored)
      BY <3>2, PlacedEvent
    <3> QED
      BY <1>3, <3>1, <3>3 DEF Latest
  <2> QED
    BY <1>1, <2>1, <2>2 DEF AllLatest, Spaces
<1> QED
  BY <1>1, <1>4, <1>5, <1>6 DEF DeviceInv

LEMMA LaunchInv ==
    ASSUME DeviceInv,
           NextBlock \/ \E p \in Programs, g \in GridSizes, n \in BlockSizes : Launch(p, g, n)
    PROVE  DeviceInv'
<1>1. CASE NextBlock
  <2>1. /\ BlockOK /\ BeginBlock(program, block + 1, size) /\ running'
        /\ blocks' = blocks /\ size' = size
    BY <1>1 DEF NextBlock, DeviceInv
  <2>2. /\ program \in Programs /\ blocks \in GridSizes /\ size \in BlockSizes
        /\ block + 1 \in 0..blocks - 1
    BY <1>1, <2>1, DeviceAssumption DEF BlockOK, NextBlock
  <2> QED
    BY <2>1, <2>2, BeginOK, BeginInv
<1>2. ASSUME NEW p \in Programs, NEW g \in GridSizes, NEW n \in BlockSizes, Launch(p, g, n)
      PROVE  DeviceInv'
  <2>1. /\ BeginBlock(p, 0, n) /\ running' /\ blocks' = g /\ size' = n
        /\ 0 \in 0..g - 1
    BY <1>2, DeviceAssumption DEF Launch
  <2> QED
    BY <2>1, BeginOK, BeginInv
<1> QED
  BY <1>1, <1>2

LEMMA ReturnInv ==
    ASSUME DeviceInv, Return
    PROVE  DeviceInv'
<1>1. /\ DataTypeOK /\ AllPast /\ AllLatest
      /\ running' = FALSE /\ UNCHANGED <<epoch, memory, stored, loaded>>
  BY DEF DeviceInv, Return, data
<1>2. DataTypeOK'
  BY <1>1 DEF DataTypeOK
<1>3. AllPast'
  BY <1>1 DEF AllPast, Past
<1>4. AllLatest'
  BY <1>1 DEF AllLatest, Place
<1> QED
  BY <1>1, <1>2, <1>3, <1>4 DEF DeviceInv

\* An access of the host is an epoch of its own.
LEMMA HostEventLast ==
    ASSUME DataTypeOK, NewEpoch
    PROVE  LET h == HostEvent(epoch') IN
           /\ h \in Events /\ h.epoch = epoch' /\ ~Before(h, h)
           /\ \A e \in Events : e.epoch < epoch' => ~Before(h, e)
<1> DEFINE h == HostEvent(epoch')
<1>1. epoch' \in Nat
  BY DEF NewEpoch, DataTypeOK
<1>2. h = [epoch |-> epoch', phase |-> 0, warp |-> 0, number |-> 0, lane |-> 0]
  BY DEF HostEvent, Event
<1>3. h \in Events /\ h.epoch = epoch' /\ h.phase = 0 /\ h.number = 0 /\ h.lane = 0
  BY <1>1, <1>2 DEF Events
<1> HIDE DEF h
<1>4. ~Before(h, h)
  BY <1>1, <1>3 DEF Before
<1>5. \A e \in Events : e.epoch < epoch' => ~Before(h, e)
  BY <1>1, <1>3 DEF Before, Events
<1> QED
  BY <1>3, <1>4, <1>5 DEF h

LEMMA HostReadInv ==
    ASSUME DeviceInv, HostRead
    PROVE  DeviceInv'
<1> DEFINE h == HostEvent(epoch')
           Load(c) == [place |-> GlobalPlace(c), event |-> h, from |-> memory["global"][c]]
<1>1. /\ DataTypeOK /\ AllLatest /\ NewEpoch /\ ~running /\ ~running'
      /\ running' = running /\ memory' = memory /\ stored' = stored
      /\ loaded' = loaded \cup {Load(c) : c \in Words("global")}
  BY DEF DeviceInv, HostRead, Words, Cells
<1>2. /\ h \in Events /\ h.epoch = epoch'
      /\ \A e \in Events : e.epoch < epoch' => ~Before(h, e)
  BY <1>1, HostEventLast
<1>3. \A s \in stored : ~Before(h, s.event)
  BY <1>1, <1>2, EpochAllPast DEF DataTypeOK, StoreType
<1> HIDE DEF h
<1>4. ASSUME NEW c \in Words("global")
      PROVE  Load(c) \in LoadType /\ Load(c).event = h /\ InOrder(Load(c), stored)
  <2>1. "global" \in Spaces /\ c \in Nat /\ memory["global"][c] \in Events
    BY <1>1, MemoryType DEF Spaces
  <2>2. GlobalPlace(c) \in Places /\ Place("global", c) = GlobalPlace(c)
    BY <2>1 DEF GlobalPlace, Place, Places
  <2>3. Latest(memory["global"][c], GlobalPlace(c), stored)
    BY <1>1, <2>1, <2>2 DEF AllLatest
  <2>4. InOrder(Load(c), stored)
    BY <1>2, <1>3, <2>3, LoadOfLatest
  <2> QED
    BY <1>2, <2>1, <2>2, <2>4 DEF LoadType
<1> HIDE DEF Load
<1>5. epoch' \in Nat
  BY <1>1 DEF DataTypeOK, NewEpoch
<1>6. DataTypeOK'
  BY <1>1, <1>4, <1>5 DEF DataTypeOK
<1>7. AllPast'
  <2>1. \A s \in stored' : Past(s.event)' /\ s.place.epoch <= epoch'
    <3>1. \A s \in stored : s.place.epoch \in Nat
      BY <1>1 DEF DataTypeOK, StoreType, Places
    <3> QED
      BY <1>1, <1>5, <3>1, EpochAllPast
  <2>2. \A r \in loaded : Past(r.event)'
    BY <1>1, EpochAllPast
  <2>3. ASSUME NEW e, e = h
        PROVE  Past(e)'
    BY <1>1, <1>2, <1>5, <2>3 DEF Past
  <2>4. ASSUME NEW r \in loaded'
        PROVE  Past(r.event)'
    <3>1. r \in loaded \/ r.event = h
      BY <1>1, <1>4
    <3> QED
      BY <2>2, <2>3, <3>1
  <2> QED
    BY <2>1, <2>4 DEF AllPast
<1>8. AllLatest'
  BY <1>1 DEF AllLatest, Place
<1> QED
  BY <1>1, <1>4, <1>6, <1>7, <1>8 DEF DeviceInv

LEMMA HostWriteInv ==
    ASSUME DeviceInv, NEW first \in 0..GlobalCells - 1, NEW count \in 1..GlobalCells,
           HostWrite(first, count)
    PROVE  DeviceInv'
<1> DEFINE h == HostEvent(epoch')
           cells == first..first + count - 1
           N == {[place |-> GlobalPlace(c), event |-> h] : c \in cells}
           words == [c \in Words("global") |-> IF c \in cells THEN h ELSE memory["global"][c]]
<1>1. /\ DataTypeOK /\ AllLatest /\ NewEpoch /\ ~running /\ ~running'
      /\ running' = running /\ loaded' = loaded
      /\ stored' = stored \cup N
      /\ memory["global"] \in [Words("global") -> Events]
  BY DEF DeviceInv, HostWrite, DataTypeOK
<1>2. memory' = [memory EXCEPT !["global"] = words]
  BY <1>1 DEF HostWrite
<1>3. epoch' \in Nat /\ cells \in SUBSET Nat
  BY <1>1 DEF DataTypeOK, NewEpoch
<1>4. /\ h \in Events /\ h.epoch = epoch' /\ ~Before(h, h)
      /\ \A e \in Events : e.epoch < epoch' => ~Before(h, e)
  BY <1>1, HostEventLast
<1>5. /\ \A s \in stored : ~Before(h, s.event)
      /\ \A r \in loaded : ~Before(h, r.event)
  BY <1>1, <1>4, EpochAllPast DEF DataTypeOK, StoreType, LoadType
<1> HIDE DEF h
<1>6. \A c \in Words("global") : words[c] = IF c \in cells THEN h ELSE memory["global"][c]
  OBVIOUS
<1>7. words \in [Words("global") -> Events]
  BY <1>1, <1>4
<1>8. \A c \in Nat : GlobalPlace(c) \in Places /\ Place("global", c) = GlobalPlace(c)
                     /\ GlobalPlace(c).epoch = 0 /\ GlobalPlace(c).cell = c
  BY DEF GlobalPlace, Place, Places, Spaces
<1>9. \A n \in N : \E c \in cells : n = [place |-> GlobalPlace(c), event |-> h]
  OBVIOUS
<1>10. \A c \in cells : [place |-> GlobalPlace(c), event |-> h] \in N
  OBVIOUS
<1> HIDE DEF cells, N, words
<1>11. ASSUME NEW n \in N
       PROVE  n \in StoreType /\ n.event = h /\ n.place.epoch = 0
              /\ n.place.cell \in cells /\ n.place = GlobalPlace(n.place.cell)
  <2>1. PICK c \in cells : n = [place |-> GlobalPlace(c), event |-> h]
    BY <1>9
  <2> QED
    BY <1>3, <1>4, <1>8, <2>1 DEF StoreType
<1>12. memory'["global"] = words
       /\ memory' \in [global : [Words("global") -> Events], shared : [Words("shared") -> Events]]
  BY <1>1, <1>2, <1>7 DEF DataTypeOK
<1>13. DataTypeOK'
  BY <1>1, <1>3, <1>11, <1>12 DEF DataTypeOK
<1>14. AllPast'
  <2>1. \A r \in loaded' : Past(r.event)'
    BY <1>1, EpochAllPast
  <2>2. \A s \in stored : Past(s.event)' /\ s.place.epoch <= epoch'
    <3>1. \A s \in stored : s.place.epoch \in Nat
      BY <1>1 DEF DataTypeOK, StoreType, Places
    <3> QED
      BY <1>1, <1>3, <3>1, EpochAllPast
  <2>3. ASSUME NEW e, e = h
        PROVE  Past(e)'
    BY <1>1, <1>3, <1>4, <2>3 DEF Past
  <2>4. \A n \in N : Past(n.event)' /\ n.place.epoch <= epoch'
    BY <1>3, <1>11, <2>3
  <2> QED
    BY <1>1, <2>1, <2>2, <2>4 DEF AllPast
<1>15. AllLatest'
  <2> SUFFICES ASSUME NEW c \in Words("global")
               PROVE  Latest(words[c], Place("global", c), stored \cup N)
    BY <1>1, <1>12 DEF AllLatest, Place, Spaces
  <2>1. c \in Nat /\ Place("global", c) = GlobalPlace(c)
    BY <1>8 DEF Words
  <2>2. CASE c \in cells
    <3> DEFINE last == [place |-> GlobalPlace(c), event |-> h]
    <3>1. last \in N /\ last.event = h /\ last.place = GlobalPlace(c)
      BY <1>10, <2>2
    <3> HIDE DEF last
    <3>2. Latest(last.event, GlobalPlace(c), stored \cup N)
      BY <1>4, <1>5, <1>11, <3>1, LastStore
    <3> QED
      BY <1>6, <2>1, <2>2, <3>1, <3>2
  <2>3. CASE c \notin cells
    <3>1. \A n \in N : n.place # GlobalPlace(c)
      BY <1>3, <1>8, <1>11, <2>1, <2>3
    <3>2. Latest(memory["global"][c], GlobalPlace(c), stored)
      BY <1>1, <2>1 DEF AllLatest, Spaces
    <3> QED
      BY <1>6, <2>1, <2>3, <3>1, <3>2, OtherStores
  <2> QED
    BY <2>2, <2>3
<1>16. \A load \in loaded' : InOrder(load, stored')
  <2> SUFFICES ASSUME NEW load \in loaded
               PROVE  InOrder(load, stored \cup N)
    BY <1>1
  <2>1. InOrder(load, stored)
    BY DEF DeviceInv
  <2>2. \A n \in N : ~Before(n.event, load.event)
    BY <1>5, <1>11
  <2> QED
    BY <2>1, <2>2, LaterStores
<1> QED
  BY <1>1, <1>13, <1>14, <1>15, <1>16 DEF DeviceInv

-----------------------------------------------------------------------------
(* Theorems                                                                *)

LEMMA DeviceInitInv == DeviceInit => DeviceInv
<1> SUFFICES ASSUME DeviceInit PROVE DeviceInv
  OBVIOUS
<1>1. Zeroed \in Events
  BY DEF Zeroed, Event, Events
<1>2. /\ running = FALSE /\ epoch = 0 /\ stored = {} /\ loaded = {}
      /\ memory = [global |-> [c \in Words("global") |-> Zeroed],
                   shared |-> [c \in Words("shared") |-> Zeroed]]
  BY DEF DeviceInit, Words, Cells
<1>3. DataTypeOK
  BY <1>1, <1>2 DEF DataTypeOK
<1>4. AllLatest
  <2> SUFFICES ASSUME NEW c \in Words("global")
               PROVE  Latest(memory["global"][c], Place("global", c), {})
    BY <1>2 DEF AllLatest, Spaces
  <2>1. memory["global"][c] = Zeroed
    BY <1>2
  <2>2. \A e : e \notin StoresAt(Place("global", c), {})
    BY PlacedEvent
  <2> QED
    BY <2>1, <2>2 DEF Latest
<1> QED
  BY <1>2, <1>3, <1>4 DEF DeviceInv, AllPast

LEMMA DeviceNextInv == DeviceInv /\ [DeviceNext]_deviceVars => DeviceInv'
<1> SUFFICES ASSUME DeviceInv, [DeviceNext]_deviceVars PROVE DeviceInv'
  OBVIOUS
<1>1. CASE Control
  BY <1>1, ControlInv
<1>2. CASE NextBlock
  BY <1>2, LaunchInv
<1>3. CASE Return
  BY <1>3, ReturnInv
<1>4. ASSUME NEW k \in DOMAIN program, Performs(program[k]) \/ Refuses(program[k])
      PROVE  DeviceInv'
  BY <1>4, AccessInv
<1>5. CASE HostRead
  BY <1>5, HostReadInv
<1>6. ASSUME NEW first \in 0..GlobalCells - 1, NEW count \in 1..GlobalCells,
             HostWrite(first, count)
      PROVE  DeviceInv'
  BY <1>6, HostWriteInv
<1>7. ASSUME NEW p \in Programs, NEW g \in GridSizes, NEW n \in BlockSizes, Launch(p, g, n)
      PROVE  DeviceInv'
  BY <1>7, LaunchInv
<1>8. CASE UNCHANGED deviceVars
  BY <1>8 DEF deviceVars, blockVars, geometry, data, DeviceInv, DataTypeOK, BlockOK, BlockInv,
              TypeOK, AllSound, BarrierPhases, NothingToStep, AlwaysProgress, AllPast, Past,
              AllLatest, Place
<1> QED
  BY <1>1, <1>2, <1>3, <1>4, <1>5, <1>6, <1>7, <1>8 DEF DeviceNext, Run

LEMMA LoadsOrdered ==
    ASSUME DeviceInv
    PROVE  LoadsInOrder
<1> SUFFICES ASSUME NEW load \in loaded
             PROVE  LET stores == {s.event : s \in {t \in stored : t.place = load.place}} IN
                    /\ load.from \in stores \cup {Zeroed}
                    /\ ~Before(load.event, load.from)
                    /\ \A s \in stores : Before(s, load.event) => ~Before(load.from, s)
  BY DEF LoadsInOrder
<1>1. InOrder(load, stored)
  BY DEF DeviceInv
<1> QED
  BY <1>1 DEF InOrder, StoresAt

LEMMA DeviceInvariance == DeviceSpec => []DeviceInv
BY DeviceInitInv, DeviceNextInv, PTL DEF DeviceSpec

\* Each block of each launch keeps the invariant of run_block, however the block before it
\* has ended (device.cpp:106-170), and its warps have no lanes but its own.
THEOREM BlocksKeepTheirInvariant == DeviceSpec => [](running => BlockOK)
<1>1. DeviceInv => (running => BlockOK)
  BY DEF DeviceInv
<1> QED
  BY <1>1, DeviceInvariance, PTL

\* Loads deliver what was last stored at their place, in an order that has all stores of
\* earlier blocks and launches, of the host, before the last barrier and of the same warp
\* (device.cpp:22-104, memory.cpp:170-263, wisa-spec.md:122-123), for every program, grid and
\* size of block, warp and memory.
THEOREM MemoryInOrder == DeviceSpec => []LoadsInOrder
BY DeviceInvariance, LoadsOrdered, PTL
=============================================================================
