------------------------------- MODULE Block -------------------------------
(***************************************************************************)
(* One thread block: run_block of src/core/device.cpp, the round-robin     *)
(* scheduler over the warps of the block and the barrier between them.     *)
(* A transition is a skipped warp, one turn of the loops of Warp::step, or *)
(* the end of a pass over the warps.                                       *)
(***************************************************************************)
EXTENDS Simt

CONSTANTS
    Programs,          \* the programs considered
    BlockSizes,        \* lanes_in_block: the sizes of blocks considered
    MaxIssued,         \* model bound: instructions of a warp between barriers
    MaxBarriers        \* model bound: barriers completed

WarpSize == Cardinality(Lanes)

ASSUME BlockAssumption ==
    /\ Programs \subseteq Seq(Instructions)
    /\ Lanes = 0..WarpSize - 1
    /\ BlockSizes \subseteq Nat \ {0}      \* launch refuses an empty block
    /\ MaxIssued \in Nat /\ MaxBarriers \in Nat

VARIABLES
    program,           \* the decoded kernel
    warps,             \* the warps of the block
    turn,              \* the warp the pass is at; one past the last at its end
    anyRunnable,       \* any_runnable: the pass has stepped a warp
    issued,            \* of each warp, instructions issued since the last barrier
    arrivals,          \* of each warp, its steps that returned Barrier
    completed,         \* stats.barriers_completed
    fault              \* "none", or why the launch stopped

vars == <<program, warps, turn, anyRunnable, issued, arrivals, completed, fault>>

\* (lanes_in_block + warp_size - 1 as a number: Launch has its 32-bit wrap.)
WarpCount(n) == (n + WarpSize - 1) \div WarpSize

\* The last warp has the lanes that are left.
LiveMask(n, w) == {l \in Lanes : (w - 1) * WarpSize + l < n}

Init ==
    /\ program \in Programs
    /\ \E n \in BlockSizes :
           /\ warps = [w \in 1..WarpCount(n) |-> NewWarp(LiveMask(n, w))]
           /\ issued = [w \in 1..WarpCount(n) |-> 0]
           /\ arrivals = [w \in 1..WarpCount(n) |-> 0]
    /\ turn = 1 /\ anyRunnable = FALSE
    /\ completed = 0
    /\ fault = "none"

-----------------------------------------------------------------------------
(* The pass over the warps                                                 *)

InPass == fault = "none" /\ turn \in DOMAIN warps
Current == warps[turn]
Stepping == InPass /\ ~Finished(Current) /\ ~Current.parked

\* Mutant: the iterator is not advanced before "continue".
SkipStays ==
    /\ InPass /\ (Finished(Current) \/ Current.parked)
    /\ UNCHANGED vars
\* A warp that waits or is done; also the step that finds the warp has finished
\* by falling off the end, and issues nothing.
Skip ==
    /\ InPass /\ (Finished(Current) \/ Current.parked)
    /\ turn' = turn + 1
    /\ UNCHANGED <<program, warps, anyRunnable, issued, arrivals, completed, fault>>

\* A turn of resolve_stack's loop, or of step's for lanes that fell off the end.
Resolve ==
    /\ Stepping
    /\ \/ AtReconvergence(Current) /\ warps' = [warps EXCEPT ![turn] = Rejoined(@)]
       \/ Emptied(Current) /\ warps' = [warps EXCEPT ![turn] = Resumed(@)]
       \/ /\ Settled(Current) /\ Current.pc >= Len(program)
          /\ warps' = [warps EXCEPT ![turn] = Retire(@, @.active)]
    /\ anyRunnable' = TRUE
    /\ UNCHANGED <<program, turn, issued, arrivals, completed, fault>>

Issues(i) ==
    /\ Stepping /\ Settled(Current) /\ Current.pc < Len(program)
    /\ i = program[Current.pc + 1]
    /\ issued[turn] < MaxIssued

\* Mutant: a warp keeps its turn until it parks or finishes.
IssueKeepsTurn(w) ==
    /\ warps' = [warps EXCEPT ![turn] = w]
    /\ issued' = [issued EXCEPT ![turn] = @ + 1]
    /\ turn' = (IF Finished(w) \/ w.parked THEN turn + 1 ELSE turn)
    /\ anyRunnable' = TRUE
    /\ UNCHANGED <<program, completed, fault>>
\* The warp becomes w and the pass moves on to the next warp.
Issue(w) ==
    /\ warps' = [warps EXCEPT ![turn] = w]
    /\ issued' = [issued EXCEPT ![turn] = @ + 1]
    /\ turn' = turn + 1
    /\ anyRunnable' = TRUE
    /\ UNCHANGED <<program, completed, fault>>

Bra(i) ==
    /\ Issues(i) /\ i.op = "bra"
    /\ Splits(i, Current) => Current.divergent < MaxDivergences
    /\ Issue(IF Splits(i, Current) THEN Diverged(i, Current) ELSE Jumped(i, Current))
    /\ UNCHANGED arrivals

Exit(i) ==
    /\ Issues(i) /\ i.op = "exit" /\ Issue(Exited(i, Current))
    /\ UNCHANGED arrivals

BarSync(i) ==
    /\ Issues(i) /\ i.op = "bar.sync" /\ ~BarrierFaults(Current)
    /\ Issue(Parked(Current))
    /\ arrivals' = [arrivals EXCEPT ![turn] = @ + 1]

Setp(i) ==
    /\ Issues(i) /\ i.op = "setp"
    /\ \E true \in SUBSET Exec(i, Current) : Issue(Compared(i, Current, true))
    /\ UNCHANGED arrivals

Other(i) ==
    /\ Issues(i) /\ i.op \in {"alu", "memory"} /\ Issue(Advance(Current))
    /\ UNCHANGED arrivals

\* The first fault of any warp ends the block and the launch.
Fault(i) ==
    /\ Issues(i)
    /\ \/ i.op = "bar.sync" /\ BarrierFaults(Current) /\ fault' = "divergent barrier"
       \/ i.op = "memory" /\ Exec(i, Current) # {} /\ fault' = "memory"
    /\ anyRunnable' = TRUE
    /\ UNCHANGED <<program, warps, turn, issued, arrivals, completed>>

-----------------------------------------------------------------------------
(* The end of a pass                                                       *)

PassEnds == fault = "none" /\ turn = Len(warps) + 1
Unfinished == {w \in DOMAIN warps : ~Finished(warps[w])}

\* Mutant: a finished warp is waited for.
AllParkedOrBlocked == \A w \in DOMAIN warps : warps[w].parked
\* Mutant: the scan stops before the last warp.
AllParkedButLast == \A w \in Unfinished \ {Len(warps)} : warps[w].parked
\* Mutant: one warp is enough.
SomeParked == \E w \in Unfinished : warps[w].parked
AllParked == \A w \in Unfinished : warps[w].parked

CompleteBarrier ==
    /\ PassEnds /\ Unfinished # {} /\ AllParked
    /\ completed < MaxBarriers
    /\ warps' = [w \in DOMAIN warps |-> Released(warps[w])]
    /\ completed' = completed + 1
    /\ issued' = [w \in DOMAIN warps |-> 0]
    /\ turn' = 1 /\ anyRunnable' = FALSE
    /\ UNCHANGED <<program, arrivals, fault>>

\* "scheduler made no progress" is the fault of a pass that stepped no warp.
NextPass ==
    /\ PassEnds /\ Unfinished # {} /\ ~AllParked
    /\ fault' = (IF anyRunnable THEN "none" ELSE "no progress")
    /\ turn' = 1 /\ anyRunnable' = FALSE
    /\ UNCHANGED <<program, warps, issued, arrivals, completed>>

\* The block is done, or the launch has failed.
Ended ==
    /\ fault # "none" \/ (PassEnds /\ Unfinished = {})
    /\ UNCHANGED vars

Next ==
    \/ Skip \/ Resolve
    \/ \E k \in DOMAIN program : LET i == program[k] IN
           Bra(i) \/ Exit(i) \/ BarSync(i) \/ Setp(i) \/ Other(i) \/ Fault(i)
    \/ CompleteBarrier \/ NextPass \/ Ended

Spec == Init /\ [][Next]_vars

\* run_block is a loop: whatever it can do next, it does.
FairSpec == Spec /\ WF_vars(Next)

-----------------------------------------------------------------------------
(* Properties                                                              *)

\* Every variable keeps its type.
TypeOK ==
    /\ program \in Seq(Instructions)
    /\ warps \in Seq(WarpStates)
    /\ turn \in 1..Len(warps) + 1 /\ anyRunnable \in BOOLEAN
    /\ issued \in [DOMAIN warps -> Nat] /\ arrivals \in [DOMAIN warps -> Nat]
    /\ completed \in Nat
    /\ fault \in {"none", "divergent barrier", "memory", "no progress"}

\* Barriers keep the warps of a block in phase: a warp that waits has arrived once
\* more than barriers have completed, one that runs exactly as often, and a
\* finished warp is not waiting (run_block unparks it without looking,
\* device.cpp:92-94) and never arrived at a barrier that has not completed.
BarrierPhases ==
    \A w \in DOMAIN warps :
        IF Finished(warps[w]) THEN ~warps[w].parked /\ arrivals[w] <= completed
        ELSE arrivals[w] = completed + (IF warps[w].parked THEN 1 ELSE 0)

\* device.cpp:98-101 "Cannot happen: an unfinished warp that is not parked is
\* runnable", also when other warps have finished or wait.
AlwaysProgress == fault # "no progress"

\* Round-robin issue is fair at every moment between two barriers: of two warps
\* that are running, the earlier has issued as much as the later or one more.
RoundRobin ==
    \A v, w \in {u \in Unfinished : ~warps[u].parked} :
        v < w => issued[v] - issued[w] \in {0, 1}

\* run_block returns, or reports a fault, for every program that only branches
\* forward and has no instruction at the last PC: barriers, finished warps and divergence never keep it in its loop.
ForwardOnly ==
    \A k \in DOMAIN program : program[k].op = "bra" => program[k].target >= k
BlockEnds == ForwardOnly /\ Len(program) <= NoReconv => <>(fault # "none" \/ Unfinished = {})

-----------------------------------------------------------------------------
(* Refinement                                                              *)

Status(w) == IF Finished(w) THEN "finished" ELSE IF w.parked THEN "waiting" ELSE "running"

Contract == INSTANCE Barrier WITH
    WarpCounts <- {WarpCount(n) : n \in BlockSizes}, arrived <- arrivals,
    status <- [w \in DOMAIN warps |-> Status(warps[w])]

\* run_block implements the barrier of Barrier.tla: no warp goes on before every
\* unfinished warp has arrived, and none is left behind when they do.
BarrierContract == Contract!Spec
=============================================================================
