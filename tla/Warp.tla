-------------------------------- MODULE Warp --------------------------------
(***************************************************************************)
(* One warp running a program to its end: Warp::step called by the loop of *)
(* run_block, which is also what releases the warp from a barrier.         *)
(*                                                                         *)
(* A transition is one turn of the loop of resolve_stack (Rejoin, Resume), *)
(* of the loop of step (FallOffEnd), or the instruction step then issues.  *)
(* The loops are not interruptible, and no transition of this module has   *)
(* an alternative but in what setp computes and whether an access faults.  *)
(***************************************************************************)
EXTENDS Simt

CONSTANT Programs      \* the programs considered: sequences of instructions

\* A launch also takes raw words (module.cpp:133), as many as there are, none, or more
\* than PCs; targets and reconvergence PCs are whatever 16 bits hold.
ASSUME ProgramsAssumption == Programs \subseteq Seq(Instructions)

VARIABLES
    program,           \* the decoded kernel, fixed by the launch
    warp,              \* WarpState and the two counters of Warp
    fault              \* "none", or the fault step returned

vars == <<program, warp, fault>>

\* run_block gives the last warp of a block fewer lanes than the others.
Init ==
    /\ program \in Programs
    /\ \E live \in (SUBSET Lanes) \ {{}} : warp = NewWarp(live)
    /\ fault = "none"

Stepping == fault = "none" /\ ~warp.parked

Become(w) == warp' = w /\ UNCHANGED <<program, fault>>

Rejoin == Stepping /\ AtReconvergence(warp) /\ Become(Rejoined(warp))

Resume == Stepping /\ Emptied(warp) /\ Become(Resumed(warp))

FallOffEnd ==
    /\ Stepping /\ Settled(warp) /\ warp.pc >= Len(program)
    /\ Become(Retire(warp, warp.active))

Issues(i) ==
    /\ Stepping /\ Settled(warp) /\ warp.pc < Len(program)
    /\ i = program[warp.pc + 1]

Bra(i) ==
    /\ Issues(i) /\ i.op = "bra" /\ ~Splits(i, warp)
    /\ Become(Jumped(i, warp))

Diverge(i) ==
    /\ Issues(i) /\ i.op = "bra" /\ Splits(i, warp)
    /\ warp.divergent < MaxDivergences
    /\ Become(Diverged(i, warp))

Exit(i) == Issues(i) /\ i.op = "exit" /\ Become(Exited(i, warp))

BarSync(i) ==
    /\ Issues(i) /\ i.op = "bar.sync" /\ ~BarrierFaults(warp)
    /\ Become(Parked(warp))

Setp(i) ==
    /\ Issues(i) /\ i.op = "setp"
    /\ \E true \in SUBSET Exec(i, warp) : Become(Compared(i, warp, true))

Other(i) == Issues(i) /\ i.op \in {"alu", "memory"} /\ Become(Advance(warp))

\* The launch stops: bar.sync in divergent code, or a lane's access is refused.
Fault(i) ==
    /\ Issues(i)
    /\ \/ i.op = "bar.sync" /\ BarrierFaults(warp) /\ fault' = "divergent barrier"
       \/ i.op = "memory" /\ Exec(i, warp) # {} /\ fault' = "memory"
    /\ UNCHANGED <<program, warp>>

\* run_block, every unfinished warp being parked (Block.tla has the others).
Release ==
    /\ fault = "none" /\ warp.parked
    /\ Become(Released(warp))

\* resolve_stack returns false, or the launch has failed: nothing more is done.
Stopped ==
    /\ fault # "none" \/ (Stepping /\ Drained(warp))
    /\ UNCHANGED vars

Instruction(i) ==
    Bra(i) \/ Diverge(i) \/ Exit(i) \/ BarSync(i) \/ Setp(i) \/ Other(i) \/ Fault(i)

Next ==
    \/ Rejoin \/ Resume \/ FallOffEnd
    \/ \E k \in DOMAIN program : Instruction(program[k])
    \/ Release \/ Stopped

Spec == Init /\ [][Next]_vars

\* launch runs its warps in a loop until they finish: a step that can be taken is.
FairSpec == Spec /\ WF_vars(Next)

-----------------------------------------------------------------------------
(* Properties                                                              *)

\* Every field keeps its type: the PC of a warp and those on its stack stay in 16 bits
\* and every mask within its lanes (warp_state.hpp), however long the program is.
TypeOK ==
    /\ program \in Seq(Instructions)
    /\ warp \in WarpStates
    /\ fault \in {"none", "divergent barrier", "memory"}

\* check_invariants and its converse (wisa-spec.md:257-258): every lane that has
\* not retired is in exactly one mask. A live lane in no mask would never run
\* again, and run_block would poll a drained warp that is not finished for ever.
LanePartition == Partitioned(warp)

\* The stack is a std::vector with no limit; the lanes limit it. Counting the path
\* that runs, there are never more paths than lanes that have not retired, however
\* often the warp diverges (a loop diverges once per lane that leaves it).
StackBounded ==
    Len(warp.stack) + (IF warp.active = {} THEN 0 ELSE 1) <= Cardinality(warp.live)

\* A warp waits at a barrier with all its lanes together and nothing deferred, so
\* that releasing it (parked = false, device.cpp:93) resumes every live lane.
BarrierConvergent == ParkedConverged(warp)

\* reconvergence_events counts the first and the second arrival (counters.md:15):
\* at most two per divergence, and those a pending entry can still cause are not
\* yet counted.
CounterBound ==
    warp.reconverged + Len(warp.stack)
        + Cardinality({k \in DOMAIN warp.stack : ~IsJoin(warp.stack[k])})
    <= 2 * warp.divergent

\* A step touches only the top of the stack: the entries below it keep their PCs
\* and their masks, so a deferred path is what its branch deferred. (retire walks
\* the whole stack, warp.cpp:96-98, and never finds a lane to clear.)
KeepsBelowTop ==
    warp.stack # <<>> =>
        /\ Len(warp'.stack) >= Len(warp.stack) - 1
        /\ \A k \in 1..Len(warp.stack) - 1 : warp'.stack[k] = warp.stack[k]
StackDiscipline == [][KeepsBelowTop]_vars

\* No lane reaches a bar.sync that others of its warp have not reached (yet).
BarriersMet == fault # "divergent barrier"

\* A warp of a program without backward branches finishes or faults: whatever the
\* reconvergence PCs are, rules 3 and 4 never shuffle the same paths for ever. (++pc
\* takes a program that has an instruction at the last PC back to its first.)
ForwardOnly ==
    \A k \in DOMAIN program : program[k].op = "bra" => program[k].target >= k
Terminates == ForwardOnly /\ Len(program) <= NoReconv => <>(fault # "none" \/ Finished(warp))

\* wisa-spec.md:124 and warp.cpp:113: falling off the end is equivalent to exit.
\* The step after lanes have fallen off the end retires them.
FallingOffRetires ==
    [][warp.active # {} /\ warp.pc >= Len(program) => warp.active \cap warp'.live = {}]_vars

-----------------------------------------------------------------------------
(* Refinement: what the lanes of the warp see is LanePaths.                *)

EntriesOf(w, l) == {k \in DOMAIN w.stack : l \in w.stack[k].mask}

LanePC(w) == [l \in Lanes |->
    IF l \in w.active THEN w.pc
    ELSE IF EntriesOf(w, l) # {}
         THEN w.stack[CHOOSE k \in EntriesOf(w, l) : TRUE].resume
    ELSE -1]

Paths == INSTANCE LanePaths WITH lanePC <- LanePC(warp), lanePreds <- warp.preds,
                                 parked <- warp.parked

\* Every lane executes its own path, whatever the program's reconvergence PCs:
\* switching paths moves no lane, and an issued instruction moves the lanes that
\* are at it and no other (wisa-spec.md section 8.4).
LanePathsSpec == Paths!Spec
=============================================================================
