------------------------------ MODULE LanePaths ------------------------------
(***************************************************************************)
(* What a warp promises to its lanes, without a divergence stack: "every   *)
(* lane executes exactly its own path" (docs/wisa-spec.md section 8.4).    *)
(* Each lane has a PC and predicates of its own; a step is one instruction *)
(* executed by some of the lanes that are at it.  Nothing says when lanes  *)
(* rejoin.  Only bar.sync relates lanes: all unretired lanes reach it in   *)
(* one step, or it faults.                                                 *)
(***************************************************************************)
EXTENDS Simt

CONSTANT Programs      \* the programs considered: sequences of instructions

Retired == -1          \* the PC of a lane that has retired

VARIABLES
    program,           \* the instructions, fixed
    lanePC,            \* of each lane, its next instruction or Retired
    lanePreds,         \* of each lane, the predicates that are true
    parked,            \* the lanes wait at a barrier
    fault              \* "none", or the fault that stopped the launch

vars == <<program, lanePC, lanePreds, parked, fault>>

Running == {l \in Lanes : lanePC[l] # Retired}

Init ==
    /\ program \in Programs
    /\ \E live \in (SUBSET Lanes) \ {{}} :
           lanePC = [l \in Lanes |-> IF l \in live THEN 0 ELSE Retired]
    /\ lanePreds = [l \in Lanes |-> {}]
    /\ parked = FALSE
    /\ fault = "none"

\* A group executes together: lanes that are at the same PC.
Group(S, pc) ==
    /\ fault = "none" /\ ~parked
    /\ S # {} /\ \A l \in S : lanePC[l] = pc

At(S, i) == \E pc \in PC : Group(S, pc) /\ pc < Len(program) /\ i = program[pc + 1]

Guarded(i, l) == i.guard.present => (i.guard.pred \in lanePreds[l]) # i.guard.negate

\* Every lane of S moves to next[l], the others stay where they are.
Move(S, next) ==
    /\ lanePC' = [l \in Lanes |-> IF l \in S THEN next[l] ELSE lanePC[l]]
    /\ UNCHANGED <<program, fault>>

StepOver(S) == Move(S, [l \in S |-> Successor(lanePC[l])])

Bra(S, i) ==
    /\ At(S, i) /\ i.op = "bra"
    /\ Move(S, [l \in S |-> IF Guarded(i, l) THEN i.target ELSE Successor(lanePC[l])])
    /\ UNCHANGED <<lanePreds, parked>>

Exit(S, i) ==
    /\ At(S, i) /\ i.op = "exit"
    /\ Move(S, [l \in S |-> IF Guarded(i, l) THEN Retired ELSE Successor(lanePC[l])])
    /\ UNCHANGED <<lanePreds, parked>>

FallOffEnd(S) ==
    /\ \E pc \in PC : Group(S, pc) /\ pc >= Len(program)
    /\ Move(S, [l \in S |-> Retired])
    /\ UNCHANGED <<lanePreds, parked>>

BarSync(S, i) ==
    /\ At(S, i) /\ i.op = "bar.sync"
    /\ S = Running
    /\ StepOver(S)
    /\ parked' = TRUE
    /\ UNCHANGED lanePreds

Release ==
    /\ fault = "none" /\ parked
    /\ parked' = FALSE
    /\ UNCHANGED <<program, lanePC, lanePreds, fault>>

Setp(S, i) ==
    /\ At(S, i) /\ i.op = "setp"
    /\ StepOver(S)
    /\ \E true \in SUBSET S :
           lanePreds' = [l \in Lanes |->
               IF ~(l \in S /\ Guarded(i, l)) THEN lanePreds[l]
               ELSE IF l \in true THEN lanePreds[l] \cup {i.dst}
               ELSE lanePreds[l] \ {i.dst}]
    /\ UNCHANGED parked

Other(S, i) ==
    /\ At(S, i) /\ i.op \in {"alu", "memory"}
    /\ StepOver(S)
    /\ UNCHANGED <<lanePreds, parked>>

Fault(S, i) ==
    /\ At(S, i)
    /\ \/ i.op = "bar.sync" /\ S # Running /\ fault' = "divergent barrier"
       \/ i.op = "memory" /\ (\E l \in S : Guarded(i, l)) /\ fault' = "memory"
    /\ UNCHANGED <<program, lanePC, lanePreds, parked>>

Next ==
    \/ Release
    \/ \E S \in SUBSET Running :
          \/ FallOffEnd(S)
          \/ \E k \in DOMAIN program : LET i == program[k] IN
                \/ Bra(S, i) \/ Exit(S, i) \/ BarSync(S, i)
                \/ Setp(S, i) \/ Other(S, i) \/ Fault(S, i)

Spec == Init /\ [][Next]_vars
=============================================================================
