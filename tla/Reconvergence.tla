--------------------------- MODULE Reconvergence ---------------------------
(***************************************************************************)
(* annotate_reconvergence (src/asm/reconvergence.cpp): cut the program     *)
(* into basic blocks, compute the post-dominators of every block by data   *)
(* flow, in place, visiting the blocks in order until a sweep changes      *)
(* nothing, and write the immediate post-dominator of every guarded branch *)
(* into it.  A block is named by its first PC and the virtual exit node by *)
(* the PC after the last, in the order of the code's block numbers.        *)
(***************************************************************************)
EXTENDS Isa, FiniteSetsExt

CONSTANT Programs      \* the programs handed to the assembler's last pass

\* The assembler stops before the analysis if a program is empty or too long.
\* A label at the end of the program makes Len(p) a target.
ASSUME ProgramsAssumption ==
    \A p \in Programs :
        /\ p \in Seq(Instructions) /\ Len(p) \in 1..NoReconv
        /\ \A k \in DOMAIN p : p[k].target \in 0..Len(p)

VARIABLES
    program,           \* the instructions; annotate writes their rpc
    phase,             \* "build", "sweep", "done" or "error"
    pdom,              \* of each node, its set of post-dominators so far
    visit,             \* the block the sweep visits next
    changed            \* the sweep has changed a set

vars == <<program, phase, pdom, visit, changed>>

IsTerminator(i) == i.op \in {"bra", "exit"}
Size == Len(program)

-----------------------------------------------------------------------------
(* build_cfg *)

Leaders ==
    {0} \cup {program[k].target : k \in {j \in 1..Size : program[j].op = "bra"}}
        \cup {k \in 1..Size - 1 : IsTerminator(program[k])}
ExitNode == Size
Nodes == Leaders \cup {ExitNode}

BlockOf(pc) == Max({b \in Leaders : b <= pc})
LastPC(b) == Min({c \in Nodes : c > b}) - 1

Fallthrough(pc) == IF pc + 1 < Size THEN BlockOf(pc + 1) ELSE ExitNode

\* Where control goes after block b.
ThroughOf(b) ==
    LET i == program[LastPC(b) + 1]
    IN  IF IsTerminator(i) /\ ~i.guard.present THEN {} ELSE {Fallthrough(LastPC(b))}
\* Mutant: a guarded exit does not reach the exit node.
SuccsIgnoringGuardedExit(b) ==
    LET i == program[LastPC(b) + 1]
    IN  CASE i.op = "bra" -> {BlockOf(i.target)} \cup ThroughOf(b)
          [] i.op = "exit" /\ ~i.guard.present -> {ExitNode}
          [] OTHER -> ThroughOf(b)
Succs(b) ==
    LET i == program[LastPC(b) + 1]
    IN  CASE i.op = "bra" -> {BlockOf(i.target)} \cup ThroughOf(b)
          [] i.op = "exit" -> {ExitNode} \cup ThroughOf(b)
          [] OTHER -> ThroughOf(b)

BadTarget == \E k \in 1..Size : program[k].op = "bra" /\ program[k].target >= Size

Init ==
    /\ program \in Programs
    /\ phase = "build"
    /\ pdom = <<>> /\ visit = 0 /\ changed = FALSE

Reject ==
    /\ phase = "build" /\ BadTarget
    /\ phase' = "error"
    /\ UNCHANGED <<program, pdom, visit, changed>>

BuildCfg ==
    /\ phase = "build" /\ ~BadTarget
    /\ pdom' = [b \in Nodes |-> IF b = ExitNode THEN {ExitNode} ELSE Nodes]
    /\ phase' = "sweep" /\ visit' = 0 /\ changed' = FALSE
    /\ UNCHANGED program

-----------------------------------------------------------------------------
(* post_dominators *)

Transfer(b) == {b} \cup {d \in Nodes : \A s \in Succs(b) : d \in pdom[s]}

\* Mutant: every visit counts as a change.
VisitAlwaysChanges ==
    /\ phase = "sweep" /\ visit < ExitNode
    /\ pdom' = [pdom EXCEPT ![visit] = Transfer(visit)]
    /\ changed' = TRUE
    /\ visit' = Min({c \in Nodes : c > visit})
    /\ UNCHANGED <<program, phase>>
Visit ==
    /\ phase = "sweep" /\ visit < ExitNode
    /\ pdom' = [pdom EXCEPT ![visit] = Transfer(visit)]
    /\ changed' = (changed \/ Transfer(visit) # pdom[visit])
    /\ visit' = Min({c \in Nodes : c > visit})
    /\ UNCHANGED <<program, phase>>

Sweep ==
    /\ phase = "sweep" /\ visit = ExitNode /\ changed
    /\ visit' = 0 /\ changed' = FALSE
    /\ UNCHANGED <<program, phase, pdom>>

-----------------------------------------------------------------------------
(* immediate_post_dominator and the loop of annotate_reconvergence *)

Candidates(b) ==
    {d \in pdom[b] \ {b} : Cardinality(pdom[d]) = Cardinality(pdom[b] \ {b})}
ImmediatePdom(b) == IF Candidates(b) = {} THEN ExitNode ELSE Min(Candidates(b))

Recorded(pc) ==
    LET d == ImmediatePdom(BlockOf(pc))
    IN  IF program[pc + 1].guard.present /\ d # ExitNode
        THEN d ELSE NoReconv

Annotate ==
    /\ phase = "sweep" /\ visit = ExitNode /\ ~changed
    /\ program' = [k \in DOMAIN program |->
                      IF program[k].op = "bra"
                      THEN [program[k] EXCEPT !.rpc = Recorded(k - 1)]
                      ELSE program[k]]
    /\ phase' = "done"
    /\ UNCHANGED <<pdom, visit, changed>>

Done == phase \in {"done", "error"} /\ UNCHANGED vars

Next == Reject \/ BuildCfg \/ Visit \/ Sweep \/ Annotate \/ Done

Spec == Init /\ [][Next]_vars
FairSpec == Spec /\ WF_vars(Next)

-----------------------------------------------------------------------------
(* Properties                                                              *)

Reference == INSTANCE PostDom

\* The analysis records what sections 8.1 and 8.2 define, for every branch of
\* every program it accepts, branches that no path leads to the exit from and
\* unreachable code included (reconvergence.cpp:151-165 finds the immediate
\* post-dominator by counting and gives such loops 0xFFFF).
RecordsReference ==
    phase = "done" =>
        \A k \in 1..Size : program[k].op = "bra" =>
            program[k].rpc = Reference!ReconvergencePC(program, k - 1)

\* The loop "while (changed)" ends for every program.
AnalysisEnds == <>(phase \in {"done", "error"})
=============================================================================
