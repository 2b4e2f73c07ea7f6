------------------------------ MODULE PostDom ------------------------------
(***************************************************************************)
(* The definitions of docs/wisa-spec.md sections 8.1 and 8.2, on single    *)
(* instructions instead of basic blocks and from paths instead of data     *)
(* flow: what the assembler's reconvergence analysis is meant to compute.  *)
(* A node is a PC of the program or Len(prog), the virtual exit node.      *)
(***************************************************************************)
EXTENDS Isa

\* Where a lane at pc can go next. Falling off the end is leaving by the exit.
SuccPCs(prog, pc) ==
    LET i == prog[pc + 1] IN
    CASE i.op = "bra" -> {i.target} \cup (IF i.guard.present THEN {pc + 1} ELSE {})
      [] i.op = "exit" -> {Len(prog)} \cup (IF i.guard.present THEN {pc + 1} ELSE {})
      [] OTHER -> {pc + 1}

\* The nodes on the paths that start at pc and do not enter node d.
ReachAvoiding(prog, pc, d) ==
    LET n == Len(prog)
        Next(S) == S \cup ((UNION {SuccPCs(prog, q) : q \in S \ {n}}) \ {d})
        R[k \in 0..n] == IF k = 0 THEN {pc} ELSE Next(R[k - 1])
    IN  R[n]

CanExit(prog, pc) == Len(prog) \in ReachAvoiding(prog, pc, -1)

\* Every path from pc to the virtual exit node passes through d.
PostDominates(prog, d, pc) == d = pc \/ Len(prog) \notin ReachAvoiding(prog, pc, d)

\* The post-dominator of pc that every other post-dominator of pc post-dominates.
ImmediatePostDominator(prog, pc) ==
    LET strict == {d \in 0..Len(prog) \ {pc} : PostDominates(prog, d, pc)}
    IN  CHOOSE d \in strict : \A e \in strict : PostDominates(prog, e, d)

\* Section 8.2. A branch that no path leads to the exit from records 0xFFFF.
ReconvergencePC(prog, pc) ==
    IF ~prog[pc + 1].guard.present \/ ~CanExit(prog, pc) THEN NoReconv
    ELSE LET d == ImmediatePostDominator(prog, pc)
         IN  IF d = Len(prog) THEN NoReconv ELSE d

\* The program as the assembler emits it.
Annotated(prog) ==
    [k \in DOMAIN prog |->
        IF prog[k].op = "bra"
        THEN [prog[k] EXCEPT !.rpc = ReconvergencePC(prog, k - 1)]
        ELSE prog[k]]
=============================================================================
