-------------------------------- MODULE Simt --------------------------------
(***************************************************************************)
(* One warp of the simulator as a value: the record WarpState              *)
(* (include/warpsim/core/warp_state.hpp) and, as functions from a warp to  *)
(* its successor, what src/core/warp.cpp does to it.  Warp.tla drives one  *)
(* such record and Block.tla a block of them; a transition of either is    *)
(* one turn of a loop of Warp::step or Warp::resolve_stack.                *)
(*                                                                         *)
(* Data is abstracted to what control flow can see: of the registers, the  *)
(* predicates.  An ALU instruction other than setp and a memory access are *)
(* then a step to the next PC (an access can also fault).                  *)
(***************************************************************************)
EXTENDS Isa

CONSTANTS
    Lanes,          \* the lanes of a warp (warp_size = 32 in the code)
    MaxDivergences  \* model bound: a warp diverges at most this often

ASSUME SimtAssumption ==
    /\ IsFiniteSet(Lanes) /\ Lanes # {}
    /\ MaxDivergences \in Nat

\* DivergenceEntry and WarpState. The top of the stack is its last element.
Entries == [rpc : PC, resume : PC, mask : SUBSET Lanes]
WarpStates ==
    [pc : PC, active : SUBSET Lanes, live : SUBSET Lanes, stack : Seq(Entries),
     preds : [Lanes -> SUBSET Preds], parked : BOOLEAN,
     divergent : Nat, reconverged : Nat]

NewWarp(live) ==
    [pc |-> 0, active |-> live, live |-> live, stack |-> <<>>,
     preds |-> [l \in Lanes |-> {}], parked |-> FALSE,
     divergent |-> 0, reconverged |-> 0]

Top(s) == s[Len(s)]
Pop(s) == SubSeq(s, 1, Len(s) - 1)
IsJoin(e) == e.resume = e.rpc
Finished(w) == w.live = {}

-----------------------------------------------------------------------------
(* resolve_stack and switch_to: rules 3 and 4 of the specification.        *)

\* Mutant: rule 3 ignores the entries of lanes that wait at the join.
AtReconvergenceOnce(w) ==
    w.active # {} /\ w.stack # <<>> /\ Top(w.stack).rpc = w.pc /\ ~IsJoin(Top(w.stack))
AtReconvergence(w) == w.active # {} /\ w.stack # <<>> /\ Top(w.stack).rpc = w.pc
Emptied(w) == w.active = {} /\ w.stack # <<>>
Drained(w) == w.active = {} /\ w.stack = <<>>
Settled(w) == w.active # {} /\ ~AtReconvergence(w)

\* Mutant: the arrived lanes are pushed as a deferred path.
ArrivedEntryKeepsResume(e, arrived) == [e EXCEPT !.mask = arrived]
ArrivedEntry(e, arrived) == [rpc |-> e.rpc, resume |-> e.rpc, mask |-> arrived]

\* Mutant: a join does not union the lanes that arrived second.
SwitchToLosesArrived(w, e, arrived) ==
    IF IsJoin(e) THEN [w EXCEPT !.active = e.mask, !.pc = e.rpc]
    ELSE [w EXCEPT !.active = e.mask, !.pc = e.resume,
                   !.stack = IF arrived = {} THEN w.stack
                             ELSE Append(w.stack, ArrivedEntry(e, arrived))]
SwitchTo(w, e, arrived) ==
    IF IsJoin(e)
    THEN [w EXCEPT !.active = arrived \cup e.mask, !.pc = e.rpc]
    ELSE [w EXCEPT !.active = e.mask, !.pc = e.resume,
                   !.stack = IF arrived = {} THEN w.stack
                             ELSE Append(w.stack, ArrivedEntry(e, arrived))]

Popped(w) == [w EXCEPT !.stack = Pop(w.stack)]

\* Rule 3: the current path has reached its reconvergence point.
Rejoined(w) ==
    [SwitchTo(Popped(w), Top(w.stack), w.active) EXCEPT !.reconverged = @ + 1]

\* Rule 4: every active lane has retired, the deferred path runs.
Resumed(w) == SwitchTo(Popped(w), Top(w.stack), {})

Retire(w, lanes) ==
    [w EXCEPT !.live = @ \ lanes, !.active = @ \ lanes,
              !.stack = [k \in DOMAIN w.stack |->
                            [w.stack[k] EXCEPT !.mask = @ \ lanes]]]

-----------------------------------------------------------------------------
(* Issuing one instruction i on a settled warp.                            *)

Advance(w) == [w EXCEPT !.pc = Successor(@)]

Holds(g, w, l) == (g.pred \in w.preds[l]) # g.negate
Exec(i, w) == IF i.guard.present THEN {l \in w.active : Holds(i.guard, w, l)}
                                 ELSE w.active

\* Mutant: a branch all lanes take diverges too.
SplitsOnAnyTaken(i, w) == i.guard.present /\ Exec(i, w) # {}
Splits(i, w) == i.guard.present /\ Exec(i, w) \notin {{}, w.active}

\* Mutant: the target is added to the PC.
JumpedRelative(i, w) == IF i.guard.present /\ Exec(i, w) = {}
                        THEN Advance(w) ELSE [w EXCEPT !.pc = @ + i.target]

\* Rule 1, and the unguarded branch.
Jumped(i, w) == IF i.guard.present /\ Exec(i, w) = {}
                THEN Advance(w) ELSE [w EXCEPT !.pc = i.target]

\* Rule 2: the taken path first, the fall-through path deferred.
Deferred(i, w) == [rpc |-> i.rpc, resume |-> Successor(w.pc),
                   mask |-> w.active \ Exec(i, w)]
Diverged(i, w) ==
    [w EXCEPT !.stack = Append(@, Deferred(i, w)),
              !.active = Exec(i, w), !.pc = i.target, !.divergent = @ + 1]

\* Mutant: exit retires the warp.
ExitedWhole(i, w) == Advance(Retire(w, w.live))
Exited(i, w) == Advance(Retire(w, Exec(i, w)))

\* Mutant: only an empty warp may not park.
BarrierFaultsWhenEmpty(w) == w.active = {}
\* The guard of a bar.sync plays no part.
BarrierFaults(w) == w.active # w.live
Parked(w) == [Advance(w) EXCEPT !.parked = TRUE]
Released(w) == [w EXCEPT !.parked = FALSE]

\* setp writes the guarded lanes; which of them compare true is data.
Compared(i, w, true) ==
    [Advance(w) EXCEPT !.preds =
        [l \in Lanes |-> IF l \notin Exec(i, w) THEN w.preds[l]
                         ELSE IF l \in true THEN w.preds[l] \cup {i.dst}
                         ELSE w.preds[l] \ {i.dst}]]

-----------------------------------------------------------------------------
(* The invariants of a warp between two transitions                        *)

\* check_invariants (wisa-spec.md:257-258) and its converse: a lane that has not
\* retired is in exactly one of the active mask and the stack's masks, a retired
\* lane is in none, and no entry is empty.
MasksDisjoint(active, stack) ==
    /\ \A k \in DOMAIN stack : stack[k].mask \cap active = {}
    /\ \A j, k \in DOMAIN stack : j # k => stack[j].mask \cap stack[k].mask = {}
MasksCover(active, stack, live) ==
    \A l \in Lanes :
        l \in live <=> l \in active \/ \E k \in DOMAIN stack : l \in stack[k].mask
Partition(active, stack, live) ==
    /\ MasksDisjoint(active, stack)
    /\ MasksCover(active, stack, live)
    /\ \A k \in DOMAIN stack : stack[k].mask # {}
Partitioned(w) == Partition(w.active, w.stack, w.live)

\* A parked warp has all its lanes together and nothing deferred.
Converged(w) == w.active = w.live /\ w.stack = <<>>
ParkedConverged(w) == w.parked => Converged(w)
=============================================================================
