------------------------------ MODULE Barrier ------------------------------
(***************************************************************************)
(* What bar.sync promises to the warps of a block: a warp that arrives     *)
(* waits until every warp that has not finished has arrived as often as    *)
(* it has; then all of them go on together.                                *)
(***************************************************************************)
EXTENDS Integers

CONSTANT WarpCounts    \* how many warps a block may have: a set of positive numbers

VARIABLES
    status,            \* of each warp: "running", "waiting" or "finished"
    arrived,           \* of each warp, how often it has arrived
    completed          \* the barriers completed

vars == <<status, arrived, completed>>

Init ==
    \E n \in WarpCounts :
        /\ status = [w \in 1..n |-> "running"]
        /\ arrived = [w \in 1..n |-> 0]
        /\ completed = 0

Arrive(w) ==
    /\ status[w] = "running" /\ arrived[w] = completed
    /\ status' = [status EXCEPT ![w] = "waiting"]
    /\ arrived' = [arrived EXCEPT ![w] = @ + 1]
    /\ UNCHANGED completed

Finish(w) ==
    /\ status[w] = "running"
    /\ status' = [status EXCEPT ![w] = "finished"]
    /\ UNCHANGED <<arrived, completed>>

Complete ==
    /\ \E w \in DOMAIN status : status[w] = "waiting"
    /\ \A w \in DOMAIN status : status[w] # "finished" =>
           status[w] = "waiting" /\ arrived[w] = completed + 1
    /\ status' = [w \in DOMAIN status |->
                     IF status[w] = "waiting" THEN "running" ELSE status[w]]
    /\ completed' = completed + 1
    /\ UNCHANGED arrived

Next == Complete \/ \E w \in DOMAIN status : Arrive(w) \/ Finish(w)

Spec == Init /\ [][Next]_vars
=============================================================================
