------------------------------ MODULE MCMemory ------------------------------
(* Memory instructions of three lanes on a few words, with addresses that  *)
(* coincide, conflict in a bank, wrap around, straddle the end of a memory *)
(* or are not aligned.                                                     *)
EXTENDS Memory

Access(space, store, dst, imm) ==
    [space |-> space, store |-> store, src0 |-> "src0", src1 |-> "src1",
     dst |-> dst, imm |-> imm]

\* 13 is the offset -3 and 12 the offset -4; 5 exceeds the parameter table.
MCAccesses ==
    {Access(space, FALSE, dst, imm) :
         space \in {"global", "shared"}, dst \in {"dst", "src0"}, imm \in {0, 12}}
    \cup {Access(space, TRUE, "dst", imm) : space \in {"global", "shared"}, imm \in {0, 4, 13}}
    \cup {Access("param", FALSE, "dst", imm) : imm \in {0, 1, 5}}

Addresses ==
    {<<0, 4, 8>>, <<0, 0, 8>>, <<4, 4, 4>>, <<12, 0, 6>>, <<8, 12, 0>>, <<8, 0, 2>>}

MCInitRegisters ==
    {[l \in Lanes |-> [src0 |-> a[l + 1], src1 |-> l + 1, dst |-> 0]] : a \in Addresses}

MCParams == <<7, 9>>
=============================================================================
