------------------------------- MODULE MCAlu -------------------------------
(* Instructions of every operand shape with each field up to one value     *)
(* more than its bits hold, every word of their opcodes, and the words of  *)
(* the ALU's instructions on registers of six bits.                        *)
EXTENDS Alu

\* One opcode of every shape, and the two numbers next to the table.
MCNumbers == {0, 1, 8, 20, 26, 38, 39, 40, 42, 43, 46, 47}
MCImmediates == {0, 1, 63}

MCInitInstructions ==
    [opcode : MCNumbers, present : Flag, negate : Flag, pred : 0..PredRegisters,
     dst : 0..GeneralRegisters, src0 : 0..GeneralRegisters, src1 : 0..GeneralRegisters,
     imm_flag : Flag, imm : MCImmediates]

\* The instructions of the ALU: dst differs from the sources or is one of them, and the
\* immediate is -3 or a signaling NaN.
AluInstructions ==
    {i \in [opcode : {n \in Opcodes : IsAluOpcode(n)}, present : {0}, negate : {0}, pred : {0},
            dst : 0..2, src0 : {0}, src1 : {0, 1}, imm_flag : Flag, imm : {0, 61}] :
        Validate(i) = "none" /\ (i.imm_flag = 1 <=> i.imm # 0)}

MCInitWords ==
    {w \in Words : w \div Place.opcode \in MCNumbers /\ w % Immediates \in MCImmediates}
    \cup {Packed(i) : i \in AluInstructions}

\* Lane 0 has any two numbers, lane 1 the same in the other order. The second is a subnormal,
\* infinity, -0.0 or INT_MIN, a quiet NaN or -1.
Seconds == {3, 28, 32, 63}
\* Either lane executes alone.
MCMasks == {{0}, {1}}
MCInitGeneral ==
    {[l \in Lanes |-> [r \in 0..2 |-> IF r = 2 THEN 6 ELSE IF r = l THEN a ELSE b]] :
        a \in Values, b \in Seconds}
MCInitPredicates == {[l \in Lanes |-> [r \in 0..1 |-> r = l]]}
MCSpecial == [l \in Lanes |-> [r \in 0..1 |-> l + 2 * r]]
=============================================================================
