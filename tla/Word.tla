-------------------------------- MODULE Word --------------------------------
(***************************************************************************)
(* The two forms of an instruction, the struct and the word, and what is   *)
(* common to isa::validate, encode and decode (src/isa/instruction.cpp).   *)
(***************************************************************************)
EXTENDS Integers

CONSTANTS
    Numbers,           \* opcode numbers: 2^8 in the code, like the four below
    GeneralRegisters,  \* general_register_count: 2^6
    PredRegisters,     \* predicate_register_count: 2^3
    Immediates,        \* 2^32
    SpecialRegisters   \* the size of special_register_table: 10

ASSUME WordAssumption ==
    /\ Numbers \in Nat \ 0..46 /\ GeneralRegisters \in Nat \ {0}
    /\ PredRegisters \in 1..GeneralRegisters /\ SpecialRegisters \in 0..GeneralRegisters
    /\ Immediates \in Nat \ {0}

-----------------------------------------------------------------------------
(* opcode.hpp                                                              *)

Rr == {8, 12, 16, 23, 24, 25}     \* neg, not, mov, fneg and the two conversions
Acc == {20}                       \* ffma
Prr == 26..37                     \* setp
Sreg == {38}                      \* mov.sreg
Bra == {39}
None == {40, 41}                  \* exit, bar.sync
Ld == {42, 44}
St == {43, 45}
Ldp == {46}                       \* ld.param
Opcodes == 1..46
Rrr == Opcodes \ (Rr \cup Acc \cup Prr \cup Sreg \cup Bra \cup None \cup Ld \cup St \cup Ldp)

-----------------------------------------------------------------------------
(* instruction.hpp: the fields, flags as 0 and 1                           *)

Flag == {0, 1}
Fields == {"opcode", "present", "negate", "pred", "dst", "src0", "src1", "imm_flag", "imm"}

\* How many values the bits of a field hold.
Size == [opcode |-> Numbers, present |-> 2, negate |-> 2, pred |-> PredRegisters,
         dst |-> GeneralRegisters, src0 |-> GeneralRegisters, src1 |-> GeneralRegisters,
         imm_flag |-> 2, imm |-> Immediates]

\* 2 to the power of a field's shift; the layout of wisa-spec.md section 3.
Place ==
    LET imm_flag == Immediates
        src1 == imm_flag * 2
        src0 == src1 * GeneralRegisters
        dst == src0 * GeneralRegisters
        pred == dst * GeneralRegisters
        negate == pred * PredRegisters
        present == negate * 2
    IN  [imm |-> 1, imm_flag |-> imm_flag, src1 |-> src1, src0 |-> src0, dst |-> dst,
         pred |-> pred, negate |-> negate, present |-> present, opcode |-> present * 2]

Words == 0..Place.opcode * Numbers - 1

\* Registers and numbers are bytes, which hold more than their fields do.
InstructionType ==
    {i \in [Fields -> Nat] :
        /\ i.present \in Flag /\ i.negate \in Flag /\ i.imm_flag \in Flag
        /\ i.imm \in 0..Immediates - 1}

-----------------------------------------------------------------------------
(* instruction.cpp                                                         *)

\* field_use: the opcodes whose shape uses a field.
Use == [dst |-> Opcodes \ (St \cup Bra \cup None),
        src0 |-> Opcodes \ (Bra \cup None \cup Ldp),
        src1 |-> Rrr \cup Prr \cup Acc \cup St]
ImmOptional == Rrr \cup Prr \cup Rr
ImmAlways == Ld \cup St \cup Ldp
ImmRaw == Bra

GuardFieldsWithoutGuard(i) == i.present = 0 /\ (i.negate # 0 \/ i.pred # 0)

OutOfFields(i) == \E f \in {"dst", "src0", "src1"} : i[f] >= GeneralRegisters

UnusedRegister(i) == \E f \in {"dst", "src0", "src1"} : i.opcode \notin Use[f] /\ i[f] # 0

ImmediateFlagMismatch(i) ==
    \/ i.opcode \in ImmAlways /\ i.imm_flag = 0
    \/ i.opcode \notin ImmAlways \cup ImmOptional /\ i.imm_flag # 0

\* Mutant: the immediate replaces src1 in every shape.
UnusedOperandIgnoringRr(i) ==
    \/ i.opcode \in ImmOptional /\ i.imm_flag # 0 /\ i.src1 # 0
    \/ i.opcode \notin ImmAlways \cup ImmRaw /\ i.imm_flag = 0 /\ i.imm # 0
\* The register that the immediate replaces, or an immediate nobody reads.
UnusedOperand(i) ==
    \/ /\ i.opcode \in ImmOptional /\ i.imm_flag # 0
       /\ (IF i.opcode \in Rr THEN i.src0 ELSE i.src1) # 0
    \/ i.opcode \notin ImmAlways \cup ImmRaw /\ i.imm_flag = 0 /\ i.imm # 0

\* Mutant: a field that needs more bits than it has is let through.
ValidateUnbounded(i) ==
    IF i.opcode \notin Opcodes THEN "InvalidOpcode"
    ELSE IF GuardFieldsWithoutGuard(i) THEN "GuardFieldsWithoutGuard"
    ELSE IF i.pred >= PredRegisters THEN "PredicateOutOfRange"
    ELSE IF UnusedRegister(i) THEN "UnusedFieldNotZero"
    ELSE IF ImmediateFlagMismatch(i) THEN "ImmediateFlagMismatch"
    ELSE IF UnusedOperand(i) THEN "UnusedFieldNotZero"
    ELSE IF i.opcode \in Prr /\ i.dst >= PredRegisters THEN "PredicateOutOfRange"
    ELSE IF i.opcode \in Sreg /\ i.src0 >= SpecialRegisters THEN "SpecialRegisterOutOfRange"
    ELSE "none"
\* The first check that fails, in the order of the code.
Validate(i) ==
    IF i.opcode \notin Opcodes THEN "InvalidOpcode"
    ELSE IF GuardFieldsWithoutGuard(i) THEN "GuardFieldsWithoutGuard"
    ELSE IF i.pred >= PredRegisters THEN "PredicateOutOfRange"
    ELSE IF OutOfFields(i) \/ UnusedRegister(i) THEN "UnusedFieldNotZero"
    ELSE IF ImmediateFlagMismatch(i) THEN "ImmediateFlagMismatch"
    ELSE IF UnusedOperand(i) THEN "UnusedFieldNotZero"
    ELSE IF i.opcode \in Prr /\ i.dst >= PredRegisters THEN "PredicateOutOfRange"
    ELSE IF i.opcode \in Sreg /\ i.src0 >= SpecialRegisters THEN "SpecialRegisterOutOfRange"
    ELSE "none"

\* The fields shifted and or-ed: of a validated struct they do not overlap.
Packed(i) ==
    i.opcode * Place.opcode + i.present * Place.present + i.negate * Place.negate
    + i.pred * Place.pred + i.dst * Place.dst + i.src0 * Place.src0 + i.src1 * Place.src1
    + i.imm_flag * Place.imm_flag + i.imm

\* Mutant: the immediate is not masked.
UnpackedWide(w) == [f \in Fields |-> IF f = "imm" THEN w ELSE (w \div Place[f]) % Size[f]]
\* Every field shifted and masked.
Unpacked(w) == [f \in Fields |-> (w \div Place[f]) % Size[f]]

Errors == {"none", "InvalidOpcode", "GuardFieldsWithoutGuard", "UnusedFieldNotZero",
           "PredicateOutOfRange", "SpecialRegisterOutOfRange", "ImmediateFlagMismatch"}
=============================================================================
