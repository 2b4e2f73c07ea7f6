------------------------------ MODULE Encoding ------------------------------
(***************************************************************************)
(* One instruction between its two forms.  The assembler encodes, decodes, *)
(* patches and encodes again; the device and the disassembler decode: an   *)
(* instruction goes to and fro any number of times.                        *)
(***************************************************************************)
EXTENDS Word

CONSTANTS
    InitInstructions,  \* the structs considered, also those with no encoding
    InitWords          \* the words considered, also those of no instruction

ASSUME EncodingAssumption ==
    InitInstructions \subseteq InstructionType /\ InitWords \subseteq Words

VARIABLES
    form,              \* "struct" or "word", or "refused" by the last call
    instruction,       \* the last struct
    word,              \* the last word
    error,             \* why the call refused it
    origin             \* the form and value the instruction came in (history)

vars == <<form, instruction, word, error, origin>>

-----------------------------------------------------------------------------
Init ==
    /\ error = "none"
    /\ \/ form = "struct" /\ instruction \in InitInstructions /\ word = 0
       \/ form = "word" /\ word \in InitWords /\ instruction = [f \in Fields |-> 0]
    /\ origin = [form |-> form, instruction |-> instruction, word |-> word]

Encode ==
    /\ form = "struct"
    /\ error' = Validate(instruction)
    /\ IF error' = "none" THEN form' = "word" /\ word' = Packed(instruction)
       ELSE form' = "refused" /\ UNCHANGED word
    /\ UNCHANGED <<instruction, origin>>

\* decode looks the number up before it builds the struct; validate would refuse it too.
Decode ==
    /\ form = "word"
    /\ error' = Validate(Unpacked(word))
    /\ IF error' = "none" THEN form' = "struct" /\ instruction' = Unpacked(word)
       ELSE form' = "refused" /\ UNCHANGED instruction
    /\ UNCHANGED <<word, origin>>

Refused == form = "refused" /\ UNCHANGED vars

Next == Encode \/ Decode \/ Refused

Spec == Init /\ [][Next]_vars

-----------------------------------------------------------------------------
(* Properties                                                              *)

\* Every variable keeps its type; what decode returns fits the fields.
TypeOK ==
    /\ form \in {"struct", "word", "refused"}
    /\ instruction \in InstructionType
    /\ form = "struct" => instruction = origin.instruction
                          \/ \A f \in Fields : instruction[f] < Size[f]
    /\ word \in Words
    /\ error \in Errors

\* However often an instruction is encoded and decoded, it stays what it was: no field
\* spills into another, and no word decodes to a struct whose encoding is another word.
RoundTrip ==
    /\ form = "struct" /\ origin.form = "struct" => instruction = origin.instruction
    /\ form = "word" /\ origin.form = "word" => word = origin.word

\* The table of wisa-spec.md:76-87: the operands of an instruction.
Operands(opcode) ==
    LET Regs == 0..GeneralRegisters - 1
        Imms == 0..Immediates - 1
        Forms(dst, src0, src1, imm_flag, imm) ==
            [dst : dst, src0 : src0, src1 : src1, imm_flag : {imm_flag}, imm : imm]
        Z == {0}
    IN  CASE opcode \in Rrr -> Forms(Regs, Regs, Regs, 0, Z) \cup Forms(Regs, Regs, Z, 1, Imms)
          [] opcode \in Rr -> Forms(Regs, Regs, Z, 0, Z) \cup Forms(Regs, Z, Z, 1, Imms)
          [] opcode \in Acc -> Forms(Regs, Regs, Regs, 0, Z)
          [] opcode \in Prr ->
                LET Preds == 0..PredRegisters - 1
                IN  Forms(Preds, Regs, Regs, 0, Z) \cup Forms(Preds, Regs, Z, 1, Imms)
          [] opcode \in Sreg -> Forms(Regs, 0..SpecialRegisters - 1, Z, 0, Z)
          [] opcode \in Bra -> Forms(Z, Z, Z, 0, Imms)
          [] opcode \in None -> Forms(Z, Z, Z, 0, Z)
          [] opcode \in Ld -> Forms(Regs, Regs, Z, 1, Imms)
          [] opcode \in St -> Forms(Z, Regs, Regs, 1, Imms)
          [] opcode \in Ldp -> Forms(Regs, Z, Z, 1, Imms)

Specified(i) ==
    /\ i.opcode \in Opcodes
    /\ [f \in {"dst", "src0", "src1", "imm_flag", "imm"} |-> i[f]] \in Operands(i.opcode)
    /\ [f \in {"present", "negate", "pred"} |-> i[f]]
           \in [present : {1}, negate : Flag, pred : 0..PredRegisters - 1]
               \cup [present : {0}, negate : {0}, pred : {0}]

\* wisa-spec.md:72, "each instruction has exactly one valid encoding and the decoder
\* rejects any other word": encode accepts the instructions of the table and no other
\* struct, decode the words that their fields make up and no other word.
AcceptsSpecified ==
    /\ form = "word" /\ origin.form = "struct" => Specified(origin.instruction)
    /\ form = "struct" /\ origin.form = "word"
           => Specified(instruction) /\ Packed(instruction) = origin.word
    /\ form = "refused" /\ origin.form = "struct" => ~Specified(origin.instruction)
=============================================================================
