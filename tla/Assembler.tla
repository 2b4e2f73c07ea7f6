------------------------------ MODULE Assembler ------------------------------
(***************************************************************************)
(* assemble (src/asm/assembler.cpp), and disassemble (disassembler.cpp),   *)
(* whose listing is assembled again.  A transition is a line of source, a  *)
(* branch to resolve, or one of the passes over the words.                 *)
(*                                                                         *)
(* A line is what the lexer leaves of it: an optional label, and nothing,  *)
(* a directive or an instruction with its operands as they are written.    *)
(* An identifier is given as a register or as a name, as its place has it. *)
(* annotate_reconvergence is taken by its result (module Reconvergence).   *)
(***************************************************************************)
EXTENDS Word, PostDom, SequencesExt

CONSTANTS
    Halves,            \* the values of half an immediate: 2^16
    Names,             \* identifiers
    SynthesizedLabel,  \* "L" followed by the PC
    NonFinite,         \* the magnitudes that are no finite binary32 number
    Sources            \* the sources considered: sequences of lines

NoName == "none"
Half == Immediates \div 2

\* A line. After bra any identifier is a label.
OperandType ==
    [form : {"r", "p", "special"}, value : Nat]
    \cup [form : {"int"}, negative : BOOLEAN, value : Nat]
    \cup [form : {"float"}, negative : BOOLEAN, value : 0..Half - 1]
    \cup [form : {"address"}, base : Nat, negative : BOOLEAN, value : Nat]
    \cup [form : {"name", "param"}, name : Names]
InstructionLine ==
    {s \in [kind : {"instruction"}, opcode : Nat, present : Flag, negate : Flag, pred : Nat,
            operands : Seq(OperandType)] :
        /\ s.present = 0 => s.negate = 0 /\ s.pred = 0
        /\ s.opcode \in Bra /\ s.operands # <<>> => s.operands[1].form \notin {"r", "p"}}
LineType ==
    [label : Names \cup {NoName},
     stmt : [kind : {"none", "unknown"}] \cup [kind : {"entry", "param"}, name : Names]
            \cup [kind : {"shared"}, bytes : Nat] \cup InstructionLine]

ASSUME AssemblerAssumption ==
    /\ NoReconv = Halves - 1 /\ Preds = 0..PredRegisters - 1
    /\ Halves \in {2 * h : h \in 1..NoReconv} /\ Immediates = Halves * Halves
    /\ NoName \notin Names /\ SynthesizedLabel \in [PC -> Names]
    /\ NonFinite \subseteq 0..Half - 1
    /\ Sources \subseteq Seq(LineType)

VARIABLES
    source,            \* the lines
    line,              \* the number of the next line to read
    program,           \* program_; its labels are the names by PC
    labels,            \* labels_: the PCs by name
    pending,           \* pending_: the branches to resolve
    phase,             \* the pass, or how the last call ended
    error,             \* the line that the error names
    round,             \* 1, or 2 when the source is a listing
    origin             \* the program that the listing shows (history)

vars == <<source, line, program, labels, pending, phase, error, round, origin>>

-----------------------------------------------------------------------------
(* parse_operands                                                          *)

\* prints_float_immediate; the assembler reads a float for mov, too.
PrintsFloats == {17, 18, 19, 21, 22, 23, 25} \cup 32..37
AcceptsFloats == PrintsFloats \cup {16}

\* How the operands of an opcode are read, from left to right.
Steps(opcode) ==
    CASE opcode \in Rrr -> <<"dst_reg", "src0_reg", "src1_reg_or_imm">>
      [] opcode \in Rr -> <<"dst_reg", "src0_reg_or_imm">>
      [] opcode \in Acc -> <<"dst_reg", "src0_reg", "src1_reg">>
      [] opcode \in Prr -> <<"dst_pred", "src0_reg", "src1_reg_or_imm">>
      [] opcode \in Sreg -> <<"dst_reg", "special">>
      [] opcode \in Bra -> <<"branch_target">>
      [] opcode \in None -> <<>>
      [] opcode \in Ld -> <<"dst_reg", "address">>
      [] opcode \in St -> <<"address", "src1_reg">>
      [] opcode \in Ldp -> <<"dst_reg", "param_ref">>

\* What an operand of some form reads as; nothing if it is refused.
Index(o, form, count) == {o.value : x \in {o} \cap [form : {form}, value : 0..count - 1]}
General(o) == Index(o, "r", GeneralRegisters)

Immediate(o, opcode) ==
    CASE o.form = "int" /\ o.value <= (IF o.negative THEN Half ELSE Immediates - 1) ->
           {IF o.negative THEN (Immediates - o.value) % Immediates ELSE o.value}
      [] o.form = "float" /\ opcode \in AcceptsFloats /\ o.value \notin NonFinite ->
           {IF o.negative THEN o.value + Half ELSE o.value}
      [] OTHER -> {}

\* The offset of an address; unlike an immediate it may have any magnitude.
Offset(o) ==
    IF o.form # "address" \/ o.value >= Immediates \/ o.base >= GeneralRegisters THEN {}
    ELSE {IF o.negative THEN (Immediates - o.value) % Immediates ELSE o.value}

\* The structs that i becomes by one step: one, or none if the step fails.
Read(step, o, i, params) ==
    LET Set(field, values) == {[i EXCEPT ![field] = v] : v \in values}
        SetImm(j, values) == {[j EXCEPT !.imm_flag = 1, !.imm = v] : v \in values}
    IN  CASE step = "dst_reg" -> Set("dst", General(o))
          [] step = "src0_reg" -> Set("src0", General(o))
          [] step = "src1_reg" -> Set("src1", General(o))
          [] step = "src0_reg_or_imm" ->
               Set("src0", General(o)) \cup SetImm(i, Immediate(o, i.opcode))
          [] step = "src1_reg_or_imm" ->
               Set("src1", General(o)) \cup SetImm(i, Immediate(o, i.opcode))
          [] step = "dst_pred" -> Set("dst", Index(o, "p", PredRegisters))
          [] step = "special" -> Set("src0", Index(o, "special", SpecialRegisters))
          [] step = "branch_target" ->
               IF o.form = "name" THEN Set("imm", {NoReconv * Halves}) ELSE {}
          [] step = "address" ->
               UNION {SetImm([i EXCEPT !.src0 = o.base], {v}) : v \in Offset(o)}
          [] step = "param_ref" ->
               IF o.form # "param" THEN {}
               ELSE SetImm(i, {(k - 1) % Immediates : k \in {j \in DOMAIN params : params[j] = o.name}})

\* The struct of a statement, if there is one.
Parsed(s, params) ==
    LET blank == [f \in Fields |-> IF f \in {"opcode", "present", "negate", "pred"} THEN s[f] ELSE 0]
        P[k \in 0..Len(s.operands)] ==
            IF k = 0 THEN {blank}
            ELSE UNION {Read(Steps(s.opcode)[k], s.operands[k], i, params) : i \in P[k - 1]}
    IN  IF \/ s.opcode \notin Opcodes \/ s.pred >= PredRegisters
           \/ Len(s.operands) # Len(Steps(s.opcode))
        THEN {} ELSE P[Len(s.operands)]

-----------------------------------------------------------------------------
(* Parser::run                                                             *)

Blank == [entry |-> NoName, params |-> <<>>, shared |-> 0, words |-> <<>>, labels |-> <<>>]

Start(s) ==
    /\ source = s /\ line = 1 /\ program = Blank
    /\ labels = <<>> /\ pending = <<>> /\ phase = "parse" /\ error = 0

Init == \E s \in Sources : Start(s) /\ round = 1 /\ origin = Blank

Reading == phase = "parse" /\ line <= Len(source)
Current == source[line]
\* Mutant: a label is the PC after the instruction that follows it.
HereAfter == (Len(program.words) + 1) % Halves
Here == Len(program.words) % Halves

Refuse(l) ==
    /\ phase' = "refused" /\ error' = l
    /\ UNCHANGED <<source, line, program, labels, pending, round, origin>>

\* Mutant: .entry may follow instructions.
EntryAllowedLate == program.entry = NoName
EntryAllowed == program.entry = NoName /\ program.words = <<>>

\* The line is accepted. (A label in front of a directive is not.)
Accepted(l) ==
    CASE l.stmt.kind = "entry" -> l.label = NoName /\ EntryAllowed
      [] l.stmt.kind = "param" -> l.label = NoName /\ ~Contains(program.params, l.stmt.name)
      [] l.stmt.kind = "shared" -> l.label = NoName /\ l.stmt.bytes < Immediates
      [] l.stmt.kind = "none" -> l.label \notin DOMAIN labels
      [] l.stmt.kind = "instruction" ->
           /\ l.label \notin DOMAIN labels
           /\ \E i \in Parsed(l.stmt, program.params) : Validate(i) = "none"
      [] OTHER -> FALSE

RefuseLine == Reading /\ ~Accepted(Current) /\ Refuse(line)

Directive ==
    /\ Reading /\ Accepted(Current) /\ Current.stmt.kind \in {"entry", "param", "shared"}
    /\ program' = CASE Current.stmt.kind = "entry" -> [program EXCEPT !.entry = Current.stmt.name]
                    [] Current.stmt.kind = "param" ->
                         [program EXCEPT !.params = Append(@, Current.stmt.name)]
                    [] Current.stmt.kind = "shared" ->
                         [program EXCEPT !.shared = Current.stmt.bytes]
    /\ line' = line + 1
    /\ UNCHANGED <<source, labels, pending, phase, error, round, origin>>

\* std::map::emplace keeps what the key has, so the first name of a PC.
Emplace(map, key, value) ==
    [k \in DOMAIN map \cup {key} |-> IF k \in DOMAIN map THEN map[k] ELSE value]
Labelled(p) ==
    IF Current.label = NoName THEN p
    ELSE [p EXCEPT !.labels = Emplace(@, Here, Current.label)]
LabelsAfter ==
    IF Current.label = NoName THEN labels ELSE Emplace(labels, Current.label, Here)

LabelLine ==
    /\ Reading /\ Accepted(Current) /\ Current.stmt.kind = "none"
    /\ program' = Labelled(program)
    /\ labels' = LabelsAfter
    /\ line' = line + 1
    /\ UNCHANGED <<source, pending, phase, error, round, origin>>

Statement ==
    /\ Reading /\ Accepted(Current) /\ Current.stmt.kind = "instruction"
    /\ \E i \in Parsed(Current.stmt, program.params) :
           program' = Labelled([program EXCEPT !.words = Append(@, Packed(i))])
    /\ labels' = LabelsAfter
    /\ pending' = (IF Current.stmt.opcode \notin Bra THEN pending
                   ELSE Append(pending, [pc |-> Len(program.words), line |-> line,
                                         label |-> Current.stmt.operands[1].name]))
    /\ line' = line + 1
    /\ UNCHANGED <<source, phase, error, round, origin>>

EndOfSource ==
    /\ phase = "parse" /\ line = Len(source) + 1
    /\ IF program.entry = NoName \/ Len(program.words) > NoReconv THEN Refuse(1)
       ELSE /\ phase' = "resolve"
            /\ UNCHANGED <<source, line, program, labels, pending, error, round, origin>>

-----------------------------------------------------------------------------
(* resolve_branches and annotate                                           *)

MakeBranchImm(target, reconvergence) == reconvergence * Halves + target
BranchTarget(i) == i.imm % Halves

\* value() of a result that is an error ends the process.
Abort ==
    /\ phase' = "aborted"
    /\ UNCHANGED <<source, line, program, labels, pending, error, round, origin>>

\* The words with immediates imm[k] in the branches, if all can be decoded and encoded.
Branches(words) == {k \in DOMAIN words : Unpacked(words[k]).opcode \in Bra}
Patched(words, imm) ==
    [k \in DOMAIN words |->
        IF k \in DOMAIN imm THEN [Unpacked(words[k]) EXCEPT !.imm = imm[k]]
        ELSE Unpacked(words[k])]
Encodable(structs) == \A k \in DOMAIN structs : Validate(structs[k]) = "none"
WithWords(structs) ==
    program' = [program EXCEPT !.words = [k \in DOMAIN structs |-> Packed(structs[k])]]

Resolve ==
    /\ phase = "resolve" /\ pending # <<>>
    /\ LET b == Head(pending)
           word == <<program.words[b.pc + 1]>>
           imm == <<MakeBranchImm(labels[b.label], NoReconv)>>
       IN  IF b.label \notin DOMAIN labels THEN Refuse(b.line)
           ELSE IF ~Encodable(Patched(word, <<>>)) \/ ~Encodable(Patched(word, imm)) THEN Abort
           ELSE /\ program' = [program EXCEPT !.words[b.pc + 1] = Packed(Patched(word, imm)[1])]
                /\ pending' = Tail(pending)
                /\ UNCHANGED <<source, line, labels, phase, error, round, origin>>

\* What the analysis reads of a struct.
Flow(i) ==
    [op |-> CASE i.opcode \in Bra -> "bra" [] i.opcode = 40 -> "exit" [] OTHER -> "alu",
     guard |-> [present |-> i.present = 1], target |-> BranchTarget(i)]

Annotate ==
    /\ phase = "resolve" /\ pending = <<>>
    /\ LET words == program.words
           structs == Patched(words, <<>>)
           flow == [k \in DOMAIN words |-> Flow(structs[k])]
           annotated == Patched(words, [k \in Branches(words) |->
               MakeBranchImm(flow[k].target, ReconvergencePC(flow, k - 1))])
       IN  IF ~Encodable(structs) THEN Abort
           ELSE IF \E k \in Branches(words) : flow[k].target >= Len(words) THEN Refuse(0)
           ELSE IF ~Encodable(annotated) THEN Abort
           ELSE /\ WithWords(annotated)
                /\ phase' = "done"
                /\ UNCHANGED <<source, line, labels, pending, error, round, origin>>

-----------------------------------------------------------------------------
(* disassemble                                                             *)

\* Mutant: NaN and infinity are printed like any number.
PrintedImmediateAnyFloat(i) ==
    IF i.opcode \in PrintsFloats
    THEN [form |-> "float", negative |-> i.imm >= Half, value |-> i.imm % Half]
    ELSE [form |-> "int", negative |-> FALSE, value |-> i.imm]
\* A float if it is finite, else the bits for these and for mov, else signed.
PrintedImmediate(i) ==
    IF i.opcode \in PrintsFloats /\ i.imm % Half \notin NonFinite
    THEN [form |-> "float", negative |-> i.imm >= Half, value |-> i.imm % Half]
    ELSE IF i.opcode \notin AcceptsFloats /\ i.imm >= Half
    THEN [form |-> "int", negative |-> TRUE, value |-> Immediates - i.imm]
    ELSE [form |-> "int", negative |-> FALSE, value |-> i.imm]

Printed(form, value) == [form |-> form, value |-> value]
PrintedAddress(i) ==
    [form |-> "address", base |-> i.src0, negative |-> i.imm >= Half,
     value |-> IF i.imm >= Half THEN Immediates - i.imm ELSE i.imm]

\* format_instruction: the operands.
Operands(i, names, params) ==
    LET immediateOr(r) == IF i.imm_flag = 1 THEN PrintedImmediate(i) ELSE Printed("r", r)
        dst == Printed("r", i.dst)
        src0 == Printed("r", i.src0)
        src1 == Printed("r", i.src1)
    IN  CASE i.opcode \in Rrr -> <<dst, src0, immediateOr(i.src1)>>
          [] i.opcode \in Prr -> <<Printed("p", i.dst), src0, immediateOr(i.src1)>>
          [] i.opcode \in Rr -> <<dst, immediateOr(i.src0)>>
          [] i.opcode \in Acc -> <<dst, src0, src1>>
          [] i.opcode \in Sreg -> <<dst, Printed("special", i.src0)>>
          [] i.opcode \in Bra -> <<[form |-> "name", name |-> names[BranchTarget(i)]]>>
          [] i.opcode \in None -> <<>>
          [] i.opcode \in Ld -> <<dst, PrintedAddress(i)>>
          [] i.opcode \in St -> <<PrintedAddress(i), src1>>
          [] i.opcode \in Ldp -> <<dst, [form |-> "param", name |-> params[i.imm + 1]]>>

Line(label, stmt) == [label |-> label, stmt |-> stmt]

\* Every target has a name: the source's, or else one made of its PC.
Listing(p) ==
    LET structs == Patched(p.words, <<>>)
        targets == {BranchTarget(structs[k]) : k \in Branches(p.words)}
        names == [pc \in DOMAIN p.labels \cup targets |->
                     IF pc \in DOMAIN p.labels THEN p.labels[pc] ELSE SynthesizedLabel[pc]]
        Statements(k) ==
            LET i == structs[k] IN
            (IF k - 1 \in DOMAIN names THEN <<Line(names[k - 1], [kind |-> "none"])>> ELSE <<>>)
            \o <<Line(NoName, [kind |-> "instruction", opcode |-> i.opcode, present |-> i.present,
                               negate |-> i.negate, pred |-> i.pred,
                               operands |-> Operands(i, names, p.params)])>>
    IN  <<Line(NoName, [kind |-> "entry", name |-> p.entry])>>
        \o [k \in DOMAIN p.params |-> Line(NoName, [kind |-> "param", name |-> p.params[k]])]
        \o <<Line(NoName, [kind |-> "shared", bytes |-> p.shared])>>
        \o FlattenSeq([k \in DOMAIN p.words |-> Statements(k)])

Printable(p) ==
    LET structs == Patched(p.words, <<>>)
    IN  /\ Encodable(structs)
        /\ \A k \in DOMAIN structs : structs[k].opcode \in Ldp => structs[k].imm < Len(p.params)

\* The listing becomes the source of another call of assemble.
Disassemble ==
    /\ phase = "done" /\ round = 1
    /\ IF Printable(program)
       THEN /\ source' = Listing(program) /\ line' = 1 /\ program' = Blank
            /\ labels' = <<>> /\ pending' = <<>> /\ phase' = "parse"
            /\ round' = 2 /\ origin' = program
            /\ UNCHANGED error
       ELSE /\ phase' = "unprintable"
            /\ UNCHANGED <<source, line, program, labels, pending, error, round, origin>>

Ended ==
    /\ phase \in {"refused", "aborted", "unprintable"} \/ (phase = "done" /\ round = 2)
    /\ UNCHANGED vars

Next ==
    \/ RefuseLine \/ Directive \/ LabelLine \/ Statement \/ EndOfSource
    \/ Resolve \/ Annotate \/ Disassemble \/ Ended

Spec == Init /\ [][Next]_vars

-----------------------------------------------------------------------------
(* Properties                                                              *)

\* The source without the passes: what is on a line, and what precedes it.
Lines == DOMAIN source
Kind(k) == source[k].stmt.kind
InstructionLines == {k \in Lines : Kind(k) = "instruction"}
LabelLines(name) == {k \in Lines : source[k].label = name}
PCOf(k) == Cardinality({j \in InstructionLines : j < k})
BranchLines == {k \in InstructionLines : source[k].stmt.opcode \in Bra}
LabelOf(k) == source[k].stmt.operands[1].name
TargetOf(k) == PCOf(CHOOSE j \in LabelLines(LabelOf(k)) : TRUE)
ParamsBefore(k) ==
    LET P[n \in 0..Len(source)] ==
            IF n = 0 THEN <<>>
            ELSE IF Kind(n) = "param" THEN Append(P[n - 1], source[n].stmt.name) ELSE P[n - 1]
    IN  P[k - 1]
At(pc) == CHOOSE k \in InstructionLines : PCOf(k) = pc
FlowAsWritten ==
    [pc \in 1..Cardinality(InstructionLines) |->
        LET k == At(pc - 1) IN
        [op |-> CASE k \in BranchLines -> "bra" [] source[k].stmt.opcode = 40 -> "exit"
                  [] OTHER -> "alu",
         guard |-> [present |-> source[k].stmt.present = 1],
         target |-> IF k \in BranchLines THEN TargetOf(k) ELSE 0]]

\* Every branch of an assembled program goes to the instruction that follows its label,
\* backward or forward, and carries the reconvergence PC of section 8.2 for the program
\* as written; every instruction is at its place with its opcode and guard. (Labels are
\* patched after the whole source has been read, assembler.cpp:485-499, and the analysis
\* runs on words that were decoded and are encoded again, :502-518.)
BranchesAsWritten ==
    phase = "done" =>
        /\ Len(program.words) = Cardinality(InstructionLines)
        /\ \A k \in InstructionLines :
               LET i == Unpacked(program.words[PCOf(k) + 1])
               IN  /\ \A f \in {"opcode", "present", "negate", "pred"} : i[f] = source[k].stmt[f]
                   /\ k \in BranchLines =>
                        /\ i.imm % Halves = TargetOf(k)
                        /\ i.imm \div Halves = ReconvergencePC(FlowAsWritten, PCOf(k))

\* A line that no source may have where it is.
Faulty(k) ==
    \/ source[k].label # NoName
       /\ (Kind(k) \notin {"none", "instruction"} \/ \E j \in LabelLines(source[k].label) : j < k)
    \/ Kind(k) = "entry" /\ \E j \in 1..k - 1 : Kind(j) \in {"entry", "instruction"}
    \/ Kind(k) = "param" /\ Contains(ParamsBefore(k), source[k].stmt.name)
    \/ Kind(k) = "shared" /\ source[k].stmt.bytes >= Immediates
    \/ Kind(k) = "instruction" /\ Parsed(source[k].stmt, ParamsBefore(k)) = {}
    \/ Kind(k) = "unknown"

\* wisa-spec.md:185: .entry is the "first directive", so of an accepted source no .param
\* and no .shared precedes it.
EntryFirst ==
    phase = "done" =>
        \A e, k \in Lines : Kind(e) = "entry" /\ Kind(k) \in {"param", "shared"} => e < k

\* assemble accepts exactly the sources without a fault, and of a source with several
\* faults it names the first line by itself faulty, else the first branch without label;
\* and it always answers: no value() in its passes (assembler.cpp:495-516) ends the process.
\* Before .entry, only an instruction is a fault: that is EntryFirst's matter.
AcceptsOrNamesFirst ==
    LET faulty == {k \in Lines : Faulty(k)}
        whole == (\E k \in Lines : Kind(k) = "entry") /\ Cardinality(InstructionLines) <= NoReconv
        unlabelled == {k \in BranchLines : LabelLines(LabelOf(k)) = {}}
        outside == {k \in BranchLines : TargetOf(k) = Cardinality(InstructionLines)}
    IN  /\ phase # "aborted"
        /\ phase = "refused" =>
              CASE faulty # {} -> error = Min(faulty)
                [] faulty = {} /\ ~whole -> error = 1
                [] faulty = {} /\ whole /\ unlabelled # {} -> error = Min(unlabelled)
                [] OTHER -> outside # {} /\ error = 0
        /\ phase = "done" => faulty = {} /\ whole /\ unlabelled = {} /\ outside = {}

\* disassembler.hpp:27-28, of assembled programs: the listing is accepted and reassembles
\* to the same words (and entry, parameters and shared size).
RoundTrip ==
    /\ round = 2 => phase \notin {"refused", "unprintable"}
    /\ round = 2 /\ phase = "done" =>
          \A f \in {"entry", "params", "shared", "words"} : program[f] = origin[f]
    /\ phase # "unprintable"
=============================================================================
