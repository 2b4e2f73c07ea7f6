----------------------------- MODULE MCAssembler -----------------------------
(* Sources for TLC: short programs of labels and branches, directives in   *)
(* every order, and single instructions of every operand shape.            *)
EXTENDS Assembler

MCNames == {"k", "a", "A", "L0", "L1", "L2", "L3"}
MCSynthesizedLabel == [pc \in PC |-> <<"L0", "L1", "L2", "L3">>[pc + 1]]

Operand(form, value) == [form |-> form, value |-> value]
Number(form, negative, value) == [form |-> form, negative |-> negative, value |-> value]
NameOf(form, name) == [form |-> form, name |-> name]
Address(base, negative, value) ==
    [form |-> "address", base |-> base, negative |-> negative, value |-> value]

Instr(opcode, operands) ==
    [kind |-> "instruction", opcode |-> opcode, present |-> 0, negate |-> 0, pred |-> 0,
     operands |-> operands]
Guarded(stmt) == [stmt EXCEPT !.present = 1, !.negate = 1, !.pred = 1]
BraTo(name) == Instr(39, <<NameOf("name", name)>>)
Exit == Instr(40, <<>>)
LdParam(name) == Instr(46, <<Operand("r", 1), NameOf("param", name)>>)

Plain(stmt) == Line(NoName, stmt)
Nothing == [kind |-> "none"]
Entry == Plain([kind |-> "entry", name |-> "k"])
Param(name) == Plain([kind |-> "param", name |-> name])

\* Labels before, at and after the branches that name them, one that the
\* disassembler could synthesize for another PC, and one too many instructions.
FlowLines ==
    {Plain(BraTo("A")), Plain(Guarded(BraTo("A"))), Plain(Guarded(BraTo("L1"))),
     Line("A", Nothing), Line("L1", Nothing), Line("A", Exit), Plain(Guarded(Exit)),
     Plain(Instr(1, <<Operand("r", 0), Operand("r", 1), Operand("r", 1)>>))}
FlowSources == {<<Entry>> \o s : s \in [1..4 -> FlowLines]}

DirectiveLines ==
    {Entry, Param("a"), Param("A"), Plain([kind |-> "shared", bytes |-> 4]),
     Plain([kind |-> "shared", bytes |-> 16]), Plain([kind |-> "unknown"]),
     Line("A", [kind |-> "param", name |-> "a"]), Line("A", Nothing),
     Plain(LdParam("a")), Plain(LdParam("A"))}
DirectiveSources == [1..3 -> DirectiveLines] \cup {<<Entry>> \o s : s \in [1..3 -> DirectiveLines]}

Registers == {Operand("r", n) : n \in 0..2}
Numerals ==
    {Number("int", negative, n) : negative \in BOOLEAN, n \in {0, 7, 8, 9, 15, 16}}
    \cup {Number("float", negative, n) : negative \in BOOLEAN, n \in 0..7}
Addresses == {Address(r, negative, n) : r \in {1, 2}, negative \in BOOLEAN, n \in {0, 7, 8, 9, 15, 16}}
OtherOperands ==
    {Operand("p", 1), Operand("p", 2), Operand("special", 1), Operand("special", 2),
     NameOf("name", "A"), NameOf("param", "a"), NameOf("param", "A"), Address(1, TRUE, 9)}

\* Every operand in the last place of every shape, after operands that are accepted.
Fitting(step) ==
    CASE step = "dst_pred" -> Operand("p", 1) [] step = "address" -> Address(1, FALSE, 4)
      [] OTHER -> Operand("r", 1)
Shapes == {0, 1, 8, 16, 17, 20, 23, 25, 26, 32, 38, 39, 40, 42, 43, 46, 47}
LastOperands(opcode) ==
    LET steps == Steps(opcode) IN
    {Instr(opcode, [k \in 1..Len(steps) |-> IF k = Len(steps) THEN o ELSE Fitting(steps[k])]) :
        o \in Registers \cup Numerals \cup Addresses \cup OtherOperands}
    \cup {Instr(opcode, [k \in 1..n |-> Operand("r", 1)]) : n \in 0..4}
\* A register's name after bra would be a label.
IsLabelled(stmt) ==
    stmt.opcode = 39 /\ stmt.operands # <<>> => stmt.operands[1].form \notin {"r", "p"}
OperandSources ==
    {<<Entry, Param("A"), Line("A", stmt)>> :
        stmt \in {i \in UNION {LastOperands(opcode) : opcode \in Shapes \cap Opcodes} : IsLabelled(i)}
                 \cup {Instr(opcode, <<>>) : opcode \in Shapes \ Opcodes}
                 \cup {[Guarded(Exit) EXCEPT !.pred = 2]}}

\* The header of a kernel with its entry last.
EntryLast ==
    {<<Param("a"), Plain([kind |-> "shared", bytes |-> 4]), Entry, Plain(LdParam("a")), Plain(Exit)>>}

MCSources == FlowSources \cup DirectiveSources \cup OperandSources
=============================================================================
