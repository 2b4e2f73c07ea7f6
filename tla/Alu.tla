-------------------------------- MODULE Alu --------------------------------
(***************************************************************************)
(* What the ALU makes of a decoded instruction (src/core/alu.cpp) and of   *)
(* the registers of a warp (register_file.hpp).  A word is decoded as in   *)
(* module Encoding and then executed on some of the lanes.                 *)
(*                                                                         *)
(* Registers hold numbers of Bits bits.  As binary32 they are a sign, an   *)
(* exponent and one of Mantissas mantissas; the value of a finite float is *)
(* a whole number of the smallest positive float's.  What the hardware and *)
(* libm leave open is a choice: which NaN, which of two zeros, and whether *)
(* fmin and fmax of a number and a signaling NaN are the number.           *)
(***************************************************************************)
EXTENDS Encoding

CONSTANTS
    Bits,              \* of a register: 32
    Mantissas,         \* 2^23
    Bias,              \* of the exponent: 127
    WarpSize,          \* 32
    Special,           \* what LaneContext::special gives a lane
    Masks,             \* the execution masks considered
    InitGeneral, InitPredicates \* what earlier instructions left in the registers

Lanes == 0..WarpSize - 1
Values == 0..Immediates - 1
GeneralFiles == [Lanes -> [0..GeneralRegisters - 1 -> Values]]
PredicateFiles == [Lanes -> [0..PredRegisters - 1 -> BOOLEAN]]

\* 2 to the power of n.
TwoTo[n \in Nat] == IF n = 0 THEN 1 ELSE 2 * TwoTo[n - 1]

ASSUME AluAssumption ==
    /\ Bits \in Nat \ {0} /\ Immediates = TwoTo[Bits]
    /\ \E n \in 1..Bits - 2 : Mantissas = TwoTo[n]
    /\ Bias \in Nat \ {0} /\ (Bias + 1) * Mantissas < Immediates \div 2 \* 1.0 is finite
    /\ WarpSize \in Nat \ {0}
    /\ Special \in [Lanes -> [0..SpecialRegisters - 1 -> Values]]
    /\ Masks \subseteq SUBSET Lanes
    /\ InitGeneral \subseteq GeneralFiles /\ InitPredicates \subseteq PredicateFiles

VARIABLES
    general, predicates, \* the registers of the warp
    executed,          \* whether the instruction has been executed
    exec,              \* on which lanes
    before             \* the registers before it (history)

registers == <<general, predicates, executed, exec, before>>

-----------------------------------------------------------------------------
(* Integers                                                                *)

Half == Immediates \div 2
Signed(bits) == IF bits < Half THEN bits ELSE bits - Immediates
Wrapped(x) == x % Immediates
Abs(x) == IF x < 0 THEN -x ELSE x

\* Mutant: \div rounds toward minus infinity.
QuotientFloor(x, y) == IF y < 0 THEN (-x) \div (-y) ELSE x \div y
\* The quotient of C++.
Quotient(x, y) ==
    IF (x < 0) = (y < 0) THEN Abs(x) \div Abs(y) ELSE -(Abs(x) \div Abs(y))

S32Div(a, b) ==
    LET x == Signed(a)
        y == Signed(b)
    IN  CASE y = 0 -> 0
          [] x = -Half /\ y = -1 -> a
          [] OTHER -> Wrapped(Quotient(x, y))

S32Rem(a, b) ==
    LET x == Signed(a)
        y == Signed(b)
    IN  IF y = 0 \/ (x = -Half /\ y = -1) THEN 0 ELSE Wrapped(x - Quotient(x, y) * y)

\* Two words combined bit by bit, with a table of what two bits give.
Bit(w, k) == (w \div TwoTo[k]) % 2
And == [p \in {0, 1} |-> [q \in {0, 1} |-> p * q]]
Or == [p \in {0, 1} |-> [q \in {0, 1} |-> p + q - p * q]]
Xor == [p \in {0, 1} |-> [q \in {0, 1} |-> (p + q) % 2]]
Bitwise(table, a, b) ==
    LET Low[k \in Nat] ==
            IF k = 0 THEN 0
            ELSE Low[k - 1] + table[Bit(a, k - 1)][Bit(b, k - 1)] * TwoTo[k - 1]
    IN  Low[Bits]

\* count & shift_mask
ShiftCount(count) == count % Bits

Sra(a, count) ==
    LET n == ShiftCount(count)
        logical == a \div TwoTo[n]
    IN  IF Signed(a) < 0 /\ n > 0
        THEN Bitwise(Or, logical, Wrapped((Immediates - 1) * TwoTo[Bits - n])) ELSE logical

-----------------------------------------------------------------------------
(* binary32                                                                *)

Infinity == Half - Mantissas
IsNaN(f) == f % Half > Infinity
IsInfinite(f) == f % Half = Infinity
NaNs == {f \in Values : IsNaN(f)}
\* The first bit of a NaN's mantissa makes it quiet.
IsSignaling(f) == IsNaN(f) /\ f % Mantissas < Mantissas \div 2
Negative(f) == f >= Half
SignBit(negative) == IF negative THEN Half ELSE 0

\* Infinity counts as the power of two that follows the finite floats.
Units(f) ==
    LET exponent == (f % Half) \div Mantissas
    IN  IF exponent = 0 THEN f % Half ELSE (Mantissas + (f % Mantissas)) * TwoTo[exponent - 1]
Real(f) == IF Negative(f) THEN -Units(f) ELSE Units(f)
One == Mantissas * TwoTo[Bias - 1]

\* num / den rounded to nearest, ties to even, overflow to infinity.
Nearest(num, den) ==
    LET Distance(f) == Abs(Units(f) * den - Abs(num))
        least == CHOOSE f \in 0..Infinity : \A g \in 0..Infinity :
                     \/ Distance(f) < Distance(g)
                     \/ Distance(f) = Distance(g) /\ (f = g \/ f % 2 = 0)
    IN  SignBit(num < 0) + least

\* Mutant: the product is rounded before the sum is.
RoundedTwice(a, b, c) == Nearest(Real(Nearest(Real(a) * Real(b), One)) + Real(c), 1)
\* Of finite numbers, a sum that is not zero.
RoundedOnce(a, b, c) == Nearest(Real(a) * Real(b) + Real(c) * One, One)
\* a * b + c with one rounding.
Fma(a, b, c) ==
    LET negative == Negative(a) # Negative(b)
        infinite == IsInfinite(a) \/ IsInfinite(b)
        invalid ==
            \/ IsNaN(a) \/ IsNaN(b) \/ IsNaN(c)
            \/ infinite /\ (Units(a) = 0 \/ Units(b) = 0)
            \/ infinite /\ IsInfinite(c) /\ Negative(c) # negative
    IN  IF invalid THEN NaNs
        ELSE IF infinite THEN {SignBit(negative) + Infinity}
        ELSE IF IsInfinite(c) THEN {c}
        ELSE IF Real(a) * Real(b) + Real(c) * One = 0 THEN {SignBit(negative /\ Negative(c))}
        ELSE {RoundedOnce(a, b, c)}

FloatOne == Bias * Mantissas
Negated(f) == (f + Half) % Immediates
FAdd(a, b) == Fma(a, FloatOne, b)
FSub(a, b) == Fma(a, FloatOne, Negated(b))
FMul(a, b) == Fma(a, b, SignBit(Negative(a) # Negative(b)))

\* fmin of floats with the values x and y; fmax if the values are negated.
Lesser(a, b, x, y) ==
    LET numbers == {f \in {a, b} : ~IsNaN(f)}
        fromNaN == numbers = {} \/ IsSignaling(a) \/ IsSignaling(b)
    IN  IF numbers # {a, b} THEN numbers \cup {f \in NaNs : fromNaN}
        ELSE IF x = y THEN {a, b} ELSE {IF x < y THEN a ELSE b}

F32ToS32(f) ==
    IF IsNaN(f) THEN 0
    ELSE IF Real(f) >= Half * One THEN Half - 1
    ELSE IF Real(f) <= -(Half * One) THEN Half
    ELSE Wrapped(Quotient(Real(f), One))

-----------------------------------------------------------------------------
(* setp                                                                    *)

\* The six comparisons in the order of their opcodes.
Related(k, x, y) ==
    CASE k = 0 -> x = y [] k = 1 -> x # y [] k = 2 -> x < y
      [] k = 3 -> x <= y [] k = 4 -> x > y [] k = 5 -> x >= y

CompareS32(opcode, a, b) == Related(opcode - 26, Signed(a), Signed(b))

\* Mutant: ne is ordered like the others.
CompareF32Ordered(opcode, a, b) ==
    ~IsNaN(a) /\ ~IsNaN(b) /\ Related(opcode - 32, Real(a), Real(b))
CompareF32(opcode, a, b) ==
    IF IsNaN(a) \/ IsNaN(b) THEN opcode = 33 ELSE Related(opcode - 32, Real(a), Real(b))

-----------------------------------------------------------------------------
(* execute_alu                                                             *)

IsAluOpcode(opcode) == opcode \notin Bra \cup None \cup Ld \cup St \cup Ldp

Fetch(i, file) ==
    IF i.opcode \in Rr
    THEN [a |-> IF i.imm_flag = 1 THEN i.imm ELSE file[i.src0], b |-> 0]
    ELSE [a |-> file[i.src0], b |-> IF i.imm_flag = 1 THEN i.imm ELSE file[i.src1]]

\* What may be written to the destination, which held old.
Evaluate(i, a, b, old, lane) ==
    CASE i.opcode = 1 -> {Wrapped(a + b)}
      [] i.opcode = 2 -> {Wrapped(a - b)}
      [] i.opcode = 3 -> {Wrapped(a * b)}
      [] i.opcode = 4 -> {S32Div(a, b)}
      [] i.opcode = 5 -> {S32Rem(a, b)}
      [] i.opcode = 6 -> {IF Signed(b) < Signed(a) THEN b ELSE a}
      [] i.opcode = 7 -> {IF Signed(a) < Signed(b) THEN b ELSE a}
      [] i.opcode = 8 -> {Wrapped(-a)}
      [] i.opcode = 9 -> {Bitwise(And, a, b)}
      [] i.opcode = 10 -> {Bitwise(Or, a, b)}
      [] i.opcode = 11 -> {Bitwise(Xor, a, b)}
      [] i.opcode = 12 -> {Immediates - 1 - a}
      [] i.opcode = 13 -> {Wrapped(a * TwoTo[ShiftCount(b)])}
      [] i.opcode = 14 -> {a \div TwoTo[ShiftCount(b)]}
      [] i.opcode = 15 -> {Sra(a, b)}
      [] i.opcode = 16 -> {a}
      [] i.opcode = 17 -> FAdd(a, b)
      [] i.opcode = 18 -> FSub(a, b)
      [] i.opcode = 19 -> FMul(a, b)
      [] i.opcode = 20 -> Fma(a, b, old)
      [] i.opcode = 21 -> Lesser(a, b, Real(a), Real(b))
      [] i.opcode = 22 -> Lesser(a, b, -Real(a), -Real(b))
      [] i.opcode = 23 -> {Negated(a)}
      [] i.opcode = 24 -> {Nearest(Signed(a) * One, 1)}
      [] i.opcode = 25 -> {F32ToS32(a)}
      [] i.opcode = 38 -> {Special[lane][i.src0]}

Compare(i, a, b) ==
    IF i.opcode >= 32 THEN CompareF32(i.opcode, a, b) ELSE CompareS32(i.opcode, a, b)

\* Mutant: the lanes outside the mask are written, too.
WritersAll(lanes) == Lanes
Writers(lanes) == lanes

\* Launch decodes the words before it runs them; a lane sees no other lane's registers.
Execute(lanes, file, preds) ==
    LET i == instruction
        Sources(l) == Fetch(i, file[l])
        Results(l) == Evaluate(i, Sources(l).a, Sources(l).b, file[l][i.dst], l)
    IN  /\ ~executed /\ form = "struct" /\ origin.form = "word" /\ IsAluOpcode(i.opcode)
        /\ executed' = TRUE /\ exec' = lanes
        /\ before' = [general |-> file, predicates |-> preds]
        /\ IF i.opcode \in Prr
           THEN /\ general' = file
                /\ predicates' = [l \in Lanes |->
                       IF l \notin Writers(lanes) THEN preds[l]
                       ELSE [preds[l] EXCEPT ![i.dst] = Compare(i, Sources(l).a, Sources(l).b)]]
           ELSE /\ predicates' = preds
                /\ \E result \in [Writers(lanes) -> UNION {Results(l) : l \in Writers(lanes)}] :
                       /\ \A l \in Writers(lanes) : result[l] \in Results(l)
                       /\ general' = [l \in Lanes |->
                              IF l \notin Writers(lanes) THEN file[l]
                              ELSE [file[l] EXCEPT ![i.dst] = result[l]]]
        /\ UNCHANGED vars

\* RegisterFile is zero initialized.
AluInit ==
    /\ Init
    /\ general = [l \in Lanes |-> [r \in 0..GeneralRegisters - 1 |-> 0]]
    /\ predicates = [l \in Lanes |-> [r \in 0..PredRegisters - 1 |-> FALSE]]
    /\ executed = FALSE /\ exec = {} /\ before = [general |-> general, predicates |-> predicates]

Executed == executed /\ UNCHANGED <<vars, registers>>

AluNext ==
    \/ ~executed /\ Next /\ UNCHANGED registers
    \/ \E lanes \in Masks, file \in InitGeneral, preds \in InitPredicates :
           Execute(lanes, file, preds)
    \/ Executed

AluSpec == AluInit /\ [][AluNext]_<<vars, registers>>

-----------------------------------------------------------------------------
(* Properties, of the instruction that the word encodes (wisa-spec.md      *)
(* section 4), for each lane that executed it                              *)

Op == Unpacked(origin.word).opcode
Dst == Unpacked(origin.word).dst
A(l) ==
    LET i == Unpacked(origin.word) IN
    IF i.imm_flag = 1 /\ i.opcode \in Rr THEN i.imm ELSE before.general[l][i.src0]
B(l) ==
    LET i == Unpacked(origin.word) IN
    IF i.imm_flag = 1 THEN i.imm ELSE before.general[l][i.src1]
Old(l) == before.general[l][Dst]
Result(l) == general[l][Dst]
ForEachLane(P(_)) == executed => \A l \in exec : P(l)

Congruent(r, x) == (r - x) % Immediates = 0

\* Exact integer arithmetic, reduced to 32 bits only at its end, gives what the ALU
\* computes: dividing truncates and leaves a remainder of the dividend's sign, also for
\* INT_MIN by -1, a divisor of 0 gives 0, and a shift by any count moves bits or sign.
IntegerResults ==
    LET Correct(l) ==
            LET x == Signed(A(l))
                y == Signed(B(l))
                r == Result(l)
                power == TwoTo[B(l) % Bits]
                Bits2(f(_, _)) == \A k \in 0..Bits - 1 : Bit(r, k) = f(Bit(A(l), k), Bit(B(l), k))
            IN  CASE Op = 1 -> Congruent(r, x + y)
                  [] Op = 2 -> Congruent(r, x - y)
                  [] Op = 3 -> Congruent(r, x * y)
                  [] Op \in {4, 5} /\ y = 0 -> r = 0
                  [] Op \in {4, 5} /\ y # 0 ->
                       \E q \in -Half..Half :
                           LET rest == x - q * y IN
                           /\ Abs(rest) < Abs(y) /\ (rest # 0 => (rest < 0) = (x < 0))
                           /\ Congruent(r, IF Op = 4 THEN q ELSE rest)
                  [] Op = 6 -> Signed(r) \in {x, y} /\ Signed(r) <= x /\ Signed(r) <= y
                  [] Op = 7 -> Signed(r) \in {x, y} /\ Signed(r) >= x /\ Signed(r) >= y
                  [] Op = 8 -> Congruent(r, -x)
                  [] Op = 9 -> Bits2(LAMBDA p, q : p * q)
                  [] Op = 10 -> Bits2(LAMBDA p, q : p + q - p * q)
                  [] Op = 11 -> Bits2(LAMBDA p, q : (p + q) % 2)
                  [] Op = 12 -> Bits2(LAMBDA p, q : 1 - p)
                  [] Op = 13 -> Congruent(r, x * power)
                  [] Op = 14 -> r * power <= A(l) /\ A(l) < (r + 1) * power
                  [] Op = 15 -> Signed(r) * power <= x /\ x < (Signed(r) + 1) * power
                  [] OTHER -> TRUE
    IN  ForEachLane(Correct)

\* The finite float r is a nearest one to num / den, an even one of two.
IsNearest(r, num, den) ==
    LET Distance(f) == Abs(Real(f) * den - num) IN
    \A f \in Values \ NaNs :
        Distance(r) < Distance(f) \/ Real(r) = Real(f) \/ (Distance(r) = Distance(f) /\ r % 2 = 0)

\* The infinite terms of the sum that an instruction is to round.
InfiniteTerms(op, a, b, old) ==
    {f \in Values : IsInfinite(f) /\
        \/ op \in {17, 18} /\ f = a
        \/ op = 17 /\ f = b
        \/ op = 18 /\ IsInfinite(b) /\ Negative(f) # Negative(b)
        \/ /\ op \in {19, 20} /\ (IsInfinite(a) \/ IsInfinite(b))
           /\ Negative(f) = (Negative(a) # Negative(b))
        \/ op = 20 /\ f = old}

\* fadd, fsub, fmul and ffma give the float nearest to the exact result of finite operands,
\* ffma with one rounding, the infinite term of a sum unless two differ, and NaN if they do,
\* for infinity times zero and for any NaN.  fmin and fmax
\* give the least and the greatest of two numbers, the number of a number and a quiet NaN,
\* NaN of two NaNs; of a number and a signaling NaN only that it is the number or NaN.
\* fneg flips the sign, of a NaN too.  cvt.f32.s32 gives the nearest float, cvt.s32.f32 the
\* last integer on the way from 0 to the value, NaN counting as 0.
FloatResults ==
    LET Correct(l) ==
            LET a == A(l)
                b == B(l)
                r == Result(l)
                read == {f \in {a, b} : Op # 20} \cup {f \in {a, b, Old(l)} : Op = 20}
                finite == \A f \in read : ~IsNaN(f) /\ ~IsInfinite(f)
                terms == InfiniteTerms(Op, a, b, Old(l))
                void == /\ Op \in {19, 20} /\ 0 \in {Real(a), Real(b)}
                        /\ IsInfinite(a) \/ IsInfinite(b)
                best == {f \in {a, b} : ~IsNaN(f)}
            IN  /\ Op \in 17..20 =>
                     /\ (\E f \in read : IsNaN(f)) => IsNaN(r)
                     /\ (\A f \in read : ~IsNaN(f)) /\ terms # {} =>
                          IF void \/ (\E f, g \in terms : f # g) THEN IsNaN(r) ELSE r \in terms
                     /\ finite =>
                          CASE Op = 17 -> IsNearest(r, Real(a) + Real(b), 1)
                            [] Op = 18 -> IsNearest(r, Real(a) - Real(b), 1)
                            [] Op = 19 -> IsNearest(r, Real(a) * Real(b), One)
                            [] Op = 20 ->
                                 IsNearest(r, Real(a) * Real(b) + Real(Old(l)) * One, One)
                /\ Op \in {21, 22} =>
                     IF best = {} THEN IsNaN(r)
                     ELSE \/ IsNaN(r) /\ (IsSignaling(a) \/ IsSignaling(b))
                          \/ /\ r \in best
                             /\ \A f \in best :
                                    IF Op = 21 THEN Real(r) <= Real(f) ELSE Real(r) >= Real(f)
                /\ Op = 23 => r % Half = a % Half /\ Negative(r) = ~Negative(a)
                /\ Op = 24 => IsNearest(r, Signed(a) * One, 1)
                /\ Op = 25 =>
                     LET value == IF IsNaN(a) THEN 0 ELSE Real(a)
                         way == {z \in -Half..Half - 1 :
                                    (z >= 0 /\ z * One <= value) \/ (z <= 0 /\ z * One >= value)}
                                \cup {0}
                     IN  Signed(r) \in way /\ \A z \in way : Abs(z) <= Abs(Signed(r))
    IN  ForEachLane(Correct)

\* setp writes whether the operands are in the relation of its opcode, s32 by their sign,
\* f32 with a fourth outcome beside less, equal and greater: of that, only ne holds.
PredicateResults ==
    LET Accepted == <<{0}, {-1, 1, 2}, {-1}, {-1, 0}, {1}, {0, 1}>>
        Order(x, y) == IF x < y THEN -1 ELSE IF x = y THEN 0 ELSE 1
        Correct(l) ==
            LET unordered == Op >= 32 /\ (IsNaN(A(l)) \/ IsNaN(B(l)))
                outcome == IF unordered THEN 2
                           ELSE IF Op < 32 THEN Order(Signed(A(l)), Signed(B(l)))
                           ELSE Order(Real(A(l)), Real(B(l)))
            IN  Op \in Prr =>
                    predicates[l][Dst] = (outcome \in Accepted[((Op - 26) % 6) + 1])
    IN  ForEachLane(Correct)

\* An instruction writes its destination in the lanes that execute it and nothing else,
\* though the destination may also be a source; mov and mov.sreg deliver their source.
OnlyDestination ==
    executed =>
        /\ \A l \in Lanes, n \in 0..GeneralRegisters - 1 :
               l \notin exec \/ Op \in Prr \/ n # Dst => general[l][n] = before.general[l][n]
        /\ \A l \in Lanes, n \in 0..PredRegisters - 1 :
               l \notin exec \/ Op \notin Prr \/ n # Dst =>
                   predicates[l][n] = before.predicates[l][n]
        /\ \A l \in exec :
               /\ Op = 16 => Result(l) = A(l)
               /\ Op = 38 => Result(l) = Special[l][Unpacked(origin.word).src0]
=============================================================================
