--------------------------- MODULE AssemblerProofs ---------------------------
(***************************************************************************)
(* The assembler accepts what it should and names the first fault, its     *)
(* branches are what the source says, and the listing of a program that it *)
(* has assembled assembles to the same program: for every source, however  *)
(* long, and for every width of the fields of an instruction.              *)
(*                                                                         *)
(* The argument: what has been read of the source determines the program,  *)
(* the labels and the pending branches (Core below); an operand that is    *)
(* printed is read as it was; and a listing has one line for each field,   *)
(* each instruction and each label, in order.  ControlProofs is for what   *)
(* it says of post-dominators; its lanes are no concern of this module.    *)
(***************************************************************************)
EXTENDS Assembler, ControlProofs

-----------------------------------------------------------------------------
(* Words                                                                   *)

\* Quotient and remainder by a number are unique.
LEMMA DivUnique ==
    ASSUME NEW b \in Nat \ {0}, NEW q \in Nat, NEW r \in 0..b - 1
    PROVE  (q * b + r) \div b = q /\ (q * b + r) % b = r
OBVIOUS

\* The number w at place P: hi is above the place, lo is below it.
Digits(w, hi, P, lo) == hi \in Nat /\ P \in Nat \ {0} /\ lo \in 0..P - 1 /\ w = hi * P + lo

\* The lowest digit of what is above a place, f of S, moves below the next place.
Moves(w, g, P, lo, S, hi, f, Q, upto) ==
    /\ Digits(w, g, P, lo) /\ S \in Nat \ {0} /\ hi \in Nat /\ f \in 0..S - 1
    /\ g = hi * S + f /\ Q = P * S /\ upto = f * P + lo

\* It is then what a shift and a mask give.
LEMMA DigitMoves ==
    ASSUME NEW w, NEW g, NEW P, NEW lo, NEW S, NEW hi, NEW f, NEW Q, NEW upto,
           Moves(w, g, P, lo, S, hi, f, Q, upto)
    PROVE  (w \div P) % S = f /\ Digits(w, hi, Q, upto)
<1>1. /\ P \in Nat \ {0} /\ S \in Nat \ {0} /\ hi \in Nat /\ f \in 0..S - 1 /\ lo \in 0..P - 1
      /\ g \in Nat /\ g = hi * S + f /\ w = g * P + lo /\ Q = P * S /\ upto = f * P + lo
  BY DEF Moves, Digits
<1>2. w \div P = g /\ g % S = f
  BY <1>1, DivUnique
<1>3. g * P = hi * Q + f * P /\ hi * Q \in Nat /\ f * P \in Nat
  <2>1. \A a, b, c, d \in Nat : (a * b + c) * d = a * (d * b) + c * d /\ a * b \in Nat
    OBVIOUS
  <2> QED
    BY <1>1, <2>1
<1>4. f * P + P <= Q /\ Q \in Nat \ {0}
  <2>1. \A a, b, c \in Nat : a < b => a * c + c <= c * b
    OBVIOUS
  <2>2. \A a, b \in Nat \ {0} : a * b \in Nat \ {0}
    OBVIOUS
  <2> QED
    BY <1>1, <2>1, <2>2
<1> QED
  BY <1>1, <1>2, <1>3, <1>4 DEF Digits

\* Every field has room for some value, and its place is above the field below it.
LEMMA Layout ==
    /\ \A f \in Fields : Place[f] \in Nat \ {0} /\ Size[f] \in Nat \ {0}
    /\ Place.imm = 1
    /\ Place.imm_flag = Place.imm * Size.imm
    /\ Place.src1 = Place.imm_flag * Size.imm_flag
    /\ Place.src0 = Place.src1 * Size.src1
    /\ Place.dst = Place.src0 * Size.src0
    /\ Place.pred = Place.dst * Size.dst
    /\ Place.negate = Place.pred * Size.pred
    /\ Place.present = Place.negate * Size.negate
    /\ Place.opcode = Place.present * Size.present
<1>1. \A f \in Fields : Size[f] \in Nat \ {0}
  BY WordAssumption DEF Size, Fields
<1>2. /\ Place.imm = 1
      /\ Place.imm_flag = Place.imm * Size.imm
      /\ Place.src1 = Place.imm_flag * Size.imm_flag
      /\ Place.src0 = Place.src1 * Size.src1
      /\ Place.dst = Place.src0 * Size.src0
      /\ Place.pred = Place.dst * Size.dst
      /\ Place.negate = Place.pred * Size.pred
      /\ Place.present = Place.negate * Size.negate
      /\ Place.opcode = Place.present * Size.present
  BY WordAssumption DEF Place, Size
<1> DEFINE Positive == Nat \ {0}
<1>3. \A a, b \in Positive : a * b \in Positive
  OBVIOUS
<1>4. /\ Size.imm \in Positive /\ Size.imm_flag \in Positive /\ Size.src1 \in Positive
      /\ Size.src0 \in Positive /\ Size.dst \in Positive /\ Size.pred \in Positive
      /\ Size.negate \in Positive /\ Size.present \in Positive /\ Place.imm \in Positive
  BY <1>1, <1>2 DEF Fields
<1> HIDE DEF Positive
<1>5. Place.imm_flag \in Positive
  BY <1>2, <1>3, <1>4
<1>6. Place.src1 \in Positive
  BY <1>2, <1>3, <1>4, <1>5
<1>7. Place.src0 \in Positive
  BY <1>2, <1>3, <1>4, <1>6
<1>8. Place.dst \in Positive
  BY <1>2, <1>3, <1>4, <1>7
<1>9. Place.pred \in Positive
  BY <1>2, <1>3, <1>4, <1>8
<1>10. Place.negate \in Positive
  BY <1>2, <1>3, <1>4, <1>9
<1>11. Place.present \in Positive
  BY <1>2, <1>3, <1>4, <1>10
<1>12. Place.opcode \in Positive
  BY <1>2, <1>3, <1>4, <1>11
<1>13. \A f \in Fields : Place[f] \in Positive
  BY <1>4, <1>5, <1>6, <1>7, <1>8, <1>9, <1>10, <1>11, <1>12 DEF Fields
<1> QED
  BY <1>1, <1>2, <1>13 DEF Positive

\* A struct that encode writes.
Valid(i) == i \in InstructionType /\ Validate(i) = "none"

LEMMA ValidFits ==
    ASSUME NEW i, Valid(i), NEW f \in Fields
    PROVE  i[f] \in 0..Size[f] - 1
<1>1. /\ i \in [Fields -> Nat] /\ i.present \in Flag /\ i.negate \in Flag /\ i.imm_flag \in Flag
      /\ i.imm \in 0..Immediates - 1 /\ i.opcode \in Opcodes /\ ~(i.pred >= PredRegisters)
      /\ ~OutOfFields(i)
  BY DEF Valid, Validate, InstructionType
<1>2. /\ i.opcode \in 0..Size.opcode - 1 /\ i.present \in 0..Size.present - 1
      /\ i.negate \in 0..Size.negate - 1 /\ i.imm_flag \in 0..Size.imm_flag - 1
      /\ i.imm \in 0..Size.imm - 1 /\ i.pred \in 0..Size.pred - 1
  BY <1>1, WordAssumption DEF Size, Flag, Opcodes, Fields
<1>3. i.dst \in 0..Size.dst - 1 /\ i.src0 \in 0..Size.src0 - 1 /\ i.src1 \in 0..Size.src1 - 1
  BY <1>1, WordAssumption DEF Size, OutOfFields, Fields
<1> QED
  BY <1>2, <1>3 DEF Fields

\* decode reads back what encode wrote.
LEMMA WordBack ==
    ASSUME NEW i, Valid(i)
    PROVE  Unpacked(Packed(i)) = i /\ Packed(i) \in Nat
<1> DEFINE a8 == i.opcode * Size.present + i.present
           a7 == a8 * Size.negate + i.negate
           a6 == a7 * Size.pred + i.pred
           a5 == a6 * Size.dst + i.dst
           a4 == a5 * Size.src0 + i.src0
           a3 == a4 * Size.src1 + i.src1
           a2 == a3 * Size.imm_flag + i.imm_flag
           a1 == a2 * Size.imm + i.imm
           u1 == i.imm * Place.imm + 0
           u2 == i.imm_flag * Place.imm_flag + u1
           u3 == i.src1 * Place.src1 + u2
           u4 == i.src0 * Place.src0 + u3
           u5 == i.dst * Place.dst + u4
           u6 == i.pred * Place.pred + u5
           u7 == i.negate * Place.negate + u6
           u8 == i.present * Place.present + u7
           u9 == i.opcode * Place.opcode + u8
           w == a1 * Place.imm + 0
<1>1. /\ \A f \in Fields : Place[f] \in Nat \ {0} /\ Size[f] \in Nat \ {0}
      /\ \A f \in Fields : i[f] \in 0..Size[f] - 1
  BY Layout, ValidFits
<1>2. \A a, b, c \in Nat : a * b + c \in Nat
  OBVIOUS
<1>3. a8 \in Nat
  BY <1>1, <1>2 DEF Fields
<1>4. a7 \in Nat
  BY <1>1, <1>2, <1>3 DEF Fields
<1>5. a6 \in Nat
  BY <1>1, <1>2, <1>4 DEF Fields
<1>6. a5 \in Nat
  BY <1>1, <1>2, <1>5 DEF Fields
<1>7. a4 \in Nat
  BY <1>1, <1>2, <1>6 DEF Fields
<1>8. a3 \in Nat
  BY <1>1, <1>2, <1>7 DEF Fields
<1>9. a2 \in Nat
  BY <1>1, <1>2, <1>8 DEF Fields
<1>10. Digits(w, a1, Place.imm, 0)
  <2>1. a1 \in Nat
    BY <1>1, <1>2, <1>9 DEF Fields
  <2> HIDE DEF a1
  <2> QED
    BY <2>1, Layout DEF Digits
<1>11. Moves(w, a1, Place.imm, 0, Size.imm, a2, i.imm, Place.imm_flag, u1)
  BY <1>1, <1>9, <1>10, Layout DEF Moves, Fields
<1> HIDE DEF w, a1, u1
<1>12. (w \div Place.imm) % Size.imm = i.imm /\ Digits(w, a2, Place.imm_flag, u1)
  BY <1>11, DigitMoves
<1>13. Moves(w, a2, Place.imm_flag, u1, Size.imm_flag, a3, i.imm_flag, Place.src1, u2)
  BY <1>1, <1>8, <1>12, Layout DEF Moves, Fields
<1> HIDE DEF a2, u2
<1>14. (w \div Place.imm_flag) % Size.imm_flag = i.imm_flag /\ Digits(w, a3, Place.src1, u2)
  BY <1>13, DigitMoves
<1>15. Moves(w, a3, Place.src1, u2, Size.src1, a4, i.src1, Place.src0, u3)
  BY <1>1, <1>7, <1>14, Layout DEF Moves, Fields
<1> HIDE DEF a3, u3
<1>16. (w \div Place.src1) % Size.src1 = i.src1 /\ Digits(w, a4, Place.src0, u3)
  BY <1>15, DigitMoves
<1>17. Moves(w, a4, Place.src0, u3, Size.src0, a5, i.src0, Place.dst, u4)
  BY <1>1, <1>6, <1>16, Layout DEF Moves, Fields
<1> HIDE DEF a4, u4
<1>18. (w \div Place.src0) % Size.src0 = i.src0 /\ Digits(w, a5, Place.dst, u4)
  BY <1>17, DigitMoves
<1>19. Moves(w, a5, Place.dst, u4, Size.dst, a6, i.dst, Place.pred, u5)
  BY <1>1, <1>5, <1>18, Layout DEF Moves, Fields
<1> HIDE DEF a5, u5
<1>20. (w \div Place.dst) % Size.dst = i.dst /\ Digits(w, a6, Place.pred, u5)
  BY <1>19, DigitMoves
<1>21. Moves(w, a6, Place.pred, u5, Size.pred, a7, i.pred, Place.negate, u6)
  BY <1>1, <1>4, <1>20, Layout DEF Moves, Fields
<1> HIDE DEF a6, u6
<1>22. (w \div Place.pred) % Size.pred = i.pred /\ Digits(w, a7, Place.negate, u6)
  BY <1>21, DigitMoves
<1>23. Moves(w, a7, Place.negate, u6, Size.negate, a8, i.negate, Place.present, u7)
  BY <1>1, <1>3, <1>22, Layout DEF Moves, Fields
<1> HIDE DEF a7, u7
<1>24. (w \div Place.negate) % Size.negate = i.negate /\ Digits(w, a8, Place.present, u7)
  BY <1>23, DigitMoves
<1>25. Moves(w, a8, Place.present, u7, Size.present, i.opcode, i.present, Place.opcode, u8)
  BY <1>1, <1>24, Layout DEF Moves, Fields
<1> HIDE DEF a8, u8
<1>26. (w \div Place.present) % Size.present = i.present /\ Digits(w, i.opcode, Place.opcode, u8)
  BY <1>25, DigitMoves
<1>27. (w \div Place.opcode) % Size.opcode = i.opcode
  <2>1. w \div Place.opcode = i.opcode
    BY <1>26, DivUnique DEF Digits
  <2>2. i.opcode \in 0..Size.opcode - 1 /\ Size.opcode \in Nat \ {0}
    BY <1>1 DEF Fields
  <2> QED
    BY <2>1, <2>2
<1>28. w = Packed(i) /\ w \in Nat
  <2>1. w = u9 /\ w \in Nat
    BY <1>1, <1>2, <1>26 DEF Digits, Fields
  <2>2. /\ i.imm * Place.imm = i.imm
        /\ i.opcode * Place.opcode \in Nat /\ i.present * Place.present \in Nat
        /\ i.negate * Place.negate \in Nat /\ i.pred * Place.pred \in Nat
        /\ i.dst * Place.dst \in Nat /\ i.src0 * Place.src0 \in Nat /\ i.src1 * Place.src1 \in Nat
        /\ i.imm_flag * Place.imm_flag \in Nat /\ i.imm \in Nat
    BY <1>1, <1>2, Layout DEF Fields
  <2>3. u9 = Packed(i)
    BY <2>2 DEF Packed, u1, u2, u3, u4, u5, u6, u7, u8
  <2> QED
    BY <2>1, <2>3
<1>29. \A f \in Fields : (w \div Place[f]) % Size[f] = i[f]
  BY <1>12, <1>14, <1>16, <1>18, <1>20, <1>22, <1>24, <1>26, <1>27 DEF Fields
<1>30. i \in [Fields -> Nat]
  BY DEF Valid, InstructionType
<1> QED
  BY <1>28, <1>29, <1>30 DEF Unpacked

-----------------------------------------------------------------------------
(* Numbers, recursion and sequences                                        *)

LEMMA MinIs ==
    ASSUME NEW S \in SUBSET Nat, NEW x \in S, \A y \in S : x <= y
    PROVE  Min(S) = x
<1>1. Min(S) \in S /\ \A y \in S : Min(S) <= y
  BY DEF Min
<1> HIDE DEF Min
<1>2. Min(S) \in Nat /\ x \in Nat /\ Min(S) <= x /\ x <= Min(S)
  BY <1>1
<1> QED
  BY <1>2

\* A recursion on 0..n has values: x first, then one step after another.
Recursion(X, n, x, step) == n \in Nat /\ x \in X /\ step \in [1..n -> [X -> X]]
Values(X, n, x, step, R) ==
    R \in [0..n -> X] /\ R[0] = x /\ \A k \in 1..n : R[k] = step[k][R[k - 1]]

LEMMA RecursionExists ==
    ASSUME NEW X, NEW n, NEW x, NEW step, Recursion(X, n, x, step)
    PROVE  \E R : Values(X, n, x, step, R)
<1>0. n \in Nat /\ x \in X /\ step \in [1..n -> [X -> X]]
  BY DEF Recursion
<1> DEFINE Upto(m, R) == /\ R \in [0..m -> X] /\ R[0] = x
                         /\ \A k \in 1..m : R[k] = step[k][R[k - 1]]
           Good == {m \in 0..n : \E R : Upto(m, R)}
<1>1. 0 \in Good
  <2> DEFINE R == [k \in 0..0 |-> x]
  <2>1. Upto(0, R)
    BY <1>0
  <2> HIDE DEF Upto
  <2> QED
    BY <1>0, <2>1
<1>2. ASSUME NEW m \in 0..n - 1, m \in Good PROVE m + 1 \in Good
  <2>1. PICK R : Upto(m, R)
    BY <1>2
  <2> DEFINE T == [k \in 0..m + 1 |-> IF k = m + 1 THEN step[m + 1][R[m]] ELSE R[k]]
  <2>2. m + 1 \in 1..n /\ m \in 0..m /\ R[m] \in X /\ step[m + 1][R[m]] \in X
    BY <1>0, <2>1
  <2>3. \A k \in 0..m : k \in 0..m + 1 /\ k # m + 1 /\ T[k] = R[k]
    BY <1>0
  <2>4. T[m + 1] = step[m + 1][R[m]] /\ m + 1 \in 0..m + 1
    BY <1>0
  <2>5. T \in [0..m + 1 -> X]
    BY <2>1, <2>2
  <2> HIDE DEF T
  <2>6. ASSUME NEW k \in 1..m + 1 PROVE T[k] = step[k][T[k - 1]]
    <3>1. CASE k = m + 1
      BY <2>3, <2>4, <3>1
    <3>2. CASE k # m + 1
      <4>1. k \in 1..m /\ k \in 0..m /\ k - 1 \in 0..m
        BY <3>2
      <4> QED
        BY <2>1, <2>3, <4>1
    <3> QED
      BY <3>1, <3>2
  <2>7. Upto(m + 1, T)
    BY <2>1, <2>3, <2>5, <2>6
  <2> HIDE DEF Upto
  <2> QED
    BY <1>0, <2>7
<1> HIDE DEF Good
<1>3. 0..n \subseteq Good
  BY <1>0, <1>1, <1>2, UpTo
<1>4. n \in Good
  BY <1>0, <1>3
<1> QED
  BY <1>4 DEF Good, Values

\* Reading a sequence with one more element.
LEMMA Appended ==
    ASSUME NEW S, NEW s \in Seq(S), NEW e \in S
    PROVE  /\ Append(s, e) \in Seq(S) /\ Len(s) \in Nat /\ Len(Append(s, e)) = Len(s) + 1
           /\ DOMAIN s = 1..Len(s) /\ DOMAIN Append(s, e) = 1..Len(s) + 1
           /\ \A k \in 1..Len(s) : Append(s, e)[k] = s[k]
           /\ Append(s, e)[Len(s) + 1] = e
BY AppendProperties, LenProperties

-----------------------------------------------------------------------------
(* A source                                                                *)

Typed == source \in Seq(LineType)

\* A line and what it can be.
LEMMA LineIs ==
    ASSUME Typed
    PROVE  /\ Len(source) \in Nat /\ Lines = 1..Len(source)
           /\ \A k \in Lines : /\ source[k] \in LineType
                               /\ source[k].label \in Names \cup {NoName}
                               /\ Kind(k) \in {"none", "unknown", "entry", "param", "shared",
                                               "instruction"}
<1>1. Len(source) \in Nat /\ Lines = 1..Len(source) /\ \A k \in Lines : source[k] \in LineType
  BY LenProperties, ElementOfSeq DEF Typed, Lines
<1>2. ASSUME NEW l \in LineType
      PROVE  /\ l.label \in Names \cup {NoName}
             /\ l.stmt.kind \in {"none", "unknown", "entry", "param", "shared", "instruction"}
  BY DEF LineType, InstructionLine
<1> QED
  BY <1>1, <1>2 DEF Kind

\* What a statement has, by its kind.
LEMMA StatementIs ==
    ASSUME Typed, NEW k \in Lines
    PROVE  /\ Kind(k) \in {"entry", "param"} => source[k].stmt.name \in Names
           /\ Kind(k) = "shared" => source[k].stmt.bytes \in Nat
           /\ Kind(k) = "instruction" => source[k].stmt \in InstructionLine
<1>1. ASSUME NEW l \in LineType
      PROVE  /\ l.stmt.kind \in {"entry", "param"} => l.stmt.name \in Names
             /\ l.stmt.kind = "shared" => l.stmt.bytes \in Nat
             /\ l.stmt.kind = "instruction" => l.stmt \in InstructionLine
  BY DEF LineType, InstructionLine
<1> QED
  BY <1>1, LineIs DEF Kind

\* The parameters before a line: none, and one more after each .param.
LEMMA ParamsBeforeIs ==
    ASSUME Typed
    PROVE  /\ \A k \in 1..Len(source) + 1 : ParamsBefore(k) \in Seq(Names)
           /\ ParamsBefore(1) = <<>>
           /\ \A k \in Lines :
                  ParamsBefore(k + 1) = IF Kind(k) = "param"
                                        THEN Append(ParamsBefore(k), source[k].stmt.name)
                                        ELSE ParamsBefore(k)
<1> DEFINE n == Len(source)
           step == [k \in 1..n |-> [x \in Seq(Names) |->
                       IF Kind(k) = "param" THEN Append(x, source[k].stmt.name) ELSE x]]
           Is(R) == R = [k \in 0..n |->
                       IF k = 0 THEN <<>>
                       ELSE IF Kind(k) = "param" THEN Append(R[k - 1], source[k].stmt.name)
                       ELSE R[k - 1]]
<1>1. n \in Nat /\ Lines = 1..n
  BY LineIs
<1>2. <<>> \in Seq(Names)
  BY EmptySeq
<1>3. step \in [1..n -> [Seq(Names) -> Seq(Names)]]
  <2>1. ASSUME NEW k \in 1..n, NEW x \in Seq(Names), Kind(k) = "param"
        PROVE  Append(x, source[k].stmt.name) \in Seq(Names)
    BY <1>1, <2>1, StatementIs, AppendProperties
  <2> QED
    BY <2>1
<1>4. PICK R \in [0..n -> Seq(Names)] : R[0] = <<>> /\ \A k \in 1..n : R[k] = step[k][R[k - 1]]
  <2>1. Recursion(Seq(Names), n, <<>>, step)
    BY <1>1, <1>2, <1>3 DEF Recursion
  <2> HIDE DEF n, step
  <2>2. \E R : Values(Seq(Names), n, <<>>, step, R)
    BY <2>1, RecursionExists
  <2> QED
    BY <2>2 DEF Values
<1>5. Is(R)
  <2>1. ASSUME NEW k \in 0..n, k # 0
        PROVE  R[k] = IF Kind(k) = "param" THEN Append(R[k - 1], source[k].stmt.name) ELSE R[k - 1]
    <3>1. k \in 1..n /\ k - 1 \in 0..n /\ R[k - 1] \in Seq(Names)
      BY <1>1, <2>1
    <3> QED
      BY <1>4, <3>1
  <2> HIDE DEF n
  <2> QED
    BY <1>4, <2>1
<1> DEFINE P == CHOOSE Q : Is(Q)
<1>6. Is(P)
  <2> HIDE DEF Is
  <2> QED
    BY <1>5
<1>7. \A k : ParamsBefore(k) = P[k - 1]
  BY DEF ParamsBefore
<1> HIDE DEF P, step
<1>8. P[0] = <<>> /\ \A k \in 1..n : P[k] = IF Kind(k) = "param"
                                             THEN Append(P[k - 1], source[k].stmt.name)
                                             ELSE P[k - 1]
  <2>1. 0 \in 0..n /\ \A k \in 1..n : k \in 0..n /\ k # 0
    BY <1>1
  <2>2. \A k \in 0..n : P[k] = IF k = 0 THEN <<>>
                               ELSE IF Kind(k) = "param" THEN Append(P[k - 1], source[k].stmt.name)
                               ELSE P[k - 1]
    BY <1>6
  <2> HIDE DEF Is
  <2> QED
    BY <2>1, <2>2
<1> HIDE DEF Is
<1>9. \A k \in 0..n : P[k] \in Seq(Names)
  <2> DEFINE Good == {k \in 0..n : P[k] \in Seq(Names)}
  <2>1. 0 \in Good
    <3>1. 0 \in 0..n /\ P[0] \in Seq(Names)
      BY <1>1, <1>2, <1>8
    <3> QED
      BY <3>1
  <2>2. ASSUME NEW k \in 0..n - 1, k \in Good PROVE k + 1 \in Good
    <3>1. k + 1 \in 1..n /\ k + 1 \in 0..n /\ (k + 1) - 1 = k
      BY <1>1
    <3>2. Kind(k + 1) = "param" => Append(P[k], source[k + 1].stmt.name) \in Seq(Names)
      BY <1>1, <2>2, <3>1, StatementIs, AppendProperties
    <3> QED
      BY <1>8, <2>2, <3>1, <3>2
  <2> HIDE DEF Good, n
  <2>3. 0..n \subseteq Good
    BY <1>1, <2>1, <2>2, UpTo
  <2> QED
    BY <2>3 DEF Good
<1>10. \A k \in 1..n + 1 : k - 1 \in 0..n
  BY <1>1
<1>11. \A k \in 1..n : k \in 1..n + 1 /\ k + 1 \in 1..n + 1 /\ (k + 1) - 1 = k
  BY <1>1
<1>12. 1 - 1 = 0
  OBVIOUS
<1> QED
  BY <1>1, <1>7, <1>8, <1>9, <1>10, <1>11, <1>12

\* A prefix of a source has no more parameters than the source.
LEMMA ParamsGrow ==
    ASSUME Typed, NEW k \in 1..Len(source) + 1, NEW j \in 1..k
    PROVE  Len(ParamsBefore(j)) <= Len(ParamsBefore(k))
<1> DEFINE n == Len(source)
           Good == {q \in 0..n : j <= q + 1 => Len(ParamsBefore(j)) <= Len(ParamsBefore(q + 1))}
<1>1. n \in Nat /\ Lines = 1..n
  BY LineIs
<1>2. \A q \in 1..n + 1 : ParamsBefore(q) \in Seq(Names) /\ Len(ParamsBefore(q)) \in Nat
  BY ParamsBeforeIs, LenProperties
<1>3. 0 \in Good
  <2>1. 0 + 1 = 1 /\ 1 \in 1..n + 1 /\ (j <= 1 => j = 1)
    BY <1>1
  <2> QED
    BY <1>1, <1>2, <2>1
<1>4. ASSUME NEW q \in 0..n - 1, q \in Good PROVE q + 1 \in Good
  <2>1. q + 1 \in 1..n /\ q + 1 \in 1..n + 1 /\ (q + 1) + 1 \in 1..n + 1 /\ j \in 1..n + 1
    BY <1>1
  <2>2. Len(ParamsBefore(q + 1)) <= Len(ParamsBefore((q + 1) + 1))
    <3>1. Kind(q + 1) = "param" => source[q + 1].stmt.name \in Names
      BY <1>1, <2>1, StatementIs
    <3>2. ParamsBefore((q + 1) + 1) \in {ParamsBefore(q + 1),
                                         Append(ParamsBefore(q + 1), source[q + 1].stmt.name)}
          /\ (Kind(q + 1) # "param" => ParamsBefore((q + 1) + 1) = ParamsBefore(q + 1))
      BY <1>1, <2>1, ParamsBeforeIs
    <3> QED
      BY <1>2, <2>1, <3>1, <3>2, Appended
  <2>3. j <= (q + 1) + 1 => j <= q + 1 \/ j = (q + 1) + 1
    BY <1>1
  <2>4. j <= (q + 1) + 1 => Len(ParamsBefore(j)) <= Len(ParamsBefore((q + 1) + 1))
    <3>1. Len(ParamsBefore(j)) \in Nat /\ Len(ParamsBefore(q + 1)) \in Nat
          /\ Len(ParamsBefore((q + 1) + 1)) \in Nat
      BY <1>2, <2>1
    <3>2. j <= q + 1 => Len(ParamsBefore(j)) <= Len(ParamsBefore(q + 1))
      BY <1>4
    <3> QED
      BY <2>2, <2>3, <3>1, <3>2
  <2> QED
    BY <2>1, <2>4
<1> HIDE DEF Good
<1>5. 0..n \subseteq Good
  BY <1>1, <1>3, <1>4, UpTo
<1>6. k - 1 \in 0..n /\ (k - 1) + 1 = k /\ j <= k
  BY <1>1
<1> QED
  BY <1>5, <1>6 DEF Good

\* The PC of a line counts the instructions before it.
LEMMA PCOfIs ==
    ASSUME Typed
    PROVE  /\ PCOf(1) = 0 /\ PCOf(Len(source) + 1) = Cardinality(InstructionLines)
           /\ \A k \in 1..Len(source) + 1 : PCOf(k) \in Nat
           /\ \A k \in Lines : PCOf(k + 1) = PCOf(k) + (IF k \in InstructionLines THEN 1 ELSE 0)
<1> DEFINE n == Len(source)
           B(k) == {j \in InstructionLines : j < k}
<1>1. n \in Nat /\ Lines = 1..n /\ InstructionLines \subseteq 1..n
  BY LineIs DEF InstructionLines
<1>2. IsFiniteSet(1..n)
  BY <1>1, FS_Interval
<1>3. \A k : IsFiniteSet(B(k)) /\ Cardinality(B(k)) \in Nat
  <2>1. \A k : B(k) \subseteq 1..n
    BY <1>1
  <2> HIDE DEF B
  <2> QED
    BY <1>2, <2>1, FS_Subset, FS_CardinalityType
<1>4. \A k : PCOf(k) = Cardinality(B(k))
  BY DEF PCOf
<1>5. PCOf(1) = 0
  <2>1. B(1) = {}
    <3>1. \A j \in InstructionLines : ~(j < 1)
      BY <1>1
    <3> QED
      BY <3>1
  <2> HIDE DEF B
  <2> QED
    BY <1>4, <2>1, FS_EmptySet
<1>6. PCOf(n + 1) = Cardinality(InstructionLines)
  <2>1. B(n + 1) = InstructionLines
    <3>1. \A j \in InstructionLines : j < n + 1
      BY <1>1
    <3> QED
      BY <3>1
  <2> HIDE DEF B
  <2> QED
    BY <1>4, <2>1
<1>7. ASSUME NEW k \in Lines
      PROVE  PCOf(k + 1) = PCOf(k) + (IF k \in InstructionLines THEN 1 ELSE 0)
  <2>1. /\ k \notin B(k) /\ (k \in InstructionLines => B(k + 1) = B(k) \cup {k})
        /\ (k \notin InstructionLines => B(k + 1) = B(k))
    <3>1. \A j \in InstructionLines : (j < k + 1 <=> (j < k \/ j = k)) /\ (j < k => j # k)
      BY <1>1
    <3>2. k \notin B(k) /\ k < k + 1
      BY <1>1
    <3> QED
      BY <3>1, <3>2
  <2> HIDE DEF B
  <2>2. k \in InstructionLines => Cardinality(B(k) \cup {k}) = Cardinality(B(k)) + 1
    BY <1>3, <2>1, FS_AddElement
  <2> QED
    BY <1>3, <1>4, <2>1, <2>2
<1> HIDE DEF B
<1> QED
  BY <1>3, <1>4, <1>5, <1>6, <1>7

LEMMA PCOrder ==
    ASSUME Typed, NEW k \in 1..Len(source) + 1, NEW j \in 1..k
    PROVE  /\ PCOf(j) <= PCOf(k)
           /\ j \in InstructionLines /\ j # k => PCOf(j) + 1 <= PCOf(k)
<1> DEFINE n == Len(source)
           Good == {q \in 0..n : j <= q + 1 =>
                       /\ PCOf(j) <= PCOf(q + 1)
                       /\ j \in InstructionLines /\ j # q + 1 => PCOf(j) + 1 <= PCOf(q + 1)}
<1>1. n \in Nat /\ Lines = 1..n
  BY LineIs
<1>2. \A q \in 1..n + 1 : PCOf(q) \in Nat
  BY PCOfIs
<1>3. 0 \in Good
  <2>1. 0 + 1 = 1 /\ 1 \in 1..n + 1 /\ (j <= 1 => j = 1) /\ 0 \in 0..n
    BY <1>1
  <2>2. j <= 0 + 1 => PCOf(j) <= PCOf(0 + 1) /\ j = 0 + 1
    BY <1>2, <2>1
  <2> QED
    BY <2>1, <2>2
<1>4. ASSUME NEW q \in 0..n - 1, q \in Good PROVE q + 1 \in Good
  <2>1. q + 1 \in 1..n /\ q + 1 \in 0..n /\ q + 1 \in 1..n + 1 /\ (q + 1) + 1 \in 1..n + 1
        /\ j \in 1..n + 1
    BY <1>1
  <2>2. PCOf((q + 1) + 1) = PCOf(q + 1) + (IF q + 1 \in InstructionLines THEN 1 ELSE 0)
    BY <1>1, <2>1, PCOfIs
  <2>3. PCOf(j) \in Nat /\ PCOf(q + 1) \in Nat /\ PCOf((q + 1) + 1) \in Nat
    BY <1>2, <2>1
  <2>4. j <= (q + 1) + 1 => j <= q + 1 \/ j = (q + 1) + 1
    BY <1>1
  <2>5. CASE j <= q + 1
    <3>1. /\ PCOf(j) <= PCOf(q + 1)
          /\ j \in InstructionLines /\ j # q + 1 => PCOf(j) + 1 <= PCOf(q + 1)
      BY <1>4, <2>5
    <3> QED
      BY <2>1, <2>2, <2>3, <3>1
  <2>6. CASE j = (q + 1) + 1
    BY <2>1, <2>3, <2>6
  <2>7. CASE ~(j <= (q + 1) + 1)
    BY <2>1, <2>7
  <2> QED
    BY <2>4, <2>5, <2>6, <2>7
<1> HIDE DEF Good
<1>5. 0..n \subseteq Good
  BY <1>1, <1>3, <1>4, UpTo
<1>6. k - 1 \in 0..n /\ (k - 1) + 1 = k /\ j <= k
  BY <1>1
<1> QED
  BY <1>5, <1>6 DEF Good

\* Instructions have different PCs, and every PC has one.
LEMMA OnePC ==
    ASSUME Typed
    PROVE  /\ \A k \in InstructionLines : PCOf(k) \in 0..Cardinality(InstructionLines) - 1
           /\ \A j, k \in InstructionLines : PCOf(j) = PCOf(k) => j = k
           /\ \A pc \in 0..Cardinality(InstructionLines) - 1 :
                  \E k \in InstructionLines : PCOf(k) = pc
           /\ Cardinality(InstructionLines) \in Nat
<1> DEFINE n == Len(source)
           m == Cardinality(InstructionLines)
           Good == {q \in 0..n : \A pc \in 0..PCOf(q + 1) - 1 :
                                     \E k \in InstructionLines : PCOf(k) = pc}
<1>1. n \in Nat /\ InstructionLines \subseteq 1..n /\ Lines = 1..n
  BY LineIs DEF InstructionLines
<1>2. (\A q \in 1..n + 1 : PCOf(q) \in Nat) /\ PCOf(n + 1) = m /\ PCOf(1) = 0
  BY PCOfIs
<1>3. m \in Nat
  BY <1>1, <1>2
<1> HIDE DEF m
<1>4. \A k \in InstructionLines : PCOf(k) \in 0..m - 1
  <2> SUFFICES ASSUME NEW k \in InstructionLines PROVE PCOf(k) \in 0..m - 1
    OBVIOUS
  <2>1. n + 1 \in 1..n + 1 /\ k \in 1..n + 1 /\ k # n + 1
    BY <1>1
  <2>2. PCOf(k) + 1 <= PCOf(n + 1)
    BY <2>1, PCOrder
  <2> QED
    BY <1>2, <1>3, <2>1, <2>2
<1>5. ASSUME NEW j \in InstructionLines, NEW k \in InstructionLines, PCOf(j) = PCOf(k)
      PROVE  j = k
  <2>1. j \in 1..n /\ k \in 1..n /\ PCOf(j) \in Nat /\ PCOf(k) \in Nat
    BY <1>1, <1>2
  <2>2. CASE j < k
    <3>1. k \in 1..n + 1 /\ j \in 1..k /\ j # k
      BY <2>1, <2>2
    <3>2. PCOf(j) + 1 <= PCOf(k)
      BY <3>1, PCOrder
    <3> QED
      BY <1>5, <2>1, <3>2
  <2>3. CASE k < j
    <3>1. j \in 1..n + 1 /\ k \in 1..j /\ j # k
      BY <2>1, <2>3
    <3>2. PCOf(k) + 1 <= PCOf(j)
      BY <3>1, PCOrder
    <3> QED
      BY <1>5, <2>1, <3>2
  <2> QED
    BY <2>1, <2>2, <2>3
<1>6. 0 \in Good
  <2>1. 0 \in 0..n /\ 0 + 1 = 1 /\ 0..0 - 1 = {}
    BY <1>1
  <2> QED
    BY <1>2, <2>1
<1>7. ASSUME NEW q \in 0..n - 1, q \in Good PROVE q + 1 \in Good
  <2>1. q + 1 \in 1..n /\ q + 1 \in 0..n /\ q + 1 \in 1..n + 1
    BY <1>1
  <2>2. PCOf((q + 1) + 1) = PCOf(q + 1) + (IF q + 1 \in InstructionLines THEN 1 ELSE 0)
    BY <1>1, <2>1, PCOfIs
  <2>3. ASSUME NEW pc \in 0..PCOf((q + 1) + 1) - 1
        PROVE  \E k \in InstructionLines : PCOf(k) = pc
    <3>1. PCOf(q + 1) \in Nat
      BY <1>2, <2>1
    <3>2. pc \in 0..PCOf(q + 1) - 1 \/ (q + 1 \in InstructionLines /\ pc = PCOf(q + 1))
      BY <2>2, <3>1
    <3> QED
      BY <1>7, <3>2
  <2> QED
    BY <2>1, <2>3
<1> HIDE DEF Good
<1>8. 0..n \subseteq Good
  BY <1>1, <1>6, <1>7, UpTo
<1>9. n \in 0..n
  BY <1>1
<1>10. \A pc \in 0..m - 1 : \E k \in InstructionLines : PCOf(k) = pc
  BY <1>2, <1>8, <1>9 DEF Good
<1> QED
  BY <1>3, <1>4, <1>5, <1>10 DEF m

LEMMA AtIs ==
    ASSUME Typed, NEW k \in InstructionLines
    PROVE  At(PCOf(k)) = k
BY OnePC DEF At

LEMMA AtPC ==
    ASSUME Typed, NEW pc \in 0..Cardinality(InstructionLines) - 1
    PROVE  At(pc) \in InstructionLines /\ PCOf(At(pc)) = pc
BY OnePC DEF At

\* What is said of a source does not change with the state of the assembler.
LEMMA SameSource ==
    ASSUME source' = source
    PROVE  /\ Lines' = Lines /\ InstructionLines' = InstructionLines
           /\ BranchLines' = BranchLines /\ FlowAsWritten' = FlowAsWritten
           /\ \A k : /\ Kind(k)' = Kind(k) /\ PCOf(k)' = PCOf(k) /\ TargetOf(k)' = TargetOf(k)
                     /\ ParamsBefore(k)' = ParamsBefore(k) /\ LabelOf(k)' = LabelOf(k)
                     /\ Faulty(k)' = Faulty(k)
           /\ \A x : LabelLines(x)' = LabelLines(x)
<1>1. Lines' = Lines /\ \A k : Kind(k)' = Kind(k) /\ LabelOf(k)' = LabelOf(k)
  BY DEF Lines, Kind, LabelOf
<1>2. /\ InstructionLines' = InstructionLines /\ BranchLines' = BranchLines
      /\ \A x : LabelLines(x)' = LabelLines(x)
  BY <1>1 DEF InstructionLines, BranchLines, LabelLines
<1>3. \A k : PCOf(k)' = PCOf(k)
  BY <1>2 DEF PCOf
<1>4. \A k : ParamsBefore(k)' = ParamsBefore(k)
  BY <1>1 DEF ParamsBefore
<1>5. \A k : TargetOf(k)' = TargetOf(k)
  BY <1>1, <1>2, <1>3 DEF TargetOf
<1>6. FlowAsWritten' = FlowAsWritten
  <2>1. \A pc : At(pc)' = At(pc)
    BY <1>2, <1>3 DEF At
  <2> QED
    BY <1>2, <1>5, <2>1 DEF FlowAsWritten
<1>7. \A k : Faulty(k)' = Faulty(k)
  BY <1>1, <1>2, <1>4 DEF Faulty
<1> QED
  BY <1>1, <1>2, <1>3, <1>4, <1>5, <1>6, <1>7

-----------------------------------------------------------------------------
(* Operands                                                                *)

\* A statement that can have a struct, and its struct with given operands.
Sized(s) ==
    /\ s \in InstructionLine /\ s.opcode \in Opcodes /\ ~(s.pred >= PredRegisters)
    /\ Len(s.operands) = Len(Steps(s.opcode))
Made(s, d, a, b, f, v) ==
    [opcode |-> s.opcode, present |-> s.present, negate |-> s.negate, pred |-> s.pred,
     dst |-> d, src0 |-> a, src1 |-> b, imm_flag |-> f, imm |-> v]

LEMMA HalfIs ==
    /\ Half \in Nat \ {0} /\ Immediates = 2 * Half /\ Immediates \in Nat \ {0}
    /\ Halves \in Nat \ {0} /\ NoReconv = Halves - 1 /\ Immediates = Halves * Halves
<1>1. NoReconv \in Nat \ {0}
  BY IsaAssumption
<1>2. PICK h \in 1..NoReconv : Halves = 2 * h
  BY <1>1, AssemblerAssumption
<1>3. h \in Nat \ {0}
  BY <1>1
<1>4. Halves * Halves = 2 * (2 * (h * h)) /\ h * h \in Nat \ {0}
  BY <1>2, <1>3
<1>5. \A m \in Nat : (2 * m) \div 2 = m
  OBVIOUS
<1>6. Half = 2 * (h * h)
  BY <1>4, <1>5, AssemblerAssumption DEF Half
<1> QED
  BY <1>2, <1>3, <1>4, <1>6, AssemblerAssumption

\* Every opcode has one shape.
LEMMA StepsAre ==
    ASSUME NEW opcode \in Opcodes
    PROVE  /\ opcode \in Rrr => Steps(opcode) = <<"dst_reg", "src0_reg", "src1_reg_or_imm">>
           /\ opcode \in Rr => Steps(opcode) = <<"dst_reg", "src0_reg_or_imm">>
           /\ opcode \in Acc => Steps(opcode) = <<"dst_reg", "src0_reg", "src1_reg">>
           /\ opcode \in Prr => Steps(opcode) = <<"dst_pred", "src0_reg", "src1_reg_or_imm">>
           /\ opcode \in Sreg => Steps(opcode) = <<"dst_reg", "special">>
           /\ opcode \in Bra => Steps(opcode) = <<"branch_target">>
           /\ opcode \in None => Steps(opcode) = <<>>
           /\ opcode \in Ld => Steps(opcode) = <<"dst_reg", "address">>
           /\ opcode \in St => Steps(opcode) = <<"address", "src1_reg">>
           /\ opcode \in Ldp => Steps(opcode) = <<"dst_reg", "param_ref">>
           /\ opcode \in Rrr \cup Rr \cup Acc \cup Prr \cup Sreg \cup Bra \cup None \cup Ld \cup St
                         \cup Ldp
<1>1. /\ Rr \cap (Acc \cup Prr \cup Sreg \cup Bra \cup None \cup Ld \cup St \cup Ldp) = {}
      /\ Acc \cap (Prr \cup Sreg \cup Bra \cup None \cup Ld \cup St \cup Ldp) = {}
      /\ Prr \cap (Sreg \cup Bra \cup None \cup Ld \cup St \cup Ldp) = {}
      /\ Sreg \cap (Bra \cup None \cup Ld \cup St \cup Ldp) = {}
      /\ Bra \cap (None \cup Ld \cup St \cup Ldp) = {}
      /\ None \cap (Ld \cup St \cup Ldp) = {} /\ Ld \cap (St \cup Ldp) = {} /\ St \cap Ldp = {}
  BY DEF Rr, Acc, Prr, Sreg, Bra, None, Ld, St, Ldp
<1>2. opcode \in Rrr <=> opcode \notin Rr \cup Acc \cup Prr \cup Sreg \cup Bra \cup None \cup Ld
                                       \cup St \cup Ldp
  BY DEF Rrr
<1> QED
  BY <1>1, <1>2 DEF Steps

\* What an operand reads as, by its form.
LEMMA IndexIs ==
    ASSUME NEW o \in OperandType, NEW form \in {"r", "p", "special"}, NEW count \in Nat
    PROVE  Index(o, form, count) = IF o.form = form /\ o.value < count THEN {o.value} ELSE {}
<1>1. o.form = form => o \in [form : {form}, value : Nat]
  BY DEF OperandType
<1>2. o \in [form : {form}, value : 0..count - 1] <=> o.form = form /\ o.value < count
  BY <1>1
<1> QED
  BY <1>2 DEF Index

LEMMA IndexType ==
    ASSUME NEW o \in OperandType, NEW form \in {"r", "p", "special"}, NEW count \in Nat,
           NEW v \in Index(o, form, count)
    PROVE  v \in 0..count - 1
<1>1. o.form = form => o.value \in Nat
  BY DEF OperandType
<1> QED
  BY <1>1, IndexIs

LEMMA ImmediateType ==
    ASSUME NEW o \in OperandType, NEW opcode, NEW v \in Immediate(o, opcode)
    PROVE  v \in 0..Immediates - 1
<1>1. CASE o.form = "int"
  <2>1. o.value \in Nat /\ o.negative \in BOOLEAN
    BY <1>1 DEF OperandType
  <2>2. o.value <= Half => Immediates - o.value \in Nat
    BY <2>1, HalfIs
  <2>3. o.value <= Half => (Immediates - o.value) % Immediates \in 0..Immediates - 1
    BY <2>2, HalfIs
  <2>4. v = IF o.negative THEN (Immediates - o.value) % Immediates ELSE o.value
    BY <1>1 DEF Immediate
  <2>5. o.value <= (IF o.negative THEN Half ELSE Immediates - 1)
    BY <1>1 DEF Immediate
  <2> QED
    BY <2>1, <2>3, <2>4, <2>5, HalfIs
<1>2. CASE o.form = "float"
  <2>1. o.value \in 0..Half - 1
    BY <1>2 DEF OperandType
  <2>2. v = IF o.negative THEN o.value + Half ELSE o.value
    BY <1>2 DEF Immediate
  <2> QED
    BY <2>1, <2>2, HalfIs
<1>3. o.form = "int" \/ o.form = "float"
  BY DEF Immediate
<1> QED
  BY <1>1, <1>2, <1>3

LEMMA OffsetType ==
    ASSUME NEW o \in OperandType, NEW v \in Offset(o)
    PROVE  v \in 0..Immediates - 1 /\ o.base \in 0..GeneralRegisters - 1
<1>1. o.form = "address" /\ ~(o.value >= Immediates) /\ ~(o.base >= GeneralRegisters)
  BY DEF Offset
<1>2. o.value \in Nat /\ o.base \in Nat /\ o.negative \in BOOLEAN
  BY <1>1 DEF OperandType
<1>3. Immediates - o.value \in Nat /\ (Immediates - o.value) % Immediates \in 0..Immediates - 1
  BY <1>1, <1>2, HalfIs
<1>4. v = IF o.negative THEN (Immediates - o.value) % Immediates ELSE o.value
  BY <1>1 DEF Offset
<1> QED
  BY <1>1, <1>2, <1>3, <1>4, HalfIs, WordAssumption

\* A step sets the fields it is for.
LEMMA ReadMade ==
    ASSUME NEW s, NEW d, NEW a, NEW b, NEW f, NEW v, NEW o, NEW params, NEW x
    PROVE  /\ x \in Read("dst_reg", o, Made(s, d, a, b, f, v), params) <=>
                  \E r \in General(o) : x = Made(s, r, a, b, f, v)
           /\ x \in Read("src0_reg", o, Made(s, d, a, b, f, v), params) <=>
                  \E r \in General(o) : x = Made(s, d, r, b, f, v)
           /\ x \in Read("src1_reg", o, Made(s, d, a, b, f, v), params) <=>
                  \E r \in General(o) : x = Made(s, d, a, r, f, v)
           /\ x \in Read("src0_reg_or_imm", o, Made(s, d, a, b, f, v), params) <=>
                  \/ \E r \in General(o) : x = Made(s, d, r, b, f, v)
                  \/ \E n \in Immediate(o, s.opcode) : x = Made(s, d, a, b, 1, n)
           /\ x \in Read("src1_reg_or_imm", o, Made(s, d, a, b, f, v), params) <=>
                  \/ \E r \in General(o) : x = Made(s, d, a, r, f, v)
                  \/ \E n \in Immediate(o, s.opcode) : x = Made(s, d, a, b, 1, n)
           /\ x \in Read("dst_pred", o, Made(s, d, a, b, f, v), params) <=>
                  \E r \in Index(o, "p", PredRegisters) : x = Made(s, r, a, b, f, v)
           /\ x \in Read("special", o, Made(s, d, a, b, f, v), params) <=>
                  \E r \in Index(o, "special", SpecialRegisters) : x = Made(s, d, r, b, f, v)
           /\ x \in Read("branch_target", o, Made(s, d, a, b, f, v), params) <=>
                  o.form = "name" /\ x = Made(s, d, a, b, f, NoReconv * Halves)
           /\ x \in Read("address", o, Made(s, d, a, b, f, v), params) <=>
                  \E n \in Offset(o) : x = Made(s, d, o.base, b, 1, n)
           /\ x \in Read("param_ref", o, Made(s, d, a, b, f, v), params) <=>
                  /\ o.form = "param"
                  /\ \E k \in DOMAIN params :
                         params[k] = o.name /\ x = Made(s, d, a, b, 1, (k - 1) % Immediates)
<1> DEFINE i == Made(s, d, a, b, f, v)
           Flagged(j, n) == [j EXCEPT !.imm_flag = 1, !.imm = n]
<1>1. i.opcode = s.opcode
  BY DEF Made
<1>2. \A r : [i EXCEPT !["dst"] = r] = Made(s, r, a, b, f, v)
  BY DEF Made
<1>3. \A r : [i EXCEPT !["src0"] = r] = Made(s, d, r, b, f, v)
  BY DEF Made
<1>4. \A r : [i EXCEPT !["src1"] = r] = Made(s, d, a, r, f, v)
  BY DEF Made
<1>5. \A r : [i EXCEPT !["imm"] = r] = Made(s, d, a, b, f, r)
  BY DEF Made
<1>6. ASSUME NEW c, NEW r PROVE Flagged(Made(s, d, c, b, f, v), r) = Made(s, d, c, b, 1, r)
  <2>1. [Made(s, d, c, b, f, v) EXCEPT !.imm_flag = 1] = Made(s, d, c, b, 1, v)
    BY DEF Made
  <2>2. [Made(s, d, c, b, 1, v) EXCEPT !.imm = r] = Made(s, d, c, b, 1, r)
    BY DEF Made
  <2> QED
    BY <2>1, <2>2
<1> HIDE DEF i, Flagged
<1>7. x \in Read("dst_reg", o, i, params) <=>
          \E r \in General(o) : x = Made(s, r, a, b, f, v)
  <2>1. Read("dst_reg", o, i, params) =
            {[i EXCEPT !["dst"] = r] : r \in General(o)}
    BY DEF Read, Flagged
  <2> QED
    BY <1>1, <1>2, <1>3, <1>4, <1>5, <1>6, <2>1 DEF i
<1>8. x \in Read("src0_reg", o, i, params) <=>
          \E r \in General(o) : x = Made(s, d, r, b, f, v)
  <2>1. Read("src0_reg", o, i, params) =
            {[i EXCEPT !["src0"] = r] : r \in General(o)}
    BY DEF Read, Flagged
  <2> QED
    BY <1>1, <1>2, <1>3, <1>4, <1>5, <1>6, <2>1 DEF i
<1>9. x \in Read("src1_reg", o, i, params) <=>
          \E r \in General(o) : x = Made(s, d, a, r, f, v)
  <2>1. Read("src1_reg", o, i, params) =
            {[i EXCEPT !["src1"] = r] : r \in General(o)}
    BY DEF Read, Flagged
  <2> QED
    BY <1>1, <1>2, <1>3, <1>4, <1>5, <1>6, <2>1 DEF i
<1>10. x \in Read("src0_reg_or_imm", o, i, params) <=>
          \/ \E r \in General(o) : x = Made(s, d, r, b, f, v)
          \/ \E n \in Immediate(o, s.opcode) : x = Made(s, d, a, b, 1, n)
  <2>1. Read("src0_reg_or_imm", o, i, params) =
            {[i EXCEPT !["src0"] = r] : r \in General(o)}
            \cup {Flagged(i, n) : n \in Immediate(o, i.opcode)}
    BY DEF Read, Flagged
  <2> QED
    BY <1>1, <1>2, <1>3, <1>4, <1>5, <1>6, <2>1 DEF i
<1>11. x \in Read("src1_reg_or_imm", o, i, params) <=>
          \/ \E r \in General(o) : x = Made(s, d, a, r, f, v)
          \/ \E n \in Immediate(o, s.opcode) : x = Made(s, d, a, b, 1, n)
  <2>1. Read("src1_reg_or_imm", o, i, params) =
            {[i EXCEPT !["src1"] = r] : r \in General(o)}
            \cup {Flagged(i, n) : n \in Immediate(o, i.opcode)}
    BY DEF Read, Flagged
  <2> QED
    BY <1>1, <1>2, <1>3, <1>4, <1>5, <1>6, <2>1 DEF i
<1>12. x \in Read("dst_pred", o, i, params) <=>
          \E r \in Index(o, "p", PredRegisters) : x = Made(s, r, a, b, f, v)
  <2>1. Read("dst_pred", o, i, params) =
            {[i EXCEPT !["dst"] = r] : r \in Index(o, "p", PredRegisters)}
    BY DEF Read, Flagged
  <2> QED
    BY <1>1, <1>2, <1>3, <1>4, <1>5, <1>6, <2>1 DEF i
<1>13. x \in Read("special", o, i, params) <=>
          \E r \in Index(o, "special", SpecialRegisters) : x = Made(s, d, r, b, f, v)
  <2>1. Read("special", o, i, params) =
            {[i EXCEPT !["src0"] = r] : r \in Index(o, "special", SpecialRegisters)}
    BY DEF Read, Flagged
  <2> QED
    BY <1>1, <1>2, <1>3, <1>4, <1>5, <1>6, <2>1 DEF i
<1>14. x \in Read("branch_target", o, i, params) <=>
          o.form = "name" /\ x = Made(s, d, a, b, f, NoReconv * Halves)
  <2>1. Read("branch_target", o, i, params) =
            IF o.form = "name" THEN {[i EXCEPT !["imm"] = r] : r \in {NoReconv * Halves}} ELSE {}
    BY DEF Read, Flagged
  <2> QED
    BY <1>1, <1>2, <1>3, <1>4, <1>5, <1>6, <2>1 DEF i
<1>15. x \in Read("address", o, i, params) <=>
          \E n \in Offset(o) : x = Made(s, d, o.base, b, 1, n)
  <2>1. Read("address", o, i, params) =
            UNION {{Flagged([i EXCEPT !.src0 = o.base], m) : m \in {n}} : n \in Offset(o)}
    BY DEF Read, Flagged
  <2> QED
    BY <1>1, <1>2, <1>3, <1>4, <1>5, <1>6, <2>1 DEF i
<1>16. x \in Read("param_ref", o, i, params) <=>
          /\ o.form = "param"
          /\ \E k \in DOMAIN params :
                 params[k] = o.name /\ x = Made(s, d, a, b, 1, (k - 1) % Immediates)
  <2>1. Read("param_ref", o, i, params) =
            IF o.form # "param" THEN {}
            ELSE {Flagged(i, n) : n \in {(k - 1) % Immediates :
                                             k \in {j \in DOMAIN params : params[j] = o.name}}}
    BY DEF Read, Flagged
  <2> QED
    BY <1>1, <1>2, <1>3, <1>4, <1>5, <1>6, <2>1 DEF i
<1> QED
  BY <1>7, <1>8, <1>9, <1>10, <1>11, <1>12, <1>13, <1>14, <1>15, <1>16 DEF i

\* The structs of a statement, read operand after operand.
ReadNext(s, params, k, X) ==
    UNION {Read(Steps(s.opcode)[k], s.operands[k], i, params) : i \in X}

LEMMA ParsedInOrder ==
    ASSUME NEW s, Sized(s), NEW params
    PROVE  LET B == {Made(s, 0, 0, 0, 0, 0)}
               R(k, X) == ReadNext(s, params, k, X)
           IN  /\ Len(s.operands) = 0 => Parsed(s, params) = B
               /\ Len(s.operands) = 1 => Parsed(s, params) = R(1, B)
               /\ Len(s.operands) = 2 => Parsed(s, params) = R(2, R(1, B))
               /\ Len(s.operands) = 3 => Parsed(s, params) = R(3, R(2, R(1, B)))
<1> DEFINE n == Len(s.operands)
           B == {Made(s, 0, 0, 0, 0, 0)}
           R(k, X) == ReadNext(s, params, k, X)
           blank == [f \in Fields |->
                        IF f \in {"opcode", "present", "negate", "pred"} THEN s[f] ELSE 0]
           Is(Q) == Q = [k \in 0..n |-> IF k = 0 THEN {blank} ELSE R(k, Q[k - 1])]
           P == CHOOSE Q : Is(Q)
<1>1. blank = Made(s, 0, 0, 0, 0, 0)
  BY DEF Made, Fields
<1>2. Parsed(s, params) = P[n]
  <2>1. ~(s.opcode \notin Opcodes \/ s.pred >= PredRegisters \/ n # Len(Steps(s.opcode)))
    BY DEF Sized
  <2> QED
    BY <2>1 DEF Parsed, ReadNext
<1>3. n \in Nat
  BY LenProperties DEF Sized, InstructionLine
<1> DEFINE T == [k \in 0..n |-> IF k = 0 THEN B ELSE IF k = 1 THEN R(1, B)
                                ELSE IF k = 2 THEN R(2, R(1, B)) ELSE R(3, R(2, R(1, B)))]
<1> HIDE DEF n, B, R, blank, P
<1>4. n \in 0..3 => T = [k \in 0..n |-> IF k = 0 THEN B ELSE R(k, T[k - 1])]
  <2> SUFFICES ASSUME n \in 0..3, NEW k \in 0..n
               PROVE  T[k] = IF k = 0 THEN B ELSE R(k, T[k - 1])
    OBVIOUS
  <2>1. k = 0 \/ k = 1 \/ k = 2 \/ k = 3
    BY <1>3
  <2>2. \A j \in 0..n : T[j] = IF j = 0 THEN B ELSE IF j = 1 THEN R(1, B)
                               ELSE IF j = 2 THEN R(2, R(1, B)) ELSE R(3, R(2, R(1, B)))
    OBVIOUS
  <2> HIDE DEF T
  <2>3. CASE k = 0
    BY <2>2, <2>3
  <2>4. CASE k = 1
    <3>1. 0 \in 0..n /\ 1 - 1 = 0
      BY <1>3
    <3> QED
      BY <2>2, <2>4, <3>1
  <2>5. CASE k = 2
    <3>1. 1 \in 0..n /\ 2 - 1 = 1
      BY <1>3, <2>5
    <3> QED
      BY <2>2, <2>5, <3>1
  <2>6. CASE k = 3
    <3>1. 2 \in 0..n /\ 3 - 1 = 2
      BY <1>3, <2>6
    <3> QED
      BY <2>2, <2>6, <3>1
  <2> QED
    BY <2>1, <2>3, <2>4, <2>5, <2>6
<1> HIDE DEF T
<1>5. {blank} = B
  BY <1>1 DEF B
<1>6. n \in 0..3 => Is(T)
  BY <1>4, <1>5
<1> HIDE DEF Is
<1>7. n \in 0..3 => Is(P)
  BY <1>6 DEF P
<1>8. n \in 0..3 => \A k \in 0..n : P[k] = IF k = 0 THEN B ELSE R(k, P[k - 1])
  BY <1>5, <1>7 DEF Is
<1>9. n = 0 => P[0] = B
  BY <1>8
<1>10. n = 1 => P[1] = R(1, B)
  <2>1. n = 1 => 0 \in 0..n /\ 1 \in 0..n /\ n \in 0..3 /\ 1 - 1 = 0 /\ 1 # 0
    OBVIOUS
  <2> QED
    BY <1>8, <2>1
<1>11. n = 2 => P[2] = R(2, R(1, B))
  <2>1. n = 2 => 0 \in 0..n /\ 1 \in 0..n /\ 2 \in 0..n /\ n \in 0..3 /\ 1 - 1 = 0 /\ 2 - 1 = 1
                 /\ 1 # 0 /\ 2 # 0
    OBVIOUS
  <2> QED
    BY <1>8, <2>1
<1>12. n = 3 => P[3] = R(3, R(2, R(1, B)))
  <2>1. n = 3 => 0 \in 0..n /\ 1 \in 0..n /\ 2 \in 0..n /\ 3 \in 0..n /\ n \in 0..3 /\ 1 - 1 = 0
                 /\ 2 - 1 = 1 /\ 3 - 1 = 2 /\ 1 # 0 /\ 2 # 0 /\ 3 # 0
    OBVIOUS
  <2> QED
    BY <1>8, <2>1
<1> QED
  BY <1>2, <1>9, <1>10, <1>11, <1>12 DEF n, B, R

LEMMA InNext ==
    ASSUME NEW s, NEW params, NEW k, NEW X, NEW x
    PROVE  x \in ReadNext(s, params, k, X) <=>
               \E i \in X : x \in Read(Steps(s.opcode)[k], s.operands[k], i, params)
BY DEF ReadNext

\* The structs of a statement, shape by shape.
RrrReads(s, params, x) ==
    \E d \in General(s.operands[1]), a \in General(s.operands[2]) :
       \/ \E b \in General(s.operands[3]) : x = Made(s, d, a, b, 0, 0)
       \/ \E v \in Immediate(s.operands[3], s.opcode) : x = Made(s, d, a, 0, 1, v)
PrrReads(s, params, x) ==
    \E d \in Index(s.operands[1], "p", PredRegisters), a \in General(s.operands[2]) :
       \/ \E b \in General(s.operands[3]) : x = Made(s, d, a, b, 0, 0)
       \/ \E v \in Immediate(s.operands[3], s.opcode) : x = Made(s, d, a, 0, 1, v)
RrReads(s, params, x) ==
    \E d \in General(s.operands[1]) :
       \/ \E a \in General(s.operands[2]) : x = Made(s, d, a, 0, 0, 0)
       \/ \E v \in Immediate(s.operands[2], s.opcode) : x = Made(s, d, 0, 0, 1, v)
AccReads(s, params, x) ==
    \E d \in General(s.operands[1]), a \in General(s.operands[2]), b \in General(s.operands[3]) :
       x = Made(s, d, a, b, 0, 0)
SregReads(s, params, x) ==
    \E d \in General(s.operands[1]), a \in Index(s.operands[2], "special", SpecialRegisters) :
       x = Made(s, d, a, 0, 0, 0)
BraReads(s, params, x) ==
    s.operands[1].form = "name" /\ x = Made(s, 0, 0, 0, 0, NoReconv * Halves)
NoneReads(s, params, x) ==
    x = Made(s, 0, 0, 0, 0, 0)
LdReads(s, params, x) ==
    \E d \in General(s.operands[1]), v \in Offset(s.operands[2]) :
        x = Made(s, d, s.operands[2].base, 0, 1, v)
StReads(s, params, x) ==
    \E v \in Offset(s.operands[1]), b \in General(s.operands[2]) :
        x = Made(s, 0, s.operands[1].base, b, 1, v)
LdpReads(s, params, x) ==
    /\ s.operands[2].form = "param"
    /\ \E d \in General(s.operands[1]), k \in DOMAIN params :
           /\ params[k] = s.operands[2].name
           /\ x = Made(s, d, 0, 0, 1, (k - 1) % Immediates)

LEMMA ParsedIs ==
    ASSUME NEW s, Sized(s), NEW params, NEW x
    PROVE  /\ s.opcode \in Rrr => (x \in Parsed(s, params) <=> RrrReads(s, params, x))
           /\ s.opcode \in Prr => (x \in Parsed(s, params) <=> PrrReads(s, params, x))
           /\ s.opcode \in Rr => (x \in Parsed(s, params) <=> RrReads(s, params, x))
           /\ s.opcode \in Acc => (x \in Parsed(s, params) <=> AccReads(s, params, x))
           /\ s.opcode \in Sreg => (x \in Parsed(s, params) <=> SregReads(s, params, x))
           /\ s.opcode \in Bra => (x \in Parsed(s, params) <=> BraReads(s, params, x))
           /\ s.opcode \in None => (x \in Parsed(s, params) <=> NoneReads(s, params, x))
           /\ s.opcode \in Ld => (x \in Parsed(s, params) <=> LdReads(s, params, x))
           /\ s.opcode \in St => (x \in Parsed(s, params) <=> StReads(s, params, x))
           /\ s.opcode \in Ldp => (x \in Parsed(s, params) <=> LdpReads(s, params, x))
<1> DEFINE o1 == s.operands[1]
           o2 == s.operands[2]
           o3 == s.operands[3]
           Blk == Made(s, 0, 0, 0, 0, 0)
           R1 == ReadNext(s, params, 1, {Blk})
           R2 == ReadNext(s, params, 2, R1)
           R3 == ReadNext(s, params, 3, R2)
<1>1. s.opcode \in Opcodes /\ Len(s.operands) = Len(Steps(s.opcode))
  BY DEF Sized
<1>2. /\ Len(s.operands) = 0 => Parsed(s, params) = {Blk}
      /\ Len(s.operands) = 1 => Parsed(s, params) = R1
      /\ Len(s.operands) = 2 => Parsed(s, params) = R2
      /\ Len(s.operands) = 3 => Parsed(s, params) = R3
  BY ParsedInOrder
<1>3. \A i : i \in R1 <=> i \in Read(Steps(s.opcode)[1], o1, Blk, params)
  BY InNext
<1>4. \A i : i \in R2 <=> \E j \in R1 : i \in Read(Steps(s.opcode)[2], o2, j, params)
  BY InNext
<1>5. \A i : i \in R3 <=> \E j \in R2 : i \in Read(Steps(s.opcode)[3], o3, j, params)
  BY InNext
<1> HIDE DEF o1, o2, o3, Blk, R1, R2, R3
<1>6. ASSUME s.opcode \in Rrr
      PROVE  x \in Parsed(s, params) <=>
                 \/ \E d \in General(o1), a \in General(o2), b \in General(o3) :
                        x = Made(s, d, a, b, 0, 0)
                 \/ \E d \in General(o1), a \in General(o2), v \in Immediate(o3, s.opcode) :
                        x = Made(s, d, a, 0, 1, v)
  <2>1. Steps(s.opcode) = <<"dst_reg", "src0_reg", "src1_reg_or_imm">>
    BY <1>1, <1>6, StepsAre
  <2>2. Len(s.operands) = 3 /\ Steps(s.opcode)[1] = "dst_reg"
        /\ Steps(s.opcode)[2] = "src0_reg"
        /\ Steps(s.opcode)[3] = "src1_reg_or_imm"
    BY <1>1, <2>1
  <2>3. \A i : i \in R1 <=>
             \E d \in General(o1) : i = Made(s, d, 0, 0, 0, 0)
    <3>1. \A i :
            i \in Read("dst_reg", o1, Made(s, 0, 0, 0, 0, 0), params) <=>
                \E d \in General(o1) : i = Made(s, d, 0, 0, 0, 0)
      BY ReadMade
    <3> QED
      BY <1>3, <2>2, <3>1 DEF Blk
  <2>4. \A i : i \in R2 <=>
             \E d \in General(o1), a \in General(o2) : i = Made(s, d, a, 0, 0, 0)
    <3>1. \A d, i :
            i \in Read("src0_reg", o2, Made(s, d, 0, 0, 0, 0), params) <=>
                \E a \in General(o2) : i = Made(s, d, a, 0, 0, 0)
      BY ReadMade
    <3>2. \A i : i \in R2 <=>
              \E d \in General(o1) :
                 i \in Read("src0_reg", o2, Made(s, d, 0, 0, 0, 0), params)
      BY <1>4, <2>2, <2>3
    <3> QED
      BY <3>1, <3>2
  <2>5. \A i : i \in R3 <=>
             \/ \E d \in General(o1), a \in General(o2), b \in General(o3) :
                    i = Made(s, d, a, b, 0, 0)
             \/ \E d \in General(o1), a \in General(o2), v \in Immediate(o3, s.opcode) :
                    i = Made(s, d, a, 0, 1, v)
    <3>1. \A d, a, i :
            i \in Read("src1_reg_or_imm", o3, Made(s, d, a, 0, 0, 0), params) <=>
                \/ \E b \in General(o3) : i = Made(s, d, a, b, 0, 0)
                \/ \E v \in Immediate(o3, s.opcode) : i = Made(s, d, a, 0, 1, v)
      BY ReadMade
    <3>2. \A i : i \in R3 <=>
              \E d \in General(o1), a \in General(o2) :
                 i \in Read("src1_reg_or_imm", o3, Made(s, d, a, 0, 0, 0), params)
      BY <1>5, <2>2, <2>4
    <3> QED
      BY <3>1, <3>2
  <2> QED
    BY <1>2, <2>2, <2>5
<1>7. ASSUME s.opcode \in Prr
      PROVE  x \in Parsed(s, params) <=>
                 \/ \E d \in Index(o1, "p", PredRegisters), a \in General(o2), b \in General(o3) :
                        x = Made(s, d, a, b, 0, 0)
                 \/ \E d \in Index(o1, "p", PredRegisters), a \in General(o2),
                       v \in Immediate(o3, s.opcode) :
                        x = Made(s, d, a, 0, 1, v)
  <2>1. Steps(s.opcode) = <<"dst_pred", "src0_reg", "src1_reg_or_imm">>
    BY <1>1, <1>7, StepsAre
  <2>2. Len(s.operands) = 3 /\ Steps(s.opcode)[1] = "dst_pred"
        /\ Steps(s.opcode)[2] = "src0_reg"
        /\ Steps(s.opcode)[3] = "src1_reg_or_imm"
    BY <1>1, <2>1
  <2>3. \A i : i \in R1 <=>
             \E d \in Index(o1, "p", PredRegisters) : i = Made(s, d, 0, 0, 0, 0)
    <3>1. \A i :
            i \in Read("dst_pred", o1, Made(s, 0, 0, 0, 0, 0), params) <=>
                \E d \in Index(o1, "p", PredRegisters) : i = Made(s, d, 0, 0, 0, 0)
      BY ReadMade
    <3> QED
      BY <1>3, <2>2, <3>1 DEF Blk
  <2>4. \A i : i \in R2 <=>
             \E d \in Index(o1, "p", PredRegisters), a \in General(o2) : i = Made(s, d, a, 0, 0, 0)
    <3>1. \A d, i :
            i \in Read("src0_reg", o2, Made(s, d, 0, 0, 0, 0), params) <=>
                \E a \in General(o2) : i = Made(s, d, a, 0, 0, 0)
      BY ReadMade
    <3>2. \A i : i \in R2 <=>
              \E d \in Index(o1, "p", PredRegisters) :
                 i \in Read("src0_reg", o2, Made(s, d, 0, 0, 0, 0), params)
      BY <1>4, <2>2, <2>3
    <3> QED
      BY <3>1, <3>2
  <2>5. \A i : i \in R3 <=>
             \/ \E d \in Index(o1, "p", PredRegisters), a \in General(o2), b \in General(o3) :
                    i = Made(s, d, a, b, 0, 0)
             \/ \E d \in Index(o1, "p", PredRegisters), a \in General(o2),
                   v \in Immediate(o3, s.opcode) :
                    i = Made(s, d, a, 0, 1, v)
    <3>1. \A d, a, i :
            i \in Read("src1_reg_or_imm", o3, Made(s, d, a, 0, 0, 0), params) <=>
                \/ \E b \in General(o3) : i = Made(s, d, a, b, 0, 0)
                \/ \E v \in Immediate(o3, s.opcode) : i = Made(s, d, a, 0, 1, v)
      BY ReadMade
    <3>2. \A i : i \in R3 <=>
              \E d \in Index(o1, "p", PredRegisters), a \in General(o2) :
                 i \in Read("src1_reg_or_imm", o3, Made(s, d, a, 0, 0, 0), params)
      BY <1>5, <2>2, <2>4
    <3> QED
      BY <3>1, <3>2
  <2> QED
    BY <1>2, <2>2, <2>5
<1>8. ASSUME s.opcode \in Rr
      PROVE  x \in Parsed(s, params) <=>
                 \/ \E d \in General(o1), a \in General(o2) : x = Made(s, d, a, 0, 0, 0)
                 \/ \E d \in General(o1), v \in Immediate(o2, s.opcode) : x = Made(s, d, 0, 0, 1, v)
  <2>1. Steps(s.opcode) = <<"dst_reg", "src0_reg_or_imm">>
    BY <1>1, <1>8, StepsAre
  <2>2. Len(s.operands) = 2 /\ Steps(s.opcode)[1] = "dst_reg"
        /\ Steps(s.opcode)[2] = "src0_reg_or_imm"
    BY <1>1, <2>1
  <2>3. \A i : i \in R1 <=>
             \E d \in General(o1) : i = Made(s, d, 0, 0, 0, 0)
    <3>1. \A i :
            i \in Read("dst_reg", o1, Made(s, 0, 0, 0, 0, 0), params) <=>
                \E d \in General(o1) : i = Made(s, d, 0, 0, 0, 0)
      BY ReadMade
    <3> QED
      BY <1>3, <2>2, <3>1 DEF Blk
  <2>4. \A i : i \in R2 <=>
             \/ \E d \in General(o1), a \in General(o2) : i = Made(s, d, a, 0, 0, 0)
             \/ \E d \in General(o1), v \in Immediate(o2, s.opcode) : i = Made(s, d, 0, 0, 1, v)
    <3>1. \A d, i :
            i \in Read("src0_reg_or_imm", o2, Made(s, d, 0, 0, 0, 0), params) <=>
                \/ \E a \in General(o2) : i = Made(s, d, a, 0, 0, 0)
                \/ \E v \in Immediate(o2, s.opcode) : i = Made(s, d, 0, 0, 1, v)
      BY ReadMade
    <3>2. \A i : i \in R2 <=>
              \E d \in General(o1) :
                 i \in Read("src0_reg_or_imm", o2, Made(s, d, 0, 0, 0, 0), params)
      BY <1>4, <2>2, <2>3
    <3> QED
      BY <3>1, <3>2
  <2> QED
    BY <1>2, <2>2, <2>4
<1>9. ASSUME s.opcode \in Acc
      PROVE  x \in Parsed(s, params) <=>
                 \E d \in General(o1), a \in General(o2), b \in General(o3) :
                     x = Made(s, d, a, b, 0, 0)
  <2>1. Steps(s.opcode) = <<"dst_reg", "src0_reg", "src1_reg">>
    BY <1>1, <1>9, StepsAre
  <2>2. Len(s.operands) = 3 /\ Steps(s.opcode)[1] = "dst_reg"
        /\ Steps(s.opcode)[2] = "src0_reg"
        /\ Steps(s.opcode)[3] = "src1_reg"
    BY <1>1, <2>1
  <2>3. \A i : i \in R1 <=>
             \E d \in General(o1) : i = Made(s, d, 0, 0, 0, 0)
    <3>1. \A i :
            i \in Read("dst_reg", o1, Made(s, 0, 0, 0, 0, 0), params) <=>
                \E d \in General(o1) : i = Made(s, d, 0, 0, 0, 0)
      BY ReadMade
    <3> QED
      BY <1>3, <2>2, <3>1 DEF Blk
  <2>4. \A i : i \in R2 <=>
             \E d \in General(o1), a \in General(o2) : i = Made(s, d, a, 0, 0, 0)
    <3>1. \A d, i :
            i \in Read("src0_reg", o2, Made(s, d, 0, 0, 0, 0), params) <=>
                \E a \in General(o2) : i = Made(s, d, a, 0, 0, 0)
      BY ReadMade
    <3>2. \A i : i \in R2 <=>
              \E d \in General(o1) :
                 i \in Read("src0_reg", o2, Made(s, d, 0, 0, 0, 0), params)
      BY <1>4, <2>2, <2>3
    <3> QED
      BY <3>1, <3>2
  <2>5. \A i : i \in R3 <=>
             \E d \in General(o1), a \in General(o2), b \in General(o3) : i = Made(s, d, a, b, 0, 0)
    <3>1. \A d, a, i :
            i \in Read("src1_reg", o3, Made(s, d, a, 0, 0, 0), params) <=>
                \E b \in General(o3) : i = Made(s, d, a, b, 0, 0)
      BY ReadMade
    <3>2. \A i : i \in R3 <=>
              \E d \in General(o1), a \in General(o2) :
                 i \in Read("src1_reg", o3, Made(s, d, a, 0, 0, 0), params)
      BY <1>5, <2>2, <2>4
    <3> QED
      BY <3>1, <3>2
  <2> QED
    BY <1>2, <2>2, <2>5
<1>10. ASSUME s.opcode \in Sreg
      PROVE  x \in Parsed(s, params) <=>
                 \E d \in General(o1), a \in Index(o2, "special", SpecialRegisters) :
                     x = Made(s, d, a, 0, 0, 0)
  <2>1. Steps(s.opcode) = <<"dst_reg", "special">>
    BY <1>1, <1>10, StepsAre
  <2>2. Len(s.operands) = 2 /\ Steps(s.opcode)[1] = "dst_reg"
        /\ Steps(s.opcode)[2] = "special"
    BY <1>1, <2>1
  <2>3. \A i : i \in R1 <=>
             \E d \in General(o1) : i = Made(s, d, 0, 0, 0, 0)
    <3>1. \A i :
            i \in Read("dst_reg", o1, Made(s, 0, 0, 0, 0, 0), params) <=>
                \E d \in General(o1) : i = Made(s, d, 0, 0, 0, 0)
      BY ReadMade
    <3> QED
      BY <1>3, <2>2, <3>1 DEF Blk
  <2>4. \A i : i \in R2 <=>
             \E d \in General(o1), a \in Index(o2, "special", SpecialRegisters) :
                 i = Made(s, d, a, 0, 0, 0)
    <3>1. \A d, i :
            i \in Read("special", o2, Made(s, d, 0, 0, 0, 0), params) <=>
                \E a \in Index(o2, "special", SpecialRegisters) : i = Made(s, d, a, 0, 0, 0)
      BY ReadMade
    <3>2. \A i : i \in R2 <=>
              \E d \in General(o1) :
                 i \in Read("special", o2, Made(s, d, 0, 0, 0, 0), params)
      BY <1>4, <2>2, <2>3
    <3> QED
      BY <3>1, <3>2
  <2> QED
    BY <1>2, <2>2, <2>4
<1>11. ASSUME s.opcode \in Bra
      PROVE  x \in Parsed(s, params) <=>
                 o1.form = "name" /\ x = Made(s, 0, 0, 0, 0, NoReconv * Halves)
  <2>1. Steps(s.opcode) = <<"branch_target">>
    BY <1>1, <1>11, StepsAre
  <2>2. Len(s.operands) = 1 /\ Steps(s.opcode)[1] = "branch_target"
    BY <1>1, <2>1
  <2>3. \A i : i \in R1 <=>
             o1.form = "name" /\ i = Made(s, 0, 0, 0, 0, NoReconv * Halves)
    <3>1. \A i :
            i \in Read("branch_target", o1, Made(s, 0, 0, 0, 0, 0), params) <=>
                o1.form = "name" /\ i = Made(s, 0, 0, 0, 0, NoReconv * Halves)
      BY ReadMade
    <3> QED
      BY <1>3, <2>2, <3>1 DEF Blk
  <2> QED
    BY <1>2, <2>2, <2>3
<1>12. ASSUME s.opcode \in None
      PROVE  x \in Parsed(s, params) <=>
                 x = Made(s, 0, 0, 0, 0, 0)
  <2>1. Steps(s.opcode) = <<>>
    BY <1>1, <1>12, StepsAre
  <2> QED
    BY <1>1, <1>2, <2>1 DEF Blk
<1>13. ASSUME s.opcode \in Ld
      PROVE  x \in Parsed(s, params) <=>
                 \E d \in General(o1), v \in Offset(o2) : x = Made(s, d, o2.base, 0, 1, v)
  <2>1. Steps(s.opcode) = <<"dst_reg", "address">>
    BY <1>1, <1>13, StepsAre
  <2>2. Len(s.operands) = 2 /\ Steps(s.opcode)[1] = "dst_reg"
        /\ Steps(s.opcode)[2] = "address"
    BY <1>1, <2>1
  <2>3. \A i : i \in R1 <=>
             \E d \in General(o1) : i = Made(s, d, 0, 0, 0, 0)
    <3>1. \A i :
            i \in Read("dst_reg", o1, Made(s, 0, 0, 0, 0, 0), params) <=>
                \E d \in General(o1) : i = Made(s, d, 0, 0, 0, 0)
      BY ReadMade
    <3> QED
      BY <1>3, <2>2, <3>1 DEF Blk
  <2>4. \A i : i \in R2 <=>
             \E d \in General(o1), v \in Offset(o2) : i = Made(s, d, o2.base, 0, 1, v)
    <3>1. \A d, i :
            i \in Read("address", o2, Made(s, d, 0, 0, 0, 0), params) <=>
                \E v \in Offset(o2) : i = Made(s, d, o2.base, 0, 1, v)
      BY ReadMade
    <3>2. \A i : i \in R2 <=>
              \E d \in General(o1) :
                 i \in Read("address", o2, Made(s, d, 0, 0, 0, 0), params)
      BY <1>4, <2>2, <2>3
    <3> QED
      BY <3>1, <3>2
  <2> QED
    BY <1>2, <2>2, <2>4
<1>14. ASSUME s.opcode \in St
      PROVE  x \in Parsed(s, params) <=>
                 \E v \in Offset(o1), b \in General(o2) : x = Made(s, 0, o1.base, b, 1, v)
  <2>1. Steps(s.opcode) = <<"address", "src1_reg">>
    BY <1>1, <1>14, StepsAre
  <2>2. Len(s.operands) = 2 /\ Steps(s.opcode)[1] = "address"
        /\ Steps(s.opcode)[2] = "src1_reg"
    BY <1>1, <2>1
  <2>3. \A i : i \in R1 <=>
             \E v \in Offset(o1) : i = Made(s, 0, o1.base, 0, 1, v)
    <3>1. \A i :
            i \in Read("address", o1, Made(s, 0, 0, 0, 0, 0), params) <=>
                \E v \in Offset(o1) : i = Made(s, 0, o1.base, 0, 1, v)
      BY ReadMade
    <3> QED
      BY <1>3, <2>2, <3>1 DEF Blk
  <2>4. \A i : i \in R2 <=>
             \E v \in Offset(o1), b \in General(o2) : i = Made(s, 0, o1.base, b, 1, v)
    <3>1. \A v, i :
            i \in Read("src1_reg", o2, Made(s, 0, o1.base, 0, 1, v), params) <=>
                \E b \in General(o2) : i = Made(s, 0, o1.base, b, 1, v)
      BY ReadMade
    <3>2. \A i : i \in R2 <=>
              \E v \in Offset(o1) :
                 i \in Read("src1_reg", o2, Made(s, 0, o1.base, 0, 1, v), params)
      BY <1>4, <2>2, <2>3
    <3> QED
      BY <3>1, <3>2
  <2> QED
    BY <1>2, <2>2, <2>4
<1>15. ASSUME s.opcode \in Ldp
      PROVE  x \in Parsed(s, params) <=>
                 \E d \in General(o1), k \in DOMAIN params :
                     /\ o2.form = "param" /\ params[k] = o2.name
                     /\ x = Made(s, d, 0, 0, 1, (k - 1) % Immediates)
  <2>1. Steps(s.opcode) = <<"dst_reg", "param_ref">>
    BY <1>1, <1>15, StepsAre
  <2>2. Len(s.operands) = 2 /\ Steps(s.opcode)[1] = "dst_reg"
        /\ Steps(s.opcode)[2] = "param_ref"
    BY <1>1, <2>1
  <2>3. \A i : i \in R1 <=>
             \E d \in General(o1) : i = Made(s, d, 0, 0, 0, 0)
    <3>1. \A i :
            i \in Read("dst_reg", o1, Made(s, 0, 0, 0, 0, 0), params) <=>
                \E d \in General(o1) : i = Made(s, d, 0, 0, 0, 0)
      BY ReadMade
    <3> QED
      BY <1>3, <2>2, <3>1 DEF Blk
  <2>4. \A i : i \in R2 <=>
             \E d \in General(o1), k \in DOMAIN params :
                 /\ o2.form = "param" /\ params[k] = o2.name
                 /\ i = Made(s, d, 0, 0, 1, (k - 1) % Immediates)
    <3>1. \A d, i :
            i \in Read("param_ref", o2, Made(s, d, 0, 0, 0, 0), params) <=>
                \E k \in DOMAIN params :
                    /\ o2.form = "param" /\ params[k] = o2.name
                    /\ i = Made(s, d, 0, 0, 1, (k - 1) % Immediates)
      BY ReadMade
    <3>2. \A i : i \in R2 <=>
              \E d \in General(o1) :
                 i \in Read("param_ref", o2, Made(s, d, 0, 0, 0, 0), params)
      BY <1>4, <2>2, <2>3
    <3> QED
      BY <3>1, <3>2
  <2> QED
    BY <1>2, <2>2, <2>4
<1> QED
  BY <1>6, <1>7, <1>8, <1>9, <1>10, <1>11, <1>12, <1>13, <1>14, <1>15
     DEF o1, o2, o3, RrrReads, PrrReads, RrReads, AccReads, SregReads, BraReads, NoneReads,
         LdReads, StReads, LdpReads

-----------------------------------------------------------------------------
(* Structs that a statement can have                                       *)

\* The registers, the flag and the immediate that the shape of an opcode leaves free.
FitsShape(opcode, d, a, b, f, v) ==
    /\ opcode \in Rrr => IF f = 0 THEN v = 0 ELSE b = 0
    /\ opcode \in Prr => d < PredRegisters /\ IF f = 0 THEN v = 0 ELSE b = 0
    /\ opcode \in Rr => b = 0 /\ IF f = 0 THEN v = 0 ELSE a = 0
    /\ opcode \in Acc => f = 0 /\ v = 0
    /\ opcode \in Sreg => a < SpecialRegisters /\ b = 0 /\ f = 0 /\ v = 0
    /\ opcode \in Bra => d = 0 /\ a = 0 /\ b = 0 /\ f = 0
    /\ opcode \in None => d = 0 /\ a = 0 /\ b = 0 /\ f = 0 /\ v = 0
    /\ opcode \in Ld => b = 0 /\ f = 1
    /\ opcode \in St => d = 0 /\ f = 1
    /\ opcode \in Ldp => a = 0 /\ b = 0 /\ f = 1

\* The opcode and the guard are ones that a struct may have.
Headed(s) ==
    /\ s.opcode \in Opcodes /\ s.present \in Flag /\ s.negate \in Flag /\ s.pred \in Nat
    /\ s.present = 0 => s.negate = 0 /\ s.pred = 0
    /\ ~(s.pred >= PredRegisters)

LEMMA MadeValid ==
    ASSUME NEW s, Headed(s), NEW d \in 0..GeneralRegisters - 1, NEW a \in 0..GeneralRegisters - 1,
           NEW b \in 0..GeneralRegisters - 1, NEW f \in Flag, NEW v \in 0..Immediates - 1
    PROVE  Valid(Made(s, d, a, b, f, v)) <=> FitsShape(s.opcode, d, a, b, f, v)
<1> DEFINE i == Made(s, d, a, b, f, v)
           op == s.opcode
<1>1. /\ i.opcode = op /\ i.present = s.present /\ i.negate = s.negate /\ i.pred = s.pred
      /\ i.dst = d /\ i.src0 = a /\ i.src1 = b /\ i.imm_flag = f /\ i.imm = v
  BY DEF Made
<1>2. /\ i["dst"] = d /\ i["src0"] = a /\ i["src1"] = b
  BY DEF Made
<1>3. /\ op \in Opcodes /\ op \in Nat /\ s.present \in Flag /\ s.negate \in Flag /\ s.pred \in Nat
      /\ s.present = 0 => s.negate = 0 /\ s.pred = 0
      /\ ~(s.pred >= PredRegisters)
  BY DEF Headed, Opcodes
<1>4. GeneralRegisters \in Nat /\ Immediates \in Nat /\ PredRegisters \in Nat
     /\ SpecialRegisters \in Nat
  BY WordAssumption
<1>5. i \in [Fields -> Nat]
  BY <1>3, <1>4 DEF Made, Fields, Flag
<1> HIDE DEF i
<1>6. i \in InstructionType
  BY <1>1, <1>3, <1>5 DEF InstructionType
<1>7. ~OutOfFields(i)
  BY <1>2, <1>4 DEF OutOfFields
<1>8. UnusedRegister(i) <=> \/ op \notin Use.dst /\ d # 0
                            \/ op \notin Use.src0 /\ a # 0
                            \/ op \notin Use.src1 /\ b # 0
  BY <1>1, <1>2 DEF UnusedRegister, Use
<1>9. Valid(i) <=> ~(\/ UnusedRegister(i) \/ ImmediateFlagMismatch(i) \/ UnusedOperand(i)
                     \/ (op \in Prr /\ d >= PredRegisters)
                     \/ (op \in Sreg /\ a >= SpecialRegisters))
  BY <1>1, <1>3, <1>6, <1>7 DEF Valid, Validate, GuardFieldsWithoutGuard
<1>10. ImmediateFlagMismatch(i) <=> \/ op \in ImmAlways /\ f = 0
                                    \/ op \notin ImmAlways \cup ImmOptional /\ f # 0
  BY <1>1 DEF ImmediateFlagMismatch
<1>11. UnusedOperand(i) <=> \/ op \in ImmOptional /\ f # 0 /\ (IF op \in Rr THEN a ELSE b) # 0
                            \/ op \notin ImmAlways \cup ImmRaw /\ f = 0 /\ v # 0
  BY <1>1 DEF UnusedOperand
<1> DEFINE Ok == ~(\/ op \notin Use.dst /\ d # 0
                   \/ op \notin Use.src0 /\ a # 0
                   \/ op \notin Use.src1 /\ b # 0
                   \/ op \in ImmAlways /\ f = 0
                   \/ op \notin ImmAlways \cup ImmOptional /\ f # 0
                   \/ op \in ImmOptional /\ f # 0 /\ (IF op \in Rr THEN a ELSE b) # 0
                   \/ op \notin ImmAlways \cup ImmRaw /\ f = 0 /\ v # 0
                   \/ (op \in Prr /\ ~(d < PredRegisters))
                   \/ (op \in Sreg /\ ~(a < SpecialRegisters)))
<1>12. Valid(i) <=> Ok
  <2>1. (d >= PredRegisters <=> ~(d < PredRegisters))
          /\ (a >= SpecialRegisters <=> ~(a < SpecialRegisters))
    BY <1>4
  <2> QED
    BY <1>8, <1>9, <1>10, <1>11, <2>1
<1>13. f = 0 \/ f = 1
  BY DEF Flag
<1>14. op \in Rrr \cup Rr \cup Acc \cup Prr \cup Sreg \cup Bra \cup None \cup Ld \cup St \cup Ldp
  BY <1>3, StepsAre
<1>15. /\ Rr \cap (Acc \cup Prr \cup Sreg \cup Bra \cup None \cup Ld \cup St \cup Ldp) = {}
       /\ Acc \cap (Prr \cup Sreg \cup Bra \cup None \cup Ld \cup St \cup Ldp) = {}
       /\ Prr \cap (Sreg \cup Bra \cup None \cup Ld \cup St \cup Ldp) = {}
       /\ Sreg \cap (Bra \cup None \cup Ld \cup St \cup Ldp) = {}
       /\ Bra \cap (None \cup Ld \cup St \cup Ldp) = {}
       /\ None \cap (Ld \cup St \cup Ldp) = {} /\ Ld \cap (St \cup Ldp) = {} /\ St \cap Ldp = {}
  BY DEF Rr, Acc, Prr, Sreg, Bra, None, Ld, St, Ldp
<1>16. op \in Rrr <=> op \notin Rr \cup Acc \cup Prr \cup Sreg \cup Bra \cup None \cup Ld
                                       \cup St \cup Ldp
  BY <1>3 DEF Rrr
<1>17. /\ op \in Use.dst <=> op \notin St \cup Bra \cup None
       /\ op \in Use.src0 <=> op \notin Bra \cup None \cup Ldp
       /\ op \in Use.src1 <=> op \in Rrr \cup Prr \cup Acc \cup St
  BY <1>3 DEF Use
<1>18. /\ op \in ImmOptional <=> op \in Rrr \cup Prr \cup Rr
       /\ op \in ImmAlways <=> op \in Ld \cup St \cup Ldp
       /\ op \in ImmRaw <=> op \in Bra
  BY DEF ImmOptional, ImmAlways, ImmRaw
<1> HIDE DEF op
<1>19. op \in Rrr => (Ok <=> FitsShape(op, d, a, b, f, v))
  BY <1>13, <1>15, <1>16, <1>17, <1>18 DEF FitsShape
<1>20. op \in Rr => (Ok <=> FitsShape(op, d, a, b, f, v))
  BY <1>13, <1>15, <1>16, <1>17, <1>18 DEF FitsShape
<1>21. op \in Acc => (Ok <=> FitsShape(op, d, a, b, f, v))
  BY <1>13, <1>15, <1>16, <1>17, <1>18 DEF FitsShape
<1>22. op \in Prr => (Ok <=> FitsShape(op, d, a, b, f, v))
  BY <1>13, <1>15, <1>16, <1>17, <1>18 DEF FitsShape
<1>23. op \in Sreg => (Ok <=> FitsShape(op, d, a, b, f, v))
  BY <1>13, <1>15, <1>16, <1>17, <1>18 DEF FitsShape
<1>24. op \in Bra => (Ok <=> FitsShape(op, d, a, b, f, v))
  BY <1>13, <1>15, <1>16, <1>17, <1>18 DEF FitsShape
<1>25. op \in None => (Ok <=> FitsShape(op, d, a, b, f, v))
  BY <1>13, <1>15, <1>16, <1>17, <1>18 DEF FitsShape
<1>26. op \in Ld => (Ok <=> FitsShape(op, d, a, b, f, v))
  BY <1>13, <1>15, <1>16, <1>17, <1>18 DEF FitsShape
<1>27. op \in St => (Ok <=> FitsShape(op, d, a, b, f, v))
  BY <1>13, <1>15, <1>16, <1>17, <1>18 DEF FitsShape
<1>28. op \in Ldp => (Ok <=> FitsShape(op, d, a, b, f, v))
  BY <1>13, <1>15, <1>16, <1>17, <1>18 DEF FitsShape
<1> QED
  BY <1>12, <1>14, <1>19, <1>20, <1>21, <1>22, <1>23, <1>24, <1>25, <1>26, <1>27, <1>28 DEF i, op


\* A statement that has a struct has the operands that its opcode takes.
LEMMA ParsedSized ==
    ASSUME NEW s \in InstructionLine, NEW params, Parsed(s, params) # {}
    PROVE  Sized(s)
<1>1. /\ ~(s.opcode \notin Opcodes \/ s.pred >= PredRegisters
           \/ Len(s.operands) # Len(Steps(s.opcode)))
  BY DEF Parsed
<1> QED
  BY <1>1 DEF Sized

\* Every operand that is read is in range, and the struct is one that encode accepts.
LEMMA ParsedMade ==
    ASSUME NEW s, Sized(s), NEW params, Len(params) \in Nat, DOMAIN params = 1..Len(params),
           NEW x \in Parsed(s, params)
    PROVE  \E d, a, b \in 0..GeneralRegisters - 1, f \in Flag, v \in 0..Immediates - 1 :
               /\ x = Made(s, d, a, b, f, v) /\ FitsShape(s.opcode, d, a, b, f, v)
               /\ s.opcode \in Bra => s.operands[1].form = "name" /\ v = NoReconv * Halves
               /\ s.opcode \in Ldp => v < Len(params)
<1> DEFINE o1 == s.operands[1]
           o2 == s.operands[2]
           o3 == s.operands[3]
           op == s.opcode
           G == 0..GeneralRegisters - 1
           V == 0..Immediates - 1
           Goal == \E d, a, b \in G, f \in Flag, v \in V :
                       /\ x = Made(s, d, a, b, f, v) /\ FitsShape(op, d, a, b, f, v)
                       /\ op \in Bra => o1.form = "name" /\ v = NoReconv * Halves
                       /\ op \in Ldp => v < Len(params)
<1>1. op \in Opcodes /\ s.operands \in Seq(OperandType) /\ Len(s.operands) = Len(Steps(op))
  BY DEF Sized, InstructionLine
<1>2. \A n \in 1..Len(s.operands) : s.operands[n] \in OperandType
  BY <1>1, ElementOfSeq
<1>3. /\ GeneralRegisters \in Nat \ {0} /\ PredRegisters \in 1..GeneralRegisters
      /\ SpecialRegisters \in 0..GeneralRegisters
  BY WordAssumption
<1>4. /\ 0 \in G /\ 0 \in V /\ 0 \in Flag /\ 1 \in Flag
  BY <1>3, HalfIs DEF Flag
<1>5. \A o \in OperandType : /\ \A r \in General(o) : r \in G
                             /\ \A r \in Index(o, "p", PredRegisters) : r \in G /\ r < PredRegisters
                             /\ \A r \in Index(o, "special", SpecialRegisters) :
                                    r \in G /\ r < SpecialRegisters
                             /\ \A r \in Immediate(o, op) : r \in V
                             /\ \A r \in Offset(o) : r \in V /\ o.base \in G
  <2> SUFFICES ASSUME NEW o \in OperandType
               PROVE  /\ \A r \in General(o) : r \in G
                      /\ \A r \in Index(o, "p", PredRegisters) : r \in G /\ r < PredRegisters
                      /\ \A r \in Index(o, "special", SpecialRegisters) :
                             r \in G /\ r < SpecialRegisters
                      /\ \A r \in Immediate(o, op) : r \in V
                      /\ \A r \in Offset(o) : r \in V /\ o.base \in G
    OBVIOUS
  <2>1. \A r \in General(o) : r \in G
    BY <1>3, IndexType DEF General
  <2>2. \A r \in Index(o, "p", PredRegisters) : r \in 0..PredRegisters - 1
    BY <1>3, IndexType
  <2>3. \A r \in Index(o, "special", SpecialRegisters) : r \in 0..SpecialRegisters - 1
    BY <1>3, IndexType
  <2> QED
    BY <1>3, <2>1, <2>2, <2>3, ImmediateType, OffsetType
<1>6. NoReconv * Halves \in V
  <2>1. NoReconv \in Nat /\ Halves \in Nat /\ Immediates = NoReconv * Halves + Halves
    BY HalfIs
  <2>2. NoReconv * Halves \in Nat /\ Halves > 0
    BY HalfIs
  <2> QED
    BY <2>1, <2>2
<1>7. \A k \in DOMAIN params : (k - 1) % Immediates \in V /\ (k - 1) % Immediates < Len(params)
  <2> SUFFICES ASSUME NEW k \in DOMAIN params
               PROVE  (k - 1) % Immediates \in V /\ (k - 1) % Immediates < Len(params)
    OBVIOUS
  <2>1. k - 1 \in Nat /\ k - 1 < Len(params) /\ Immediates \in Nat \ {0}
    BY HalfIs
  <2>2. \A n, m : n \in Nat /\ m \in Nat \ {0} => n % m \in 0..m - 1 /\ n % m <= n
    OBVIOUS
  <2>3. (k - 1) % Immediates \in 0..Immediates - 1 /\ (k - 1) % Immediates <= k - 1
    BY <2>1, <2>2
  <2> QED
    BY <2>1, <2>3
<1>8. op \in Rrr \cup Rr \cup Acc \cup Prr \cup Sreg \cup Bra \cup None \cup Ld \cup St \cup Ldp
  BY <1>1, StepsAre
<1>9. /\ Rr \cap (Acc \cup Prr \cup Sreg \cup Bra \cup None \cup Ld \cup St \cup Ldp) = {}
      /\ Acc \cap (Prr \cup Sreg \cup Bra \cup None \cup Ld \cup St \cup Ldp) = {}
      /\ Prr \cap (Sreg \cup Bra \cup None \cup Ld \cup St \cup Ldp) = {}
      /\ Sreg \cap (Bra \cup None \cup Ld \cup St \cup Ldp) = {}
      /\ Bra \cap (None \cup Ld \cup St \cup Ldp) = {}
      /\ None \cap (Ld \cup St \cup Ldp) = {} /\ Ld \cap (St \cup Ldp) = {} /\ St \cap Ldp = {}
  BY DEF Rr, Acc, Prr, Sreg, Bra, None, Ld, St, Ldp
<1>10. op \in Rrr <=> op \notin Rr \cup Acc \cup Prr \cup Sreg \cup Bra \cup None \cup Ld
                                       \cup St \cup Ldp
  BY <1>1 DEF Rrr
<1>11. ASSUME NEW d \in G, NEW a \in G, NEW b \in G, NEW f \in Flag, NEW v \in V,
              x = Made(s, d, a, b, f, v), FitsShape(op, d, a, b, f, v),
              op \in Bra => o1.form = "name" /\ v = NoReconv * Halves,
              op \in Ldp => v < Len(params)
       PROVE  Goal
  BY <1>11
<1> HIDE DEF Goal
<1>12. ASSUME op \in Rrr PROVE Goal
  <2>1. Len(s.operands) = 3 /\ o1 \in OperandType /\ o2 \in OperandType /\ o3 \in OperandType
    <3>1. Len(s.operands) = 3
      BY <1>1, <1>12, StepsAre
    <3> QED
      BY <1>2, <3>1
  <2>2. \/ \E d \in General(o1), a \in General(o2), b \in General(o3) : x = Made(s, d, a, b, 0, 0)
        \/ \E d \in General(o1), a \in General(o2), v \in Immediate(o3, op) :
               x = Made(s, d, a, 0, 1, v)
    BY <1>12, ParsedIs DEF RrrReads
  <2>3. ASSUME NEW d \in General(o1), NEW a \in General(o2), NEW b \in General(o3),
               x = Made(s, d, a, b, 0, 0)
        PROVE  Goal
    <3>1. /\ d \in G /\ a \in G /\ b \in G /\ 0 \in Flag /\ 0 \in V
          /\ op \in Ldp => 0 < Len(params)
      BY <1>4, <1>5, <1>6, <1>7, <1>9, <1>10, <1>12, <2>1, <2>3
    <3>2. FitsShape(op, d, a, b, 0, 0)
      BY <1>5, <1>9, <1>10, <1>12, <2>1, <2>3 DEF FitsShape
    <3>3. op \in Bra => o1.form = "name" /\ 0 = NoReconv * Halves
      BY <1>9, <1>10, <1>12, <2>3
    <3> QED
      BY <1>11, <2>3, <3>1, <3>2, <3>3
  <2>4. ASSUME NEW d \in General(o1), NEW a \in General(o2), NEW v \in Immediate(o3, op),
               x = Made(s, d, a, 0, 1, v)
        PROVE  Goal
    <3>1. /\ d \in G /\ a \in G /\ 0 \in G /\ 1 \in Flag /\ v \in V
          /\ op \in Ldp => v < Len(params)
      BY <1>4, <1>5, <1>6, <1>7, <1>9, <1>10, <1>12, <2>1, <2>4
    <3>2. FitsShape(op, d, a, 0, 1, v)
      BY <1>5, <1>9, <1>10, <1>12, <2>1, <2>4 DEF FitsShape
    <3>3. op \in Bra => o1.form = "name" /\ v = NoReconv * Halves
      BY <1>9, <1>10, <1>12, <2>4
    <3> QED
      BY <1>11, <2>4, <3>1, <3>2, <3>3
  <2> QED
    BY <2>2, <2>3, <2>4
<1>13. ASSUME op \in Prr PROVE Goal
  <2>1. Len(s.operands) = 3 /\ o1 \in OperandType /\ o2 \in OperandType /\ o3 \in OperandType
    <3>1. Len(s.operands) = 3
      BY <1>1, <1>13, StepsAre
    <3> QED
      BY <1>2, <3>1
  <2>2. \/ \E d \in Index(o1, "p", PredRegisters), a \in General(o2), b \in General(o3) :
               x = Made(s, d, a, b, 0, 0)
        \/ \E d \in Index(o1, "p", PredRegisters), a \in General(o2), v \in Immediate(o3, op) :
               x = Made(s, d, a, 0, 1, v)
    BY <1>13, ParsedIs DEF PrrReads
  <2>3. ASSUME NEW d \in Index(o1, "p", PredRegisters), NEW a \in General(o2),
               NEW b \in General(o3),
               x = Made(s, d, a, b, 0, 0)
        PROVE  Goal
    <3>1. /\ d \in G /\ a \in G /\ b \in G /\ 0 \in Flag /\ 0 \in V
          /\ op \in Ldp => 0 < Len(params)
      BY <1>4, <1>5, <1>6, <1>7, <1>9, <1>10, <1>13, <2>1, <2>3
    <3>2. FitsShape(op, d, a, b, 0, 0)
      BY <1>5, <1>9, <1>10, <1>13, <2>1, <2>3 DEF FitsShape
    <3>3. op \in Bra => o1.form = "name" /\ 0 = NoReconv * Halves
      BY <1>9, <1>10, <1>13, <2>3
    <3> QED
      BY <1>11, <2>3, <3>1, <3>2, <3>3
  <2>4. ASSUME NEW d \in Index(o1, "p", PredRegisters), NEW a \in General(o2),
               NEW v \in Immediate(o3, op),
               x = Made(s, d, a, 0, 1, v)
        PROVE  Goal
    <3>1. /\ d \in G /\ a \in G /\ 0 \in G /\ 1 \in Flag /\ v \in V
          /\ op \in Ldp => v < Len(params)
      BY <1>4, <1>5, <1>6, <1>7, <1>9, <1>10, <1>13, <2>1, <2>4
    <3>2. FitsShape(op, d, a, 0, 1, v)
      BY <1>5, <1>9, <1>10, <1>13, <2>1, <2>4 DEF FitsShape
    <3>3. op \in Bra => o1.form = "name" /\ v = NoReconv * Halves
      BY <1>9, <1>10, <1>13, <2>4
    <3> QED
      BY <1>11, <2>4, <3>1, <3>2, <3>3
  <2> QED
    BY <2>2, <2>3, <2>4
<1>14. ASSUME op \in Rr PROVE Goal
  <2>1. Len(s.operands) = 2 /\ o1 \in OperandType /\ o2 \in OperandType
    <3>1. Len(s.operands) = 2
      BY <1>1, <1>14, StepsAre
    <3> QED
      BY <1>2, <3>1
  <2>2. \/ \E d \in General(o1), a \in General(o2) : x = Made(s, d, a, 0, 0, 0)
        \/ \E d \in General(o1), v \in Immediate(o2, op) : x = Made(s, d, 0, 0, 1, v)
    BY <1>14, ParsedIs DEF RrReads
  <2>3. ASSUME NEW d \in General(o1), NEW a \in General(o2),
               x = Made(s, d, a, 0, 0, 0)
        PROVE  Goal
    <3>1. /\ d \in G /\ a \in G /\ 0 \in G /\ 0 \in Flag /\ 0 \in V
          /\ op \in Ldp => 0 < Len(params)
      BY <1>4, <1>5, <1>6, <1>7, <1>9, <1>10, <1>14, <2>1, <2>3
    <3>2. FitsShape(op, d, a, 0, 0, 0)
      BY <1>5, <1>9, <1>10, <1>14, <2>1, <2>3 DEF FitsShape
    <3>3. op \in Bra => o1.form = "name" /\ 0 = NoReconv * Halves
      BY <1>9, <1>10, <1>14, <2>3
    <3> QED
      BY <1>11, <2>3, <3>1, <3>2, <3>3
  <2>4. ASSUME NEW d \in General(o1), NEW v \in Immediate(o2, op),
               x = Made(s, d, 0, 0, 1, v)
        PROVE  Goal
    <3>1. /\ d \in G /\ 0 \in G /\ 0 \in G /\ 1 \in Flag /\ v \in V
          /\ op \in Ldp => v < Len(params)
      BY <1>4, <1>5, <1>6, <1>7, <1>9, <1>10, <1>14, <2>1, <2>4
    <3>2. FitsShape(op, d, 0, 0, 1, v)
      BY <1>5, <1>9, <1>10, <1>14, <2>1, <2>4 DEF FitsShape
    <3>3. op \in Bra => o1.form = "name" /\ v = NoReconv * Halves
      BY <1>9, <1>10, <1>14, <2>4
    <3> QED
      BY <1>11, <2>4, <3>1, <3>2, <3>3
  <2> QED
    BY <2>2, <2>3, <2>4
<1>15. ASSUME op \in Acc PROVE Goal
  <2>1. Len(s.operands) = 3 /\ o1 \in OperandType /\ o2 \in OperandType /\ o3 \in OperandType
    <3>1. Len(s.operands) = 3
      BY <1>1, <1>15, StepsAre
    <3> QED
      BY <1>2, <3>1
  <2>2. \E d \in General(o1), a \in General(o2), b \in General(o3) : x = Made(s, d, a, b, 0, 0)
    BY <1>15, ParsedIs DEF AccReads
  <2>3. ASSUME NEW d \in General(o1), NEW a \in General(o2), NEW b \in General(o3),
               x = Made(s, d, a, b, 0, 0)
        PROVE  Goal
    <3>1. /\ d \in G /\ a \in G /\ b \in G /\ 0 \in Flag /\ 0 \in V
          /\ op \in Ldp => 0 < Len(params)
      BY <1>4, <1>5, <1>6, <1>7, <1>9, <1>10, <1>15, <2>1, <2>3
    <3>2. FitsShape(op, d, a, b, 0, 0)
      BY <1>5, <1>9, <1>10, <1>15, <2>1, <2>3 DEF FitsShape
    <3>3. op \in Bra => o1.form = "name" /\ 0 = NoReconv * Halves
      BY <1>9, <1>10, <1>15, <2>3
    <3> QED
      BY <1>11, <2>3, <3>1, <3>2, <3>3
  <2> QED
    BY <2>2, <2>3
<1>16. ASSUME op \in Sreg PROVE Goal
  <2>1. Len(s.operands) = 2 /\ o1 \in OperandType /\ o2 \in OperandType
    <3>1. Len(s.operands) = 2
      BY <1>1, <1>16, StepsAre
    <3> QED
      BY <1>2, <3>1
  <2>2. \E d \in General(o1), a \in Index(o2, "special", SpecialRegisters) :
            x = Made(s, d, a, 0, 0, 0)
    BY <1>16, ParsedIs DEF SregReads
  <2>3. ASSUME NEW d \in General(o1), NEW a \in Index(o2, "special", SpecialRegisters),
               x = Made(s, d, a, 0, 0, 0)
        PROVE  Goal
    <3>1. /\ d \in G /\ a \in G /\ 0 \in G /\ 0 \in Flag /\ 0 \in V
          /\ op \in Ldp => 0 < Len(params)
      BY <1>4, <1>5, <1>6, <1>7, <1>9, <1>10, <1>16, <2>1, <2>3
    <3>2. FitsShape(op, d, a, 0, 0, 0)
      BY <1>5, <1>9, <1>10, <1>16, <2>1, <2>3 DEF FitsShape
    <3>3. op \in Bra => o1.form = "name" /\ 0 = NoReconv * Halves
      BY <1>9, <1>10, <1>16, <2>3
    <3> QED
      BY <1>11, <2>3, <3>1, <3>2, <3>3
  <2> QED
    BY <2>2, <2>3
<1>17. ASSUME op \in Bra PROVE Goal
  <2>1. Len(s.operands) = 1 /\ o1 \in OperandType
    <3>1. Len(s.operands) = 1
      BY <1>1, <1>17, StepsAre
    <3> QED
      BY <1>2, <3>1
  <2>2. x = Made(s, 0, 0, 0, 0, NoReconv * Halves) /\ o1.form = "name"
    BY <1>17, ParsedIs DEF BraReads
  <2>3. ASSUME x = Made(s, 0, 0, 0, 0, NoReconv * Halves), o1.form = "name"
        PROVE  Goal
    <3>1. /\ 0 \in G /\ 0 \in G /\ 0 \in G /\ 0 \in Flag /\ NoReconv * Halves \in V
          /\ op \in Ldp => NoReconv * Halves < Len(params)
      BY <1>4, <1>5, <1>6, <1>7, <1>9, <1>10, <1>17, <2>1, <2>3
    <3>2. FitsShape(op, 0, 0, 0, 0, NoReconv * Halves)
      BY <1>5, <1>9, <1>10, <1>17, <2>1, <2>3 DEF FitsShape
    <3>3. op \in Bra => o1.form = "name" /\ NoReconv * Halves = NoReconv * Halves
      BY <1>9, <1>10, <1>17, <2>3
    <3> QED
      BY <1>11, <2>3, <3>1, <3>2, <3>3
  <2> QED
    BY <2>2, <2>3
<1>18. ASSUME op \in None PROVE Goal
  <2>1. Len(s.operands) = 0
    <3>1. Len(s.operands) = 0
      BY <1>1, <1>18, StepsAre
    <3> QED
      BY <1>2, <3>1
  <2>2. x = Made(s, 0, 0, 0, 0, 0)
    BY <1>18, ParsedIs DEF NoneReads
  <2>3. ASSUME x = Made(s, 0, 0, 0, 0, 0)
        PROVE  Goal
    <3>1. /\ 0 \in G /\ 0 \in G /\ 0 \in G /\ 0 \in Flag /\ 0 \in V
          /\ op \in Ldp => 0 < Len(params)
      BY <1>4, <1>5, <1>6, <1>7, <1>9, <1>10, <1>18, <2>1, <2>3
    <3>2. FitsShape(op, 0, 0, 0, 0, 0)
      BY <1>5, <1>9, <1>10, <1>18, <2>1, <2>3 DEF FitsShape
    <3>3. op \in Bra => o1.form = "name" /\ 0 = NoReconv * Halves
      BY <1>9, <1>10, <1>18, <2>3
    <3> QED
      BY <1>11, <2>3, <3>1, <3>2, <3>3
  <2> QED
    BY <2>2, <2>3
<1>19. ASSUME op \in Ld PROVE Goal
  <2>1. Len(s.operands) = 2 /\ o1 \in OperandType /\ o2 \in OperandType
    <3>1. Len(s.operands) = 2
      BY <1>1, <1>19, StepsAre
    <3> QED
      BY <1>2, <3>1
  <2>2. \E d \in General(o1), v \in Offset(o2) : x = Made(s, d, o2.base, 0, 1, v)
    BY <1>19, ParsedIs DEF LdReads
  <2>3. ASSUME NEW d \in General(o1), NEW v \in Offset(o2),
               x = Made(s, d, o2.base, 0, 1, v)
        PROVE  Goal
    <3>1. /\ d \in G /\ o2.base \in G /\ 0 \in G /\ 1 \in Flag /\ v \in V
          /\ op \in Ldp => v < Len(params)
      BY <1>4, <1>5, <1>6, <1>7, <1>9, <1>10, <1>19, <2>1, <2>3
    <3>2. FitsShape(op, d, o2.base, 0, 1, v)
      BY <1>5, <1>9, <1>10, <1>19, <2>1, <2>3 DEF FitsShape
    <3>3. op \in Bra => o1.form = "name" /\ v = NoReconv * Halves
      BY <1>9, <1>10, <1>19, <2>3
    <3> QED
      BY <1>11, <2>3, <3>1, <3>2, <3>3
  <2> QED
    BY <2>2, <2>3
<1>20. ASSUME op \in St PROVE Goal
  <2>1. Len(s.operands) = 2 /\ o1 \in OperandType /\ o2 \in OperandType
    <3>1. Len(s.operands) = 2
      BY <1>1, <1>20, StepsAre
    <3> QED
      BY <1>2, <3>1
  <2>2. \E b \in General(o2), v \in Offset(o1) : x = Made(s, 0, o1.base, b, 1, v)
    BY <1>20, ParsedIs DEF StReads
  <2>3. ASSUME NEW b \in General(o2), NEW v \in Offset(o1),
               x = Made(s, 0, o1.base, b, 1, v)
        PROVE  Goal
    <3>1. /\ 0 \in G /\ o1.base \in G /\ b \in G /\ 1 \in Flag /\ v \in V
          /\ op \in Ldp => v < Len(params)
      BY <1>4, <1>5, <1>6, <1>7, <1>9, <1>10, <1>20, <2>1, <2>3
    <3>2. FitsShape(op, 0, o1.base, b, 1, v)
      BY <1>5, <1>9, <1>10, <1>20, <2>1, <2>3 DEF FitsShape
    <3>3. op \in Bra => o1.form = "name" /\ v = NoReconv * Halves
      BY <1>9, <1>10, <1>20, <2>3
    <3> QED
      BY <1>11, <2>3, <3>1, <3>2, <3>3
  <2> QED
    BY <2>2, <2>3
<1>21. ASSUME op \in Ldp PROVE Goal
  <2>1. Len(s.operands) = 2 /\ o1 \in OperandType /\ o2 \in OperandType
    <3>1. Len(s.operands) = 2
      BY <1>1, <1>21, StepsAre
    <3> QED
      BY <1>2, <3>1
  <2>2. \E d \in General(o1), k \in DOMAIN params : x = Made(s, d, 0, 0, 1, (k - 1) % Immediates)
    BY <1>21, ParsedIs DEF LdpReads
  <2>3. ASSUME NEW d \in General(o1), NEW k \in DOMAIN params,
               x = Made(s, d, 0, 0, 1, (k - 1) % Immediates)
        PROVE  Goal
    <3>1. /\ d \in G /\ 0 \in G /\ 0 \in G /\ 1 \in Flag /\ (k - 1) % Immediates \in V
          /\ op \in Ldp => (k - 1) % Immediates < Len(params)
      BY <1>4, <1>5, <1>6, <1>7, <1>9, <1>10, <1>21, <2>1, <2>3
    <3>2. FitsShape(op, d, 0, 0, 1, (k - 1) % Immediates)
      BY <1>5, <1>9, <1>10, <1>21, <2>1, <2>3 DEF FitsShape
    <3>3. op \in Bra => o1.form = "name" /\ (k - 1) % Immediates = NoReconv * Halves
      BY <1>9, <1>10, <1>21, <2>3
    <3> QED
      BY <1>11, <2>3, <3>1, <3>2, <3>3
  <2> QED
    BY <2>2, <2>3
<1> QED
  BY <1>8, <1>12, <1>13, <1>14, <1>15, <1>16, <1>17, <1>18, <1>19, <1>20, <1>21 DEF Goal

LEMMA ParsedWell ==
    ASSUME NEW s, Sized(s), NEW params, Len(params) \in Nat, DOMAIN params = 1..Len(params),
           NEW x \in Parsed(s, params)
    PROVE  /\ Valid(x) /\ x.opcode = s.opcode /\ x.present = s.present
           /\ x.negate = s.negate /\ x.pred = s.pred
           /\ s.opcode \in Bra => s.operands[1].form = "name" /\ x.imm = NoReconv * Halves
           /\ s.opcode \in Ldp => x.imm < Len(params)
<1>1. PICK d \in 0..GeneralRegisters - 1, a \in 0..GeneralRegisters - 1,
           b \in 0..GeneralRegisters - 1, f \in Flag, v \in 0..Immediates - 1 :
               /\ x = Made(s, d, a, b, f, v) /\ FitsShape(s.opcode, d, a, b, f, v)
               /\ s.opcode \in Bra => s.operands[1].form = "name" /\ v = NoReconv * Halves
               /\ s.opcode \in Ldp => v < Len(params)
  BY ParsedMade
<1>2. Valid(x)
  <2>1. Headed(s)
    BY DEF Sized, InstructionLine, Headed
  <2> QED
    BY <1>1, <2>1, MadeValid
<1>3. /\ x.opcode = s.opcode /\ x.present = s.present /\ x.negate = s.negate /\ x.pred = s.pred
      /\ x.imm = v
  BY <1>1 DEF Made
<1> QED
  BY <1>1, <1>2, <1>3

-----------------------------------------------------------------------------
(* Printing and reading                                                    *)

\* What a printed operand reads as: the values r of one form and the numbers n, if any.
ReadsAs(o, opcode, form, r, n) ==
    /\ o \in OperandType
    /\ \A x : x \in General(o) <=> form = "r" /\ x = r
    /\ \A x : x \in Index(o, "p", PredRegisters) <=> form = "p" /\ x = r
    /\ \A x : x \in Index(o, "special", SpecialRegisters) <=> form = "special" /\ x = r
    /\ \A x : x \in Immediate(o, opcode) <=> form = "immediate" /\ x = n
    /\ \A x : x \in Offset(o) <=> form = "address" /\ x = n
    /\ form = "address" => o.base = r

LEMMA PrintedReads ==
    ASSUME NEW opcode,
           NEW form \in {"r", "p", "special"}, NEW r \in Nat,
           r < (CASE form = "r" -> GeneralRegisters [] form = "p" -> PredRegisters
                  [] form = "special" -> SpecialRegisters)
    PROVE  ReadsAs(Printed(form, r), opcode, form, r, 0)
<1> DEFINE o == Printed(form, r)
<1>1. o \in [form : {"r", "p", "special"}, value : Nat] /\ o.form = form /\ o.value = r
  BY DEF Printed
<1>2. o \in OperandType
  BY <1>1 DEF OperandType
<1> HIDE DEF o
<1>3. /\ GeneralRegisters \in Nat /\ PredRegisters \in Nat /\ SpecialRegisters \in Nat
  BY WordAssumption
<1>4. General(o) = IF o.form = "r" /\ o.value < GeneralRegisters THEN {o.value} ELSE {}
  BY <1>2, <1>3, IndexIs DEF General
<1>5. Index(o, "p", PredRegisters) =
          IF o.form = "p" /\ o.value < PredRegisters THEN {o.value} ELSE {}
  BY <1>2, <1>3, IndexIs
<1>6. Index(o, "special", SpecialRegisters) =
          IF o.form = "special" /\ o.value < SpecialRegisters THEN {o.value} ELSE {}
  BY <1>2, <1>3, IndexIs
<1>7. Immediate(o, opcode) = {} /\ Offset(o) = {}
  BY <1>1 DEF Immediate, Offset
<1> QED
  BY <1>1, <1>2, <1>4, <1>5, <1>6, <1>7 DEF ReadsAs, o

LEMMA PrintedImmediateReads ==
    ASSUME NEW i, i.imm \in 0..Immediates - 1
    PROVE  ReadsAs(PrintedImmediate(i), i.opcode, "immediate", 0, i.imm)
<1> DEFINE o == PrintedImmediate(i)
           v == i.imm
<1>1. v \in Nat /\ v < Immediates /\ Half \in Nat \ {0} /\ Immediates = 2 * Half
  BY HalfIs
<1>2. v % Half \in 0..Half - 1 /\ (v >= Half => v % Half = v - Half) /\ (v < Half => v % Half = v)
  <2>1. v >= Half => v - Half \in 0..Half - 1 /\ v = 1 * Half + (v - Half)
    BY <1>1
  <2>2. v < Half => v \in 0..Half - 1 /\ v = 0 * Half + v
    BY <1>1
  <2>3. v % Half \in 0..Half - 1
    BY <1>1
  <2>4. v >= Half => (1 * Half + (v - Half)) % Half = v - Half
    BY <1>1, <2>1, DivUnique
  <2>5. v < Half => (0 * Half + v) % Half = v
    BY <1>1, <2>2, DivUnique
  <2> QED
    BY <2>1, <2>2, <2>3, <2>4, <2>5
<1>3. v < Immediates => v % Immediates = v
  <2>1. v \in 0..Immediates - 1 /\ 0 * Immediates + v = v /\ Immediates \in Nat \ {0} /\ 0 \in Nat
    BY <1>1
  <2> QED
    BY <2>1, DivUnique
<1>4. PrintsFloats \subseteq AcceptsFloats
  BY DEF AcceptsFloats
<1> HIDE DEF o, v
<1>5. CASE i.opcode \in PrintsFloats /\ v % Half \notin NonFinite
  <2> DEFINE neg == v >= Half
             low == v % Half
  <2>1. o = [form |-> "float", negative |-> neg, value |-> low]
    BY <1>5 DEF PrintedImmediate, o, v
  <2>2. /\ o \in [form : {"float"}, negative : BOOLEAN, value : 0..Half - 1]
        /\ o.form = "float" /\ (o.negative <=> v >= Half) /\ o.value = v % Half
    <3>1. neg \in BOOLEAN /\ low \in 0..Half - 1
      BY <1>2
    <3> HIDE DEF neg, low
    <3>2. /\ o \in [form : {"float"}, negative : BOOLEAN, value : 0..Half - 1]
          /\ o.form = "float" /\ o.negative = neg /\ o.value = low
      BY <2>1, <3>1
    <3> QED
      BY <3>2 DEF neg, low
  <2>3. Immediate(o, i.opcode) = {IF o.negative THEN o.value + Half ELSE o.value}
    BY <1>4, <1>5, <2>2 DEF Immediate
  <2>4. (IF o.negative THEN o.value + Half ELSE o.value) = v
    BY <1>1, <1>2, <2>2
  <2>5. o \in OperandType
    BY <2>2 DEF OperandType
  <2>6. \A form \in {"r", "p", "special"} : \A count : Index(o, form, count) = {}
    BY <2>2 DEF Index
  <2>7. Offset(o) = {}
    BY <2>2 DEF Offset
  <2> QED
    BY <2>3, <2>4, <2>5, <2>6, <2>7 DEF ReadsAs, General, o, v
<1>6. CASE ~(i.opcode \in PrintsFloats /\ v % Half \notin NonFinite)
  <2> DEFINE neg == i.opcode \notin AcceptsFloats /\ v >= Half
  <2>1. o = [form |-> "int", negative |-> neg, value |-> IF neg THEN Immediates - v ELSE v]
    BY <1>6 DEF PrintedImmediate, o, v
  <2>2. (IF neg THEN Immediates - v ELSE v) \in Nat
    BY <1>1
  <2>3. /\ o \in [form : {"int"}, negative : BOOLEAN, value : Nat]
        /\ o.form = "int" /\ (o.negative <=> neg) /\ o.value = IF neg THEN Immediates - v ELSE v
    BY <2>1, <2>2
  <2>4. o.value <= (IF o.negative THEN Half ELSE Immediates - 1)
    BY <1>1, <2>3
  <2>5. Immediate(o, i.opcode) =
            {IF o.negative THEN (Immediates - o.value) % Immediates ELSE o.value}
    BY <2>3, <2>4 DEF Immediate
  <2>6. o.negative => Immediates - o.value = v
    BY <1>1, <2>3
  <2>7. (IF o.negative THEN (Immediates - o.value) % Immediates ELSE o.value) = v
    BY <1>1, <1>3, <2>3, <2>6
  <2>8. o \in OperandType
    BY <2>3 DEF OperandType
  <2>9. \A form \in {"r", "p", "special"} : \A count : Index(o, form, count) = {}
    BY <2>3 DEF Index
  <2>10. Offset(o) = {}
    BY <2>3 DEF Offset
  <2> QED
    BY <2>5, <2>7, <2>8, <2>9, <2>10 DEF ReadsAs, General, o, v
<1> QED
  BY <1>5, <1>6

LEMMA PrintedAddressReads ==
    ASSUME NEW i, NEW opcode, i.imm \in 0..Immediates - 1, i.src0 \in 0..GeneralRegisters - 1
    PROVE  ReadsAs(PrintedAddress(i), opcode, "address", i.src0, i.imm)
<1> DEFINE o == PrintedAddress(i)
           v == i.imm
           neg == v >= Half
<1>1. v \in Nat /\ v < Immediates /\ Half \in Nat \ {0} /\ Immediates = 2 * Half
      /\ GeneralRegisters \in Nat
  BY HalfIs, WordAssumption
<1>2. v % Immediates = v
  <2>1. v \in 0..Immediates - 1 /\ 0 * Immediates + v = v /\ Immediates \in Nat \ {0} /\ 0 \in Nat
    BY <1>1
  <2> QED
    BY <2>1, DivUnique
<1>3. o = [form |-> "address", base |-> i.src0, negative |-> neg,
           value |-> IF neg THEN Immediates - v ELSE v]
  BY DEF PrintedAddress
<1>4. (IF neg THEN Immediates - v ELSE v) \in Nat /\ i.src0 \in Nat
  BY <1>1
<1> HIDE DEF o, v
<1>5. /\ o \in [form : {"address"}, base : Nat, negative : BOOLEAN, value : Nat]
      /\ o.form = "address" /\ o.base = i.src0 /\ (o.negative <=> neg)
      /\ o.value = IF neg THEN Immediates - v ELSE v
  <2> DEFINE magnitude == IF neg THEN Immediates - v ELSE v
  <2>1. neg \in BOOLEAN /\ magnitude \in Nat
    BY <1>4
  <2>2. o = [form |-> "address", base |-> i.src0, negative |-> neg, value |-> magnitude]
    BY <1>3
  <2> HIDE DEF neg, magnitude
  <2>3. /\ o \in [form : {"address"}, base : Nat, negative : BOOLEAN, value : Nat]
        /\ o.form = "address" /\ o.base = i.src0 /\ o.negative = neg /\ o.value = magnitude
    BY <1>4, <2>1, <2>2
  <2> QED
    BY <2>3 DEF neg, magnitude
<1>6. ~(o.value >= Immediates) /\ ~(o.base >= GeneralRegisters)
  BY <1>1, <1>5
<1>7. Offset(o) = {IF o.negative THEN (Immediates - o.value) % Immediates ELSE o.value}
  BY <1>5, <1>6 DEF Offset
<1>8. o.negative => Immediates - o.value = v
  BY <1>1, <1>5
<1>9. (IF o.negative THEN (Immediates - o.value) % Immediates ELSE o.value) = v
  BY <1>2, <1>5, <1>8
<1>10. o \in OperandType
  BY <1>5 DEF OperandType
<1>11. \A form \in {"r", "p", "special"} : \A count : Index(o, form, count) = {}
  BY <1>5 DEF Index
<1>12. Immediate(o, opcode) = {}
  BY <1>5 DEF Immediate
<1> QED
  BY <1>5, <1>7, <1>9, <1>10, <1>11, <1>12 DEF ReadsAs, General, o, v

\* The statement that shows a struct, and the struct that it reads as: after bra the
\* target is a label, which is resolved later.
Distinct(params) == \A j, k \in DOMAIN params : params[j] = params[k] => j = k
CanPrint(i, names, params) ==
    /\ Valid(i) /\ params \in Seq(Names) /\ Distinct(params)
    /\ i.opcode \in Bra => names[BranchTarget(i)] \in Names
    /\ i.opcode \in Ldp => i.imm < Len(params)
PrintedStatement(i, names, params) ==
    [kind |-> "instruction", opcode |-> i.opcode, present |-> i.present, negate |-> i.negate,
     pred |-> i.pred, operands |-> Operands(i, names, params)]
ReadBack(i) == IF i.opcode \in Bra THEN [i EXCEPT !.imm = NoReconv * Halves] ELSE i

\* An operand sequence of a shape is what the disassembler prints.
LEMMA OperandsAre ==
    ASSUME NEW i, i.opcode \in Opcodes, NEW names, NEW params
    PROVE  LET op == i.opcode
               immediateOr(r) == IF i.imm_flag = 1 THEN PrintedImmediate(i) ELSE Printed("r", r)
               dst == Printed("r", i.dst)
               src0 == Printed("r", i.src0)
               src1 == Printed("r", i.src1)
               Is(ops) == Operands(i, names, params) = ops
           IN  /\ op \in Rrr => Is(<<dst, src0, immediateOr(i.src1)>>)
               /\ op \in Prr => Is(<<Printed("p", i.dst), src0, immediateOr(i.src1)>>)
               /\ op \in Rr => Is(<<dst, immediateOr(i.src0)>>)
               /\ op \in Acc => Is(<<dst, src0, src1>>)
               /\ op \in Sreg => Is(<<dst, Printed("special", i.src0)>>)
               /\ op \in Bra => Is(<<[form |-> "name", name |-> names[BranchTarget(i)]]>>)
               /\ op \in None => Is(<<>>)
               /\ op \in Ld => Is(<<dst, PrintedAddress(i)>>)
               /\ op \in St => Is(<<PrintedAddress(i), src1>>)
               /\ op \in Ldp => Is(<<dst, [form |-> "param", name |-> params[i.imm + 1]]>>)
<1> DEFINE op == i.opcode
<1>1. /\ Rr \cap (Acc \cup Prr \cup Sreg \cup Bra \cup None \cup Ld \cup St \cup Ldp) = {}
      /\ Acc \cap (Prr \cup Sreg \cup Bra \cup None \cup Ld \cup St \cup Ldp) = {}
      /\ Prr \cap (Sreg \cup Bra \cup None \cup Ld \cup St \cup Ldp) = {}
      /\ Sreg \cap (Bra \cup None \cup Ld \cup St \cup Ldp) = {}
      /\ Bra \cap (None \cup Ld \cup St \cup Ldp) = {}
      /\ None \cap (Ld \cup St \cup Ldp) = {} /\ Ld \cap (St \cup Ldp) = {} /\ St \cap Ldp = {}
  BY DEF Rr, Acc, Prr, Sreg, Bra, None, Ld, St, Ldp
<1>2. op \in Rrr <=> op \notin Rr \cup Acc \cup Prr \cup Sreg \cup Bra \cup None \cup Ld
                                       \cup St \cup Ldp
  BY DEF Rrr
<1> QED
  BY <1>1, <1>2 DEF Operands

LEMMA Reparse ==
    ASSUME NEW i, NEW names, NEW params, CanPrint(i, names, params)
    PROVE  LET s == PrintedStatement(i, names, params)
           IN  /\ s \in InstructionLine
               /\ \A x : x \in Parsed(s, params) <=> x = ReadBack(i)
               /\ i.opcode \in Bra => s.operands[1].name = names[BranchTarget(i)]
<1> DEFINE s == PrintedStatement(i, names, params)
           op == i.opcode
           d == i.dst
           a == i.src0
           b == i.src1
           f == i.imm_flag
           v == i.imm
           G == 0..GeneralRegisters - 1
           V == 0..Immediates - 1
           Goal == /\ s \in InstructionLine /\ \A x : x \in Parsed(s, params) <=> x = ReadBack(i)
                   /\ op \in Bra => s.operands[1].name = names[BranchTarget(i)]
<1>1. Valid(i) /\ i \in [Fields -> Nat]
  BY DEF CanPrint, Valid, InstructionType
<1>2. d \in G /\ a \in G /\ b \in G /\ f \in Flag /\ v \in V
  <2>1. \A g \in Fields : i[g] \in 0..Size[g] - 1
    BY <1>1, ValidFits
  <2>2. /\ i["dst"] \in 0..Size["dst"] - 1 /\ i["src0"] \in 0..Size["src0"] - 1
        /\ i["src1"] \in 0..Size["src1"] - 1
    BY <2>1 DEF Fields
  <2>3. /\ Size["dst"] = GeneralRegisters /\ Size["src0"] = GeneralRegisters
        /\ Size["src1"] = GeneralRegisters
    BY DEF Size
  <2> QED
    BY <1>1, <2>2, <2>3 DEF Valid, InstructionType
<1>3. Headed(i)
  <2>1. i \in InstructionType /\ i.opcode \in Opcodes /\ ~GuardFieldsWithoutGuard(i)
        /\ ~(i.pred >= PredRegisters)
    BY <1>1 DEF Valid, Validate
  <2>2. i.pred \in Nat
    BY <1>1 DEF Fields
  <2> QED
    BY <2>1, <2>2 DEF Headed, InstructionType, GuardFieldsWithoutGuard
<1>4. i = Made(i, d, a, b, f, v)
  BY <1>1 DEF Made, Fields
<1>5. FitsShape(op, d, a, b, f, v)
  BY <1>1, <1>2, <1>3, <1>4, MadeValid
<1>6. /\ s.kind = "instruction" /\ s.opcode = op /\ s.present = i.present /\ s.negate = i.negate
      /\ s.pred = i.pred /\ s.operands = Operands(i, names, params)
  BY DEF PrintedStatement
<1>7. \A c, e, g, h, w : Made(s, c, e, g, h, w) = Made(i, c, e, g, h, w)
  BY <1>6 DEF Made
<1>8. ReadBack(i) = IF op \in Bra THEN Made(i, d, a, b, f, NoReconv * Halves)
                    ELSE Made(i, d, a, b, f, v)
  <2>1. [i EXCEPT !.imm = NoReconv * Halves] = Made(i, d, a, b, f, NoReconv * Halves)
    BY <1>1 DEF Made, Fields
  <2> QED
    BY <1>4, <2>1 DEF ReadBack
<1>9. /\ GeneralRegisters \in Nat \ {0} /\ PredRegisters \in 1..GeneralRegisters
      /\ SpecialRegisters \in 0..GeneralRegisters
  BY WordAssumption
<1>10. \A r \in G : ReadsAs(Printed("r", r), op, "r", r, 0)
  BY <1>9, PrintedReads
<1>11. ReadsAs(PrintedImmediate(i), op, "immediate", 0, v)
  BY <1>2, PrintedImmediateReads
<1>12. ReadsAs(PrintedAddress(i), op, "address", a, v)
  BY <1>2, PrintedAddressReads
<1>13. op \in Opcodes /\ op \in Nat
  BY <1>3 DEF Headed, Opcodes
<1>14. op \in Rrr \cup Rr \cup Acc \cup Prr \cup Sreg \cup Bra \cup None \cup Ld \cup St \cup Ldp
  BY <1>13, StepsAre
<1>15. /\ Rr \cap (Acc \cup Prr \cup Sreg \cup Bra \cup None \cup Ld \cup St \cup Ldp) = {}
      /\ Acc \cap (Prr \cup Sreg \cup Bra \cup None \cup Ld \cup St \cup Ldp) = {}
      /\ Prr \cap (Sreg \cup Bra \cup None \cup Ld \cup St \cup Ldp) = {}
      /\ Sreg \cap (Bra \cup None \cup Ld \cup St \cup Ldp) = {}
      /\ Bra \cap (None \cup Ld \cup St \cup Ldp) = {}
      /\ None \cap (Ld \cup St \cup Ldp) = {} /\ Ld \cap (St \cup Ldp) = {} /\ St \cap Ldp = {}
  BY DEF Rr, Acc, Prr, Sreg, Bra, None, Ld, St, Ldp
<1>16. op \in Rrr <=> op \notin Rr \cup Acc \cup Prr \cup Sreg \cup Bra \cup None \cup Ld
                                       \cup St \cup Ldp
  BY <1>13 DEF Rrr
<1>17. \A e1, e2, e3 \in OperandType : /\ <<>> \in Seq(OperandType) /\ <<e1>> \in Seq(OperandType)
                                       /\ <<e1, e2>> \in Seq(OperandType)
                                       /\ <<e1, e2, e3>> \in Seq(OperandType)
  OBVIOUS
<1>18. <<>> \in Seq(OperandType)
  OBVIOUS
<1>19. ASSUME s.operands \in Seq(OperandType), Len(s.operands) = Len(Steps(op)),
              op \in Bra => s.operands[1].form \notin {"r", "p"}
       PROVE  s \in InstructionLine /\ Sized(s)
  <2>1. s \in [kind : {"instruction"}, opcode : Nat, present : Flag, negate : Flag, pred : Nat,
               operands : Seq(OperandType)]
    <3>1. s = [kind |-> "instruction", opcode |-> i.opcode, present |-> i.present,
               negate |-> i.negate, pred |-> i.pred, operands |-> s.operands]
      BY <1>6 DEF PrintedStatement
    <3> QED
      BY <1>3, <1>13, <1>19, <3>1 DEF Headed
  <2>2. s.present = 0 => s.negate = 0 /\ s.pred = 0
    BY <1>3, <1>6 DEF Headed
  <2>3. s \in InstructionLine
    BY <1>6, <1>19, <2>1, <2>2 DEF InstructionLine
  <2> QED
    BY <1>3, <1>6, <1>19, <2>3 DEF Sized, Headed
<1>20. f = 0 \/ f = 1
  BY <1>2 DEF Flag
<1>21. \A x : x = ReadBack(i) <=> x = IF op \in Bra THEN Made(s, d, a, b, f, NoReconv * Halves)
                                      ELSE Made(s, d, a, b, f, v)
  BY <1>7, <1>8
<1>22. ASSUME s.operands \in Seq(OperandType), Len(s.operands) = Len(Steps(op)),
              op \in Bra => /\ s.operands[1].form \notin {"r", "p"}
                            /\ s.operands[1].name = names[BranchTarget(i)],
              Sized(s) => \A x : x \in Parsed(s, params) <=>
                                     x = IF op \in Bra THEN Made(s, d, a, b, f, NoReconv * Halves)
                                         ELSE Made(s, d, a, b, f, v)
       PROVE  Goal
  BY <1>19, <1>21, <1>22
<1> HIDE DEF Goal, s
<1>23. ASSUME op \in Rrr PROVE Goal
  <2> DEFINE e1 == Printed("r", d)
             e2 == Printed("r", a)
             e3 == IF f = 1 THEN PrintedImmediate(i) ELSE Printed("r", b)
  <2>1. s.operands = <<e1, e2, e3>>
    BY <1>6, <1>13, <1>23, OperandsAre
  <2>2. ReadsAs(e1, op, "r", d, 0)
    BY <1>2, <1>10, <1>11, <1>12, <1>20
  <2>3. ReadsAs(e2, op, "r", a, 0)
    BY <1>2, <1>10, <1>11, <1>12, <1>20
  <2>4. ReadsAs(e3, op, IF f = 1 THEN "immediate" ELSE "r", IF f = 1 THEN 0 ELSE b,
                IF f = 1 THEN v ELSE 0)
    BY <1>2, <1>10, <1>11, <1>12, <1>20
  <2> HIDE DEF e1, e2, e3
  <2>5. e1 \in OperandType /\ e2 \in OperandType /\ e3 \in OperandType
    BY <2>2, <2>3, <2>4 DEF ReadsAs
  <2>6. s.operands \in Seq(OperandType) /\ Len(s.operands) = Len(Steps(op))
    <3>1. Len(s.operands) = 3 /\ s.operands \in Seq(OperandType)
      BY <1>17, <1>18, <2>1, <2>5
    <3>2. Len(Steps(op)) = 3
      BY <1>13, <1>23, StepsAre
    <3> QED
      BY <3>1, <3>2
  <2>7. s.operands[1] = e1 /\ s.operands[2] = e2 /\ s.operands[3] = e3
    BY <2>1
  <2>8. ASSUME Sized(s), NEW x
        PROVE  x \in Parsed(s, params) <=>
                   x = IF op \in Bra THEN Made(s, d, a, b, f, NoReconv * Halves)
                       ELSE Made(s, d, a, b, f, v)
    <3>0. x \in Parsed(s, params) <=> RrrReads(s, params, x)
      BY <1>6, <1>23, <2>8, ParsedIs
    <3>1. x \in Parsed(s, params) <=>
          \E d1 \in General(e1), a1 \in General(e2) :
             \/ \E b1 \in General(e3) : x = Made(s, d1, a1, b1, 0, 0)
             \/ \E v1 \in Immediate(e3, op) : x = Made(s, d1, a1, 0, 1, v1)
      BY <1>6, <3>0, <2>7 DEF RrrReads
    <3>2. (f = 0 => v = 0) /\ (f = 1 => b = 0)
      BY <1>5, <1>23 DEF FitsShape
    <3>3. op \notin Bra
      BY <1>15, <1>16, <1>23
    <3> QED
      BY <1>20, <3>1, <3>2, <3>3, <2>2, <2>3, <2>4 DEF ReadsAs
  <2> QED
    <3>1. op \in Bra => /\ s.operands[1].form \notin {"r", "p"}
                        /\ s.operands[1].name = names[BranchTarget(i)]
      BY <1>15, <1>16, <1>23
    <3> QED
      BY <1>22, <2>6, <2>8, <3>1
<1>24. ASSUME op \in Prr PROVE Goal
  <2> DEFINE e1 == Printed("p", d)
             e2 == Printed("r", a)
             e3 == IF f = 1 THEN PrintedImmediate(i) ELSE Printed("r", b)
  <2>1. s.operands = <<e1, e2, e3>>
    BY <1>6, <1>13, <1>24, OperandsAre
  <2>2. ReadsAs(e1, op, "p", d, 0)
    BY <1>2, <1>5, <1>9, <1>24, PrintedReads DEF FitsShape
  <2>3. ReadsAs(e2, op, "r", a, 0)
    BY <1>2, <1>10, <1>11, <1>12, <1>20
  <2>4. ReadsAs(e3, op, IF f = 1 THEN "immediate" ELSE "r", IF f = 1 THEN 0 ELSE b,
                IF f = 1 THEN v ELSE 0)
    BY <1>2, <1>10, <1>11, <1>12, <1>20
  <2> HIDE DEF e1, e2, e3
  <2>5. e1 \in OperandType /\ e2 \in OperandType /\ e3 \in OperandType
    BY <2>2, <2>3, <2>4 DEF ReadsAs
  <2>6. s.operands \in Seq(OperandType) /\ Len(s.operands) = Len(Steps(op))
    <3>1. Len(s.operands) = 3 /\ s.operands \in Seq(OperandType)
      BY <1>17, <1>18, <2>1, <2>5
    <3>2. Len(Steps(op)) = 3
      BY <1>13, <1>24, StepsAre
    <3> QED
      BY <3>1, <3>2
  <2>7. s.operands[1] = e1 /\ s.operands[2] = e2 /\ s.operands[3] = e3
    BY <2>1
  <2>8. ASSUME Sized(s), NEW x
        PROVE  x \in Parsed(s, params) <=>
                   x = IF op \in Bra THEN Made(s, d, a, b, f, NoReconv * Halves)
                       ELSE Made(s, d, a, b, f, v)
    <3>0. x \in Parsed(s, params) <=> PrrReads(s, params, x)
      BY <1>6, <1>24, <2>8, ParsedIs
    <3>1. x \in Parsed(s, params) <=>
          \E d1 \in Index(e1, "p", PredRegisters), a1 \in General(e2) :
             \/ \E b1 \in General(e3) : x = Made(s, d1, a1, b1, 0, 0)
             \/ \E v1 \in Immediate(e3, op) : x = Made(s, d1, a1, 0, 1, v1)
      BY <1>6, <3>0, <2>7 DEF PrrReads
    <3>2. (f = 0 => v = 0) /\ (f = 1 => b = 0)
      BY <1>5, <1>24 DEF FitsShape
    <3>3. op \notin Bra
      BY <1>15, <1>16, <1>24
    <3> QED
      BY <1>20, <3>1, <3>2, <3>3, <2>2, <2>3, <2>4 DEF ReadsAs
  <2> QED
    <3>1. op \in Bra => /\ s.operands[1].form \notin {"r", "p"}
                        /\ s.operands[1].name = names[BranchTarget(i)]
      BY <1>15, <1>16, <1>24
    <3> QED
      BY <1>22, <2>6, <2>8, <3>1
<1>25. ASSUME op \in Rr PROVE Goal
  <2> DEFINE e1 == Printed("r", d)
             e2 == IF f = 1 THEN PrintedImmediate(i) ELSE Printed("r", a)
  <2>1. s.operands = <<e1, e2>>
    BY <1>6, <1>13, <1>25, OperandsAre
  <2>2. ReadsAs(e1, op, "r", d, 0)
    BY <1>2, <1>10, <1>11, <1>12, <1>20
  <2>3. ReadsAs(e2, op, IF f = 1 THEN "immediate" ELSE "r", IF f = 1 THEN 0 ELSE a,
                IF f = 1 THEN v ELSE 0)
    BY <1>2, <1>10, <1>11, <1>12, <1>20
  <2> HIDE DEF e1, e2
  <2>4. e1 \in OperandType /\ e2 \in OperandType
    BY <2>2, <2>3 DEF ReadsAs
  <2>5. s.operands \in Seq(OperandType) /\ Len(s.operands) = Len(Steps(op))
    <3>1. Len(s.operands) = 2 /\ s.operands \in Seq(OperandType)
      BY <1>17, <1>18, <2>1, <2>4
    <3>2. Len(Steps(op)) = 2
      BY <1>13, <1>25, StepsAre
    <3> QED
      BY <3>1, <3>2
  <2>6. s.operands[1] = e1 /\ s.operands[2] = e2
    BY <2>1
  <2>7. ASSUME Sized(s), NEW x
        PROVE  x \in Parsed(s, params) <=>
                   x = IF op \in Bra THEN Made(s, d, a, b, f, NoReconv * Halves)
                       ELSE Made(s, d, a, b, f, v)
    <3>0. x \in Parsed(s, params) <=> RrReads(s, params, x)
      BY <1>6, <1>25, <2>7, ParsedIs
    <3>1. x \in Parsed(s, params) <=>
          \E d1 \in General(e1) :
             \/ \E a1 \in General(e2) : x = Made(s, d1, a1, 0, 0, 0)
             \/ \E v1 \in Immediate(e2, op) : x = Made(s, d1, 0, 0, 1, v1)
      BY <1>6, <3>0, <2>6 DEF RrReads
    <3>2. b = 0 /\ (f = 0 => v = 0) /\ (f = 1 => a = 0)
      BY <1>5, <1>25 DEF FitsShape
    <3>3. op \notin Bra
      BY <1>15, <1>16, <1>25
    <3> QED
      BY <1>20, <3>1, <3>2, <3>3, <2>2, <2>3 DEF ReadsAs
  <2> QED
    <3>1. op \in Bra => /\ s.operands[1].form \notin {"r", "p"}
                        /\ s.operands[1].name = names[BranchTarget(i)]
      BY <1>15, <1>16, <1>25
    <3> QED
      BY <1>22, <2>5, <2>7, <3>1
<1>26. ASSUME op \in Acc PROVE Goal
  <2> DEFINE e1 == Printed("r", d)
             e2 == Printed("r", a)
             e3 == Printed("r", b)
  <2>1. s.operands = <<e1, e2, e3>>
    BY <1>6, <1>13, <1>26, OperandsAre
  <2>2. ReadsAs(e1, op, "r", d, 0)
    BY <1>2, <1>10, <1>11, <1>12, <1>20
  <2>3. ReadsAs(e2, op, "r", a, 0)
    BY <1>2, <1>10, <1>11, <1>12, <1>20
  <2>4. ReadsAs(e3, op, "r", b, 0)
    BY <1>2, <1>10, <1>11, <1>12, <1>20
  <2> HIDE DEF e1, e2, e3
  <2>5. e1 \in OperandType /\ e2 \in OperandType /\ e3 \in OperandType
    BY <2>2, <2>3, <2>4 DEF ReadsAs
  <2>6. s.operands \in Seq(OperandType) /\ Len(s.operands) = Len(Steps(op))
    <3>1. Len(s.operands) = 3 /\ s.operands \in Seq(OperandType)
      BY <1>17, <1>18, <2>1, <2>5
    <3>2. Len(Steps(op)) = 3
      BY <1>13, <1>26, StepsAre
    <3> QED
      BY <3>1, <3>2
  <2>7. s.operands[1] = e1 /\ s.operands[2] = e2 /\ s.operands[3] = e3
    BY <2>1
  <2>8. ASSUME Sized(s), NEW x
        PROVE  x \in Parsed(s, params) <=>
                   x = IF op \in Bra THEN Made(s, d, a, b, f, NoReconv * Halves)
                       ELSE Made(s, d, a, b, f, v)
    <3>0. x \in Parsed(s, params) <=> AccReads(s, params, x)
      BY <1>6, <1>26, <2>8, ParsedIs
    <3>1. x \in Parsed(s, params) <=>
          \E d1 \in General(e1), a1 \in General(e2), b1 \in General(e3) :
             x = Made(s, d1, a1, b1, 0, 0)
      BY <1>6, <3>0, <2>7 DEF AccReads
    <3>2. f = 0 /\ v = 0
      BY <1>5, <1>26 DEF FitsShape
    <3>3. op \notin Bra
      BY <1>15, <1>16, <1>26
    <3> QED
      BY <1>20, <3>1, <3>2, <3>3, <2>2, <2>3, <2>4 DEF ReadsAs
  <2> QED
    <3>1. op \in Bra => /\ s.operands[1].form \notin {"r", "p"}
                        /\ s.operands[1].name = names[BranchTarget(i)]
      BY <1>15, <1>16, <1>26
    <3> QED
      BY <1>22, <2>6, <2>8, <3>1
<1>27. ASSUME op \in Sreg PROVE Goal
  <2> DEFINE e1 == Printed("r", d)
             e2 == Printed("special", a)
  <2>1. s.operands = <<e1, e2>>
    BY <1>6, <1>13, <1>27, OperandsAre
  <2>2. ReadsAs(e1, op, "r", d, 0)
    BY <1>2, <1>10, <1>11, <1>12, <1>20
  <2>3. ReadsAs(e2, op, "special", a, 0)
    BY <1>2, <1>5, <1>9, <1>27, PrintedReads DEF FitsShape
  <2> HIDE DEF e1, e2
  <2>4. e1 \in OperandType /\ e2 \in OperandType
    BY <2>2, <2>3 DEF ReadsAs
  <2>5. s.operands \in Seq(OperandType) /\ Len(s.operands) = Len(Steps(op))
    <3>1. Len(s.operands) = 2 /\ s.operands \in Seq(OperandType)
      BY <1>17, <1>18, <2>1, <2>4
    <3>2. Len(Steps(op)) = 2
      BY <1>13, <1>27, StepsAre
    <3> QED
      BY <3>1, <3>2
  <2>6. s.operands[1] = e1 /\ s.operands[2] = e2
    BY <2>1
  <2>7. ASSUME Sized(s), NEW x
        PROVE  x \in Parsed(s, params) <=>
                   x = IF op \in Bra THEN Made(s, d, a, b, f, NoReconv * Halves)
                       ELSE Made(s, d, a, b, f, v)
    <3>0. x \in Parsed(s, params) <=> SregReads(s, params, x)
      BY <1>6, <1>27, <2>7, ParsedIs
    <3>1. x \in Parsed(s, params) <=>
          \E d1 \in General(e1), a1 \in Index(e2, "special", SpecialRegisters) :
             x = Made(s, d1, a1, 0, 0, 0)
      BY <1>6, <3>0, <2>6 DEF SregReads
    <3>2. b = 0 /\ f = 0 /\ v = 0
      BY <1>5, <1>27 DEF FitsShape
    <3>3. op \notin Bra
      BY <1>15, <1>16, <1>27
    <3> QED
      BY <1>20, <3>1, <3>2, <3>3, <2>2, <2>3 DEF ReadsAs
  <2> QED
    <3>1. op \in Bra => /\ s.operands[1].form \notin {"r", "p"}
                        /\ s.operands[1].name = names[BranchTarget(i)]
      BY <1>15, <1>16, <1>27
    <3> QED
      BY <1>22, <2>5, <2>7, <3>1
<1>28. ASSUME op \in Bra PROVE Goal
  <2> DEFINE e1 == [form |-> "name", name |-> names[BranchTarget(i)]]
  <2>1. s.operands = <<e1>>
    BY <1>6, <1>13, <1>28, OperandsAre
  <2>2. e1.form = "name" /\ e1.name = names[BranchTarget(i)] /\ e1 \in OperandType
    <3>1. names[BranchTarget(i)] \in Names
      BY <1>28 DEF CanPrint
    <3>2. e1 \in [form : {"name", "param"}, name : Names]
      BY <3>1
    <3> QED
      BY <3>2 DEF OperandType
  <2> HIDE DEF e1
  <2>3. e1 \in OperandType
    BY <2>2 DEF ReadsAs
  <2>4. s.operands \in Seq(OperandType) /\ Len(s.operands) = Len(Steps(op))
    <3>1. Len(s.operands) = 1 /\ s.operands \in Seq(OperandType)
      BY <1>17, <1>18, <2>1, <2>3
    <3>2. Len(Steps(op)) = 1
      BY <1>13, <1>28, StepsAre
    <3> QED
      BY <3>1, <3>2
  <2>5. s.operands[1] = e1
    BY <2>1
  <2>6. ASSUME Sized(s), NEW x
        PROVE  x \in Parsed(s, params) <=>
                   x = IF op \in Bra THEN Made(s, d, a, b, f, NoReconv * Halves)
                       ELSE Made(s, d, a, b, f, v)
    <3>0. x \in Parsed(s, params) <=> BraReads(s, params, x)
      BY <1>6, <1>28, <2>6, ParsedIs
    <3>1. x \in Parsed(s, params) <=>
          e1.form = "name" /\ x = Made(s, 0, 0, 0, 0, NoReconv * Halves)
      BY <1>6, <3>0, <2>5 DEF BraReads
    <3>2. d = 0 /\ a = 0 /\ b = 0 /\ f = 0
      BY <1>5, <1>28 DEF FitsShape
    <3>3. op \in Bra
      BY <1>15, <1>16, <1>28
    <3> QED
      BY <3>1, <3>2, <3>3, <2>2
  <2> QED
    <3>1. op \in Bra => /\ s.operands[1].form \notin {"r", "p"}
                        /\ s.operands[1].name = names[BranchTarget(i)]
      BY <2>2, <2>5
    <3> QED
      BY <1>22, <2>4, <2>6, <3>1
<1>29. ASSUME op \in None PROVE Goal
  <2>1. s.operands = <<>>
    BY <1>6, <1>13, <1>29, OperandsAre
  <2>2. s.operands \in Seq(OperandType) /\ Len(s.operands) = Len(Steps(op))
    <3>1. Len(s.operands) = 0 /\ s.operands \in Seq(OperandType)
      BY <1>17, <1>18, <2>1, <1>18
    <3>2. Len(Steps(op)) = 0
      BY <1>13, <1>29, StepsAre
    <3> QED
      BY <3>1, <3>2
  <2>3. ASSUME Sized(s), NEW x
        PROVE  x \in Parsed(s, params) <=>
                   x = IF op \in Bra THEN Made(s, d, a, b, f, NoReconv * Halves)
                       ELSE Made(s, d, a, b, f, v)
    <3>0. x \in Parsed(s, params) <=> NoneReads(s, params, x)
      BY <1>6, <1>29, <2>3, ParsedIs
    <3>1. x \in Parsed(s, params) <=>
          x = Made(s, 0, 0, 0, 0, 0)
      BY <1>6, <3>0, <2>1 DEF NoneReads
    <3>2. d = 0 /\ a = 0 /\ b = 0 /\ f = 0 /\ v = 0
      BY <1>5, <1>29 DEF FitsShape
    <3>3. op \notin Bra
      BY <1>15, <1>16, <1>29
    <3> QED
      BY <3>1, <3>2, <3>3
  <2> QED
    <3>1. op \in Bra => /\ s.operands[1].form \notin {"r", "p"}
                        /\ s.operands[1].name = names[BranchTarget(i)]
      BY <1>15, <1>16, <1>29
    <3> QED
      BY <1>22, <2>2, <2>3, <3>1
<1>30. ASSUME op \in Ld PROVE Goal
  <2> DEFINE e1 == Printed("r", d)
             e2 == PrintedAddress(i)
  <2>1. s.operands = <<e1, e2>>
    BY <1>6, <1>13, <1>30, OperandsAre
  <2>2. ReadsAs(e1, op, "r", d, 0)
    BY <1>2, <1>10, <1>11, <1>12, <1>20
  <2>3. ReadsAs(e2, op, "address", a, v)
    BY <1>2, <1>10, <1>11, <1>12, <1>20
  <2> HIDE DEF e1, e2
  <2>4. e1 \in OperandType /\ e2 \in OperandType
    BY <2>2, <2>3 DEF ReadsAs
  <2>5. s.operands \in Seq(OperandType) /\ Len(s.operands) = Len(Steps(op))
    <3>1. Len(s.operands) = 2 /\ s.operands \in Seq(OperandType)
      BY <1>17, <1>18, <2>1, <2>4
    <3>2. Len(Steps(op)) = 2
      BY <1>13, <1>30, StepsAre
    <3> QED
      BY <3>1, <3>2
  <2>6. s.operands[1] = e1 /\ s.operands[2] = e2
    BY <2>1
  <2>7. ASSUME Sized(s), NEW x
        PROVE  x \in Parsed(s, params) <=>
                   x = IF op \in Bra THEN Made(s, d, a, b, f, NoReconv * Halves)
                       ELSE Made(s, d, a, b, f, v)
    <3>0. x \in Parsed(s, params) <=> LdReads(s, params, x)
      BY <1>6, <1>30, <2>7, ParsedIs
    <3>1. x \in Parsed(s, params) <=>
          \E d1 \in General(e1), v1 \in Offset(e2) : x = Made(s, d1, e2.base, 0, 1, v1)
      BY <1>6, <3>0, <2>6 DEF LdReads
    <3>2. b = 0 /\ f = 1
      BY <1>5, <1>30 DEF FitsShape
    <3>3. op \notin Bra
      BY <1>15, <1>16, <1>30
    <3> QED
      BY <1>20, <3>1, <3>2, <3>3, <2>2, <2>3 DEF ReadsAs
  <2> QED
    <3>1. op \in Bra => /\ s.operands[1].form \notin {"r", "p"}
                        /\ s.operands[1].name = names[BranchTarget(i)]
      BY <1>15, <1>16, <1>30
    <3> QED
      BY <1>22, <2>5, <2>7, <3>1
<1>31. ASSUME op \in St PROVE Goal
  <2> DEFINE e1 == PrintedAddress(i)
             e2 == Printed("r", b)
  <2>1. s.operands = <<e1, e2>>
    BY <1>6, <1>13, <1>31, OperandsAre
  <2>2. ReadsAs(e1, op, "address", a, v)
    BY <1>2, <1>10, <1>11, <1>12, <1>20
  <2>3. ReadsAs(e2, op, "r", b, 0)
    BY <1>2, <1>10, <1>11, <1>12, <1>20
  <2> HIDE DEF e1, e2
  <2>4. e1 \in OperandType /\ e2 \in OperandType
    BY <2>2, <2>3 DEF ReadsAs
  <2>5. s.operands \in Seq(OperandType) /\ Len(s.operands) = Len(Steps(op))
    <3>1. Len(s.operands) = 2 /\ s.operands \in Seq(OperandType)
      BY <1>17, <1>18, <2>1, <2>4
    <3>2. Len(Steps(op)) = 2
      BY <1>13, <1>31, StepsAre
    <3> QED
      BY <3>1, <3>2
  <2>6. s.operands[1] = e1 /\ s.operands[2] = e2
    BY <2>1
  <2>7. ASSUME Sized(s), NEW x
        PROVE  x \in Parsed(s, params) <=>
                   x = IF op \in Bra THEN Made(s, d, a, b, f, NoReconv * Halves)
                       ELSE Made(s, d, a, b, f, v)
    <3>0. x \in Parsed(s, params) <=> StReads(s, params, x)
      BY <1>6, <1>31, <2>7, ParsedIs
    <3>1. x \in Parsed(s, params) <=>
          \E v1 \in Offset(e1), b1 \in General(e2) : x = Made(s, 0, e1.base, b1, 1, v1)
      BY <1>6, <3>0, <2>6 DEF StReads
    <3>2. d = 0 /\ f = 1
      BY <1>5, <1>31 DEF FitsShape
    <3>3. op \notin Bra
      BY <1>15, <1>16, <1>31
    <3> QED
      BY <1>20, <3>1, <3>2, <3>3, <2>2, <2>3 DEF ReadsAs
  <2> QED
    <3>1. op \in Bra => /\ s.operands[1].form \notin {"r", "p"}
                        /\ s.operands[1].name = names[BranchTarget(i)]
      BY <1>15, <1>16, <1>31
    <3> QED
      BY <1>22, <2>5, <2>7, <3>1
<1>32. ASSUME op \in Ldp PROVE Goal
  <2> DEFINE e1 == Printed("r", d)
             e2 == [form |-> "param", name |-> params[v + 1]]
  <2>1. s.operands = <<e1, e2>>
    BY <1>6, <1>13, <1>32, OperandsAre
  <2>2. ReadsAs(e1, op, "r", d, 0)
    BY <1>2, <1>10, <1>11, <1>12, <1>20
  <2>3. e2.form = "param" /\ e2.name = params[v + 1] /\ e2 \in OperandType
    <3>1. params \in Seq(Names) /\ v < Len(params) /\ v \in Nat
      BY <1>2, <1>32 DEF CanPrint
    <3>2. params[v + 1] \in Names
      BY <3>1, ElementOfSeq, LenProperties
    <3>3. e2 \in [form : {"name", "param"}, name : Names]
      BY <3>2
    <3> QED
      BY <3>3 DEF OperandType
  <2> HIDE DEF e1, e2
  <2>4. e1 \in OperandType /\ e2 \in OperandType
    BY <2>2, <2>3 DEF ReadsAs
  <2>5. s.operands \in Seq(OperandType) /\ Len(s.operands) = Len(Steps(op))
    <3>1. Len(s.operands) = 2 /\ s.operands \in Seq(OperandType)
      BY <1>17, <1>18, <2>1, <2>4
    <3>2. Len(Steps(op)) = 2
      BY <1>13, <1>32, StepsAre
    <3> QED
      BY <3>1, <3>2
  <2>6. s.operands[1] = e1 /\ s.operands[2] = e2
    BY <2>1
  <2>7. ASSUME Sized(s), NEW x
        PROVE  x \in Parsed(s, params) <=>
                   x = IF op \in Bra THEN Made(s, d, a, b, f, NoReconv * Halves)
                       ELSE Made(s, d, a, b, f, v)
    <3>0. x \in Parsed(s, params) <=> LdpReads(s, params, x)
      BY <1>6, <1>32, <2>7, ParsedIs
    <3>1. x \in Parsed(s, params) <=>
          /\ e2.form = "param"
          /\ \E d1 \in General(e1), k \in DOMAIN params :
                 params[k] = e2.name /\ x = Made(s, d1, 0, 0, 1, (k - 1) % Immediates)
      BY <1>6, <3>0, <2>6 DEF LdpReads
    <3> DEFINE w == v + 1
    <3>2. \A k \in DOMAIN params : params[k] = params[w] <=> k = w
      <4>1. params \in Seq(Names) /\ v < Len(params) /\ v \in Nat /\ Distinct(params)
        BY <1>2, <1>32 DEF CanPrint
      <4>2. v + 1 \in DOMAIN params
        BY <4>1, LenProperties
      <4> QED
        BY <4>1, <4>2 DEF Distinct
    <3>3. w \in DOMAIN params /\ (w - 1) % Immediates = v
      <4>1. params \in Seq(Names) /\ v < Len(params) /\ v \in Nat /\ v < Immediates
        BY <1>2, <1>32, HalfIs DEF CanPrint
      <4>2. v + 1 \in DOMAIN params
        BY <4>1, LenProperties
      <4>3. 0 * Immediates + v = v /\ v + 1 - 1 = v /\ v \in 0..Immediates - 1 /\ 0 \in Nat
        BY <1>2, <4>1, HalfIs
      <4>4. (0 * Immediates + v) % Immediates = v
        BY <4>3, HalfIs, DivUnique
      <4> QED
        BY <4>2, <4>3, <4>4
    <3>4. f = 1 /\ a = 0 /\ b = 0
      BY <1>5, <1>32 DEF FitsShape
    <3>5. op \notin Bra
      BY <1>15, <1>32
    <3>6. \A y : y \in General(e1) <=> y = d
      BY <2>2, <2>3 DEF ReadsAs
    <3>7. e2.form = "param" /\ e2.name = params[w]
      BY <2>2, <2>3
    <3> HIDE DEF w
    <3>8. x \in Parsed(s, params) <=> x = Made(s, d, 0, 0, 1, v)
      BY <3>1, <3>2, <3>3, <3>6, <3>7
    <3> QED
      BY <3>4, <3>5, <3>8 DEF op
  <2> QED
    <3>1. op \in Bra => /\ s.operands[1].form \notin {"r", "p"}
                        /\ s.operands[1].name = names[BranchTarget(i)]
      BY <1>15, <1>16, <1>32
    <3> QED
      BY <1>22, <2>5, <2>7, <3>1
<1> QED
  BY <1>14, <1>23, <1>24, <1>25, <1>26, <1>27, <1>28, <1>29, <1>30, <1>31, <1>32 DEF Goal, s

-----------------------------------------------------------------------------
(* The invariant                                                           *)

\* A program has its five fields.
Fielded(p) ==
    p = [entry |-> p.entry, params |-> p.params, shared |-> p.shared, words |-> p.words,
         labels |-> p.labels]

NoFaultBefore(l) == \A k \in Lines : k < l => ~Faulty(k)

\* What the program p has of the directives before line l.
DirectivesRead(l, p) ==
    /\ p.params = ParamsBefore(l) /\ Distinct(p.params)
    /\ \/ p.entry = NoName /\ \A k \in Lines : k < l => Kind(k) # "entry"
       \/ p.entry # NoName
          /\ \E k \in Lines : k < l /\ Kind(k) = "entry" /\ source[k].stmt.name = p.entry
    /\ p.shared \in 0..Immediates - 1
    /\ \/ p.shared = 0 /\ \A k \in Lines : k < l => Kind(k) # "shared"
       \/ \E k \in Lines : k < l /\ Kind(k) = "shared" /\ source[k].stmt.bytes = p.shared

\* The words are the instructions before line l; the branch of line k has imm[k].
WordsRead(l, words, imm) ==
    /\ words \in Seq(Nat) /\ Len(words) = PCOf(l)
    /\ \A k \in InstructionLines : k < l =>
           \E i \in Parsed(source[k].stmt, ParamsBefore(k)) :
               words[PCOf(k) + 1] =
                   Packed(IF k \in BranchLines THEN [i EXCEPT !.imm = imm[k]] ELSE i)

\* The labels before line l, by name and by PC.
LabelsRead(l, pcs, names) ==
    /\ pcs \in [DOMAIN pcs -> PC]
    /\ \A name : name \in DOMAIN pcs <=>
                     name # NoName /\ \E k \in Lines : k < l /\ source[k].label = name
    /\ \A k \in Lines : k < l /\ source[k].label # NoName =>
                            pcs[source[k].label] = PCOf(k) % Halves
    /\ names \in [DOMAIN names -> Names]
    /\ \A pc \in DOMAIN names : names[pc] \in DOMAIN pcs /\ pcs[names[pc]] = pc
    /\ \A name \in DOMAIN pcs : pcs[name] \in DOMAIN names

\* The branches before line l that wait for their labels, in order.
Waits(k, branches) == \E j \in DOMAIN branches : branches[j].line = k
PendingRead(l, branches) ==
    /\ branches \in Seq([pc : Nat, line : Nat, label : Names])
    /\ \A j \in DOMAIN branches :
           LET b == branches[j] IN
           b.line \in BranchLines /\ b.line < l /\ b.pc = PCOf(b.line) /\ b.label = LabelOf(b.line)
    /\ \A i, j \in DOMAIN branches : i < j => branches[i].line < branches[j].line

\* The immediate of the branch of each line, in a pass.
ImmIn(pass, branches) ==
    [k \in BranchLines |->
        IF pass = "done"
        THEN MakeBranchImm(TargetOf(k), ReconvergencePC(FlowAsWritten, PCOf(k)))
        ELSE IF Waits(k, branches) THEN NoReconv * Halves
        ELSE MakeBranchImm(TargetOf(k), NoReconv)]

Core ==
    /\ line \in 1..Len(source) + 1 /\ Fielded(program)
    /\ NoFaultBefore(line)
    /\ DirectivesRead(line, program)
    /\ WordsRead(line, program.words, ImmIn(phase, pending))
    /\ LabelsRead(line, labels, program.labels)
    /\ PendingRead(line, pending)
    /\ phase = "parse" => \A k \in BranchLines : k < line => Waits(k, pending)
    /\ phase # "parse" =>
           /\ line = Len(source) + 1 /\ program.entry # NoName /\ Len(program.words) <= NoReconv
           /\ \A k \in BranchLines : Waits(k, pending) \/ LabelOf(k) \in DOMAIN labels
    /\ phase = "done" =>
           /\ pending = <<>>
           /\ \A k \in BranchLines : TargetOf(k) < Cardinality(InstructionLines)

\* What disassemble relies on: the words can be decoded, the branches go to labelled
\* instructions of the program and carry its reconvergence PCs, and names are unique.
OwnFlow(words) ==
    [k \in DOMAIN words |->
        LET i == Unpacked(words[k]) IN
        [op |-> CASE i.opcode \in Bra -> "bra" [] i.opcode = 40 -> "exit" [] OTHER -> "alu",
         guard |-> [present |-> i.present = 1],
         target |-> IF i.opcode \in Bra THEN BranchTarget(i) ELSE 0]]
WellAssembled(p) ==
    /\ Fielded(p) /\ p.entry \in Names
    /\ p.params \in Seq(Names) /\ Distinct(p.params)
    /\ p.shared \in 0..Immediates - 1
    /\ p.words \in Seq(Nat) /\ Len(p.words) <= NoReconv
    /\ p.labels \in [DOMAIN p.labels -> Names]
    /\ \A x, y \in DOMAIN p.labels : p.labels[x] = p.labels[y] => x = y
    /\ \A k \in DOMAIN p.words :
           LET i == Unpacked(p.words[k]) IN
           /\ Valid(i) /\ Packed(i) = p.words[k]
           /\ i.opcode \in Ldp => i.imm < Len(p.params)
           /\ i.opcode \in Bra =>
                  /\ BranchTarget(i) \in DOMAIN p.labels /\ BranchTarget(i) \in 0..Len(p.words) - 1
                  /\ i.imm = MakeBranchImm(BranchTarget(i),
                                           ReconvergencePC(OwnFlow(p.words), k - 1))

Inv ==
    /\ Typed /\ round \in {1, 2} /\ phase \in {"parse", "resolve", "done", "refused"}
    /\ round = 2 => source = Listing(origin) /\ WellAssembled(origin)
    /\ phase # "refused" => Core
    /\ phase = "refused" => AcceptsOrNamesFirst

\* What is said of a source up to a line does not change with the state of the assembler.
LEMMA SameReading ==
    ASSUME source' = source
    PROVE  /\ Typed' <=> Typed
           /\ \A l : NoFaultBefore(l)' <=> NoFaultBefore(l)
           /\ \A l, p : DirectivesRead(l, p)' <=> DirectivesRead(l, p)
           /\ \A l, words, imm : WordsRead(l, words, imm)' <=> WordsRead(l, words, imm)
           /\ \A l, pcs, names : LabelsRead(l, pcs, names)' <=> LabelsRead(l, pcs, names)
           /\ \A l, branches : PendingRead(l, branches)' <=> PendingRead(l, branches)
           /\ \A pass, branches : ImmIn(pass, branches)' = ImmIn(pass, branches)
<1>1. /\ Lines' = Lines /\ InstructionLines' = InstructionLines
      /\ BranchLines' = BranchLines /\ FlowAsWritten' = FlowAsWritten
  BY SameSource
<1>2. \A k : /\ Kind(k)' = Kind(k) /\ PCOf(k)' = PCOf(k) /\ TargetOf(k)' = TargetOf(k)
             /\ ParamsBefore(k)' = ParamsBefore(k) /\ LabelOf(k)' = LabelOf(k)
             /\ Faulty(k)' = Faulty(k)
  BY SameSource
<1>3. Typed' <=> Typed
  BY DEF Typed
<1>4. \A l : NoFaultBefore(l)' <=> NoFaultBefore(l)
  BY <1>1, <1>2 DEF NoFaultBefore
<1>5. \A l, p : DirectivesRead(l, p)' <=> DirectivesRead(l, p)
  BY <1>1, <1>2 DEF DirectivesRead
<1>6. \A l, words, imm : WordsRead(l, words, imm)' <=> WordsRead(l, words, imm)
  BY <1>1, <1>2 DEF WordsRead
<1>7. \A l, pcs, names : LabelsRead(l, pcs, names)' <=> LabelsRead(l, pcs, names)
  BY <1>1, <1>2 DEF LabelsRead
<1>8. \A l, branches : PendingRead(l, branches)' <=> PendingRead(l, branches)
  BY <1>1, <1>2 DEF PendingRead
<1>9. \A pass, branches : ImmIn(pass, branches)' = ImmIn(pass, branches)
  BY <1>1, <1>2 DEF ImmIn
<1> QED
  BY <1>3, <1>4, <1>5, <1>6, <1>7, <1>8, <1>9

\* Before anything is read.
AtStart ==
    /\ 1 \in 1..Len(source) + 1 /\ Fielded(Blank) /\ NoFaultBefore(1)
    /\ DirectivesRead(1, Blank) /\ LabelsRead(1, <<>>, Blank.labels) /\ PendingRead(1, <<>>)
    /\ \A imm : WordsRead(1, Blank.words, imm)
    /\ \A k \in BranchLines : ~(k < 1)

LEMMA StartRead ==
    Typed => AtStart
<1> SUFFICES ASSUME Typed PROVE AtStart
  OBVIOUS
<1>1. Len(source) \in Nat /\ Lines = 1..Len(source)
  BY LineIs
<1>2. \A k \in Lines : ~(k < 1)
  BY <1>1
<1>3. InstructionLines \subseteq Lines /\ BranchLines \subseteq Lines
  BY DEF InstructionLines, BranchLines
<1>4. /\ Blank.entry = NoName /\ Blank.params = <<>> /\ Blank.shared = 0 /\ Blank.words = <<>>
      /\ Blank.labels = <<>>
  BY DEF Blank
<1>5. DOMAIN <<>> = {} /\ Len(<<>>) = 0
  OBVIOUS
<1>6. Fielded(Blank)
  BY DEF Fielded, Blank
<1>7. NoFaultBefore(1)
  BY <1>2 DEF NoFaultBefore
<1>8. DirectivesRead(1, Blank)
  <2>1. ParamsBefore(1) = <<>> /\ 0 \in 0..Immediates - 1
    BY ParamsBeforeIs, HalfIs
  <2>2. Distinct(<<>>)
    BY <1>5 DEF Distinct
  <2> QED
    BY <1>2, <1>4, <2>1, <2>2 DEF DirectivesRead
<1>9. LabelsRead(1, <<>>, Blank.labels)
  <2>1. <<>> \in [DOMAIN <<>> -> PC] /\ <<>> \in [DOMAIN <<>> -> Names]
    BY <1>5
  <2> QED
    BY <1>2, <1>4, <1>5, <2>1 DEF LabelsRead
<1>10. PendingRead(1, <<>>)
  <2>1. <<>> \in Seq([pc : Nat, line : Nat, label : Names])
    OBVIOUS
  <2> QED
    BY <1>5, <2>1 DEF PendingRead
<1>11. \A imm : WordsRead(1, Blank.words, imm)
  <2>1. PCOf(1) = 0
    BY PCOfIs
  <2>2. <<>> \in Seq(Nat)
    OBVIOUS
  <2> QED
    BY <1>2, <1>3, <1>4, <1>5, <2>1, <2>2 DEF WordsRead
<1> QED
  BY <1>1, <1>2, <1>3, <1>6, <1>7, <1>8, <1>9, <1>10, <1>11 DEF AtStart

LEMMA InitInv ==
    Init => Inv
<1> SUFFICES ASSUME Init PROVE Inv
  OBVIOUS
<1>1. PICK s \in Sources : Start(s) /\ round = 1 /\ origin = Blank
  BY DEF Init
<1>2. Typed /\ line = 1 /\ program = Blank /\ labels = <<>> /\ pending = <<>> /\ phase = "parse"
  BY <1>1, AssemblerAssumption DEF Start, Typed
<1>3. Core
  BY <1>2, StartRead DEF AtStart, Core, Blank
<1> QED
  BY <1>1, <1>2, <1>3 DEF Inv

LEMMA StartReadNext ==
    ASSUME Typed' PROVE AtStart'
<1>1. (Typed => AtStart)'
  BY StartRead, PTL
<1> QED
  BY <1>1

-----------------------------------------------------------------------------
(* Reading one more line                                                   *)

LEMMA LinesAre ==
    ASSUME Typed
    PROVE  /\ Len(source) \in Nat /\ Lines = 1..Len(source)
           /\ InstructionLines \subseteq Lines /\ BranchLines \subseteq InstructionLines
           /\ \A k \in Lines : k \in Nat /\ k \in 1..Len(source) + 1 /\ k + 1 \in 1..Len(source) + 1
           /\ \A j, k \in Lines : j < k + 1 <=> j < k \/ j = k
           /\ \A k \in Lines : k < Len(source) + 1
<1>1. Len(source) \in Nat /\ Lines = 1..Len(source)
  BY LineIs
<1> QED
  BY <1>1 DEF InstructionLines, BranchLines

\* An accepted instruction has structs, all of which encode accepts.
LEMMA InstructionReads ==
    ASSUME Typed, NEW k \in InstructionLines
    PROVE  /\ source[k].stmt \in InstructionLine
           /\ Parsed(source[k].stmt, ParamsBefore(k)) # {} => Sized(source[k].stmt)
           /\ \A i \in Parsed(source[k].stmt, ParamsBefore(k)) :
                  /\ Valid(i) /\ i.opcode = source[k].stmt.opcode
                  /\ i.present = source[k].stmt.present /\ i.negate = source[k].stmt.negate
                  /\ i.pred = source[k].stmt.pred
                  /\ k \in BranchLines => i.imm = NoReconv * Halves /\ LabelOf(k) \in Names
                  /\ i.opcode \in Ldp => i.imm < Len(ParamsBefore(k))
<1> DEFINE s == source[k].stmt
           params == ParamsBefore(k)
<1>1. k \in Lines /\ Kind(k) = "instruction" /\ k \in 1..Len(source) + 1
  BY LinesAre DEF InstructionLines
<1>2. s \in InstructionLine
  BY <1>1, StatementIs
<1>3. params \in Seq(Names)
  BY <1>1, ParamsBeforeIs
<1>4. Len(params) \in Nat /\ DOMAIN params = 1..Len(params)
  BY <1>3, LenProperties
<1>5. Parsed(s, params) # {} => Sized(s)
  BY <1>2, ParsedSized
<1>6. k \in BranchLines <=> s.opcode \in Bra
  BY DEF BranchLines
<1>7. ASSUME NEW i \in Parsed(s, params)
      PROVE  /\ Valid(i) /\ i.opcode = s.opcode /\ i.present = s.present /\ i.negate = s.negate
             /\ i.pred = s.pred
             /\ k \in BranchLines => i.imm = NoReconv * Halves /\ LabelOf(k) \in Names
             /\ i.opcode \in Ldp => i.imm < Len(params)
  <2>1. Sized(s)
    BY <1>5
  <2>2. /\ Valid(i) /\ i.opcode = s.opcode /\ i.present = s.present
        /\ i.negate = s.negate /\ i.pred = s.pred
        /\ s.opcode \in Bra => s.operands[1].form = "name" /\ i.imm = NoReconv * Halves
        /\ s.opcode \in Ldp => i.imm < Len(params)
    BY <1>4, <2>1, ParsedWell
  <2>3. ASSUME s.opcode \in Bra PROVE s.operands[1].name \in Names
    <3>1. Len(s.operands) = 1 /\ s.operands \in Seq(OperandType)
      BY <2>1, <2>3, StepsAre DEF Sized, InstructionLine
    <3>2. s.operands[1] \in OperandType
      BY <3>1, ElementOfSeq
    <3> QED
      BY <2>2, <2>3, <3>2 DEF OperandType
  <2> QED
    BY <1>6, <2>2, <2>3 DEF LabelOf
<1> QED
  BY <1>2, <1>5, <1>7

LEMMA Unfaulty ==
    ASSUME Typed, NEW k \in Lines, ~Faulty(k)
    PROVE  /\ source[k].label # NoName =>
                  /\ Kind(k) \in {"none", "instruction"}
                  /\ \A j \in Lines : j < k => source[j].label # source[k].label
           /\ Kind(k) = "entry" => \A j \in Lines : j < k => Kind(j) \notin {"entry", "instruction"}
           /\ Kind(k) = "param" => ~Contains(ParamsBefore(k), source[k].stmt.name)
           /\ Kind(k) = "shared" => source[k].stmt.bytes < Immediates
           /\ k \in InstructionLines => Parsed(source[k].stmt, ParamsBefore(k)) # {}
           /\ Kind(k) # "unknown"
<1>1. \A j \in Lines : j < k => j \in 1..k - 1
  BY LinesAre
<1>2. Kind(k) = "shared" => source[k].stmt.bytes \in Nat
  BY StatementIs
<1> QED
  BY <1>1, <1>2, HalfIs DEF Faulty, LabelLines, InstructionLines

LEMMA FaultAdvance ==
    ASSUME Typed, NEW l \in Lines, NoFaultBefore(l), ~Faulty(l)
    PROVE  NoFaultBefore(l + 1)
BY LinesAre DEF NoFaultBefore

LEMMA DirectivesAdvance ==
    ASSUME Typed, NEW l \in Lines, ~Faulty(l), NEW p, DirectivesRead(l, p), NEW q,
           q.params = IF Kind(l) = "param" THEN Append(p.params, source[l].stmt.name) ELSE p.params,
           q.entry = IF Kind(l) = "entry" THEN source[l].stmt.name ELSE p.entry,
           q.shared = IF Kind(l) = "shared" THEN source[l].stmt.bytes ELSE p.shared
    PROVE  DirectivesRead(l + 1, q)
<1>1. \A k \in Lines : k < l + 1 <=> k < l \/ k = l
  BY LinesAre
<1>2. q.params = ParamsBefore(l + 1)
  BY ParamsBeforeIs DEF DirectivesRead
<1>3. Distinct(q.params)
  <2>1. CASE Kind(l) = "param"
    <3>1. /\ ParamsBefore(l) \in Seq(Names) /\ source[l].stmt.name \in Names
          /\ ~Contains(ParamsBefore(l), source[l].stmt.name)
      BY <2>1, LinesAre, ParamsBeforeIs, StatementIs, Unfaulty
    <3> DEFINE s == ParamsBefore(l)
               e == source[l].stmt.name
    <3>2. /\ Len(s) \in Nat /\ DOMAIN s = 1..Len(s) /\ DOMAIN Append(s, e) = 1..Len(s) + 1
          /\ \A k \in 1..Len(s) : Append(s, e)[k] = s[k]
          /\ Append(s, e)[Len(s) + 1] = e
      BY <3>1, Appended
    <3>3. \A k \in 1..Len(s) : s[k] # e
      BY <3>1, <3>2 DEF Contains
    <3>4. Distinct(s) /\ q.params = Append(s, e)
      BY <2>1 DEF DirectivesRead
    <3>5. \A k \in 1..Len(s) + 1 : k \in 1..Len(s) \/ k = Len(s) + 1
      BY <3>2
    <3> DEFINE t == Append(s, e)
               n == Len(s)
    <3>6. /\ DOMAIN t = 1..n + 1 /\ DOMAIN s = 1..n /\ \A k \in 1..n : t[k] = s[k] /\ s[k] # e
          /\ t[n + 1] = e /\ \A k \in 1..n + 1 : k \in 1..n \/ k = n + 1
      BY <3>2, <3>3, <3>5
    <3>7. q.params = t
      BY <3>4
    <3> HIDE DEF s, e, t, n
    <3>8. ASSUME NEW j \in 1..n + 1, NEW k \in 1..n + 1, t[j] = t[k] PROVE j = k
      <4>1. CASE j \in 1..n /\ k \in 1..n
        <5>1. s[j] = s[k]
          BY <3>6, <3>8, <4>1
        <5> QED
          BY <3>4, <3>6, <4>1, <5>1 DEF Distinct
      <4>2. CASE j = n + 1 \/ k = n + 1
        BY <3>6, <3>8, <4>2
      <4> QED
        BY <3>6, <4>1, <4>2
    <3> QED
      BY <3>6, <3>7, <3>8 DEF Distinct
  <2>2. CASE Kind(l) # "param"
    BY <2>2 DEF DirectivesRead
  <2> QED
    BY <2>1, <2>2
<1>4. \/ q.entry = NoName /\ \A k \in Lines : k < l + 1 => Kind(k) # "entry"
      \/ q.entry # NoName
         /\ \E k \in Lines : k < l + 1 /\ Kind(k) = "entry" /\ source[k].stmt.name = q.entry
  <2>1. Kind(l) = "entry" => source[l].stmt.name \in Names /\ NoName \notin Names
    BY StatementIs, AssemblerAssumption
  <2> QED
    BY <1>1, <2>1 DEF DirectivesRead
<1>5. q.shared \in 0..Immediates - 1
  <2>1. Kind(l) = "shared" => source[l].stmt.bytes \in Nat /\ source[l].stmt.bytes < Immediates
    BY StatementIs, Unfaulty
  <2> QED
    BY <2>1, HalfIs DEF DirectivesRead
<1>6. \/ q.shared = 0 /\ \A k \in Lines : k < l + 1 => Kind(k) # "shared"
      \/ \E k \in Lines : k < l + 1 /\ Kind(k) = "shared" /\ source[k].stmt.bytes = q.shared
  BY <1>1 DEF DirectivesRead
<1> QED
  BY <1>2, <1>3, <1>4, <1>5, <1>6 DEF DirectivesRead

LEMMA WordsStay ==
    ASSUME Typed, NEW l \in Lines, NEW words, NEW imm, WordsRead(l, words, imm),
           l \notin InstructionLines
    PROVE  WordsRead(l + 1, words, imm)
<1>1. PCOf(l + 1) = PCOf(l)
  <2>1. PCOf(l) \in Nat
    BY PCOfIs, LinesAre
  <2> QED
    BY <2>1, PCOfIs
<1>2. \A k \in InstructionLines : k < l + 1 => k < l
  BY LinesAre
<1> QED
  BY <1>1, <1>2 DEF WordsRead

LEMMA WordsAdvance ==
    ASSUME Typed, NEW l \in InstructionLines, NEW words, NEW imm, WordsRead(l, words, imm),
           NEW i \in Parsed(source[l].stmt, ParamsBefore(l)), NEW next,
           \A k \in BranchLines : k < l => next[k] = imm[k],
           l \in BranchLines => next[l] = i.imm
    PROVE  WordsRead(l + 1, Append(words, Packed(i)), next)
<1>1. /\ l \in Lines /\ l \in 1..Len(source) + 1 /\ l + 1 \in 1..Len(source) + 1
      /\ InstructionLines \subseteq Lines /\ BranchLines \subseteq InstructionLines
      /\ \A k \in Lines : k < l + 1 <=> k < l \/ k = l
      /\ \A k \in Lines : k \in Nat /\ k \in 1..Len(source) + 1
  BY LinesAre
<1>2. PCOf(l) \in Nat /\ PCOf(l + 1) = PCOf(l) + 1
  BY <1>1, PCOfIs
<1>3. Valid(i)
  BY InstructionReads
<1>4. Packed(i) \in Nat
  BY <1>3, WordBack
<1>5. words \in Seq(Nat) /\ Len(words) = PCOf(l)
  BY DEF WordsRead
<1> DEFINE w == Append(words, Packed(i))
<1>6. /\ w \in Seq(Nat) /\ Len(w) = PCOf(l) + 1
      /\ \A k \in 1..PCOf(l) : w[k] = words[k]
      /\ w[PCOf(l) + 1] = Packed(i)
  BY <1>4, <1>5, Appended
<1>7. \A k \in InstructionLines : k < l => PCOf(k) + 1 \in 1..PCOf(l)
  <2> SUFFICES ASSUME NEW k \in InstructionLines, k < l PROVE PCOf(k) + 1 \in 1..PCOf(l)
    OBVIOUS
  <2>1. k \in 1..l /\ k # l /\ PCOf(k) \in Nat
    BY <1>1, PCOfIs
  <2>2. PCOf(k) + 1 <= PCOf(l)
    BY <1>1, <2>1, PCOrder
  <2> QED
    BY <1>2, <2>1, <2>2
<1> HIDE DEF w
<1>8. \A k \in InstructionLines : k < l =>
          \E j \in Parsed(source[k].stmt, ParamsBefore(k)) :
              w[PCOf(k) + 1] = Packed(IF k \in BranchLines THEN [j EXCEPT !.imm = next[k]] ELSE j)
  BY <1>6, <1>7 DEF WordsRead
<1>9. w[PCOf(l) + 1] = Packed(IF l \in BranchLines THEN [i EXCEPT !.imm = next[l]] ELSE i)
  <2>1. [i EXCEPT !.imm = i.imm] = i
    BY <1>3 DEF Valid, InstructionType
  <2> QED
    BY <1>6, <2>1
<1> QED
  BY <1>1, <1>2, <1>6, <1>8, <1>9 DEF WordsRead, w

LEMMA LabelsStay ==
    ASSUME Typed, NEW l \in Lines, NEW pcs, NEW names, LabelsRead(l, pcs, names),
           source[l].label = NoName
    PROVE  LabelsRead(l + 1, pcs, names)
<1>1. \A k \in Lines : k < l + 1 <=> k < l \/ k = l
  BY LinesAre
<1> QED
  BY <1>1 DEF LabelsRead

LEMMA HalvesOfPC ==
    \A n \in Nat : n % Halves \in PC /\ (n <= NoReconv => n % Halves = n)
<1> SUFFICES ASSUME NEW n \in Nat PROVE n % Halves \in PC /\ (n <= NoReconv => n % Halves = n)
  OBVIOUS
<1>1. Halves \in Nat \ {0} /\ NoReconv = Halves - 1
  BY HalfIs
<1>2. n % Halves \in 0..Halves - 1
  BY <1>1
<1>3. ASSUME n <= NoReconv PROVE n % Halves = n
  <2>1. n \in 0..Halves - 1 /\ 0 * Halves + n = n /\ 0 \in Nat
    BY <1>1, <1>3
  <2>2. (0 * Halves + n) % Halves = n
    BY <1>1, <2>1, DivUnique
  <2> QED
    BY <2>1, <2>2
<1> QED
  BY <1>1, <1>2, <1>3 DEF PC

LEMMA LabelsAdvance ==
    ASSUME Typed, NEW l \in Lines, ~Faulty(l), NEW pcs, NEW names, LabelsRead(l, pcs, names),
           source[l].label # NoName
    PROVE  LET name == source[l].label
               here == PCOf(l) % Halves
           IN  LabelsRead(l + 1, Emplace(pcs, name, here), Emplace(names, here, name))
<1> DEFINE name == source[l].label
           here == PCOf(l) % Halves
           P == Emplace(pcs, name, here)
           N == Emplace(names, here, name)
<1>1. \A k \in Lines : k < l + 1 <=> k < l \/ k = l
  BY LinesAre
<1>2. name \in Names /\ here \in PC
  <2>1. PCOf(l) \in Nat
    BY PCOfIs, LinesAre
  <2> QED
    BY <2>1, LineIs, HalvesOfPC
<1>3. \A k \in Lines : k < l => source[k].label # name
  BY Unfaulty
<1> HIDE DEF name, here
<1>4. name \notin DOMAIN pcs
  BY <1>3 DEF LabelsRead
<1>5. /\ DOMAIN P = DOMAIN pcs \cup {name} /\ P[name] = here
      /\ \A x \in DOMAIN pcs : P[x] = pcs[x]
  BY <1>4 DEF Emplace
<1>6. /\ DOMAIN N = DOMAIN names \cup {here}
      /\ here \notin DOMAIN names => N[here] = name
      /\ \A x \in DOMAIN names : N[x] = names[x]
  BY DEF Emplace
<1>7. P \in [DOMAIN P -> PC]
  <2>1. \A x \in DOMAIN pcs : pcs[x] \in PC
    BY DEF LabelsRead
  <2> QED
    BY <1>2, <2>1 DEF Emplace
<1>8. N \in [DOMAIN N -> Names]
  <2>1. \A x \in DOMAIN names : names[x] \in Names
    BY DEF LabelsRead
  <2> QED
    BY <1>2, <2>1 DEF Emplace
<1> HIDE DEF P, N
<1>9. name # NoName /\ source[l].label = name
  BY DEF name
<1>10. \A x : x \in DOMAIN P <=> x # NoName /\ \E k \in Lines : k < l + 1 /\ source[k].label = x
  BY <1>1, <1>5, <1>9 DEF LabelsRead
<1>11. \A k \in Lines : k < l + 1 /\ source[k].label # NoName =>
                            P[source[k].label] = PCOf(k) % Halves
  <2>1. \A k \in Lines : k < l /\ source[k].label # NoName =>
            source[k].label \in DOMAIN pcs /\ pcs[source[k].label] = PCOf(k) % Halves
    BY DEF LabelsRead
  <2>2. P[source[l].label] = PCOf(l) % Halves
    BY <1>5, <1>9 DEF here
  <2> QED
    BY <1>1, <1>5, <2>1, <2>2
<1>12. \A pc \in DOMAIN N : N[pc] \in DOMAIN P /\ P[N[pc]] = pc
  <2>1. \A pc \in DOMAIN names : names[pc] \in DOMAIN pcs /\ pcs[names[pc]] = pc
    BY DEF LabelsRead
  <2>2. \A pc \in DOMAIN names : N[pc] \in DOMAIN P /\ P[N[pc]] = pc
    BY <1>5, <1>6, <2>1
  <2>3. here \notin DOMAIN names => N[here] \in DOMAIN P /\ P[N[here]] = here
    BY <1>5, <1>6
  <2> QED
    BY <1>6, <2>2, <2>3
<1>13. \A x \in DOMAIN P : P[x] \in DOMAIN N
  <2>1. \A x \in DOMAIN pcs : pcs[x] \in DOMAIN names
    BY DEF LabelsRead
  <2> QED
    BY <1>5, <1>6, <2>1
<1> QED
  BY <1>7, <1>8, <1>10, <1>11, <1>12, <1>13 DEF LabelsRead, P, N, name, here

LEMMA PendingStay ==
    ASSUME Typed, NEW l \in Lines, NEW branches, PendingRead(l, branches)
    PROVE  PendingRead(l + 1, branches)
<1>1. BranchLines \subseteq Lines /\ \A k \in Lines : k < l => k < l + 1
  BY LinesAre
<1> QED
  BY <1>1 DEF PendingRead

LEMMA PendingAdvance ==
    ASSUME Typed, NEW l \in BranchLines, LabelOf(l) \in Names,
           NEW branches, PendingRead(l, branches)
    PROVE  LET b == [pc |-> PCOf(l), line |-> l, label |-> LabelOf(l)]
           IN  /\ PendingRead(l + 1, Append(branches, b))
               /\ \A k : Waits(k, Append(branches, b)) <=> Waits(k, branches) \/ k = l
<1> DEFINE B == [pc : Nat, line : Nat, label : Names]
           b == [pc |-> PCOf(l), line |-> l, label |-> LabelOf(l)]
           A == Append(branches, b)
           n == Len(branches)
<1>1. /\ l \in Lines /\ l \in Nat /\ BranchLines \subseteq Lines /\ PCOf(l) \in Nat
      /\ \A k \in Lines : k \in Nat /\ (k < l + 1 <=> k < l \/ k = l)
  <2>1. /\ l \in Lines /\ l \in Nat /\ BranchLines \subseteq Lines /\ l \in 1..Len(source) + 1
        /\ \A k \in Lines : k \in Nat /\ (k < l + 1 <=> k < l \/ k = l)
    BY LinesAre
  <2> QED
    BY <2>1, PCOfIs
<1>2. b \in B /\ b.pc = PCOf(l) /\ b.line = l /\ b.label = LabelOf(l)
  BY <1>1
<1>3. branches \in Seq(B)
  BY DEF PendingRead
<1> HIDE DEF b, B
<1>4. /\ A \in Seq(B) /\ n \in Nat /\ DOMAIN branches = 1..n /\ DOMAIN A = 1..n + 1
      /\ \A k \in 1..n : A[k] = branches[k]
      /\ A[n + 1] = b
  BY <1>2, <1>3, Appended
<1> HIDE DEF A, n
<1>5. /\ \A j \in 1..n + 1 : j \in 1..n \/ j = n + 1
      /\ \A j \in 1..n : j \in 1..n + 1
      /\ n + 1 \in 1..n + 1
      /\ \A i, j \in 1..n + 1 : i < j => i \in 1..n
  BY <1>4
<1>6. \A k : Waits(k, A) <=> Waits(k, branches) \/ k = l
  BY <1>2, <1>4, <1>5 DEF Waits
<1>7. \A j \in 1..n : /\ branches[j].line \in BranchLines /\ branches[j].line < l
                      /\ branches[j].pc = PCOf(branches[j].line)
                      /\ branches[j].label = LabelOf(branches[j].line)
  BY <1>4 DEF PendingRead
<1>8. \A j \in DOMAIN A : /\ A[j].line \in BranchLines /\ A[j].line < l + 1
                          /\ A[j].pc = PCOf(A[j].line)
                          /\ A[j].label = LabelOf(A[j].line)
  BY <1>1, <1>2, <1>4, <1>5, <1>7
<1>9. \A i, j \in DOMAIN A : i < j => A[i].line < A[j].line
  <2> SUFFICES ASSUME NEW i \in 1..n + 1, NEW j \in 1..n + 1, i < j
               PROVE  A[i].line < A[j].line
    BY <1>4
  <2>1. i \in 1..n
    BY <1>5
  <2>2. CASE j \in 1..n
    BY <1>4, <2>1, <2>2 DEF PendingRead
  <2>3. CASE j = n + 1
    BY <1>2, <1>4, <1>7, <2>1, <2>3
  <2> QED
    BY <1>5, <2>2, <2>3
<1> QED
  BY <1>4, <1>6, <1>8, <1>9 DEF PendingRead, A, b, B

-----------------------------------------------------------------------------
(* The actions of the first pass                                           *)

\* Parser::run accepts a line exactly if it has no fault.
LEMMA AcceptedIs ==
    ASSUME Typed, line \in Lines, DirectivesRead(line, program), NEW imm,
           WordsRead(line, program.words, imm), LabelsRead(line, labels, program.labels)
    PROVE  Accepted(source[line]) <=> ~Faulty(line)
<1> DEFINE l == source[line]
           kind == Kind(line)
<1>1. /\ line \in 1..Len(source) + 1 /\ InstructionLines \subseteq Lines
      /\ \A k \in Lines : k \in Nat /\ k \in 1..Len(source) + 1
      /\ \A j : j \in 1..line - 1 <=> j \in Lines /\ j < line
  BY LinesAre
<1>2. /\ l.label \in Names \cup {NoName}
      /\ kind \in {"none", "unknown", "entry", "param", "shared", "instruction"}
  BY LineIs
<1>3. l.label \in DOMAIN labels <=> l.label # NoName /\ \E j \in LabelLines(l.label) : j < line
  BY DEF LabelsRead, LabelLines
<1>4. program.params = ParamsBefore(line)
  BY DEF DirectivesRead
<1>5. program.entry = NoName <=> \A k \in Lines : k < line => Kind(k) # "entry"
  BY DEF DirectivesRead
<1>6. program.words = <<>> <=> \A k \in Lines : k < line => Kind(k) # "instruction"
  <2>1. program.words \in Seq(Nat) /\ Len(program.words) = PCOf(line)
    BY DEF WordsRead
  <2>2. program.words = <<>> <=> PCOf(line) = 0
    BY <2>1, EmptySeq
  <2>3. ASSUME NEW k \in Lines, k < line, Kind(k) = "instruction" PROVE PCOf(line) # 0
    <3>1. k \in 1..line /\ k # line /\ k \in InstructionLines
      BY <1>1, <2>3 DEF InstructionLines
    <3>2. PCOf(k) + 1 <= PCOf(line) /\ PCOf(k) \in Nat /\ PCOf(line) \in Nat
      BY <1>1, <3>1, PCOrder, PCOfIs
    <3> QED
      BY <3>2
  <2>4. ASSUME \A k \in Lines : k < line => Kind(k) # "instruction" PROVE PCOf(line) = 0
    <3>1. {j \in InstructionLines : j < line} = {}
      BY <2>4 DEF InstructionLines
    <3> QED
      BY <3>1, FS_EmptySet DEF PCOf
  <2> QED
    BY <2>2, <2>3, <2>4
<1>7. CASE kind = "entry"
  <2>1. Accepted(l) <=> l.label = NoName /\ EntryAllowed
    BY <1>7 DEF Accepted, Kind
  <2>2. EntryAllowed <=> ~\E j \in 1..line - 1 : Kind(j) \in {"entry", "instruction"}
    BY <1>1, <1>5, <1>6 DEF EntryAllowed
  <2> QED
    BY <1>7, <2>1, <2>2 DEF Faulty
<1>8. CASE kind = "param"
  BY <1>4, <1>8 DEF Accepted, Kind, Faulty
<1>9. CASE kind = "shared"
  <2>1. Accepted(l) <=> l.label = NoName /\ l.stmt.bytes < Immediates
    BY <1>9 DEF Accepted, Kind
  <2>2. l.stmt.bytes \in Nat /\ Immediates \in Nat
    BY <1>9, StatementIs, HalfIs
  <2> QED
    BY <1>9, <2>1, <2>2 DEF Faulty
<1>10. CASE kind = "none"
  <2>1. Accepted(l) <=> l.label \notin DOMAIN labels
    BY <1>10 DEF Accepted, Kind
  <2> QED
    BY <1>3, <1>10, <2>1 DEF Faulty
<1>11. CASE kind = "instruction"
  <2>1. Accepted(l) <=> /\ l.label \notin DOMAIN labels
                        /\ \E i \in Parsed(l.stmt, program.params) : Validate(i) = "none"
    BY <1>11 DEF Accepted, Kind
  <2>2. line \in InstructionLines
    BY <1>11 DEF InstructionLines
  <2>3. (\E i \in Parsed(l.stmt, program.params) : Validate(i) = "none")
        <=> Parsed(l.stmt, program.params) # {}
    BY <1>4, <2>2, InstructionReads DEF Valid
  <2> QED
    BY <1>3, <1>4, <1>11, <2>1, <2>3 DEF Faulty
<1>12. CASE kind = "unknown"
  BY <1>12 DEF Accepted, Kind, Faulty
<1> QED
  BY <1>2, <1>7, <1>8, <1>9, <1>10, <1>11, <1>12

\* How a program changes, field by field.
LEMMA EditEntry ==
    ASSUME NEW p, Fielded(p), NEW x, NEW q, q = [p EXCEPT !.entry = x]
    PROVE  /\ Fielded(q)
           /\ q.entry = x /\ q.params = p.params /\ q.shared = p.shared
           /\ q.words = p.words /\ q.labels = p.labels
<1> DEFINE E == p.entry
           P == p.params
           S == p.shared
           W == p.words
           L == p.labels
<1>1. p = [entry |-> E, params |-> P, shared |-> S, words |-> W, labels |-> L]
  BY DEF Fielded
<1> HIDE DEF E, P, S, W, L
<1>2. q = [entry |-> x, params |-> P, shared |-> S, words |-> W, labels |-> L]
  BY <1>1
<1> QED
  BY <1>2 DEF Fielded, E, P, S, W, L

LEMMA EditParams ==
    ASSUME NEW p, Fielded(p), NEW x, NEW q, q = [p EXCEPT !.params = x]
    PROVE  /\ Fielded(q)
           /\ q.entry = p.entry /\ q.params = x /\ q.shared = p.shared
           /\ q.words = p.words /\ q.labels = p.labels
<1> DEFINE E == p.entry
           P == p.params
           S == p.shared
           W == p.words
           L == p.labels
<1>1. p = [entry |-> E, params |-> P, shared |-> S, words |-> W, labels |-> L]
  BY DEF Fielded
<1> HIDE DEF E, P, S, W, L
<1>2. q = [entry |-> E, params |-> x, shared |-> S, words |-> W, labels |-> L]
  BY <1>1
<1> QED
  BY <1>2 DEF Fielded, E, P, S, W, L

LEMMA EditShared ==
    ASSUME NEW p, Fielded(p), NEW x, NEW q, q = [p EXCEPT !.shared = x]
    PROVE  /\ Fielded(q)
           /\ q.entry = p.entry /\ q.params = p.params /\ q.shared = x
           /\ q.words = p.words /\ q.labels = p.labels
<1> DEFINE E == p.entry
           P == p.params
           S == p.shared
           W == p.words
           L == p.labels
<1>1. p = [entry |-> E, params |-> P, shared |-> S, words |-> W, labels |-> L]
  BY DEF Fielded
<1> HIDE DEF E, P, S, W, L
<1>2. q = [entry |-> E, params |-> P, shared |-> x, words |-> W, labels |-> L]
  BY <1>1
<1> QED
  BY <1>2 DEF Fielded, E, P, S, W, L

LEMMA EditWords ==
    ASSUME NEW p, Fielded(p), NEW x, NEW q, q = [p EXCEPT !.words = x]
    PROVE  /\ Fielded(q)
           /\ q.entry = p.entry /\ q.params = p.params /\ q.shared = p.shared
           /\ q.words = x /\ q.labels = p.labels
<1> DEFINE E == p.entry
           P == p.params
           S == p.shared
           W == p.words
           L == p.labels
<1>1. p = [entry |-> E, params |-> P, shared |-> S, words |-> W, labels |-> L]
  BY DEF Fielded
<1> HIDE DEF E, P, S, W, L
<1>2. q = [entry |-> E, params |-> P, shared |-> S, words |-> x, labels |-> L]
  BY <1>1
<1> QED
  BY <1>2 DEF Fielded, E, P, S, W, L

LEMMA EditLabels ==
    ASSUME NEW p, Fielded(p), NEW x, NEW q, q = [p EXCEPT !.labels = x]
    PROVE  /\ Fielded(q)
           /\ q.entry = p.entry /\ q.params = p.params /\ q.shared = p.shared
           /\ q.words = p.words /\ q.labels = x
<1> DEFINE E == p.entry
           P == p.params
           S == p.shared
           W == p.words
           L == p.labels
<1>1. p = [entry |-> E, params |-> P, shared |-> S, words |-> W, labels |-> L]
  BY DEF Fielded
<1> HIDE DEF E, P, S, W, L
<1>2. q = [entry |-> E, params |-> P, shared |-> S, words |-> W, labels |-> x]
  BY <1>1
<1> QED
  BY <1>2 DEF Fielded, E, P, S, W, L

\* While lines are read, all of Core but the labels that branches wait for is of the lines.
ReadingCore(l, p, pcs, branches) ==
    /\ l \in 1..Len(source) + 1 /\ Fielded(p)
    /\ NoFaultBefore(l) /\ DirectivesRead(l, p)
    /\ WordsRead(l, p.words, ImmIn("parse", branches))
    /\ LabelsRead(l, pcs, p.labels)
    /\ PendingRead(l, branches)
    /\ \A k \in BranchLines : k < l => Waits(k, branches)

LEMMA CoreOfReading ==
    /\ phase = "parse" => (Core <=> ReadingCore(line, program, labels, pending))
    /\ Core /\ phase # "parse" => line = Len(source) + 1
BY DEF Core, ReadingCore

LEMMA SameReadingCore ==
    ASSUME source' = source
    PROVE  \A l, p, pcs, branches :
               ReadingCore(l, p, pcs, branches)' <=> ReadingCore(l, p, pcs, branches)
<1>1. BranchLines' = BranchLines
  BY SameSource
<1> QED
  BY <1>1, SameReading DEF ReadingCore

LEMMA CurrentLine ==
    ASSUME Inv, Reading
    PROVE  /\ Typed /\ line \in Lines /\ phase = "parse"
           /\ ReadingCore(line, program, labels, pending)
           /\ Accepted(source[line]) <=> ~Faulty(line)
           /\ round \in {1, 2} /\ (round = 2 => source = Listing(origin) /\ WellAssembled(origin))
<1>1. /\ Typed /\ phase = "parse" /\ line <= Len(source) /\ Core
      /\ round \in {1, 2} /\ (round = 2 => source = Listing(origin) /\ WellAssembled(origin))
  BY DEF Inv, Reading
<1>2. ReadingCore(line, program, labels, pending)
  BY <1>1, CoreOfReading
<1>3. line \in Lines
  BY <1>1, <1>2, LinesAre DEF ReadingCore
<1>4. Accepted(source[line]) <=> ~Faulty(line)
  BY <1>1, <1>2, <1>3, AcceptedIs DEF ReadingCore
<1> QED
  BY <1>1, <1>2, <1>3, <1>4

\* A step that reads a line leaves what follows of it to show.
LEMMA ReadOn ==
    ASSUME Inv, Reading, UNCHANGED <<source, phase, error, round, origin>>,
           ReadingCore(line', program', labels', pending')
    PROVE  Inv'
<1>1. /\ Typed /\ phase = "parse" /\ round \in {1, 2}
      /\ round = 2 => source = Listing(origin) /\ WellAssembled(origin)
  BY CurrentLine
<1>2. ReadingCore(line, program, labels, pending)'
  BY SameReadingCore
<1>3. Core'
  <2>1. (phase = "parse" => (Core <=> ReadingCore(line, program, labels, pending)))'
    BY CoreOfReading, PTL
  <2> QED
    BY <1>1, <1>2, <2>1
<1>4. Typed'
  BY <1>1 DEF Typed
<1>5. (round = 2 => source = Listing(origin) /\ WellAssembled(origin))'
  BY <1>1
<1> QED
  BY <1>1, <1>3, <1>4, <1>5 DEF Inv

LEMMA DirectiveInv ==
    Inv /\ Directive => Inv'
<1> SUFFICES ASSUME Inv, Directive PROVE Inv'
  OBVIOUS
<1>1. /\ Reading /\ Accepted(source[line]) /\ Kind(line) \in {"entry", "param", "shared"}
      /\ program' = CASE Kind(line) = "entry" -> [program EXCEPT !.entry = source[line].stmt.name]
                      [] Kind(line) = "param" ->
                           [program EXCEPT !.params = Append(@, source[line].stmt.name)]
                      [] Kind(line) = "shared" ->
                           [program EXCEPT !.shared = source[line].stmt.bytes]
      /\ line' = line + 1
      /\ UNCHANGED <<source, labels, pending, phase, error, round, origin>>
  BY DEF Directive, Current, Kind
<1>2. Typed /\ line \in Lines /\ ReadingCore(line, program, labels, pending) /\ ~Faulty(line)
  BY <1>1, CurrentLine
<1>3. /\ line + 1 \in 1..Len(source) + 1 /\ line \notin InstructionLines
      /\ \A k \in BranchLines : k < line + 1 => k < line
  BY <1>1, <1>2, LinesAre DEF InstructionLines
<1>4. source[line].label = NoName
  BY <1>1, <1>2, Unfaulty
<1>5. /\ Fielded(program') /\ program'.words = program.words /\ program'.labels = program.labels
      /\ program'.params = IF Kind(line) = "param"
                           THEN Append(program.params, source[line].stmt.name) ELSE program.params
      /\ program'.entry = IF Kind(line) = "entry" THEN source[line].stmt.name ELSE program.entry
      /\ program'.shared = IF Kind(line) = "shared" THEN source[line].stmt.bytes ELSE program.shared
  <2>1. Fielded(program)
    BY <1>2 DEF ReadingCore
  <2>2. CASE Kind(line) = "entry"
    BY <1>1, <2>1, <2>2, EditEntry
  <2>3. CASE Kind(line) = "param"
    <3> DEFINE params == Append(program.params, source[line].stmt.name)
    <3>1. program' = [program EXCEPT !.params = params]
      BY <1>1, <2>3
    <3> HIDE DEF params
    <3>2. /\ Fielded(program') /\ program'.words = program.words /\ program'.labels = program.labels
          /\ program'.params = params
          /\ program'.entry = program.entry /\ program'.shared = program.shared
      BY <2>1, <3>1, EditParams
    <3> QED
      BY <2>3, <3>2 DEF params
  <2>4. CASE Kind(line) = "shared"
    BY <1>1, <2>1, <2>4, EditShared
  <2> QED
    BY <1>1, <2>2, <2>3, <2>4
<1>6. DirectivesRead(line + 1, program')
  BY <1>2, <1>5, DirectivesAdvance DEF ReadingCore
<1>7. ReadingCore(line + 1, program', labels, pending)
  <2>1. NoFaultBefore(line + 1)
    BY <1>2, FaultAdvance DEF ReadingCore
  <2>2. WordsRead(line + 1, program'.words, ImmIn("parse", pending))
    BY <1>2, <1>3, <1>5, WordsStay DEF ReadingCore
  <2>3. LabelsRead(line + 1, labels, program'.labels)
    BY <1>2, <1>4, <1>5, LabelsStay DEF ReadingCore
  <2>4. PendingRead(line + 1, pending)
    BY <1>2, PendingStay DEF ReadingCore
  <2> QED
    BY <1>2, <1>3, <1>5, <1>6, <2>1, <2>2, <2>3, <2>4 DEF ReadingCore
<1> QED
  BY <1>1, <1>7, ReadOn

\* The label of an accepted line, before its instruction if it has one.
LEMMA LabelInv ==
    ASSUME Typed, line \in Lines, ~Faulty(line), NEW p, Fielded(p),
           LabelsRead(line, labels, p.labels), Here = PCOf(line) % Halves
    PROVE  /\ LabelsRead(line + 1, LabelsAfter, Labelled(p).labels)
           /\ Fielded(Labelled(p)) /\ Labelled(p).words = p.words /\ Labelled(p).entry = p.entry
           /\ Labelled(p).params = p.params /\ Labelled(p).shared = p.shared
<1> DEFINE name == source[line].label
<1>1. CASE name = NoName
  <2>1. Labelled(p) = p /\ LabelsAfter = labels
    BY <1>1 DEF Labelled, LabelsAfter, Current
  <2> QED
    BY <1>1, <2>1, LabelsStay
<1>2. CASE name # NoName
  <2>1. /\ Labelled(p) = [p EXCEPT !.labels = Emplace(p.labels, Here, name)]
        /\ LabelsAfter = Emplace(labels, name, Here)
    BY <1>2 DEF Labelled, LabelsAfter, Current
  <2>2. /\ Fielded(Labelled(p)) /\ Labelled(p).words = p.words /\ Labelled(p).entry = p.entry
        /\ Labelled(p).params = p.params /\ Labelled(p).shared = p.shared
        /\ Labelled(p).labels = Emplace(p.labels, Here, name)
    BY <2>1, EditLabels
  <2>3. LabelsRead(line + 1, Emplace(labels, name, Here), Emplace(p.labels, Here, name))
    BY <1>2, LabelsAdvance
  <2> QED
    BY <2>1, <2>2, <2>3
<1> QED
  BY <1>1, <1>2

LEMMA LabelLineInv ==
    Inv /\ LabelLine => Inv'
<1> SUFFICES ASSUME Inv, LabelLine PROVE Inv'
  OBVIOUS
<1>1. /\ Reading /\ Accepted(source[line]) /\ Kind(line) = "none"
      /\ program' = Labelled(program) /\ labels' = LabelsAfter /\ line' = line + 1
      /\ UNCHANGED <<source, pending, phase, error, round, origin>>
  BY DEF LabelLine, Current, Kind
<1>2. Typed /\ line \in Lines /\ ReadingCore(line, program, labels, pending) /\ ~Faulty(line)
  BY <1>1, CurrentLine
<1>3. /\ line + 1 \in 1..Len(source) + 1 /\ line \notin InstructionLines
      /\ \A k \in BranchLines : k < line + 1 => k < line
  BY <1>1, <1>2, LinesAre DEF InstructionLines
<1>4. Here = PCOf(line) % Halves
  BY <1>2 DEF ReadingCore, WordsRead, Here
<1>5. /\ LabelsRead(line + 1, labels', program'.labels)
      /\ Fielded(program') /\ program'.words = program.words /\ program'.entry = program.entry
      /\ program'.params = program.params /\ program'.shared = program.shared
  BY <1>1, <1>2, <1>4, LabelInv DEF ReadingCore
<1>6. DirectivesRead(line + 1, program')
  <2>1. DirectivesRead(line, program)
    BY <1>2 DEF ReadingCore
  <2>2. Kind(line) # "param" /\ Kind(line) # "entry" /\ Kind(line) # "shared"
    BY <1>1
  <2> QED
    BY <1>2, <1>5, <2>1, <2>2, DirectivesAdvance
<1>7. ReadingCore(line + 1, program', labels', pending)
  <2>1. NoFaultBefore(line + 1)
    BY <1>2, FaultAdvance DEF ReadingCore
  <2>2. WordsRead(line + 1, program'.words, ImmIn("parse", pending))
    BY <1>2, <1>3, <1>5, WordsStay DEF ReadingCore
  <2>3. PendingRead(line + 1, pending)
    BY <1>2, PendingStay DEF ReadingCore
  <2> QED
    BY <1>2, <1>3, <1>5, <1>6, <2>1, <2>2, <2>3 DEF ReadingCore
<1> QED
  BY <1>1, <1>7, ReadOn

LEMMA StatementInv ==
    Inv /\ Statement => Inv'
<1> SUFFICES ASSUME Inv, Statement PROVE Inv'
  OBVIOUS
<1> DEFINE b == [pc |-> Len(program.words), line |-> line, label |-> LabelOf(line)]
<1>1. /\ Reading /\ Accepted(source[line]) /\ Kind(line) = "instruction"
      /\ \E i \in Parsed(source[line].stmt, program.params) :
             program' = Labelled([program EXCEPT !.words = Append(@, Packed(i))])
      /\ labels' = LabelsAfter /\ line' = line + 1
      /\ pending' = IF source[line].stmt.opcode \notin Bra THEN pending ELSE Append(pending, b)
      /\ UNCHANGED <<source, phase, error, round, origin>>
  BY DEF Statement, Current, Kind, LabelOf
<1>2. Typed /\ line \in Lines /\ ReadingCore(line, program, labels, pending) /\ ~Faulty(line)
  BY <1>1, CurrentLine
<1>3. /\ line \in InstructionLines /\ line \in Nat
      /\ (line \in BranchLines <=> source[line].stmt.opcode \in Bra)
  BY <1>1, <1>2, LinesAre DEF InstructionLines, BranchLines
<1>4. /\ line + 1 \in 1..Len(source) + 1
      /\ \A k \in BranchLines : k \in Nat /\ (k < line + 1 => k < line \/ k = line)
  BY <1>2, LinesAre
<1>5. Len(program.words) = PCOf(line) /\ Here = PCOf(line) % Halves
      /\ program.params = ParamsBefore(line) /\ Fielded(program)
  BY <1>2 DEF ReadingCore, WordsRead, DirectivesRead, Here
<1>6. PICK i \in Parsed(source[line].stmt, ParamsBefore(line)) :
          program' = Labelled([program EXCEPT !.words = Append(program.words, Packed(i))])
  BY <1>1, <1>5
<1> DEFINE p == [program EXCEPT !.words = Append(program.words, Packed(i))]
<1>7. /\ Fielded(p) /\ p.entry = program.entry /\ p.params = program.params
      /\ p.shared = program.shared /\ p.words = Append(program.words, Packed(i))
      /\ p.labels = program.labels
  BY <1>5, EditWords
<1> HIDE DEF p
<1>8. /\ LabelsRead(line + 1, labels', program'.labels)
      /\ Fielded(program') /\ program'.words = p.words /\ program'.entry = p.entry
      /\ program'.params = p.params /\ program'.shared = p.shared
  <2>1. LabelsRead(line, labels, p.labels)
    BY <1>2, <1>7 DEF ReadingCore
  <2>2. program' = Labelled(p)
    BY <1>6 DEF p
  <2> QED
    BY <1>1, <1>2, <1>5, <1>7, <2>1, <2>2, LabelInv
<1>9. DirectivesRead(line + 1, program')
  <2>1. DirectivesRead(line, program)
    BY <1>2 DEF ReadingCore
  <2>2. Kind(line) # "param" /\ Kind(line) # "entry" /\ Kind(line) # "shared"
    BY <1>1
  <2> QED
    BY <1>2, <1>7, <1>8, <2>1, <2>2, DirectivesAdvance
<1>10. /\ PendingRead(line + 1, pending')
       /\ \A k : Waits(k, pending') <=> Waits(k, pending) \/ (k = line /\ line \in BranchLines)
  <2>1. PendingRead(line, pending)
    BY <1>2 DEF ReadingCore
  <2>2. CASE line \in BranchLines
    <3>1. LabelOf(line) \in Names
      BY <1>2, <1>3, <1>6, <2>2, InstructionReads
    <3> QED
      BY <1>1, <1>2, <1>3, <1>5, <2>1, <2>2, <3>1, PendingAdvance
  <2>3. CASE line \notin BranchLines
    BY <1>1, <1>2, <1>3, <2>1, <2>3, PendingStay
  <2> QED
    BY <2>2, <2>3
<1>11. WordsRead(line + 1, program'.words, ImmIn("parse", pending'))
  <2> DEFINE old == ImmIn("parse", pending)
             new == ImmIn("parse", pending')
  <2>1. \A k \in BranchLines : k < line => Waits(k, pending)
    BY <1>2 DEF ReadingCore
  <2>2. \A k \in BranchLines : k < line => new[k] = old[k]
    BY <1>10, <2>1 DEF ImmIn
  <2>3. line \in BranchLines => new[line] = NoReconv * Halves
    BY <1>10 DEF ImmIn
  <2>4. line \in BranchLines => i.imm = NoReconv * Halves
    BY <1>2, <1>3, InstructionReads
  <2>5. WordsRead(line, program.words, old)
    BY <1>2 DEF ReadingCore
  <2> HIDE DEF old, new
  <2>6. WordsRead(line + 1, Append(program.words, Packed(i)), new)
    BY <1>2, <1>3, <2>2, <2>3, <2>4, <2>5, WordsAdvance
  <2> QED
    BY <1>7, <1>8, <2>6 DEF new
<1>12. ReadingCore(line + 1, program', labels', pending')
  <2>1. NoFaultBefore(line + 1)
    BY <1>2, FaultAdvance DEF ReadingCore
  <2>2. \A k \in BranchLines : k < line + 1 => Waits(k, pending')
    BY <1>2, <1>4, <1>10 DEF ReadingCore
  <2> QED
    BY <1>4, <1>8, <1>9, <1>10, <1>11, <2>1, <2>2 DEF ReadingCore
<1> QED
  BY <1>1, <1>12, ReadOn

-----------------------------------------------------------------------------
(* Refusals, and the end of the first pass                                 *)

\* The line e is the one that a refusal of the source should name.
NamesFirst(e) ==
    LET faulty == {k \in Lines : Faulty(k)}
        whole == (\E k \in Lines : Kind(k) = "entry") /\ Cardinality(InstructionLines) <= NoReconv
        unlabelled == {k \in BranchLines : LabelLines(LabelOf(k)) = {}}
        outside == {k \in BranchLines : TargetOf(k) = Cardinality(InstructionLines)}
    IN  CASE faulty # {} -> e = Min(faulty)
          [] faulty = {} /\ ~whole -> e = 1
          [] faulty = {} /\ whole /\ unlabelled # {} -> e = Min(unlabelled)
          [] OTHER -> outside # {} /\ e = 0

LEMMA SameNames ==
    ASSUME source' = source
    PROVE  \A e : NamesFirst(e)' <=> NamesFirst(e)
<1>1. /\ Lines' = Lines /\ InstructionLines' = InstructionLines /\ BranchLines' = BranchLines
      /\ \A k : /\ Kind(k)' = Kind(k) /\ TargetOf(k)' = TargetOf(k)
                /\ LabelOf(k)' = LabelOf(k) /\ Faulty(k)' = Faulty(k)
      /\ \A x : LabelLines(x)' = LabelLines(x)
  BY SameSource
<1>2. /\ {k \in Lines : Faulty(k)}' = {k \in Lines : Faulty(k)}
      /\ {k \in BranchLines : LabelLines(LabelOf(k)) = {}}' =
             {k \in BranchLines : LabelLines(LabelOf(k)) = {}}
      /\ {k \in BranchLines : TargetOf(k) = Cardinality(InstructionLines)}' =
             {k \in BranchLines : TargetOf(k) = Cardinality(InstructionLines)}
      /\ ((\E k \in Lines : Kind(k) = "entry") /\ Cardinality(InstructionLines) <= NoReconv)' <=>
             ((\E k \in Lines : Kind(k) = "entry") /\ Cardinality(InstructionLines) <= NoReconv)
  BY <1>1
<1> QED
  BY <1>2 DEF NamesFirst

LEMMA RefuseInv ==
    ASSUME Inv, NEW e, NamesFirst(e), Refuse(e)
    PROVE  Inv'
<1>1. /\ phase' = "refused" /\ error' = e /\ source' = source /\ round' = round /\ origin' = origin
      /\ Typed /\ round \in {1, 2}
      /\ round = 2 => source = Listing(origin) /\ WellAssembled(origin)
  BY DEF Refuse, Inv
<1>2. NamesFirst(error)'
  BY <1>1, SameNames
<1>3. (phase = "refused" /\ NamesFirst(error) => AcceptsOrNamesFirst)'
  BY DEF AcceptsOrNamesFirst, NamesFirst
<1>4. Typed'
  BY <1>1 DEF Typed
<1>5. (round = 2 => source = Listing(origin) /\ WellAssembled(origin))'
  BY <1>1
<1> QED
  BY <1>1, <1>2, <1>3, <1>4, <1>5 DEF Inv

LEMMA RefuseLineInv ==
    Inv /\ RefuseLine => Inv'
<1> SUFFICES ASSUME Inv, RefuseLine PROVE Inv'
  OBVIOUS
<1>1. Reading /\ ~Accepted(source[line]) /\ Refuse(line)
  BY DEF RefuseLine, Current
<1>2. Typed /\ line \in Lines /\ NoFaultBefore(line) /\ Faulty(line)
  BY <1>1, CurrentLine DEF ReadingCore
<1>3. {k \in Lines : Faulty(k)} \in SUBSET Nat /\ line \in {k \in Lines : Faulty(k)}
  BY <1>2, LinesAre
<1>4. \A k \in {j \in Lines : Faulty(j)} : line <= k
  BY <1>2, LinesAre DEF NoFaultBefore
<1>5. Min({k \in Lines : Faulty(k)}) = line
  BY <1>3, <1>4, MinIs
<1>6. NamesFirst(line)
  BY <1>3, <1>5 DEF NamesFirst
<1> QED
  BY <1>1, <1>6, RefuseInv

\* When every line has been read.
AtEnd(p, pcs) ==
    /\ NoFaultBefore(Len(source) + 1) /\ DirectivesRead(Len(source) + 1, p)
    /\ LabelsRead(Len(source) + 1, pcs, p.labels)
    /\ Len(p.words) = PCOf(Len(source) + 1)

LEMMA EndIs ==
    ASSUME Typed, NEW p, NEW pcs, AtEnd(p, pcs)
    PROVE  /\ \A k \in Lines : ~Faulty(k)
           /\ p.entry # NoName <=> \E k \in Lines : Kind(k) = "entry"
           /\ Len(p.words) = Cardinality(InstructionLines) /\ Len(p.words) \in Nat
           /\ \A k \in BranchLines :
                  /\ LabelOf(k) \in Names
                  /\ LabelOf(k) \in DOMAIN pcs <=> LabelLines(LabelOf(k)) # {}
                  /\ LabelOf(k) \in DOMAIN pcs =>
                         /\ TargetOf(k) \in 0..Cardinality(InstructionLines)
                         /\ pcs[LabelOf(k)] = TargetOf(k) % Halves
<1>1. /\ \A k \in Lines : k < Len(source) + 1 /\ k \in 1..Len(source) + 1
      /\ InstructionLines \subseteq Lines /\ BranchLines \subseteq InstructionLines
      /\ Len(source) \in Nat /\ Lines = 1..Len(source)
  BY LinesAre
<1>2. \A k \in Lines : ~Faulty(k)
  BY <1>1 DEF AtEnd, NoFaultBefore
<1>3. p.entry # NoName <=> \E k \in Lines : Kind(k) = "entry"
  BY <1>1 DEF AtEnd, DirectivesRead
<1>4. Len(p.words) = Cardinality(InstructionLines) /\ Len(p.words) \in Nat
  BY PCOfIs, OnePC DEF AtEnd
<1>5. ASSUME NEW k \in BranchLines
      PROVE  /\ LabelOf(k) \in Names
             /\ LabelOf(k) \in DOMAIN pcs <=> LabelLines(LabelOf(k)) # {}
             /\ LabelOf(k) \in DOMAIN pcs =>
                    /\ TargetOf(k) \in 0..Cardinality(InstructionLines)
                    /\ pcs[LabelOf(k)] = TargetOf(k) % Halves
  <2> DEFINE name == LabelOf(k)
  <2>1. name \in Names /\ name # NoName
    <3>1. k \in InstructionLines /\ Parsed(source[k].stmt, ParamsBefore(k)) # {}
      BY <1>1, <1>2, Unfaulty
    <3> QED
      BY <3>1, InstructionReads, AssemblerAssumption
  <2> HIDE DEF name
  <2>2. name \in DOMAIN pcs <=> LabelLines(name) # {}
    BY <1>1, <2>1 DEF AtEnd, LabelsRead, LabelLines
  <2>3. ASSUME name \in DOMAIN pcs
        PROVE  /\ TargetOf(k) \in 0..Cardinality(InstructionLines)
               /\ pcs[name] = TargetOf(k) % Halves
    <3> DEFINE t == CHOOSE j \in LabelLines(name) : TRUE
    <3>1. t \in LabelLines(name)
      BY <2>2, <2>3
    <3>2. TargetOf(k) = PCOf(t)
      BY DEF TargetOf, name
    <3> HIDE DEF t
    <3>3. t \in Lines /\ source[t].label = name /\ t \in 1..Len(source) + 1
      BY <1>1, <3>1 DEF LabelLines
    <3>4. pcs[name] = PCOf(t) % Halves
      BY <1>1, <2>1, <3>3 DEF AtEnd, LabelsRead
    <3>5. /\ PCOf(t) \in Nat /\ PCOf(t) <= PCOf(Len(source) + 1)
          /\ PCOf(Len(source) + 1) = Cardinality(InstructionLines)
      <4>1. Len(source) + 1 \in 1..Len(source) + 1 /\ t \in 1..(Len(source) + 1)
        BY <1>1, <3>3
      <4> QED
        BY <4>1, PCOfIs, PCOrder
    <3> QED
      BY <1>4, <3>2, <3>4, <3>5
  <2> QED
    BY <2>1, <2>2, <2>3 DEF name
<1> QED
  BY <1>2, <1>3, <1>4, <1>5

LEMMA EndOfSourceInv ==
    Inv /\ EndOfSource => Inv'
<1> SUFFICES ASSUME Inv, EndOfSource PROVE Inv'
  OBVIOUS
<1>1. /\ phase = "parse" /\ line = Len(source) + 1 /\ Typed /\ Core /\ round \in {1, 2}
      /\ round = 2 => source = Listing(origin) /\ WellAssembled(origin)
  BY DEF Inv, EndOfSource
<1>2. AtEnd(program, labels)
  BY <1>1 DEF AtEnd, Core, WordsRead
<1>3. /\ \A k \in Lines : ~Faulty(k)
      /\ program.entry # NoName <=> \E k \in Lines : Kind(k) = "entry"
      /\ Len(program.words) = Cardinality(InstructionLines) /\ Len(program.words) \in Nat
  BY <1>1, <1>2, EndIs
<1>4. CASE program.entry = NoName \/ Len(program.words) > NoReconv
  <2>1. Refuse(1)
    BY <1>4 DEF EndOfSource
  <2>2. {k \in Lines : Faulty(k)} = {}
    BY <1>3
  <2>3. ~((\E k \in Lines : Kind(k) = "entry") /\ Cardinality(InstructionLines) <= NoReconv)
    <3>1. NoReconv \in Nat
      BY HalfIs
    <3> QED
      BY <1>3, <1>4, <3>1
  <2>4. NamesFirst(1)
    BY <2>2, <2>3 DEF NamesFirst
  <2> QED
    BY <2>1, <2>4, RefuseInv
<1>5. CASE ~(program.entry = NoName \/ Len(program.words) > NoReconv)
  <2>1. /\ phase' = "resolve"
        /\ UNCHANGED <<source, line, program, labels, pending, error, round, origin>>
    BY <1>5 DEF EndOfSource
  <2>2. Len(program.words) <= NoReconv
    BY <1>3, <1>5, HalfIs
  <2>3. \A k \in BranchLines : Waits(k, pending)
    BY <1>1, LinesAre DEF Core
  <2>4. ImmIn("resolve", pending) = ImmIn("parse", pending)
    BY DEF ImmIn
  <2>5. Core'
    <3>1. BranchLines' = BranchLines
      BY <2>1, SameSource
    <3>2. /\ NoFaultBefore(line)' /\ DirectivesRead(line, program)'
          /\ LabelsRead(line, labels, program.labels)' /\ PendingRead(line, pending)'
      BY <1>1, <2>1, SameReading DEF Core
    <3>3. WordsRead(line, program.words, ImmIn(phase, pending))'
      BY <1>1, <2>1, <2>4, SameReading DEF Core
    <3> QED
      BY <1>1, <1>5, <2>1, <2>2, <2>3, <3>1, <3>2, <3>3 DEF Core
  <2>6. Typed'
    BY <1>1, <2>1 DEF Typed
  <2>7. (round = 2 => source = Listing(origin) /\ WellAssembled(origin))'
    BY <1>1, <2>1
  <2> QED
    BY <1>1, <2>1, <2>5, <2>6, <2>7 DEF Inv
<1> QED
  BY <1>4, <1>5

-----------------------------------------------------------------------------
(* The words of an assembled program                                       *)

\* The two halves of the immediate of a branch.
LEMMA BranchImms ==
    ASSUME NEW t \in PC, NEW r \in PC
    PROVE  /\ MakeBranchImm(t, r) \in 0..Immediates - 1
           /\ MakeBranchImm(t, r) % Halves = t /\ MakeBranchImm(t, r) \div Halves = r
           /\ MakeBranchImm(0, NoReconv) = NoReconv * Halves /\ 0 \in PC /\ NoReconv \in PC
<1>1. /\ Halves \in Nat \ {0} /\ NoReconv = Halves - 1 /\ Immediates = Halves * Halves
      /\ NoReconv \in Nat
  BY HalfIs
<1>2. t \in 0..Halves - 1 /\ r \in Nat /\ t \in Nat /\ r <= Halves - 1
  BY <1>1 DEF PC
<1>3. (r * Halves + t) % Halves = t /\ (r * Halves + t) \div Halves = r
  BY <1>1, <1>2, DivUnique
<1>4. r * Halves + t \in 0..Immediates - 1
  <2>1. \A a, b \in Nat : a < b => a * b + b <= b * b /\ a * b \in Nat
    OBVIOUS
  <2>2. r * Halves + Halves <= Immediates /\ r * Halves \in Nat
    BY <1>1, <1>2, <2>1
  <2> QED
    BY <1>1, <1>2, <2>2
<1>5. NoReconv * Halves + 0 = NoReconv * Halves
  BY <1>1
<1> QED
  BY <1>1, <1>3, <1>4, <1>5 DEF MakeBranchImm, PC

\* Any immediate fits a branch.
LEMMA BranchPatch ==
    ASSUME NEW i, Valid(i), i.opcode \in Bra, NEW v \in 0..Immediates - 1
    PROVE  LET j == [i EXCEPT !.imm = v]
           IN  /\ Valid(j) /\ j.imm = v /\ j.opcode = i.opcode /\ j.present = i.present
               /\ j.negate = i.negate /\ j.pred = i.pred
<1> DEFINE j == [i EXCEPT !.imm = v]
<1>1. /\ i \in [Fields -> Nat] /\ i.present \in Flag /\ i.negate \in Flag /\ i.imm_flag \in Flag
      /\ Validate(i) = "none"
  BY DEF Valid, InstructionType
<1>2. v \in Nat /\ Immediates \in Nat
  BY HalfIs
<1>3. /\ j.opcode = i.opcode /\ j.present = i.present /\ j.negate = i.negate /\ j.pred = i.pred
      /\ j.dst = i.dst /\ j.src0 = i.src0 /\ j.src1 = i.src1 /\ j.imm_flag = i.imm_flag
      /\ j.imm = v /\ j["dst"] = i["dst"] /\ j["src0"] = i["src0"] /\ j["src1"] = i["src1"]
  BY <1>1 DEF Fields
<1>4. j \in InstructionType
  <2>1. j \in [Fields -> Nat]
    BY <1>1, <1>2
  <2> QED
    BY <1>1, <1>3, <2>1 DEF InstructionType
<1> HIDE DEF j
<1>5. /\ GuardFieldsWithoutGuard(j) <=> GuardFieldsWithoutGuard(i)
      /\ OutOfFields(j) <=> OutOfFields(i)
      /\ UnusedRegister(j) <=> UnusedRegister(i)
      /\ ImmediateFlagMismatch(j) <=> ImmediateFlagMismatch(i)
  BY <1>3 DEF GuardFieldsWithoutGuard, OutOfFields, UnusedRegister, ImmediateFlagMismatch
<1>6. UnusedOperand(j) <=> UnusedOperand(i)
  BY <1>3 DEF UnusedOperand, ImmRaw
<1>7. Validate(j) = Validate(i)
  BY <1>3, <1>5, <1>6 DEF Validate
<1> QED
  BY <1>1, <1>3, <1>4, <1>7 DEF Valid, j

\* The immediates that encode accepts in the branches before line l.
InRange(l, imm) == \A k \in BranchLines : k < l => imm[k] \in 0..Immediates - 1

LEMMA WordAt ==
    ASSUME Typed, NEW l \in 1..Len(source) + 1, NEW words, NEW imm, WordsRead(l, words, imm),
           InRange(l, imm), NEW k \in InstructionLines, k < l
    PROVE  LET w == words[PCOf(k) + 1]
               i == Unpacked(w)
           IN  /\ PCOf(k) + 1 \in 1..Len(words) /\ Len(words) = PCOf(l) /\ words \in Seq(Nat)
               /\ Valid(i) /\ Packed(i) = w
               /\ i.opcode = source[k].stmt.opcode /\ i.present = source[k].stmt.present
               /\ i.negate = source[k].stmt.negate /\ i.pred = source[k].stmt.pred
               /\ k \in BranchLines <=> i.opcode \in Bra
               /\ (k \in BranchLines => i.imm = imm[k])
               /\ i.opcode \in Ldp => i.imm < Len(ParamsBefore(k))
               /\ \E j \in Parsed(source[k].stmt, ParamsBefore(k)) :
                      i = IF k \in BranchLines THEN [j EXCEPT !.imm = imm[k]] ELSE j
<1> DEFINE s == source[k].stmt
           P == Parsed(s, ParamsBefore(k))
           w == words[PCOf(k) + 1]
<1>1. PICK j \in P : w = Packed(IF k \in BranchLines THEN [j EXCEPT !.imm = imm[k]] ELSE j)
  BY DEF WordsRead
<1>2. /\ Valid(j) /\ j.opcode = s.opcode /\ j.present = s.present /\ j.negate = s.negate
      /\ j.pred = s.pred
      /\ j.opcode \in Ldp => j.imm < Len(ParamsBefore(k))
  BY InstructionReads
<1>3. k \in BranchLines <=> s.opcode \in Bra
  BY DEF BranchLines
<1> DEFINE i == IF k \in BranchLines THEN [j EXCEPT !.imm = imm[k]] ELSE j
<1>4. /\ Valid(i) /\ i.opcode = s.opcode /\ i.present = s.present /\ i.negate = s.negate
      /\ i.pred = s.pred
      /\ k \in BranchLines => i.imm = imm[k]
  <2>1. CASE k \in BranchLines
    <3>1. imm[k] \in 0..Immediates - 1
      BY <2>1 DEF InRange
    <3> QED
      BY <1>2, <1>3, <2>1, <3>1, BranchPatch
  <2>2. CASE k \notin BranchLines
    BY <1>2, <2>2
  <2> QED
    BY <2>1, <2>2
<1>5. i.opcode \in Ldp => i.imm < Len(ParamsBefore(k))
  <2>1. Bra \cap Ldp = {}
    BY DEF Bra, Ldp
  <2> QED
    BY <1>2, <1>3, <1>4, <2>1
<1>6. Unpacked(w) = i /\ Packed(i) = w
  BY <1>1, <1>4, WordBack
<1>7. PCOf(k) + 1 \in 1..Len(words) /\ Len(words) = PCOf(l) /\ words \in Seq(Nat)
  <2>1. k \in 1..l /\ k # l /\ k \in 1..Len(source) + 1
    BY LinesAre
  <2>2. PCOf(k) + 1 <= PCOf(l) /\ PCOf(k) \in Nat /\ PCOf(l) \in Nat
    BY <2>1, PCOrder, PCOfIs
  <2> QED
    BY <2>2 DEF WordsRead
<1>8. \E x \in P : i = IF k \in BranchLines THEN [x EXCEPT !.imm = imm[k]] ELSE x
  OBVIOUS
<1> HIDE DEF i, w, P
<1>9. Valid(Unpacked(w)) /\ Packed(Unpacked(w)) = w
  BY <1>4, <1>6
<1> QED
  BY <1>3, <1>4, <1>5, <1>6, <1>7, <1>8, <1>9 DEF w, P

\* A branch gets another immediate.
LEMMA WordsPatched ==
    ASSUME Typed, NEW l \in 1..Len(source) + 1, NEW words, NEW imm, WordsRead(l, words, imm),
           NEW k \in BranchLines, k < l, imm[k] \in 0..Immediates - 1,
           NEW next, next[k] \in 0..Immediates - 1, \A j \in BranchLines : j # k => next[j] = imm[j]
    PROVE  LET w == words[PCOf(k) + 1]
               patched == [Unpacked(w) EXCEPT !.imm = next[k]]
           IN  /\ Valid(Unpacked(w)) /\ Valid(patched) /\ PCOf(k) + 1 \in DOMAIN words
               /\ WordsRead(l, [words EXCEPT ![PCOf(k) + 1] = Packed(patched)], next)
<1> DEFINE q == PCOf(k) + 1
           s == source[k].stmt
           P == Parsed(s, ParamsBefore(k))
<1>1. /\ k \in InstructionLines /\ k \in Lines /\ s.opcode \in Bra
      /\ k \in 1..l /\ k # l /\ k \in 1..Len(source) + 1 /\ BranchLines \subseteq InstructionLines
      /\ InstructionLines \subseteq Lines /\ \A j \in Lines : j \in 1..Len(source) + 1
  BY LinesAre DEF BranchLines
<1>2. PICK j \in P : words[q] = Packed([j EXCEPT !.imm = imm[k]])
  BY <1>1 DEF WordsRead
<1>3. Valid(j) /\ j.opcode \in Bra
  BY <1>1, InstructionReads
<1>4. Valid([j EXCEPT !.imm = imm[k]]) /\ Valid([j EXCEPT !.imm = next[k]])
  BY <1>3, BranchPatch
<1>5. Unpacked(words[q]) = [j EXCEPT !.imm = imm[k]]
  BY <1>2, <1>4, WordBack
<1>6. [Unpacked(words[q]) EXCEPT !.imm = next[k]] = [j EXCEPT !.imm = next[k]]
  <2>1. j \in [Fields -> Nat]
    BY <1>3 DEF Valid, InstructionType
  <2> QED
    BY <1>5, <2>1
<1> DEFINE patched == [Unpacked(words[q]) EXCEPT !.imm = next[k]]
           W == [words EXCEPT ![q] = Packed(patched)]
<1>7. Packed(patched) \in Nat
  BY <1>4, <1>6, WordBack
<1>8. words \in Seq(Nat) /\ Len(words) = PCOf(l) /\ q \in 1..Len(words)
  <2>1. PCOf(k) + 1 <= PCOf(l) /\ PCOf(k) \in Nat /\ PCOf(l) \in Nat
    BY <1>1, PCOrder, PCOfIs
  <2> QED
    BY <2>1 DEF WordsRead
<1>9. /\ W \in Seq(Nat) /\ Len(W) = Len(words)
      /\ \A x \in 1..Len(words) : W[x] = IF x = q THEN Packed(patched) ELSE words[x]
  BY <1>7, <1>8, ExceptSeq
<1> HIDE DEF W
<1>10. ASSUME NEW x \in InstructionLines, x < l
       PROVE  \E y \in Parsed(source[x].stmt, ParamsBefore(x)) :
                  W[PCOf(x) + 1] = Packed(IF x \in BranchLines THEN [y EXCEPT !.imm = next[x]]
                                          ELSE y)
  <2>1. CASE x = k
    <3>1. W[PCOf(k) + 1] = Packed([j EXCEPT !.imm = next[k]])
      BY <1>6, <1>8, <1>9
    <3> QED
      BY <2>1, <3>1
  <2>2. CASE x # k
    <3>1. PCOf(x) # PCOf(k)
      BY <1>1, <2>2, OnePC
    <3>2. x \in 1..l /\ x # l /\ x \in Lines
      BY <1>1, <1>10, LinesAre
    <3>3. PCOf(x) + 1 <= PCOf(l) /\ PCOf(x) \in Nat /\ PCOf(l) \in Nat /\ PCOf(k) \in Nat
      BY <1>1, <3>2, PCOrder, PCOfIs
    <3>4. PCOf(x) + 1 \in 1..Len(words) /\ PCOf(x) + 1 # q
      BY <1>8, <3>1, <3>3
    <3>5. W[PCOf(x) + 1] = words[PCOf(x) + 1]
      BY <1>9, <3>4
    <3>6. PICK y \in Parsed(source[x].stmt, ParamsBefore(x)) :
              words[PCOf(x) + 1] =
                  Packed(IF x \in BranchLines THEN [y EXCEPT !.imm = imm[x]] ELSE y)
      BY <1>10 DEF WordsRead
    <3>7. x \in BranchLines => next[x] = imm[x]
      BY <2>2
    <3> QED
      BY <3>5, <3>6, <3>7
  <2> QED
    BY <2>1, <2>2
<1>11. WordsRead(l, W, next)
  BY <1>8, <1>9, <1>10 DEF WordsRead
<1>12. q \in DOMAIN words
  BY <1>8, LenProperties
<1>13. Valid(Unpacked(words[q])) /\ Valid(patched)
  BY <1>4, <1>5, <1>6
<1> QED
  BY <1>11, <1>12, <1>13 DEF W

\* The first of the branches that wait.
LEMMA PendingTail ==
    ASSUME Typed, NEW l, NEW branches, PendingRead(l, branches), branches # <<>>
    PROVE  LET b == Head(branches)
               k == b.line
           IN  /\ k \in BranchLines /\ k < l /\ b.pc = PCOf(k) /\ b.label = LabelOf(k)
               /\ PendingRead(l, Tail(branches)) /\ Waits(k, branches)
               /\ \A j : Waits(j, Tail(branches)) <=> Waits(j, branches) /\ j # k
               /\ \A j : Waits(j, branches) => k <= j
<1> DEFINE B == [pc : Nat, line : Nat, label : Names]
           b == Head(branches)
           k == b.line
           T == Tail(branches)
           n == Len(branches)
<1>1. branches \in Seq(B)
  BY DEF PendingRead
<1>2. n \in Nat \ {0} /\ DOMAIN branches = 1..n
  BY <1>1, EmptySeq, LenProperties
<1>3. b = branches[1]
  BY <1>1, <1>2
<1> HIDE DEF B
<1>4. T \in Seq(B) /\ Len(T) = n - 1 /\ \A j \in 1..n - 1 : T[j] = branches[j + 1]
  BY <1>1, HeadTailProperties
<1>5. DOMAIN T = 1..n - 1
  BY <1>4, LenProperties
<1> HIDE DEF b, T, n
<1>6. /\ 1 \in 1..n /\ \A j \in 1..n - 1 : j \in Int /\ j + 1 \in 1..n /\ 1 < j + 1
      /\ \A j \in 1..n : j = 1 \/ (1 < j /\ j - 1 \in 1..n - 1 /\ j - 1 + 1 = j)
      /\ \A i, j \in 1..n - 1 : i < j => i + 1 < j + 1
  BY <1>2
<1>7. \A j \in 1..n : /\ branches[j].line \in BranchLines /\ branches[j].line < l
                      /\ branches[j].pc = PCOf(branches[j].line)
                      /\ branches[j].label = LabelOf(branches[j].line)
  BY <1>2 DEF PendingRead
<1>8. \A i, j \in 1..n : i < j => branches[i].line < branches[j].line
  BY <1>2 DEF PendingRead
<1>9. k \in BranchLines /\ k < l /\ b.pc = PCOf(k) /\ b.label = LabelOf(k)
  BY <1>3, <1>6, <1>7
<1>10. PendingRead(l, T)
  <2>1. \A j \in DOMAIN T : /\ T[j].line \in BranchLines /\ T[j].line < l
                            /\ T[j].pc = PCOf(T[j].line)
                            /\ T[j].label = LabelOf(T[j].line)
    BY <1>4, <1>5, <1>6, <1>7
  <2>2. \A i, j \in DOMAIN T : i < j => T[i].line < T[j].line
    BY <1>4, <1>5, <1>6, <1>8
  <2> QED
    BY <1>4, <2>1, <2>2 DEF PendingRead, B
<1>11. \A j \in BranchLines : j \in Nat
  BY LinesAre
<1>12. Waits(k, branches)
  BY <1>2, <1>3, <1>6 DEF Waits
<1>13. ASSUME NEW j PROVE Waits(j, T) <=> Waits(j, branches) /\ j # k
  <2>1. ASSUME Waits(j, T) PROVE Waits(j, branches) /\ j # k
    <3>1. PICK x \in 1..n - 1 : T[x].line = j
      BY <1>5, <2>1 DEF Waits
    <3>2. branches[x + 1].line = j /\ x + 1 \in 1..n /\ 1 < x + 1
      BY <1>4, <1>6, <3>1
    <3>3. branches[1].line < branches[x + 1].line
      BY <1>6, <1>8, <3>2
    <3>4. j # k
      BY <1>3, <1>6, <1>7, <1>11, <3>2, <3>3
    <3> QED
      BY <1>2, <3>2, <3>4 DEF Waits
  <2>2. ASSUME Waits(j, branches), j # k PROVE Waits(j, T)
    <3>1. PICK x \in 1..n : branches[x].line = j
      BY <1>2, <2>2 DEF Waits
    <3>2. x # 1
      BY <1>3, <2>2, <3>1
    <3>3. x - 1 \in 1..n - 1 /\ T[x - 1] = branches[x]
      BY <1>4, <1>6, <3>2
    <3> QED
      BY <1>5, <3>1, <3>3 DEF Waits
  <2> QED
    BY <2>1, <2>2
<1>14. ASSUME NEW j, Waits(j, branches) PROVE k <= j
  <2>1. PICK x \in 1..n : branches[x].line = j
    BY <1>2, <1>14 DEF Waits
  <2>2. j \in Nat /\ k \in Nat
    BY <1>7, <1>9, <1>11, <2>1
  <2>3. x = 1 \/ k < j
    BY <1>3, <1>6, <1>8, <2>1
  <2> QED
    BY <1>3, <2>1, <2>2, <2>3
<1> QED
  BY <1>9, <1>10, <1>12, <1>13, <1>14 DEF b, T

-----------------------------------------------------------------------------
(* Resolving the branches                                                  *)

\* What the passes after the first rely on.
LEMMA SourceRead ==
    ASSUME Inv, phase \in {"resolve", "done"}
    PROVE  /\ Typed /\ Core /\ line = Len(source) + 1 /\ line \in 1..Len(source) + 1
           /\ {k \in Lines : Faulty(k)} = {}
           /\ (\E k \in Lines : Kind(k) = "entry") /\ Cardinality(InstructionLines) <= NoReconv
           /\ Len(program.words) = Cardinality(InstructionLines)
           /\ \A k \in BranchLines :
                  /\ k < line
                  /\ LabelOf(k) \in DOMAIN labels <=> LabelLines(LabelOf(k)) # {}
                  /\ LabelOf(k) \in DOMAIN labels =>
                         /\ TargetOf(k) \in 0..Cardinality(InstructionLines)
                         /\ TargetOf(k) \in PC /\ labels[LabelOf(k)] = TargetOf(k)
<1>1. /\ Typed /\ Core /\ line = Len(source) + 1 /\ line \in 1..Len(source) + 1
      /\ program.entry # NoName /\ Len(program.words) <= NoReconv
  BY DEF Inv, Core
<1>2. AtEnd(program, labels)
  BY <1>1 DEF AtEnd, Core, WordsRead
<1>3. /\ \A k \in Lines : ~Faulty(k)
      /\ program.entry # NoName <=> \E k \in Lines : Kind(k) = "entry"
      /\ Len(program.words) = Cardinality(InstructionLines) /\ Len(program.words) \in Nat
      /\ \A k \in BranchLines :
             /\ LabelOf(k) \in DOMAIN labels <=> LabelLines(LabelOf(k)) # {}
             /\ LabelOf(k) \in DOMAIN labels =>
                    /\ TargetOf(k) \in 0..Cardinality(InstructionLines)
                    /\ labels[LabelOf(k)] = TargetOf(k) % Halves
  BY <1>1, <1>2, EndIs
<1>4. \A k \in BranchLines : k < line
  BY <1>1, LinesAre
<1>5. ASSUME NEW t \in 0..Cardinality(InstructionLines) PROVE t \in PC /\ t % Halves = t
  <2>1. t \in Nat /\ t <= NoReconv
    BY <1>1, <1>3, HalfIs
  <2> QED
    BY <2>1, HalvesOfPC
<1> QED
  BY <1>1, <1>3, <1>4, <1>5

\* One word, decoded, patched and encoded again.
LEMMA OneWord ==
    ASSUME NEW w, NEW v
    PROVE  /\ Encodable(Patched(<<w>>, <<>>)) <=> Validate(Unpacked(w)) = "none"
           /\ Encodable(Patched(<<w>>, <<v>>)) <=> Validate([Unpacked(w) EXCEPT !.imm = v]) = "none"
           /\ Patched(<<w>>, <<v>>)[1] = [Unpacked(w) EXCEPT !.imm = v]
<1>1. DOMAIN <<w>> = {1} /\ DOMAIN <<v>> = {1} /\ DOMAIN <<>> = {} /\ <<w>>[1] = w /\ <<v>>[1] = v
  OBVIOUS
<1>2. Patched(<<w>>, <<>>) = [k \in {1} |-> Unpacked(w)]
  BY <1>1 DEF Patched
<1>3. Patched(<<w>>, <<v>>) = [k \in {1} |-> [Unpacked(w) EXCEPT !.imm = v]]
  BY <1>1 DEF Patched
<1> QED
  BY <1>2, <1>3 DEF Encodable

LEMMA ResolveInv ==
    Inv /\ Resolve => Inv'
<1> SUFFICES ASSUME Inv, Resolve PROVE Inv'
  OBVIOUS
<1> DEFINE b == Head(pending)
           k == b.line
           t == labels[b.label]
           words == program.words
           w == words[b.pc + 1]
           patched == [Unpacked(w) EXCEPT !.imm = MakeBranchImm(t, NoReconv)]
<1>1. /\ phase = "resolve" /\ pending # <<>>
      /\ IF b.label \notin DOMAIN labels THEN Refuse(b.line)
         ELSE IF \/ ~Encodable(Patched(<<w>>, <<>>))
                 \/ ~Encodable(Patched(<<w>>, <<MakeBranchImm(t, NoReconv)>>)) THEN Abort
         ELSE /\ program' = [program EXCEPT !.words[b.pc + 1] =
                                 Packed(Patched(<<w>>, <<MakeBranchImm(t, NoReconv)>>)[1])]
              /\ pending' = Tail(pending)
              /\ UNCHANGED <<source, line, labels, phase, error, round, origin>>
  BY DEF Resolve
<1>2. /\ Typed /\ Core /\ line = Len(source) + 1 /\ line \in 1..Len(source) + 1
      /\ {j \in Lines : Faulty(j)} = {}
      /\ (\E j \in Lines : Kind(j) = "entry") /\ Cardinality(InstructionLines) <= NoReconv
      /\ \A j \in BranchLines :
             /\ j < line
             /\ LabelOf(j) \in DOMAIN labels <=> LabelLines(LabelOf(j)) # {}
             /\ LabelOf(j) \in DOMAIN labels =>
                    TargetOf(j) \in PC /\ labels[LabelOf(j)] = TargetOf(j)
  BY <1>1, SourceRead
<1>3. \A j \in BranchLines : Waits(j, pending) \/ LabelOf(j) \in DOMAIN labels
  BY <1>1, <1>2 DEF Core
<1>4. PendingRead(line, pending)
  BY <1>2 DEF Core
<1>5. /\ k \in BranchLines /\ k < line /\ b.pc = PCOf(k) /\ b.label = LabelOf(k)
      /\ PendingRead(line, Tail(pending)) /\ Waits(k, pending)
      /\ \A j : Waits(j, Tail(pending)) <=> Waits(j, pending) /\ j # k
      /\ \A j : Waits(j, pending) => k <= j
  BY <1>1, <1>2, <1>4, PendingTail
<1> HIDE DEF b
<1>6. ASSUME b.label \notin DOMAIN labels PROVE Inv'
  <2> DEFINE U == {j \in BranchLines : LabelLines(LabelOf(j)) = {}}
  <2>1. k \in U /\ U \in SUBSET Nat
    BY <1>2, <1>5, <1>6, LinesAre
  <2>2. \A j \in U : k <= j
    BY <1>2, <1>3, <1>5
  <2>3. Min(U) = k
    BY <2>1, <2>2, MinIs
  <2>4. NamesFirst(k)
    BY <1>2, <2>1, <2>3 DEF NamesFirst
  <2> QED
    BY <1>1, <1>6, <2>4, RefuseInv
<1>7. ASSUME b.label \in DOMAIN labels PROVE Inv'
  <2> DEFINE imm == ImmIn("resolve", pending)
             next == ImmIn("resolve", Tail(pending))
             v == MakeBranchImm(t, NoReconv)
  <2>1. t = TargetOf(k) /\ t \in PC
    BY <1>2, <1>5, <1>7
  <2>2. /\ v \in 0..Immediates - 1
        /\ MakeBranchImm(0, NoReconv) = NoReconv * Halves
        /\ MakeBranchImm(0, NoReconv) \in 0..Immediates - 1
    <3>1. 0 \in PC /\ NoReconv \in PC
      BY <2>1, BranchImms
    <3> QED
      BY <2>1, <3>1, BranchImms
  <2>3. /\ imm[k] = NoReconv * Halves /\ next[k] = v
        /\ \A j \in BranchLines : j # k => next[j] = imm[j]
    BY <1>5, <2>1 DEF ImmIn
  <2>4. WordsRead(line, words, imm)
    BY <1>1, <1>2 DEF Core
  <2> HIDE DEF imm, next, v
  <2>5. /\ Valid(Unpacked(w)) /\ Valid([Unpacked(w) EXCEPT !.imm = next[k]])
        /\ WordsRead(line, [words EXCEPT ![b.pc + 1] =
                                Packed([Unpacked(w) EXCEPT !.imm = next[k]])], next)
    BY <1>2, <1>5, <2>2, <2>3, <2>4, WordsPatched
  <2>6. patched = [Unpacked(w) EXCEPT !.imm = next[k]]
    BY <2>3 DEF v
  <2> DEFINE after == [words EXCEPT ![b.pc + 1] = Packed(patched)]
  <2>7. /\ program' = [program EXCEPT !.words[b.pc + 1] = Packed(patched)]
        /\ pending' = Tail(pending)
        /\ UNCHANGED <<source, line, labels, phase, error, round, origin>>
    <3>1. /\ Encodable(Patched(<<w>>, <<>>)) <=> Validate(Unpacked(w)) = "none"
          /\ Encodable(Patched(<<w>>, <<MakeBranchImm(t, NoReconv)>>)) <=>
                 Validate(patched) = "none"
          /\ Patched(<<w>>, <<MakeBranchImm(t, NoReconv)>>)[1] = patched
      BY OneWord
    <3>2. Validate(Unpacked(w)) = "none" /\ Validate(patched) = "none"
      BY <2>5, <2>6 DEF Valid
    <3> HIDE DEF w, patched, t
    <3> QED
      BY <1>1, <1>7, <3>1, <3>2
  <2>8. program' = [program EXCEPT !.words = after]
    BY <2>7
  <2>9. WordsRead(line, after, next)
    BY <2>5, <2>6
  <2> HIDE DEF after
  <2>10. /\ Fielded(program') /\ program'.entry = program.entry
         /\ program'.params = program.params /\ program'.shared = program.shared
         /\ program'.words = after /\ program'.labels = program.labels
    <3> DEFINE q == [program EXCEPT !.words = after]
    <3>1. Fielded(program)
      BY <1>2 DEF Core
    <3>2. /\ Fielded(q) /\ q.entry = program.entry
          /\ q.params = program.params /\ q.shared = program.shared
          /\ q.words = after /\ q.labels = program.labels
      BY <3>1, EditWords
    <3>3. program' = q
      BY <2>8
    <3> HIDE DEF q
    <3> QED
      BY <3>2, <3>3
  <2>11. Core'
    <3>1. BranchLines' = BranchLines /\ \A j : LabelOf(j)' = LabelOf(j)
      BY <2>7, SameSource
    <3>2. NoFaultBefore(line)' /\ LabelsRead(line, labels, program.labels)'
      BY <1>2, <2>7, <2>10, SameReading DEF Core
    <3>3. DirectivesRead(line, program)'
      <4>1. DirectivesRead(line, program')
        BY <1>2, <2>10 DEF Core, DirectivesRead
      <4> QED
        BY <2>7, <4>1, SameReading
    <3>4. WordsRead(line, program.words, ImmIn(phase, pending))'
      BY <1>1, <2>7, <2>9, <2>10, SameReading DEF next
    <3>5. PendingRead(line, pending)'
      BY <1>5, <2>7, SameReading
    <3>6. Len(after) = Len(words)
      BY <2>4, <2>9 DEF WordsRead
    <3>7. \A j \in BranchLines : Waits(j, pending') \/ LabelOf(j) \in DOMAIN labels
      BY <1>3, <1>5, <1>7, <2>7
    <3>8. program.entry # NoName /\ Len(words) <= NoReconv
      BY <1>1, <1>2 DEF Core
    <3>9. (\A j \in BranchLines : Waits(j, pending) \/ LabelOf(j) \in DOMAIN labels)'
      BY <2>7, <3>1, <3>7
    <3>10. phase' = "resolve" /\ line' = Len(source') + 1 /\ line' \in 1..Len(source') + 1
      BY <1>1, <1>2, <2>7
    <3> QED
      BY <2>10, <3>2, <3>3, <3>4, <3>5, <3>6, <3>8, <3>9, <3>10 DEF Core
  <2>12. Typed'
    BY <1>2, <2>7 DEF Typed
  <2>13. (round = 2 => source = Listing(origin) /\ WellAssembled(origin))' /\ round' \in {1, 2}
    BY <2>7 DEF Inv
  <2> QED
    BY <1>1, <2>7, <2>11, <2>12, <2>13 DEF Inv
<1> QED
  BY <1>6, <1>7
-----------------------------------------------------------------------------
(* Recording the reconvergence PCs                                         *)

\* A function on 1..n is a sequence of length n.
LEMMA FunctionSeq ==
    ASSUME NEW n \in Nat, NEW S, NEW f \in [1..n -> S]
    PROVE  f \in Seq(S) /\ Len(f) = n /\ DOMAIN f = 1..n
<1>1. f \in Seq(S)
  BY SeqDef
<1>2. Len(f) \in Nat /\ DOMAIN f = 1..Len(f) /\ DOMAIN f = 1..n
  BY <1>1, LenProperties
<1>3. Len(f) = n
  BY <1>2
<1> QED
  BY <1>1, <1>2, <1>3

\* What a word of the whole program is.
WordFor(words, imm, q, k, i) ==
    /\ k = At(q - 1) /\ k \in InstructionLines /\ PCOf(k) = q - 1 /\ i = Unpacked(words[q])
    /\ Valid(i) /\ Packed(i) = words[q]
    /\ i.opcode = source[k].stmt.opcode /\ i.present = source[k].stmt.present
    /\ k \in BranchLines <=> i.opcode \in Bra
    /\ (k \in BranchLines => i.imm = imm[k])
    /\ i.opcode \in Ldp => i.imm < Len(ParamsBefore(k))
    /\ \E j \in Parsed(source[k].stmt, ParamsBefore(k)) :
           i = IF k \in BranchLines THEN [j EXCEPT !.imm = imm[k]] ELSE j

LEMMA WordOf ==
    ASSUME Typed, NEW words, NEW imm, WordsRead(Len(source) + 1, words, imm),
           InRange(Len(source) + 1, imm)
    PROVE  /\ words \in Seq(Nat) /\ Len(words) = Cardinality(InstructionLines)
           /\ DOMAIN words = 1..Len(words) /\ Len(words) \in Nat
           /\ \A q \in 1..Len(words) :
                  WordFor(words, imm, q, At(q - 1), Unpacked(words[q]))
<1>1. words \in Seq(Nat) /\ Len(words) = Cardinality(InstructionLines)
  BY PCOfIs DEF WordsRead
<1>2. DOMAIN words = 1..Len(words) /\ Len(words) \in Nat
  BY <1>1, LenProperties
<1>3. ASSUME NEW q \in 1..Len(words)
      PROVE  WordFor(words, imm, q, At(q - 1), Unpacked(words[q]))
  <2>1. q - 1 \in 0..Cardinality(InstructionLines) - 1
    BY <1>1, <1>2
  <2>2. At(q - 1) \in InstructionLines /\ PCOf(At(q - 1)) = q - 1
    BY <2>1, AtPC
  <2>3. At(q - 1) < Len(source) + 1 /\ Len(source) + 1 \in 1..Len(source) + 1
    BY <2>2, LinesAre
  <2>4. q - 1 + 1 = q
    BY <1>2
  <2> DEFINE k == At(q - 1)
  <2> HIDE DEF k
  <2>5. k \in InstructionLines /\ PCOf(k) + 1 = q /\ PCOf(k) = q - 1 /\ k < Len(source) + 1
    BY <2>2, <2>3, <2>4 DEF k
  <2> DEFINE w == words[PCOf(k) + 1]
             i == Unpacked(w)
  <2>6. /\ Valid(i) /\ Packed(i) = w
        /\ i.opcode = source[k].stmt.opcode /\ i.present = source[k].stmt.present
        /\ k \in BranchLines <=> i.opcode \in Bra
        /\ (k \in BranchLines => i.imm = imm[k])
        /\ i.opcode \in Ldp => i.imm < Len(ParamsBefore(k))
        /\ \E j \in Parsed(source[k].stmt, ParamsBefore(k)) :
               i = IF k \in BranchLines THEN [j EXCEPT !.imm = imm[k]] ELSE j
    BY <2>3, <2>5, WordAt, SMTT(20)
  <2>7. w = words[q]
    BY <2>5
  <2> HIDE DEF w
  <2>8. i = Unpacked(words[q]) /\ Packed(i) = words[q]
    BY <2>6, <2>7
  <2> HIDE DEF i
  <2>9. WordFor(words, imm, q, k, i)
    BY <2>5, <2>6, <2>8 DEF WordFor, k
  <2> QED
    BY <2>8, <2>9 DEF k
<1> QED
  BY <1>1, <1>2, <1>3

\* The flow that the analysis reads of the words and the source's differ at most in the
\* targets of instructions that have none.
SameFlow(flow, other, n) ==
    /\ DOMAIN flow = 1..n /\ DOMAIN other = 1..n
    /\ \A q \in 1..n : /\ flow[q].op = other[q].op
                       /\ flow[q].guard.present <=> other[q].guard.present
                       /\ flow[q].op = "bra" => flow[q].target = other[q].target
                                                /\ flow[q].target \in 0..n - 1

LEMMA SameFlowReconverges ==
    ASSUME NEW n \in Nat \ {0}, NEW S, NEW flow \in [1..n -> S], NEW T, NEW other \in [1..n -> T],
           SameFlow(flow, other, n), n <= NoReconv, NEW q \in 1..n
    PROVE  /\ ReconvergencePC(flow, q - 1) = ReconvergencePC(other, q - 1)
           /\ ReconvergencePC(other, q - 1) \in PC
<1>1. Len(flow) = n /\ Len(other) = n /\ DOMAIN flow = 1..n /\ DOMAIN other = 1..n
  BY FunctionSeq
<1>2. WellFormed(flow) /\ WellFormed(other)
  BY <1>1 DEF WellFormed, SameFlow
<1>3. \A x \in 0..n - 1 : SuccPCs(flow, x) = SuccPCs(other, x)
  <2> TAKE x \in 0..n - 1
  <2>1. x + 1 \in 1..n
    OBVIOUS
  <2> QED
    BY <1>1, <2>1 DEF SameFlow, SuccPCs
<1>4. q - 1 \in 0..n - 1 /\ q - 1 + 1 = q
  OBVIOUS
<1>5. flow[q - 1 + 1].guard.present <=> other[q - 1 + 1].guard.present
  BY <1>4 DEF SameFlow
<1>6. /\ ReconvergencePC(flow, q - 1) = ReconvergencePC(other, q - 1)
      /\ ReconvergencePC(other, q - 1) \in 0..n - 1 \cup {NoReconv}
  BY <1>1, <1>2, <1>3, <1>4, <1>5, SameReconvergence
<1>7. 0..n - 1 \cup {NoReconv} \subseteq PC
  BY HalfIs DEF PC
<1> QED
  BY <1>6, <1>7

\* New immediates in the branches of the program.
LEMMA WordsAnnotated ==
    ASSUME Typed, NEW words, NEW imm, WordsRead(Len(source) + 1, words, imm),
           InRange(Len(source) + 1, imm), NEW next, InRange(Len(source) + 1, next),
           NEW imms, DOMAIN imms = Branches(words),
           \A q \in Branches(words) : imms[q] = next[At(q - 1)]
    PROVE  LET annotated == Patched(words, imms)
           IN  /\ Encodable(annotated)
               /\ WordsRead(Len(source) + 1,
                            [q \in DOMAIN annotated |-> Packed(annotated[q])], next)
<1> DEFINE n == Len(words)
           annotated == Patched(words, imms)
           W == [q \in DOMAIN annotated |-> Packed(annotated[q])]
<1>1. /\ words \in Seq(Nat) /\ n = Cardinality(InstructionLines)
      /\ DOMAIN words = 1..n /\ n \in Nat
      /\ \A q \in 1..n : WordFor(words, imm, q, At(q - 1), Unpacked(words[q]))
  BY WordOf
<1>2. Branches(words) = {q \in 1..n : Unpacked(words[q]).opcode \in Bra}
  BY <1>1 DEF Branches
<1>3. /\ DOMAIN annotated = 1..n
      /\ \A q \in 1..n : annotated[q] = IF q \in Branches(words)
                                        THEN [Unpacked(words[q]) EXCEPT !.imm = imms[q]]
                                        ELSE Unpacked(words[q])
  BY <1>1 DEF Patched
<1> HIDE DEF annotated
<1>4. ASSUME NEW q \in 1..n
      PROVE  /\ Valid(annotated[q])
             /\ \E j \in Parsed(source[At(q - 1)].stmt, ParamsBefore(At(q - 1))) :
                    annotated[q] = IF At(q - 1) \in BranchLines
                                   THEN [j EXCEPT !.imm = next[At(q - 1)]] ELSE j
  <2> DEFINE k == At(q - 1)
             i == Unpacked(words[q])
             P == Parsed(source[k].stmt, ParamsBefore(k))
  <2>1. WordFor(words, imm, q, k, i)
    BY <1>1
  <2>2. annotated[q] = IF q \in Branches(words) THEN [i EXCEPT !.imm = imms[q]] ELSE i
    BY <1>3
  <2>3. q \in Branches(words) <=> i.opcode \in Bra
    BY <1>2
  <2>4. q \in Branches(words) => imms[q] = next[k]
    OBVIOUS
  <2> HIDE DEF k, i
  <2>5. CASE k \notin BranchLines
    BY <2>1, <2>2, <2>3, <2>5 DEF WordFor, k
  <2>6. CASE k \in BranchLines
    <3>1. Valid(i) /\ i.opcode \in Bra /\ annotated[q] = [i EXCEPT !.imm = next[k]]
      BY <2>1, <2>2, <2>3, <2>4, <2>6 DEF WordFor
    <3>2. next[k] \in 0..Immediates - 1
      BY <2>6, LinesAre DEF InRange
    <3>3. Valid(annotated[q])
      BY <3>1, <3>2, BranchPatch
    <3>4. PICK j \in P : i = [j EXCEPT !.imm = imm[k]]
      BY <2>1, <2>6 DEF WordFor
    <3>5. j \in [Fields -> Nat]
      BY <2>6, LinesAre, InstructionReads DEF Valid, InstructionType
    <3>6. [i EXCEPT !.imm = next[k]] = [j EXCEPT !.imm = next[k]]
      BY <3>4, <3>5
    <3> QED
      BY <2>6, <3>1, <3>3, <3>6 DEF k
  <2> QED
    BY <2>5, <2>6
<1>5. Encodable(annotated)
  BY <1>3, <1>4 DEF Encodable, Valid
<1>6. W \in Seq(Nat) /\ Len(W) = n /\ \A q \in 1..n : W[q] = Packed(annotated[q])
  <2>1. \A q \in 1..n : Packed(annotated[q]) \in Nat
    BY <1>4, WordBack
  <2>2. W \in [1..n -> Nat] /\ \A q \in 1..n : W[q] = Packed(annotated[q])
    BY <1>3, <2>1
  <2> QED
    BY <1>1, <2>2, FunctionSeq
<1> HIDE DEF W
<1>7. ASSUME NEW k \in InstructionLines
      PROVE  \E i \in Parsed(source[k].stmt, ParamsBefore(k)) :
                 W[PCOf(k) + 1] =
                     Packed(IF k \in BranchLines THEN [i EXCEPT !.imm = next[k]] ELSE i)
  <2> DEFINE q == PCOf(k) + 1
  <2>1. q \in 1..n /\ q - 1 = PCOf(k)
    BY <1>1, OnePC
  <2>2. At(q - 1) = k
    BY <2>1, AtIs
  <2> HIDE DEF q
  <2>3. W[q] = Packed(annotated[q])
    BY <1>6, <2>1
  <2>4. \E i \in Parsed(source[k].stmt, ParamsBefore(k)) :
            annotated[q] = IF k \in BranchLines THEN [i EXCEPT !.imm = next[k]] ELSE i
    BY <1>4, <2>1, <2>2
  <2> QED
    BY <2>3, <2>4 DEF q
<1>8. PCOf(Len(source) + 1) = n
  BY <1>1, PCOfIs
<1>9. WordsRead(Len(source) + 1, W, next)
  BY <1>6, <1>7, <1>8 DEF WordsRead
<1> QED
  BY <1>5, <1>9 DEF W, annotated
\* What the words of a resolved program have for the analysis.
LEMMA ResolvedFlow ==
    ASSUME Inv, phase \in {"resolve", "done"}, pending = <<>>,
           NEW imm, imm = ImmIn(phase, pending)
    PROVE  LET t(k) == TargetOf(k)
           IN  /\ WordsRead(Len(source) + 1, program.words, imm)
               /\ \A k \in BranchLines : t(k) \in 0..Cardinality(InstructionLines) /\ t(k) \in PC
               /\ phase = "resolve" =>
                      /\ InRange(Len(source) + 1, imm)
                      /\ \A k \in BranchLines : imm[k] % Halves = t(k)
<1>1. /\ Typed /\ Core /\ line = Len(source) + 1
      /\ \A k \in BranchLines :
             LabelOf(k) \in DOMAIN labels =>
                 TargetOf(k) \in 0..Cardinality(InstructionLines) /\ TargetOf(k) \in PC
  BY SourceRead
<1>2. \A k \in BranchLines : ~Waits(k, pending)
  BY DEF Waits
<1>3. \A k \in BranchLines : LabelOf(k) \in DOMAIN labels
  BY <1>1, <1>2 DEF Core
<1>4. WordsRead(Len(source) + 1, program.words, imm)
  BY <1>1 DEF Core
<1>5. ASSUME phase = "resolve", NEW k \in BranchLines
      PROVE  imm[k] \in 0..Immediates - 1 /\ imm[k] % Halves = TargetOf(k)
  <2>1. imm[k] = MakeBranchImm(TargetOf(k), NoReconv)
    BY <1>2, <1>5 DEF ImmIn
  <2>2. TargetOf(k) \in PC /\ NoReconv \in PC
    BY <1>1, <1>3, HalfIs DEF PC
  <2> QED
    BY <2>1, <2>2, BranchImms
<1> QED
  BY <1>1, <1>3, <1>4, <1>5 DEF InRange

\* The flow of the words is that of the source.
LEMMA FlowOfWords ==
    ASSUME Typed, NEW words, NEW imm, WordsRead(Len(source) + 1, words, imm),
           InRange(Len(source) + 1, imm), NEW n, n = Len(words),
           NEW flow, DOMAIN flow = 1..n,
           \A q \in 1..n : LET i == Unpacked(words[q]) IN
               /\ flow[q].op = CASE i.opcode \in Bra -> "bra" [] i.opcode = 40 -> "exit"
                                 [] OTHER -> "alu"
               /\ flow[q].guard.present <=> i.present = 1
               /\ i.opcode \in Bra => flow[q].target = BranchTarget(i),
           \A k \in BranchLines : imm[k] % Halves = TargetOf(k) /\ TargetOf(k) \in 0..n - 1
    PROVE  SameFlow(flow, FlowAsWritten, n) /\ n \in Nat
<1>1. /\ n = Cardinality(InstructionLines) /\ DOMAIN words = 1..n /\ n \in Nat
      /\ \A q \in 1..n : WordFor(words, imm, q, At(q - 1), Unpacked(words[q]))
  BY WordOf
<1>2. DOMAIN FlowAsWritten = 1..n
  BY <1>1 DEF FlowAsWritten
<1>3. ASSUME NEW q \in 1..n
      PROVE  /\ flow[q].op = FlowAsWritten[q].op
             /\ flow[q].guard.present <=> FlowAsWritten[q].guard.present
             /\ flow[q].op = "bra" => flow[q].target = FlowAsWritten[q].target
                                      /\ flow[q].target \in 0..n - 1
  <2> DEFINE k == At(q - 1)
             i == Unpacked(words[q])
  <2>1. FlowAsWritten[q] =
            [op |-> CASE k \in BranchLines -> "bra" [] source[k].stmt.opcode = 40 -> "exit"
                      [] OTHER -> "alu",
             guard |-> [present |-> source[k].stmt.present = 1],
             target |-> IF k \in BranchLines THEN TargetOf(k) ELSE 0]
    BY <1>1 DEF FlowAsWritten
  <2>2. WordFor(words, imm, q, k, i)
    BY <1>1
  <2>3. /\ flow[q].op = CASE i.opcode \in Bra -> "bra" [] i.opcode = 40 -> "exit"
                          [] OTHER -> "alu"
        /\ flow[q].guard.present <=> i.present = 1
        /\ i.opcode \in Bra => flow[q].target = BranchTarget(i)
    OBVIOUS
  <2> HIDE DEF k, i
  <2>4. /\ i.opcode = source[k].stmt.opcode /\ i.present = source[k].stmt.present
        /\ k \in BranchLines <=> i.opcode \in Bra
        /\ (k \in BranchLines => i.imm = imm[k])
    BY <2>2 DEF WordFor
  <2>5. FlowAsWritten[q].guard.present <=> source[k].stmt.present = 1
    <3> DEFINE present == source[k].stmt.present = 1
    <3>1. FlowAsWritten[q].guard = [present |-> present] /\ present \in BOOLEAN
      BY <2>1
    <3> HIDE DEF present
    <3>2. FlowAsWritten[q].guard.present = present
      BY <3>1
    <3> QED
      BY <3>2 DEF present
  <2>6. FlowAsWritten[q].op = CASE k \in BranchLines -> "bra"
                                [] source[k].stmt.opcode = 40 -> "exit"
                                [] OTHER -> "alu"
    BY <2>1
  <2>7. FlowAsWritten[q].target = IF k \in BranchLines THEN TargetOf(k) ELSE 0
    BY <2>1
  <2>8. flow[q].op = FlowAsWritten[q].op /\ (flow[q].op = "bra" => k \in BranchLines)
    BY <2>3, <2>4, <2>6 DEF Bra
  <2>9. k \in BranchLines => flow[q].target = TargetOf(k) /\ TargetOf(k) \in 0..n - 1
    BY <2>3, <2>4 DEF BranchTarget
  <2> QED
    BY <2>3, <2>4, <2>5, <2>7, <2>8, <2>9
<1> QED
  BY <1>1, <1>2, <1>3 DEF SameFlow

LEMMA AnnotateInv ==
    Inv /\ Annotate => Inv'
<1> SUFFICES ASSUME Inv, Annotate PROVE Inv'
  OBVIOUS
<1> DEFINE words == program.words
           n == Len(words)
           structs == Patched(words, <<>>)
           flow == [k \in DOMAIN words |-> Flow(structs[k])]
           imms == [k \in Branches(words) |->
                        MakeBranchImm(flow[k].target, ReconvergencePC(flow, k - 1))]
           annotated == Patched(words, imms)
           after == [k \in DOMAIN annotated |-> Packed(annotated[k])]
           imm == ImmIn("resolve", <<>>)
           next == ImmIn("done", <<>>)
<1>1. /\ phase = "resolve" /\ pending = <<>>
      /\ IF ~Encodable(structs) THEN Abort
         ELSE IF \E k \in Branches(words) : flow[k].target >= n THEN Refuse(0)
         ELSE IF ~Encodable(annotated) THEN Abort
         ELSE /\ program' = [program EXCEPT !.words = after]
              /\ phase' = "done"
              /\ UNCHANGED <<source, line, labels, pending, error, round, origin>>
  BY DEF Annotate, WithWords
<1>2. /\ Typed /\ Core /\ line = Len(source) + 1 /\ line \in 1..Len(source) + 1
      /\ {j \in Lines : Faulty(j)} = {}
      /\ (\E j \in Lines : Kind(j) = "entry") /\ Cardinality(InstructionLines) <= NoReconv
      /\ \A j \in BranchLines :
             LabelOf(j) \in DOMAIN labels <=> LabelLines(LabelOf(j)) # {}
  BY <1>1, SourceRead
<1>3. \A k \in BranchLines : LabelOf(k) \in DOMAIN labels
  BY <1>1, <1>2 DEF Core, Waits
<1>4. /\ WordsRead(Len(source) + 1, words, imm) /\ InRange(Len(source) + 1, imm)
      /\ \A k \in BranchLines : /\ imm[k] % Halves = TargetOf(k) /\ TargetOf(k) \in PC
                                /\ TargetOf(k) \in 0..Cardinality(InstructionLines)
  BY <1>1, ResolvedFlow
<1> HIDE DEF imm
<1>5. /\ n = Cardinality(InstructionLines) /\ DOMAIN words = 1..n /\ n \in Nat
      /\ \A q \in 1..n : WordFor(words, imm, q, At(q - 1), Unpacked(words[q]))
  BY <1>2, <1>4, WordOf
<1>6. \A q \in 1..n : structs[q] = Unpacked(words[q]) /\ DOMAIN structs = 1..n
  BY <1>5 DEF Patched
<1>7. Encodable(structs)
  <2>1. DOMAIN structs = 1..n
    BY <1>5 DEF Patched
  <2> QED
    BY <1>5, <1>6, <2>1 DEF Encodable, WordFor, Valid
<1>8. /\ DOMAIN flow = 1..n
      /\ \A q \in 1..n : LET i == Unpacked(words[q]) IN
             /\ flow[q].op = CASE i.opcode \in Bra -> "bra" [] i.opcode = 40 -> "exit"
                               [] OTHER -> "alu"
             /\ flow[q].guard.present <=> i.present = 1
             /\ flow[q].target = BranchTarget(i)
  BY <1>5, <1>6 DEF Flow
<1>9. Branches(words) = {q \in 1..n : Unpacked(words[q]).opcode \in Bra}
  BY <1>5 DEF Branches
<1> HIDE DEF structs
<1>10. \A q \in Branches(words) : /\ q \in 1..n /\ At(q - 1) \in BranchLines
                                  /\ flow[q].target = TargetOf(At(q - 1))
                                  /\ PCOf(At(q - 1)) = q - 1
  <2> TAKE q \in Branches(words)
  <2>1. q \in 1..n /\ Unpacked(words[q]).opcode \in Bra
    BY <1>9
  <2>2. WordFor(words, imm, q, At(q - 1), Unpacked(words[q]))
    BY <1>5, <2>1
  <2>3. At(q - 1) \in BranchLines /\ Unpacked(words[q]).imm = imm[At(q - 1)]
        /\ PCOf(At(q - 1)) = q - 1
    BY <2>1, <2>2 DEF WordFor
  <2>4. flow[q].target = BranchTarget(Unpacked(words[q]))
    BY <1>8, <2>1
  <2> QED
    BY <1>4, <2>1, <2>3, <2>4 DEF BranchTarget
<1>11. \A k \in BranchLines : PCOf(k) + 1 \in Branches(words) /\ At((PCOf(k) + 1) - 1) = k
  <2> TAKE k \in BranchLines
  <2> DEFINE q == PCOf(k) + 1
  <2>1. k \in InstructionLines /\ q \in 1..n /\ q - 1 = PCOf(k)
    BY <1>2, <1>5, LinesAre, OnePC
  <2>2. At(q - 1) = k
    BY <1>2, <2>1, AtIs
  <2> HIDE DEF q
  <2>3. WordFor(words, imm, q, k, Unpacked(words[q]))
    BY <1>5, <2>1, <2>2
  <2>4. q \in Branches(words) /\ At(q - 1) = k
    BY <1>9, <2>1, <2>2, <2>3 DEF WordFor
  <2> QED
    BY <2>4 DEF q
<1> HIDE DEF flow
<1>12. ASSUME \E k \in Branches(words) : flow[k].target >= n PROVE Inv'
  <2>1. PICK q \in Branches(words) : flow[q].target >= n
    BY <1>12
  <2>2. At(q - 1) \in BranchLines /\ TargetOf(At(q - 1)) = Cardinality(InstructionLines)
    BY <1>4, <1>5, <1>10, <2>1
  <2>3. {j \in BranchLines : LabelLines(LabelOf(j)) = {}} = {}
    BY <1>2, <1>3
  <2>4. NamesFirst(0)
    BY <1>2, <2>2, <2>3 DEF NamesFirst
  <2>5. Refuse(0)
    BY <1>1, <1>7, <1>12
  <2> QED
    BY <2>4, <2>5, RefuseInv
<1>13. ASSUME ~ \E k \in Branches(words) : flow[k].target >= n PROVE Inv'
  <2>1. \A k \in BranchLines : imm[k] % Halves = TargetOf(k) /\ TargetOf(k) \in 0..n - 1
    <3> TAKE k \in BranchLines
    <3> DEFINE q == PCOf(k) + 1
    <3>1. q \in Branches(words) /\ At(q - 1) = k
      BY <1>11
    <3> HIDE DEF q
    <3>2. ~(flow[q].target >= n) /\ flow[q].target = TargetOf(k)
      BY <1>10, <1>13, <3>1
    <3> QED
      BY <1>4, <1>5, <3>2
  <2>2. SameFlow(flow, FlowAsWritten, n)
    BY <1>2, <1>4, <1>8, <2>1, FlowOfWords
  <2>3. ASSUME NEW q \in 1..n
        PROVE  /\ ReconvergencePC(flow, q - 1) = ReconvergencePC(FlowAsWritten, q - 1)
               /\ ReconvergencePC(FlowAsWritten, q - 1) \in PC
    <3>1. n \in Nat \ {0} /\ n <= NoReconv
      BY <1>2, <1>5, <2>3
    <3>2. flow \in [1..n -> {flow[k] : k \in 1..n}]
      BY <1>5 DEF flow
    <3>3. FlowAsWritten \in [1..n -> {FlowAsWritten[k] : k \in 1..n}]
      BY <1>5 DEF FlowAsWritten
    <3> QED
      BY <2>2, <3>1, <3>2, <3>3, SameFlowReconverges
  <2>4. \A k \in BranchLines :
            next[k] = MakeBranchImm(TargetOf(k), ReconvergencePC(FlowAsWritten, PCOf(k)))
    BY DEF ImmIn
  <2>5. InRange(Len(source) + 1, next)
    <3>1. ASSUME NEW k \in BranchLines PROVE next[k] \in 0..Immediates - 1
      <4> DEFINE q == PCOf(k) + 1
      <4>1. q \in 1..n /\ q - 1 = PCOf(k)
        BY <1>2, <1>5, LinesAre, OnePC
      <4> HIDE DEF q
      <4>2. TargetOf(k) \in PC /\ ReconvergencePC(FlowAsWritten, PCOf(k)) \in PC
        BY <1>4, <2>3, <4>1
      <4> QED
        BY <2>4, <4>2, BranchImms, SMTT(20)
    <3> QED
      BY <3>1 DEF InRange
  <2> HIDE DEF next
  <2>6. /\ DOMAIN imms = Branches(words)
        /\ \A q \in Branches(words) : imms[q] = next[At(q - 1)]
    <3>1. \A q \in Branches(words) :
              imms[q] = MakeBranchImm(flow[q].target, ReconvergencePC(flow, q - 1))
      OBVIOUS
    <3> HIDE DEF imms
    <3>2. \A q \in Branches(words) : imms[q] = next[At(q - 1)]
      BY <1>10, <2>3, <2>4, <3>1
    <3> QED
      BY <3>2 DEF imms
  <2> HIDE DEF imms
  <2>7. Encodable(annotated) /\ WordsRead(Len(source) + 1, after, next)
    BY <1>2, <1>4, <2>5, <2>6, WordsAnnotated
  <2> HIDE DEF annotated
  <2>8. /\ program' = [program EXCEPT !.words = after]
        /\ phase' = "done"
        /\ UNCHANGED <<source, line, labels, pending, error, round, origin>>
    BY <1>1, <1>7, <1>13, <2>7
  <2>9. /\ Fielded(program') /\ program'.entry = program.entry
        /\ program'.params = program.params /\ program'.shared = program.shared
        /\ program'.words = after /\ program'.labels = program.labels
    <3> DEFINE q == [program EXCEPT !.words = after]
    <3>1. Fielded(program)
      BY <1>2 DEF Core
    <3>2. /\ Fielded(q) /\ q.entry = program.entry
          /\ q.params = program.params /\ q.shared = program.shared
          /\ q.words = after /\ q.labels = program.labels
      BY <3>1, EditWords
    <3>3. program' = q
      BY <2>8
    <3> HIDE DEF q
    <3> QED
      BY <3>2, <3>3
  <2> HIDE DEF after
  <2>10. Core'
    <3>1. /\ BranchLines' = BranchLines /\ InstructionLines' = InstructionLines
          /\ \A j : LabelOf(j)' = LabelOf(j) /\ TargetOf(j)' = TargetOf(j)
      BY <2>8, SameSource
    <3>2. NoFaultBefore(line)' /\ LabelsRead(line, labels, program.labels)'
      BY <1>2, <2>8, <2>9, SameReading DEF Core
    <3>3. DirectivesRead(line, program)'
      <4>1. DirectivesRead(line, program')
        BY <1>2, <2>9 DEF Core, DirectivesRead
      <4> QED
        BY <2>8, <4>1, SameReading
    <3>4. WordsRead(line, program.words, ImmIn(phase, pending))'
      <4>1. WordsRead(line, after, ImmIn("done", <<>>))
        BY <1>2, <2>7 DEF next
      <4> QED
        BY <1>1, <2>8, <2>9, <4>1, SameReading
    <3>5. PendingRead(line, pending)'
      BY <1>2, <2>8, SameReading DEF Core
    <3>6. Len(after) = Len(words)
      BY <1>4, <2>7 DEF WordsRead
    <3>7. program.entry # NoName /\ Len(words) <= NoReconv
      BY <1>1, <1>2 DEF Core
    <3>8. (\A j \in BranchLines : Waits(j, pending) \/ LabelOf(j) \in DOMAIN labels)'
      BY <1>3, <2>8, <3>1
    <3>9. phase' = "done" /\ line' = Len(source') + 1 /\ line' \in 1..Len(source') + 1
          /\ pending' = <<>>
      BY <1>1, <1>2, <2>8
    <3>10. (\A j \in BranchLines : TargetOf(j) < Cardinality(InstructionLines))'
      BY <1>5, <2>1, <3>1
    <3> QED
      BY <2>9, <3>2, <3>3, <3>4, <3>5, <3>6, <3>7, <3>8, <3>9, <3>10 DEF Core
  <2>11. Typed'
    BY <1>2, <2>8 DEF Typed
  <2>12. (round = 2 => source = Listing(origin) /\ WellAssembled(origin))' /\ round' \in {1, 2}
    BY <2>8 DEF Inv
  <2> QED
    BY <2>8, <2>10, <2>11, <2>12 DEF Inv
<1> QED
  BY <1>12, <1>13
-----------------------------------------------------------------------------
(* Assembled programs                                                      *)

\* What an assembled program has of the branches of its source.
LEMMA DoneFlow ==
    ASSUME Inv, phase = "done", NEW imm, imm = ImmIn("done", <<>>)
    PROVE  LET words == program.words
               n == Cardinality(InstructionLines)
           IN  /\ Typed /\ Core /\ line = Len(source) + 1 /\ n = Len(words) /\ n <= NoReconv
               /\ WordsRead(Len(source) + 1, words, imm) /\ InRange(Len(source) + 1, imm)
               /\ \A k \in BranchLines :
                      /\ imm[k] % Halves = TargetOf(k) /\ TargetOf(k) \in 0..n - 1
                      /\ imm[k] \div Halves = ReconvergencePC(FlowAsWritten, PCOf(k))
                      /\ LabelOf(k) \in DOMAIN labels /\ labels[LabelOf(k)] = TargetOf(k)
               /\ \A q \in 1..n : LET k == At(q - 1) IN
                      k \in BranchLines =>
                          imm[k] = MakeBranchImm(TargetOf(k), ReconvergencePC(FlowAsWritten, q - 1))
<1> DEFINE n == Cardinality(InstructionLines)
<1>1. /\ Typed /\ Core /\ line = Len(source) + 1 /\ line \in 1..Len(source) + 1
      /\ n = Len(program.words) /\ n <= NoReconv
      /\ \A k \in BranchLines :
             LabelOf(k) \in DOMAIN labels =>
                 TargetOf(k) \in 0..n /\ TargetOf(k) \in PC /\ labels[LabelOf(k)] = TargetOf(k)
  BY SourceRead
<1>2. \A k \in BranchLines : LabelOf(k) \in DOMAIN labels /\ TargetOf(k) < n /\ pending = <<>>
  BY <1>1 DEF Core, Waits
<1>3. WordsRead(Len(source) + 1, program.words, imm)
  <2>1. pending = <<>>
    BY <1>1 DEF Core
  <2> QED
    BY <1>1, <2>1 DEF Core
<1>4. n \in Nat /\ DOMAIN FlowAsWritten = 1..n
  BY <1>1, OnePC DEF FlowAsWritten
<1>5. \A k \in BranchLines : TargetOf(k) \in 0..n - 1 /\ TargetOf(k) \in PC
  BY <1>1, <1>2, <1>4
<1>6. \A q \in 1..n :
          LET k == At(q - 1) IN
          FlowAsWritten[q] =
            [op |-> CASE k \in BranchLines -> "bra" [] source[k].stmt.opcode = 40 -> "exit"
                      [] OTHER -> "alu",
             guard |-> [present |-> source[k].stmt.present = 1],
             target |-> IF k \in BranchLines THEN TargetOf(k) ELSE 0]
  BY DEF FlowAsWritten
<1>7. SameFlow(FlowAsWritten, FlowAsWritten, n)
  <2>1. ASSUME NEW q \in 1..n, FlowAsWritten[q].op = "bra"
        PROVE  FlowAsWritten[q].target \in 0..n - 1
    <3> DEFINE k == At(q - 1)
    <3>1. FlowAsWritten[q] =
            [op |-> CASE k \in BranchLines -> "bra" [] source[k].stmt.opcode = 40 -> "exit"
                      [] OTHER -> "alu",
             guard |-> [present |-> source[k].stmt.present = 1],
             target |-> IF k \in BranchLines THEN TargetOf(k) ELSE 0]
      BY <1>6
    <3> HIDE DEF k
    <3>2. FlowAsWritten[q].op = CASE k \in BranchLines -> "bra"
                                  [] source[k].stmt.opcode = 40 -> "exit" [] OTHER -> "alu"
      BY <3>1
    <3>3. k \in BranchLines
      BY <2>1, <3>2
    <3>4. FlowAsWritten[q].target = TargetOf(k)
      BY <3>1, <3>3
    <3> QED
      BY <1>5, <3>3, <3>4
  <2> QED
    BY <1>4, <2>1 DEF SameFlow
<1>8. ASSUME NEW q \in 1..n PROVE ReconvergencePC(FlowAsWritten, q - 1) \in PC
  <2>1. n \in Nat \ {0}
    BY <1>4, <1>8
  <2>2. FlowAsWritten \in [1..n -> {FlowAsWritten[k] : k \in 1..n}]
    BY DEF FlowAsWritten
  <2> QED
    BY <1>1, <1>7, <2>1, <2>2, SameFlowReconverges
<1>9. ASSUME NEW k \in BranchLines
      PROVE  /\ imm[k] = MakeBranchImm(TargetOf(k), ReconvergencePC(FlowAsWritten, PCOf(k)))
             /\ imm[k] \in 0..Immediates - 1 /\ imm[k] % Halves = TargetOf(k)
             /\ imm[k] \div Halves = ReconvergencePC(FlowAsWritten, PCOf(k))
  <2> DEFINE q == PCOf(k) + 1
  <2>1. q \in 1..n /\ q - 1 = PCOf(k)
    BY <1>1, <1>4, LinesAre, OnePC
  <2> HIDE DEF q
  <2>2. ReconvergencePC(FlowAsWritten, PCOf(k)) \in PC
    BY <1>8, <2>1
  <2>3. imm[k] = MakeBranchImm(TargetOf(k), ReconvergencePC(FlowAsWritten, PCOf(k)))
    BY DEF ImmIn
  <2> QED
    BY <1>5, <2>2, <2>3, BranchImms, SMTT(20)
<1>10. ASSUME NEW q \in 1..n, At(q - 1) \in BranchLines
       PROVE  imm[At(q - 1)] =
                  MakeBranchImm(TargetOf(At(q - 1)), ReconvergencePC(FlowAsWritten, q - 1))
  <2>1. q - 1 \in 0..n - 1
    BY <1>4
  <2>2. PCOf(At(q - 1)) = q - 1
    BY <1>1, <2>1, AtPC
  <2> QED
    BY <1>9, <1>10, <2>2
<1> QED
  BY <1>1, <1>2, <1>3, <1>5, <1>9, <1>10 DEF InRange

\* The program is what disassemble relies on.
LEMMA DoneWell ==
    ASSUME Inv, phase = "done"
    PROVE  WellAssembled(program)
<1> DEFINE words == program.words
           n == Cardinality(InstructionLines)
           imm == ImmIn("done", <<>>)
<1>1. /\ Typed /\ Core /\ line = Len(source) + 1 /\ n = Len(words) /\ n <= NoReconv
      /\ WordsRead(Len(source) + 1, words, imm) /\ InRange(Len(source) + 1, imm)
      /\ \A k \in BranchLines :
             /\ imm[k] % Halves = TargetOf(k) /\ TargetOf(k) \in 0..n - 1
             /\ LabelOf(k) \in DOMAIN labels /\ labels[LabelOf(k)] = TargetOf(k)
      /\ \A q \in 1..n : LET k == At(q - 1) IN
             k \in BranchLines =>
                 imm[k] = MakeBranchImm(TargetOf(k), ReconvergencePC(FlowAsWritten, q - 1))
  BY DoneFlow
<1> HIDE DEF imm
<1>2. /\ Fielded(program) /\ DirectivesRead(Len(source) + 1, program)
      /\ LabelsRead(Len(source) + 1, labels, program.labels) /\ program.entry # NoName
  BY <1>1 DEF Core
<1>3. /\ DOMAIN words = 1..n /\ n \in Nat /\ words \in Seq(Nat)
      /\ \A q \in 1..n : WordFor(words, imm, q, At(q - 1), Unpacked(words[q]))
  BY <1>1, WordOf
<1>4. program.entry \in Names
  BY <1>1, <1>2, StatementIs DEF DirectivesRead
<1>5. Len(source) + 1 \in 1..Len(source) + 1
  BY <1>1, LinesAre
<1>6. /\ program.params \in Seq(Names) /\ Distinct(program.params)
      /\ program.shared \in 0..Immediates - 1 /\ program.params = ParamsBefore(Len(source) + 1)
  BY <1>1, <1>2, <1>5, ParamsBeforeIs DEF DirectivesRead
<1>7. /\ program.labels \in [DOMAIN program.labels -> Names]
      /\ \A x, y \in DOMAIN program.labels : program.labels[x] = program.labels[y] => x = y
      /\ \A name \in DOMAIN labels : labels[name] \in DOMAIN program.labels
  BY <1>2 DEF LabelsRead
<1> DEFINE own == OwnFlow(words)
<1>8. /\ DOMAIN own = 1..n
      /\ \A q \in 1..n : LET i == Unpacked(words[q]) IN
             /\ own[q].op = CASE i.opcode \in Bra -> "bra" [] i.opcode = 40 -> "exit"
                              [] OTHER -> "alu"
             /\ own[q].guard.present <=> i.present = 1
             /\ i.opcode \in Bra => own[q].target = BranchTarget(i)
  BY <1>3 DEF OwnFlow
<1>9. own \in [1..n -> {own[k] : k \in 1..n}]
  BY <1>3 DEF OwnFlow
<1> HIDE DEF own
<1>10. SameFlow(own, FlowAsWritten, n)
  BY <1>1, <1>8, FlowOfWords
<1>11. ASSUME NEW q \in 1..n
       PROVE  /\ ReconvergencePC(own, q - 1) = ReconvergencePC(FlowAsWritten, q - 1)
              /\ ReconvergencePC(FlowAsWritten, q - 1) \in PC
  <2>1. n \in Nat \ {0}
    BY <1>3, <1>11
  <2> DEFINE S == {own[k] : k \in 1..n}
             T == {FlowAsWritten[k] : k \in 1..n}
  <2>2. own \in [1..n -> S] /\ FlowAsWritten \in [1..n -> T]
    BY <1>9 DEF FlowAsWritten
  <2>3. q \in 1..n /\ n <= NoReconv /\ SameFlow(own, FlowAsWritten, n)
    BY <1>1, <1>10
  <2> HIDE DEF n, S, T
  <2> QED
    BY <2>1, <2>2, <2>3, SameFlowReconverges
<1>12. ASSUME NEW q \in 1..n
       PROVE  LET i == Unpacked(words[q]) IN
              /\ Valid(i) /\ Packed(i) = words[q]
              /\ i.opcode \in Ldp => i.imm < Len(program.params)
              /\ i.opcode \in Bra =>
                     /\ BranchTarget(i) \in DOMAIN program.labels
                     /\ BranchTarget(i) \in 0..n - 1
                     /\ i.imm = MakeBranchImm(BranchTarget(i), ReconvergencePC(own, q - 1))
  <2> DEFINE k == At(q - 1)
             i == Unpacked(words[q])
  <2>1. WordFor(words, imm, q, k, i)
    BY <1>3
  <2>2. k \in BranchLines =>
            imm[k] = MakeBranchImm(TargetOf(k), ReconvergencePC(FlowAsWritten, q - 1))
    BY <1>1
  <2> HIDE DEF k, i
  <2>3. Valid(i) /\ Packed(i) = words[q] /\ k \in Lines
    BY <1>1, <2>1, LinesAre DEF WordFor
  <2>4. ASSUME i.opcode \in Ldp PROVE i.imm < Len(program.params)
    <3>1. i.imm < Len(ParamsBefore(k)) /\ i.imm \in Nat
      BY <2>1, <2>3, <2>4 DEF WordFor, Valid, InstructionType, Fields
    <3>2. k \in 1..Len(source) + 1 /\ k \in 1..(Len(source) + 1)
      BY <1>1, <2>3, LinesAre
    <3>3. Len(ParamsBefore(k)) <= Len(ParamsBefore(Len(source) + 1))
      BY <1>1, <1>5, <3>2, ParamsGrow
    <3>4. Len(ParamsBefore(k)) \in Nat /\ Len(program.params) \in Nat
      BY <1>1, <1>6, <3>2, ParamsBeforeIs, LenProperties
    <3> QED
      BY <1>6, <3>1, <3>3, <3>4
  <2>5. ASSUME i.opcode \in Bra
        PROVE  /\ BranchTarget(i) \in DOMAIN program.labels
               /\ BranchTarget(i) \in 0..n - 1
               /\ i.imm = MakeBranchImm(BranchTarget(i), ReconvergencePC(own, q - 1))
    <3>1. k \in BranchLines /\ i.imm = imm[k]
      BY <2>1, <2>5 DEF WordFor
    <3>2. BranchTarget(i) = TargetOf(k)
      BY <1>1, <3>1 DEF BranchTarget
    <3>3. TargetOf(k) \in DOMAIN program.labels
      BY <1>1, <1>7, <3>1
    <3> QED
      BY <1>1, <1>11, <2>2, <3>1, <3>2, <3>3
  <2> QED
    BY <2>3, <2>4, <2>5 DEF i
<1> QED
  BY <1>1, <1>2, <1>3, <1>4, <1>6, <1>7, <1>12 DEF WellAssembled, own

\* It can be printed.
LEMMA WellPrintable ==
    ASSUME NEW p, WellAssembled(p)
    PROVE  /\ Printable(p) /\ DOMAIN p.words = 1..Len(p.words) /\ Len(p.words) \in Nat
           /\ DOMAIN Patched(p.words, <<>>) = DOMAIN p.words
           /\ \A k \in DOMAIN p.words : Patched(p.words, <<>>)[k] = Unpacked(p.words[k])
<1>1. DOMAIN p.words = 1..Len(p.words) /\ Len(p.words) \in Nat
  BY LenProperties DEF WellAssembled
<1>2. /\ DOMAIN Patched(p.words, <<>>) = DOMAIN p.words
      /\ \A k \in DOMAIN p.words : Patched(p.words, <<>>)[k] = Unpacked(p.words[k])
  BY DEF Patched
<1>3. Printable(p)
  BY <1>2 DEF Printable, Encodable, WellAssembled, Valid
<1> QED
  BY <1>1, <1>2, <1>3
-----------------------------------------------------------------------------
(* The lines of a listing                                                  *)

\* Blocks of lines put one after the other.
Flattens(S, n, blocks, R) ==
    /\ R \in [0..n -> Seq(S)] /\ R[0] = <<>> /\ \A k \in 1..n : R[k] = R[k - 1] \o blocks[k]
    /\ FlattenSeq(blocks) = R[n]

LEMMA FlattenIs ==
    ASSUME NEW S, NEW n \in Nat \ {0}, NEW blocks, blocks \in [1..n -> Seq(S)]
    PROVE  \E R : Flattens(S, n, blocks, R)
<1> DEFINE step == [k \in 1..n |-> [x \in Seq(S) |-> x \o blocks[k]]]
           Is(F) == F = [k \in 1..n |-> IF k = 1 THEN blocks[k] ELSE F[k - 1] \o blocks[k]]
<1>1. step \in [1..n -> [Seq(S) -> Seq(S)]]
  BY ConcatProperties
<1>2. PICK R \in [0..n -> Seq(S)] : R[0] = <<>> /\ \A k \in 1..n : R[k] = step[k][R[k - 1]]
  <2>1. Recursion(Seq(S), n, <<>>, step)
    BY <1>1, EmptySeq DEF Recursion
  <2> HIDE DEF step
  <2>2. \E R : Values(Seq(S), n, <<>>, step, R)
    BY <2>1, RecursionExists
  <2> QED
    BY <2>2 DEF Values
<1>3. \A k \in 1..n : k - 1 \in 0..n /\ R[k - 1] \in Seq(S) /\ R[k] = R[k - 1] \o blocks[k]
  <2> TAKE k \in 1..n
  <2>1. k - 1 \in 0..n
    OBVIOUS
  <2> QED
    BY <1>2, <2>1
<1> HIDE DEF step
<1>4. 1 \in 1..n /\ R[1] = blocks[1]
  <2>1. R[1] = R[1 - 1] \o blocks[1] /\ 1 - 1 = 0 /\ 1 \in 1..n
    BY <1>3
  <2>2. <<>> \o blocks[1] = blocks[1]
    BY <2>1, ConcatEmptySeq
  <2> QED
    BY <1>2, <2>1, <2>2
<1> DEFINE F0 == [k \in 1..n |-> R[k]]
<1>5. Is(F0)
  <2>1. ASSUME NEW k \in 1..n, k # 1 PROVE R[k] = F0[k - 1] \o blocks[k]
    <3>1. k - 1 \in 1..n
      BY <2>1
    <3> QED
      BY <1>3, <3>1
  <2> QED
    BY <1>4, <2>1
<1> DEFINE F == CHOOSE G : Is(G)
<1>6. Is(F)
  <2> HIDE DEF Is, F0
  <2> QED
    BY <1>5
<1>7. Len(blocks) = n
  BY FunctionSeq
<1>8. FlattenSeq(blocks) = F[n]
  BY <1>7 DEF FlattenSeq
<1> HIDE DEF F
<1>9. /\ F[1] = blocks[1]
      /\ \A k \in 1..n : k # 1 => F[k] = F[k - 1] \o blocks[k]
  BY <1>4, <1>6
<1>10. F[n] = R[n]
  <2> DEFINE Good == {k \in 0..n : k = 0 \/ F[k] = R[k]}
  <2>1. 0 \in Good
    OBVIOUS
  <2>2. ASSUME NEW k \in 0..n - 1, k \in Good PROVE k + 1 \in Good
    <3>1. k + 1 \in 1..n /\ (k + 1) - 1 = k /\ k + 1 \in 0..n
      OBVIOUS
    <3>2. CASE k = 0
      BY <1>4, <1>9, <3>1, <3>2
    <3>3. CASE k # 0
      <4>1. F[k] = R[k] /\ k + 1 # 1
        BY <2>2, <3>3
      <4>2. F[k + 1] = F[k] \o blocks[k + 1] /\ R[k + 1] = R[k] \o blocks[k + 1]
        <5> DEFINE j == k + 1
        <5>1. j \in 1..n /\ j # 1 /\ j - 1 = k
          BY <3>1, <4>1
        <5> HIDE DEF j
        <5>2. F[j] = F[k] \o blocks[j] /\ R[j] = R[k] \o blocks[j]
          BY <1>3, <1>9, <5>1
        <5> QED
          BY <5>2 DEF j
      <4> QED
        BY <3>1, <4>1, <4>2
    <3> QED
      BY <3>2, <3>3
  <2> HIDE DEF Good
  <2>3. 0..n \subseteq Good
    BY <2>1, <2>2, UpTo
  <2> QED
    BY <2>3 DEF Good
<1> QED
  BY <1>2, <1>3, <1>8, <1>10 DEF Flattens

\* The lines before the instructions, and those of one instruction.
Opening(p) ==
    <<Line(NoName, [kind |-> "entry", name |-> p.entry])>>
    \o [k \in DOMAIN p.params |-> Line(NoName, [kind |-> "param", name |-> p.params[k]])]
    \o <<Line(NoName, [kind |-> "shared", bytes |-> p.shared])>>
Shown(p, k) == Line(NoName, PrintedStatement(Unpacked(p.words[k]), p.labels, p.params))
Block(p, k) ==
    (IF k - 1 \in DOMAIN p.labels THEN <<Line(p.labels[k - 1], [kind |-> "none"])>> ELSE <<>>)
    \o <<Shown(p, k)>>

LEMMA ListingBlocks ==
    ASSUME NEW p, WellAssembled(p)
    PROVE  Listing(p) = Opening(p) \o FlattenSeq([k \in DOMAIN p.words |-> Block(p, k)])
<1> DEFINE structs == Patched(p.words, <<>>)
           targets == {BranchTarget(structs[k]) : k \in Branches(p.words)}
           names == [pc \in DOMAIN p.labels \cup targets |->
                        IF pc \in DOMAIN p.labels THEN p.labels[pc] ELSE SynthesizedLabel[pc]]
           B(i, k, ns) ==
               (IF k - 1 \in DOMAIN ns THEN <<Line(ns[k - 1], [kind |-> "none"])>> ELSE <<>>)
               \o <<Line(NoName, PrintedStatement(i, ns, p.params))>>
<1>1. Listing(p) = Opening(p) \o FlattenSeq([k \in DOMAIN p.words |-> B(structs[k], k, names)])
  BY DEF Listing, Opening, PrintedStatement
<1>2. \A k \in DOMAIN p.words : structs[k] = Unpacked(p.words[k])
  BY WellPrintable
<1>3. targets \subseteq DOMAIN p.labels
  <2>1. ASSUME NEW k \in Branches(p.words) PROVE BranchTarget(structs[k]) \in DOMAIN p.labels
    BY <1>2 DEF Branches, WellAssembled
  <2> QED
    BY <2>1
<1> HIDE DEF targets
<1>4. names = p.labels
  <2>1. DOMAIN p.labels \cup targets = DOMAIN p.labels
    BY <1>3
  <2>2. names = [pc \in DOMAIN p.labels |-> p.labels[pc]]
    BY <2>1
  <2>3. p.labels = [pc \in DOMAIN p.labels |-> p.labels[pc]]
    BY DEF WellAssembled
  <2> QED
    BY <2>2, <2>3
<1> HIDE DEF names, structs
<1>5. \A k \in DOMAIN p.words : B(structs[k], k, names) = Block(p, k)
  BY <1>2, <1>4 DEF Block, Shown
<1> HIDE DEF B
<1>6. [k \in DOMAIN p.words |-> B(structs[k], k, names)] = [k \in DOMAIN p.words |-> Block(p, k)]
  BY <1>5
<1> QED
  BY <1>1, <1>6
\* They are lines of a source.
LEMMA LineForms ==
    /\ \A name \in Names : /\ Line(NoName, [kind |-> "entry", name |-> name]) \in LineType
                           /\ Line(NoName, [kind |-> "param", name |-> name]) \in LineType
                           /\ Line(name, [kind |-> "none"]) \in LineType
    /\ \A n \in Nat : Line(NoName, [kind |-> "shared", bytes |-> n]) \in LineType
    /\ \A s \in InstructionLine : Line(NoName, s) \in LineType
BY DEF Line, LineType

LEMMA OpeningIs ==
    ASSUME NEW p, WellAssembled(p)
    PROVE  LET s == Opening(p)
               n == Len(p.params)
           IN  /\ n \in Nat /\ s \in Seq(LineType) /\ Len(s) = n + 2
               /\ s[1] = Line(NoName, [kind |-> "entry", name |-> p.entry])
               /\ \A j \in 1..n : s[1 + j] = Line(NoName, [kind |-> "param", name |-> p.params[j]])
               /\ s[n + 2] = Line(NoName, [kind |-> "shared", bytes |-> p.shared])
<1> DEFINE n == Len(p.params)
           e == Line(NoName, [kind |-> "entry", name |-> p.entry])
           f == [k \in DOMAIN p.params |-> Line(NoName, [kind |-> "param", name |-> p.params[k]])]
           z == Line(NoName, [kind |-> "shared", bytes |-> p.shared])
<1>1. /\ n \in Nat /\ DOMAIN p.params = 1..n /\ \A k \in 1..n : p.params[k] \in Names
      /\ p.entry \in Names /\ p.shared \in Nat
  BY LenProperties, ElementOfSeq DEF WellAssembled
<1>2. /\ f \in [1..n -> LineType] /\ e \in LineType /\ z \in LineType
      /\ \A j \in 1..n : f[j] = Line(NoName, [kind |-> "param", name |-> p.params[j]])
  BY <1>1, LineForms
<1>3. Opening(p) = (<<e>> \o f) \o <<z>>
  BY DEF Opening
<1> HIDE DEF e, f, z
<1>4. f \in Seq(LineType) /\ Len(f) = n
  <2> HIDE DEF n
  <2> QED
    BY <1>1, <1>2, FunctionSeq
<1>5. /\ <<e>> \in Seq(LineType) /\ Len(<<e>>) = 1 /\ <<e>>[1] = e
      /\ <<z>> \in Seq(LineType) /\ Len(<<z>>) = 1 /\ <<z>>[1] = z
  BY <1>2
<1> DEFINE a == <<e>> \o f
           s == a \o <<z>>
<1>6. /\ a \in Seq(LineType) /\ Len(a) = 1 + n
      /\ \A i \in 1..1 + n : a[i] = IF i <= 1 THEN e ELSE f[i - 1]
  <2>1. /\ a \in Seq(LineType) /\ Len(a) = Len(<<e>>) + Len(f)
        /\ \A i \in 1..Len(<<e>>) + Len(f) :
               a[i] = IF i <= Len(<<e>>) THEN <<e>>[i] ELSE f[i - Len(<<e>>)]
    BY <1>4, <1>5, ConcatProperties
  <2> HIDE DEF a
  <2>2. ASSUME NEW i \in 1..1 + n PROVE a[i] = IF i <= 1 THEN e ELSE f[i - 1]
    <3>1. a[i] = IF i <= 1 THEN <<e>>[i] ELSE f[i - 1]
      BY <1>4, <1>5, <2>1
    <3>2. i <= 1 => i = 1
      BY <1>1
    <3> QED
      BY <1>5, <3>1, <3>2
  <2> QED
    BY <1>4, <1>5, <2>1, <2>2
<1> HIDE DEF a
<1>7. /\ s \in Seq(LineType) /\ Len(s) = n + 2
      /\ \A i \in 1..n + 2 : s[i] = IF i <= 1 + n THEN a[i] ELSE <<z>>[i - (1 + n)]
  <2>1. /\ s \in Seq(LineType) /\ Len(s) = Len(a) + Len(<<z>>)
        /\ \A i \in 1..Len(a) + Len(<<z>>) :
               s[i] = IF i <= Len(a) THEN a[i] ELSE <<z>>[i - Len(a)]
    BY <1>5, <1>6, ConcatProperties
  <2>2. Len(a) + Len(<<z>>) = n + 2 /\ Len(a) = 1 + n
    BY <1>1, <1>5, <1>6
  <2> HIDE DEF s
  <2> QED
    BY <2>1, <2>2
<1> HIDE DEF s, n
<1>8. s[1] = e
  <2>1. 1 \in 1..n + 2 /\ 1 \in 1..1 + n /\ 1 <= 1 + n
    BY <1>1
  <2> QED
    BY <1>6, <1>7, <2>1
<1>9. \A j \in 1..n : s[1 + j] = f[j]
  <2> TAKE j \in 1..n
  <2> DEFINE i == 1 + j
  <2>1. i \in 1..n + 2 /\ i \in 1..1 + n /\ i <= 1 + n /\ ~(i <= 1) /\ i - 1 = j
    BY <1>1
  <2> HIDE DEF i
  <2>2. s[i] = f[j]
    BY <1>6, <1>7, <2>1
  <2> QED
    BY <2>2 DEF i
<1>10. s[n + 2] = z
  <2> DEFINE i == n + 2
  <2>1. i \in 1..n + 2 /\ ~(i <= 1 + n) /\ i - (1 + n) = 1
    BY <1>1
  <2> HIDE DEF i
  <2>2. s[i] = <<z>>[1]
    BY <1>7, <2>1
  <2> QED
    BY <1>5, <2>2 DEF i
<1>11. Opening(p) = s
  BY <1>3 DEF s, a
<1> QED
  BY <1>1, <1>2, <1>7, <1>8, <1>9, <1>10, <1>11 DEF e, z, n

LEMMA BlockIs ==
    ASSUME NEW p, WellAssembled(p), NEW k \in 1..Len(p.words)
    PROVE  LET b == Block(p, k)
               named == k - 1 \in DOMAIN p.labels
               size == IF named THEN 2 ELSE 1
           IN  /\ b \in Seq(LineType) /\ Len(b) = size /\ b[size] = Shown(p, k)
               /\ named => b[1] = Line(p.labels[k - 1], [kind |-> "none"])
<1>1. k \in DOMAIN p.words
  BY WellPrintable
<1> DEFINE i == Unpacked(p.words[k])
           a == Line(p.labels[k - 1], [kind |-> "none"])
           b == Shown(p, k)
<1>2. CanPrint(i, p.labels, p.params)
  BY <1>1 DEF WellAssembled, CanPrint
<1>3. b \in LineType
  <2>1. PrintedStatement(i, p.labels, p.params) \in InstructionLine
    BY <1>2, Reparse
  <2> QED
    BY <2>1, LineForms DEF Shown
<1>4. k - 1 \in DOMAIN p.labels => a \in LineType
  <2>1. k - 1 \in DOMAIN p.labels => p.labels[k - 1] \in Names
    BY DEF WellAssembled
  <2> QED
    BY <2>1, LineForms
<1>5. Block(p, k) = (IF k - 1 \in DOMAIN p.labels THEN <<a>> ELSE <<>>) \o <<b>>
  BY DEF Block
<1> HIDE DEF a, b
<1>6. ASSUME k - 1 \in DOMAIN p.labels
      PROVE  /\ Block(p, k) \in Seq(LineType) /\ Len(Block(p, k)) = 2
             /\ Block(p, k)[1] = a /\ Block(p, k)[2] = b
  <2>1. /\ <<a>> \in Seq(LineType) /\ Len(<<a>>) = 1 /\ <<a>>[1] = a
        /\ <<b>> \in Seq(LineType) /\ Len(<<b>>) = 1 /\ <<b>>[1] = b
    BY <1>3, <1>4, <1>6
  <2>2. Block(p, k) = <<a>> \o <<b>>
    BY <1>5, <1>6
  <2>3. /\ Block(p, k) \in Seq(LineType) /\ Len(Block(p, k)) = 1 + 1
        /\ \A x \in 1..1 + 1 : Block(p, k)[x] = IF x <= 1 THEN <<a>>[x] ELSE <<b>>[x - 1]
    BY <2>1, <2>2, ConcatProperties
  <2> QED
    BY <2>1, <2>3
<1>7. ASSUME k - 1 \notin DOMAIN p.labels
      PROVE  Block(p, k) \in Seq(LineType) /\ Len(Block(p, k)) = 1 /\ Block(p, k)[1] = b
  <2>1. <<>> \o <<b>> = <<b>>
    OBVIOUS
  <2>2. Block(p, k) = <<b>>
    BY <1>5, <1>7, <2>1
  <2> QED
    BY <1>3, <2>2
<1> QED
  BY <1>6, <1>7 DEF a, b

\* The first k instructions of the program p stand in the lines s; at[j] is the line of
\* instruction j, and a line before it has its label if it has one.
Height(p, j) == IF j - 1 \in DOMAIN p.labels THEN 2 ELSE 1
Shows(p, s, at, k) ==
    LET n == Len(p.params) IN
    /\ s \in Seq(LineType) /\ at \in [0..Len(p.words) -> Nat] /\ Len(s) = at[k]
    /\ at[0] = n + 2 /\ n + 2 <= at[k]
    /\ s[1] = Line(NoName, [kind |-> "entry", name |-> p.entry])
    /\ \A j \in 1..n : s[1 + j] = Line(NoName, [kind |-> "param", name |-> p.params[j]])
    /\ s[n + 2] = Line(NoName, [kind |-> "shared", bytes |-> p.shared])
    /\ \A j \in 1..k : /\ at[j] = at[j - 1] + Height(p, j) /\ at[j] <= at[k]
                       /\ s[at[j]] = Shown(p, j)
                       /\ j - 1 \in DOMAIN p.labels =>
                              s[at[j - 1] + 1] = Line(p.labels[j - 1], [kind |-> "none"])
    /\ \A x \in n + 3..at[k] :
           \E j \in 1..k : x = at[j] \/ (x = at[j - 1] + 1 /\ j - 1 \in DOMAIN p.labels)
LEMMA ShowsNext ==
    ASSUME NEW p, WellAssembled(p), NEW s, NEW at, NEW k \in 0..Len(p.words) - 1,
           Shows(p, s, at, k), at[k + 1] = at[k] + Height(p, k + 1)
    PROVE  Shows(p, s \o Block(p, k + 1), at, k + 1)
<1> DEFINE n == Len(p.params)
           m == Len(p.words)
           q == k + 1
           size == Height(p, q)
           b == Block(p, q)
           t == s \o b
<1>1. n \in Nat /\ m \in Nat
  BY OpeningIs, WellPrintable
<1>2. q \in 1..m /\ k \in Nat /\ q = k + 1 /\ q - 1 = k /\ k \in 0..m
  BY <1>1
<1>3. size \in {1, 2} /\ at[q] = at[k] + size /\ (k \in DOMAIN p.labels <=> size = 2)
  BY <1>2 DEF Height
<1>4. /\ b \in Seq(LineType) /\ Len(b) = size /\ b[size] = Shown(p, q)
      /\ k \in DOMAIN p.labels => b[1] = Line(p.labels[k], [kind |-> "none"])
  <2> HIDE DEF q
  <2> QED
    BY <1>2, BlockIs DEF Height
<1>5. /\ s \in Seq(LineType) /\ at \in [0..m -> Nat] /\ Len(s) = at[k]
      /\ at[0] = n + 2 /\ n + 2 <= at[k] /\ at[k] \in Nat /\ at[q] \in Nat
  <2>1. /\ s \in Seq(LineType) /\ at \in [0..m -> Nat] /\ Len(s) = at[k]
        /\ at[0] = n + 2 /\ n + 2 <= at[k]
    BY DEF Shows
  <2>2. q \in 0..m
    BY <1>1, <1>2
  <2> HIDE DEF q, m, n
  <2> QED
    BY <1>2, <2>1, <2>2
<1>6. /\ t \in Seq(LineType) /\ Len(t) = at[q]
      /\ \A x \in 1..at[q] : t[x] = IF x <= at[k] THEN s[x] ELSE b[x - at[k]]
  <2> DEFINE u == at[k]
             w == at[q]
  <2>1. /\ u \in Nat /\ w = u + size /\ size \in {1, 2} /\ Len(s) = u /\ Len(b) = size
        /\ s \in Seq(LineType) /\ b \in Seq(LineType)
    BY <1>3, <1>4, <1>5
  <2> HIDE DEF b, q, size, u, w
  <2>2. /\ t \in Seq(LineType) /\ Len(t) = Len(s) + Len(b)
        /\ \A x \in 1..Len(s) + Len(b) : t[x] = IF x <= Len(s) THEN s[x] ELSE b[x - Len(s)]
    BY <2>1, ConcatProperties
  <2>3. Len(s) + Len(b) = w
    BY <2>1
  <2> QED
    BY <2>1, <2>2, <2>3 DEF u, w
<1> HIDE DEF t, b, size, q
<1>7. \A x \in 1..at[k] : t[x] = s[x] /\ x \in 1..at[q]
  <2> TAKE x \in 1..at[k]
  <2>1. at[q] >= at[k]
    BY <1>3, <1>5
  <2>2. x \in 1..at[q] /\ x <= at[k]
    BY <1>5, <2>1
  <2> QED
    BY <1>6, <2>2
<1>8. t[at[q]] = Shown(p, q)
  <2> DEFINE x == at[q]
  <2>1. x \in 1..at[q] /\ ~(x <= at[k]) /\ x - at[k] = size
    BY <1>3, <1>5
  <2> HIDE DEF x
  <2>2. t[x] = Shown(p, q)
    BY <1>4, <1>6, <2>1
  <2> QED
    BY <2>2 DEF x
<1>9. k \in DOMAIN p.labels => t[at[k] + 1] = Line(p.labels[k], [kind |-> "none"])
  <2> DEFINE x == at[k] + 1
  <2>1. x \in 1..at[q] /\ ~(x <= at[k]) /\ x - at[k] = 1
    BY <1>3, <1>5
  <2> HIDE DEF x
  <2>2. k \in DOMAIN p.labels => t[x] = Line(p.labels[k], [kind |-> "none"])
    BY <1>4, <1>6, <2>1
  <2> QED
    BY <2>2 DEF x
<1>10. \A j \in 1..n : 1 + j \in 1..at[k] /\ n + 2 \in 1..at[k] /\ 1 \in 1..at[k]
  BY <1>1, <1>5
<1>11. 1 \in 1..at[k] /\ n + 2 \in 1..at[k]
  BY <1>1, <1>5
<1>12. /\ t[1] = Line(NoName, [kind |-> "entry", name |-> p.entry])
       /\ \A j \in 1..n : t[1 + j] = Line(NoName, [kind |-> "param", name |-> p.params[j]])
       /\ t[n + 2] = Line(NoName, [kind |-> "shared", bytes |-> p.shared])
  BY <1>7, <1>10, <1>11 DEF Shows
<1>13. ASSUME NEW j \in 1..q
       PROVE  /\ at[j] = at[j - 1] + Height(p, j) /\ at[j] <= at[q]
              /\ t[at[j]] = Shown(p, j)
              /\ j - 1 \in DOMAIN p.labels =>
                     t[at[j - 1] + 1] = Line(p.labels[j - 1], [kind |-> "none"])
  <2>1. CASE j = q
    BY <1>2, <1>3, <1>5, <1>8, <1>9, <2>1 DEF size
  <2>2. CASE j # q
    <3>1. j \in 1..k /\ j - 1 \in 0..m /\ j \in 0..m
      BY <1>1, <1>2, <2>2
    <3>2. /\ at[j] = at[j - 1] + Height(p, j) /\ at[j] <= at[k]
          /\ s[at[j]] = Shown(p, j)
          /\ j - 1 \in DOMAIN p.labels =>
                 s[at[j - 1] + 1] = Line(p.labels[j - 1], [kind |-> "none"])
      BY <3>1 DEF Shows
    <3>3. at[j - 1] \in Nat /\ at[j] \in Nat /\ Height(p, j) \in {1, 2}
      BY <1>5, <3>1 DEF Height
    <3>4. at[j] \in 1..at[k] /\ at[j - 1] + 1 \in 1..at[k] /\ at[j] <= at[q]
      <4> DEFINE u == at[j]
                 v == at[j - 1]
                 w == at[k]
                 z == at[q]
                 h == Height(p, j)
      <4>1. /\ u \in Nat /\ v \in Nat /\ w \in Nat /\ z \in Nat /\ h \in {1, 2} /\ size \in {1, 2}
            /\ u = v + h /\ u <= w /\ z = w + size
        BY <1>3, <1>5, <3>2, <3>3
      <4> HIDE DEF u, v, w, z, h
      <4>2. u \in 1..w /\ v + 1 \in 1..w /\ u <= z
        BY <4>1
      <4> QED
        BY <4>2 DEF u, v, w, z
    <3> QED
      BY <1>7, <3>2, <3>4
  <2> QED
    BY <2>1, <2>2
<1>14. ASSUME NEW x \in n + 3..at[q]
       PROVE  \E j \in 1..q : x = at[j] \/ (x = at[j - 1] + 1 /\ j - 1 \in DOMAIN p.labels)
  <2>1. CASE x <= at[k]
    <3>1. x \in n + 3..at[k]
      BY <1>1, <1>5, <2>1
    <3>2. PICK j \in 1..k : x = at[j] \/ (x = at[j - 1] + 1 /\ j - 1 \in DOMAIN p.labels)
      BY <3>1 DEF Shows
    <3>3. j \in 1..q
      BY <1>2
    <3> QED
      BY <3>2, <3>3
  <2>2. CASE ~(x <= at[k])
    <3>1. x = at[q] \/ (x = at[k] + 1 /\ size = 2)
      BY <1>1, <1>3, <1>5, <2>2, SMTT(20)
    <3>2. q \in 1..q
      BY <1>2
    <3> QED
      BY <1>2, <1>3, <3>1, <3>2
  <2> QED
    BY <2>1, <2>2
<1>15. n + 2 <= at[q]
  BY <1>1, <1>3, <1>5
<1> QED
  BY <1>5, <1>6, <1>12, <1>13, <1>14, <1>15 DEF Shows, q, t, b

LEMMA ListingShows ==
    ASSUME NEW p, WellAssembled(p)
    PROVE  \E at : Shows(p, Listing(p), at, Len(p.words))
<1> DEFINE n == Len(p.params)
           m == Len(p.words)
           blocks == [k \in 1..m |-> Block(p, k)]
<1>1. m \in Nat /\ DOMAIN p.words = 1..m /\ n \in Nat
  BY OpeningIs, WellPrintable
<1>2. Listing(p) = Opening(p) \o FlattenSeq(blocks)
  BY <1>1, ListingBlocks
<1>3. blocks \in [1..m -> Seq(LineType)] /\ \A k \in 1..m : blocks[k] = Block(p, k)
  BY BlockIs
<1> HIDE DEF blocks
<1>4. PICK R \in [0..m -> Seq(LineType)] :
          /\ R[0] = <<>> /\ \A k \in 1..m : R[k] = R[k - 1] \o blocks[k]
          /\ FlattenSeq(blocks) = R[m]
  <2>1. CASE m = 0
    <3>1. blocks \in Seq(LineType) /\ Len(blocks) = 0
      BY <1>1, <1>3, <2>1, FunctionSeq
    <3>2. blocks = <<>> /\ <<>> \in Seq(LineType)
      BY <3>1, EmptySeq
    <3>3. FlattenSeq(blocks) = <<>>
      BY <3>1, <3>2 DEF FlattenSeq
    <3> DEFINE R == [k \in 0..m |-> <<>>]
    <3>4. R \in [0..m -> Seq(LineType)] /\ R[0] = <<>> /\ R[m] = <<>> /\ 1..m = {}
      BY <1>1, <2>1, <3>2
    <3> HIDE DEF R
    <3>5. Flattens(LineType, m, blocks, R)
      BY <2>1, <3>3, <3>4 DEF Flattens
    <3> QED
      BY <3>5 DEF Flattens
  <2>2. CASE m # 0
    <3>1. m \in Nat \ {0}
      BY <1>1, <2>2
    <3>2. blocks \in [1..m -> Seq(LineType)]
      BY <1>3
    <3> HIDE DEF m
    <3>3. \E R : Flattens(LineType, m, blocks, R)
      BY <3>1, <3>2, FlattenIs
    <3> QED
      BY <3>3 DEF Flattens
  <2> QED
    BY <2>1, <2>2
<1> DEFINE at == [k \in 0..m |-> n + 2 + Len(R[k])]
           Good == {k \in 0..m : Shows(p, Opening(p) \o R[k], at, k)}
<1>5. at \in [0..m -> Nat] /\ \A k \in 0..m : at[k] = n + 2 + Len(R[k])
  <2>1. \A k \in 0..m : Len(R[k]) \in Nat
    BY <1>4, LenProperties
  <2> QED
    BY <1>1, <2>1
<1> HIDE DEF at
<1>6. 0 \in Good
  <2>1. /\ Opening(p) \in Seq(LineType) /\ Len(Opening(p)) = n + 2
        /\ Opening(p)[1] = Line(NoName, [kind |-> "entry", name |-> p.entry])
        /\ \A j \in 1..n :
               Opening(p)[1 + j] = Line(NoName, [kind |-> "param", name |-> p.params[j]])
        /\ Opening(p)[n + 2] = Line(NoName, [kind |-> "shared", bytes |-> p.shared])
    BY OpeningIs
  <2>2. Opening(p) \o R[0] = Opening(p)
    BY <1>4, <2>1, ConcatEmptySeq
  <2>3. at[0] = n + 2 /\ 0 \in 0..m
    <3>1. 0 \in 0..m /\ Len(R[0]) = 0
      BY <1>1, <1>4
    <3> HIDE DEF n, m
    <3> QED
      BY <1>1, <1>5, <3>1
  <2>4. 1..0 = {} /\ n + 3..n + 2 = {} /\ n + 2 <= n + 2
    BY <1>1
  <2>5. Shows(p, Opening(p), at, 0)
    BY <1>5, <2>1, <2>3, <2>4 DEF Shows
  <2> QED
    BY <2>2, <2>3, <2>5
<1>7. ASSUME NEW k \in 0..m - 1, k \in Good PROVE k + 1 \in Good
  <2> DEFINE q == k + 1
  <2>1. q \in 1..m /\ q - 1 = k /\ q \in 0..m /\ k \in 0..m
    BY <1>1
  <2> HIDE DEF q
  <2>2. R[q] = R[k] \o Block(p, q)
    BY <1>3, <1>4, <2>1
  <2>3. /\ Opening(p) \in Seq(LineType) /\ R[k] \in Seq(LineType)
        /\ Block(p, q) \in Seq(LineType) /\ Len(Block(p, q)) = Height(p, q)
    BY <1>4, <2>1, BlockIs, OpeningIs DEF Height
  <2> DEFINE o == Opening(p)
             r == R[k]
             b == Block(p, q)
  <2>4. o \o R[q] = (o \o r) \o b /\ Len(R[q]) = Len(r) + Height(p, q)
    <3>1. o \in Seq(LineType) /\ r \in Seq(LineType) /\ b \in Seq(LineType)
          /\ R[q] = r \o b /\ Len(b) = Height(p, q)
      BY <2>2, <2>3
    <3> HIDE DEF o, r, b
    <3>2. o \o (r \o b) = (o \o r) \o b
      <4>1. \A x, y, z \in Seq(LineType) : (x \o y) \o z = x \o (y \o z)
        BY ConcatAssociative, SMTT(20)
      <4> QED
        BY <3>1, <4>1
    <3>3. Len(r \o b) = Len(r) + Len(b)
      BY <3>1, ConcatProperties
    <3> QED
      BY <3>1, <3>2, <3>3
  <2>5. at[q] = at[k] + Height(p, q)
    <3>1. Len(R[k]) \in Nat /\ Height(p, q) \in Nat
      BY <2>3, LenProperties
    <3> DEFINE x == Len(R[k])
               y == Len(R[q])
               h == Height(p, q)
    <3>2. at[k] = n + 2 + x /\ at[q] = n + 2 + y
      BY <1>5, <2>1
    <3>3. x \in Nat /\ h \in Nat /\ y = x + h /\ n \in Nat
      BY <1>1, <2>4, <3>1
    <3> HIDE DEF x, y, h, n
    <3>4. n + 2 + y = (n + 2 + x) + h
      BY <3>3
    <3> QED
      BY <3>2, <3>4 DEF h
  <2>6. Shows(p, (Opening(p) \o R[k]) \o Block(p, q), at, q)
    BY <1>7, <2>1, <2>5, ShowsNext DEF q
  <2> QED
    BY <2>1, <2>4, <2>6 DEF q
<1> HIDE DEF Good, m
<1>8. 0..m \subseteq Good
  BY <1>1, <1>6, <1>7, UpTo
<1>9. Shows(p, Opening(p) \o R[m], at, m)
  BY <1>1, <1>8 DEF Good
<1> QED
  BY <1>2, <1>4, <1>9 DEF m
-----------------------------------------------------------------------------
(* A listing as the source                                                 *)

Relisted(p, at) == Typed /\ WellAssembled(p) /\ Shows(p, source, at, Len(p.words))

LEMMA LineFields ==
    /\ \A label, stmt : Line(label, stmt).label = label /\ Line(label, stmt).stmt = stmt
    /\ \A p, k : /\ Shown(p, k).label = NoName
                 /\ Shown(p, k).stmt = PrintedStatement(Unpacked(p.words[k]), p.labels, p.params)
                 /\ Shown(p, k).stmt.kind = "instruction"
BY DEF Line, Shown, PrintedStatement

LEMMA RelistedLines ==
    ASSUME NEW p, NEW at, Relisted(p, at)
    PROVE  LET n == Len(p.params)
               m == Len(p.words)
               named(j) == j - 1 \in DOMAIN p.labels
           IN  /\ n \in Nat /\ m \in Nat /\ at \in [0..m -> Nat]
               /\ Len(source) = at[m] /\ at[0] = n + 2 /\ n + 2 <= at[m] /\ Lines = 1..at[m]
               /\ source[1].label = NoName /\ Kind(1) = "entry" /\ source[1].stmt.name = p.entry
               /\ \A j \in 1..n : /\ source[1 + j].label = NoName /\ Kind(1 + j) = "param"
                                  /\ source[1 + j].stmt.name = p.params[j]
               /\ source[n + 2].label = NoName /\ Kind(n + 2) = "shared"
               /\ source[n + 2].stmt.bytes = p.shared
               /\ \A j \in 1..m :
                      /\ at[j] = at[j - 1] + Height(p, j) /\ at[j] \in Lines
                      /\ source[at[j]].label = NoName /\ at[j] \in InstructionLines
                      /\ source[at[j]].stmt =
                             PrintedStatement(Unpacked(p.words[j]), p.labels, p.params)
                      /\ named(j) => /\ at[j - 1] + 1 \in Lines /\ Kind(at[j - 1] + 1) = "none"
                                     /\ source[at[j - 1] + 1].label = p.labels[j - 1]
               /\ \A x \in Lines :
                      \/ x = 1 \/ x = n + 2 \/ \E j \in 1..n : x = 1 + j
                      \/ \E j \in 1..m : x = at[j] \/ (x = at[j - 1] + 1 /\ named(j))
<1> DEFINE n == Len(p.params)
           m == Len(p.words)
<1>1. Typed /\ WellAssembled(p) /\ Shows(p, source, at, m)
  BY DEF Relisted
<1>2. n \in Nat /\ m \in Nat
  BY <1>1, OpeningIs, WellPrintable
<1>3. /\ at \in [0..m -> Nat] /\ Len(source) = at[m] /\ at[0] = n + 2 /\ n + 2 <= at[m]
      /\ Lines = 1..at[m]
  BY <1>1, LinesAre DEF Shows
<1>4. source[1].label = NoName /\ Kind(1) = "entry" /\ source[1].stmt.name = p.entry
  <2>1. source[1] = Line(NoName, [kind |-> "entry", name |-> p.entry])
    BY <1>1 DEF Shows
  <2> QED
    BY <2>1, LineFields DEF Kind
<1>5. ASSUME NEW j \in 1..n
      PROVE  /\ source[1 + j].label = NoName /\ Kind(1 + j) = "param"
             /\ source[1 + j].stmt.name = p.params[j]
  <2>1. source[1 + j] = Line(NoName, [kind |-> "param", name |-> p.params[j]])
    BY <1>1 DEF Shows
  <2> QED
    BY <2>1, LineFields DEF Kind
<1>6. /\ source[n + 2].label = NoName /\ Kind(n + 2) = "shared"
      /\ source[n + 2].stmt.bytes = p.shared
  <2>1. source[n + 2] = Line(NoName, [kind |-> "shared", bytes |-> p.shared])
    BY <1>1 DEF Shows
  <2> QED
    BY <2>1, LineFields DEF Kind
<1>7. ASSUME NEW j \in 1..m
      PROVE  /\ at[j] = at[j - 1] + Height(p, j) /\ at[j] \in Lines
             /\ source[at[j]].label = NoName /\ at[j] \in InstructionLines
             /\ source[at[j]].stmt = PrintedStatement(Unpacked(p.words[j]), p.labels, p.params)
             /\ j - 1 \in DOMAIN p.labels =>
                    /\ at[j - 1] + 1 \in Lines /\ Kind(at[j - 1] + 1) = "none"
                    /\ source[at[j - 1] + 1].label = p.labels[j - 1]
  <2>1. /\ at[j] = at[j - 1] + Height(p, j) /\ at[j] <= at[m]
        /\ source[at[j]] = Shown(p, j)
        /\ j - 1 \in DOMAIN p.labels =>
               source[at[j - 1] + 1] = Line(p.labels[j - 1], [kind |-> "none"])
    BY <1>1 DEF Shows
  <2>2. at[j] \in Lines /\ at[j - 1] + 1 \in Lines
    <3> DEFINE u == at[j]
               v == at[j - 1]
               w == at[m]
    <3>1. u \in Nat /\ v \in Nat /\ w \in Nat /\ Height(p, j) \in {1, 2}
      BY <1>2, <1>3 DEF Height
    <3>2. u = v + Height(p, j) /\ u <= w
      BY <2>1
    <3> HIDE DEF u, v, w
    <3>3. u \in 1..w /\ v + 1 \in 1..w
      BY <3>1, <3>2
    <3> QED
      BY <1>3, <3>3 DEF u, v, w
  <2> QED
    BY <2>1, <2>2, LineFields DEF Kind, InstructionLines
<1>8. ASSUME NEW x \in Lines
      PROVE  \/ x = 1 \/ x = n + 2 \/ \E j \in 1..n : x = 1 + j
             \/ \E j \in 1..m : x = at[j] \/ (x = at[j - 1] + 1 /\ j - 1 \in DOMAIN p.labels)
  <2>1. CASE x \in n + 3..at[m]
    BY <1>1, <2>1 DEF Shows
  <2>2. CASE x \notin n + 3..at[m]
    <3>1. x \in 1..n + 2
      <4>1. x \in Nat /\ 1 <= x /\ x <= at[m] /\ at[m] \in Nat
        BY <1>2, <1>3
      <4> HIDE DEF n
      <4> QED
        BY <1>2, <2>2, <4>1
    <3>2. x = 1 \/ x = n + 2 \/ (x - 1 \in 1..n /\ x = 1 + (x - 1))
      <4> HIDE DEF n
      <4> QED
        BY <1>2, <3>1
    <3> QED
      BY <3>2
  <2> QED
    BY <2>1, <2>2
<1> QED
  BY <1>2, <1>3, <1>4, <1>5, <1>6, <1>7, <1>8

\* Instruction j of the program is instruction j of the source.
LEMMA RelistedPCs ==
    ASSUME NEW p, NEW at, Relisted(p, at)
    PROVE  LET m == Len(p.words) IN
           /\ Cardinality(InstructionLines) = m
           /\ \A j \in 1..m : /\ PCOf(at[j]) = j - 1 /\ At(j - 1) = at[j]
                              /\ j - 1 \in DOMAIN p.labels => PCOf(at[j - 1] + 1) = j - 1
           /\ \A k \in InstructionLines : \E j \in 1..m : k = at[j]
<1> DEFINE n == Len(p.params)
           m == Len(p.words)
<1>1. /\ n \in Nat /\ m \in Nat /\ at \in [0..m -> Nat]
      /\ Len(source) = at[m] /\ at[0] = n + 2 /\ n + 2 <= at[m] /\ Lines = 1..at[m] /\ Typed
      /\ Kind(1) = "entry" /\ Kind(n + 2) = "shared"
      /\ \A j \in 1..n : Kind(1 + j) = "param"
      /\ \A j \in 1..m :
             /\ at[j] = at[j - 1] + Height(p, j) /\ at[j] \in InstructionLines /\ at[j] \in Lines
             /\ j - 1 \in DOMAIN p.labels =>
                    at[j - 1] + 1 \in Lines /\ Kind(at[j - 1] + 1) = "none"
  <2>1. Typed
    BY DEF Relisted
  <2> QED
    BY <2>1, RelistedLines
<1>2. /\ PCOf(1) = 0 /\ \A k \in Lines : PCOf(k) \in Nat
      /\ \A k \in Lines : k \notin InstructionLines => PCOf(k + 1) = PCOf(k)
      /\ \A k \in InstructionLines : PCOf(k + 1) = PCOf(k) + 1
  <2>1. /\ \A k \in Lines : k \in 1..Len(source) + 1
        /\ InstructionLines \subseteq Lines
    BY <1>1, LinesAre
  <2>2. /\ PCOf(1) = 0
        /\ \A k \in 1..Len(source) + 1 : PCOf(k) \in Nat
        /\ \A k \in Lines : PCOf(k + 1) = PCOf(k) + (IF k \in InstructionLines THEN 1 ELSE 0)
    BY <1>1, PCOfIs
  <2>3. \A k \in Lines : PCOf(k) \in Nat
    BY <2>1, <2>2
  <2>4. ASSUME NEW k \in Lines, k \notin InstructionLines PROVE PCOf(k + 1) = PCOf(k)
    <3>1. PCOf(k + 1) = PCOf(k) + 0
      BY <2>2, <2>4
    <3> QED
      BY <2>3, <3>1
  <2>5. ASSUME NEW k \in InstructionLines PROVE PCOf(k + 1) = PCOf(k) + 1
    BY <2>1, <2>2
  <2> QED
    BY <2>2, <2>3, <2>4, <2>5
<1> HIDE DEF n, m
<1>3. PCOf(at[0] + 1) = 0
  <2> DEFINE Good == {x \in 0..n + 2 : PCOf(x + 1) = 0}
  <2>1. 0 \in Good
    BY <1>1, <1>2
  <2>2. ASSUME NEW x \in 0..n + 1, x \in Good PROVE x + 1 \in Good
    <3> DEFINE y == x + 1
    <3>1. /\ y \in Lines /\ y \in 0..n + 2 /\ PCOf(y) = 0
          /\ (y = 1 \/ y = n + 2 \/ (y - 1 \in 1..n /\ y = 1 + (y - 1)))
      BY <1>1, <2>2
    <3> HIDE DEF y
    <3>2. y \notin InstructionLines
      BY <1>1, <3>1 DEF InstructionLines
    <3>3. PCOf(y + 1) = 0
      BY <1>2, <3>1, <3>2
    <3> QED
      BY <3>1, <3>3 DEF y
  <2>3. n + 2 \in Nat /\ (n + 2) - 1 = n + 1
    BY <1>1
  <2> HIDE DEF Good
  <2>4. 0..n + 2 \subseteq Good
    <3> DEFINE z == n + 2
    <3>1. z \in Nat /\ \A x \in 0..z - 1 : x \in Good => x + 1 \in Good
      BY <2>2, <2>3
    <3> HIDE DEF z
    <3>2. 0..z \subseteq Good
      BY <2>1, <3>1, UpTo
    <3> QED
      BY <3>2 DEF z
  <2>5. n + 2 \in Good
    BY <2>3, <2>4
  <2> QED
    BY <1>1, <2>5 DEF Good
\* One instruction further.
<1>4. ASSUME NEW j \in 1..m, PCOf(at[j - 1] + 1) = j - 1
      PROVE  PCOf(at[j]) = j - 1 /\ PCOf(at[j] + 1) = j
  <2> DEFINE u == at[j]
             v == at[j - 1]
  <2>1. /\ u \in InstructionLines /\ u \in Lines /\ v \in Nat /\ j - 1 \in Nat
        /\ u = v + Height(p, j)
        /\ j - 1 \in DOMAIN p.labels => v + 1 \in Lines /\ Kind(v + 1) = "none"
    <3>1. j - 1 \in 0..m /\ j - 1 \in Nat
      BY <1>1
    <3> QED
      BY <1>1, <3>1
  <2> HIDE DEF u, v
  <2>2. PCOf(u) = j - 1
    <3>1. CASE j - 1 \in DOMAIN p.labels
      <4>1. u = (v + 1) + 1
        BY <2>1, <3>1 DEF Height
      <4>2. v + 1 \notin InstructionLines /\ v + 1 \in Lines
        BY <2>1, <3>1 DEF InstructionLines
      <4>3. PCOf((v + 1) + 1) = PCOf(v + 1)
        BY <1>2, <4>2
      <4> QED
        BY <1>4, <4>1, <4>3 DEF v
    <3>2. CASE j - 1 \notin DOMAIN p.labels
      <4>1. u = v + 1
        BY <2>1, <3>2 DEF Height
      <4> QED
        BY <1>4, <4>1 DEF v
    <3> QED
      BY <3>1, <3>2
  <2>3. PCOf(u + 1) = (j - 1) + 1 /\ (j - 1) + 1 = j
    BY <1>2, <2>1, <2>2
  <2> QED
    BY <2>2, <2>3 DEF u
<1>5. \A j \in 0..m : PCOf(at[j] + 1) = j
  <2> DEFINE Good == {j \in 0..m : PCOf(at[j] + 1) = j}
  <2>1. 0 \in Good
    BY <1>1, <1>3
  <2>2. ASSUME NEW j \in 0..m - 1, j \in Good PROVE j + 1 \in Good
    <3> DEFINE q == j + 1
    <3>1. q \in 1..m /\ q \in 0..m /\ q - 1 = j /\ PCOf(at[j] + 1) = j
      BY <1>1, <2>2
    <3> HIDE DEF q
    <3>2. PCOf(at[q] + 1) = q
      BY <1>4, <3>1
    <3> QED
      BY <3>1, <3>2 DEF q
  <2> HIDE DEF Good
  <2>3. 0..m \subseteq Good
    BY <1>1, <2>1, <2>2, UpTo
  <2> QED
    BY <2>3 DEF Good
<1>6. Cardinality(InstructionLines) = m
  <2>1. m \in 0..m
    BY <1>1
  <2> QED
    BY <1>1, <1>5, <2>1, PCOfIs
<1>7. ASSUME NEW j \in 1..m
      PROVE  /\ PCOf(at[j]) = j - 1 /\ At(j - 1) = at[j]
             /\ j - 1 \in DOMAIN p.labels => PCOf(at[j - 1] + 1) = j - 1
  <2>1. j - 1 \in 0..m
    BY <1>1
  <2>2. PCOf(at[j - 1] + 1) = j - 1
    BY <1>5, <2>1
  <2>3. PCOf(at[j]) = j - 1
    BY <1>4, <2>2
  <2>4. At(PCOf(at[j])) = at[j]
    BY <1>1, AtIs
  <2> QED
    BY <2>2, <2>3, <2>4
<1>8. ASSUME NEW k \in InstructionLines PROVE \E j \in 1..m : k = at[j]
  <2> DEFINE j == PCOf(k) + 1
  <2>1. j \in 1..m /\ j - 1 = PCOf(k)
    BY <1>1, <1>6, OnePC
  <2>2. At(PCOf(k)) = k
    BY <1>1, AtIs
  <2> HIDE DEF j
  <2>3. k = at[j]
    BY <1>7, <2>1, <2>2
  <2> QED
    BY <2>1, <2>3
<1> QED
  BY <1>6, <1>7, <1>8 DEF m
\* The parameters are the program's from its last .param on.
LEMMA RelistedParams ==
    ASSUME NEW p, NEW at, Relisted(p, at)
    PROVE  /\ \A j \in 1..Len(p.params) : ~Contains(ParamsBefore(1 + j), p.params[j])
           /\ \A j \in 1..Len(p.words) : ParamsBefore(at[j]) = p.params
           /\ ParamsBefore(Len(source) + 1) = p.params
<1> DEFINE n == Len(p.params)
           m == Len(p.words)
<1>1. Typed /\ p.params \in Seq(Names) /\ Distinct(p.params)
  BY DEF Relisted, WellAssembled
<1>2. /\ n \in Nat /\ m \in Nat
      /\ Len(source) = at[m] /\ n + 2 <= at[m] /\ at[m] \in Nat /\ Lines = 1..at[m]
      /\ Kind(1) = "entry" /\ Kind(n + 2) = "shared"
      /\ \A j \in 1..n : Kind(1 + j) = "param" /\ source[1 + j].stmt.name = p.params[j]
      /\ \A j \in 1..m : /\ at[j] = at[j - 1] + Height(p, j) /\ at[j] \in Lines
                         /\ at[j] \in InstructionLines
                         /\ j - 1 \in DOMAIN p.labels => Kind(at[j - 1] + 1) = "none"
      /\ \A x \in Lines :
             \/ x = 1 \/ x = n + 2 \/ \E j \in 1..n : x = 1 + j
             \/ \E j \in 1..m : x = at[j] \/ (x = at[j - 1] + 1 /\ j - 1 \in DOMAIN p.labels)
  <2>1. m \in Nat /\ at \in [0..m -> Nat] => at[m] \in Nat
    OBVIOUS
  <2> QED
    BY <2>1, RelistedLines
<1>3. DOMAIN p.params = 1..n /\ \A i \in 1..n : p.params[i] \in Names
  BY <1>1, LenProperties, ElementOfSeq
<1> DEFINE P(x) == ParamsBefore(x)
           Partial(s, j) == s \in Seq(Names) /\ Len(s) = j /\ \A i \in 1..j : s[i] = p.params[i]
<1>4. P(1) = <<>>
      /\ \A x \in Lines :
             P(x + 1) = IF Kind(x) = "param" THEN Append(P(x), source[x].stmt.name) ELSE P(x)
  BY <1>1, ParamsBeforeIs
<1> HIDE DEF n, m, P
<1>5. \A j \in 0..n : Partial(P(2 + j), j)
  <2> DEFINE Good == {j \in 0..n : Partial(P(2 + j), j)}
  <2>1. 0 \in Good
    <3>1. 1 \in Lines /\ Kind(1) # "param" /\ 1 + 1 = 2 /\ 2 + 0 = 2 /\ 0 \in 0..n
      BY <1>2
    <3>2. P(1 + 1) = P(1)
      BY <1>4, <3>1
    <3>3. P(2 + 0) = <<>>
      BY <1>4, <3>1, <3>2
    <3>4. Partial(<<>>, 0)
      BY EmptySeq
    <3> QED
      BY <3>1, <3>3, <3>4
  <2>2. ASSUME NEW j \in 0..n - 1, j \in Good PROVE j + 1 \in Good
    <3> DEFINE q == j + 1
               x == 1 + q
    <3>1. /\ q \in 1..n /\ q \in 0..n /\ x \in Lines /\ 2 + j = x /\ 2 + q = x + 1
          /\ j \in Nat /\ Partial(P(2 + j), j)
      BY <1>2, <2>2
    <3>2. Kind(x) = "param" /\ source[x].stmt.name = p.params[q]
      BY <1>2, <3>1
    <3>3. P(x + 1) = Append(P(x), p.params[q]) /\ Partial(P(x), j)
      BY <1>4, <3>1, <3>2
    <3>4. p.params[q] \in Names
      BY <1>3, <3>1
    <3> DEFINE s == P(x)
               t == Append(s, p.params[q])
    <3>5. s \in Seq(Names) /\ Len(s) = j /\ \A i \in 1..j : s[i] = p.params[i]
      BY <3>3
    <3> HIDE DEF s, x
    <3>6. /\ t \in Seq(Names) /\ Len(t) = j + 1 /\ \A i \in 1..j : t[i] = s[i]
          /\ t[j + 1] = p.params[q]
      BY <3>4, <3>5, Appended
    <3> HIDE DEF t
    <3>7. \A i \in 1..q : t[i] = p.params[i]
      <4>1. \A i \in 1..q : i \in 1..j \/ i = q
        BY <3>1
      <4> QED
        BY <3>5, <3>6, <4>1
    <3>8. Partial(t, q)
      BY <3>6, <3>7
    <3>9. P(2 + q) = t
      BY <3>1, <3>3 DEF s, t
    <3> QED
      BY <3>1, <3>8, <3>9
  <2> HIDE DEF Good
  <2>3. 0..n \subseteq Good
    BY <1>2, <2>1, <2>2, UpTo
  <2> QED
    BY <2>3 DEF Good
<1>6. ASSUME NEW j \in 1..n PROVE ~Contains(P(1 + j), p.params[j])
  <2> DEFINE i == j - 1
             s == P(2 + i)
  <2>1. i \in 0..n /\ 2 + i = 1 + j /\ j \in 1..n /\ \A k \in 1..i : k \in 1..n /\ k # j
    BY <1>2
  <2>2. Partial(s, i)
    BY <1>5, <2>1
  <2>3. \A k \in 1..i : s[k] # p.params[j]
    BY <1>1, <1>3, <2>1, <2>2 DEF Distinct
  <2> HIDE DEF s
  <2>4. ~Contains(s, p.params[j])
    BY <2>2, <2>3 DEF Contains
  <2> QED
    BY <2>1, <2>4 DEF s
<1>7. P(n + 2) = p.params
  <2>1. n \in 0..n /\ 2 + n = n + 2
    BY <1>2
  <2>2. Partial(P(n + 2), n)
    BY <1>5, <2>1
  <2> QED
    BY <1>1, <2>2, SeqEqual DEF n
<1>8. \A x \in Lines : n + 2 <= x => Kind(x) # "param"
  <2> TAKE x \in Lines
  <2>1. ASSUME n + 2 <= x, x # n + 2 PROVE Kind(x) # "param"
    <3>1. x # 1 /\ \A j \in 1..n : x # 1 + j
      BY <1>2, <2>1
    <3>2. PICK j \in 1..m : x = at[j] \/ (x = at[j - 1] + 1 /\ j - 1 \in DOMAIN p.labels)
      BY <1>2, <2>1, <3>1
    <3>3. Kind(x) \in {"instruction", "none"}
      BY <1>2, <3>2 DEF InstructionLines
    <3> QED
      BY <3>3
  <2> QED
    BY <1>2, <2>1
<1>9. \A x \in Lines : n + 2 <= x => P(x) = p.params /\ P(x + 1) = p.params
  <2> DEFINE d == at[m] - (n + 1)
             Good == {i \in 0..d : P(n + 2 + i) = p.params}
  <2>1. d \in Nat
    BY <1>2
  <2>2. 0 \in Good
    <3>1. n + 2 + 0 = n + 2
      BY <1>2
    <3> QED
      BY <1>7, <2>1, <3>1
  <2>3. ASSUME NEW i \in 0..d - 1, i \in Good PROVE i + 1 \in Good
    <3> DEFINE x == n + 2 + i
    <3>1. x \in Lines /\ n + 2 <= x /\ n + 2 + (i + 1) = x + 1 /\ i + 1 \in 0..d
      BY <1>2
    <3>2. P(x) = p.params
      BY <2>3
    <3> HIDE DEF x
    <3>3. P(x + 1) = p.params
      BY <1>4, <1>8, <3>1, <3>2
    <3> QED
      BY <3>1, <3>3
  <2> HIDE DEF Good, d
  <2>4. 0..d \subseteq Good
    BY <2>1, <2>2, <2>3, UpTo
  <2>5. ASSUME NEW x \in Lines, n + 2 <= x PROVE P(x) = p.params /\ P(x + 1) = p.params
    <3> DEFINE i == x - (n + 2)
    <3>1. i \in 0..d /\ i + 1 \in 0..d /\ n + 2 + i = x /\ n + 2 + (i + 1) = x + 1
      BY <1>2, <2>5 DEF d
    <3> HIDE DEF i
    <3> QED
      BY <2>4, <3>1 DEF Good
  <2> QED
    BY <2>5
<1>10. ASSUME NEW j \in 1..m PROVE P(at[j]) = p.params
  <2>1. n + 2 <= at[j]
    <3>1. \A i \in 1..n : at[j] # 1 + i
      BY <1>2 DEF InstructionLines
    <3>2. at[j] # 1
      BY <1>2 DEF InstructionLines
    <3>3. at[j] \in Nat /\ 1 <= at[j]
      BY <1>2
    <3> DEFINE u == at[j]
    <3>4. u \in Nat /\ 1 <= u /\ u # 1 /\ \A i \in 1..n : u # 1 + i
      BY <3>1, <3>2, <3>3
    <3> HIDE DEF u
    <3>5. u = 1 \/ (u - 1 \in 1..n /\ u = 1 + (u - 1)) \/ n + 2 <= u
      BY <1>2, <3>4
    <3> QED
      BY <3>4, <3>5 DEF u
  <2> QED
    BY <1>2, <1>9, <2>1
<1>11. P(Len(source) + 1) = p.params
  <2>1. at[m] \in Lines
    BY <1>2
  <2> QED
    BY <1>2, <1>9, <2>1
<1> QED
  BY <1>6, <1>10, <1>11 DEF P, n, m

\* A label of the listing is on a line of its own, and a branch goes where it did.
LEMMA RelistedLabels ==
    ASSUME NEW p, NEW at, Relisted(p, at)
    PROVE  LET m == Len(p.words) IN
           /\ \A x \in Lines : source[x].label # NoName =>
                  Kind(x) = "none" /\ \A y \in Lines : source[y].label = source[x].label => y = x
           /\ \A j \in 1..m :
                  LET i == Unpacked(p.words[j])
                      k == at[j]
                  IN  /\ CanPrint(i, p.labels, p.params)
                      /\ k \in BranchLines <=> i.opcode \in Bra
                      /\ k \in BranchLines =>
                             /\ LabelLines(LabelOf(k)) # {}
                             /\ TargetOf(k) = BranchTarget(i) /\ TargetOf(k) \in 0..m - 1
<1> DEFINE n == Len(p.params)
           m == Len(p.words)
           Label(x, j) == j \in 1..m /\ x = at[j - 1] + 1 /\ j - 1 \in DOMAIN p.labels
<1>1. WellAssembled(p) /\ Typed
  BY DEF Relisted
<1>2. /\ n \in Nat /\ m \in Nat
      /\ source[1].label = NoName /\ source[n + 2].label = NoName
      /\ \A j \in 1..n : source[1 + j].label = NoName
  BY RelistedLines
<1>3. \A j \in 1..m : /\ at[j] \in Lines /\ source[at[j]].label = NoName
                        /\ at[j] \in InstructionLines
                        /\ source[at[j]].stmt =
                               PrintedStatement(Unpacked(p.words[j]), p.labels, p.params)
  BY RelistedLines
<1>4. \A j \in 1..m : j - 1 \in DOMAIN p.labels =>
           /\ at[j - 1] + 1 \in Lines /\ Kind(at[j - 1] + 1) = "none"
           /\ source[at[j - 1] + 1].label = p.labels[j - 1]
  BY RelistedLines
<1>5. \A x \in Lines :
           \/ x = 1 \/ x = n + 2 \/ \E j \in 1..n : x = 1 + j
           \/ \E j \in 1..m : x = at[j] \/ (x = at[j - 1] + 1 /\ j - 1 \in DOMAIN p.labels)
  BY RelistedLines
<1>6. \A j \in 1..m : j - 1 \in DOMAIN p.labels => PCOf(at[j - 1] + 1) = j - 1
  BY RelistedPCs
<1>7. /\ \A x, y \in DOMAIN p.labels : p.labels[x] = p.labels[y] => x = y
      /\ \A x \in DOMAIN p.labels : p.labels[x] \in Names /\ p.labels[x] # NoName
  <2>1. /\ \A x, y \in DOMAIN p.labels : p.labels[x] = p.labels[y] => x = y
        /\ p.labels \in [DOMAIN p.labels -> Names]
    BY <1>1 DEF WellAssembled
  <2> QED
    BY <2>1, AssemblerAssumption
<1>8. ASSUME NEW x \in Lines, source[x].label # NoName
      PROVE  \E j \in 1..m : Label(x, j)
  BY <1>2, <1>8, <1>3, <1>5
<1>9. ASSUME NEW x, NEW j, Label(x, j)
      PROVE  x \in Lines /\ Kind(x) = "none" /\ source[x].label = p.labels[j - 1]
             /\ PCOf(x) = j - 1 /\ j - 1 \in DOMAIN p.labels /\ source[x].label # NoName
  BY <1>6, <1>7, <1>9, <1>4
<1>10. ASSUME NEW x, NEW y, NEW i, NEW j, Label(x, i), Label(y, j),
             source[x].label = source[y].label
      PROVE  y = x
  <2>1. i - 1 = j - 1
    BY <1>7, <1>9, <1>10
  <2> QED
    BY <1>10, <2>1
<1>11. m \in Nat
  BY <1>2
<1> HIDE DEF Label
<1>12. ASSUME NEW x \in Lines, source[x].label # NoName
      PROVE  Kind(x) = "none" /\ \A y \in Lines : source[y].label = source[x].label => y = x
  <2>1. PICK j \in 1..m : Label(x, j)
    BY <1>8, <1>12
  <2>2. ASSUME NEW y \in Lines, source[y].label = source[x].label PROVE y = x
    <3>1. PICK i \in 1..m : Label(y, i)
      BY <1>8, <1>12, <2>2
    <3> QED
      BY <1>10, <2>1, <2>2, <3>1
  <2> QED
    BY <1>9, <2>1, <2>2
<1>13. ASSUME NEW j \in 1..m
       PROVE  LET i == Unpacked(p.words[j])
                  k == at[j]
              IN  /\ CanPrint(i, p.labels, p.params)
                  /\ k \in BranchLines <=> i.opcode \in Bra
                  /\ k \in BranchLines =>
                         /\ LabelLines(LabelOf(k)) # {}
                         /\ TargetOf(k) = BranchTarget(i) /\ TargetOf(k) \in 0..m - 1
  <2> DEFINE i == Unpacked(p.words[j])
             k == at[j]
             t == BranchTarget(i)
             s == PrintedStatement(i, p.labels, p.params)
  <2>1. j \in DOMAIN p.words
    BY <1>1, LenProperties DEF WellAssembled
  <2>2. /\ Valid(i)
        /\ i.opcode \in Ldp => i.imm < n
        /\ i.opcode \in Bra => t \in DOMAIN p.labels /\ t \in 0..m - 1
        /\ p.params \in Seq(Names) /\ Distinct(p.params)
    BY <1>1, <2>1 DEF WellAssembled
  <2>3. CanPrint(i, p.labels, p.params)
    BY <1>7, <2>2 DEF CanPrint
  <2>4. source[k].stmt = s /\ k \in InstructionLines
    BY <1>3
  <2>5. s.opcode = i.opcode
    BY DEF PrintedStatement
  <2>6. i.opcode \in Bra => s.operands[1].name = p.labels[t]
    BY <2>3, Reparse
  <2> HIDE DEF i, k, s, t
  <2>7. k \in BranchLines <=> i.opcode \in Bra
    BY <2>4, <2>5 DEF BranchLines
  <2>8. ASSUME k \in BranchLines
        PROVE  LabelLines(LabelOf(k)) # {} /\ TargetOf(k) = t /\ TargetOf(k) \in 0..m - 1
    <3> DEFINE q == t + 1
               x == at[q - 1] + 1
    <3>1. t \in DOMAIN p.labels /\ t \in 0..m - 1 /\ LabelOf(k) = p.labels[t]
      BY <2>2, <2>4, <2>6, <2>7, <2>8 DEF LabelOf
    <3>2. q \in 1..m /\ q - 1 = t
      BY <1>11, <3>1
    <3> HIDE DEF q
    <3>3. Label(x, q)
      BY <3>1, <3>2 DEF Label
    <3>4. x \in Lines /\ source[x].label = LabelOf(k) /\ PCOf(x) = t /\ source[x].label # NoName
      BY <1>9, <3>1, <3>2, <3>3
    <3> HIDE DEF x
    <3>5. LabelLines(LabelOf(k)) = {x}
      BY <1>12, <3>4 DEF LabelLines
    <3>6. TargetOf(k) = t
      BY <3>4, <3>5 DEF TargetOf
    <3> QED
      BY <3>1, <3>5, <3>6
  <2> QED
    BY <2>3, <2>7, <2>8 DEF i, k, t
<1> QED
  BY <1>12, <1>13

\* No line of a listing is faulty.
LEMMA RelistedFaultless ==
    ASSUME NEW p, NEW at, Relisted(p, at), NEW x \in Lines
    PROVE  ~Faulty(x)
<1> DEFINE n == Len(p.params)
           m == Len(p.words)
<1>1. WellAssembled(p) /\ Typed
  BY DEF Relisted
<1>2. /\ n \in Nat
      /\ Kind(1) = "entry"
      /\ \A j \in 1..n : Kind(1 + j) = "param" /\ source[1 + j].stmt.name = p.params[j]
      /\ Kind(n + 2) = "shared" /\ source[n + 2].stmt.bytes = p.shared
      /\ \A j \in 1..m : /\ at[j] \in InstructionLines
                         /\ source[at[j]].stmt =
                                PrintedStatement(Unpacked(p.words[j]), p.labels, p.params)
                         /\ j - 1 \in DOMAIN p.labels => Kind(at[j - 1] + 1) = "none"
      /\ \/ x = 1 \/ x = n + 2 \/ \E j \in 1..n : x = 1 + j
         \/ \E j \in 1..m : x = at[j] \/ (x = at[j - 1] + 1 /\ j - 1 \in DOMAIN p.labels)
  BY RelistedLines
<1>3. ~(source[x].label # NoName /\
          (Kind(x) \notin {"none", "instruction"} \/ \E j \in LabelLines(source[x].label) : j < x))
  <2>1. source[x].label # NoName =>
            Kind(x) = "none" /\ \A y \in Lines : source[y].label = source[x].label => y = x
    BY RelistedLabels
  <2>2. x \in Nat
    BY <1>1, LinesAre
  <2> QED
    BY <2>1, <2>2 DEF LabelLines
<1>4. CASE x = 1
  <2>1. \A j \in 1..x - 1 : FALSE
    BY <1>4
  <2> QED
    BY <1>2, <1>3, <1>4, <2>1 DEF Faulty
<1>5. CASE x = n + 2
  <2>1. p.shared \in 0..Immediates - 1
    BY <1>1 DEF WellAssembled
  <2>2. ~(source[x].stmt.bytes >= Immediates)
    <3>1. source[x].stmt.bytes = p.shared
      BY <1>2, <1>5
    <3> QED
      BY <2>1, <3>1, HalfIs
  <2>3. Kind(x) = "shared"
    BY <1>2, <1>5
  <2> QED
    BY <1>3, <2>2, <2>3 DEF Faulty
<1>6. ASSUME NEW j \in 1..n, x = 1 + j PROVE ~Faulty(x)
  <2>1. ~Contains(ParamsBefore(1 + j), p.params[j])
    BY RelistedParams
  <2>2. Kind(x) = "param" /\ source[x].stmt.name = p.params[j]
    BY <1>2, <1>6
  <2>3. ~Contains(ParamsBefore(x), source[x].stmt.name)
    BY <1>6, <2>1, <2>2
  <2> QED
    BY <1>3, <2>2, <2>3 DEF Faulty
<1>7. ASSUME NEW j \in 1..m, x = at[j] PROVE ~Faulty(x)
  <2> DEFINE i == Unpacked(p.words[j])
             s == PrintedStatement(i, p.labels, p.params)
  <2>1. CanPrint(i, p.labels, p.params)
    BY RelistedLabels
  <2>2. ReadBack(i) \in Parsed(s, p.params)
    BY <2>1, Reparse
  <2>3. ParamsBefore(x) = p.params /\ source[x].stmt = s /\ x \in InstructionLines
    BY <1>2, <1>7, RelistedParams
  <2> HIDE DEF s
  <2>4. Parsed(source[x].stmt, ParamsBefore(x)) # {} /\ Kind(x) = "instruction"
    BY <2>2, <2>3 DEF InstructionLines
  <2> QED
    BY <1>3, <2>4 DEF Faulty
<1>8. ASSUME NEW j \in 1..m, x = at[j - 1] + 1, j - 1 \in DOMAIN p.labels PROVE ~Faulty(x)
  <2>1. Kind(x) = "none"
    BY <1>2, <1>8
  <2> QED
    BY <1>3, <2>1 DEF Faulty
<1> QED
  BY <1>2, <1>4, <1>5, <1>6, <1>7, <1>8

\* A listing is not refused, whatever error might be named.
LEMMA RelistedAccepted ==
    ASSUME NEW p, NEW at, Relisted(p, at), NEW e
    PROVE  ~NamesFirst(e)
<1> DEFINE m == Len(p.words)
           faulty == {k \in Lines : Faulty(k)}
           whole == /\ \E k \in Lines : Kind(k) = "entry"
                    /\ Cardinality(InstructionLines) <= NoReconv
           unlabelled == {k \in BranchLines : LabelLines(LabelOf(k)) = {}}
           outside == {k \in BranchLines : TargetOf(k) = Cardinality(InstructionLines)}
<1>1. WellAssembled(p) /\ Typed
  BY DEF Relisted
<1>2. faulty = {}
  BY RelistedFaultless
<1>3. Cardinality(InstructionLines) = m /\ m <= NoReconv /\ m \in Nat
  BY <1>1, RelistedPCs, RelistedLines DEF WellAssembled
<1>4. whole
  <2>1. Kind(1) = "entry" /\ Len(p.params) \in Nat /\ Lines = 1..at[m] /\ Len(p.params) + 2 <= at[m]
        /\ at \in [0..m -> Nat]
    BY RelistedLines
  <2>2. at[m] \in Nat
    BY <1>3, <2>1
  <2>3. 1 \in Lines
    BY <2>1, <2>2
  <2> QED
    BY <1>3, <2>1, <2>3
<1>5. ASSUME NEW k \in BranchLines
      PROVE  LabelLines(LabelOf(k)) # {} /\ TargetOf(k) # Cardinality(InstructionLines)
  <2>1. k \in InstructionLines
    BY <1>1, LinesAre
  <2>2. PICK j \in 1..m : k = at[j]
    BY <2>1, RelistedPCs
  <2>3. LabelLines(LabelOf(at[j])) # {} /\ TargetOf(at[j]) \in 0..m - 1
    BY <1>5, <2>2, RelistedLabels
  <2> DEFINE t == TargetOf(k)
  <2>4. LabelLines(LabelOf(k)) # {} /\ t \in 0..m - 1
    BY <2>2, <2>3
  <2> HIDE DEF t, m
  <2>5. t # m
    BY <1>3, <2>4
  <2> QED
    BY <1>3, <2>4, <2>5 DEF t
<1>6. unlabelled = {} /\ outside = {}
  BY <1>5
<1> HIDE DEF faulty, whole, unlabelled, outside
<1>7. ~(CASE faulty # {} -> e = Min(faulty)
          [] faulty = {} /\ ~whole -> e = 1
          [] faulty = {} /\ whole /\ unlabelled # {} -> e = Min(unlabelled)
          [] OTHER -> outside # {} /\ e = 0)
  BY <1>2, <1>4, <1>6
<1> QED
  BY <1>7 DEF NamesFirst, faulty, whole, unlabelled, outside

-----------------------------------------------------------------------------
(* The invariant                                                           *)

LEMMA StartCore ==
    /\ Typed /\ line = 1 /\ program = Blank /\ labels = <<>> /\ pending = <<>>
    /\ phase = "parse"
    => Core
BY StartRead DEF AtStart, Core, Blank

LEMMA RefusedNames ==
    phase = "refused" => (AcceptsOrNamesFirst <=> NamesFirst(error))
BY DEF AcceptsOrNamesFirst, NamesFirst

LEMMA DisassembleInv ==
    Inv /\ Disassemble => Inv'
<1> SUFFICES ASSUME Inv, Disassemble PROVE Inv'
  OBVIOUS
<1>1. phase = "done" /\ WellAssembled(program)
  BY DoneWell DEF Disassemble
<1>2. Printable(program)
  BY <1>1, WellPrintable
<1>3. /\ source' = Listing(program) /\ line' = 1 /\ program' = Blank
      /\ labels' = <<>> /\ pending' = <<>> /\ phase' = "parse"
      /\ round' = 2 /\ origin' = program
  BY <1>2 DEF Disassemble
<1>4. Typed'
  <2>1. PICK at : Shows(program, Listing(program), at, Len(program.words))
    BY <1>1, ListingShows
  <2> QED
    BY <1>3, <2>1 DEF Shows, Typed
<1>5. Core'
  <2>1. ( /\ Typed /\ line = 1 /\ program = Blank /\ labels = <<>> /\ pending = <<>>
          /\ phase = "parse"
          => Core )'
    BY StartCore, PTL
  <2> QED
    BY <1>3, <1>4, <2>1
<1>6. WellAssembled(origin')
  BY <1>1, <1>3
<1> QED
  BY <1>3, <1>4, <1>5, <1>6 DEF Inv

\* What has been read is what the source says of the lines read, in every pass, and a
\* refusal names the line it should.
THEOREM InvHolds == Spec => []Inv
<1>1. Inv /\ [Next]_vars => Inv'
  <2> SUFFICES ASSUME Inv, [Next]_vars PROVE Inv'
    OBVIOUS
  <2>1. CASE RefuseLine
    BY <2>1, RefuseLineInv
  <2>2. CASE Directive
    BY <2>2, DirectiveInv
  <2>3. CASE LabelLine
    BY <2>3, LabelLineInv
  <2>4. CASE Statement
    BY <2>4, StatementInv
  <2>5. CASE EndOfSource
    BY <2>5, EndOfSourceInv
  <2>6. CASE Resolve
    BY <2>6, ResolveInv
  <2>7. CASE Annotate
    BY <2>7, AnnotateInv
  <2>8. CASE Disassemble
    BY <2>8, DisassembleInv
  <2>9. CASE UNCHANGED vars
    <3>1. UNCHANGED <<source, line, program, labels, pending, phase, error, round, origin>>
      BY <2>9 DEF vars
    <3>2. Core' <=> Core
      BY <3>1, SameReading, SameSource DEF Core
    <3>3. phase = "refused" => (AcceptsOrNamesFirst' <=> AcceptsOrNamesFirst)
      <4>1. (phase = "refused" => (AcceptsOrNamesFirst <=> NamesFirst(error)))'
        BY RefusedNames, PTL
      <4> QED
        BY <3>1, <4>1, RefusedNames, SameNames
    <3> QED
      BY <3>1, <3>2, <3>3, SameReading DEF Inv
  <2> QED
    BY <2>1, <2>2, <2>3, <2>4, <2>5, <2>6, <2>7, <2>8, <2>9 DEF Next, Ended
<1> QED
  BY <1>1, InitInv, PTL DEF Spec

\* The words of an assembled listing are those of the program listed.
LEMMA RelistedFlow ==
    ASSUME NEW p, NEW at, Relisted(p, at), NEW q \in 1..Len(p.words)
    PROVE  ReconvergencePC(OwnFlow(p.words), q - 1) = ReconvergencePC(FlowAsWritten, q - 1)
<1> DEFINE m == Len(p.words)
           x(j) == Unpacked(p.words[j])
           own == OwnFlow(p.words)
<1>1. WellAssembled(p) /\ Typed
  BY DEF Relisted
<1>2. /\ m \in Nat \ {0} /\ m <= NoReconv /\ DOMAIN p.words = 1..m
      /\ Cardinality(InstructionLines) = m
  <2>1. m \in Nat /\ m <= NoReconv /\ DOMAIN p.words = 1..m
    BY <1>1, LenProperties DEF WellAssembled
  <2> QED
    BY <2>1, RelistedPCs
<1>3. \A j \in 1..m :
          own[j] = [op |-> CASE x(j).opcode \in Bra -> "bra" [] x(j).opcode = 40 -> "exit"
                             [] OTHER -> "alu",
                    guard |-> [present |-> x(j).present = 1],
                    target |-> IF x(j).opcode \in Bra THEN BranchTarget(x(j)) ELSE 0]
  BY <1>2 DEF OwnFlow
<1>4. DOMAIN own = 1..m /\ DOMAIN FlowAsWritten = 1..m
  BY <1>2 DEF OwnFlow, FlowAsWritten
<1>5. \A j \in 1..m :
          LET k == At(j - 1) IN
          FlowAsWritten[j] =
            [op |-> CASE k \in BranchLines -> "bra" [] source[k].stmt.opcode = 40 -> "exit"
                      [] OTHER -> "alu",
             guard |-> [present |-> source[k].stmt.present = 1],
             target |-> IF k \in BranchLines THEN TargetOf(k) ELSE 0]
  BY <1>2 DEF FlowAsWritten
<1>6. ASSUME NEW j \in 1..m
      PROVE  /\ own[j] = FlowAsWritten[j]
             /\ own[j].op = "bra" => own[j].target \in 0..m - 1
  <2> DEFINE i == x(j)
             k == At(j - 1)
  <2>1. k = at[j]
    BY RelistedPCs
  <2>2. source[at[j]].stmt = PrintedStatement(i, p.labels, p.params)
    BY RelistedLines
  <2>3. /\ at[j] \in BranchLines <=> i.opcode \in Bra
        /\ at[j] \in BranchLines =>
               TargetOf(at[j]) = BranchTarget(i) /\ TargetOf(at[j]) \in 0..m - 1
    BY RelistedLabels
  <2>4. source[k].stmt.opcode = i.opcode /\ source[k].stmt.present = i.present
    BY <2>1, <2>2 DEF PrintedStatement
  <2>5. /\ k \in BranchLines <=> i.opcode \in Bra
        /\ k \in BranchLines => TargetOf(k) = BranchTarget(i) /\ TargetOf(k) \in 0..m - 1
    BY <2>1, <2>3
  <2>6. own[j] = [op |-> CASE i.opcode \in Bra -> "bra" [] i.opcode = 40 -> "exit"
                           [] OTHER -> "alu",
                  guard |-> [present |-> i.present = 1],
                  target |-> IF i.opcode \in Bra THEN BranchTarget(i) ELSE 0]
    BY <1>3
  <2>7. FlowAsWritten[j] =
            [op |-> CASE k \in BranchLines -> "bra" [] source[k].stmt.opcode = 40 -> "exit"
                      [] OTHER -> "alu",
             guard |-> [present |-> source[k].stmt.present = 1],
             target |-> IF k \in BranchLines THEN TargetOf(k) ELSE 0]
    BY <1>5
  <2> HIDE DEF i, k, own
  <2>8. CASE i.opcode \in Bra
    <3>4. i.opcode # 40
      BY <2>8 DEF Bra
    <3>1. own[j] = [op |-> "bra", guard |-> [present |-> i.present = 1],
                    target |-> BranchTarget(i)]
      BY <2>6, <2>8, <3>4
    <3>2. FlowAsWritten[j] = [op |-> "bra", guard |-> [present |-> i.present = 1],
                              target |-> BranchTarget(i)]
      BY <2>4, <2>5, <2>7, <2>8, <3>4
    <3> QED
      BY <2>5, <2>8, <3>1, <3>2
  <2>9. CASE i.opcode \notin Bra
    <3> DEFINE op == IF i.opcode = 40 THEN "exit" ELSE "alu"
    <3>1. own[j] = [op |-> op, guard |-> [present |-> i.present = 1], target |-> 0]
      BY <2>6, <2>9
    <3>2. FlowAsWritten[j] = [op |-> op, guard |-> [present |-> i.present = 1], target |-> 0]
      BY <2>4, <2>5, <2>7, <2>9
    <3>3. op # "bra"
      OBVIOUS
    <3> HIDE DEF op
    <3> QED
      BY <3>1, <3>2, <3>3
  <2> QED
    BY <2>8, <2>9
<1> HIDE DEF own, m
<1>7. SameFlow(own, FlowAsWritten, m)
  BY <1>4, <1>6 DEF SameFlow
<1>8. own = [j \in 1..m |-> own[j]] /\ FlowAsWritten = [j \in 1..m |-> FlowAsWritten[j]]
  <2>1. own = [j \in DOMAIN own |-> own[j]]
    BY DEF own, OwnFlow
  <2>2. FlowAsWritten = [j \in DOMAIN FlowAsWritten |-> FlowAsWritten[j]]
    BY DEF FlowAsWritten
  <2> QED
    BY <1>4, <2>1, <2>2
<1>9. /\ own \in [1..m -> {own[j] : j \in 1..m}]
      /\ FlowAsWritten \in [1..m -> {FlowAsWritten[j] : j \in 1..m}]
  BY <1>8
<1>10. q \in 1..m
  BY DEF m
<1>11. /\ ReconvergencePC(own, q - 1) = ReconvergencePC(FlowAsWritten, q - 1)
       /\ ReconvergencePC(FlowAsWritten, q - 1) \in PC
  BY <1>2, <1>7, <1>9, <1>10, SameFlowReconverges
<1> QED
  BY <1>11 DEF own

LEMMA RelistedWord ==
    ASSUME NEW p, NEW at, Relisted(p, at), Inv, phase = "done", NEW q \in 1..Len(p.words)
    PROVE  program.words[q] = p.words[q]
<1> DEFINE m == Len(p.words)
           imm == ImmIn("done", <<>>)
           k == at[q]
           x == Unpacked(p.words[q])
           i == Unpacked(program.words[q])
           s == PrintedStatement(x, p.labels, p.params)
<1>1. WellAssembled(p) /\ Typed
  BY DEF Relisted
<1>2. At(q - 1) = k /\ Cardinality(InstructionLines) = m
  BY RelistedPCs
<1>3. /\ WordsRead(Len(source) + 1, program.words, imm) /\ InRange(Len(source) + 1, imm)
      /\ Cardinality(InstructionLines) = Len(program.words)
      /\ \A j \in 1..Cardinality(InstructionLines) : At(j - 1) \in BranchLines =>
             imm[At(j - 1)] =
                 MakeBranchImm(TargetOf(At(j - 1)), ReconvergencePC(FlowAsWritten, j - 1))
  BY DoneFlow
<1> HIDE DEF imm
<1>4. WordFor(program.words, imm, q, At(q - 1), i)
  BY <1>1, <1>2, <1>3, WordOf
<1>5. /\ Packed(i) = program.words[q]
      /\ \E j \in Parsed(source[k].stmt, ParamsBefore(k)) :
             i = IF k \in BranchLines THEN [j EXCEPT !.imm = imm[k]] ELSE j
  BY <1>2, <1>4 DEF WordFor
<1>6. ParamsBefore(k) = p.params /\ source[k].stmt = s
  <2>1. ParamsBefore(k) = p.params
    BY RelistedParams
  <2>2. source[k].stmt = s
    BY RelistedLines
  <2> QED
    BY <2>1, <2>2
<1>7. /\ CanPrint(x, p.labels, p.params)
      /\ k \in BranchLines <=> x.opcode \in Bra
      /\ k \in BranchLines => TargetOf(k) = BranchTarget(x)
  BY RelistedLabels
<1>8. \A j : j \in Parsed(s, p.params) <=> j = ReadBack(x)
  BY <1>7, Reparse
<1>9. i = IF k \in BranchLines THEN [ReadBack(x) EXCEPT !.imm = imm[k]] ELSE ReadBack(x)
  BY <1>5, <1>6, <1>8
<1>10. q \in DOMAIN p.words
  BY <1>1, LenProperties DEF WellAssembled
<1>11. /\ Valid(x) /\ Packed(x) = p.words[q]
       /\ x.opcode \in Bra =>
              x.imm = MakeBranchImm(BranchTarget(x), ReconvergencePC(OwnFlow(p.words), q - 1))
  BY <1>1, <1>10 DEF WellAssembled
<1>12. k \in BranchLines =>
           imm[k] = MakeBranchImm(TargetOf(k), ReconvergencePC(FlowAsWritten, q - 1))
  BY <1>2, <1>3
<1>13. ReconvergencePC(OwnFlow(p.words), q - 1) = ReconvergencePC(FlowAsWritten, q - 1)
  BY RelistedFlow
<1> HIDE DEF x, i, k
<1>14. k \in BranchLines => imm[k] = x.imm
  BY <1>7, <1>11, <1>12, <1>13
<1>15. i = x
  <2>1. CASE k \in BranchLines
    <3>1. i = [[x EXCEPT !.imm = NoReconv * Halves] EXCEPT !.imm = x.imm]
      BY <1>7, <1>9, <1>14, <2>1 DEF ReadBack
    <3>2. x \in InstructionType
      BY <1>11 DEF Valid
    <3>3. x = [x EXCEPT !.imm = x.imm] /\ x.imm = x["imm"]
      BY <3>2 DEF InstructionType
    <3> QED
      BY <3>1, <3>2, <3>3 DEF InstructionType
  <2>2. CASE k \notin BranchLines
    BY <1>7, <1>9, <2>2 DEF ReadBack
  <2> QED
    BY <2>1, <2>2
<1> QED
  BY <1>5, <1>11, <1>15

-----------------------------------------------------------------------------
(* The properties                                                          *)

\* A branch of an assembled program goes to the instruction after its label, wherever the
\* label is, and carries the reconvergence PC of the program as written (the patches of
\* assembler.cpp:485-499 and the annotation of :502-518).
THEOREM BranchesLand == Spec => []BranchesAsWritten
<1>1. Inv => BranchesAsWritten
  <2> SUFFICES ASSUME Inv, phase = "done"
               PROVE  /\ Len(program.words) = Cardinality(InstructionLines)
                      /\ \A k \in InstructionLines :
                             LET i == Unpacked(program.words[PCOf(k) + 1])
                             IN  /\ \A f \in {"opcode", "present", "negate", "pred"} :
                                        i[f] = source[k].stmt[f]
                                 /\ k \in BranchLines =>
                                      /\ i.imm % Halves = TargetOf(k)
                                      /\ i.imm \div Halves =
                                             ReconvergencePC(FlowAsWritten, PCOf(k))
    BY DEF BranchesAsWritten
  <2> DEFINE imm == ImmIn("done", <<>>)
             l == Len(source) + 1
  <2>1. /\ Typed /\ Cardinality(InstructionLines) = Len(program.words)
        /\ WordsRead(l, program.words, imm) /\ InRange(l, imm)
        /\ \A k \in BranchLines :
               /\ imm[k] % Halves = TargetOf(k)
               /\ imm[k] \div Halves = ReconvergencePC(FlowAsWritten, PCOf(k))
    BY DoneFlow
  <2>2. l \in 1..Len(source) + 1 /\ \A k \in InstructionLines : k < l
    <3>1. Len(source) \in Nat /\ InstructionLines \subseteq Lines
          /\ \A k \in Lines : k < Len(source) + 1
      BY <2>1, LinesAre
    <3> QED
      BY <3>1
  <2> HIDE DEF imm, l
  <2>3. ASSUME NEW k \in InstructionLines
        PROVE  LET i == Unpacked(program.words[PCOf(k) + 1])
               IN  /\ \A f \in {"opcode", "present", "negate", "pred"} : i[f] = source[k].stmt[f]
                   /\ k \in BranchLines =>
                        /\ i.imm % Halves = TargetOf(k)
                        /\ i.imm \div Halves = ReconvergencePC(FlowAsWritten, PCOf(k))
    <3> DEFINE i == Unpacked(program.words[PCOf(k) + 1])
               s == source[k].stmt
    <3>1. /\ i.opcode = s.opcode /\ i.present = s.present /\ i.negate = s.negate
          /\ i.pred = s.pred
          /\ k \in BranchLines => i.imm = imm[k]
      BY <2>1, <2>2, WordAt
    <3> HIDE DEF i, s
    <3>2. \A f \in {"opcode", "present", "negate", "pred"} : i[f] = s[f]
      BY <3>1
    <3>3. k \in BranchLines => /\ i.imm % Halves = TargetOf(k)
                               /\ i.imm \div Halves = ReconvergencePC(FlowAsWritten, PCOf(k))
      BY <2>1, <3>1
    <3> QED
      BY <3>2, <3>3 DEF i, s
  <2> QED
    BY <2>1, <2>3
<1> QED
  BY <1>1, InvHolds, PTL

\* What is accepted has no fault, what is refused is refused for the first one, and no
\* decoding or encoding of the passes fails (the value() calls of assembler.cpp:495-516).
LEMMA InvAccepts == Inv => AcceptsOrNamesFirst
<1> SUFFICES ASSUME Inv PROVE AcceptsOrNamesFirst
  OBVIOUS
<1>1. phase \in {"parse", "resolve", "done", "refused"}
  BY DEF Inv
<1>2. ASSUME phase = "done" PROVE AcceptsOrNamesFirst
  <2>1. /\ {k \in Lines : Faulty(k)} = {}
        /\ (\E k \in Lines : Kind(k) = "entry") /\ Cardinality(InstructionLines) <= NoReconv
        /\ \A k \in BranchLines : LabelOf(k) \in DOMAIN labels <=> LabelLines(LabelOf(k)) # {}
    BY <1>2, SourceRead
  <2>2. \A k \in BranchLines : /\ LabelOf(k) \in DOMAIN labels
                               /\ TargetOf(k) \in 0..Cardinality(InstructionLines) - 1
    BY <1>2, DoneFlow
  <2>3. Typed
    BY DEF Inv
  <2>4. \A k \in BranchLines : TargetOf(k) # Cardinality(InstructionLines)
    <3> DEFINE n == Cardinality(InstructionLines)
    <3>1. n \in Nat
      BY <2>3, OnePC
    <3>2. \A k \in BranchLines : TargetOf(k) \in 0..n - 1
      BY <2>2
    <3> HIDE DEF n
    <3>3. \A k \in BranchLines : TargetOf(k) # n
      BY <3>1, <3>2
    <3> QED
      BY <3>3 DEF n
  <2>5. /\ {k \in BranchLines : LabelLines(LabelOf(k)) = {}} = {}
        /\ {k \in BranchLines : TargetOf(k) = Cardinality(InstructionLines)} = {}
    BY <2>1, <2>2, <2>4
  <2> QED
    BY <1>2, <2>1, <2>5 DEF AcceptsOrNamesFirst
<1>3. ASSUME phase \in {"parse", "resolve"} PROVE AcceptsOrNamesFirst
  BY <1>3 DEF AcceptsOrNamesFirst
<1>4. ASSUME phase = "refused" PROVE AcceptsOrNamesFirst
  BY <1>4 DEF Inv
<1> QED
  BY <1>1, <1>2, <1>3, <1>4

\* assemble accepts exactly the sources without a fault, names the first fault of the
\* others, and no value() of its passes ends the process (Parser::run,
\* assembler.cpp:84-109, and the passes of :485-518).
THEOREM AcceptsExactly == Spec => []AcceptsOrNamesFirst
BY InvAccepts, InvHolds, PTL

\* A listing that has been assembled has given the program that it shows.
LEMMA InvRoundTrip == Inv => RoundTrip
<1> SUFFICES ASSUME Inv PROVE RoundTrip
  OBVIOUS
<1>1. phase \in {"parse", "resolve", "done", "refused"} /\ Typed
  BY DEF Inv
<1>2. ASSUME round = 2 PROVE \E at : Relisted(origin, at)
  <2>1. source = Listing(origin) /\ WellAssembled(origin)
    BY <1>2 DEF Inv
  <2> QED
    BY <1>1, <2>1, ListingShows DEF Relisted
<1>3. ASSUME round = 2, phase = "refused" PROVE FALSE
  <2>1. PICK at : Relisted(origin, at)
    BY <1>2, <1>3
  <2>2. NamesFirst(error)
    BY <1>3, InvAccepts, RefusedNames
  <2> QED
    BY <2>1, <2>2, RelistedAccepted
<1>4. ASSUME round = 2, phase = "done"
      PROVE  /\ program.entry = origin.entry /\ program.params = origin.params
             /\ program.shared = origin.shared /\ program.words = origin.words
  <2>1. PICK at : Relisted(origin, at)
    BY <1>2, <1>4
  <2> DEFINE p == origin
             n == Len(p.params)
             m == Len(p.words)
  <2>2. /\ Core /\ line = Len(source) + 1 /\ Cardinality(InstructionLines) = Len(program.words)
        /\ WordsRead(Len(source) + 1, program.words, ImmIn("done", <<>>))
    BY <1>4, DoneFlow
  <2>3. DirectivesRead(Len(source) + 1, program) /\ program.entry # NoName
    BY <1>4, <2>2 DEF Core
  <2>4. ParamsBefore(Len(source) + 1) = p.params
    BY <2>1, RelistedParams
  <2>5. program.params = p.params
    BY <2>3, <2>4 DEF DirectivesRead
  <2>6. /\ source[1].stmt.name = p.entry /\ Kind(1) = "entry"
        /\ source[n + 2].stmt.bytes = p.shared /\ Kind(n + 2) = "shared"
        /\ \A j \in 1..n : Kind(1 + j) = "param"
        /\ \A j \in 1..m : /\ at[j] \in InstructionLines
                           /\ j - 1 \in DOMAIN p.labels => Kind(at[j - 1] + 1) = "none"
        /\ \A x \in Lines :
               \/ x = 1 \/ x = n + 2 \/ \E j \in 1..n : x = 1 + j
               \/ \E j \in 1..m : x = at[j] \/ (x = at[j - 1] + 1 /\ j - 1 \in DOMAIN p.labels)
    BY <2>1, RelistedLines
  <2>7. n + 2 \in Lines /\ n + 2 < Len(source) + 1
    <3>1. /\ n \in Nat /\ m \in Nat /\ at \in [0..m -> Nat] /\ Len(source) = at[m]
          /\ n + 2 <= at[m] /\ Lines = 1..at[m]
      BY <2>1, RelistedLines
    <3>2. at[m] \in Nat
      BY <3>1
    <3> HIDE DEF n
    <3> QED
      BY <3>1, <3>2
  <2> HIDE DEF p, n, m
  <2>8. \A x \in Lines : /\ Kind(x) = "entry" => x = 1
                         /\ Kind(x) = "shared" => x = n + 2
    BY <2>6 DEF InstructionLines
  <2>9. program.entry = p.entry
    BY <2>3, <2>6, <2>8 DEF DirectivesRead
  <2>10. program.shared = p.shared
    BY <2>3, <2>6, <2>7, <2>8 DEF DirectivesRead
  <2>11. program.words = p.words
    <3>1. program.words \in Seq(Nat) /\ p.words \in Seq(Nat)
      BY <2>1, <2>2 DEF WordsRead, Relisted, WellAssembled, p
    <3>2. Len(program.words) = m
      BY <2>1, <2>2, RelistedPCs DEF m, p
    <3>3. \A q \in 1..m : program.words[q] = p.words[q]
      BY <1>4, <2>1, RelistedWord DEF m, p
    <3> QED
      BY <3>1, <3>2, <3>3, SeqEqual DEF m
  <2> QED
    BY <2>5, <2>9, <2>10, <2>11 DEF p
<1> QED
  BY <1>1, <1>3, <1>4 DEF RoundTrip

\* An assembled program can be printed, and assembling what disassemble prints of it gives
\* its entry, parameters, shared size and words (disassembler.hpp:27-28): no source makes
\* disassemble fail or print a listing that the assembler refuses.
THEOREM ListingReassembles == Spec => []RoundTrip
BY InvRoundTrip, InvHolds, PTL
=============================================================================
