------------------------- MODULE InstructionProofs -------------------------
(***************************************************************************)
(* Of an instruction, for every width of the fields and of the registers:  *)
(* it survives any number of encodings and decodings, because a word is a  *)
(* number written in a mixed radix whose digits are the fields; and the    *)
(* ALU makes of it what the ISA document says, because what it computes on *)
(* words is arithmetic modulo a power of two, and the finite floats are    *)
(* increasing whole numbers of the smallest one.                           *)
(***************************************************************************)
EXTENDS Alu, TLAPS, WellFoundedInduction

-----------------------------------------------------------------------------
(* Digits of a mixed radix                                                 *)

\* Quotient and remainder.
LEMMA DivMod ==
    ASSUME NEW a \in Nat, NEW b \in Nat \ {0}
    PROVE  a = (a \div b) * b + (a % b) /\ a % b \in 0..b - 1 /\ a \div b \in Nat
OBVIOUS

\* They are unique.
LEMMA DivUnique ==
    ASSUME NEW b \in Nat \ {0}, NEW q \in Nat, NEW r \in 0..b - 1
    PROVE  (q * b + r) \div b = q /\ (q * b + r) % b = r
OBVIOUS

\* Products of natural numbers.
LEMMA Product ==
    ASSUME NEW a \in Nat, NEW b \in Nat
    PROVE  a * b \in Nat /\ a * b = b * a
OBVIOUS

\* Multiplication is associative and distributes over addition.
LEMMA Ring ==
    ASSUME NEW a \in Nat, NEW b \in Nat, NEW c \in Nat, NEW d \in Nat
    PROVE  (a * b + c) * d = a * (d * b) + c * d
OBVIOUS

\* One more digit keeps the number below the next place.
LEMMA Below ==
    ASSUME NEW P \in Nat \ {0}, NEW S \in Nat \ {0}, NEW f \in 0..S - 1, NEW lo \in 0..P - 1
    PROVE  f * P + lo \in 0..P * S - 1 /\ P * S \in Nat \ {0}
<1>1. f * P \in Nat /\ P * S \in Nat /\ (S - 1) * P = P * S - P
  OBVIOUS
<1>2. f * P <= (S - 1) * P
  OBVIOUS
<1> QED
  BY <1>1, <1>2

\* The number w at place P, with hi above it and lo below it.
Splits(w, hi, P, lo) == hi \in Nat /\ P \in Nat \ {0} /\ lo \in 0..P - 1 /\ w = hi * P + lo

\* The digit f of place P is one of S, and goes from the part above to the part below.
Extends(w, g, P, lo, S, hi, f, Q, upto) ==
    /\ Splits(w, g, P, lo) /\ S \in Nat \ {0} /\ hi \in Nat /\ f \in 0..S - 1
    /\ g = hi * S + f /\ Q = P * S /\ upto = f * P + lo

\* So w splits at the next place, and the digit can be read off.
LEMMA NextDigit ==
    ASSUME NEW w, NEW g, NEW P, NEW lo, NEW S, NEW hi, NEW f, NEW Q, NEW upto,
           Extends(w, g, P, lo, S, hi, f, Q, upto)
    PROVE  (w \div P) % S = f /\ Splits(w, hi, Q, upto)
<1>1. /\ P \in Nat \ {0} /\ S \in Nat \ {0} /\ hi \in Nat /\ f \in 0..S - 1 /\ lo \in 0..P - 1
      /\ g \in Nat /\ g = hi * S + f
  BY DEF Extends, Splits
<1>2. w = g * P + lo /\ Q = P * S /\ upto = f * P + lo
  BY DEF Extends, Splits
<1>3. w \div P = g
  BY <1>1, <1>2, DivUnique
<1>4. g % S = f
  BY <1>1, DivUnique
<1>5. g * P = hi * Q + f * P
  BY <1>1, <1>2, Ring
<1>6. Q \in Nat \ {0} /\ upto \in 0..Q - 1
  BY <1>1, <1>2, Below
<1>7. hi * Q \in Nat /\ f * P \in Nat
  BY <1>1, <1>6
<1>8. w = hi * Q + upto
  BY <1>1, <1>2, <1>5, <1>7
<1> QED
  BY <1>1, <1>3, <1>4, <1>6, <1>8 DEF Splits

\* What a number leaves at a place is its digit there and what it leaves at the place below.
LEMMA Remainder ==
    ASSUME NEW P \in Nat \ {0}, NEW S \in Nat \ {0}, NEW w \in Nat
    PROVE  w % (P * S) = ((w \div P) % S) * P + (w % P)
<1> DEFINE q == w \div P
           f == q % S
           hi == q \div S
           lo == w % P
           Q == P * S
           upto == f * P + lo
<1>1. w = q * P + lo /\ lo \in 0..P - 1 /\ q \in Nat
  BY DivMod
<1> HIDE DEF q, lo
<1>2. q = hi * S + f /\ f \in 0..S - 1 /\ hi \in Nat
  BY <1>1, DivMod
<1> HIDE DEF f, hi
<1>3. Extends(w, q, P, lo, S, hi, f, Q, upto)
  BY <1>1, <1>2 DEF Extends, Splits
<1> HIDE DEF Q, upto
<1>4. w = hi * Q + upto /\ hi \in Nat /\ Q \in Nat \ {0} /\ upto \in 0..Q - 1
  BY <1>3, NextDigit DEF Splits
<1>5. w % Q = upto
  BY <1>4, DivUnique
<1> QED
  BY <1>5 DEF Q, upto, f, q, lo

-----------------------------------------------------------------------------
(* The layout                                                              *)

Positive == Nat \ {0}

\* Each place is the one below it times what the field below it holds.
LEMMA Layout ==
    /\ \A f \in Fields : Place[f] \in Positive /\ Size[f] \in Positive
    /\ Place.imm = 1
    /\ Place.imm_flag = Place.imm * Size.imm
    /\ Place.src1 = Place.imm_flag * Size.imm_flag
    /\ Place.src0 = Place.src1 * Size.src1
    /\ Place.dst = Place.src0 * Size.src0
    /\ Place.pred = Place.dst * Size.dst
    /\ Place.negate = Place.pred * Size.pred
    /\ Place.present = Place.negate * Size.negate
    /\ Place.opcode = Place.present * Size.present
    /\ Words = 0..Place.opcode * Size.opcode - 1
<1>1. Size.opcode \in Positive /\ Size.pred \in Positive /\ Size.imm \in Positive
      /\ Size.dst \in Positive /\ Size.src0 \in Positive /\ Size.src1 \in Positive
      /\ Size.present = 2 /\ Size.negate = 2 /\ Size.imm_flag = 2
  BY WordAssumption DEF Size, Positive
<1>2. \A a, b \in Positive : a * b \in Positive
  BY DEF Positive
<1>3. Place.imm = 1
  BY DEF Place
<1>4. /\ Place.imm_flag = Place.imm * Size.imm
      /\ Place.src1 = Place.imm_flag * Size.imm_flag
      /\ Place.src0 = Place.src1 * Size.src1
      /\ Place.dst = Place.src0 * Size.src0
      /\ Place.pred = Place.dst * Size.dst
      /\ Place.negate = Place.pred * Size.pred
      /\ Place.present = Place.negate * Size.negate
      /\ Place.opcode = Place.present * Size.present
  BY WordAssumption DEF Place, Size
<1>5. Place.imm_flag \in Positive
  BY <1>1, <1>2, <1>4, <1>3 DEF Positive
<1>6. Place.src1 \in Positive
  BY <1>1, <1>2, <1>4, <1>5 DEF Positive
<1>7. Place.src0 \in Positive
  BY <1>1, <1>2, <1>4, <1>6 DEF Positive
<1>8. Place.dst \in Positive
  BY <1>1, <1>2, <1>4, <1>7 DEF Positive
<1>9. Place.pred \in Positive
  BY <1>1, <1>2, <1>4, <1>8 DEF Positive
<1>10. Place.negate \in Positive
  BY <1>1, <1>2, <1>4, <1>9 DEF Positive
<1>11. Place.present \in Positive
  BY <1>1, <1>2, <1>4, <1>10 DEF Positive
<1>12. Place.opcode \in Positive
  BY <1>1, <1>2, <1>4, <1>11 DEF Positive
<1>13. \A f \in Fields : Place[f] \in Positive /\ Size[f] \in Positive
  BY <1>1, <1>3, <1>5, <1>6, <1>7, <1>8, <1>9, <1>10, <1>11, <1>12 DEF Fields, Positive
<1>14. Words = 0..Place.opcode * Size.opcode - 1
  BY DEF Words, Size
<1> QED
  BY <1>3, <1>4, <1>13, <1>14

-----------------------------------------------------------------------------
(* Reading back what was written                                           *)

Fits(i) == i \in [Fields -> Nat] /\ \A f \in Fields : i[f] < Size[f]

\* encode writes a number whose digits are the fields.
LEMMA PackedDigits ==
    ASSUME NEW i, Fits(i)
    PROVE  /\ Packed(i) \in Words
           /\ \A f \in Fields : (Packed(i) \div Place[f]) % Size[f] = i[f]
<1> DEFINE above_present == i.opcode
           above_negate == above_present * Size.present + i.present
           above_pred == above_negate * Size.negate + i.negate
           above_dst == above_pred * Size.pred + i.pred
           above_src0 == above_dst * Size.dst + i.dst
           above_src1 == above_src0 * Size.src0 + i.src0
           above_imm_flag == above_src1 * Size.src1 + i.src1
           above_imm == above_imm_flag * Size.imm_flag + i.imm_flag
           upto_imm == i.imm * Place.imm + 0
           upto_imm_flag == i.imm_flag * Place.imm_flag + upto_imm
           upto_src1 == i.src1 * Place.src1 + upto_imm_flag
           upto_src0 == i.src0 * Place.src0 + upto_src1
           upto_dst == i.dst * Place.dst + upto_src0
           upto_pred == i.pred * Place.pred + upto_dst
           upto_negate == i.negate * Place.negate + upto_pred
           upto_present == i.present * Place.present + upto_negate
           upto_opcode == i.opcode * Place.opcode + upto_present
           w == (above_imm * Size.imm + i.imm) * Place.imm + 0
<1>1. /\ \A f \in Fields : Place[f] \in Nat \ {0} /\ Size[f] \in Nat \ {0}
      /\ \A f \in Fields : i[f] \in 0..Size[f] - 1
  BY Layout DEF Fits, Positive
<1>2. Place.imm = 1 /\ 0 \in 0..Place.imm - 1
  BY Layout
<1>3. above_present \in Nat
  BY <1>1 DEF Fields
<1>4. above_negate \in Nat
  BY <1>1, <1>3 DEF Fields
<1>5. above_pred \in Nat
  BY <1>1, <1>4 DEF Fields
<1>6. above_dst \in Nat
  BY <1>1, <1>5 DEF Fields
<1>7. above_src0 \in Nat
  BY <1>1, <1>6 DEF Fields
<1>8. above_src1 \in Nat
  BY <1>1, <1>7 DEF Fields
<1>9. above_imm_flag \in Nat
  BY <1>1, <1>8 DEF Fields
<1>10. above_imm \in Nat
  BY <1>1, <1>9 DEF Fields
<1> HIDE DEF above_present
<1>11. Splits(w, above_imm * Size.imm + i.imm, Place.imm, 0)
  BY <1>1, <1>2, <1>10 DEF Splits, Fields
<1>12. (w \div Place.imm) % Size.imm = i.imm /\ Splits(w, above_imm, Place.imm_flag, upto_imm)
  <2>1. i.imm \in 0..Size.imm - 1 /\ Size.imm \in Nat \ {0}
    BY <1>1 DEF Fields
  <2>2. Place.imm_flag = Place.imm * Size.imm
    BY Layout
  <2>3. Extends(w, above_imm * Size.imm + i.imm, Place.imm, 0, Size.imm,
                above_imm, i.imm, Place.imm_flag, upto_imm)
    BY <2>1, <2>2, <1>10, <1>11 DEF Extends
  <2> HIDE DEF w, above_imm, upto_imm
  <2> QED
    BY <2>3, NextDigit
<1>13. /\ (w \div Place.imm_flag) % Size.imm_flag = i.imm_flag
       /\ Splits(w, above_imm_flag, Place.src1, upto_imm_flag)
  <2>1. i.imm_flag \in 0..Size.imm_flag - 1 /\ Size.imm_flag \in Nat \ {0}
    BY <1>1 DEF Fields
  <2>2. Place.src1 = Place.imm_flag * Size.imm_flag
    BY Layout
  <2>3. Extends(w, above_imm, Place.imm_flag, upto_imm, Size.imm_flag,
                above_imm_flag, i.imm_flag, Place.src1, upto_imm_flag)
    BY <2>1, <2>2, <1>9, <1>12 DEF Extends
  <2> HIDE DEF w, above_imm_flag, above_imm, upto_imm, upto_imm_flag
  <2> QED
    BY <2>3, NextDigit
<1>14. (w \div Place.src1) % Size.src1 = i.src1 /\ Splits(w, above_src1, Place.src0, upto_src1)
  <2>1. i.src1 \in 0..Size.src1 - 1 /\ Size.src1 \in Nat \ {0}
    BY <1>1 DEF Fields
  <2>2. Place.src0 = Place.src1 * Size.src1
    BY Layout
  <2>3. Extends(w, above_imm_flag, Place.src1, upto_imm_flag, Size.src1,
                above_src1, i.src1, Place.src0, upto_src1)
    BY <2>1, <2>2, <1>8, <1>13 DEF Extends
  <2> HIDE DEF w, above_src1, above_imm_flag, upto_imm_flag, upto_src1
  <2> QED
    BY <2>3, NextDigit
<1>15. (w \div Place.src0) % Size.src0 = i.src0 /\ Splits(w, above_src0, Place.dst, upto_src0)
  <2>1. i.src0 \in 0..Size.src0 - 1 /\ Size.src0 \in Nat \ {0}
    BY <1>1 DEF Fields
  <2>2. Place.dst = Place.src0 * Size.src0
    BY Layout
  <2>3. Extends(w, above_src1, Place.src0, upto_src1, Size.src0, above_src0,
                i.src0, Place.dst, upto_src0)
    BY <2>1, <2>2, <1>7, <1>14 DEF Extends
  <2> HIDE DEF w, above_src0, above_src1, upto_src1, upto_src0
  <2> QED
    BY <2>3, NextDigit
<1>16. (w \div Place.dst) % Size.dst = i.dst /\ Splits(w, above_dst, Place.pred, upto_dst)
  <2>1. i.dst \in 0..Size.dst - 1 /\ Size.dst \in Nat \ {0}
    BY <1>1 DEF Fields
  <2>2. Place.pred = Place.dst * Size.dst
    BY Layout
  <2>3. Extends(w, above_src0, Place.dst, upto_src0, Size.dst, above_dst,
                i.dst, Place.pred, upto_dst)
    BY <2>1, <2>2, <1>6, <1>15 DEF Extends
  <2> HIDE DEF w, above_dst, above_src0, upto_src0, upto_dst
  <2> QED
    BY <2>3, NextDigit
<1>17. /\ (w \div Place.pred) % Size.pred = i.pred
       /\ Splits(w, above_pred, Place.negate, upto_pred)
  <2>1. i.pred \in 0..Size.pred - 1 /\ Size.pred \in Nat \ {0}
    BY <1>1 DEF Fields
  <2>2. Place.negate = Place.pred * Size.pred
    BY Layout
  <2>3. Extends(w, above_dst, Place.pred, upto_dst, Size.pred, above_pred,
                i.pred, Place.negate, upto_pred)
    BY <2>1, <2>2, <1>5, <1>16 DEF Extends
  <2> HIDE DEF w, above_pred, above_dst, upto_dst, upto_pred
  <2> QED
    BY <2>3, NextDigit
<1>18. /\ (w \div Place.negate) % Size.negate = i.negate
       /\ Splits(w, above_negate, Place.present, upto_negate)
  <2>1. i.negate \in 0..Size.negate - 1 /\ Size.negate \in Nat \ {0}
    BY <1>1 DEF Fields
  <2>2. Place.present = Place.negate * Size.negate
    BY Layout
  <2>3. Extends(w, above_pred, Place.negate, upto_pred, Size.negate,
                above_negate, i.negate, Place.present, upto_negate)
    BY <2>1, <2>2, <1>4, <1>17 DEF Extends
  <2> HIDE DEF w, above_negate, above_pred, upto_pred, upto_negate
  <2> QED
    BY <2>3, NextDigit
<1>19. /\ (w \div Place.present) % Size.present = i.present
       /\ Splits(w, above_present, Place.opcode, upto_present)
  <2>1. i.present \in 0..Size.present - 1 /\ Size.present \in Nat \ {0}
    BY <1>1 DEF Fields
  <2>2. Place.opcode = Place.present * Size.present
    BY Layout
  <2>3. Extends(w, above_negate, Place.present, upto_negate, Size.present,
                above_present, i.present, Place.opcode, upto_present)
    BY <2>1, <2>2, <1>3, <1>18 DEF Extends
  <2> HIDE DEF w, above_negate, upto_negate, upto_present
  <2> QED
    BY <2>3, NextDigit
<1>20. /\ (w \div Place.opcode) % Size.opcode = i.opcode
       /\ Splits(w, 0, Place.opcode * Size.opcode, upto_opcode)
  <2>1. i.opcode \in 0..Size.opcode - 1 /\ Size.opcode \in Nat \ {0}
    BY <1>1 DEF Fields
  <2>2. Extends(w, above_present, Place.opcode, upto_present, Size.opcode, 0,
                i.opcode, Place.opcode * Size.opcode, upto_opcode)
    BY <2>1, <1>19 DEF Extends, above_present
  <2> HIDE DEF w, upto_present, upto_opcode
  <2> QED
    BY <2>2, NextDigit
<1>21. Splits(w, 0, Place.opcode * Size.opcode, upto_opcode) /\ upto_opcode = Packed(i)
  BY <1>20, <1>1, <1>2 DEF Packed, Fields
<1> HIDE DEF w, upto_opcode
<1>22. w = Packed(i) /\ w \in Words
  BY <1>21, Layout DEF Splits
<1> QED
  BY <1>12, <1>13, <1>14, <1>15, <1>16, <1>17, <1>18, <1>19, <1>20, <1>22 DEF Fields

\* decode reads the digits of any word, and encode would write the same word.
LEMMA UnpackedDigits ==
    ASSUME NEW w \in Words
    PROVE  Fits(Unpacked(w)) /\ Packed(Unpacked(w)) = w
<1> DEFINE u == Unpacked(w)
<1>1. w \in Nat /\ w < Place.opcode * Size.opcode
      /\ \A f \in Fields : Place[f] \in Nat \ {0} /\ Size[f] \in Nat \ {0}
  <2>1. \A f \in Fields : Place[f] \in Nat \ {0} /\ Size[f] \in Nat \ {0}
    BY Layout DEF Positive
  <2>2. Place.opcode \in Nat /\ Size.opcode \in Nat
    BY <2>1 DEF Fields
  <2>3. Place.opcode * Size.opcode \in Nat
    BY <2>2
  <2>4. w \in 0..Place.opcode * Size.opcode - 1
    BY Layout
  <2> QED
    BY <2>1, <2>3, <2>4
<1>2. u \in [Fields -> Nat]
      /\ \A f \in Fields : u[f] = (w \div Place[f]) % Size[f] /\ u[f] \in 0..Size[f] - 1
  <2>1. \A f \in Fields : (w \div Place[f]) % Size[f] \in 0..Size[f] - 1
    <3> TAKE f \in Fields
    <3>1. w \div Place[f] \in Nat
      BY <1>1, DivMod
    <3> QED
      BY <1>1, <3>1, DivMod
  <2> QED
    BY <1>1, <2>1 DEF Unpacked
<1> HIDE DEF u
<1>3. w % Place.imm = 0
  BY <1>1, Layout
<1>r. \A f \in Fields : w % (Place[f] * Size[f]) = u[f] * Place[f] + (w % Place[f])
  <2> TAKE f \in Fields
  <2> DEFINE P == Place[f]
             S == Size[f]
  <2>1. P \in Nat \ {0} /\ S \in Nat \ {0} /\ u[f] = (w \div P) % S
    BY <1>1, <1>2
  <2> HIDE DEF P, S
  <2>2. w % (P * S) = ((w \div P) % S) * P + (w % P)
    BY <1>1, <2>1, Remainder
  <2> QED
    BY <2>1, <2>2 DEF P, S
<1>4. w % Place.imm_flag = u.imm * Place.imm + (w % Place.imm)
  BY <1>r, Layout DEF Fields
<1>5. w % Place.src1 = u.imm_flag * Place.imm_flag + (w % Place.imm_flag)
  BY <1>r, Layout DEF Fields
<1>6. w % Place.src0 = u.src1 * Place.src1 + (w % Place.src1)
  BY <1>r, Layout DEF Fields
<1>7. w % Place.dst = u.src0 * Place.src0 + (w % Place.src0)
  BY <1>r, Layout DEF Fields
<1>8. w % Place.pred = u.dst * Place.dst + (w % Place.dst)
  BY <1>r, Layout DEF Fields
<1>9. w % Place.negate = u.pred * Place.pred + (w % Place.pred)
  BY <1>r, Layout DEF Fields
<1>10. w % Place.present = u.negate * Place.negate + (w % Place.negate)
  BY <1>r, Layout DEF Fields
<1>11. w % Place.opcode = u.present * Place.present + (w % Place.present)
  BY <1>r, Layout DEF Fields
<1>12. w = u.opcode * Place.opcode + (w % Place.opcode)
  <2> DEFINE P == Place.opcode
             S == Size.opcode
             q == w \div P
  <2>1. P \in Nat \ {0} /\ S \in Nat \ {0} /\ w < P * S
    BY <1>1 DEF Fields
  <2>2. u.opcode = q % S
    BY <1>2 DEF Fields
  <2> HIDE DEF P, S
  <2>3. w = q * P + (w % P) /\ w % P \in 0..P - 1 /\ q \in Nat
    BY <1>1, <2>1, DivMod
  <2> HIDE DEF q
  <2>4. ASSUME S <= q PROVE FALSE
    <3>1. S * P <= q * P /\ S * P = P * S /\ q * P \in Nat
      BY <2>1, <2>3, <2>4
    <3> QED
      BY <1>1, <2>1, <2>3, <3>1
  <2>5. q % S = q
    BY <2>1, <2>3, <2>4
  <2> QED
    BY <2>2, <2>3, <2>5 DEF P
<1>13. Packed(u) = w
  <2> DEFINE part(f) == u[f] * Place[f]
             left(f) == w % Place[f]
  <2>1. \A f \in Fields : part(f) \in Nat /\ left(f) \in Nat
    <3> TAKE f \in Fields
    <3>1. u[f] \in Nat /\ Place[f] \in Nat \ {0}
      BY <1>1, <1>2
    <3>2. u[f] * Place[f] \in Nat
      BY <3>1, Product
    <3>3. w % Place[f] \in Nat
      <4> DEFINE P == Place[f]
      <4>1. P \in Nat \ {0} /\ w \in Nat
        BY <1>1, <3>1
      <4> HIDE DEF P
      <4>2. w % P \in 0..P - 1
        BY <4>1, DivMod
      <4> QED
        BY <4>1, <4>2 DEF P
    <3> QED
      BY <3>2, <3>3
  <2>2. u.imm * Place.imm = u.imm
    BY <1>2, Layout DEF Fields
  <2>3. Packed(u) = part("opcode") + part("present") + part("negate") + part("pred")
                    + part("dst") + part("src0") + part("src1") + part("imm_flag") + part("imm")
    BY <2>2 DEF Packed
  <2>4. left("imm_flag") = part("imm") + left("imm")
    BY <1>4
  <2>5. left("src1") = part("imm_flag") + left("imm_flag")
    BY <1>5
  <2>6. left("src0") = part("src1") + left("src1")
    BY <1>6
  <2>7. left("dst") = part("src0") + left("src0")
    BY <1>7
  <2>8. left("pred") = part("dst") + left("dst")
    BY <1>8
  <2>9. left("negate") = part("pred") + left("pred")
    BY <1>9
  <2>10. left("present") = part("negate") + left("negate")
    BY <1>10
  <2>11. left("opcode") = part("present") + left("present")
    BY <1>11
  <2>12. w = part("opcode") + left("opcode") /\ left("imm") = 0
    BY <1>3, <1>12
  <2> HIDE DEF part, left
  <2> QED
    BY <2>1, <2>3, <2>4, <2>5, <2>6, <2>7, <2>8, <2>9, <2>10, <2>11, <2>12 DEF Fields
<1> QED
  BY <1>1, <1>2, <1>13 DEF u, Fits

-----------------------------------------------------------------------------
(* What validate accepts                                                   *)

\* A struct that validate accepts fits the fields.
LEMMA ValidFits ==
    ASSUME NEW i \in InstructionType, Validate(i) = "none"
    PROVE  Fits(i)
<1>1. i \in [Fields -> Nat] /\ i.present < 2 /\ i.negate < 2 /\ i.imm_flag < 2
      /\ i.imm < Immediates
  BY WordAssumption DEF InstructionType, Flag
<1>2. i.opcode < Numbers
  BY WordAssumption DEF Validate, Opcodes
<1>3. i.pred < PredRegisters
  <2>1. i.pred \in Nat
    BY <1>1 DEF Fields
  <2> QED
    BY <2>1, WordAssumption DEF Validate
<1>4. i.dst < GeneralRegisters /\ i.src0 < GeneralRegisters /\ i.src1 < GeneralRegisters
  <2>1. i.dst \in Nat /\ i.src0 \in Nat /\ i.src1 \in Nat
    BY <1>1 DEF Fields
  <2> QED
    BY <2>1, WordAssumption DEF Validate, OutOfFields
<1> QED
  BY <1>1, <1>2, <1>3, <1>4 DEF Fits, Fields, Size

\* What is encoded is read back.
LEMMA ReadBack ==
    ASSUME NEW i, Fits(i)
    PROVE  Unpacked(Packed(i)) = i /\ Packed(i) \in Words
<1>1. i \in [Fields -> Nat]
      /\ \A f \in Fields : (Packed(i) \div Place[f]) % Size[f] = i[f]
  BY PackedDigits DEF Fits
<1>2. i = [f \in Fields |-> i[f]]
  BY <1>1
<1> QED
  BY <1>1, <1>2, PackedDigits DEF Unpacked

\* Validation accepts exactly the instructions of the specification's table.
LEMMA ValidSpecified ==
    ASSUME NEW i \in InstructionType
    PROVE  Validate(i) = "none" <=> Specified(i)
<1> DEFINE Bounded == /\ i.opcode \in Opcodes
                      /\ i.dst < GeneralRegisters /\ i.src0 < GeneralRegisters
                      /\ i.src1 < GeneralRegisters
           Guarded == /\ ~GuardFieldsWithoutGuard(i) /\ i.pred < PredRegisters
           Fitting == /\ ~UnusedRegister(i) /\ ~ImmediateFlagMismatch(i) /\ ~UnusedOperand(i)
                      /\ i.opcode \in Prr => i.dst < PredRegisters
                      /\ i.opcode \in Sreg => i.src0 < SpecialRegisters
           operands == [f \in {"dst", "src0", "src1", "imm_flag", "imm"} |-> i[f]]
           guard == [f \in {"present", "negate", "pred"} |-> i[f]]
<1>1. /\ i \in [Fields -> Nat] /\ i.present \in {0, 1} /\ i.negate \in {0, 1}
      /\ i.imm_flag \in {0, 1} /\ i.imm \in 0..Immediates - 1
      /\ i.opcode \in Nat /\ i.pred \in Nat /\ i.dst \in Nat /\ i.src0 \in Nat /\ i.src1 \in Nat
  BY DEF InstructionType, Flag, Fields
<1>2. Validate(i) = "none" <=> Bounded /\ Guarded /\ Fitting
  BY <1>1, WordAssumption DEF Validate, OutOfFields
<1>3. Guarded <=> guard \in [present : {1}, negate : Flag, pred : 0..PredRegisters - 1]
                            \cup [present : {0}, negate : {0}, pred : {0}]
  BY <1>1, WordAssumption DEF GuardFieldsWithoutGuard, Flag
<1>4. ASSUME i.opcode \in Opcodes
      PROVE  Bounded /\ Fitting <=> operands \in Operands(i.opcode)
  <2> DEFINE Regs == 0..GeneralRegisters - 1
             Preds == 0..PredRegisters - 1
             Imms == 0..Immediates - 1
             Z == {0}
             Row(dst, src0, src1, imm_flag, imm) ==
                 [dst : dst, src0 : src0, src1 : src1, imm_flag : {imm_flag}, imm : imm]
             In(dst, src0, src1, imm_flag, imm) ==
                 /\ i.dst \in dst /\ i.src0 \in src0 /\ i.src1 \in src1
                 /\ i.imm_flag = imm_flag /\ i.imm \in imm
  <2> HIDE DEF Bounded, Fitting
  <2>1. \A dst, src0, src1, imm_flag, imm :
            operands \in Row(dst, src0, src1, imm_flag, imm)
                <=> In(dst, src0, src1, imm_flag, imm)
    OBVIOUS
  <2> HIDE DEF operands
  <2>2. CASE i.opcode \in Rrr
    <3>0. /\ i.opcode \notin Rr /\ i.opcode \notin Acc /\ i.opcode \notin Prr
          /\ i.opcode \notin Sreg
          /\ i.opcode \notin Bra /\ i.opcode \notin None /\ i.opcode \notin Ld /\ i.opcode \notin St
          /\ i.opcode \notin Ldp
      BY <2>2 DEF Opcodes, Rrr, Rr, Acc, Prr, Sreg, Bra, None, Ld, St, Ldp
    <3>1. Operands(i.opcode) = Row(Regs, Regs, Regs, 0, Z)
                               \cup Row(Regs, Regs, Z, 1, Imms)
      BY <2>2, <3>0 DEF Operands
    <3>2. Bounded /\ Fitting <=> In(Regs, Regs, Regs, 0, Z)
                               \/ In(Regs, Regs, Z, 1, Imms)
      BY <1>1, <1>4, <2>2, WordAssumption DEF Bounded, Fitting, UnusedRegister,
         ImmediateFlagMismatch, UnusedOperand, Use, ImmOptional, ImmAlways, ImmRaw,
         Opcodes, Rrr, Rr, Acc, Prr, Sreg, Bra, None, Ld, St, Ldp
    <3> HIDE DEF Row, In
    <3> QED
      BY <2>1, <3>1, <3>2
  <2>3. CASE i.opcode \in Rr
    <3>0. /\ i.opcode \notin Rrr /\ i.opcode \notin Acc /\ i.opcode \notin Prr
          /\ i.opcode \notin Sreg
          /\ i.opcode \notin Bra /\ i.opcode \notin None /\ i.opcode \notin Ld /\ i.opcode \notin St
          /\ i.opcode \notin Ldp
      BY <2>3 DEF Opcodes, Rrr, Rr, Acc, Prr, Sreg, Bra, None, Ld, St, Ldp
    <3>1. Operands(i.opcode) = Row(Regs, Regs, Z, 0, Z)
                               \cup Row(Regs, Z, Z, 1, Imms)
      BY <2>3, <3>0 DEF Operands
    <3>2. Bounded /\ Fitting <=> In(Regs, Regs, Z, 0, Z)
                               \/ In(Regs, Z, Z, 1, Imms)
      BY <1>1, <1>4, <2>3, WordAssumption DEF Bounded, Fitting, UnusedRegister,
         ImmediateFlagMismatch, UnusedOperand, Use, ImmOptional, ImmAlways, ImmRaw,
         Opcodes, Rrr, Rr, Acc, Prr, Sreg, Bra, None, Ld, St, Ldp
    <3> HIDE DEF Row, In
    <3> QED
      BY <2>1, <3>1, <3>2
  <2>4. CASE i.opcode \in Acc
    <3>0. /\ i.opcode \notin Rrr /\ i.opcode \notin Rr /\ i.opcode \notin Prr
          /\ i.opcode \notin Sreg
          /\ i.opcode \notin Bra /\ i.opcode \notin None /\ i.opcode \notin Ld /\ i.opcode \notin St
          /\ i.opcode \notin Ldp
      BY <2>4 DEF Opcodes, Rrr, Rr, Acc, Prr, Sreg, Bra, None, Ld, St, Ldp
    <3>1. Operands(i.opcode) = Row(Regs, Regs, Regs, 0, Z)
      BY <2>4, <3>0 DEF Operands
    <3>2. Bounded /\ Fitting <=> In(Regs, Regs, Regs, 0, Z)
      BY <1>1, <1>4, <2>4, WordAssumption DEF Bounded, Fitting, UnusedRegister,
         ImmediateFlagMismatch, UnusedOperand, Use, ImmOptional, ImmAlways, ImmRaw,
         Opcodes, Rrr, Rr, Acc, Prr, Sreg, Bra, None, Ld, St, Ldp
    <3> HIDE DEF Row, In
    <3> QED
      BY <2>1, <3>1, <3>2
  <2>5. CASE i.opcode \in Prr
    <3>0. /\ i.opcode \notin Rrr /\ i.opcode \notin Rr /\ i.opcode \notin Acc
          /\ i.opcode \notin Sreg
          /\ i.opcode \notin Bra /\ i.opcode \notin None /\ i.opcode \notin Ld /\ i.opcode \notin St
          /\ i.opcode \notin Ldp
      BY <2>5 DEF Opcodes, Rrr, Rr, Acc, Prr, Sreg, Bra, None, Ld, St, Ldp
    <3>1. Operands(i.opcode) = Row(Preds, Regs, Regs, 0, Z)
                               \cup Row(Preds, Regs, Z, 1, Imms)
      BY <2>5, <3>0 DEF Operands
    <3>2. Bounded /\ Fitting <=> In(Preds, Regs, Regs, 0, Z)
                               \/ In(Preds, Regs, Z, 1, Imms)
      BY <1>1, <1>4, <2>5, WordAssumption DEF Bounded, Fitting, UnusedRegister,
         ImmediateFlagMismatch, UnusedOperand, Use, ImmOptional, ImmAlways, ImmRaw,
         Opcodes, Rrr, Rr, Acc, Prr, Sreg, Bra, None, Ld, St, Ldp
    <3> HIDE DEF Row, In
    <3> QED
      BY <2>1, <3>1, <3>2
  <2>6. CASE i.opcode \in Sreg
    <3>0. /\ i.opcode \notin Rrr /\ i.opcode \notin Rr /\ i.opcode \notin Acc /\ i.opcode \notin Prr
          /\ i.opcode \notin Bra /\ i.opcode \notin None /\ i.opcode \notin Ld /\ i.opcode \notin St
          /\ i.opcode \notin Ldp
      BY <2>6 DEF Opcodes, Rrr, Rr, Acc, Prr, Sreg, Bra, None, Ld, St, Ldp
    <3>1. Operands(i.opcode) = Row(Regs, 0..SpecialRegisters - 1, Z, 0, Z)
      BY <2>6, <3>0 DEF Operands
    <3>2. Bounded /\ Fitting <=> In(Regs, 0..SpecialRegisters - 1, Z, 0, Z)
      BY <1>1, <1>4, <2>6, WordAssumption DEF Bounded, Fitting, UnusedRegister,
         ImmediateFlagMismatch, UnusedOperand, Use, ImmOptional, ImmAlways, ImmRaw,
         Opcodes, Rrr, Rr, Acc, Prr, Sreg, Bra, None, Ld, St, Ldp
    <3> HIDE DEF Row, In
    <3> QED
      BY <2>1, <3>1, <3>2
  <2>7. CASE i.opcode \in Bra
    <3>0. /\ i.opcode \notin Rrr /\ i.opcode \notin Rr /\ i.opcode \notin Acc /\ i.opcode \notin Prr
          /\ i.opcode \notin Sreg /\ i.opcode \notin None /\ i.opcode \notin Ld
          /\ i.opcode \notin St
          /\ i.opcode \notin Ldp
      BY <2>7 DEF Opcodes, Rrr, Rr, Acc, Prr, Sreg, Bra, None, Ld, St, Ldp
    <3>1. Operands(i.opcode) = Row(Z, Z, Z, 0, Imms)
      BY <2>7, <3>0 DEF Operands
    <3>2. Bounded /\ Fitting <=> In(Z, Z, Z, 0, Imms)
      BY <1>1, <1>4, <2>7, WordAssumption DEF Bounded, Fitting, UnusedRegister,
         ImmediateFlagMismatch, UnusedOperand, Use, ImmOptional, ImmAlways, ImmRaw,
         Opcodes, Rrr, Rr, Acc, Prr, Sreg, Bra, None, Ld, St, Ldp
    <3> HIDE DEF Row, In
    <3> QED
      BY <2>1, <3>1, <3>2
  <2>8. CASE i.opcode \in None
    <3>0. /\ i.opcode \notin Rrr /\ i.opcode \notin Rr /\ i.opcode \notin Acc /\ i.opcode \notin Prr
          /\ i.opcode \notin Sreg /\ i.opcode \notin Bra /\ i.opcode \notin Ld /\ i.opcode \notin St
          /\ i.opcode \notin Ldp
      BY <2>8 DEF Opcodes, Rrr, Rr, Acc, Prr, Sreg, Bra, None, Ld, St, Ldp
    <3>1. Operands(i.opcode) = Row(Z, Z, Z, 0, Z)
      BY <2>8, <3>0 DEF Operands
    <3>2. Bounded /\ Fitting <=> In(Z, Z, Z, 0, Z)
      BY <1>1, <1>4, <2>8, WordAssumption DEF Bounded, Fitting, UnusedRegister,
         ImmediateFlagMismatch, UnusedOperand, Use, ImmOptional, ImmAlways, ImmRaw,
         Opcodes, Rrr, Rr, Acc, Prr, Sreg, Bra, None, Ld, St, Ldp
    <3> HIDE DEF Row, In
    <3> QED
      BY <2>1, <3>1, <3>2
  <2>9. CASE i.opcode \in Ld
    <3>0. /\ i.opcode \notin Rrr /\ i.opcode \notin Rr /\ i.opcode \notin Acc /\ i.opcode \notin Prr
          /\ i.opcode \notin Sreg /\ i.opcode \notin Bra /\ i.opcode \notin None
          /\ i.opcode \notin St
          /\ i.opcode \notin Ldp
      BY <2>9 DEF Opcodes, Rrr, Rr, Acc, Prr, Sreg, Bra, None, Ld, St, Ldp
    <3>1. Operands(i.opcode) = Row(Regs, Regs, Z, 1, Imms)
      BY <2>9, <3>0 DEF Operands
    <3>2. Bounded /\ Fitting <=> In(Regs, Regs, Z, 1, Imms)
      BY <1>1, <1>4, <2>9, WordAssumption DEF Bounded, Fitting, UnusedRegister,
         ImmediateFlagMismatch, UnusedOperand, Use, ImmOptional, ImmAlways, ImmRaw,
         Opcodes, Rrr, Rr, Acc, Prr, Sreg, Bra, None, Ld, St, Ldp
    <3> HIDE DEF Row, In
    <3> QED
      BY <2>1, <3>1, <3>2
  <2>10. CASE i.opcode \in St
    <3>0. /\ i.opcode \notin Rrr /\ i.opcode \notin Rr /\ i.opcode \notin Acc /\ i.opcode \notin Prr
          /\ i.opcode \notin Sreg /\ i.opcode \notin Bra /\ i.opcode \notin None
          /\ i.opcode \notin Ld
          /\ i.opcode \notin Ldp
      BY <2>10 DEF Opcodes, Rrr, Rr, Acc, Prr, Sreg, Bra, None, Ld, St, Ldp
    <3>1. Operands(i.opcode) = Row(Z, Regs, Regs, 1, Imms)
      BY <2>10, <3>0 DEF Operands
    <3>2. Bounded /\ Fitting <=> In(Z, Regs, Regs, 1, Imms)
      BY <1>1, <1>4, <2>10, WordAssumption DEF Bounded, Fitting, UnusedRegister,
         ImmediateFlagMismatch, UnusedOperand, Use, ImmOptional, ImmAlways, ImmRaw,
         Opcodes, Rrr, Rr, Acc, Prr, Sreg, Bra, None, Ld, St, Ldp
    <3> HIDE DEF Row, In
    <3> QED
      BY <2>1, <3>1, <3>2
  <2>11. CASE i.opcode \in Ldp
    <3>0. /\ i.opcode \notin Rrr /\ i.opcode \notin Rr /\ i.opcode \notin Acc /\ i.opcode \notin Prr
          /\ i.opcode \notin Sreg /\ i.opcode \notin Bra /\ i.opcode \notin None
          /\ i.opcode \notin Ld
          /\ i.opcode \notin St
      BY <2>11 DEF Opcodes, Rrr, Rr, Acc, Prr, Sreg, Bra, None, Ld, St, Ldp
    <3>1. Operands(i.opcode) = Row(Regs, Z, Z, 1, Imms)
      BY <2>11, <3>0 DEF Operands
    <3>2. Bounded /\ Fitting <=> In(Regs, Z, Z, 1, Imms)
      BY <1>1, <1>4, <2>11, WordAssumption DEF Bounded, Fitting, UnusedRegister,
         ImmediateFlagMismatch, UnusedOperand, Use, ImmOptional, ImmAlways, ImmRaw,
         Opcodes, Rrr, Rr, Acc, Prr, Sreg, Bra, None, Ld, St, Ldp
    <3> HIDE DEF Row, In
    <3> QED
      BY <2>1, <3>1, <3>2
  <2> QED
    BY <1>4, <2>2, <2>3, <2>4, <2>5, <2>6, <2>7, <2>8, <2>9, <2>10, <2>11 DEF Rrr
<1> QED
  BY <1>2, <1>3, <1>4 DEF Specified

\* A struct whose values fit the fields is one the program can build.
LEMMA FitsType ==
    ASSUME NEW i, Fits(i)
    PROVE  i \in InstructionType
<1>1. i \in [Fields -> Nat] /\ \A f \in Fields : i[f] \in Nat
  BY DEF Fits
<1>2. i.present < 2 /\ i.negate < 2 /\ i.imm_flag < 2 /\ i.imm < Immediates
  BY DEF Fits, Size, Fields
<1> QED
  BY <1>1, <1>2, WordAssumption DEF InstructionType, Flag, Fields

-----------------------------------------------------------------------------
(* The machine                                                             *)

\* What came in is kept, and the two forms stand for each other.
IInv ==
    /\ form \in {"struct", "word", "refused"} /\ origin.form \in {"struct", "word"}
    /\ instruction \in InstructionType /\ word \in Words /\ error \in Errors
    /\ origin.form = "struct" =>
        /\ instruction = origin.instruction
        /\ form = "word" => Validate(instruction) = "none" /\ word = Packed(instruction)
        /\ form = "refused" => Validate(instruction) # "none"
    /\ origin.form = "word" =>
        /\ word = origin.word
        /\ form = "struct" => Validate(instruction) = "none" /\ instruction = Unpacked(word)

\* It holds of what comes in first.
LEMMA InitIInv == Init => IInv
<1> SUFFICES ASSUME Init PROVE IInv
  OBVIOUS
<1>1. 0 \in Words
  <2> DEFINE P == Place.opcode
             S == Size.opcode
  <2>1. P \in Nat \ {0} /\ S \in Nat \ {0}
    BY Layout DEF Fields, Positive
  <2> HIDE DEF P, S
  <2>2. P * S \in Nat \ {0}
    BY <2>1
  <2>3. 0 \in 0..P * S - 1
    BY <2>2
  <2> QED
    BY <2>3, Layout DEF P, S
<1>2. [f \in Fields |-> 0] \in InstructionType
  BY WordAssumption DEF InstructionType, Flag, Fields
<1> QED
  BY <1>1, <1>2, EncodingAssumption DEF Init, IInv, Errors

\* Encoding and decoding preserve it.
LEMMA NextIInv == IInv /\ [Next]_vars => IInv'
<1> SUFFICES ASSUME IInv, [Next]_vars PROVE IInv'
  OBVIOUS
<1>1. \A i : Validate(i) \in Errors
  BY DEF Validate, Errors
<1>2. CASE Encode
  <2>1. CASE origin.form = "struct"
    <3>1. Validate(instruction) = "none" => Packed(instruction) \in Words
      BY ValidFits, ReadBack DEF IInv
    <3> QED
      BY <1>1, <1>2, <2>1, <3>1 DEF IInv, Encode
  <2>2. CASE origin.form = "word"
    <3>1. instruction = Unpacked(word) /\ word \in Words
      BY <1>2, <2>2 DEF IInv, Encode
    <3>2. Packed(instruction) = word
      BY <3>1, UnpackedDigits
    <3> QED
      BY <1>1, <1>2, <2>2, <3>1, <3>2 DEF IInv, Encode
  <2> QED
    BY <2>1, <2>2 DEF IInv
<1>3. CASE Decode
  <2>1. CASE origin.form = "struct"
    <3>1. Unpacked(word) = instruction
      BY <1>3, <2>1, ValidFits, ReadBack DEF IInv, Decode
    <3> QED
      BY <1>1, <1>3, <2>1, <3>1 DEF IInv, Decode
  <2>2. CASE origin.form = "word"
    <3>1. Unpacked(word) \in InstructionType
      BY UnpackedDigits, FitsType DEF IInv
    <3> QED
      BY <1>1, <1>3, <2>2, <3>1 DEF IInv, Decode
  <2> QED
    BY <2>1, <2>2 DEF IInv
<1>4. CASE Refused
  BY <1>4 DEF IInv, Refused, vars
<1>5. CASE UNCHANGED vars
  BY <1>5 DEF IInv, vars
<1> QED
  BY <1>2, <1>3, <1>4, <1>5 DEF Next

\* What the machine holds is typed: decode returns what fits the fields.
THEOREM TypeCorrect == Spec => []TypeOK
<1>1. IInv => TypeOK
  <2> SUFFICES ASSUME IInv PROVE TypeOK
    OBVIOUS
  <2>1. ASSUME form = "struct"
        PROVE  instruction = origin.instruction
               \/ \A f \in Fields : instruction[f] < Size[f]
    <3>1. CASE origin.form = "struct"
      BY <3>1 DEF IInv
    <3>2. CASE origin.form = "word"
      BY <2>1, <3>2, UnpackedDigits DEF IInv, Fits
    <3> QED
      BY <3>1, <3>2 DEF IInv
  <2> QED
    BY <2>1 DEF IInv, TypeOK
<1> QED
  BY InitIInv, NextIInv, <1>1, PTL DEF Spec

\* An instruction or a word that is encoded and decoded any number of times stays
\* what it was (encode and decode of instruction.cpp), for fields of every width.
THEOREM Inverses == Spec => []RoundTrip
<1>1. IInv => RoundTrip
  BY DEF IInv, RoundTrip
<1> QED
  BY InitIInv, NextIInv, <1>1, PTL DEF Spec

\* encode accepts the instructions of the specification's table and no other struct,
\* decode the words they make up and no other (validate of instruction.cpp).
THEOREM AcceptsTable == Spec => []AcceptsSpecified
<1>1. IInv => AcceptsSpecified
  <2> SUFFICES ASSUME IInv PROVE AcceptsSpecified
    OBVIOUS
  <2>1. ASSUME origin.form = "struct"
        PROVE  /\ form = "word" => Specified(origin.instruction)
               /\ form = "refused" => ~Specified(origin.instruction)
    BY <2>1, ValidSpecified DEF IInv
  <2>2. ASSUME form = "struct", origin.form = "word"
        PROVE  Specified(instruction) /\ Packed(instruction) = origin.word
    <3>1. instruction = Unpacked(word) /\ word \in Words /\ word = origin.word
          /\ Validate(instruction) = "none"
      BY <2>2 DEF IInv
    <3>2. Fits(instruction) /\ Packed(instruction) = word
      BY <3>1, UnpackedDigits
    <3> QED
      BY <3>1, <3>2, FitsType, ValidSpecified
  <2> QED
    BY <2>1, <2>2 DEF AcceptsSpecified
<1> QED
  BY InitIInv, NextIInv, <1>1, PTL DEF Spec

-----------------------------------------------------------------------------
(* Powers of two                                                           *)

\* A set of natural numbers has a least one.
LEMMA LeastNumber ==
    ASSUME NEW S \in SUBSET Nat, S # {}
    PROVE  \E x \in S : \A y \in S : x <= y
<1>1. \E x \in S : \A y \in S : <<y, x>> \notin OpToRel(<, Nat)
  BY NatLessThanWellFounded, WFMin
<1>2. \A x, y \in S : <<y, x>> \notin OpToRel(<, Nat) => x <= y
  BY DEF OpToRel
<1> QED
  BY <1>1, <1>2

\* A set that has 0 and, with a number below n, the next one has all up to n.
LEMMA Induction ==
    ASSUME NEW n \in Nat, NEW S, 0 \in S, \A k \in 0..n - 1 : k \in S => k + 1 \in S
    PROVE  \A k \in 0..n : k \in S
<1> DEFINE Bad == {k \in 0..n : k \notin S}
<1> SUFFICES ASSUME Bad # {} PROVE FALSE
  OBVIOUS
<1>1. PICK k \in Bad : \A j \in Bad : k <= j
  <2>1. Bad \in SUBSET Nat
    OBVIOUS
  <2> HIDE DEF Bad
  <2> QED
    BY <2>1, LeastNumber
<1>2. k \in 0..n /\ k # 0 /\ k \notin S
  BY <1>1
<1>3. k - 1 \in 0..n - 1 /\ (k - 1) + 1 = k /\ k - 1 \in 0..n /\ ~(k <= k - 1)
  BY <1>2
<1>4. k - 1 \in S
  <2>1. k - 1 \notin Bad
    BY <1>1, <1>3
  <2> QED
    BY <1>3, <2>1
<1> QED
  BY <1>2, <1>3, <1>4

\* The first n values of a sequence of integers, from the first and what follows each.
Steps(c, step, n, R) ==
    /\ R \in [0..n -> Int] /\ R[0] = c
    /\ \A k \in 0..n - 1 : R[k + 1] = step[k][R[k]]

\* There are such values, up to any n.
LEMMA StepsExist ==
    ASSUME NEW c \in Int, NEW step \in [Nat -> [Int -> Int]], NEW n \in Nat
    PROVE  \E R : Steps(c, step, n, R)
<1> DEFINE Exists == {m \in Nat : \E R : Steps(c, step, m, R)}
<1>1. 0 \in Exists
  <2>1. Steps(c, step, 0, [k \in 0..0 |-> c])
    BY DEF Steps
  <2> QED
    BY <2>1
<1>2. ASSUME NEW m \in Exists PROVE m + 1 \in Exists
  <2>1. m \in Nat /\ \E R : Steps(c, step, m, R)
    BY <1>2
  <2>2. PICK R : Steps(c, step, m, R)
    BY <2>1
  <2> DEFINE T == [k \in 0..m + 1 |-> IF k = m + 1 THEN step[m][R[m]] ELSE R[k]]
  <2>3. \A k \in 0..m : R[k] \in Int
    BY <2>2 DEF Steps
  <2>4. step[m][R[m]] \in Int
    <3>1. m \in 0..m
      BY <2>1
    <3>2. R[m] \in Int
      BY <2>3, <3>1
    <3> QED
      BY <2>1, <3>2
  <2>5. \A k \in 0..m + 1 : k # m + 1 => k \in 0..m
    BY <2>1
  <2>6. T \in [0..m + 1 -> Int]
    BY <2>3, <2>4, <2>5
  <2>7. T[0] = c
    <3>1. 0 \in 0..m + 1 /\ 0 # m + 1
      BY <2>1
    <3> QED
      BY <2>2, <3>1 DEF Steps
  <2>8. ASSUME NEW k \in 0..(m + 1) - 1 PROVE T[k + 1] = step[k][T[k]]
    <3>1. k \in 0..m /\ k + 1 \in 0..m + 1 /\ k \in 0..m + 1 /\ k # m + 1
          /\ (k + 1 = m + 1 <=> k = m) /\ (k # m => k \in 0..m - 1)
      BY <2>1
    <3>2. T[k] = R[k]
      BY <3>1
    <3>3. k # m => T[k + 1] = R[k + 1]
      BY <3>1
    <3>4. k = m => T[k + 1] = step[m][R[m]]
      BY <3>1
    <3> QED
      BY <2>2, <3>1, <3>2, <3>3, <3>4 DEF Steps
  <2> HIDE DEF T
  <2>9. Steps(c, step, m + 1, T)
    BY <2>6, <2>7, <2>8 DEF Steps
  <2>10. m + 1 \in Nat
    BY <2>1
  <2> QED
    BY <2>9, <2>10
<1> HIDE DEF Exists
<1>3. \A k \in 0..n : k \in Exists
  <2>1. \A k \in 0..n - 1 : k \in Exists => k + 1 \in Exists
    BY <1>2
  <2> QED
    BY <1>1, <2>1, Induction
<1>4. n \in Exists
  BY <1>3
<1> QED
  BY <1>4 DEF Exists

\* So there is a sequence of them all.
LEMMA Recursion ==
    ASSUME NEW c \in Int, NEW step \in [Nat -> [Int -> Int]]
    PROVE  \E R \in [Nat -> Int] : R[0] = c /\ \A k \in Nat : R[k + 1] = step[k][R[k]]
<1> DEFINE Sequence(n) == CHOOSE R : Steps(c, step, n, R)
           G == [n \in Nat |-> Sequence(n)[n]]
<1>1. \A n \in Nat : Steps(c, step, n, Sequence(n))
  BY StepsExist
<1> HIDE DEF Sequence
<1>2. ASSUME NEW n \in Nat
      PROVE  \A k \in 0..n : Sequence(n + 1)[k] = Sequence(n)[k]
  <2> DEFINE Same == {k \in 0..n : Sequence(n + 1)[k] = Sequence(n)[k]}
  <2>0. Steps(c, step, n, Sequence(n)) /\ Steps(c, step, n + 1, Sequence(n + 1))
    <3>1. n + 1 \in Nat
      OBVIOUS
    <3> QED
      BY <1>1, <3>1
  <2>1. 0 \in Same
    <3>1. 0 \in 0..n
      OBVIOUS
    <3> QED
      BY <2>0, <3>1 DEF Steps
  <2>2. ASSUME NEW k \in 0..n - 1, k \in Same PROVE k + 1 \in Same
    <3>1. k + 1 \in 0..n /\ k \in 0..(n + 1) - 1
      OBVIOUS
    <3>2. Sequence(n)[k + 1] = step[k][Sequence(n)[k]]
      BY <2>0 DEF Steps
    <3>3. Sequence(n + 1)[k + 1] = step[k][Sequence(n + 1)[k]]
      BY <2>0, <3>1 DEF Steps
    <3> QED
      BY <2>2, <3>1, <3>2, <3>3
  <2> HIDE DEF Same
  <2>3. \A k \in 0..n : k \in Same
    BY <2>1, <2>2, Induction
  <2> QED
    BY <2>3 DEF Same
<1>3. \A n \in Nat : G[n] = Sequence(n)[n] /\ G[n] \in Int
  <2> SUFFICES ASSUME NEW n \in Nat PROVE G[n] = Sequence(n)[n] /\ G[n] \in Int
    OBVIOUS
  <2>1. n \in 0..n
    OBVIOUS
  <2>2. Sequence(n) \in [0..n -> Int]
    BY <1>1 DEF Steps
  <2>3. Sequence(n)[n] \in Int
    BY <2>1, <2>2
  <2> QED
    BY <2>3
<1>4. G \in [Nat -> Int]
  BY <1>3
<1> HIDE DEF G
<1>5. ASSUME NEW n \in Nat PROVE G[n + 1] = step[n][G[n]]
  <2>1. n + 1 \in Nat /\ n \in 0..(n + 1) - 1 /\ n \in 0..n
    OBVIOUS
  <2>2. Sequence(n + 1)[n + 1] = step[n][Sequence(n + 1)[n]]
    BY <1>1, <2>1 DEF Steps
  <2>3. Sequence(n + 1)[n] = Sequence(n)[n]
    BY <1>2, <2>1
  <2> QED
    BY <1>3, <2>1, <2>2, <2>3
<1>6. G[0] = c
  BY <1>1, <1>3 DEF Steps
<1> QED
  BY <1>4, <1>5, <1>6

\* TwoTo is what its recursion says.
LEMMA Powers ==
    /\ TwoTo[0] = 1
    /\ \A n \in Nat : TwoTo[n + 1] = 2 * TwoTo[n] /\ TwoTo[n] \in Nat \ {0}
<1> DEFINE step == [n \in Nat |-> [x \in Int |-> 2 * x]]
           Is(R) == R = [n \in Nat |-> IF n = 0 THEN 1 ELSE 2 * R[n - 1]]
<1>1. step \in [Nat -> [Int -> Int]]
  OBVIOUS
<1>2. PICK R \in [Nat -> Int] : R[0] = 1 /\ \A n \in Nat : R[n + 1] = step[n][R[n]]
  <2> HIDE DEF step
  <2>1. 1 \in Int
    OBVIOUS
  <2> QED
    BY <1>1, <2>1, Recursion
<1>3. \A n \in Nat : R[n + 1] = 2 * R[n]
  <2>1. \A n \in Nat : R[n] \in Int
    BY <1>2
  <2>2. \A n \in Nat, x \in Int : step[n][x] = 2 * x
    OBVIOUS
  <2> HIDE DEF step
  <2> QED
    BY <1>2, <2>1, <2>2
<1>4. Is(R)
  <2>1. ASSUME NEW n \in Nat PROVE R[n] = IF n = 0 THEN 1 ELSE 2 * R[n - 1]
    <3>1. n # 0 => n - 1 \in Nat /\ (n - 1) + 1 = n
      OBVIOUS
    <3> QED
      BY <1>2, <1>3, <3>1
  <2>2. R = [n \in Nat |-> R[n]]
    BY <1>2
  <2> QED
    BY <2>1, <2>2
<1>5. TwoTo = CHOOSE S : Is(S)
  BY DEF TwoTo
<1>6. Is(TwoTo)
  <2> HIDE DEF Is
  <2> QED
    BY <1>4, <1>5
<1>7. \A n \in Nat : TwoTo[n] = IF n = 0 THEN 1 ELSE 2 * TwoTo[n - 1]
  BY <1>6
<1>8. TwoTo[0] = 1 /\ \A n \in Nat : TwoTo[n + 1] = 2 * TwoTo[n]
  <2>1. \A n \in Nat : n + 1 \in Nat /\ n + 1 # 0 /\ (n + 1) - 1 = n
    OBVIOUS
  <2> QED
    BY <1>7, <2>1
<1> DEFINE Positives == {n \in Nat : TwoTo[n] \in Nat \ {0}}
<1>9. 0 \in Positives
  BY <1>8
<1>10. ASSUME NEW n \in Positives PROVE n + 1 \in Positives
  <2>1. n \in Nat /\ TwoTo[n] \in Nat \ {0} /\ n + 1 \in Nat
    BY <1>10
  <2>2. TwoTo[n + 1] \in Nat \ {0}
    BY <1>8, <2>1
  <2> QED
    BY <2>1, <2>2
<1>11. ASSUME NEW n \in Nat PROVE n \in Positives
  <2> HIDE DEF Positives
  <2>1. \A k \in 0..n : k \in Positives
    <3>1. \A k \in 0..n - 1 : k \in Positives => k + 1 \in Positives
      BY <1>10
    <3> QED
      BY <1>9, <3>1, Induction
  <2> QED
    BY <2>1
<1> QED
  BY <1>8, <1>11

\* The exponents add up.
LEMMA PowerSum ==
    ASSUME NEW n \in Nat, NEW k \in 0..n
    PROVE  TwoTo[n] = TwoTo[k] * TwoTo[n - k]
<1> DEFINE Sums == {j \in Nat : TwoTo[k + j] = TwoTo[k] * TwoTo[j]}
<1>1. k \in Nat /\ TwoTo[k] \in Nat \ {0}
  BY Powers
<1>2. 0 \in Sums
  <2>1. k + 0 = k
    BY <1>1
  <2> QED
    BY <1>1, <2>1, Powers
<1>3. ASSUME NEW j \in Sums PROVE j + 1 \in Sums
  <2>1. j \in Nat /\ j + 1 \in Nat /\ k + j \in Nat /\ k + (j + 1) = (k + j) + 1
        /\ TwoTo[k + j] = TwoTo[k] * TwoTo[j]
    BY <1>1
  <2>2. TwoTo[k + (j + 1)] = 2 * TwoTo[k + j] /\ TwoTo[j + 1] = 2 * TwoTo[j]
        /\ TwoTo[j] \in Nat
    BY <2>1, Powers
  <2>3. TwoTo[k + (j + 1)] = TwoTo[k] * TwoTo[j + 1]
    BY <1>1, <2>1, <2>2
  <2> QED
    BY <2>1, <2>3
<1> HIDE DEF Sums
<1>4. n - k \in Sums
  <2>1. n - k \in Nat /\ \A j \in 0..(n - k) - 1 : j \in Sums => j + 1 \in Sums
    BY <1>3
  <2>2. \A j \in 0..n - k : j \in Sums
    BY <1>2, <2>1, Induction
  <2> QED
    BY <2>1, <2>2
<1>5. k + (n - k) = n
  OBVIOUS
<1> QED
  BY <1>4, <1>5 DEF Sums

\* A smaller power is no larger.
LEMMA PowerOrder ==
    ASSUME NEW n \in Nat, NEW k \in 0..n
    PROVE  TwoTo[k] <= TwoTo[n]
<1>1. TwoTo[n] = TwoTo[k] * TwoTo[n - k]
  BY PowerSum
<1>2. k \in Nat /\ n - k \in Nat
  OBVIOUS
<1>3. TwoTo[k] \in Nat \ {0} /\ TwoTo[n - k] \in Nat \ {0}
  BY <1>2, Powers
<1> QED
  BY <1>1, <1>3

-----------------------------------------------------------------------------
(* Bits                                                                    *)

\* A number is built of its lowest bits one at a time.
LEMMA LowBits ==
    ASSUME NEW w \in Nat, NEW k \in Nat
    PROVE  /\ Bit(w, k) \in {0, 1}
           /\ w % TwoTo[k + 1] = (w % TwoTo[k]) + Bit(w, k) * TwoTo[k]
           /\ w % TwoTo[k] \in 0..TwoTo[k] - 1
<1> DEFINE P == TwoTo[k]
<1>1. P \in Nat \ {0} /\ TwoTo[k + 1] = P * 2
  BY Powers
<1> HIDE DEF P
<1>2. w % (P * 2) = ((w \div P) % 2) * P + (w % P)
  <2>1. 2 \in Nat \ {0}
    OBVIOUS
  <2> QED
    BY <1>1, <2>1, Remainder
<1>3. w \div P \in Nat /\ w % P \in 0..P - 1
  BY <1>1, DivMod
<1>4. (w \div P) % 2 \in {0, 1}
  BY <1>3
<1>5. Bit(w, k) = (w \div P) % 2
  BY DEF Bit, P
<1>6. ((w \div P) % 2) * P + (w % P) = (w % P) + ((w \div P) % 2) * P
  BY <1>1, <1>3, <1>4
<1> QED
  BY <1>1, <1>2, <1>3, <1>4, <1>5, <1>6 DEF P

\* A number is determined by its quotient and remainder, so is its bit.
LEMMA BitIs ==
    ASSUME NEW k \in Nat, NEW q \in Nat, NEW r \in 0..TwoTo[k] - 1
    PROVE  Bit(q * TwoTo[k] + r, k) = q % 2
<1>1. TwoTo[k] \in Nat \ {0}
  BY Powers
<1>2. (q * TwoTo[k] + r) \div TwoTo[k] = q
  BY <1>1, DivUnique
<1> QED
  BY <1>2 DEF Bit

\* The number made of the digits d, up to each place.
Made(d, L) ==
    /\ L[0] = 0
    /\ \A k \in Nat : d[k] \in {0, 1} /\ L[k + 1] = L[k] + d[k] * TwoTo[k]

\* It fits below the next place, and its bits are the digits.
LEMMA MadeOfDigits ==
    ASSUME NEW d, NEW L, Made(d, L), NEW n \in Nat
    PROVE  L[n] \in 0..TwoTo[n] - 1 /\ \A k \in 0..n - 1 : Bit(L[n], k) = d[k]
<1> DEFINE Good == {m \in Nat : /\ L[m] \in 0..TwoTo[m] - 1
                                /\ \A k \in 0..m - 1 : Bit(L[m], k) = d[k]}
<1>1. 0 \in Good
  BY Powers DEF Made
<1>2. ASSUME NEW m \in Good PROVE m + 1 \in Good
  <2> DEFINE P == TwoTo[m]
             low == L[m]
  <2>1. m \in Nat /\ low \in 0..P - 1 /\ \A k \in 0..m - 1 : Bit(low, k) = d[k]
    BY <1>2
  <2>2. P \in Nat \ {0} /\ TwoTo[m + 1] = 2 * P
    BY <2>1, Powers
  <2>3. d[m] \in {0, 1} /\ L[m + 1] = low + d[m] * P
    BY <2>1 DEF Made
  <2>4. L[m + 1] \in 0..TwoTo[m + 1] - 1
    <3> HIDE DEF P, low
    <3> QED
      BY <2>1, <2>2, <2>3
  <2>5. ASSUME NEW k \in 0..(m + 1) - 1 PROVE Bit(L[m + 1], k) = d[k]
    <3>1. CASE k = m
      <4>1. low \in Nat /\ d[m] \in Nat /\ d[m] % 2 = d[m]
        BY <2>1, <2>2, <2>3
      <4>2. L[m + 1] = d[m] * P + low
        <5> HIDE DEF P, low
        <5> QED
          BY <2>2, <2>3, <4>1
      <4>3. Bit(d[m] * TwoTo[m] + low, m) = d[m] % 2
        <5> HIDE DEF low
        <5> QED
          BY <2>1, <4>1, BitIs
      <4> QED
        BY <3>1, <4>1, <4>2, <4>3
    <3>2. CASE k # m
      <4> DEFINE Q == TwoTo[k]
                 t == TwoTo[m - (k + 1)]
                 q == low \div Q
                 r == low % Q
      <4>1. k \in Nat /\ k + 1 \in 0..m /\ m - (k + 1) \in Nat /\ k \in 0..m - 1
        BY <2>1, <3>2
      <4>2. Q \in Nat \ {0} /\ TwoTo[k + 1] = 2 * Q /\ t \in Nat \ {0}
        BY <4>1, Powers
      <4>3. P = TwoTo[k + 1] * t
        BY <2>1, <4>1, PowerSum
      <4>4. low \in Nat
        BY <2>1, <2>2
      <4>5. low = q * Q + r /\ r \in 0..Q - 1 /\ q \in Nat
        BY <4>2, <4>4, DivMod
      <4>6. q % 2 = d[k]
        BY <2>1, <4>1 DEF Bit
      <4>7. d[m] * P = (d[m] * t * 2) * Q
        <5> HIDE DEF P, Q, t
        <5> QED
          BY <2>3, <4>2, <4>3
      <4> HIDE DEF q, r
      <4>8. L[m + 1] = (q + d[m] * t * 2) * Q + r
        <5>1. d[m] * t \in Nat /\ d[m] * t * 2 \in Nat
          BY <2>3, <4>2
        <5> HIDE DEF P, low, Q, t
        <5> DEFINE e == d[m] * t * 2
        <5>2. (q + e) * Q = q * Q + e * Q
          <6> HIDE DEF e
          <6> QED
            BY <4>2, <4>5, <5>1 DEF e
        <5>3. e * Q \in Nat /\ q * Q \in Nat
          <6>1. e \in Nat
            BY <5>1
          <6> HIDE DEF e
          <6> QED
            BY <4>2, <4>5, <6>1
        <5> QED
          BY <2>3, <4>5, <4>7, <5>2, <5>3
      <4>9. q + d[m] * t * 2 \in Nat /\ (q + d[m] * t * 2) % 2 = q % 2
        BY <2>3, <4>2, <4>5
      <4>10. Bit((q + d[m] * t * 2) * TwoTo[k] + r, k) = (q + d[m] * t * 2) % 2
        <5> DEFINE h == q + d[m] * t * 2
        <5> HIDE DEF h
        <5>1. h \in Nat
          BY <4>9 DEF h
        <5>2. Bit(h * TwoTo[k] + r, k) = h % 2
          BY <4>1, <4>5, <5>1, BitIs
        <5> QED
          BY <5>2 DEF h
      <4> QED
        BY <4>6, <4>8, <4>9, <4>10
    <3> QED
      BY <3>1, <3>2
  <2>6. m + 1 \in Nat
    BY <2>1
  <2> QED
    BY <2>4, <2>5, <2>6
<1> HIDE DEF Good
<1>3. n \in Good
  <2>1. \A j \in 0..n - 1 : j \in Good => j + 1 \in Good
    BY <1>2
  <2>2. \A j \in 0..n : j \in Good
    BY <1>1, <2>1, Induction
  <2> QED
    BY <2>2
<1> QED
  BY <1>3 DEF Good

Tables == [{0, 1} -> [{0, 1} -> {0, 1}]]

\* Two words are combined digit by digit.
LEMMA BitwiseMade ==
    ASSUME NEW table \in Tables, NEW a \in Nat, NEW b \in Nat
    PROVE  \E L : /\ Made([k \in Nat |-> table[Bit(a, k)][Bit(b, k)]], L)
                  /\ Bitwise(table, a, b) = L[Bits]
<1> DEFINE d == [k \in Nat |-> table[Bit(a, k)][Bit(b, k)]]
           step == [k \in Nat |-> [x \in Int |-> x + d[k] * TwoTo[k]]]
           Is(L) == L = [k \in Nat |->
                             IF k = 0 THEN 0
                             ELSE L[k - 1] + table[Bit(a, k - 1)][Bit(b, k - 1)] * TwoTo[k - 1]]
<1>1. \A k \in Nat : d[k] \in {0, 1} /\ d[k] * TwoTo[k] \in Int
  <2> SUFFICES ASSUME NEW k \in Nat PROVE d[k] \in {0, 1} /\ d[k] * TwoTo[k] \in Int
    OBVIOUS
  <2>1. Bit(a, k) \in {0, 1} /\ Bit(b, k) \in {0, 1}
    BY LowBits
  <2>0. TwoTo[k] \in Int
    BY Powers
  <2>2. table[Bit(a, k)][Bit(b, k)] \in {0, 1}
    BY <2>1 DEF Tables
  <2> QED
    BY <2>0, <2>2
<1>2. step \in [Nat -> [Int -> Int]]
  <2> HIDE DEF d
  <2>1. \A k \in Nat, x \in Int : x + d[k] * TwoTo[k] \in Int
    BY <1>1
  <2> QED
    BY <2>1
<1>3. PICK R \in [Nat -> Int] : R[0] = 0 /\ \A k \in Nat : R[k + 1] = step[k][R[k]]
  <2> HIDE DEF step
  <2>1. 0 \in Int
    OBVIOUS
  <2> QED
    BY <1>2, <2>1, Recursion
<1>4. \A k \in Nat : R[k + 1] = R[k] + d[k] * TwoTo[k]
  <2> SUFFICES ASSUME NEW k \in Nat PROVE R[k + 1] = R[k] + d[k] * TwoTo[k]
    OBVIOUS
  <2> HIDE DEF d
  <2>1. R[k] \in Int
    OBVIOUS
  <2> QED
    BY <1>3, <2>1
<1>5. \E L : Is(L)
  <2>1. ASSUME NEW k \in Nat
        PROVE  R[k] = IF k = 0 THEN 0
                      ELSE R[k - 1] + table[Bit(a, k - 1)][Bit(b, k - 1)] * TwoTo[k - 1]
    <3>1. k # 0 => k - 1 \in Nat /\ (k - 1) + 1 = k
      OBVIOUS
    <3>2. k # 0 => d[k - 1] = table[Bit(a, k - 1)][Bit(b, k - 1)]
      BY <3>1
    <3> HIDE DEF d
    <3> QED
      BY <1>3, <1>4, <3>1, <3>2
  <2>2. R = [k \in Nat |-> R[k]]
    BY <1>3
  <2>3. Is(R)
    BY <2>1, <2>2
  <2> HIDE DEF Is
  <2> QED
    BY <2>3
<1> DEFINE L == CHOOSE S : Is(S)
<1>6. Is(L)
  <2> HIDE DEF Is
  <2> QED
    BY <1>5
<1>7. Bitwise(table, a, b) = L[Bits]
  BY DEF Bitwise
<1> HIDE DEF L
<1>8. \A k \in Nat : L[k] = IF k = 0 THEN 0
                            ELSE L[k - 1] + table[Bit(a, k - 1)][Bit(b, k - 1)] * TwoTo[k - 1]
  BY <1>6
<1>9. L[0] = 0 /\ \A k \in Nat : L[k + 1] = L[k] + d[k] * TwoTo[k]
  <2>1. \A k \in Nat : k + 1 \in Nat /\ k + 1 # 0 /\ (k + 1) - 1 = k
    OBVIOUS
  <2> QED
    BY <1>8, <2>1
<1>10. Made(d, L)
  <2> HIDE DEF d
  <2> QED
    BY <1>1, <1>9 DEF Made
<1> QED
  BY <1>7, <1>10

\* So their combination is a value whose bits the table gives.
LEMMA BitwiseBits ==
    ASSUME NEW table \in Tables, NEW a \in Nat, NEW b \in Nat
    PROVE  /\ Bitwise(table, a, b) \in Values
           /\ \A k \in 0..Bits - 1 :
                  Bit(Bitwise(table, a, b), k) = table[Bit(a, k)][Bit(b, k)]
<1> DEFINE d == [k \in Nat |-> table[Bit(a, k)][Bit(b, k)]]
<1>1. PICK L : Made(d, L) /\ Bitwise(table, a, b) = L[Bits]
  BY BitwiseMade
<1>2. Bits \in Nat /\ Immediates = TwoTo[Bits] /\ \A k \in 0..Bits - 1 : k \in Nat
  BY AluAssumption
<1>3. L[Bits] \in 0..TwoTo[Bits] - 1 /\ \A k \in 0..Bits - 1 : Bit(L[Bits], k) = d[k]
  <2> HIDE DEF d
  <2> QED
    BY <1>1, <1>2, MadeOfDigits
<1>4. \A k \in 0..Bits - 1 : d[k] = table[Bit(a, k)][Bit(b, k)]
  BY <1>2
<1> HIDE DEF d
<1> QED
  BY <1>1, <1>2, <1>3, <1>4 DEF Values

\* The number of the same digits is the same number.
LEMMA MadeIsLow ==
    ASSUME NEW d, NEW L, Made(d, L), NEW w \in Nat, NEW n \in Nat,
           \A k \in 0..n - 1 : Bit(w, k) = d[k]
    PROVE  L[n] = w % TwoTo[n]
<1> DEFINE Same == {m \in 0..n : L[m] = w % TwoTo[m]}
<1>1. 0 \in Same
  <2>1. w % 1 = 0
    OBVIOUS
  <2> QED
    BY <2>1, Powers DEF Made
<1>2. ASSUME NEW m \in 0..n - 1, m \in Same PROVE m + 1 \in Same
  <2>1. m \in Nat /\ m + 1 \in 0..n
    OBVIOUS
  <2>2. L[m + 1] = L[m] + d[m] * TwoTo[m] /\ Bit(w, m) = d[m]
    BY <2>1 DEF Made
  <2>3. w % TwoTo[m + 1] = (w % TwoTo[m]) + Bit(w, m) * TwoTo[m]
    BY <2>1, LowBits
  <2> QED
    BY <1>2, <2>1, <2>2, <2>3
<1> HIDE DEF Same
<1>3. n \in Same
  <2>1. \A j \in 0..n : j \in Same
    BY <1>1, <1>2, Induction
  <2> QED
    BY <2>1
<1> QED
  BY <1>3 DEF Same

-----------------------------------------------------------------------------
(* Integers of Bits bits                                                   *)

\* Half the numbers are those with a sign.
LEMMA Widths ==
    /\ Bits \in Nat \ {0} /\ Bits - 1 \in Nat /\ Immediates = TwoTo[Bits]
    /\ Half = TwoTo[Bits - 1] /\ Half \in Nat \ {0} /\ Immediates = 2 * Half
    /\ \A n \in 0..Bits - 1 : n \in Nat /\ TwoTo[n] \in Nat \ {0}
    /\ Values = 0..2 * Half - 1
<1>1. Bits \in Nat \ {0} /\ Immediates = TwoTo[Bits]
  BY AluAssumption
<1>2. Bits - 1 \in Nat /\ (Bits - 1) + 1 = Bits
  BY <1>1
<1>3. TwoTo[Bits] = 2 * TwoTo[Bits - 1] /\ TwoTo[Bits - 1] \in Nat \ {0}
  BY <1>2, Powers
<1>4. Half = TwoTo[Bits - 1]
  BY <1>1, <1>3 DEF Half
<1>5. \A n \in 0..Bits - 1 : n \in Nat /\ TwoTo[n] \in Nat \ {0}
  BY <1>1, Powers
<1> QED
  BY <1>1, <1>2, <1>3, <1>4, <1>5 DEF Values

\* A signed value differs from its bits by nothing or by 2 to the power of their number.
LEMMA SignedIs ==
    ASSUME NEW a \in Values
    PROVE  /\ a \in Nat /\ a < 2 * Half /\ Signed(a) \in -Half..Half - 1
           /\ a < Half => Signed(a) = a
           /\ a >= Half => Signed(a) = a - 2 * Half
           /\ \E s \in {0, 1} : a = Signed(a) + s * Immediates
<1>1. a \in Nat /\ a < 2 * Half /\ Half \in Nat \ {0} /\ Immediates = 2 * Half
  BY Widths
<1>2. a < Half => Signed(a) = a
  BY <1>1 DEF Signed
<1>3. a >= Half => Signed(a) = a - 2 * Half
  BY <1>1 DEF Signed
<1>4. CASE a < Half
  <2>1. a = Signed(a) + 0 * Immediates
    BY <1>1, <1>2, <1>4
  <2> QED
    BY <1>1, <1>2, <1>4, <2>1
<1>5. CASE a >= Half
  <2>1. a = Signed(a) + 1 * Immediates
    BY <1>1, <1>3, <1>5
  <2> QED
    BY <1>1, <1>3, <1>5, <2>1
<1> QED
  BY <1>1, <1>4, <1>5

\* Quotient and remainder of any integer.
LEMMA IntDivMod ==
    ASSUME NEW z \in Int, NEW m \in Nat \ {0}
    PROVE  z \div m \in Int /\ z = (z \div m) * m + (z % m) /\ z % m \in 0..m - 1
OBVIOUS

\* A multiple leaves no remainder.
LEMMA MultipleMod ==
    ASSUME NEW k \in Int, NEW m \in Nat \ {0}
    PROVE  (k * m) % m = 0
OBVIOUS

\* What is wrapped is a value, congruent to the number and to what differs from it by a
\* multiple of 2 to the power of Bits.
LEMMA WrappedIs ==
    ASSUME NEW z \in Int, NEW x \in Int, NEW k \in Int, z = x + k * Immediates
    PROVE  Wrapped(z) \in Values /\ Congruent(Wrapped(z), x)
<1> DEFINE M == Immediates
           r == z % M
           q == z \div M
<1>1. M \in Nat \ {0}
  <2>1. Half \in Nat \ {0} /\ M = 2 * Half
    BY Widths
  <2> HIDE DEF M
  <2> QED
    BY <2>1
<1> HIDE DEF M
<1>2. q \in Int /\ z = q * M + r /\ r \in 0..M - 1
  BY <1>1, IntDivMod
<1> HIDE DEF q, r
<1>3. k - q \in Int /\ r - x = (k - q) * M
  BY <1>1, <1>2 DEF M
<1>4. (r - x) % M = 0
  BY <1>1, <1>3, MultipleMod
<1> QED
  BY <1>2, <1>4 DEF Wrapped, Congruent, Values, M, r

\* The quotient of C++ truncates, and the remainder has the sign of the dividend.
LEMMA QuotientIs ==
    ASSUME NEW x \in Int, NEW y \in Int, y # 0
    PROVE  /\ Quotient(x, y) \in Int /\ Abs(Quotient(x, y)) <= Abs(x)
           /\ Abs(x - Quotient(x, y) * y) < Abs(y)
           /\ x - Quotient(x, y) * y # 0 => (x - Quotient(x, y) * y < 0) = (x < 0)
<1> DEFINE u == Abs(x)
           v == Abs(y)
           q == u \div v
           r == u % v
<1>1. u \in Nat /\ v \in Nat \ {0}
  BY DEF Abs
<1> HIDE DEF u, v
<1>2. u = q * v + r /\ r \in 0..v - 1 /\ q \in Nat
  BY <1>1, DivMod
<1> HIDE DEF q, r
<1>3. q <= u
  <2>1. q * v >= q
    BY <1>1, <1>2
  <2>2. q * v \in Nat
    BY <1>1, <1>2
  <2> QED
    BY <1>1, <1>2, <2>1, <2>2
<1>4. Quotient(x, y) = IF (x < 0) = (y < 0) THEN q ELSE -q
  BY DEF Quotient, q, u, v
<1>5. CASE x >= 0 /\ y > 0
  <2>1. u = x /\ v = y /\ Quotient(x, y) = q
    BY <1>4, <1>5 DEF u, v, Abs
  <2>2. x - q * y = r
    BY <1>1, <1>2, <2>1
  <2> QED
    BY <1>1, <1>2, <1>3, <1>5, <2>1, <2>2 DEF Abs
<1>6. CASE x >= 0 /\ y < 0
  <2>1. u = x /\ v = -y /\ Quotient(x, y) = -q
    BY <1>4, <1>6 DEF u, v, Abs
  <2>2. x - (-q) * y = r
    BY <1>1, <1>2, <2>1
  <2> QED
    BY <1>1, <1>2, <1>3, <1>6, <2>1, <2>2 DEF Abs
<1>7. CASE x < 0 /\ y > 0
  <2>1. u = -x /\ v = y /\ Quotient(x, y) = -q
    BY <1>4, <1>7 DEF u, v, Abs
  <2>2. x - (-q) * y = -r
    BY <1>1, <1>2, <2>1
  <2> QED
    BY <1>1, <1>2, <1>3, <1>7, <2>1, <2>2 DEF Abs
<1>8. CASE x < 0 /\ y < 0
  <2>1. u = -x /\ v = -y /\ Quotient(x, y) = q
    BY <1>4, <1>8 DEF u, v, Abs
  <2>2. x - q * y = -r
    BY <1>1, <1>2, <2>1
  <2> QED
    BY <1>1, <1>2, <1>3, <1>8, <2>1, <2>2 DEF Abs
<1> QED
  BY <1>5, <1>6, <1>7, <1>8

-----------------------------------------------------------------------------
(* What each operation computes                                            *)

\* The sum, the difference, the product and the negative.
LEMMA RingOperations ==
    ASSUME NEW a \in Values, NEW b \in Values
    PROVE  /\ Wrapped(a + b) \in Values /\ Congruent(Wrapped(a + b), Signed(a) + Signed(b))
           /\ Wrapped(a - b) \in Values /\ Congruent(Wrapped(a - b), Signed(a) - Signed(b))
           /\ Wrapped(a * b) \in Values /\ Congruent(Wrapped(a * b), Signed(a) * Signed(b))
           /\ Wrapped(-a) \in Values /\ Congruent(Wrapped(-a), -Signed(a))
<1> DEFINE x == Signed(a)
           y == Signed(b)
           M == Immediates
<1>1. PICK s \in {0, 1} : a = x + s * M
  BY SignedIs
<1>2. PICK t \in {0, 1} : b = y + t * M
  BY SignedIs
<1>3. x \in Int /\ y \in Int
  <2>1. Half \in Nat
    BY Widths
  <2>2. x \in -Half..Half - 1 /\ y \in -Half..Half - 1
    BY SignedIs
  <2> HIDE DEF x, y
  <2> QED
    BY <2>1, <2>2
<1>4. M \in Int
  <2>1. Half \in Nat /\ M = 2 * Half
    BY Widths
  <2> HIDE DEF M
  <2> QED
    BY <2>1
<1>5. a \in Int /\ b \in Int /\ s \in Int /\ t \in Int
  BY SignedIs
<1> HIDE DEF x, y, M
<1>6. a + b = (x + y) + (s + t) * M
  BY <1>1, <1>2, <1>3, <1>4, <1>5
<1>7. a - b = (x - y) + (s - t) * M
  BY <1>1, <1>2, <1>3, <1>4, <1>5
<1>8. a * b = x * y + (x * t + y * s + s * t * M) * M
  <2>1. CASE s = 0 /\ t = 0
    BY <1>1, <1>2, <1>3, <1>4, <2>1
  <2>2. CASE s = 1 /\ t = 0
    BY <1>1, <1>2, <1>3, <1>4, <2>2
  <2>3. CASE s = 0 /\ t = 1
    BY <1>1, <1>2, <1>3, <1>4, <2>3
  <2>4. CASE s = 1 /\ t = 1
    BY <1>1, <1>2, <1>3, <1>4, <2>4
  <2> QED
    BY <2>1, <2>2, <2>3, <2>4
<1>9. -a = -x + (-s) * M
  BY <1>1, <1>3, <1>4, <1>5
<1>10. s + t \in Int /\ s - t \in Int /\ x * t + y * s + s * t * M \in Int /\ -s \in Int
  BY <1>3, <1>4, <1>5
<1>11. a + b \in Int /\ a - b \in Int /\ a * b \in Int /\ -a \in Int
       /\ x + y \in Int /\ x - y \in Int /\ x * y \in Int /\ -x \in Int
  BY <1>3, <1>5
<1>12. Wrapped(a + b) \in Values /\ Congruent(Wrapped(a + b), x + y)
  BY <1>6, <1>10, <1>11, WrappedIs DEF M
<1>13. Wrapped(a - b) \in Values /\ Congruent(Wrapped(a - b), x - y)
  BY <1>7, <1>10, <1>11, WrappedIs DEF M
<1>14. Wrapped(a * b) \in Values /\ Congruent(Wrapped(a * b), x * y)
  BY <1>8, <1>10, <1>11, WrappedIs DEF M
<1>15. Wrapped(-a) \in Values /\ Congruent(Wrapped(-a), -x)
  BY <1>9, <1>10, <1>11, WrappedIs DEF M
<1> QED
  BY <1>12, <1>13, <1>14, <1>15 DEF x, y

\* q is the quotient of x by y that truncates.
Truncates(x, y, q) ==
    LET rest == x - q * y
    IN  Abs(rest) < Abs(y) /\ (rest # 0 => (rest < 0) = (x < 0))

\* Division and remainder.
LEMMA Division ==
    ASSUME NEW a \in Values, NEW b \in Values
    PROVE  /\ S32Div(a, b) \in Values /\ S32Rem(a, b) \in Values
           /\ Signed(b) = 0 => S32Div(a, b) = 0 /\ S32Rem(a, b) = 0
           /\ Signed(b) # 0 =>
                \E q \in -Half..Half :
                    /\ Truncates(Signed(a), Signed(b), q)
                    /\ Congruent(S32Div(a, b), q)
                    /\ Congruent(S32Rem(a, b), Signed(a) - q * Signed(b))
<1> DEFINE x == Signed(a)
           y == Signed(b)
<1>1. Half \in Nat \ {0} /\ Immediates = 2 * Half /\ Values = 0..2 * Half - 1
  BY Widths
<1>2. x \in -Half..Half - 1 /\ y \in -Half..Half - 1
  BY SignedIs
<1>3. PICK s \in {0, 1} : a = x + s * Immediates
  BY SignedIs
<1>4. a \in Int /\ s \in Int /\ Half \in Int /\ 0 \in Values
  BY <1>1
<1>5. x \in Int /\ y \in Int
  <2> HIDE DEF x, y
  <2> QED
    BY <1>1, <1>2
<1>6. S32Div(a, b) = IF y = 0 THEN 0
                     ELSE IF x = -Half /\ y = -1 THEN a ELSE Wrapped(Quotient(x, y))
  <2> HIDE DEF x, y
  <2> QED
    BY DEF S32Div, x, y
<1>7. S32Rem(a, b) = IF y = 0 \/ (x = -Half /\ y = -1) THEN 0
                     ELSE Wrapped(x - Quotient(x, y) * y)
  BY DEF S32Rem
<1> HIDE DEF x, y
<1>8. CASE y = 0
  BY <1>4, <1>6, <1>7, <1>8 DEF y
<1>9. CASE y # 0 /\ x = -Half /\ y = -1
  <2>1. Truncates(x, y, Half)
    <3>1. x - Half * y = 0
      BY <1>1, <1>9
    <3> QED
      BY <1>9, <3>1 DEF Truncates, Abs
  <2>2. Half \in -Half..Half /\ a = Half
    BY <1>1, <1>3, <1>9
  <2>3. Congruent(a, Half)
    <3>1. a - Half = 0 * Immediates /\ Immediates \in Nat \ {0} /\ 0 \in Int
      BY <1>1, <2>2
    <3>2. (0 * Immediates) % Immediates = 0
      BY <3>1, MultipleMod
    <3> QED
      BY <3>1, <3>2 DEF Congruent
  <2>4. Congruent(0, x - Half * y)
    <3>1. 0 - (x - Half * y) = 0 * Immediates /\ Immediates \in Nat \ {0} /\ 0 \in Int
      BY <1>1, <1>9
    <3>2. (0 * Immediates) % Immediates = 0
      BY <3>1, MultipleMod
    <3> QED
      BY <3>1, <3>2 DEF Congruent
  <2>5. S32Div(a, b) = a /\ S32Rem(a, b) = 0
    BY <1>6, <1>7, <1>9
  <2> QED
    BY <1>4, <1>9, <2>1, <2>2, <2>3, <2>4, <2>5 DEF x, y
<1>10. CASE y # 0 /\ ~(x = -Half /\ y = -1)
  <2> DEFINE q == Quotient(x, y)
  <2>1. q \in Int /\ Abs(q) <= Abs(x) /\ Truncates(x, y, q)
    BY <1>5, <1>10, QuotientIs DEF Truncates
  <2> HIDE DEF q
  <2>2. q \in -Half..Half
    BY <1>1, <1>2, <1>5, <2>1 DEF Abs
  <2>3. x - q * y \in Int
    BY <1>5, <2>1
  <2>4. Wrapped(q) \in Values /\ Congruent(Wrapped(q), q)
    <3>1. q = q + 0 * Immediates /\ 0 \in Int
      BY <1>1, <2>1
    <3> QED
      BY <2>1, <3>1, WrappedIs
  <2>5. Wrapped(x - q * y) \in Values /\ Congruent(Wrapped(x - q * y), x - q * y)
    <3> DEFINE rest == x - q * y
    <3>1. rest \in Int
      BY <2>3
    <3> HIDE DEF rest
    <3>2. rest = rest + 0 * Immediates /\ 0 \in Int
      BY <1>1, <3>1
    <3>3. Wrapped(rest) \in Values /\ Congruent(Wrapped(rest), rest)
      BY <3>1, <3>2, WrappedIs
    <3> QED
      BY <3>3 DEF rest
  <2>6. S32Div(a, b) = Wrapped(q) /\ S32Rem(a, b) = Wrapped(x - q * y)
    BY <1>6, <1>7, <1>10 DEF q
  <2> QED
    BY <1>10, <2>1, <2>2, <2>4, <2>5, <2>6 DEF x, y
<1> QED
  BY <1>8, <1>9, <1>10

\* The bitwise operations.
LEMMA BitOperations ==
    ASSUME NEW a \in Values, NEW b \in Values
    PROVE  /\ Bitwise(And, a, b) \in Values /\ Bitwise(Or, a, b) \in Values
           /\ Bitwise(Xor, a, b) \in Values /\ Immediates - 1 - a \in Values
           /\ \A k \in 0..Bits - 1 :
                /\ Bit(Bitwise(And, a, b), k) = Bit(a, k) * Bit(b, k)
                /\ Bit(Bitwise(Or, a, b), k) = Bit(a, k) + Bit(b, k) - Bit(a, k) * Bit(b, k)
                /\ Bit(Bitwise(Xor, a, b), k) = (Bit(a, k) + Bit(b, k)) % 2
                /\ Bit(Immediates - 1 - a, k) = 1 - Bit(a, k)
<1>1. And \in Tables /\ Or \in Tables /\ Xor \in Tables
  <2>1. \A p, q \in {0, 1} : p * q \in {0, 1} /\ p + q - p * q \in {0, 1} /\ (p + q) % 2 \in {0, 1}
    OBVIOUS
  <2> QED
    BY <2>1 DEF And, Or, Xor, Tables
<1>2. a \in Nat /\ b \in Nat
  BY SignedIs
<1>3. /\ Bitwise(And, a, b) \in Values /\ Bitwise(Or, a, b) \in Values
      /\ Bitwise(Xor, a, b) \in Values
  BY <1>1, <1>2, BitwiseBits
<1>4. Immediates - 1 - a \in Values
  BY Widths
<1>5. ASSUME NEW k \in 0..Bits - 1
      PROVE  /\ Bit(Bitwise(And, a, b), k) = Bit(a, k) * Bit(b, k)
             /\ Bit(Bitwise(Or, a, b), k) = Bit(a, k) + Bit(b, k) - Bit(a, k) * Bit(b, k)
             /\ Bit(Bitwise(Xor, a, b), k) = (Bit(a, k) + Bit(b, k)) % 2
  <2>1. Bit(a, k) \in {0, 1} /\ Bit(b, k) \in {0, 1}
    <3>1. k \in Nat
      BY Widths
    <3> QED
      BY <1>2, <3>1, LowBits
  <2>2. /\ Bit(Bitwise(And, a, b), k) = And[Bit(a, k)][Bit(b, k)]
        /\ Bit(Bitwise(Or, a, b), k) = Or[Bit(a, k)][Bit(b, k)]
        /\ Bit(Bitwise(Xor, a, b), k) = Xor[Bit(a, k)][Bit(b, k)]
    BY <1>1, <1>2, BitwiseBits
  <2>3. \A p, q \in {0, 1} : /\ And[p][q] = p * q /\ Or[p][q] = p + q - p * q
                             /\ Xor[p][q] = (p + q) % 2
    BY DEF And, Or, Xor
  <2> QED
    BY <2>1, <2>2, <2>3
<1>6. ASSUME NEW k \in 0..Bits - 1 PROVE Bit(Immediates - 1 - a, k) = 1 - Bit(a, k)
  <2> DEFINE P == TwoTo[k]
             t == TwoTo[Bits - (k + 1)]
             q == a \div P
             r == a % P
  <2>1. k \in Nat /\ k + 1 \in 0..Bits /\ Bits \in Nat /\ Bits - (k + 1) \in Nat
        /\ Immediates = TwoTo[Bits]
    BY Widths
  <2>2. P \in Nat \ {0} /\ t \in Nat \ {0} /\ TwoTo[k + 1] = 2 * P
    BY <2>1, Powers
  <2>3. Immediates = TwoTo[k + 1] * t
    BY <2>1, PowerSum
  <2>4. a = q * P + r /\ r \in 0..P - 1 /\ q \in Nat
    <3> HIDE DEF P
    <3> QED
      BY <1>2, <2>2, DivMod
  <2>5. Bit(a, k) = q % 2
    BY DEF Bit
  <2>6. a < Immediates
    BY Widths
  <2> HIDE DEF q, r, P, t
  <2>7. Immediates = (2 * t) * P
    BY <2>2, <2>3
  <2>8. q < 2 * t
    <3>1. q * P <= a
      BY <2>2, <2>4
    <3>2. q * P < (2 * t) * P
      BY <1>2, <2>2, <2>4, <2>6, <2>7, <3>1
    <3> QED
      BY <2>2, <2>4, <3>2
  <2>9. Immediates - 1 - a = (2 * t - 1 - q) * P + (P - 1 - r)
    <3>1. (2 * t - 1 - q) * P = (2 * t) * P - P - q * P
      BY <2>2, <2>4
    <3>2. (2 * t) * P \in Int /\ q * P \in Int
      BY <2>2, <2>4
    <3> QED
      BY <1>2, <2>2, <2>4, <2>7, <3>1, <3>2
  <2>10. 2 * t - 1 - q \in Nat /\ P - 1 - r \in 0..P - 1 /\ (2 * t - 1 - q) % 2 = 1 - (q % 2)
    BY <2>2, <2>4, <2>8
  <2>11. Bit((2 * t - 1 - q) * P + (P - 1 - r), k) = (2 * t - 1 - q) % 2
    <3> DEFINE g == 2 * t - 1 - q
               h == P - 1 - r
    <3>1. g \in Nat /\ h \in 0..TwoTo[k] - 1
      BY <2>10 DEF P
    <3> HIDE DEF g, h
    <3>2. Bit(g * TwoTo[k] + h, k) = g % 2
      BY <2>1, <3>1, BitIs
    <3> QED
      BY <3>2 DEF g, h, P
  <2> QED
    BY <2>5, <2>9, <2>10, <2>11
<1> QED
  BY <1>3, <1>4, <1>5, <1>6

\* A count is reduced to the width; the shift to the left is a product, and the logical
\* one to the right a quotient.
LEMMA LogicalShifts ==
    ASSUME NEW a \in Values, NEW count \in Values
    PROVE  LET n == ShiftCount(count)
               r == a \div TwoTo[n]
           IN  /\ n \in 0..Bits - 1
               /\ Wrapped(a * TwoTo[n]) \in Values
               /\ Congruent(Wrapped(a * TwoTo[n]), Signed(a) * TwoTo[n])
               /\ r \in Values /\ r * TwoTo[n] <= a /\ a < (r + 1) * TwoTo[n]
<1> DEFINE n == ShiftCount(count)
           P == TwoTo[n]
           r == a \div P
           x == Signed(a)
<1>1. n \in 0..Bits - 1
  <2>1. count \in Nat /\ Bits \in Nat \ {0}
    BY Widths, SignedIs
  <2> QED
    BY <2>1 DEF ShiftCount
<1> HIDE DEF n
<1>2. P \in Nat \ {0} /\ Half \in Nat \ {0} /\ Immediates = 2 * Half /\ Values = 0..2 * Half - 1
  BY <1>1, Widths
<1> HIDE DEF P
<1>3. a \in Nat /\ x \in -Half..Half - 1
  BY SignedIs
<1>4. PICK s \in {0, 1} : a = x + s * Immediates
  BY SignedIs
<1>5. x \in Int
  <2> HIDE DEF x
  <2> QED
    BY <1>2, <1>3
<1> HIDE DEF x
<1>6. Wrapped(a * P) \in Values /\ Congruent(Wrapped(a * P), x * P)
  <2>1. a * P \in Int /\ x * P \in Int /\ s * P \in Int
    BY <1>2, <1>3, <1>5
  <2>2. a * P = x * P + (s * P) * Immediates
    BY <1>2, <1>4, <1>5
  <2> DEFINE z == a * P
             y == x * P
             k == s * P
  <2> HIDE DEF z, y, k
  <2>3. Wrapped(z) \in Values /\ Congruent(Wrapped(z), y)
    BY <2>1, <2>2, WrappedIs DEF z, y, k
  <2> QED
    BY <2>3 DEF z, y
<1>7. r \in Values /\ r * P <= a /\ a < (r + 1) * P
  <2> DEFINE rest == a % P
  <2>1. a = r * P + rest /\ rest \in 0..P - 1 /\ r \in Nat
    BY <1>2, <1>3, DivMod
  <2> HIDE DEF r, rest
  <2>2. r * P \in Nat /\ r <= r * P /\ (r + 1) * P = r * P + P
    BY <1>2, <2>1
  <2>3. a \in 0..2 * Half - 1
    BY <1>2
  <2> QED
    BY <1>2, <2>1, <2>2, <2>3
<1> QED
  BY <1>1, <1>6, <1>7 DEF P, x, n

\* The word that holds the sign in its n highest bits.
LEMMA SignMask ==
    ASSUME NEW n \in 1..Bits - 1
    PROVE  LET mask == Wrapped((Immediates - 1) * TwoTo[Bits - n])
           IN  /\ mask = Immediates - TwoTo[Bits - n] /\ mask \in Nat
               /\ \A k \in 0..Bits - n - 1 : Bit(mask, k) = 0
               /\ \A k \in Bits - n..Bits - 1 : Bit(mask, k) = 1
<1> DEFINE m == Bits - n
           H == TwoTo[m]
           P == TwoTo[n]
           M == Immediates
           mask == Wrapped((M - 1) * H)
<1>1. m \in 1..Bits - 1 /\ Bits - m = n /\ m \in 0..Bits /\ n \in Nat /\ Bits \in Nat /\ m \in Nat
  BY Widths
<1>2. M = TwoTo[Bits]
  BY Widths
<1>3. H \in Nat \ {0} /\ P \in Nat \ {0}
  BY <1>1, Powers
<1>4. M = H * P /\ M \in Nat \ {0}
  <2>1. M = H * P
    BY <1>1, <1>2, PowerSum
  <2> HIDE DEF M, H, P
  <2> QED
    BY <1>3, <2>1
<1>5. mask = M - H
  <2> HIDE DEF M, H, P
  <2>1. (M - 1) * H = (H - 1) * M + (M - H)
    BY <1>3, <1>4
  <2>2. H <= M
    BY <1>3, <1>4
  <2>3. H - 1 \in Nat /\ M - H \in 0..M - 1
    BY <1>3, <1>4, <2>2
  <2>4. ((H - 1) * M + (M - H)) % M = M - H
    <3> DEFINE g == H - 1
               h == M - H
    <3> HIDE DEF g, h
    <3>1. (g * M + h) % M = h
      BY <1>4, <2>3, DivUnique DEF g, h
    <3> QED
      BY <3>1 DEF g, h
  <2> QED
    BY <2>1, <2>4 DEF Wrapped, M
<1>6. mask = (P - 1) * H /\ P - 1 \in Nat
  <2> HIDE DEF mask, M, H, P
  <2> QED
    BY <1>3, <1>4, <1>5
<1>7. mask \in Nat
  <2> HIDE DEF mask, H, P
  <2> QED
    BY <1>3, <1>6
<1>8. ASSUME NEW k \in 0..m - 1 PROVE Bit(mask, k) = 0
  <2> DEFINE Q == TwoTo[k]
             t == TwoTo[m - (k + 1)]
             q == (P - 1) * t * 2
  <2>1. k \in Nat /\ k + 1 \in 0..m /\ m - (k + 1) \in Nat
    BY <1>1
  <2>2. Q \in Nat \ {0} /\ t \in Nat \ {0} /\ TwoTo[k + 1] = 2 * Q
    BY <2>1, Powers
  <2>3. H = TwoTo[k + 1] * t
    BY <1>1, <2>1, PowerSum
  <2> HIDE DEF Q, t, H, P, mask
  <2>4. q \in Nat /\ q % 2 = 0
    <3>1. (P - 1) * t \in Nat
      BY <1>6, <2>2
    <3> QED
      BY <3>1
  <2>5. mask = q * Q + 0
    BY <1>3, <1>6, <2>2, <2>3
  <2> HIDE DEF q
  <2>6. 0 \in 0..TwoTo[k] - 1
    BY <2>2 DEF Q
  <2>7. Bit(q * TwoTo[k] + 0, k) = q % 2
    BY <2>1, <2>4, <2>6, BitIs
  <2> QED
    BY <2>4, <2>5, <2>7 DEF Q
<1>9. ASSUME NEW k \in m..Bits - 1 PROVE Bit(mask, k) = 1
  <2> DEFINE Q == TwoTo[k]
             t == TwoTo[Bits - (k + 1)]
  <2>1. k \in Nat /\ k + 1 \in 0..Bits /\ Bits - (k + 1) \in Nat /\ m \in 0..k
    BY <1>1
  <2>2. Q \in Nat \ {0} /\ t \in Nat \ {0} /\ TwoTo[k + 1] = 2 * Q
    BY <2>1, Powers
  <2>3. M = TwoTo[k + 1] * t
    BY <1>1, <1>2, <2>1, PowerSum
  <2>4. H <= Q
    BY <2>1, PowerOrder
  <2> HIDE DEF Q, t, H, P, M, mask
  <2>5. mask = (2 * t - 1) * Q + (Q - H)
    <3>1. (2 * t - 1) * Q = (2 * Q) * t - Q
      BY <2>2
    <3> QED
      BY <1>3, <1>4, <1>5, <2>2, <2>3, <3>1
  <2>6. 2 * t - 1 \in Nat /\ (2 * t - 1) % 2 = 1 /\ Q - H \in 0..Q - 1
    BY <1>3, <2>2, <2>4
  <2>7. Bit((2 * t - 1) * TwoTo[k] + (Q - H), k) = (2 * t - 1) % 2
    <3> DEFINE g == 2 * t - 1
               h == Q - H
    <3>1. g \in Nat /\ h \in 0..TwoTo[k] - 1
      BY <2>6 DEF Q
    <3> HIDE DEF g, h
    <3>2. Bit(g * TwoTo[k] + h, k) = g % 2
      BY <2>1, <3>1, BitIs
    <3> QED
      BY <3>2 DEF g, h
  <2> QED
    BY <2>5, <2>6, <2>7 DEF Q
<1> QED
  BY <1>5, <1>7, <1>8, <1>9

\* A number below 2 to the power of m with the mask of the bits from m on.
LEMMA OrMask ==
    ASSUME NEW m \in 1..Bits - 1, NEW w \in 0..TwoTo[m] - 1, NEW mask \in Nat,
           \A k \in 0..m - 1 : Bit(mask, k) = 0,
           \A k \in m..Bits - 1 : Bit(mask, k) = 1
    PROVE  Bitwise(Or, w, mask) = w + Immediates - TwoTo[m]
<1> DEFINE d == [k \in Nat |-> Or[Bit(w, k)][Bit(mask, k)]]
<1>1. m \in Nat /\ Bits \in Nat /\ TwoTo[m] \in Nat \ {0} /\ Immediates = TwoTo[Bits]
      /\ m <= Bits - 1
  <2>1. Bits \in Nat /\ Immediates = TwoTo[Bits]
    BY Widths
  <2>2. m \in Nat
    BY <2>1
  <2> QED
    BY <2>1, <2>2, Powers
<1>2. w \in Nat
  BY <1>1
<1>3. Or \in Tables /\ \A p, q \in {0, 1} : Or[p][q] = p + q - p * q
  BY DEF Or, Tables
<1>4. PICK L : Made(d, L) /\ Bitwise(Or, w, mask) = L[Bits]
  BY <1>2, <1>3, BitwiseMade
<1>5. \A k \in 0..m - 1 : Bit(w, k) = d[k]
  <2> SUFFICES ASSUME NEW k \in 0..m - 1 PROVE Bit(w, k) = d[k]
    OBVIOUS
  <2>1. k \in Nat /\ d[k] = Or[Bit(w, k)][Bit(mask, k)]
    BY <1>1
  <2>2. Bit(w, k) \in {0, 1} /\ Bit(mask, k) = 0
    BY <1>2, <2>1, LowBits
  <2> HIDE DEF d
  <2> QED
    BY <1>3, <2>1, <2>2
<1>6. \A k \in m..Bits - 1 : d[k] = 1
  <2> SUFFICES ASSUME NEW k \in m..Bits - 1 PROVE d[k] = 1
    OBVIOUS
  <2>1. k \in Nat /\ d[k] = Or[Bit(w, k)][Bit(mask, k)]
    BY <1>1
  <2>2. Bit(w, k) \in {0, 1} /\ Bit(mask, k) = 1
    BY <1>2, <2>1, LowBits
  <2> HIDE DEF d
  <2> QED
    BY <1>3, <2>1, <2>2
<1> HIDE DEF d
<1>7. L[m] = w
  <2>1. L[m] = w % TwoTo[m]
    BY <1>1, <1>2, <1>4, <1>5, MadeIsLow
  <2> QED
    BY <1>1, <2>1
<1> DEFINE Sum == {j \in 0..Bits - m : L[m + j] = w + TwoTo[m + j] - TwoTo[m]}
<1>8. 0 \in Sum
  <2>1. m + 0 = m /\ 0 \in 0..Bits - m
    BY <1>1
  <2> QED
    BY <1>1, <1>2, <1>7, <2>1
<1>9. ASSUME NEW j \in 0..(Bits - m) - 1, j \in Sum PROVE j + 1 \in Sum
  <2>1. m + j \in Nat /\ m + j \in m..Bits - 1 /\ j + 1 \in 0..Bits - m /\ m + (j + 1) = (m + j) + 1
    BY <1>1
  <2>2. L[(m + j) + 1] = L[m + j] + d[m + j] * TwoTo[m + j] /\ d[m + j] = 1
    BY <1>4, <1>6, <2>1 DEF Made
  <2>3. TwoTo[(m + j) + 1] = 2 * TwoTo[m + j] /\ TwoTo[m + j] \in Nat
    BY <2>1, Powers
  <2>4. L[m + (j + 1)] = w + TwoTo[m + (j + 1)] - TwoTo[m]
    BY <1>1, <1>2, <1>9, <2>1, <2>2, <2>3
  <2> QED
    BY <2>1, <2>4
<1> HIDE DEF Sum
<1>10. Bits - m \in Sum
  <2>1. Bits - m \in Nat
    BY <1>1
  <2>2. \A j \in 0..Bits - m : j \in Sum
    BY <1>8, <1>9, <2>1, Induction
  <2> QED
    BY <2>1, <2>2
<1>11. m + (Bits - m) = Bits
  BY <1>1
<1> QED
  BY <1>1, <1>4, <1>10, <1>11 DEF Sum

\* The arithmetic shift moves the sign in: a quotient of the signed number.
LEMMA ArithmeticShift ==
    ASSUME NEW a \in Values, NEW count \in Values
    PROVE  LET P == TwoTo[ShiftCount(count)]
               r == Sra(a, count)
           IN  r \in Values /\ Signed(r) * P <= Signed(a) /\ Signed(a) < (Signed(r) + 1) * P
<1> DEFINE n == ShiftCount(count)
           P == TwoTo[n]
           q == a \div P
           r == Sra(a, count)
           x == Signed(a)
<1>1. n \in 0..Bits - 1 /\ q \in Values /\ q * P <= a /\ a < (q + 1) * P
  BY LogicalShifts
<1>2. Half \in Nat \ {0} /\ Immediates = 2 * Half /\ Values = 0..2 * Half - 1
      /\ P \in Nat \ {0}
  BY <1>1, Widths
<1>3. a \in Nat /\ a < 2 * Half /\ (a < Half => x = a) /\ (a >= Half => x = a - 2 * Half)
  BY SignedIs
<1>4. q \in Nat /\ q <= q * P
  <2>1. q \in Nat
    BY <1>1, SignedIs
  <2> HIDE DEF q, P
  <2> QED
    BY <1>2, <2>1
<1>5. r = IF x < 0 /\ n > 0 THEN Bitwise(Or, q, Wrapped((Immediates - 1) * TwoTo[Bits - n])) ELSE q
  BY DEF Sra
<1>6. CASE a < Half
  <2>1. r = q
    BY <1>3, <1>5, <1>6
  <2>2. q < Half
    <3> HIDE DEF q, P
    <3> QED
      BY <1>1, <1>2, <1>3, <1>4, <1>6
  <2>3. Signed(q) = q
    BY <1>1, <2>2, SignedIs
  <2> QED
    BY <1>1, <1>3, <1>6, <2>1, <2>3
<1>7. CASE a >= Half /\ n = 0
  <2>1. P = 1 /\ r = q
    BY <1>5, <1>7, Powers
  <2>2. q = a
    BY <1>3, <2>1
  <2> HIDE DEF r
  <2>3. r = a /\ Signed(r) = x /\ x \in Int
    BY <1>2, <1>3, <2>1, <2>2
  <2> HIDE DEF P, x
  <2>4. x * P <= x /\ x < (x + 1) * P
    BY <2>1, <2>3
  <2> QED
    BY <1>1, <2>1, <2>3, <2>4 DEF P, r, x
<1>8. CASE a >= Half /\ n # 0
  <2> DEFINE m == Bits - n
             H == TwoTo[m]
             G == TwoTo[m - 1]
  <2>1. n \in 1..Bits - 1 /\ m \in 1..Bits - 1 /\ m - 1 \in Nat /\ (m - 1) + 1 = m /\ Bits - m = n
        /\ m \in 0..Bits /\ Bits \in Nat /\ m - 1 \in 0..Bits - 1 /\ (Bits - 1) - (m - 1) = n
        /\ Bits - 1 \in Nat
    <3>1. Bits \in Nat \ {0}
      BY Widths
    <3> HIDE DEF n
    <3> QED
      BY <1>1, <1>8, <3>1
  <2>2. H = 2 * G /\ G \in Nat \ {0}
    BY <2>1, Powers
  <2>3. Immediates = H * P
    BY <2>1, Widths, PowerSum
  <2>4. Half = G * P
    BY <2>1, Widths, PowerSum
  <2>5. q < H
    <3> HIDE DEF q, P, H
    <3>1. q * P < H * P
      BY <1>1, <1>2, <1>3, <1>4, <2>3
    <3> QED
      BY <1>2, <1>4, <2>2, <3>1
  <2>6. q >= G
    <3> HIDE DEF q, P, G
    <3>1. G * P < (q + 1) * P
      BY <1>1, <1>3, <1>2, <1>8, <2>4
    <3>2. q + 1 > G
      BY <1>2, <1>4, <2>2, <3>1
    <3> QED
      BY <1>4, <2>2, <3>2
  <2>7. r = q + Immediates - H
    <3> DEFINE mask == Wrapped((Immediates - 1) * H)
    <3>1. mask \in Nat /\ (\A k \in 0..m - 1 : Bit(mask, k) = 0)
          /\ (\A k \in m..Bits - 1 : Bit(mask, k) = 1)
      BY <2>1, SignMask
    <3>2. q \in 0..TwoTo[m] - 1
      <4> HIDE DEF q
      <4> QED
        BY <1>4, <2>2, <2>5
    <3>3. r = Bitwise(Or, q, mask)
      <4>1. x < 0 /\ n > 0
        <5> HIDE DEF n, x
        <5> QED
          BY <1>2, <1>3, <1>8, <2>1
      <4> QED
        BY <1>5, <4>1
    <3> HIDE DEF mask, q, m, r
    <3>4. Bitwise(Or, q, mask) = q + Immediates - TwoTo[m]
      BY <2>1, <3>1, <3>2, OrMask
    <3> QED
      BY <3>3, <3>4
  <2> HIDE DEF q, r, x, P, H, G
  <2>8. G <= Half
    BY <1>2, <2>2, <2>4
  <2>9. r \in Values /\ r >= Half
    BY <1>2, <1>4, <2>2, <2>5, <2>6, <2>7, <2>8
  <2>10. Signed(r) = q - H
    BY <1>2, <1>4, <2>2, <2>7, <2>9, SignedIs
  <2>11. (q - H) * P = q * P - 2 * Half /\ ((q - H) + 1) * P = (q + 1) * P - 2 * Half
    BY <1>2, <1>4, <2>2, <2>3
  <2>12. x = a - 2 * Half
    BY <1>3, <1>8
  <2>13. q * P \in Int /\ (q + 1) * P \in Int
    BY <1>2, <1>4
  <2>14. Signed(r) * P <= x /\ x < (Signed(r) + 1) * P
    BY <1>1, <1>2, <1>3, <2>10, <2>11, <2>12, <2>13
  <2> QED
    BY <2>9, <2>14 DEF r, x, P
<1>9. n = 0 \/ n # 0
  OBVIOUS
<1>10. a < Half \/ a >= Half
  BY <1>2, <1>3
<1> QED
  BY <1>6, <1>7, <1>8, <1>9, <1>10

-----------------------------------------------------------------------------
(* The machine                                                             *)

\* The instruction that a word decodes to reads and writes registers there are.
LEMMA Decoded ==
    ASSUME NEW w \in Words, Validate(Unpacked(w)) = "none"
    PROVE  LET i == Unpacked(w)
           IN  /\ i.opcode \in Opcodes /\ i.imm \in Values
               /\ i.dst \in 0..GeneralRegisters - 1 /\ i.src0 \in 0..GeneralRegisters - 1
               /\ i.src1 \in 0..GeneralRegisters - 1
               /\ i.opcode \in Prr => i.dst \in 0..PredRegisters - 1
               /\ i.opcode \in Sreg => i.src0 \in 0..SpecialRegisters - 1
<1> DEFINE i == Unpacked(w)
<1>1. Fits(i)
  BY UnpackedDigits
<1>2. Validate(i) = "none"
  OBVIOUS
<1> HIDE DEF i
<1>3. i.imm \in Nat /\ i.dst \in Nat /\ i.src0 \in Nat /\ i.src1 \in Nat
      /\ i.imm < Immediates /\ i.dst < GeneralRegisters /\ i.src0 < GeneralRegisters
      /\ i.src1 < GeneralRegisters
  BY <1>1 DEF Fits, Fields, Size
<1>4. i.opcode \in Opcodes
      /\ (i.opcode \in Prr => ~(i.dst >= PredRegisters))
      /\ (i.opcode \in Sreg => ~(i.src0 >= SpecialRegisters))
  BY <1>2 DEF Validate
<1>5. GeneralRegisters \in Nat /\ PredRegisters \in Nat /\ SpecialRegisters \in Nat
      /\ Immediates \in Nat
  BY WordAssumption
<1> QED
  BY <1>3, <1>4, <1>5 DEF Values, i

\* An executed instruction has left every register as it was, but for its destination in
\* the lanes it ran on: this holds what the operands evaluate or compare to.
Ran ==
    LET i == Unpacked(origin.word)
        Source(l) == Fetch(i, before.general[l])
    IN  /\ origin.form = "word" /\ Validate(i) = "none" /\ IsAluOpcode(i.opcode)
        /\ exec \in Masks
        /\ before.general \in GeneralFiles /\ before.predicates \in PredicateFiles
        /\ \A l \in Lanes, n \in 0..GeneralRegisters - 1 :
               l \notin exec \/ i.opcode \in Prr \/ n # i.dst =>
                   general[l][n] = before.general[l][n]
        /\ \A l \in Lanes, n \in 0..PredRegisters - 1 :
               l \notin exec \/ i.opcode \notin Prr \/ n # i.dst =>
                   predicates[l][n] = before.predicates[l][n]
        /\ \A l \in exec :
               IF i.opcode \in Prr
               THEN predicates[l][i.dst] = Compare(i, Source(l).a, Source(l).b)
               ELSE general[l][i.dst]
                        \in Evaluate(i, Source(l).a, Source(l).b, before.general[l][i.dst], l)

AluInv == IInv /\ executed \in BOOLEAN /\ (executed => Ran)

\* At first nothing has been executed.
LEMMA InitAluInv == AluInit => AluInv
  BY InitIInv DEF AluInit, AluInv

\* Executing an instruction makes Ran true.
LEMMA ExecuteRan ==
    ASSUME AluInv, NEW lanes \in Masks, NEW file \in InitGeneral, NEW preds \in InitPredicates,
           Execute(lanes, file, preds)
    PROVE  AluInv'
<1> DEFINE i == Unpacked(origin.word)
           Source(l) == Fetch(i, file[l])
<1>1. /\ form = "struct" /\ origin.form = "word" /\ IsAluOpcode(instruction.opcode)
      /\ executed' = TRUE /\ exec' = lanes
      /\ before' = [general |-> file, predicates |-> preds] /\ UNCHANGED vars
  BY DEF Execute
<1>2. instruction = i /\ Validate(i) = "none" /\ origin.word \in Words
  BY <1>1 DEF AluInv, IInv
<1>3. /\ i.dst \in 0..GeneralRegisters - 1
      /\ i.opcode \in Prr => i.dst \in 0..PredRegisters - 1
  BY <1>2, Decoded
<1>4. file \in GeneralFiles /\ preds \in PredicateFiles /\ lanes \subseteq Lanes
  BY AluAssumption
<1>5. origin' = origin /\ IInv'
  BY <1>1 DEF AluInv, IInv, vars
<1>6. before'.general = file /\ before'.predicates = preds
  BY <1>1
<1>7. i.opcode \in Prr => /\ general' = file
                          /\ predicates' = [l \in Lanes |->
                                 IF l \notin lanes THEN preds[l]
                                 ELSE [preds[l] EXCEPT ![i.dst] = Compare(i, Source(l).a, Source(l).b)]]
  BY <1>2 DEF Execute, Writers
<1>8. i.opcode \notin Prr =>
          /\ predicates' = preds
          /\ \E result :
                 /\ \A l \in lanes :
                        result[l] \in Evaluate(i, Source(l).a, Source(l).b, file[l][i.dst], l)
                 /\ general' = [l \in Lanes |->
                        IF l \notin lanes THEN file[l]
                        ELSE [file[l] EXCEPT ![i.dst] = result[l]]]
  BY <1>2 DEF Execute, Writers
<1> HIDE DEF i, Source
<1>9. ASSUME NEW l \in Lanes, NEW n \in 0..GeneralRegisters - 1,
             l \notin lanes \/ i.opcode \in Prr \/ n # i.dst
      PROVE  general'[l][n] = file[l][n]
  <2>1. file[l] \in [0..GeneralRegisters - 1 -> Values]
    BY <1>4 DEF GeneralFiles
  <2> QED
    BY <1>3, <1>7, <1>8, <1>9, <2>1
<1>10. ASSUME NEW l \in Lanes, NEW n \in 0..PredRegisters - 1,
              l \notin lanes \/ i.opcode \notin Prr \/ n # i.dst
       PROVE  predicates'[l][n] = preds[l][n]
  <2>1. preds[l] \in [0..PredRegisters - 1 -> BOOLEAN]
    BY <1>4 DEF PredicateFiles
  <2> QED
    BY <1>3, <1>7, <1>8, <1>10, <2>1
<1>11. ASSUME NEW l \in lanes, i.opcode \in Prr
       PROVE  predicates'[l][i.dst] = Compare(i, Source(l).a, Source(l).b)
  <2>1. l \in Lanes /\ preds[l] \in [0..PredRegisters - 1 -> BOOLEAN]
    BY <1>4 DEF PredicateFiles
  <2> QED
    BY <1>3, <1>7, <1>11, <2>1
<1>12. ASSUME NEW l \in lanes, i.opcode \notin Prr
       PROVE  general'[l][i.dst] \in Evaluate(i, Source(l).a, Source(l).b, file[l][i.dst], l)
  <2>1. l \in Lanes /\ file[l] \in [0..GeneralRegisters - 1 -> Values]
    BY <1>4 DEF GeneralFiles
  <2> QED
    BY <1>3, <1>8, <1>12, <2>1
<1>13. Ran'
  BY <1>1, <1>2, <1>4, <1>5, <1>6, <1>9, <1>10, <1>11, <1>12 DEF Ran, i, Source
<1> QED
  BY <1>1, <1>5, <1>13 DEF AluInv

\* No step makes it false again.
LEMMA NextAluInv == AluInv /\ [AluNext]_<<vars, registers>> => AluInv'
<1> SUFFICES ASSUME AluInv, [AluNext]_<<vars, registers>> PROVE AluInv'
  OBVIOUS
<1>1. CASE ~executed /\ Next /\ UNCHANGED registers
  <2>1. IInv'
    BY <1>1, NextIInv DEF AluInv
  <2> QED
    BY <1>1, <2>1 DEF AluInv, registers
<1>2. CASE \E lanes \in Masks, file \in InitGeneral, preds \in InitPredicates :
               Execute(lanes, file, preds)
  BY <1>2, ExecuteRan
<1>3. CASE UNCHANGED <<vars, registers>>
  BY <1>3 DEF AluInv, IInv, Ran, vars, registers
<1>4. CASE Executed
  BY <1>3, <1>4 DEF Executed
<1> QED
  BY <1>1, <1>2, <1>3, <1>4 DEF AluNext

\* The operands and the result of a lane that executed the instruction.
LEMMA LaneResult ==
    ASSUME AluInv, executed, NEW l \in exec
    PROVE  /\ l \in Lanes /\ A(l) \in Values /\ B(l) \in Values /\ Old(l) \in Values
           /\ Op \in Opcodes /\ IsAluOpcode(Op)
           /\ Op \in Prr => predicates[l][Dst] = Compare(Unpacked(origin.word), A(l), B(l))
           /\ Op \in Rr => Result(l) \in Evaluate(Unpacked(origin.word), A(l), 0, Old(l), l)
           /\ Op \notin Prr \cup Rr =>
                  Result(l) \in Evaluate(Unpacked(origin.word), A(l), B(l), Old(l), l)
<1> DEFINE i == Unpacked(origin.word)
           file == before.general[l]
<1>1. Ran /\ l \in Lanes
  BY AluAssumption DEF AluInv, Ran
<1>2. origin.word \in Words
  <2>1. origin.form = "word"
    BY <1>1 DEF Ran
  <2> QED
    BY <2>1 DEF AluInv, IInv
<1>3. /\ i.opcode \in Opcodes /\ i.imm \in Values
      /\ i.dst \in 0..GeneralRegisters - 1 /\ i.src0 \in 0..GeneralRegisters - 1
      /\ i.src1 \in 0..GeneralRegisters - 1
  BY <1>1, <1>2, Decoded DEF Ran
<1>4. file \in [0..GeneralRegisters - 1 -> Values]
  BY <1>1 DEF Ran, GeneralFiles
<1>5. A(l) \in Values /\ B(l) \in Values /\ Old(l) \in Values
  BY <1>3, <1>4 DEF A, B, Old, Dst
<1>6. i.opcode \in Rr => Fetch(i, file).a = A(l) /\ Fetch(i, file).b = 0
  BY DEF Fetch, A
<1>7. i.opcode \notin Rr => Fetch(i, file).a = A(l) /\ Fetch(i, file).b = B(l)
  BY DEF Fetch, A, B
<1>8. Rr \cap Prr = {}
  BY DEF Rr, Prr
<1> QED
  BY <1>1, <1>3, <1>5, <1>6, <1>7, <1>8 DEF Ran, Op, Dst, Old, Result

\* The results of the instructions whose result is an integer.
LEMMA IntegerEvaluate ==
    ASSUME NEW i, NEW a, NEW b, NEW old, NEW l
    PROVE  /\ i.opcode = 1 => Evaluate(i, a, b, old, l) = {Wrapped(a + b)}
           /\ i.opcode = 2 => Evaluate(i, a, b, old, l) = {Wrapped(a - b)}
           /\ i.opcode = 3 => Evaluate(i, a, b, old, l) = {Wrapped(a * b)}
           /\ i.opcode = 4 => Evaluate(i, a, b, old, l) = {S32Div(a, b)}
           /\ i.opcode = 5 => Evaluate(i, a, b, old, l) = {S32Rem(a, b)}
           /\ i.opcode = 6 => Evaluate(i, a, b, old, l) = {IF Signed(b) < Signed(a) THEN b ELSE a}
           /\ i.opcode = 7 => Evaluate(i, a, b, old, l) = {IF Signed(a) < Signed(b) THEN b ELSE a}
           /\ i.opcode = 8 => Evaluate(i, a, b, old, l) = {Wrapped(-a)}
           /\ i.opcode = 9 => Evaluate(i, a, b, old, l) = {Bitwise(And, a, b)}
           /\ i.opcode = 10 => Evaluate(i, a, b, old, l) = {Bitwise(Or, a, b)}
           /\ i.opcode = 11 => Evaluate(i, a, b, old, l) = {Bitwise(Xor, a, b)}
           /\ i.opcode = 12 => Evaluate(i, a, b, old, l) = {Immediates - 1 - a}
           /\ i.opcode = 13 => Evaluate(i, a, b, old, l) = {Wrapped(a * TwoTo[ShiftCount(b)])}
           /\ i.opcode = 14 => Evaluate(i, a, b, old, l) = {a \div TwoTo[ShiftCount(b)]}
           /\ i.opcode = 15 => Evaluate(i, a, b, old, l) = {Sra(a, b)}
           /\ i.opcode = 16 => Evaluate(i, a, b, old, l) = {a}
           /\ i.opcode = 38 => Evaluate(i, a, b, old, l) = {Special[l][i.src0]}
BY DEF Evaluate

\* An ALU instruction of lane l writes its destination only, and mov what it reads: the
\* code reads the operands of a lane before it writes to the register file.
THEOREM WritesDestinationOnly == AluSpec => []OnlyDestination
<1>1. ASSUME AluInv PROVE OnlyDestination
  <2> SUFFICES ASSUME executed PROVE OnlyDestination
    BY DEF OnlyDestination
  <2>1. Ran
    BY <1>1 DEF AluInv
  <2>2. ASSUME NEW l \in exec, Op = 16 PROVE Result(l) = A(l)
    <3>1. Op \in Rr
      BY <2>2 DEF Rr
    <3>2. Result(l) \in Evaluate(Unpacked(origin.word), A(l), 0, Old(l), l)
      BY <1>1, <3>1, LaneResult
    <3> QED
      BY <2>2, <3>2, IntegerEvaluate DEF Op
  <2>3. ASSUME NEW l \in exec, Op = 38 PROVE Result(l) = Special[l][Unpacked(origin.word).src0]
    <3>1. Op \notin Prr \cup Rr
      BY <2>3 DEF Rr, Prr
    <3>2. Result(l) \in Evaluate(Unpacked(origin.word), A(l), B(l), Old(l), l)
      BY <1>1, <3>1, LaneResult
    <3> QED
      BY <2>3, <3>2, IntegerEvaluate DEF Op
  <2> QED
    BY <2>1, <2>2, <2>3 DEF OnlyDestination, Ran, Op, Dst
<1> QED
  BY InitAluInv, NextAluInv, <1>1, PTL DEF AluSpec

\* Floats that are no NaN have a value; infinities count as the next power of two.
LEMMA RealType ==
    ASSUME NEW f \in Values
    PROVE  Units(f) \in Nat /\ Real(f) \in Int
<1> DEFINE exponent == (f % Half) \div Mantissas
<1>1. f \in Nat /\ Half \in Nat \ {0}
  BY Widths, SignedIs
<1>2. Mantissas \in Nat \ {0}
  <2>1. PICK n \in 1..Bits - 2 : Mantissas = TwoTo[n]
    BY AluAssumption
  <2>2. n \in 0..Bits - 1
    BY <2>1, Widths
  <2> QED
    BY <2>1, <2>2, Widths
<1>3. f % Half \in Nat /\ exponent \in Nat /\ f % Mantissas \in Nat
  <2>1. f % Half \in Nat /\ f % Mantissas \in Nat
    BY <1>1, <1>2, DivMod
  <2> DEFINE e == f % Half
  <2>2. e \in Nat
    BY <2>1
  <2> HIDE DEF e
  <2>3. e \div Mantissas \in Nat
    BY <1>2, <2>2, DivMod
  <2> QED
    BY <2>1, <2>3 DEF e
<1> HIDE DEF exponent
<1>4. exponent # 0 => exponent - 1 \in Nat /\ TwoTo[exponent - 1] \in Nat
  BY <1>3, Powers
<1>5. exponent # 0 => (Mantissas + (f % Mantissas)) * TwoTo[exponent - 1] \in Nat
  <2> DEFINE g == f % Mantissas
             h == TwoTo[exponent - 1]
  <2>1. g \in Nat
    BY <1>3
  <2> HIDE DEF g, h
  <2>2. ASSUME h \in Nat PROVE (Mantissas + g) * h \in Nat
    BY <1>2, <2>1, <2>2
  <2> QED
    BY <1>4, <2>2 DEF g, h
<1>6. Units(f) = IF exponent = 0 THEN f % Half
                 ELSE (Mantissas + (f % Mantissas)) * TwoTo[exponent - 1]
  BY DEF Units, exponent
<1>7. Units(f) \in Nat
  BY <1>3, <1>5, <1>6
<1> QED
  BY <1>7 DEF Real

\* setp compares: by less, equal, greater or unordered.
THEOREM ComparesAsSpecified == AluSpec => []PredicateResults
<1>1. ASSUME AluInv PROVE PredicateResults
  <2> SUFFICES ASSUME executed PROVE PredicateResults
    BY DEF PredicateResults, ForEachLane
  <2> DEFINE Accepted == <<{0}, {-1, 1, 2}, {-1}, {-1, 0}, {1}, {0, 1}>>
             Order(x, y) == IF x < y THEN -1 ELSE IF x = y THEN 0 ELSE 1
             Outcome(l) ==
                 LET unordered == Op >= 32 /\ (IsNaN(A(l)) \/ IsNaN(B(l)))
                 IN  IF unordered THEN 2
                     ELSE IF Op < 32 THEN Order(Signed(A(l)), Signed(B(l)))
                     ELSE Order(Real(A(l)), Real(B(l)))
  <2>1. \A x, y \in Int, k \in 0..5 :
            Related(k, x, y) = (Order(x, y) \in Accepted[k + 1])
    <3> SUFFICES ASSUME NEW x \in Int, NEW y \in Int, NEW k \in 0..5
                 PROVE  Related(k, x, y) = (Order(x, y) \in Accepted[k + 1])
      OBVIOUS
    <3>1. k \in {0, 1, 2, 3, 4, 5}
      OBVIOUS
    <3> QED
      BY <3>1 DEF Related
  <2>2. \A k \in 0..5 : 2 \in Accepted[k + 1] <=> k = 1
    OBVIOUS
  <2> HIDE DEF Accepted, Order
  <2>3. ASSUME NEW l \in exec, Op \in Prr
        PROVE  predicates[l][Dst] = (Outcome(l) \in Accepted[((Op - 26) % 6) + 1])
    <3>1. predicates[l][Dst] = Compare(Unpacked(origin.word), A(l), B(l))
          /\ A(l) \in Values /\ B(l) \in Values
      BY <1>1, <2>3, LaneResult
    <3>2. Signed(A(l)) \in Int /\ Signed(B(l)) \in Int
      <4>1. Half \in Nat
        BY Widths
      <4>2. Signed(A(l)) \in -Half..Half - 1 /\ Signed(B(l)) \in -Half..Half - 1
        BY <3>1, SignedIs
      <4> QED
        BY <4>1, <4>2
    <3>3. Real(A(l)) \in Int /\ Real(B(l)) \in Int
      BY <3>1, RealType
    <3>4. CASE Op < 32
      <4>1. Op - 26 \in 0..5 /\ (Op - 26) % 6 = Op - 26 /\ ~(Op >= 32)
        BY <2>3, <3>4 DEF Prr
      <4>2. Compare(Unpacked(origin.word), A(l), B(l))
                = Related(Op - 26, Signed(A(l)), Signed(B(l)))
        BY <4>1 DEF Compare, CompareS32, Op
      <4> QED
        BY <2>1, <3>1, <3>2, <3>4, <4>1, <4>2
    <3>5. CASE Op >= 32
      <4>1. Op - 32 \in 0..5 /\ (Op - 26) % 6 = Op - 32 /\ ~(Op < 32) /\ (Op = 33 <=> Op - 32 = 1)
        BY <2>3, <3>5 DEF Prr
      <4>2. Compare(Unpacked(origin.word), A(l), B(l))
                = IF IsNaN(A(l)) \/ IsNaN(B(l)) THEN Op = 33
                  ELSE Related(Op - 32, Real(A(l)), Real(B(l)))
        BY <3>5 DEF Compare, CompareF32, Op
      <4> QED
        BY <2>1, <2>2, <3>1, <3>3, <3>5, <4>1, <4>2
    <3>6. Op < 32 \/ Op >= 32
      BY <2>3 DEF Prr
    <3> QED
      BY <3>4, <3>5, <3>6
  <2> QED
    BY <2>3 DEF PredicateResults, ForEachLane, Accepted, Order
<1> QED
  BY InitAluInv, NextAluInv, <1>1, PTL DEF AluSpec

\* Exact integer arithmetic, reduced at its end, gives what the ALU computes.
THEOREM IntegersAreExact == AluSpec => []IntegerResults
<1>1. ASSUME AluInv PROVE IntegerResults
  <2> SUFFICES ASSUME executed PROVE IntegerResults
    BY DEF IntegerResults, ForEachLane
  <2> DEFINE Correct(l) ==
          LET x == Signed(A(l))
              y == Signed(B(l))
              r == Result(l)
              power == TwoTo[B(l) % Bits]
          IN  /\ Op = 1 => Congruent(r, x + y)
              /\ Op = 2 => Congruent(r, x - y)
              /\ Op = 3 => Congruent(r, x * y)
              /\ Op \in {4, 5} /\ y = 0 => r = 0
              /\ Op \in {4, 5} /\ y # 0 =>
                   \E q \in -Half..Half :
                       /\ Truncates(x, y, q)
                       /\ Congruent(r, IF Op = 4 THEN q ELSE x - q * y)
              /\ Op = 6 => Signed(r) \in {x, y} /\ Signed(r) <= x /\ Signed(r) <= y
              /\ Op = 7 => Signed(r) \in {x, y} /\ Signed(r) >= x /\ Signed(r) >= y
              /\ Op = 8 => Congruent(r, -x)
              /\ Op = 9 => \A k \in 0..Bits - 1 : Bit(r, k) = Bit(A(l), k) * Bit(B(l), k)
              /\ Op = 10 => \A k \in 0..Bits - 1 :
                                Bit(r, k) = Bit(A(l), k) + Bit(B(l), k) - Bit(A(l), k) * Bit(B(l), k)
              /\ Op = 11 => \A k \in 0..Bits - 1 : Bit(r, k) = (Bit(A(l), k) + Bit(B(l), k)) % 2
              /\ Op = 12 => \A k \in 0..Bits - 1 : Bit(r, k) = 1 - Bit(A(l), k)
              /\ Op = 13 => Congruent(r, x * power)
              /\ Op = 14 => r * power <= A(l) /\ A(l) < (r + 1) * power
              /\ Op = 15 => Signed(r) * power <= x /\ x < (Signed(r) + 1) * power
  <2>1. ASSUME NEW l \in exec PROVE Correct(l)
    <3> DEFINE i == Unpacked(origin.word)
               a == A(l)
               b == B(l)
               r == Result(l)
               x == Signed(a)
               y == Signed(b)
    <3>1. a \in Values /\ b \in Values /\ Op \in Nat /\ i.opcode = Op
      <4>1. A(l) \in Values /\ B(l) \in Values /\ Op \in Opcodes
        BY <1>1, LaneResult
      <4> QED
        BY <4>1 DEF Opcodes, Op
    <3>2. Op \in Rr => r \in Evaluate(i, a, 0, Old(l), l)
      BY <1>1, LaneResult
    <3>3. Op \notin Prr \cup Rr => r \in Evaluate(i, a, b, Old(l), l)
      BY <1>1, LaneResult
    <3>4. \/ r \in Evaluate(i, a, b, Old(l), l)
          \/ (Op \in {8, 12} /\ r \in Evaluate(i, a, 0, Old(l), l))
          \/ Op \notin 1..15
      BY <3>2, <3>3 DEF Rr, Prr
    <3> HIDE DEF i, a, b, r
    <3>5. /\ Op = 1 => r = Wrapped(a + b)
          /\ Op = 2 => r = Wrapped(a - b)
          /\ Op = 3 => r = Wrapped(a * b)
          /\ Op = 4 => r = S32Div(a, b)
          /\ Op = 5 => r = S32Rem(a, b)
          /\ Op = 6 => r = IF Signed(b) < Signed(a) THEN b ELSE a
          /\ Op = 7 => r = IF Signed(a) < Signed(b) THEN b ELSE a
          /\ Op = 8 => r = Wrapped(-a)
          /\ Op = 9 => r = Bitwise(And, a, b)
          /\ Op = 10 => r = Bitwise(Or, a, b)
          /\ Op = 11 => r = Bitwise(Xor, a, b)
          /\ Op = 12 => r = Immediates - 1 - a
          /\ Op = 13 => r = Wrapped(a * TwoTo[ShiftCount(b)])
          /\ Op = 14 => r = a \div TwoTo[ShiftCount(b)]
          /\ Op = 15 => r = Sra(a, b)
      BY <3>1, <3>4, IntegerEvaluate
    <3>6. ShiftCount(b) = b % Bits
      BY DEF ShiftCount
    <3>7. x \in Int /\ y \in Int
      <4>1. Half \in Nat
        BY Widths
      <4>2. x \in -Half..Half - 1 /\ y \in -Half..Half - 1
        BY <3>1, SignedIs
      <4> QED
        BY <4>1, <4>2
    <3>8. /\ Op = 1 => Congruent(r, x + y)
          /\ Op = 2 => Congruent(r, x - y)
          /\ Op = 3 => Congruent(r, x * y)
          /\ Op = 8 => Congruent(r, -x)
      BY <3>1, <3>5, RingOperations
    <3>9. /\ Op \in {4, 5} /\ y = 0 => r = 0
          /\ Op \in {4, 5} /\ y # 0 =>
                   \E q \in -Half..Half :
                       /\ Truncates(x, y, q)
                       /\ Congruent(r, IF Op = 4 THEN q ELSE x - q * y)
      BY <3>1, <3>5, Division
    <3>10. /\ Op = 6 => Signed(r) \in {x, y} /\ Signed(r) <= x /\ Signed(r) <= y
           /\ Op = 7 => Signed(r) \in {x, y} /\ Signed(r) >= x /\ Signed(r) >= y
      BY <3>5, <3>7
    <3>11. /\ Op = 9 => \A k \in 0..Bits - 1 : Bit(r, k) = Bit(a, k) * Bit(b, k)
           /\ Op = 10 => \A k \in 0..Bits - 1 :
                             Bit(r, k) = Bit(a, k) + Bit(b, k) - Bit(a, k) * Bit(b, k)
           /\ Op = 11 => \A k \in 0..Bits - 1 : Bit(r, k) = (Bit(a, k) + Bit(b, k)) % 2
           /\ Op = 12 => \A k \in 0..Bits - 1 : Bit(r, k) = 1 - Bit(a, k)
      <4>1. \A k \in 0..Bits - 1 :
                /\ Bit(Bitwise(And, a, b), k) = Bit(a, k) * Bit(b, k)
                /\ Bit(Bitwise(Or, a, b), k) = Bit(a, k) + Bit(b, k) - Bit(a, k) * Bit(b, k)
                /\ Bit(Bitwise(Xor, a, b), k) = (Bit(a, k) + Bit(b, k)) % 2
                /\ Bit(Immediates - 1 - a, k) = 1 - Bit(a, k)
        BY <3>1, BitOperations
      <4>2. CASE Op = 9
        BY <3>5, <4>1, <4>2
      <4>3. CASE Op = 10
        BY <3>5, <4>1, <4>3
      <4>4. CASE Op = 11
        BY <3>5, <4>1, <4>4
      <4>5. CASE Op = 12
        BY <3>5, <4>1, <4>5
      <4> QED
        BY <4>2, <4>3, <4>4, <4>5
    <3>12. /\ Op = 13 => Congruent(r, x * TwoTo[b % Bits])
           /\ Op = 14 => r * TwoTo[b % Bits] <= a /\ a < (r + 1) * TwoTo[b % Bits]
      BY <3>1, <3>5, <3>6, LogicalShifts
    <3>13. Op = 15 => Signed(r) * TwoTo[b % Bits] <= x /\ x < (Signed(r) + 1) * TwoTo[b % Bits]
      BY <3>1, <3>5, <3>6, ArithmeticShift
    <3> QED
      BY <3>8, <3>9, <3>10, <3>11, <3>12, <3>13 DEF a, b, r
  <2> QED
    BY <2>1 DEF IntegerResults, ForEachLane, Truncates
<1> QED
  BY InitAluInv, NextAluInv, <1>1, PTL DEF AluSpec

-----------------------------------------------------------------------------
(* Floats                                                                  *)

\* The mantissa is the lowest bits, the sign the highest, and exponents are between.
LEMMA Format ==
    /\ Mantissas \in Nat \ {0} /\ Half \in Nat \ {0} /\ Half % 2 = 0
    /\ Values = 0..2 * Half - 1 /\ Immediates = 2 * Half
    /\ \E h \in Nat : Half = h * Mantissas
    /\ Infinity \in Nat \ {0} /\ Infinity < Half
    /\ One \in Nat \ {0}
    /\ FloatOne \in Nat /\ FloatOne < Infinity
<1>1. PICK n \in 1..Bits - 2 : Mantissas = TwoTo[n]
  BY AluAssumption
<1>2. Bits \in Nat \ {0}
  BY Widths
<1>3. n \in Nat /\ n + 1 \in Nat /\ n + 1 \in 0..Bits - 1 /\ n \in 0..Bits - 1 /\ Bits - 1 \in Nat
      /\ (Bits - 1) - n \in Nat /\ (Bits - 1) - (n + 1) \in Nat
  BY <1>2
<1> DEFINE h == TwoTo[(Bits - 1) - n]
           g == TwoTo[(Bits - 1) - (n + 1)]
<1>4. Half = TwoTo[Bits - 1] /\ Half \in Nat \ {0} /\ Values = 0..2 * Half - 1
      /\ Immediates = 2 * Half
  BY Widths
<1>5. Half = Mantissas * h /\ Half = TwoTo[n + 1] * g
  BY <1>1, <1>3, <1>4, PowerSum
<1>6. Mantissas \in Nat \ {0} /\ h \in Nat \ {0} /\ g \in Nat \ {0} /\ TwoTo[n + 1] = 2 * Mantissas
  BY <1>1, <1>3, Powers
<1> HIDE DEF h, g
<1>7. Half = h * Mantissas /\ Half = 2 * (Mantissas * g) /\ Mantissas * g \in Nat
      /\ Mantissas <= Mantissas * g
  BY <1>5, <1>6
<1>8. Half % 2 = 0
  BY <1>7
<1>9. Infinity \in Nat \ {0} /\ Infinity < Half
  BY <1>4, <1>6, <1>7 DEF Infinity
<1>10. Bias \in Nat \ {0} /\ Bias - 1 \in Nat
  BY AluAssumption
<1>11. One \in Nat \ {0}
  <2> DEFINE p == TwoTo[Bias - 1]
  <2>1. p \in Nat \ {0}
    BY <1>10, Powers
  <2> HIDE DEF p
  <2>2. Mantissas * p \in Nat \ {0}
    BY <1>6, <2>1
  <2> QED
    BY <2>2 DEF One, p
<1>12. FloatOne \in Nat /\ FloatOne < Infinity
  <2>1. (Bias + 1) * Mantissas < Half
    BY AluAssumption DEF Half
  <2>2. Bias * Mantissas \in Nat /\ (Bias + 1) * Mantissas = Bias * Mantissas + Mantissas
    BY <1>6, <1>10
  <2> QED
    BY <1>4, <1>6, <2>1, <2>2 DEF FloatOne, Infinity
<1> QED
  BY <1>4, <1>6, <1>7, <1>8, <1>9, <1>11, <1>12

\* The value of a float without its sign, by its exponent and mantissa.
LEMMA UnitsIs ==
    ASSUME NEW f \in 0..Half - 1
    PROVE  LET e == f \div Mantissas
               m == f % Mantissas
           IN  /\ f = e * Mantissas + m /\ e \in Nat /\ m \in 0..Mantissas - 1
               /\ e = 0 => Units(f) = f
               /\ e # 0 => e - 1 \in Nat /\ Units(f) = (Mantissas + m) * TwoTo[e - 1]
               /\ Units(f) \in Nat
<1>1. f \in Nat /\ f % Half = f /\ f \in Values /\ Mantissas \in Nat \ {0}
  BY Format
<1> DEFINE e == f \div Mantissas
           m == f % Mantissas
<1>2. f = e * Mantissas + m /\ e \in Nat /\ m \in 0..Mantissas - 1
  BY <1>1, DivMod
<1>3. Units(f) = IF e = 0 THEN f ELSE (Mantissas + m) * TwoTo[e - 1]
  BY <1>1 DEF Units
<1> HIDE DEF e, m
<1>4. e # 0 => e - 1 \in Nat
  BY <1>2
<1>5. Units(f) \in Nat
  BY <1>1, RealType
<1> QED
  BY <1>2, <1>3, <1>4, <1>5 DEF e, m

\* The sign changes nothing of it, and it is 0 for 0 only.
LEMMA UnitsOfSigned ==
    ASSUME NEW f \in 0..Half - 1
    PROVE  /\ f + Half \in Values /\ (f + Half) % Half = f /\ Units(f + Half) = Units(f)
           /\ (f + Half) % 2 = f % 2
           /\ Negative(f + Half) /\ ~Negative(f)
<1>1. f \in Nat /\ Half \in Nat \ {0} /\ Values = 0..2 * Half - 1 /\ Mantissas \in Nat \ {0}
      /\ f < Half /\ Half % 2 = 0
  BY Format
<1>2. PICK h \in Nat : Half = h * Mantissas
  BY Format
<1>3. (f + Half) % Half = f /\ f % Half = f
  <2>1. (1 * Half + f) % Half = f
    BY <1>1, DivUnique
  <2> QED
    BY <1>1, <2>1
<1>4. (f + Half) % Mantissas = f % Mantissas
  <2> DEFINE e == f \div Mantissas
             m == f % Mantissas
  <2>1. f = e * Mantissas + m /\ e \in Nat /\ m \in 0..Mantissas - 1
    BY <1>1, DivMod
  <2> HIDE DEF e, m
  <2>2. f + Half = (e + h) * Mantissas + m /\ e + h \in Nat
    BY <1>1, <1>2, <2>1
  <2>3. ((e + h) * Mantissas + m) % Mantissas = m
    BY <1>1, <2>1, <2>2, DivUnique
  <2> QED
    BY <2>2, <2>3 DEF m
<1>5. Units(f + Half) = Units(f)
  BY <1>3, <1>4 DEF Units
<1>6. (f + Half) % 2 = f % 2
  BY <1>1
<1> QED
  BY <1>1, <1>3, <1>5, <1>6 DEF Negative

\* Every value is a float without a sign or one with it.
LEMMA SignSplit ==
    ASSUME NEW f \in Values
    PROVE  /\ f % Half \in 0..Half - 1
           /\ f = (f % Half) + SignBit(Negative(f)) /\ Units(f) = Units(f % Half)
           /\ f % 2 = (f % Half) % 2
<1>1. f \in Nat /\ Half \in Nat \ {0} /\ f < 2 * Half
  BY Format
<1>2. CASE f < Half
  <2>1. f % Half = f /\ ~Negative(f)
    BY <1>1, <1>2 DEF Negative
  <2> QED
    BY <1>1, <1>2, <2>1 DEF SignBit
<1>3. CASE f >= Half
  <2> DEFINE g == f - Half
  <2>1. g \in 0..Half - 1 /\ f = g + Half
    BY <1>1, <1>3
  <2> HIDE DEF g
  <2>2. f % Half = g /\ Units(f) = Units(g) /\ Negative(f) /\ f % 2 = g % 2
    BY <2>1, UnitsOfSigned
  <2> QED
    BY <2>1, <2>2 DEF SignBit
<1> QED
  BY <1>1, <1>2, <1>3

\* The greater float has the greater value.
LEMMA UnitsOrder ==
    ASSUME NEW f \in 0..Half - 1, NEW g \in 0..Half - 1, f < g
    PROVE  Units(f) < Units(g)
<1> DEFINE e1 == f \div Mantissas
           m1 == f % Mantissas
           e2 == g \div Mantissas
           m2 == g % Mantissas
           M == Mantissas
<1>1. M \in Nat \ {0} /\ f \in Nat /\ g \in Nat
  BY Format
<1>2. /\ f = e1 * M + m1 /\ e1 \in Nat /\ m1 \in 0..M - 1 /\ Units(f) \in Nat
      /\ e1 = 0 => Units(f) = f
      /\ e1 # 0 => e1 - 1 \in Nat /\ Units(f) = (M + m1) * TwoTo[e1 - 1]
  BY UnitsIs
<1>3. /\ g = e2 * M + m2 /\ e2 \in Nat /\ m2 \in 0..M - 1 /\ Units(g) \in Nat
      /\ e2 = 0 => Units(g) = g
      /\ e2 # 0 => e2 - 1 \in Nat /\ Units(g) = (M + m2) * TwoTo[e2 - 1]
  BY UnitsIs
<1> HIDE DEF e1, m1, e2, m2, M
<1>4. e1 <= e2
  <2> SUFFICES ASSUME e1 >= e2 + 1 PROVE FALSE
    BY <1>2, <1>3
  <2>1. e1 * M >= (e2 + 1) * M
    BY <1>1, <1>2, <1>3
  <2>2. (e2 + 1) * M = e2 * M + M /\ e2 * M \in Nat /\ e1 * M \in Nat
    BY <1>1, <1>2, <1>3
  <2> QED
    BY <1>1, <1>2, <1>3, <2>1, <2>2
<1>5. CASE e1 = e2 /\ e1 = 0
  BY <1>2, <1>3, <1>5
<1>6. CASE e1 = e2 /\ e1 # 0
  <2>1. m1 < m2
    <3>1. e1 * M \in Nat
      BY <1>1, <1>2
    <3> QED
      BY <1>1, <1>2, <1>3, <1>6, <3>1
  <2> DEFINE p == TwoTo[e1 - 1]
  <2>2. p \in Nat \ {0}
    BY <1>2, <1>6, Powers
  <2>3. Units(f) = (M + m1) * p /\ Units(g) = (M + m2) * p
    BY <1>2, <1>3, <1>6
  <2> HIDE DEF p
  <2>4. (M + m1) * p < (M + m2) * p
    BY <1>1, <1>2, <1>3, <2>1, <2>2
  <2> QED
    BY <2>3, <2>4
<1>7. CASE e1 # e2
  <2> DEFINE p == TwoTo[e1]
             q == TwoTo[e2 - 1]
  <2>1. e2 # 0 /\ e2 - 1 \in Nat /\ e1 \in 0..e2 - 1
    BY <1>2, <1>3, <1>4, <1>7
  <2>2. p \in Nat \ {0} /\ q \in Nat \ {0}
    BY <1>2, <2>1, Powers
  <2>3. p <= q
    BY <2>1, PowerOrder
  <2>4. Units(f) < M * p
    <3>1. CASE e1 = 0
      <4>1. p = 1 /\ e1 * M = 0
        BY <1>1, <3>1, Powers
      <4> HIDE DEF p
      <4> QED
        BY <1>1, <1>2, <3>1, <4>1
    <3>2. CASE e1 # 0
      <4> DEFINE t == TwoTo[e1 - 1]
      <4>1. (e1 - 1) + 1 = e1 /\ e1 - 1 \in Nat
        BY <1>2, <3>2
      <4>2. p = 2 * t /\ t \in Nat \ {0}
        BY <4>1, Powers
      <4>3. Units(f) = (M + m1) * t
        BY <1>2, <3>2
      <4> HIDE DEF p, t
      <4>4. (M + m1) * t < (M + M) * t /\ (M + M) * t = M * (2 * t)
        BY <1>1, <1>2, <4>2
      <4>5. (M + m1) * t \in Nat
        BY <1>1, <1>2, <4>2
      <4> QED
        BY <4>2, <4>3, <4>4
    <3> QED
      BY <3>1, <3>2
  <2>5. Units(g) = (M + m2) * q
    BY <1>3, <2>1
  <2> HIDE DEF p, q
  <2>6. M * p <= M * q /\ M * q <= (M + m2) * q /\ M * p \in Nat /\ M * q \in Nat
        /\ (M + m2) * q \in Nat
    BY <1>1, <1>3, <2>2, <2>3
  <2> QED
    BY <1>2, <1>3, <2>4, <2>5, <2>6
<1> QED
  BY <1>5, <1>6, <1>7

-----------------------------------------------------------------------------
(* Rounding                                                                *)

\* How far the float f without a sign is from n / den, times den.
Off(f, n, den) == Abs(Units(f) * den - n)

\* A float no other is nearer than, and an even one of two.
Closest(r, n, den) ==
    \A g \in 0..Infinity :
        \/ Off(r, n, den) < Off(g, n, den)
        \/ Off(r, n, den) = Off(g, n, den) /\ (r = g \/ r % 2 = 0)

\* That is a natural number.
LEMMA OffType ==
    ASSUME NEW f \in 0..Infinity, NEW n \in Nat, NEW den \in Nat \ {0}
    PROVE  Off(f, n, den) \in Nat /\ Units(f) \in Nat /\ f \in 0..Half - 1
<1>1. f \in 0..Half - 1
  BY Format
<1>2. Units(f) \in Nat
  BY <1>1, UnitsIs
<1> DEFINE u == Units(f)
<1> HIDE DEF u
<1>3. u * den - n \in Int
  BY <1>2 DEF u
<1> QED
  BY <1>1, <1>2, <1>3 DEF Off, Abs, u

\* Between two floats that are equally far there is a nearer one, or none.
LEMMA BetweenIsNearer ==
    ASSUME NEW n \in Nat, NEW den \in Nat \ {0},
           NEW f \in 0..Infinity, NEW g \in 0..Infinity, NEW h \in 0..Infinity,
           f < h, h < g, Off(f, n, den) = Off(g, n, den)
    PROVE  Off(h, n, den) < Off(f, n, den)
<1> DEFINE u == Units(f)
           v == Units(g)
           w == Units(h)
<1>1. u \in Nat /\ v \in Nat /\ w \in Nat
  BY OffType
<1>2. u < w /\ w < v
  <2>1. f \in 0..Half - 1 /\ g \in 0..Half - 1 /\ h \in 0..Half - 1
    BY Format
  <2> QED
    BY <2>1, UnitsOrder
<1> HIDE DEF u, v, w
<1>3. u * den < w * den /\ w * den < v * den
      /\ u * den \in Nat /\ v * den \in Nat /\ w * den \in Nat
  BY <1>1, <1>2
<1>4. Off(f, n, den) = Abs(u * den - n) /\ Off(g, n, den) = Abs(v * den - n)
      /\ Off(h, n, den) = Abs(w * den - n)
  BY DEF Off, u, v, w
<1> DEFINE x == u * den
           y == v * den
           z == w * den
<1>5. x \in Nat /\ y \in Nat /\ z \in Nat /\ x < z /\ z < y
  BY <1>3
<1>6. Abs(x - n) = Abs(y - n) /\ Off(f, n, den) = Abs(x - n) /\ Off(h, n, den) = Abs(z - n)
  BY <1>4
<1> HIDE DEF x, y, z
<1>7. Abs(z - n) < Abs(x - n)
  BY <1>5, <1>6 DEF Abs
<1> QED
  BY <1>6, <1>7

\* So there is a closest float: of two that are nearest one is even, as they are neighbours.
LEMMA ClosestExists ==
    ASSUME NEW n \in Nat, NEW den \in Nat \ {0}
    PROVE  \E r \in 0..Infinity : Closest(r, n, den)
<1> DEFINE D(f) == Off(f, n, den)
           Offs == {D(f) : f \in 0..Infinity}
<1>1. \A f \in 0..Infinity : D(f) \in Nat
  BY OffType
<1>2. 0 \in 0..Infinity /\ Infinity \in Nat
  BY Format
<1> HIDE DEF D
<1>3. PICK f \in 0..Infinity : \A g \in 0..Infinity : D(f) <= D(g)
  <2>1. Offs \in SUBSET Nat /\ Offs # {}
    BY <1>1, <1>2
  <2>2. PICK d \in Offs : \A e \in Offs : d <= e
    <3> HIDE DEF Offs
    <3> QED
      BY <2>1, LeastNumber
  <2> QED
    BY <2>2
<1>4. CASE \E g \in 0..Infinity : D(g) = D(f) /\ g % 2 = 0
  <2>1. PICK g \in 0..Infinity : D(g) = D(f) /\ g % 2 = 0
    BY <1>4
  <2>2. Closest(g, n, den)
    BY <1>1, <1>3, <2>1 DEF Closest, D
  <2> QED
    BY <2>2
<1>5. CASE \A g \in 0..Infinity : D(g) = D(f) => g % 2 # 0
  <2>1. ASSUME NEW g \in 0..Infinity, NEW k \in 0..Infinity, D(g) = D(f), D(k) = D(f), g < k
        PROVE  FALSE
    <3>1. g % 2 # 0 /\ k % 2 # 0 /\ g \in Nat /\ k \in Nat
      BY <1>2, <1>5, <2>1
    <3>2. g + 1 \in 0..Infinity /\ g < g + 1 /\ g + 1 < k
      BY <1>2, <2>1, <3>1
    <3>3. D(g + 1) < D(g)
      <4> DEFINE h == g + 1
      <4>1. h \in 0..Infinity /\ g < h /\ h < k
        BY <3>2
      <4> HIDE DEF h
      <4>2. Off(h, n, den) < Off(g, n, den)
        BY <2>1, <4>1, BetweenIsNearer DEF D
      <4> QED
        BY <4>2 DEF h, D
    <3>4. D(f) <= D(g + 1) /\ D(g + 1) \in Nat /\ D(f) \in Nat
      BY <1>1, <1>3, <3>2
    <3> QED
      BY <2>1, <3>3, <3>4
  <2>2. ASSUME NEW g \in 0..Infinity, D(g) = D(f) PROVE f = g
    <3>1. f \in Nat /\ g \in Nat
      BY <1>2
    <3>2. ~(f < g) /\ ~(g < f)
      BY <2>1, <2>2
    <3> QED
      BY <3>1, <3>2
  <2>3. Closest(f, n, den)
    <3> SUFFICES ASSUME NEW g \in 0..Infinity
                 PROVE  D(f) < D(g) \/ (D(f) = D(g) /\ f = g)
      BY DEF Closest, D
    <3> QED
      BY <1>1, <1>3, <2>2
  <2> QED
    BY <2>3
<1> QED
  BY <1>4, <1>5

\* The float that Nearest chooses.
LEMMA NearestIs ==
    ASSUME NEW num \in Int, NEW den \in Nat \ {0}
    PROVE  \E least \in 0..Infinity :
               /\ Closest(least, Abs(num), den)
               /\ Nearest(num, den) = SignBit(num < 0) + least
<1> DEFINE n == Abs(num)
           P(f) == \A g \in 0..Infinity :
                     \/ Abs(Units(f) * den - n) < Abs(Units(g) * den - n)
                     \/ Abs(Units(f) * den - n) = Abs(Units(g) * den - n) /\ (f = g \/ f % 2 = 0)
           least == CHOOSE f \in 0..Infinity : P(f)
<1>1. n \in Nat
  BY DEF Abs
<1>2. \E f \in 0..Infinity : P(f)
  <2> HIDE DEF n
  <2>1. PICK r \in 0..Infinity : Closest(r, n, den)
    BY <1>1, ClosestExists
  <2>2. P(r)
    BY <2>1 DEF Closest, Off
  <2> HIDE DEF P
  <2> QED
    BY <2>2
<1>3. least \in 0..Infinity /\ P(least)
  <2> HIDE DEF P
  <2> QED
    BY <1>2
<1>4. Nearest(num, den) = SignBit(num < 0) + least
  BY DEF Nearest
<1> HIDE DEF least, n
<1>5. Closest(least, n, den)
  BY <1>3 DEF Closest, Off
<1> QED
  BY <1>3, <1>4, <1>5 DEF n

\* What is infinite or less is no NaN.
LEMMA NumberSplit ==
    ASSUME NEW f \in Values \ NaNs
    PROVE  /\ f % Half \in 0..Infinity
           /\ Real(f) = IF Negative(f) THEN -Units(f % Half) ELSE Units(f % Half)
<1>1. f \in Values /\ ~IsNaN(f)
  BY DEF NaNs
<1>2. f % Half \in 0..Half - 1 /\ Units(f) = Units(f % Half)
  BY <1>1, SignSplit
<1>3. ~(f % Half > Infinity)
  BY <1>1 DEF IsNaN
<1>4. f % Half \in 0..Infinity
  BY <1>2, <1>3, Format
<1> QED
  BY <1>2, <1>4 DEF Real

\* It is a float nearest to the number, an even one of two, also among those of the other
\* sign.
LEMMA NearestIsNearest ==
    ASSUME NEW num \in Int, NEW den \in Nat \ {0}
    PROVE  /\ Nearest(num, den) \in Values \ NaNs
           /\ IsNearest(Nearest(num, den), num, den)
<1> DEFINE n == Abs(num)
           r == Nearest(num, den)
<1>1. PICK least \in 0..Infinity : Closest(least, n, den) /\ r = SignBit(num < 0) + least
  BY NearestIs
<1>2. n \in Nat /\ (num >= 0 => n = num) /\ (num < 0 => n = -num)
  BY DEF Abs
<1> HIDE DEF n, r
<1>3. least \in 0..Half - 1 /\ Units(least) \in Nat /\ Off(least, n, den) \in Nat
  BY <1>2, OffType
<1>4. /\ least % Half = least /\ least \in Values /\ Infinity < Half
      /\ Infinity \in Nat /\ Half \in Nat
  BY <1>3, Format
<1>5. /\ r \in Values /\ r % Half = least /\ (Negative(r) <=> num < 0) /\ r % 2 = least % 2
      /\ Units(r) = Units(least)
  <2>1. CASE num < 0
    <3>1. r = least + Half
      BY <1>1, <1>3, <1>4, <2>1 DEF SignBit
    <3> QED
      BY <1>3, <2>1, <3>1, UnitsOfSigned
  <2>2. CASE ~(num < 0)
    <3>1. r = least
      BY <1>1, <1>3, <1>4, <2>2 DEF SignBit
    <3> QED
      BY <1>3, <1>4, <2>2, <3>1, UnitsOfSigned
  <2> QED
    BY <2>1, <2>2
<1>6. r \in Values \ NaNs
  BY <1>4, <1>5 DEF NaNs, IsNaN
<1> DEFINE Distance(f) == Abs(Real(f) * den - num)
<1>7. Distance(r) = Off(least, n, den)
  <2> DEFINE u == Units(least)
  <2>1. Real(r) = IF num < 0 THEN -u ELSE u
    BY <1>5 DEF Real
  <2>2. u * den \in Nat /\ (-u) * den = -(u * den)
    <3> HIDE DEF u
    <3> QED
      BY <1>3 DEF u
  <2> QED
    BY <1>2, <1>3, <2>1, <2>2 DEF Off, Abs
<1>8. ASSUME NEW f \in Values \ NaNs
      PROVE  \/ Distance(r) < Distance(f)
             \/ Real(r) = Real(f)
             \/ (Distance(r) = Distance(f) /\ r % 2 = 0)
  <2> DEFINE g == f % Half
             u == Units(g)
  <2>1. g \in 0..Infinity /\ Real(f) = IF Negative(f) THEN -u ELSE u
    BY NumberSplit
  <2> HIDE DEF g
  <2>2. u \in Nat /\ Off(g, n, den) \in Nat
    BY <1>2, <2>1, OffType
  <2>3. u * den \in Nat /\ (-u) * den = -(u * den)
    <3> HIDE DEF u
    <3> QED
      BY <2>2
  <2>4. CASE Negative(f) <=> num < 0
    <3>1. Distance(f) = Off(g, n, den)
      BY <1>2, <2>1, <2>2, <2>3, <2>4 DEF Off, Abs
    <3>2. g = least => Real(f) = Real(r)
      BY <1>5, <2>1, <2>4 DEF Real
    <3> HIDE DEF Distance
    <3> QED
      BY <1>1, <1>5, <1>7, <2>1, <3>1, <3>2 DEF Closest
  <2>5. CASE ~(Negative(f) <=> num < 0)
    <3>1. Distance(f) >= n /\ Distance(f) \in Nat
      BY <1>2, <2>1, <2>2, <2>3, <2>5 DEF Abs
    <3>2. 0 \in 0..Infinity /\ 0 \in 0..Half - 1
      BY <1>4, Format
    <3>3. Units(0) = 0
      <4>1. 0 \div Mantissas = 0
        BY Format
      <4> QED
        BY <3>2, <4>1, UnitsIs
    <3>4. Off(0, n, den) = n
      BY <1>2, <3>3 DEF Off, Abs
    <3>5. Off(least, n, den) < n \/ (Off(least, n, den) = n /\ least % 2 = 0)
      BY <1>1, <3>2, <3>4 DEF Closest
    <3> HIDE DEF Distance
    <3> QED
      BY <1>2, <1>3, <1>5, <1>7, <3>1, <3>5
  <2> QED
    BY <2>4, <2>5
<1> QED
  BY <1>6, <1>8 DEF IsNearest, r

\* Zero has two signs, and is the nearest to 0.
LEMMA ZeroIs ==
    ASSUME NEW negative \in BOOLEAN
    PROVE  LET z == SignBit(negative)
           IN  /\ z \in Values /\ ~IsNaN(z) /\ ~IsInfinite(z) /\ Real(z) = 0
               /\ IsNearest(z, 0, One)
<1> DEFINE z == SignBit(negative)
<1>1. Half \in Nat \ {0} /\ Values = 0..2 * Half - 1 /\ Half % 2 = 0 /\ Infinity \in Nat \ {0}
      /\ One \in Nat \ {0} /\ 0 \in 0..Half - 1 /\ 0 \div Mantissas = 0
  BY Format
<1>2. Units(0) = 0
  BY <1>1, UnitsIs
<1>3. z = 0 \/ z = 0 + Half
  BY <1>1 DEF SignBit
<1>4. z \in Values /\ z % Half = 0 /\ Units(z) = 0 /\ z % 2 = 0
  <2>1. Units(0 + Half) = 0 /\ 0 + Half \in Values /\ (0 + Half) % Half = 0 /\ (0 + Half) % 2 = 0
    BY <1>1, <1>2, UnitsOfSigned
  <2>2. 0 \in Values /\ 0 % Half = 0 /\ 0 % 2 = 0
    BY <1>1
  <2> HIDE DEF z
  <2> QED
    BY <1>2, <1>3, <2>1, <2>2
<1> HIDE DEF z
<1>5. ~IsNaN(z) /\ ~IsInfinite(z)
  BY <1>1, <1>4 DEF IsNaN, IsInfinite
<1>6. Real(z) = 0
  <2>1. Real(z) \in Int /\ (Real(z) = -Units(z) \/ Real(z) = Units(z))
    BY <1>4, RealType DEF Real
  <2>2. Real(z) <= 0 /\ Real(z) >= 0
    BY <1>4, <2>1
  <2> QED
    BY <2>1, <2>2
<1>7. IsNearest(z, 0, One)
  <2> SUFFICES ASSUME NEW f \in Values \ NaNs
               PROVE  \/ Abs(Real(z) * One - 0) < Abs(Real(f) * One - 0)
                      \/ (Abs(Real(z) * One - 0) = Abs(Real(f) * One - 0) /\ z % 2 = 0)
    BY DEF IsNearest
  <2>1. Real(f) * One \in Int
    <3>1. Real(f) \in Int
      BY RealType
    <3> DEFINE v == Real(f)
    <3> HIDE DEF v
    <3>2. v * One \in Int
      BY <1>1, <3>1 DEF v
    <3> QED
      BY <3>2 DEF v
  <2>2. Real(z) * One - 0 = 0
    BY <1>1, <1>6
  <2> QED
    BY <1>4, <2>1, <2>2 DEF Abs
<1> QED
  BY <1>4, <1>5, <1>6, <1>7 DEF z

\* The float 1.0.
LEMMA OneIs ==
    /\ FloatOne \in Values /\ ~IsNaN(FloatOne) /\ ~IsInfinite(FloatOne)
    /\ ~Negative(FloatOne) /\ Real(FloatOne) = One
<1>1. FloatOne \in Nat /\ FloatOne < Infinity /\ Infinity \in Nat /\ Infinity < Half
      /\ Half \in Nat \ {0} /\ Values = 0..2 * Half - 1 /\ Mantissas \in Nat \ {0}
  BY Format
<1>2. Bias \in Nat \ {0}
  BY AluAssumption
<1>3. FloatOne \in 0..Half - 1 /\ FloatOne \in Values /\ FloatOne % Half = FloatOne
      /\ ~Negative(FloatOne)
  BY <1>1 DEF Negative
<1>4. FloatOne \div Mantissas = Bias /\ FloatOne % Mantissas = 0
  <2>1. FloatOne = Bias * Mantissas + 0 /\ 0 \in 0..Mantissas - 1
    BY <1>1, <1>2 DEF FloatOne
  <2>2. (Bias * Mantissas + 0) \div Mantissas = Bias /\ (Bias * Mantissas + 0) % Mantissas = 0
    BY <1>1, <1>2, <2>1, DivUnique
  <2> QED
    BY <2>1, <2>2
<1>5. Units(FloatOne) = (Mantissas + 0) * TwoTo[Bias - 1]
  BY <1>2, <1>3, <1>4, UnitsIs
<1>6. Mantissas + 0 = Mantissas
  BY <1>1
<1>7. Real(FloatOne) = One
  BY <1>3, <1>5, <1>6 DEF Real, One
<1> QED
  BY <1>1, <1>3, <1>7 DEF IsNaN, IsInfinite

\* The negative of a float.
LEMMA NegatedIs ==
    ASSUME NEW f \in Values
    PROVE  /\ Negated(f) \in Values /\ Real(Negated(f)) = -Real(f)
           /\ IsNaN(Negated(f)) = IsNaN(f) /\ IsInfinite(Negated(f)) = IsInfinite(f)
           /\ Negated(f) % Half = f % Half /\ Negative(Negated(f)) = ~Negative(f)
<1> DEFINE g == f % Half
           u == Units(g)
<1>1. g \in 0..Half - 1 /\ f = g + SignBit(Negative(f)) /\ Units(f) = u
  BY SignSplit
<1>2. Half \in Nat \ {0} /\ Immediates = 2 * Half /\ Values = 0..2 * Half - 1
  BY Format
<1>3. u \in Nat
  BY <1>1, UnitsIs
<1>4. g + Half \in Values /\ (g + Half) % Half = g /\ Units(g + Half) = u /\ Negative(g + Half)
      /\ ~Negative(g)
  BY <1>1, UnitsOfSigned
<1> HIDE DEF g, u
<1>5. g \in Values /\ g % Half = g
  BY <1>1, <1>2
<1>6. CASE Negative(f)
  <2>1. f = g + Half
    BY <1>1, <1>6 DEF SignBit
  <2>2. f + Half = g + 2 * Half
    BY <1>1, <1>2, <2>1
  <2>3. (g + 2 * Half) % (2 * Half) = g
    <3>1. (1 * (2 * Half) + g) % (2 * Half) = g
      <4>1. 2 * Half \in Nat \ {0} /\ g \in 0..2 * Half - 1 /\ 1 \in Nat
        BY <1>1, <1>2
      <4> QED
        BY <4>1, DivUnique
    <3>2. 1 * (2 * Half) + g = g + 2 * Half
      BY <1>1, <1>2
    <3> QED
      BY <3>1, <3>2
  <2>4. Negated(f) = g
    BY <1>2, <2>2, <2>3 DEF Negated
  <2>5. Real(g) = u /\ Real(f) = -u
    BY <1>1, <1>4, <1>6 DEF Real, u
  <2>6. f % Half = g
    BY <1>4, <2>1
  <2>7. Negative(Negated(f)) = ~Negative(f)
    BY <1>4, <1>6, <2>4 DEF Negative
  <2> QED
    BY <1>3, <1>5, <2>4, <2>5, <2>6, <2>7 DEF IsNaN, IsInfinite
<1>7. CASE ~Negative(f)
  <2>1. f = g
    BY <1>1, <1>2, <1>7 DEF SignBit
  <2>2. Negated(f) = g + Half
    <3>1. g + Half \in Nat /\ g + Half < 2 * Half
      BY <1>1, <1>2
    <3> QED
      BY <1>2, <2>1, <3>1 DEF Negated
  <2>3. Real(g + Half) = -u /\ Real(f) = u
    BY <1>1, <1>4, <1>7 DEF Real
  <2>4. Negative(Negated(f)) = ~Negative(f)
    BY <1>4, <1>7, <2>2 DEF Negative
  <2> QED
    BY <1>3, <1>4, <1>5, <2>1, <2>2, <2>3, <2>4 DEF IsNaN, IsInfinite
<1> QED
  BY <1>6, <1>7

Finite(f) == ~IsNaN(f) /\ ~IsInfinite(f)

\* The infinities: one of each sign, and none counts as zero.
LEMMA InfinityIs ==
    /\ 0 + Infinity \in Values /\ IsInfinite(0 + Infinity) /\ ~Negative(0 + Infinity)
    /\ Half + Infinity \in Values /\ IsInfinite(Half + Infinity) /\ Negative(Half + Infinity)
    /\ \A f, g \in Values :
           IsInfinite(f) /\ IsInfinite(g) /\ (Negative(f) <=> Negative(g)) => f = g
    /\ \A f \in Values : IsInfinite(f) => Real(f) # 0
<1>1. Half \in Nat \ {0} /\ Infinity \in Nat \ {0} /\ Infinity \in 0..Half - 1
      /\ 0 \in 0..Half - 1 /\ Infinity % Half = Infinity /\ Infinity \in Values
  BY Format
<1>2. Infinity + Half \in Values /\ (Infinity + Half) % Half = Infinity
      /\ Negative(Infinity + Half) /\ ~Negative(Infinity)
  BY <1>1, UnitsOfSigned
<1>3. Infinity + Half = Half + Infinity /\ 0 + Infinity = Infinity
  BY <1>1
<1>4. Units(0) < Units(Infinity) /\ Units(0) \in Nat /\ Units(Infinity) \in Nat
  BY <1>1, UnitsOrder, UnitsIs
<1>5. ASSUME NEW f \in Values, IsInfinite(f) PROVE Real(f) # 0
  <2>1. Units(f) = Units(Infinity)
    BY <1>5, SignSplit DEF IsInfinite
  <2> QED
    BY <1>4, <2>1 DEF Real
<1>6. ASSUME NEW f \in Values, NEW g \in Values, IsInfinite(f), IsInfinite(g),
             Negative(f) <=> Negative(g)
      PROVE  f = g
  <2>1. f = Infinity + SignBit(Negative(f)) /\ g = Infinity + SignBit(Negative(g))
    BY <1>6, SignSplit DEF IsInfinite
  <2> QED
    BY <1>6, <2>1 DEF SignBit
<1>7. IsInfinite(Infinity) /\ IsInfinite(Infinity + Half)
  BY <1>1, <1>2 DEF IsInfinite
<1> QED
  BY <1>1, <1>2, <1>3, <1>5, <1>6, <1>7

\* The infinite terms of a * b + c, and whether a * b is infinity times zero.
SumTerms(a, b, c) ==
    {f \in Values : IsInfinite(f) /\
        \/ (IsInfinite(a) \/ IsInfinite(b)) /\ Negative(f) = (Negative(a) # Negative(b))
        \/ f = c}
Void(a, b) == 0 \in {Real(a), Real(b)} /\ (IsInfinite(a) \/ IsInfinite(b))

\* The result of a sum with some infinite terms.
IsSum(r, terms, void) ==
    terms # {} => IF void \/ (\E f, g \in terms : f # g) THEN IsNaN(r) ELSE r \in terms

\* The fused operation rounds once, passes NaN on, and gives the infinity of infinite terms.
LEMMA FmaIs ==
    ASSUME NEW a \in Values, NEW b \in Values, NEW c \in Values, NEW r \in Fma(a, b, c)
    PROVE  /\ r \in Values
           /\ IsNaN(a) \/ IsNaN(b) \/ IsNaN(c) => IsNaN(r)
           /\ Finite(a) /\ Finite(b) /\ Finite(c)
                  => IsNearest(r, Real(a) * Real(b) + Real(c) * One, One)
           /\ ~IsNaN(a) /\ ~IsNaN(b) /\ ~IsNaN(c) =>
                  IsSum(r, SumTerms(a, b, c), Void(a, b))
<1> DEFINE exact == Real(a) * Real(b) + Real(c) * One
           zero == (Negative(a) # Negative(b)) /\ Negative(c)
<1>1. exact \in Int /\ One \in Nat \ {0}
  <2>1. Real(a) \in Int /\ Real(b) \in Int /\ Real(c) \in Int /\ One \in Nat \ {0}
    BY RealType, Format
  <2> DEFINE x == Real(a)
             y == Real(b)
             z == Real(c)
  <2> HIDE DEF x, y, z
  <2>2. x * y + z * One \in Int
    BY <2>1 DEF x, y, z
  <2> QED
    BY <2>1, <2>2 DEF x, y, z
<1>2. r \in NaNs \/ r = SignBit(Negative(a) # Negative(b)) + Infinity \/ r = c
      \/ r = SignBit(zero) \/ r = Nearest(exact, One)
  BY DEF Fma, RoundedOnce
<1>3. Finite(a) /\ Finite(b) /\ Finite(c)
          => r = IF exact = 0 THEN SignBit(zero) ELSE Nearest(exact, One)
  BY DEF Fma, RoundedOnce, Finite
<1> HIDE DEF exact
<1>4. Nearest(exact, One) \in Values /\ IsNearest(Nearest(exact, One), exact, One)
  BY <1>1, NearestIsNearest
<1>5. zero \in BOOLEAN
  OBVIOUS
<1> HIDE DEF zero
<1>6. SignBit(zero) \in Values /\ IsNearest(SignBit(zero), 0, One)
  BY <1>5, ZeroIs
<1>7. r \in Values
  <2>1. \A n : SignBit(n) + Infinity \in Values
    BY Format DEF SignBit
  <2> QED
    BY <1>2, <1>4, <1>6, <2>1 DEF NaNs
<1>8. ASSUME IsNaN(a) \/ IsNaN(b) \/ IsNaN(c) PROVE IsNaN(r)
  <2>1. Fma(a, b, c) = NaNs
    BY <1>8 DEF Fma
  <2> QED
    BY <2>1 DEF NaNs
<1>9. ASSUME Finite(a), Finite(b), Finite(c) PROVE IsNearest(r, exact, One)
  BY <1>9, <1>3, <1>4, <1>6
<1>10. ASSUME ~IsNaN(a), ~IsNaN(b), ~IsNaN(c) PROVE IsSum(r, SumTerms(a, b, c), Void(a, b))
  <2> DEFINE negative == Negative(a) # Negative(b)
             infinite == IsInfinite(a) \/ IsInfinite(b)
  <2>1. \A f \in {a, b} : Units(f) = 0 <=> Real(f) = 0
    BY RealType DEF Real
  <2>2. PICK p \in Values : p = SignBit(negative) + Infinity /\ IsInfinite(p)
                            /\ (Negative(p) <=> negative)
    <3>1. CASE negative
      BY <3>1, InfinityIs DEF SignBit
    <3>2. CASE ~negative
      BY <3>2, InfinityIs DEF SignBit
    <3> QED
      BY <3>1, <3>2
  <2>3. infinite => p \in SumTerms(a, b, c)
    BY <2>2 DEF SumTerms, Negative
  <2>4. ASSUME NEW f \in SumTerms(a, b, c) PROVE f = c \/ (infinite /\ f = p)
    BY <2>2, <2>4, InfinityIs DEF SumTerms
  <2>5. IsInfinite(c) => c \in SumTerms(a, b, c)
    BY DEF SumTerms
  <2>6. CASE infinite /\ (Void(a, b) \/ (IsInfinite(c) /\ Negative(c) # negative))
    <3>1. Fma(a, b, c) = NaNs
      BY <2>1, <2>6 DEF Fma, Void
    <3>2. IsNaN(r)
      BY <3>1 DEF NaNs
    <3>3. ~Void(a, b) => p # c
      <4>1. ~Void(a, b) => ~(Negative(c) <=> negative)
        BY <2>6 DEF Negative
      <4>2. ~Void(a, b) => ~(Negative(c) <=> Negative(p))
        BY <2>2, <4>1
      <4> QED
        BY <4>2
    <3>4. ~Void(a, b) => \E f, g \in SumTerms(a, b, c) : f # g
      BY <2>3, <2>5, <2>6, <3>3
    <3> QED
      BY <3>2, <3>4 DEF IsSum
  <2>7. CASE infinite /\ ~(Void(a, b) \/ (IsInfinite(c) /\ Negative(c) # negative))
    <3>1. Fma(a, b, c) = {SignBit(negative) + Infinity}
      BY <1>10, <2>1, <2>7 DEF Fma, Void
    <3>2. r = p
      BY <2>2, <3>1
    <3>3. IsInfinite(c) => c = p
      <4>1. IsInfinite(c) => (Negative(c) <=> negative)
        BY <2>7 DEF Negative
      <4>2. IsInfinite(c) => (Negative(c) <=> Negative(p))
        BY <2>2, <4>1
      <4> QED
        BY <2>2, <4>2, InfinityIs
    <3>4. \A f \in SumTerms(a, b, c) : f = p
      BY <2>4, <3>3 DEF SumTerms
    <3> QED
      BY <2>3, <2>7, <3>2, <3>4 DEF IsSum
  <2>8. CASE ~infinite /\ IsInfinite(c)
    <3>1. Fma(a, b, c) = {c}
      BY <1>10, <2>8 DEF Fma
    <3> QED
      BY <2>4, <2>5, <2>8, <3>1 DEF IsSum, Void
  <2>9. CASE ~infinite /\ ~IsInfinite(c)
    BY <2>9 DEF IsSum, SumTerms
  <2> QED
    BY <2>6, <2>7, <2>8, <2>9
<1> QED
  BY <1>8, <1>9, <1>10, <1>7 DEF exact

\* A number and its multiple of the unit are nearest to the same float.
LEMMA NearestScaled ==
    ASSUME NEW r \in Values, NEW x \in Int, IsNearest(r, x * One, One)
    PROVE  IsNearest(r, x, 1)
<1>1. One \in Nat \ {0}
  BY Format
<1>2. ASSUME NEW u \in Int
      PROVE  Abs(u * One - x * One) = Abs(u * 1 - x) * One /\ Abs(u * 1 - x) \in Nat
  <2> DEFINE d == u - x
  <2>1. d \in Int /\ u * One - x * One = d * One /\ u * 1 - x = d
    BY <1>1
  <2> HIDE DEF d
  <2>2. Abs(d * One) = Abs(d) * One /\ Abs(d) \in Nat
    <3>1. CASE d < 0
      <4>1. d * One < 0 /\ -(d * One) = (-d) * One
        BY <1>1, <2>1, <3>1
      <4> QED
        BY <2>1, <3>1, <4>1 DEF Abs
    <3>2. CASE d >= 0
      <4>1. ~(d * One < 0) /\ ~(d < 0) /\ d \in Nat
        BY <1>1, <2>1, <3>2
      <4> QED
        BY <2>1, <3>2, <4>1 DEF Abs
    <3> QED
      BY <2>1, <3>1, <3>2
  <2> QED
    BY <2>1, <2>2
<1>3. ASSUME NEW d \in Nat, NEW e \in Nat
      PROVE  (d * One < e * One => d < e) /\ (d * One = e * One => d = e)
  BY <1>1
<1>4. ASSUME NEW f \in Values \ NaNs
      PROVE  \/ Abs(Real(r) * 1 - x) < Abs(Real(f) * 1 - x)
             \/ Real(r) = Real(f)
             \/ (Abs(Real(r) * 1 - x) = Abs(Real(f) * 1 - x) /\ r % 2 = 0)
  <2> DEFINE u == Real(r)
             v == Real(f)
  <2>1. u \in Int /\ v \in Int
    BY RealType
  <2>2. \/ Abs(u * One - x * One) < Abs(v * One - x * One)
        \/ u = v
        \/ (Abs(u * One - x * One) = Abs(v * One - x * One) /\ r % 2 = 0)
    BY DEF IsNearest
  <2> HIDE DEF u, v
  <2>3. /\ Abs(u * One - x * One) = Abs(u * 1 - x) * One /\ Abs(u * 1 - x) \in Nat
        /\ Abs(v * One - x * One) = Abs(v * 1 - x) * One /\ Abs(v * 1 - x) \in Nat
    BY <1>2, <2>1
  <2> DEFINE d == Abs(u * 1 - x)
             e == Abs(v * 1 - x)
  <2>4. d \in Nat /\ e \in Nat /\ (d * One < e * One \/ u = v \/ (d * One = e * One /\ r % 2 = 0))
    BY <2>2, <2>3
  <2> HIDE DEF d, e
  <2>5. d < e \/ u = v \/ (d = e /\ r % 2 = 0)
    BY <1>3, <2>4
  <2> QED
    BY <2>5 DEF d, e, u, v
<1> QED
  BY <1>4 DEF IsNearest

-----------------------------------------------------------------------------
(* Conversion to integers, and fmin                                        *)

\* An integer in the signed range is what its bits stand for.
LEMMA SignedWrapped ==
    ASSUME NEW q \in -Half..Half - 1
    PROVE  Wrapped(q) \in Values /\ Signed(Wrapped(q)) = q
<1>1. Half \in Nat \ {0} /\ Immediates = 2 * Half /\ Values = 0..2 * Half - 1
  BY Widths
<1>2. CASE q >= 0
  <2>1. q \in Nat /\ q < Half
    BY <1>1, <1>2
  <2>2. q % (2 * Half) = q
    BY <1>1, <2>1
  <2>3. Wrapped(q) = q
    BY <1>1, <2>2 DEF Wrapped
  <2> QED
    BY <1>1, <2>1, <2>3 DEF Signed
<1>3. CASE q < 0
  <2> DEFINE w == q + 2 * Half
  <2>1. w \in Nat /\ w >= Half /\ w < 2 * Half /\ w - 2 * Half = q
    BY <1>1, <1>3
  <2>2. q % (2 * Half) = w
    <3>1. w - q = 1 * (2 * Half) /\ w \in 0..2 * Half - 1 /\ 2 * Half \in Nat \ {0}
      BY <1>1, <2>1
    <3> DEFINE d == 2 * Half
               k == q \div d
               r == q % d
    <3>2. k \in Int /\ q = k * d + r /\ r \in 0..d - 1
      <4>1. q \in Int /\ d \in Nat \ {0}
        BY <1>1
      <4> HIDE DEF d
      <4> QED
        BY <4>1, IntDivMod
    <3> HIDE DEF d, k, r, w
    <3>3. w - q = d /\ w \in 0..d - 1 /\ d \in Nat \ {0} /\ w \in Int
      BY <3>1 DEF d
    <3>4. w - r = (k + 1) * d
      BY <3>2, <3>3
    <3>5. k + 1 = 0
      <4>1. ASSUME k + 1 >= 1 PROVE FALSE
        <5>1. (k + 1) * d >= d
          BY <3>2, <3>3, <4>1
        <5> QED
          BY <3>2, <3>3, <3>4, <5>1
      <4>2. ASSUME k + 1 <= -1 PROVE FALSE
        <5>1. (k + 1) * d <= -d
          BY <3>2, <3>3, <4>2
        <5> QED
          BY <3>2, <3>3, <3>4, <5>1
      <4> QED
        BY <3>2, <4>1, <4>2
    <3>6. w = r
      BY <3>2, <3>3, <3>4, <3>5
    <3> QED
      BY <3>6 DEF r, d
  <2> HIDE DEF w
  <2>3. Wrapped(q) = w
    BY <1>1, <2>2 DEF Wrapped
  <2> QED
    BY <1>1, <2>1, <2>3 DEF Signed
<1> QED
  BY <1>1, <1>2, <1>3

\* The integers on the way from 0 to value, in the signed range.
Way(value) ==
    {z \in -Half..Half - 1 : (z >= 0 /\ z * One <= value) \/ (z <= 0 /\ z * One >= value)} \cup {0}

\* The conversion delivers the last of them.
LEMMA Conversion ==
    ASSUME NEW f \in Values
    PROVE  LET z == Signed(F32ToS32(f))
               value == IF IsNaN(f) THEN 0 ELSE Real(f)
           IN  z \in Way(value) /\ \A y \in Way(value) : Abs(y) <= Abs(z)
<1> DEFINE v == Real(f)
           H == Half
           U == One
<1>1. v \in Int /\ H \in Nat \ {0} /\ U \in Nat \ {0} /\ Values = 0..2 * H - 1 /\ Immediates = 2 * H
  BY RealType, Format
<1>2. \A y \in Int : y * U \in Int
  BY <1>1
<1>3. CASE IsNaN(f)
  <2>1. F32ToS32(f) = 0
    BY <1>3 DEF F32ToS32
  <2>2. Signed(0) = 0
    BY <1>1 DEF Signed
  <2>3. ASSUME NEW y \in Way(0) PROVE y = 0
    <3>1. y \in Int /\ (y = 0 \/ (y >= 0 /\ y * U <= 0) \/ (y <= 0 /\ y * U >= 0))
      BY <1>1 DEF Way
    <3> HIDE DEF U
    <3> QED
      BY <1>1, <3>1
  <2>4. 0 \in Way(0)
    BY DEF Way
  <2>5. Abs(0) <= Abs(0)
    BY DEF Abs
  <2> QED
    BY <1>3, <2>1, <2>2, <2>3, <2>4, <2>5
<1>4. CASE ~IsNaN(f) /\ v >= H * U
  <2>1. F32ToS32(f) = H - 1
    BY <1>4 DEF F32ToS32
  <2>2. Signed(H - 1) = H - 1
    BY <1>1 DEF Signed
  <2> HIDE DEF H, U, v
  <2>3. (H - 1) * U <= v /\ H * U >= U /\ H * U \in Int /\ (H - 1) * U \in Int
    <3>1. (H - 1) * U = H * U - U /\ H * U \in Int /\ H * U >= U
      BY <1>1
    <3> QED
      BY <1>1, <1>4, <3>1
  <2>4. H - 1 \in Way(v)
    <3>1. H - 1 \in -H..H - 1 /\ H - 1 >= 0
      BY <1>1
    <3> QED
      BY <2>3, <3>1 DEF Way, H, U
  <2>5. ASSUME NEW y \in Way(v) PROVE Abs(y) <= Abs(H - 1)
    <3>1. y = 0 \/ (y \in -H..H - 1 /\ ((y >= 0 /\ y * U <= v) \/ (y <= 0 /\ y * U >= v)))
      BY DEF Way, H, U
    <3>2. ~(y \in -H..H - 1 /\ y < 0 /\ y * U >= v)
      <4> SUFFICES ASSUME y \in -H..H - 1, y < 0, y * U >= v PROVE FALSE
        OBVIOUS
      <4>1. y \in Int /\ y * U < 0
        BY <1>1
      <4> QED
        BY <1>1, <1>2, <1>4, <2>3, <4>1
    <3>3. y \in 0..H - 1
      BY <1>1, <3>1, <3>2
    <3> QED
      BY <1>1, <3>3 DEF Abs
  <2> QED
    BY <1>4, <2>1, <2>2, <2>4, <2>5 DEF v
<1>5. CASE ~IsNaN(f) /\ ~(v >= H * U) /\ v <= -(H * U)
  <2>1. F32ToS32(f) = H
    BY <1>5 DEF F32ToS32
  <2>2. Signed(H) = -H
    BY <1>1 DEF Signed
  <2> HIDE DEF H, U, v
  <2>3. (-H) * U >= v /\ H * U >= U /\ H * U \in Int /\ (-H) * U \in Int
    <3>1. (-H) * U = -(H * U) /\ H * U \in Int /\ H * U >= U
      BY <1>1
    <3> QED
      BY <1>1, <1>5, <3>1
  <2>4. -H \in Way(v)
    <3>1. -H \in -H..H - 1 /\ -H <= 0
      BY <1>1
    <3> QED
      BY <2>3, <3>1 DEF Way, H, U
  <2>5. ASSUME NEW y \in Way(v) PROVE Abs(y) <= Abs(-H)
    <3>1. y = 0 \/ y \in -H..H - 1
      BY DEF Way, H
    <3> QED
      BY <1>1, <3>1 DEF Abs
  <2> QED
    BY <1>5, <2>1, <2>2, <2>4, <2>5 DEF v
<1>6. CASE ~IsNaN(f) /\ ~(v >= H * U) /\ ~(v <= -(H * U))
  <2> DEFINE q == Quotient(v, U)
             rest == v - q * U
  <2>1. F32ToS32(f) = Wrapped(q)
    BY <1>6 DEF F32ToS32
  <2>2. q \in Int /\ Abs(rest) < Abs(U) /\ (rest # 0 => (rest < 0) = (v < 0))
    <3>1. U \in Int /\ U # 0 /\ v \in Int
      BY <1>1
    <3> HIDE DEF U, v
    <3> QED
      BY <3>1, QuotientIs
  <2> HIDE DEF q, H, U, v
  <2>3. H * U \in Int /\ q * U \in Int /\ v < H * U /\ v > -(H * U) /\ rest \in Int
        /\ v = q * U + rest
    BY <1>1, <1>6, <2>2
  <2>4. (v >= 0 => 0 <= rest /\ rest < U) /\ (v < 0 => rest <= 0 /\ -U < rest)
    <3> HIDE DEF rest
    <3> QED
      BY <1>1, <2>2, <2>3 DEF Abs
  <2> HIDE DEF rest
  <2>5. ASSUME v >= 0 PROVE q \in 0..H - 1 /\ q * U <= v /\ v < (q + 1) * U
    <3>1. (q + 1) * U = q * U + U
      BY <1>1, <2>2
    <3>2. q * U <= v /\ v < (q + 1) * U
      BY <1>1, <2>3, <2>4, <2>5, <3>1
    <3>3. (q + 1) * U > 0 /\ q * U < H * U
      BY <1>1, <2>3, <2>5, <3>1, <3>2
    <3>4. q + 1 > 0 /\ q < H
      BY <1>1, <2>2, <3>3
    <3> QED
      BY <1>1, <2>2, <3>2, <3>4
  <2>6. ASSUME v < 0 PROVE q \in -H..0 /\ q * U >= v /\ v > (q - 1) * U
    <3>1. (q - 1) * U = q * U - U
      BY <1>1, <2>2
    <3>2. q * U >= v /\ v > (q - 1) * U
      BY <1>1, <2>3, <2>4, <2>6, <3>1
    <3>3. (q - 1) * U < 0 /\ q * U > (-H) * U
      <4>1. (-H) * U = -(H * U)
        BY <1>1
      <4> QED
        BY <1>1, <2>3, <2>6, <3>1, <3>2, <4>1
    <3>4. q - 1 < 0 /\ q > -H
      BY <1>1, <2>2, <3>3
    <3> QED
      BY <1>1, <2>2, <3>2, <3>4
  <2>7. q \in -H..H - 1
    BY <1>1, <2>2, <2>5, <2>6
  <2>8. Signed(Wrapped(q)) = q
    BY <2>7, SignedWrapped DEF H
  <2>9. q \in Way(v)
    <3>1. (q >= 0 /\ q * U <= v) \/ (q <= 0 /\ q * U >= v)
      BY <1>1, <2>2, <2>5, <2>6
    <3> QED
      BY <2>7, <3>1 DEF Way, H, U
  <2>10. ASSUME NEW y \in Way(v) PROVE Abs(y) <= Abs(q)
    <3>1. y = 0 \/ (y \in -H..H - 1 /\ ((y >= 0 /\ y * U <= v) \/ (y <= 0 /\ y * U >= v)))
      BY DEF Way, H, U
    <3>2. y \in Int /\ y * U \in Int
      BY <1>1, <3>1
    <3>3. CASE v >= 0
      <4>1. y < 0 => y * U < 0
        BY <1>1, <3>2
      <4>2. y >= 0 /\ (y = 0 \/ y * U <= v)
        BY <1>1, <3>1, <3>2, <3>3, <4>1
      <4>3. y <= q
        <5>1. CASE y = 0
          BY <1>1, <2>5, <3>3, <5>1
        <5>2. CASE y * U <= v
          <6>1. y * U < (q + 1) * U /\ (q + 1) * U \in Int
            BY <1>1, <2>2, <2>3, <2>5, <3>2, <3>3, <5>2
          <6>2. y < q + 1
            BY <1>1, <2>2, <3>2, <6>1
          <6> QED
            BY <2>2, <3>2, <6>2
        <5> QED
          BY <4>2, <5>1, <5>2
      <4> QED
        BY <2>2, <3>2, <4>2, <4>3 DEF Abs
    <3>4. CASE v < 0
      <4>1. y >= 0 => y * U >= 0
        BY <1>1, <3>2
      <4>2. y <= 0 /\ (y = 0 \/ y * U >= v)
        BY <1>1, <3>1, <3>2, <3>4, <4>1
      <4>3. y >= q
        <5>1. CASE y = 0
          BY <1>1, <2>6, <3>4, <5>1
        <5>2. CASE y * U >= v
          <6>1. y * U > (q - 1) * U /\ (q - 1) * U \in Int
            BY <1>1, <2>2, <2>3, <2>6, <3>2, <3>4, <5>2
          <6>2. y > q - 1
            BY <1>1, <2>2, <3>2, <6>1
          <6> QED
            BY <2>2, <3>2, <6>2
        <5> QED
          BY <4>2, <5>1, <5>2
      <4> QED
        BY <2>2, <2>6, <3>2, <3>4, <4>2, <4>3 DEF Abs
    <3> QED
      BY <1>1, <3>3, <3>4
  <2> QED
    BY <1>6, <2>1, <2>8, <2>9, <2>10 DEF v
<1> QED
  BY <1>3, <1>4, <1>5, <1>6

\* fmin and fmax: a lesser one of the numbers among a and b, by their values x and y.
LEMMA LesserIs ==
    ASSUME NEW a, NEW b, NEW x \in Int, NEW y \in Int, NEW r \in Lesser(a, b, x, y)
    PROVE  LET noisy == IsSignaling(a) \/ IsSignaling(b) IN
           /\ IsNaN(a) /\ IsNaN(b) => IsNaN(r)
           /\ IsNaN(a) /\ ~IsNaN(b) => r = b \/ (IsNaN(r) /\ noisy)
           /\ ~IsNaN(a) /\ IsNaN(b) => r = a \/ (IsNaN(r) /\ noisy)
           /\ ~IsNaN(a) /\ ~IsNaN(b) => (r = a /\ x <= y) \/ (r = b /\ y <= x)
<1> DEFINE numbers == {f \in {a, b} : ~IsNaN(f)}
           fromNaN == numbers = {} \/ IsSignaling(a) \/ IsSignaling(b)
<1>1. CASE IsNaN(a) \/ IsNaN(b)
  <2>1. numbers # {a, b}
    BY <1>1
  <2>2. r \in numbers \cup {f \in NaNs : fromNaN}
    BY <2>1 DEF Lesser
  <2> QED
    BY <1>1, <2>2 DEF NaNs
<1>2. CASE ~(IsNaN(a) \/ IsNaN(b))
  <2>1. numbers = {a, b}
    BY <1>2
  <2>2. r \in (IF x = y THEN {a, b} ELSE {IF x < y THEN a ELSE b})
    BY <2>1 DEF Lesser
  <2> QED
    BY <1>2, <2>2
<1> QED
  BY <1>1, <1>2

\* The results of the instructions on floats and of the conversions.
LEMMA FloatEvaluate ==
    ASSUME NEW i, NEW a, NEW b, NEW old, NEW l
    PROVE  /\ i.opcode = 17 => Evaluate(i, a, b, old, l) = FAdd(a, b)
           /\ i.opcode = 18 => Evaluate(i, a, b, old, l) = FSub(a, b)
           /\ i.opcode = 19 => Evaluate(i, a, b, old, l) = FMul(a, b)
           /\ i.opcode = 20 => Evaluate(i, a, b, old, l) = Fma(a, b, old)
           /\ i.opcode = 21 => Evaluate(i, a, b, old, l) = Lesser(a, b, Real(a), Real(b))
           /\ i.opcode = 22 => Evaluate(i, a, b, old, l) = Lesser(a, b, -Real(a), -Real(b))
           /\ i.opcode = 23 => Evaluate(i, a, b, old, l) = {Negated(a)}
           /\ i.opcode = 24 => Evaluate(i, a, b, old, l) = {Nearest(Signed(a) * One, 1)}
           /\ i.opcode = 25 => Evaluate(i, a, b, old, l) = {F32ToS32(a)}
BY DEF Evaluate

\* Sums, differences and products are fused operations with 1.0 or with a zero.
LEMMA FloatOperations ==
    ASSUME NEW a \in Values, NEW b \in Values, NEW r
    PROVE  /\ r \in FAdd(a, b) \/ r \in FSub(a, b) \/ r \in FMul(a, b)
                  => (IsNaN(a) \/ IsNaN(b) => IsNaN(r))
           /\ Finite(a) /\ Finite(b) =>
                /\ r \in FAdd(a, b) => IsNearest(r, Real(a) + Real(b), 1)
                /\ r \in FSub(a, b) => IsNearest(r, Real(a) - Real(b), 1)
                /\ r \in FMul(a, b) => IsNearest(r, Real(a) * Real(b), One)
           /\ ~IsNaN(a) /\ ~IsNaN(b) => \A old :
                /\ r \in FAdd(a, b) => IsSum(r, InfiniteTerms(17, a, b, old), FALSE)
                /\ r \in FSub(a, b) => IsSum(r, InfiniteTerms(18, a, b, old), FALSE)
                /\ r \in FMul(a, b) => IsSum(r, InfiniteTerms(19, a, b, old), Void(a, b))
<1> DEFINE zero == SignBit(Negative(a) # Negative(b))
           x == Real(a)
           y == Real(b)
<1>1. x \in Int /\ y \in Int /\ One \in Nat \ {0}
  BY RealType, Format
<1>2. zero \in Values /\ Finite(zero) /\ Real(zero) = 0
  BY ZeroIs DEF Finite
<1>3. FloatOne \in Values /\ Finite(FloatOne) /\ Real(FloatOne) = One
  BY OneIs DEF Finite
<1>4. /\ Negated(b) \in Values /\ Real(Negated(b)) = -y
      /\ IsNaN(Negated(b)) = IsNaN(b) /\ IsInfinite(Negated(b)) = IsInfinite(b)
  BY NegatedIs
<1>5. FAdd(a, b) = Fma(a, FloatOne, b) /\ FSub(a, b) = Fma(a, FloatOne, Negated(b))
      /\ FMul(a, b) = Fma(a, b, zero)
  BY DEF FAdd, FSub, FMul
<1> HIDE DEF zero, x, y
<1>6. ASSUME IsNaN(a) \/ IsNaN(b),
             r \in FAdd(a, b) \/ r \in FSub(a, b) \/ r \in FMul(a, b)
      PROVE  IsNaN(r)
  BY <1>2, <1>3, <1>4, <1>5, <1>6, FmaIs
<1>7. ASSUME Finite(a), Finite(b), r \in FAdd(a, b) PROVE IsNearest(r, x + y, 1)
  <2>1. IsNearest(r, x * One + y * One, One)
    BY <1>3, <1>5, <1>7, FmaIs DEF x, y
  <2>2. x * One + y * One = (x + y) * One /\ x + y \in Int
    BY <1>1
  <2>3. r \in Values
    BY <1>3, <1>5, <1>7, FmaIs
  <2> QED
    BY <2>1, <2>2, <2>3, NearestScaled
<1>8. ASSUME Finite(a), Finite(b), r \in FSub(a, b) PROVE IsNearest(r, x - y, 1)
  <2>1. Finite(Negated(b))
    BY <1>4, <1>8 DEF Finite
  <2>2. IsNearest(r, x * One + (-y) * One, One)
    BY <1>3, <1>4, <1>5, <1>8, <2>1, FmaIs DEF x, y
  <2>3. x * One + (-y) * One = (x - y) * One /\ x - y \in Int
    BY <1>1
  <2>4. r \in Values
    BY <1>3, <1>4, <1>5, <1>8, FmaIs
  <2> QED
    BY <2>2, <2>3, <2>4, NearestScaled
<1>9. ASSUME Finite(a), Finite(b), r \in FMul(a, b) PROVE IsNearest(r, x * y, One)
  <2>1. IsNearest(r, x * y + 0 * One, One)
    BY <1>2, <1>5, <1>9, FmaIs DEF x, y
  <2>2. x * y + 0 * One = x * y
    BY <1>1
  <2> QED
    BY <2>1, <2>2
<1>10. ASSUME ~IsNaN(a), ~IsNaN(b), NEW old
      PROVE  /\ r \in FAdd(a, b) => IsSum(r, InfiniteTerms(17, a, b, old), FALSE)
             /\ r \in FSub(a, b) => IsSum(r, InfiniteTerms(18, a, b, old), FALSE)
             /\ r \in FMul(a, b) => IsSum(r, InfiniteTerms(19, a, b, old), Void(a, b))
  <2>1. ~IsNaN(FloatOne) /\ ~IsInfinite(FloatOne) /\ ~Negative(FloatOne) /\ Real(FloatOne) # 0
    BY <1>1, OneIs
  <2>2. Negative(Negated(b)) = ~Negative(b)
    BY NegatedIs
  <2>3. ~Void(a, FloatOne)
    <3>1. IsInfinite(a) => Real(a) # 0
      BY InfinityIs
    <3> QED
      BY <2>1, <3>1 DEF Void
  <2>4. /\ SumTerms(a, FloatOne, b) = InfiniteTerms(17, a, b, old)
        /\ SumTerms(a, FloatOne, Negated(b)) = InfiniteTerms(18, a, b, old)
        /\ SumTerms(a, b, zero) = InfiniteTerms(19, a, b, old)
    <3>1. \A f \in Values : IsInfinite(f) =>
              /\ f = a <=> IsInfinite(a) /\ (Negative(f) <=> Negative(a))
              /\ f = Negated(b) <=> IsInfinite(b) /\ ~(Negative(f) <=> Negative(b))
      BY <1>4, <2>2, InfinityIs DEF Negative
    <3>2. \A f \in Values : f \in SumTerms(a, FloatOne, b) <=> f \in InfiniteTerms(17, a, b, old)
      BY <2>1, <3>1 DEF SumTerms, InfiniteTerms, Negative
    <3>3. \A f \in Values : f \in SumTerms(a, FloatOne, Negated(b))
                               <=> f \in InfiniteTerms(18, a, b, old)
      BY <2>1, <3>1 DEF SumTerms, InfiniteTerms, Negative
    <3>4. \A f \in Values : f \in SumTerms(a, b, zero) <=> f \in InfiniteTerms(19, a, b, old)
      BY <1>2 DEF SumTerms, InfiniteTerms, Finite
    <3> QED
      BY <3>2, <3>3, <3>4 DEF SumTerms, InfiniteTerms
  <2>5. ~IsNaN(zero) /\ ~IsNaN(Negated(b))
    BY <1>2, <1>4, <1>10 DEF Finite
  <2>6. r \in FAdd(a, b) => IsSum(r, SumTerms(a, FloatOne, b), Void(a, FloatOne))
    BY <1>3, <1>5, <1>10, <2>1, FmaIs
  <2>7. r \in FSub(a, b) => IsSum(r, SumTerms(a, FloatOne, Negated(b)), Void(a, FloatOne))
    BY <1>3, <1>4, <1>5, <1>10, <2>1, <2>5, FmaIs
  <2>8. r \in FMul(a, b) => IsSum(r, SumTerms(a, b, zero), Void(a, b))
    BY <1>2, <1>5, <1>10, <2>5, FmaIs
  <2> QED
    BY <2>3, <2>4, <2>6, <2>7, <2>8 DEF IsSum
<1> QED
  BY <1>6, <1>7, <1>8, <1>9, <1>10 DEF x, y

\* Float arithmetic delivers the float nearest to the exact result, the infinity of a sum
\* with infinite terms, and NaN for NaN; fmin and fmax the number of a number and a quiet
\* NaN; fneg flips the sign of every float; and the conversion to an integer truncates and
\* saturates.
THEOREM FloatsAreNearest == AluSpec => []FloatResults
<1>1. ASSUME AluInv PROVE FloatResults
  <2> SUFFICES ASSUME executed PROVE FloatResults
    BY DEF FloatResults, ForEachLane
  <2> DEFINE Read(l) == {f \in {A(l), B(l)} : Op # 20} \cup {f \in {A(l), B(l), Old(l)} : Op = 20}
             Terms(l) == InfiniteTerms(Op, A(l), B(l), Old(l))
             Undefined(l) == /\ Op \in {19, 20} /\ 0 \in {Real(A(l)), Real(B(l))}
                             /\ IsInfinite(A(l)) \/ IsInfinite(B(l))
             Best(l) == {f \in {A(l), B(l)} : ~IsNaN(f)}
             Arithmetic(l) ==
                 Op \in 17..20 =>
                     /\ (\E f \in Read(l) : IsNaN(f)) => IsNaN(Result(l))
                     /\ (\A f \in Read(l) : ~IsNaN(f)) /\ Terms(l) # {} =>
                          IF Undefined(l) \/ (\E f, g \in Terms(l) : f # g) THEN IsNaN(Result(l))
                          ELSE Result(l) \in Terms(l)
                     /\ (\A f \in Read(l) : ~IsNaN(f) /\ ~IsInfinite(f)) =>
                          CASE Op = 17 -> IsNearest(Result(l), Real(A(l)) + Real(B(l)), 1)
                            [] Op = 18 -> IsNearest(Result(l), Real(A(l)) - Real(B(l)), 1)
                            [] Op = 19 -> IsNearest(Result(l), Real(A(l)) * Real(B(l)), One)
                            [] Op = 20 ->
                                 IsNearest(Result(l), Real(A(l)) * Real(B(l)) + Real(Old(l)) * One, One)
             Extremes(l) ==
                 Op \in {21, 22} =>
                     IF Best(l) = {} THEN IsNaN(Result(l))
                     ELSE \/ IsNaN(Result(l)) /\ (IsSignaling(A(l)) \/ IsSignaling(B(l)))
                          \/ /\ Result(l) \in Best(l)
                             /\ \A f \in Best(l) : IF Op = 21 THEN Real(Result(l)) <= Real(f)
                                                   ELSE Real(Result(l)) >= Real(f)
             Negation(l) == Op = 23 => /\ Result(l) % Half = A(l) % Half
                                       /\ Negative(Result(l)) = ~Negative(A(l))
             FromInteger(l) == Op = 24 => IsNearest(Result(l), Signed(A(l)) * One, 1)
             ToInteger(l) ==
                 Op = 25 =>
                     LET value == IF IsNaN(A(l)) THEN 0 ELSE Real(A(l))
                         way == {z \in -Half..Half - 1 :
                                    (z >= 0 /\ z * One <= value) \/ (z <= 0 /\ z * One >= value)}
                                \cup {0}
                     IN  /\ Signed(Result(l)) \in way
                         /\ \A z \in way : Abs(z) <= Abs(Signed(Result(l)))
  <2>1. ASSUME NEW l \in exec
        PROVE  Arithmetic(l) /\ Extremes(l) /\ Negation(l) /\ FromInteger(l) /\ ToInteger(l)
    <3> DEFINE i == Unpacked(origin.word)
               a == A(l)
               b == B(l)
               c == Old(l)
               r == Result(l)
    <3>1. a \in Values /\ b \in Values /\ c \in Values /\ i.opcode = Op
      BY <1>1, LaneResult DEF Op
    <3>2. Op \in {23, 24, 25} => r \in Evaluate(i, a, 0, c, l)
      <4>1. Op \in {23, 24, 25} => Op \in Rr
        BY DEF Rr
      <4> QED
        BY <1>1, <4>1, LaneResult
    <3>3. Op \in 17..22 => r \in Evaluate(i, a, b, c, l)
      <4>1. Op \in 17..22 => Op \notin Prr \cup Rr
        BY DEF Rr, Prr
      <4> QED
        BY <1>1, <4>1, LaneResult
    <3> HIDE DEF i, a, b, c, r
    <3>4. /\ Op = 17 => r \in FAdd(a, b)
          /\ Op = 18 => r \in FSub(a, b)
          /\ Op = 19 => r \in FMul(a, b)
          /\ Op = 20 => r \in Fma(a, b, c)
          /\ Op = 21 => r \in Lesser(a, b, Real(a), Real(b))
          /\ Op = 22 => r \in Lesser(a, b, -Real(a), -Real(b))
      BY <3>1, <3>3, FloatEvaluate
    <3>5. /\ Op = 23 => r = Negated(a)
          /\ Op = 24 => r = Nearest(Signed(a) * One, 1)
          /\ Op = 25 => r = F32ToS32(a)
      BY <3>1, <3>2, FloatEvaluate
    <3>6. Real(a) \in Int /\ Real(b) \in Int
      BY <3>1, RealType
    <3>7. FromInteger(l)
      <4>1. Signed(a) * One \in Int
        <5>1. Signed(a) \in -Half..Half - 1 /\ Half \in Nat /\ One \in Nat
          BY <3>1, SignedIs, Format
        <5> DEFINE s == Signed(a)
        <5>2. s \in Int
          BY <5>1
        <5> HIDE DEF s
        <5>3. s * One \in Int
          BY <5>1, <5>2
        <5> QED
          BY <5>3 DEF s
      <4>2. 1 \in Nat \ {0}
        OBVIOUS
      <4> DEFINE num == Signed(a) * One
      <4> HIDE DEF num
      <4>3. IsNearest(Nearest(num, 1), num, 1)
        BY <4>1, <4>2, NearestIsNearest DEF num
      <4> QED
        BY <3>5, <4>3 DEF num, a, r
    <3>8. ToInteger(l)
      <4> DEFINE value == IF IsNaN(a) THEN 0 ELSE Real(a)
      <4>1. Op = 25 => Signed(r) \in Way(value) /\ \A z \in Way(value) : Abs(z) <= Abs(Signed(r))
        BY <3>1, <3>5, Conversion
      <4> QED
        BY <4>1 DEF Way, a, r
    <3>9. Extremes(l)
      <4> SUFFICES ASSUME Op \in {21, 22} PROVE Extremes(l)
        OBVIOUS
      <4> DEFINE x == IF Op = 21 THEN Real(a) ELSE -Real(a)
                 y == IF Op = 21 THEN Real(b) ELSE -Real(b)
      <4>1. x \in Int /\ y \in Int
        BY <3>6
      <4>2. r \in Lesser(a, b, x, y)
        BY <3>4
      <4>3. x <= y <=> IF Op = 21 THEN Real(a) <= Real(b) ELSE Real(a) >= Real(b)
        BY <3>6
      <4>4. y <= x <=> IF Op = 21 THEN Real(b) <= Real(a) ELSE Real(b) >= Real(a)
        BY <3>6
      <4> HIDE DEF x, y
      <4> DEFINE noisy == IsSignaling(a) \/ IsSignaling(b)
      <4>5. /\ IsNaN(a) /\ IsNaN(b) => IsNaN(r)
            /\ IsNaN(a) /\ ~IsNaN(b) => r = b \/ (IsNaN(r) /\ noisy)
            /\ ~IsNaN(a) /\ IsNaN(b) => r = a \/ (IsNaN(r) /\ noisy)
            /\ ~IsNaN(a) /\ ~IsNaN(b) => (r = a /\ x <= y) \/ (r = b /\ y <= x)
        BY <4>1, <4>2, LesserIs
      <4>6. Best(l) = {f \in {a, b} : ~IsNaN(f)}
        BY DEF a, b
      <4> HIDE DEF Best
      <4>7. CASE IsNaN(a) /\ IsNaN(b)
        <5>1. Best(l) = {}
          BY <4>6, <4>7
        <5> QED
          BY <4>5, <4>7, <5>1 DEF r
      <4>8. CASE IsNaN(a) /\ ~IsNaN(b)
        <5>1. Best(l) = {b} /\ (r = b \/ (IsNaN(r) /\ noisy))
          BY <4>5, <4>6, <4>8
        <5> QED
          BY <3>6, <5>1 DEF a, b, r
      <4>9. CASE ~IsNaN(a) /\ IsNaN(b)
        <5>1. Best(l) = {a} /\ (r = a \/ (IsNaN(r) /\ noisy))
          BY <4>5, <4>6, <4>9
        <5> QED
          BY <3>6, <5>1 DEF a, b, r
      <4>10. CASE ~IsNaN(a) /\ ~IsNaN(b)
        <5>1. Best(l) = {a, b} /\ ((r = a /\ x <= y) \/ (r = b /\ y <= x))
          BY <4>5, <4>6, <4>10
        <5>2. \A f \in {a, b} : IF Op = 21 THEN Real(r) <= Real(f) ELSE Real(r) >= Real(f)
          BY <3>6, <4>3, <4>4, <5>1
        <5> QED
          BY <5>1, <5>2 DEF r
      <4> QED
        BY <4>7, <4>8, <4>9, <4>10
    <3>10. Arithmetic(l)
      <4> SUFFICES ASSUME Op \in 17..20 PROVE Arithmetic(l)
        OBVIOUS
      <4>1. Read(l) = IF Op = 20 THEN {a, b, c} ELSE {a, b}
        BY DEF a, b, c
      <4> HIDE DEF Read
      <4>2. Op \in {17, 18, 19, 20}
        OBVIOUS
      <4>3. CASE Op = 20
        <5>1. IsNaN(a) \/ IsNaN(b) \/ IsNaN(c) => IsNaN(r)
          BY <3>1, <3>4, <4>3, FmaIs
        <5>2. Finite(a) /\ Finite(b) /\ Finite(c)
                  => IsNearest(r, Real(a) * Real(b) + Real(c) * One, One)
          BY <3>1, <3>4, <4>3, FmaIs
        <5>3. ~IsNaN(a) /\ ~IsNaN(b) /\ ~IsNaN(c) => IsSum(r, Terms(l), Undefined(l))
          <6>1. Terms(l) = InfiniteTerms(20, a, b, c)
            BY <4>3 DEF a, b, c
          <6>2. SumTerms(a, b, c) = InfiniteTerms(20, a, b, c)
            BY DEF SumTerms, InfiniteTerms
          <6>3. Void(a, b) <=> Undefined(l)
            BY <4>3 DEF Void, a, b
          <6> HIDE DEF Terms, Undefined
          <6> QED
            BY <3>1, <3>4, <4>3, <6>1, <6>2, <6>3, FmaIs DEF IsSum
        <5> HIDE DEF Terms, Undefined
        <5> QED
          BY <4>1, <4>3, <5>1, <5>2, <5>3 DEF Finite, IsSum, a, b, c, r
      <4>4. CASE Op # 20
        <5>1. IsNaN(a) \/ IsNaN(b) => IsNaN(r)
          BY <3>1, <3>4, <4>2, <4>4, FloatOperations
        <5>2. Finite(a) /\ Finite(b) =>
                 /\ Op = 17 => IsNearest(r, Real(a) + Real(b), 1)
                 /\ Op = 18 => IsNearest(r, Real(a) - Real(b), 1)
                 /\ Op = 19 => IsNearest(r, Real(a) * Real(b), One)
          BY <3>1, <3>4, FloatOperations
        <5>3. ~IsNaN(a) /\ ~IsNaN(b) => IsSum(r, Terms(l), Undefined(l))
          <6> SUFFICES ASSUME ~IsNaN(a), ~IsNaN(b) PROVE IsSum(r, Terms(l), Undefined(l))
            OBVIOUS
          <6>1. /\ Op = 17 => IsSum(r, InfiniteTerms(17, a, b, c), FALSE)
                /\ Op = 18 => IsSum(r, InfiniteTerms(18, a, b, c), FALSE)
                /\ Op = 19 => IsSum(r, InfiniteTerms(19, a, b, c), Void(a, b))
            BY <3>1, <3>4, FloatOperations
          <6>2. Terms(l) = InfiniteTerms(Op, a, b, c)
            BY DEF a, b, c
          <6>3. Undefined(l) = IF Op = 19 THEN Void(a, b) ELSE FALSE
            BY <4>4 DEF Void, a, b
          <6> HIDE DEF Terms, Undefined
          <6> QED
            BY <4>2, <4>4, <6>1, <6>2, <6>3
        <5> HIDE DEF Terms, Undefined
        <5> QED
          BY <4>1, <4>2, <4>4, <5>1, <5>2, <5>3 DEF Finite, IsSum, a, b, r
      <4> QED
        BY <4>3, <4>4
    <3>11. Negation(l)
      BY <3>1, <3>5, NegatedIs DEF a, r
    <3> QED
      BY <3>7, <3>8, <3>9, <3>10, <3>11
  <2> QED
    BY <2>1 DEF FloatResults, ForEachLane
<1> QED
  BY InitAluInv, NextAluInv, <1>1, PTL DEF AluSpec
=============================================================================
