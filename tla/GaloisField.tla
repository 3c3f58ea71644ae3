---------------------------- MODULE GaloisField ----------------------------
(***************************************************************************)
(* The arithmetic every codec of the repository is built on: the byte      *)
(* field of galois_8 with the tables build.rs generates for it, and the    *)
(* tower field of galois_16 over it.  A field of 2^FieldBits elements      *)
(* stands for GF(2^8): the tables are generated by the same loops, so the  *)
(* smaller field is what the code would compute with another FIELD_SIZE    *)
(* and another GENERATING_POLYNOMIAL.  Elements are the numbers            *)
(* 0..FieldSize-1, the polynomial-basis bytes of the code.                 *)
(***************************************************************************)
EXTENDS Integers, FiniteSetsExt

CONSTANTS
    FieldBits,    \* 8 in the code: log2 of FIELD_SIZE
    Polynomial,   \* GENERATING_POLYNOMIAL, without its leading term
    ExtLinear,    \* EXT_POLY[1]
    ExtConstant   \* EXT_POLY[2]

FieldSize == 2 ^ FieldBits

Elem == 0 .. FieldSize - 1

(* A nibble in the code: the half of a byte that indexes a half table.     *)
HalfSize == 2 ^ (FieldBits \div 2)

ASSUME FieldAssumption ==
    /\ FieldBits \in Nat \ {0} /\ FieldBits % 2 = 0
    /\ Polynomial \in Elem /\ ExtLinear \in Elem /\ ExtConstant \in Elem

(***************************************************************************)
(* Exclusive or, tabulated: it is the addition and the subtraction of      *)
(* every field here.                                                       *)
(***************************************************************************)
XorRow[a \in Elem] ==
    [b \in Elem |-> IF a = 0 THEN b
                    ELSE (2 * XorRow[a \div 2][b \div 2]) + ((a + b) % 2)]

XorTable == [a \in Elem |-> [b \in Elem |-> XorRow[a][b]]]

Add(a, b) == XorTable[a][b]

AddAll(f, S) == MapThenFoldSet(Add, 0, LAMBDA i : f[i],
                               LAMBDA T : CHOOSE i \in T : TRUE, S)

----------------------------------------------------------------------------
(* The tables of build.rs                                                  *)

Reduced(b) == IF FieldSize <= b THEN XorTable[b - FieldSize][Polynomial] ELSE b

(* The value b holds when gen_log_table's loop reaches log.                *)
PowerOfTwo[log \in 0 .. FieldSize - 2] ==
    IF log = 0 THEN 1 ELSE Reduced(2 * PowerOfTwo[log - 1])

(* What the last of a loop's stores left; 0 where it stored nothing.       *)
LastOrZero(stores) == IF stores = {} THEN 0 ELSE Max(stores)

gen_log_table ==
    [x \in Elem |-> LastOrZero({log \in 0 .. FieldSize - 2 : PowerOfTwo[log] = x})]

gen_exp_table(log) ==
    [i \in 0 .. 2 * FieldSize - 3 |->
        LastOrZero({x \in Elem \ {0} : log[x] \in {i, i - (FieldSize - 1)}})]

multiply(log, exp, a, b) == IF a = 0 \/ b = 0 THEN 0 ELSE exp[log[a] + log[b]]

gen_mul_table(log, exp) == [a \in Elem |-> [b \in Elem |-> multiply(log, exp, a, b)]]

(* The products of the bytes that fit one half, the low or the high one.   *)
gen_mul_table_half(log, exp, unit) ==
    [a \in Elem |-> [n \in 0 .. HalfSize - 1 |-> multiply(log, exp, a, n * unit)]]

LogTable == gen_log_table

ExpTable == gen_exp_table(LogTable)

MulTable == gen_mul_table(LogTable, ExpTable)

MulTableLow == gen_mul_table_half(LogTable, ExpTable, 1)

MulTableHigh == gen_mul_table_half(LogTable, ExpTable, HalfSize)

----------------------------------------------------------------------------
(* galois_8: the field operations                                          *)

Mul(a, b) == MulTable[a][b]

Wrapped(log) == IF log < 0 THEN log + (FieldSize - 1) ELSE log

(* Division by zero yields zero.                                           *)
Div(a, b) ==
    IF a = 0 \/ b = 0 THEN 0 ELSE ExpTable[Wrapped(LogTable[a] - LogTable[b])]

Exp(a, n) ==
    CASE n = 0 -> 1
      [] n # 0 /\ a = 0 -> 0
      [] OTHER -> LET period == FieldSize - 1
                  IN  ExpTable[(LogTable[a] * (n % period)) % period]

(* Field::nth for indices below ORDER, the only ones the constructors use. *)
Nth(n) == n

(***************************************************************************)
(* GFNI multiplies by a bit matrix: the row of output bit o holds bit o of *)
(* the products of the coefficient with every power of two.                *)
(***************************************************************************)
Bit(x, i) == (x \div 2 ^ i) % 2

GfniMatrix(c) ==
    [o \in 0 .. FieldBits - 1 |->
        [i \in 0 .. FieldBits - 1 |-> Bit(MulTable[c][2 ^ i], o)]]

GfniMultiplyMatrices == [c \in Elem |-> GfniMatrix(c)]

(* The affine instruction: every output bit is the parity of a masked row. *)
GfniAffine(matrix, x) ==
    SumSet({2 ^ o : o \in {p \in 0 .. FieldBits - 1 :
        Cardinality({i \in 0 .. FieldBits - 1 :
                        matrix[p][i] = 1 /\ Bit(x, i) = 1}) % 2 = 1}})

(* The shuffle of the table kernels: one look-up per half of the byte.     *)
ShuffleMul(c, x) ==
    Add(MulTableLow[c][x % HalfSize], MulTableHigh[c][x \div HalfSize])

----------------------------------------------------------------------------
(* galois_16: the tower field.  An element is <<ax, ac>> for ax * X + ac.  *)

TowerElem == Elem \X Elem

(* The extension polynomial is irreducible: it has no root.                *)
ASSUME ExtensionAssumption ==
    \A x \in Elem : Add(Mul(x, x), Add(Mul(ExtLinear, x), ExtConstant)) # 0

TowerZero == <<0, 0>>

TowerOne == <<0, 1>>

TowerAdd(a, b) == <<Add(a[1], b[1]), Add(a[2], b[2])>>

reduce_from(x) ==
    IF x[1] = 0 THEN <<x[2], x[3]>>
    ELSE <<Add(x[2], Mul(ExtLinear, x[1])), Add(x[3], Mul(ExtConstant, x[1]))>>

TowerMul(a, b) ==
    reduce_from(<<Mul(a[1], b[1]),
                  Add(Mul(a[2], b[1]), Mul(a[1], b[2])),
                  Mul(a[2], b[2])>>)

(* The inverse by the norm: conjugate over norm, zero for zero.            *)
Conjugate(a) == Add(a[2], Mul(ExtLinear, a[1]))

Norm(a, conjugate) == Add(Mul(a[2], conjugate), Mul(ExtConstant, Mul(a[1], a[1])))

Scaled(a, conjugate, c) == <<Mul(a[1], c), Mul(conjugate, c)>>

inverse(a) ==
    IF a[1] = 0 THEN <<0, Div(1, a[2])>>
    ELSE Scaled(a, Conjugate(a), Div(1, Norm(a, Conjugate(a))))

TowerDiv(a, b) == TowerMul(a, inverse(b))

(* Left-to-right square and multiply, after the reduction by the period.   *)
TowerExp(a, n) ==
    LET m == n % (FieldSize * FieldSize - 1)
        top == Max({i \in 0 .. 2 * FieldBits : 2 ^ i <= m})
        power[i \in 0 .. top] ==
            IF i = 0 THEN a
            ELSE LET square == TowerMul(power[i - 1], power[i - 1])
                 IN  IF Bit(m, top - i) = 1 THEN TowerMul(square, a) ELSE square
    IN  IF n = 0 THEN TowerOne
        ELSE IF a = TowerZero THEN TowerZero
        ELSE IF m = 0 THEN TowerOne
        ELSE power[top]

(* The four byte-field coefficients of a multiplication by <<cx, cc>>.     *)
tower_mul_coefficients(c) ==
    <<Add(c[2], Mul(ExtLinear, c[1])), c[1], Mul(ExtConstant, c[1]), c[2]>>

----------------------------------------------------------------------------
(* What the arithmetic has to be                                           *)

(***************************************************************************)
(* Reference multiplication: the carry-less product reduced by the         *)
(* generating polynomial, one bit of b at a time, with no table.           *)
(***************************************************************************)
Double(a) == IF 2 * a >= FieldSize
             THEN XorTable[2 * a - FieldSize][Polynomial] ELSE 2 * a

ProductTo(a, b) ==
    LET shifted[i \in 0 .. FieldBits - 1] ==
            IF i = 0 THEN a ELSE Double(shifted[i - 1])
    IN  AddAll(shifted, {i \in 0 .. FieldBits - 1 : Bit(b, i) = 1})

Products == [a \in Elem |-> [b \in Elem |-> ProductTo(a, b)]]

(* The tower product from X^2 = ExtLinear * X + ExtConstant, no tables.    *)
TowerProduct(a, b) ==
    LET xx == Products[a[1]][b[1]]
    IN  <<Add(Add(Products[a[1]][b[2]], Products[a[2]][b[1]]),
              Products[ExtLinear][xx]),
          Add(Products[a[2]][b[2]], Products[ExtConstant][xx])>>
=============================================================================
