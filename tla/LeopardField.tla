---------------------------- MODULE LeopardField ----------------------------
(***************************************************************************)
(* The tables of the Leopard codecs (core/leopard_gf8/tables.rs and        *)
(* core/leopard_gf16/tables.rs) and the arithmetic on them.  The two       *)
(* families run the same algorithms over fields of 2^8 and 2^16 elements;  *)
(* here both run over one field of ORDER = 2^BITWIDTH elements, so that    *)
(* every log, skew and transform of the field can be enumerated.           *)
(*                                                                         *)
(* An element is its label: the coordinates of a field element in the      *)
(* Cantor basis.  Adding labels is exclusive or; multiplying goes through  *)
(* the logarithm of the element the label stands for.  MODULUS is the log  *)
(* of zero, and, because logs count modulo MODULUS, also a second log of   *)
(* one: a butterfly reads it as "no multiplication", a scaling as "copy".  *)
(***************************************************************************)
EXTENDS Integers, Sequences, FiniteSetsExt

CONSTANTS
    BITWIDTH,     \* BITWIDTH8 = 8, BITWIDTH16 = 16
    POLYNOMIAL,   \* POLYNOMIAL8 = 0x11D, POLYNOMIAL16 = 0x1002D
    cantor_basis  \* the BITWIDTH basis elements, cantor_basis[1] = 1

ORDER == 2 ^ BITWIDTH

MODULUS == ORDER - 1

Elem == 0 .. ORDER - 1

(* Exclusive or, tabulated.                                                *)
XorRow[a \in Elem] ==
    [b \in Elem |-> IF a = 0 THEN b
                    ELSE (2 * XorRow[a \div 2][b \div 2]) + ((a + b) % 2)]

XorTable == [a \in Elem |-> [b \in Elem |-> XorRow[a][b]]]

Add(a, b) == XorTable[a][b]

AddAll(f, S) == MapThenFoldSet(Add, 0, LAMBDA i : f[i],
                               LAMBDA T : CHOOSE i \in T : TRUE, S)

Bit(x, i) == (x \div 2 ^ i) % 2 = 1

----------------------------------------------------------------------------
(* A reference for the field: polynomials over GF(2) modulo POLYNOMIAL.    *)

Doubled(x) == IF 2 * x < ORDER THEN 2 * x ELSE Add(2 * x - ORDER, POLYNOMIAL - ORDER)

Shifted(x) == LET s[i \in 0 .. BITWIDTH - 1] ==
                      IF i = 0 THEN x ELSE Doubled(s[i - 1])
              IN  s

PolynomialProduct ==
    [x \in Elem |-> LET s == Shifted(x) IN
        [y \in Elem |-> AddAll(s, {i \in 0 .. BITWIDTH - 1 : Bit(y, i)})]]

(* The basis of both families is Cantor's: each element is the image of    *)
(* the next under x -> x^2 + x, the property the skews rest on.            *)
ASSUME CantorAssumption ==
    /\ BITWIDTH \in Nat \ {0} /\ BITWIDTH % 4 = 0
    /\ POLYNOMIAL \in ORDER .. 2 * ORDER - 1
    /\ cantor_basis \in [1 .. BITWIDTH -> Elem]
    /\ cantor_basis[1] = 1
    /\ \A i \in 1 .. BITWIDTH - 1 :
          LET b == cantor_basis[i + 1]
          IN  Add(PolynomialProduct[b][b], b) = cantor_basis[i]

----------------------------------------------------------------------------
(* init_luts8, init_luts16                                                 *)

(* The shift register's state after i doublings of 1.                      *)
Register[i \in 0 .. MODULUS - 1] == IF i = 0 THEN 1 ELSE Doubled(Register[i - 1])

RegisterLog ==
    [x \in Elem |-> IF x = 0 THEN MODULUS
                    ELSE Max({i \in 0 .. MODULUS - 1 : Register[i] = x})]

(* The field element a label stands for.                                   *)
CantorCode ==
    [x \in Elem |->
        AddAll([i \in 0 .. BITWIDTH - 1 |-> cantor_basis[i + 1]],
               {i \in 0 .. BITWIDTH - 1 : Bit(x, i)})]

log_lut == [x \in Elem |-> RegisterLog[CantorCode[x]]]

(* exp_lut[MODULUS] is overwritten with exp_lut[0], the label of one.      *)
exp_lut ==
    [l \in Elem |-> LET log == IF l = MODULUS THEN 0 ELSE l
                    IN  CHOOSE x \in Elem : log_lut[x] = log]

----------------------------------------------------------------------------
(* Arithmetic on logs: integers modulo MODULUS, held in BITWIDTH bits,     *)
(* with the carry or the borrow folded back in.  Zero has two encodings.   *)

add_mod(a, b) == LET sum == a + b IN (sum + sum \div ORDER) % ORDER

(* The borrow makes every high bit one; the shift brings them down.        *)
sub_mod(a, b) == IF a < b THEN (a - b + ORDER + MODULUS) % ORDER ELSE a - b

(* The vector forms of fwht_simd.rs: a wrapping sum or difference          *)
(* corrected by the mask an unsigned comparison leaves (minus one).        *)
add_mod_masked(a, b) ==
    LET s == (a + b) % ORDER IN IF s < a THEN (s + 1) % ORDER ELSE s

sub_mod_masked(a, b) ==
    LET d == (a - b) % ORDER IN IF a < b THEN (d - 1) % ORDER ELSE d

mul_log(a, log_b) == IF a = 0 THEN 0 ELSE exp_lut[add_mod(log_lut[a], log_b)]

----------------------------------------------------------------------------
(* The kernels' products.  Each is a table: Product[log_m][x].             *)

(* mul_log8 and mul_log16, the scalar loops.                               *)
LogProduct == [log_m \in Elem |-> [x \in Elem |-> mul_log(x, log_m)]]

(* x cut into count pieces, the k-th left where it stands in x.            *)
Piece(x, k, count) ==
    LET width == BITWIDTH \div count
    IN  ((x \div 2 ^ (k * width)) % 2 ^ width) * 2 ^ (k * width)

(* init_mul8_lut: value is the sum of the products of the two nibbles;     *)
(* the shuffles add an entry of low and an entry of high, which are the    *)
(* values of the bytes that have one nibble only.                          *)
LutProduct ==
    [log_m \in Elem |-> [x \in Elem |->
        AddAll([k \in 0 .. 1 |-> mul_log(Piece(x, k, 2), log_m)], 0 .. 1)]]

ShuffleProduct ==
    [log_m \in Elem |-> [x \in Elem |->
        AddAll([k \in 0 .. 1 |-> LutProduct[log_m][Piece(x, k, 2)]], 0 .. 1)]]

(* NibbleTables16: four pieces; the table of a piece is filled from the    *)
(* products of its powers of two, and its halves are looked up apart.      *)
Half == 2 ^ (BITWIDTH \div 2)

fill_nibble_tables(log_m, piece) ==
    AddAll([i \in 0 .. BITWIDTH - 1 |-> mul_log(2 ^ i, log_m)],
           {i \in 0 .. BITWIDTH - 1 : Bit(piece, i)})

NibbleProduct ==
    [log_m \in Elem |-> [x \in Elem |->
        LET part == [k \in 0 .. 3 |-> fill_nibble_tables(log_m, Piece(x, k, 4))]
            lo   == AddAll([k \in 0 .. 3 |-> part[k] % Half], 0 .. 3)
            hi   == AddAll([k \in 0 .. 3 |-> part[k] \div Half], 0 .. 3)
        IN  lo + hi * Half]]

(* gfni_butterfly::matrices: the four matrices over GF(2) that take the    *)
(* low and high half of an element to the low and high half of the         *)
(* product; column b of group g is the image of bit b of half g.           *)
matrices(log_m) ==
    [g \in {0, 1} |-> [b \in 0 .. BITWIDTH \div 2 - 1 |->
        mul_log(2 ^ (g * (BITWIDTH \div 2) + b), log_m)]]

MatrixTimes(columns, x) ==
    AddAll([g \in {0, 1} |->
                AddAll(columns[g],
                       {b \in DOMAIN columns[g] : Bit(x, g * (BITWIDTH \div 2) + b)})],
           {0, 1})

MatrixProduct ==
    [log_m \in Elem |-> [x \in Elem |-> MatrixTimes(matrices(log_m), x)]]

(* The tables the registers are loaded with: entry nib of table i is the   *)
(* product of piece i with that value.                                     *)
Quarter == 2 ^ (BITWIDTH \div 4)

FilledTables ==
    [log_m \in Elem |-> [i \in 0 .. 3 |-> [nib \in 0 .. Quarter - 1 |->
        fill_nibble_tables(log_m, nib * Quarter ^ i)]]]

DirectTables ==
    [log_m \in Elem |-> [i \in 0 .. 3 |-> [nib \in 0 .. Quarter - 1 |->
        mul_log(nib * Quarter ^ i, log_m)]]]

(* gf2p8affine by one of the four matrices: half g of the factor to half h *)
(* of the product.                                                         *)
HalfOf(h, x) == IF h = 0 THEN x % Half ELSE x \div Half

AffineBy(columns) ==
    [g \in {0, 1} |-> [h \in {0, 1} |-> [x \in 0 .. Half - 1 |->
        HalfOf(h, AddAll(columns[g], {b \in DOMAIN columns[g] : Bit(x, b)}))]]]

Affine == [log_m \in Elem |-> AffineBy(matrices(log_m))]

(* What a product has to be: that of the field POLYNOMIAL defines, on the  *)
(* labels of the Cantor basis.  MODULUS is a log of one.                   *)
FieldProduct ==
    [log_m \in Elem |-> [x \in Elem |->
        CHOOSE y \in Elem :
            CantorCode[y] = PolynomialProduct[CantorCode[x]][Register[log_m % MODULUS]]]]

----------------------------------------------------------------------------
(* Walsh-Hadamard transforms over the logs.  plus and minus are one of the *)
(* two forms above; a block holds four rows of dist entries.               *)

radix4_butterfly(data, off, dist, lane, plus(_, _), minus(_, _)) ==
    LET at(k) == data[off + k * dist]
        t0 == plus(at(0), at(1))
        t1 == minus(at(0), at(1))
        t2 == plus(at(2), at(3))
        t3 == minus(at(2), at(3))
    IN  CASE lane = 0 -> plus(t0, t2)
          [] lane = 1 -> plus(t1, t3)
          [] lane = 2 -> minus(t0, t2)
          [] lane = 3 -> minus(t1, t3)

(* One pass of fwht8_mtrunc: the blocks that start below mtrunc.           *)
Radix4Pass(data, dist, mtrunc, plus(_, _), minus(_, _)) ==
    [p \in DOMAIN data |->
        LET r == p - (p % (4 * dist))
        IN  IF mtrunc <= r THEN data[p]
            ELSE radix4_butterfly(data, r + (p % dist), dist, (p - r) \div dist,
                                  plus, minus)]

(* dist4 <= n, from dist = 1 by factors of four; ORDER is a power of four, *)
(* so the radix-2 pass of the variable transform never runs at full size.  *)
Passes == {k \in 0 .. BITWIDTH : 4 ^ (k + 1) <= ORDER}

Walsh(data, mtrunc, plus(_, _), minus(_, _)) ==
    LET after[k \in {-1} \cup Passes] ==
            IF k = -1 THEN data
            ELSE LET before == after[k - 1]
                 IN  Radix4Pass(before, 4 ^ k, mtrunc, plus, minus)
    IN  after[Max(Passes)]

fwht8(data) == Walsh(data, ORDER, add_mod, sub_mod)

fwht8_mtrunc(data, mtrunc) == Walsh(data, mtrunc, add_mod, sub_mod)

fwht16_mtrunc(data, mtrunc) == Walsh(data, mtrunc, add_mod, sub_mod)

fwht_variable(data) == Walsh(data, ORDER, add_mod, sub_mod)

(* The decoder's second transform of GF16 goes through the vector blocks.  *)
fwht16_variable(data) == Walsh(data, ORDER, add_mod_masked, sub_mod_masked)

(* log_walsh: the transform of the logs, that of zero counted as zero.     *)
log_walsh == fwht8([x \in Elem |-> IF x = 0 THEN 0 ELSE log_lut[x]])

----------------------------------------------------------------------------
(* init_fft_skew8, init_fft_skew16                                         *)

TimesNext(x, log_m) == mul_log(x, add_mod(log_lut[Add(x, 1)], log_m))

(* What pass m - 1 of the outer loop makes of temp; inverse is the log of  *)
(* one over temp[m - 1] * (temp[m - 1] + 1).                               *)
SkewPass(temp, m, inverse) ==
    [i \in 0 .. BITWIDTH - 2 |->
        CASE i < m - 1 -> temp[i]
          [] i = m - 1 -> inverse
          [] OTHER -> TimesNext(temp[i], inverse)]

(* temp as the pass m of the outer loop finds it.                          *)
SkewTemp[m \in 0 .. BITWIDTH - 1] ==
    IF m = 0 THEN [i \in 0 .. BITWIDTH - 2 |-> 2 ^ (i + 1)]
    ELSE LET temp == SkewTemp[m - 1]
         IN  SkewPass(temp, m, MODULUS - log_lut[TimesNext(temp[m - 1], 0)])

(* Pass m writes the indices that end in m ones: the entry is the sum of   *)
(* the temps of the bits set above them.                                   *)
fft_skew ==
    [p \in 0 .. MODULUS - 1 |->
        LET m == Min({i \in 0 .. BITWIDTH - 1 : ~ Bit(p, i)})
        IN  log_lut[AddAll(SkewTemp[m],
                           {i \in m .. BITWIDTH - 2 : Bit(p, i + 1)})]]

=============================================================================
