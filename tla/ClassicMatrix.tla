--------------------------- MODULE ClassicMatrix ----------------------------
(***************************************************************************)
(* The matrices of the Classic codec: the Matrix type and its elimination  *)
(* (matrix.rs), the encoding matrices of every mode (codec.rs) and the     *)
(* decode matrix of a survivor selection (reconstruct.rs).  A matrix is a  *)
(* function on the pairs <<row, column>>, both counted from zero.          *)
(* byteRows tells the byte field, whose rows go through the slice kernels  *)
(* at full width, from fields that take the scalar loops, which skip the   *)
(* columns known to be zero.                                               *)
(***************************************************************************)
EXTENDS GaloisField, Sequences
LOCAL INSTANCE TLC

Rows(m) == {x[1] : x \in DOMAIN m}
Columns(m) == {x[2] : x \in DOMAIN m}

Matrix(rows, cols, entry(_, _)) ==
    [x \in (0 .. rows - 1) \X (0 .. cols - 1) |-> entry(x[1], x[2])]

identity(size) == Matrix(size, size, LAMBDA r, c : IF r = c THEN 1 ELSE 0)

(* Row r of m becomes the given entries.                                   *)
WithRow(m, r, entry(_)) == [x \in {r} \X Columns(m) |-> entry(x[2])] @@ m

(* Rows are accumulated over the nonzero coefficients.                     *)
MatrixMultiply(lhs, rhs) ==
    [x \in Rows(lhs) \X Columns(rhs) |->
        AddAll([j \in Rows(rhs) |-> Mul(lhs[x[1], j], rhs[j, x[2]])],
               {j \in Rows(rhs) : lhs[x[1], j] # 0})]

sub_matrix(m, rmin, cmin, rmax, cmax) ==
    Matrix(rmax - rmin, cmax - cmin, LAMBDA r, c : m[rmin + r, cmin + c])

swap_rows(m, a, b) ==
    [x \in {a, b} \X Columns(m) |-> m[IF x[1] = a THEN b ELSE a, x[2]]] @@ m

----------------------------------------------------------------------------
(* Elimination                                                             *)

(***************************************************************************)
(* Adds scale times the pivot row.  The byte field adds the whole row; the *)
(* scalar loop starts after the pivot column, and adds the unit pivot's    *)
(* share on its own.                                                       *)
(***************************************************************************)
add_scaled_pivot_row(m, source, destination, byteRows) ==
    LET scale == m[destination, source]
    IN  WithRow(m, destination, LAMBDA c :
            CASE byteRows \/ c > source ->
                   Add(m[destination, c], Mul(scale, m[source, c]))
              [] ~byteRows /\ c = source -> Add(m[destination, c], scale)
              [] OTHER -> m[destination, c])

\* Mutant: a zero pivot is not replaced.
PivotWithoutSwap(m, r) == m

(* The first row below with a nonzero entry takes the place of a zero one. *)
Pivot(m, r) ==
    LET below == {q \in Rows(m) : q > r /\ m[q, r] # 0}
    IN  IF m[r, r] = 0 /\ below # {} THEN swap_rows(m, r, Min(below)) ELSE m

ScalePivot(m, r, byteRows) ==
    IF m[r, r] = 1 THEN m
    ELSE LET scale == Div(1, m[r, r])
         IN  WithRow(m, r, LAMBDA c :
                CASE byteRows \/ c > r -> Mul(scale, m[r, c])
                  [] ~byteRows /\ c = r -> 1
                  [] OTHER -> m[r, c])

(* Clears column p in the given rows, from the first to the last.          *)
ClearColumn(m, p, first, last, byteRows) ==
    LET cleared[q \in first - 1 .. last] ==
            IF q < first THEN m
            ELSE LET before == cleared[q - 1]
                 IN  IF before[q, p] = 0 THEN before
                     ELSE add_scaled_pivot_row(before, p, q, byteRows)
    IN  cleared[last]

Singular == [ok |-> FALSE]

gaussian_elim(m, byteRows) ==
    LET last == Max(Rows(m))
        down[r \in -1 .. last] ==
            IF r = -1 THEN [ok |-> TRUE, matrix |-> m]
            ELSE LET before == down[r - 1]
                     chosen == Pivot(before.matrix, r)
                 IN  IF ~before.ok THEN Singular
                     ELSE IF chosen[r, r] = 0 THEN Singular
                     ELSE [ok |-> TRUE,
                           matrix |-> ClearColumn(ScalePivot(chosen, r, byteRows),
                                                  r, r + 1, last, byteRows)]
        lower == down[last]
        up[d \in -1 .. last] ==
            IF d = -1 THEN lower.matrix
            ELSE ClearColumn(up[d - 1], d, 0, d - 1, byteRows)
    IN  IF lower.ok THEN [ok |-> TRUE, matrix |-> up[last]] ELSE Singular

invert(m, byteRows) ==
    LET n == Cardinality(Rows(m))
        work == Matrix(n, 2 * n, LAMBDA r, c :
                    IF c < n THEN m[r, c] ELSE IF c = n + r THEN 1 ELSE 0)
        done == gaussian_elim(work, byteRows)
    IN  IF done.ok
        THEN [ok |-> TRUE, matrix |-> sub_matrix(done.matrix, 0, n, n, 2 * n)]
        ELSE Singular

----------------------------------------------------------------------------
(* Encoding matrices: k data shards of t shards in all                     *)

Built(m) == [ok |-> TRUE, matrix |-> m]
InvalidCustomMatrix == [ok |-> FALSE]

vandermonde(rows, cols) == Matrix(rows, cols, LAMBDA r, c : Exp(Nth(r), c))

build_matrix(k, t, byteRows) ==
    LET vm == vandermonde(t, k)
        top == invert(sub_matrix(vm, 0, 0, k, k), byteRows)
    IN  IF top.ok THEN Built(MatrixMultiply(vm, top.matrix)) ELSE InvalidCustomMatrix

(***************************************************************************)
(* The experimental builder keeps the inverse in the right half of its     *)
(* elimination workspace and multiplies from there.                        *)
(***************************************************************************)
systematic_from_vandermonde(vm, k, byteRows) ==
    LET work == gaussian_elim(Matrix(k, 2 * k, LAMBDA r, c :
                    IF c < k THEN vm[r, c] ELSE IF c = k + r THEN 1 ELSE 0), byteRows)
    IN  IF ~work.ok THEN InvalidCustomMatrix
        ELSE Built([x \in DOMAIN vm |->
                AddAll([j \in 0 .. k - 1 |-> Mul(vm[x[1], j], work.matrix[j, k + x[2]])],
                       {j \in 0 .. k - 1 : vm[x[1], j] # 0})])

build_cauchy_matrix(k, t) ==
    IF \E r \in k .. t - 1, c \in 0 .. k - 1 : Add(Nth(r), Nth(c)) = 0
    THEN InvalidCustomMatrix
    ELSE Built(Matrix(t, k, LAMBDA r, c :
            CASE r < k /\ r = c -> 1
              [] r < k /\ r # c -> 0
              [] OTHER -> Div(1, Add(Nth(r), Nth(c)))))

(* The extended Vandermonde matrix jerasure starts from.                   *)
ExtendedVandermonde(k, t) ==
    Matrix(t, k, LAMBDA r, c :
        CASE r = t - 1 -> IF c = k - 1 THEN 1 ELSE 0
          [] r # t - 1 /\ r = 0 -> IF c = 0 THEN 1 ELSE 0
          [] OTHER -> Exp(Nth(r), c))

(***************************************************************************)
(* Column i becomes the unit vector of row i: find a row with a nonzero    *)
(* entry at or below i, scale the column, add it to the others.  A column  *)
(* without such a row would index past the matrix; it is reported as an    *)
(* error here, and DecodeIsInverse shows that it never happens.            *)
(***************************************************************************)
JerasureColumn(m, i) ==
    LET rows == {r \in Rows(m) : r >= i /\ m[r, i] # 0}
        swapped == swap_rows(m, i, Min(rows))
        scale == Div(1, swapped[i, i])
        unit == [x \in Rows(m) \X {i} |-> Mul(swapped[x], scale)] @@ swapped
    IN  IF rows = {} THEN InvalidCustomMatrix
        ELSE Built([x \in DOMAIN m |->
                IF x[2] = i THEN unit[x]
                ELSE Add(unit[x], Mul(unit[i, x[2]], unit[x[1], i]))] @@ unit)

(* Columns scaled until the first parity row is all ones ...               *)
JerasureOnesRow(m, k) ==
    [x \in DOMAIN m |-> IF x[1] < k THEN m[x] ELSE Mul(m[x], Div(1, m[k, x[2]]))]

(* ... and the later parity rows until they start with one.                *)
JerasureOnesColumn(m, k) ==
    [x \in DOMAIN m |-> IF x[1] <= k THEN m[x] ELSE Mul(m[x], Div(1, m[x[1], 0]))]

JerasureFirstOnes(m, k, t) ==
    IF \E r \in k + 1 .. t - 1 : m[r, 0] = 0 THEN InvalidCustomMatrix
    ELSE Built(JerasureOnesColumn(m, k))

JerasureScaled(systematic, k, t) ==
    IF \/ ~systematic.ok
       \/ \E j \in 0 .. k - 1 : systematic.matrix[k, j] = 0
    THEN InvalidCustomMatrix
    ELSE JerasureFirstOnes(JerasureOnesRow(systematic.matrix, k), k, t)

build_jerasure_like_matrix(k, t) ==
    LET column[i \in -1 .. k - 1] ==
            IF i = -1 THEN Built(ExtendedVandermonde(k, t))
            ELSE LET before == column[i - 1]
                 IN  IF before.ok THEN JerasureColumn(before.matrix, i)
                     ELSE InvalidCustomMatrix
    IN  JerasureScaled(column[k - 1], k, t)

(* rows: a sequence of coefficient sequences; extra ones are ignored.      *)
build_custom_matrix(k, t, rows) ==
    IF Len(rows) < t - k \/ \E i \in 1 .. t - k : Len(rows[i]) < k
    THEN InvalidCustomMatrix
    ELSE Built(Matrix(t, k, LAMBDA r, c :
            CASE r < k /\ r = c -> 1
              [] r < k /\ r # c -> 0
              [] OTHER -> rows[r - k + 1][c + 1]))

AllOnesMatrix(k) ==
    Matrix(k + 1, k, LAMBDA r, c : IF r = k \/ r = c THEN 1 ELSE 0)

build_matrix_with_options(k, t, mode, fastOneParity, byteRows) ==
    CASE fastOneParity /\ t = k + 1 /\ mode # "Custom" -> Built(AllOnesMatrix(k))
      [] ~(fastOneParity /\ t = k + 1) /\ mode = "Vandermonde" -> build_matrix(k, t, byteRows)
      [] ~(fastOneParity /\ t = k + 1) /\ mode = "Cauchy" -> build_cauchy_matrix(k, t)
      [] ~(fastOneParity /\ t = k + 1) /\ mode = "JerasureLike" ->
             build_jerasure_like_matrix(k, t)
      [] OTHER -> InvalidCustomMatrix

----------------------------------------------------------------------------
(* The decode matrix of k survivors, given in ascending order              *)

Ascending(S) ==
    [i \in 0 .. Cardinality(S) - 1 |->
        CHOOSE x \in S : Cardinality({y \in S : y < x}) = i]

SelectedRows(m, valid) ==
    [x \in (DOMAIN valid) \X Columns(m) |-> m[valid[x[1]], x[2]]]

(* One data shard is missing: its parity equation is solved directly.      *)
SolveOne(m, k, valid) ==
    LET present == k - 1
        missing == CHOOSE x \in 0 .. k - 1 : \A i \in 0 .. present - 1 : valid[i] # x
        parity(c) == m[valid[present], c]
        reciprocal == Div(1, parity(missing))
    IN  IF parity(missing) = 0 THEN InvalidCustomMatrix
        ELSE Built(Matrix(k, k, LAMBDA r, c :
                CASE r = missing /\ c = present -> reciprocal
                  [] r = missing /\ c < present -> Mul(reciprocal, parity(valid[c]))
                  [] r # missing /\ c < present /\ valid[c] = r -> 1
                  [] OTHER -> 0))

(* Known data is substituted: only [C | B | I] is eliminated.              *)
SolveMissing(m, k, valid, present, byteRows) ==
    LET known == {valid[i] : i \in 0 .. present - 1}
        missing == Ascending(0 .. k - 1 \ known)
        unknowns == k - present
        equations == Matrix(unknowns, unknowns + k, LAMBDA r, c :
            LET coefficients(i) == m[valid[present + r], i]
            IN  CASE c < unknowns -> coefficients(missing[c])
                  [] c >= unknowns /\ c < unknowns + present ->
                         coefficients(valid[c - unknowns])
                  [] OTHER -> IF c = unknowns + present + r THEN 1 ELSE 0)
        solved == gaussian_elim(equations, byteRows)
        rowOf(x) == CHOOSE i \in DOMAIN missing : missing[i] = x
    IN  IF ~solved.ok THEN InvalidCustomMatrix
        ELSE Built(Matrix(k, k, LAMBDA r, c :
                IF r \in known
                THEN IF c < present /\ valid[c] = r THEN 1 ELSE 0
                ELSE solved.matrix[rowOf(r), unknowns + c]))

build_data_decode_matrix(m, k, valid, byteRows) ==
    LET present == Cardinality({i \in DOMAIN valid : valid[i] < k})
    IN  CASE present + 1 = k -> SolveOne(m, k, valid)
          [] present # 0 /\ k - present > 1 ->
                 SolveMissing(m, k, valid, present, byteRows)
          [] OTHER -> invert(SelectedRows(m, valid), byteRows)

----------------------------------------------------------------------------
(* References                                                              *)

(* The determinant; in characteristic two no permutation has a sign.       *)
Determinant(m) ==
    LET term(f) == MapThenFoldSet(LAMBDA a, b : Products[a][b], 1,
                                  LAMBDA i : m[i, f[i]],
                                  LAMBDA T : CHOOSE i \in T : TRUE, Rows(m))
        terms == [f \in Permutations(Rows(m)) |-> term(f)]
    IN  AddAll(terms, DOMAIN terms)

MatrixProduct(lhs, rhs) ==
    [x \in Rows(lhs) \X Columns(rhs) |->
        AddAll([j \in Rows(rhs) |-> Products[lhs[x[1], j]][rhs[j, x[2]]]], Rows(rhs))]
=============================================================================
