---------------------------- MODULE SliceKernels ----------------------------
(***************************************************************************)
(* The kernels that multiply slices of field elements, and the back-end    *)
(* selection that decides which of them run (galois_8 and the slice half   *)
(* of galois_16).  A process picks its GF(2^8) back end once, from the     *)
(* CPU, the build and RSE_BACKEND_OVERRIDE, and every later multiplication,*)
(* tower multiplication, row product and generated encoder follows that    *)
(* choice.  Vectors are scaled: Lane elements stand for the 16 bytes of a  *)
(* 128-bit register, so AVX2 works on 2 * Lane and AVX-512 on 4 * Lane.    *)
(* A slice is a function on 0 .. n-1.                                      *)
(***************************************************************************)
EXTENDS GaloisField

CONSTANTS
    Machines,     \* records [arch, built, features, pr1]: builds on CPUs
    EnvValues,    \* values RSE_BACKEND_OVERRIDE may have
    MaxEnvChanges,\* bound: how often a process rewrites the variable
    Lane,         \* elements of a 128-bit register: 16 in the code
    Gf16Chunk,    \* GF16_CHUNK: elements of the tower planes
    CodeChunk,    \* CODE_SLICE_MIN_CHUNK_BYTES
    Coefficients, \* byte multipliers offered to the kernels
    TowerCoefficients,
    Lengths,      \* slice lengths of the direct calls
    ShardLengths, \* shard lengths of the coding calls
    Shapes        \* <<inputs, outputs>> of the coding calls

(* What the constants have to satisfy.                                     *)
KernelAssumption ==
    /\ Lane \in Nat \ {0} /\ Lane % 2 = 0
    /\ Gf16Chunk \in Nat \ {0} /\ CodeChunk \in Nat \ {0}
    /\ Machines # {}
    /\ \A m \in Machines :
         /\ m.arch \in {"x86", "aarch64", "ppc64"}
         /\ m.built \subseteq CASE m.arch = "x86" ->
                                   {"ssse3", "avx2", "avx512", "gfni_avx2", "gfni_avx512"}
                              [] m.arch = "aarch64" -> {"neon"}
                              [] m.arch = "ppc64" -> {"vsx"}
         /\ "neon" \in m.built => "neon" \in m.features   \* every aarch64 has it

VARIABLES
    machine,    \* the build and the CPU, fixed for the process
    env,        \* RSE_BACKEND_OVERRIDE
    changes,    \* how often env was rewritten
    active,     \* ACTIVE_BACKEND
    reading,    \* what the running closures of the two verdicts below read
    generated,  \* GENERATED_ENCODE_ALLOWED
    parallel,   \* PARALLEL_GFNI_ENCODE_ALLOWED
    call        \* the finished call whose output its caller looks at

vars == <<machine, env, changes, active, reading, generated, parallel, call>>

NoBackend == "none"
Undecided == "undecided"
Verdict(allowed) == IF allowed THEN "allowed" ELSE "refused"
NotReading == "not reading"
NoReaders == [generated |-> NotReading, parallel |-> NotReading]
NoCall == [kind |-> "none"]

----------------------------------------------------------------------------
(* Back-end selection                                                      *)

Gfni == {"gfni_avx2", "gfni_avx512"}

(* supports_rust_*: the CPU features a back end's instructions need.       *)
Requires(backend) ==
    CASE backend = "ssse3" -> {"ssse3"}
      [] backend = "avx2" -> {"avx2"}
      [] backend = "avx512" -> {"avx512f", "avx512bw"}
      [] backend = "gfni_avx2" -> {"gfni", "avx2"}
      [] backend = "gfni_avx512" -> {"gfni", "avx512f", "avx512bw"}
      [] backend = "neon" -> {"neon"}
      [] backend = "vsx" -> {"vsx"}
      [] OTHER -> {}

Backends == {"scalar", "ssse3", "avx2", "avx512", "neon", "vsx"} \cup Gfni

Available(m, backend) ==
    backend \in m.built \cup {"scalar"} /\ Requires(backend) \subseteq m.features

(* Unset, not Unicode and unrecognised text all parse to no override.      *)
parse_backend_override(value) ==
    IF value \in Backends \cup {"auto"} THEN value ELSE "none"

Overridden(m, override, offered) ==
    IF override \in offered /\ Available(m, override) THEN override ELSE NoBackend

select_x86_override_backend(m, override) ==
    Overridden(m, override, {"scalar", "ssse3", "avx2", "avx512"} \cup Gfni)

select_aarch64_override_backend(m, override) == Overridden(m, override, {"scalar", "neon"})

select_powerpc_override_backend(m, override) == Overridden(m, override, {"scalar", "vsx"})

(* Auto, another architecture's back end and an unavailable one: no choice.*)
select_override_backend(m, override) ==
    CASE m.arch = "x86" -> select_x86_override_backend(m, override)
      [] m.arch = "aarch64" -> select_aarch64_override_backend(m, override)
      [] m.arch = "ppc64" -> select_powerpc_override_backend(m, override)

(* The order of preference on x86.                                         *)
Priority == <<"gfni_avx512", "gfni_avx2", "avx2", "avx512", "ssse3", "scalar">>

select_x86_backend(m) ==
    Priority[Min({i \in DOMAIN Priority : Available(m, Priority[i])})]

select_aarch64_backend(m) == IF Available(m, "neon") THEN "neon" ELSE "scalar"

select_powerpc_backend(m) == IF Available(m, "vsx") THEN "vsx" ELSE "scalar"

auto_select_backend(m) ==
    CASE m.arch = "x86" -> select_x86_backend(m)
      [] m.arch = "aarch64" -> select_aarch64_backend(m)
      [] m.arch = "ppc64" -> select_powerpc_backend(m)

runtime_override_backend == select_override_backend(machine, parse_backend_override(env))

runtime_select_backend ==
    IF runtime_override_backend # NoBackend THEN runtime_override_backend
    ELSE auto_select_backend(machine)

(* active_backend: the choice of the first caller.                         *)
active_backend == IF active = NoBackend THEN runtime_select_backend ELSE active

\* Mutant: the override does not reach the generated kernels.
GeneratedDespiteOverride(override, backend) == backend \notin Gfni

generated_encode_allowed_for_backend(override, backend) ==
    override \in {"none", "auto"} /\ backend \notin Gfni

(***************************************************************************)
(* Unknown text selects automatically but does not opt in to the parallel  *)
(* GFNI rows; an explicit GFNI back end does when it is the active one.    *)
(***************************************************************************)
parallel_gfni_encode_allowed_for_backend(value, backend) ==
    backend \in Gfni /\ value \in {"unset", "auto", backend}

----------------------------------------------------------------------------
(* Byte kernels                                                            *)

Width(backend) ==
    CASE backend \in {"ssse3", "neon", "vsx"} -> Lane
      [] backend \in {"avx2", "gfni_avx2"} -> 2 * Lane
      [] backend \in {"avx512", "gfni_avx512"} -> 4 * Lane
      [] OTHER -> 1

Len(s) == Cardinality(DOMAIN s)

(* The elements the vector loop covers: whole vectors only.                *)
Swept(n, width) == (n \div width) * width

(* The product of a coefficient's affine matrix and one element.           *)
AffineMul(c, x) == GfniAffine(GfniMultiplyMatrices[c], x)

Accumulated(out, product) == [i \in DOMAIN product |-> Add(out[i], product[i])]

Stored(out, product, xor) == IF xor THEN Accumulated(out, product) ELSE product

(* mul_slice_pure_rust and mul_slice_xor_pure_rust.                        *)
mul_slice_pure_rust(c, input, out, xor) ==
    Stored(out, [i \in DOMAIN input |->
                    CASE c = 0 -> 0 [] c = 1 -> input[i] [] OTHER -> Mul(c, input[i])],
           xor)

(* Whole vectors by the instruction, the tail by the scalar table.         *)
Vectors(width, product(_, _), c, input) ==
    LET done == Swept(Len(input), width)
    IN  [i \in DOMAIN input |->
            IF i < done THEN product(c, input[i]) ELSE Mul(c, input[i])]

(* The entry of every vector kernel keeps zero and one away from it.       *)
Entry(kernel, c, input, out, xor) ==
    IF c \in {0, 1} THEN mul_slice_pure_rust(c, input, out, xor)
    ELSE Stored(out, kernel, xor)

rust_ssse3_mul_slice(c, input, out, xor) ==
    Entry(Vectors(Lane, ShuffleMul, c, input), c, input, out, xor)

rust_avx2_mul_slice(c, input, out, xor) ==
    Entry(Vectors(2 * Lane, ShuffleMul, c, input), c, input, out, xor)

rust_avx512_mul_slice(c, input, out, xor) ==
    Entry(Vectors(4 * Lane, ShuffleMul, c, input), c, input, out, xor)

(* handle_scalar_case also takes every input shorter than a vector.        *)
handle_scalar_case(width, c, input) == c \in {0, 1} \/ Len(input) < width

rust_gfni_avx2_mul_slice(c, input, out, xor) ==
    IF handle_scalar_case(2 * Lane, c, input)
    THEN mul_slice_pure_rust(c, input, out, xor)
    ELSE Stored(out, Vectors(2 * Lane, AffineMul, c, input), xor)

rust_gfni_avx512_mul_slice(c, input, out, xor) ==
    IF handle_scalar_case(4 * Lane, c, input)
    THEN mul_slice_pure_rust(c, input, out, xor)
    ELSE Stored(out, Vectors(4 * Lane, AffineMul, c, input), xor)

(***************************************************************************)
(* NEON and VSX sweep four registers at a time, then single registers from *)
(* where the unrolled loop stopped, then the tail.                         *)
(***************************************************************************)
Unrolled(product(_, _), c, input) ==
    LET n == Len(input)
        four == Swept(n, 4 * Lane)
        done == four + Swept(n - four, Lane)
    IN  [i \in DOMAIN input |->
            IF i < done THEN product(c, input[i]) ELSE Mul(c, input[i])]

rust_neon_mul_slice_impl(c, input) == Unrolled(ShuffleMul, c, input)

rust_neon_mul_slice_xor_impl(c, input, out) ==
    Accumulated(out, Unrolled(ShuffleMul, c, input))

(* Adding a shard times one: vectors are added as they are.                *)
rust_neon_mul_slice_xor_c1_impl(input, out) ==
    LET copy(c, x) == x IN Accumulated(out, Unrolled(copy, 1, input))

rust_neon_mul_slice(c, input, out, xor) ==
    CASE c = 0 \/ (c = 1 /\ ~xor) -> mul_slice_pure_rust(c, input, out, xor)
      [] c = 1 /\ xor -> rust_neon_mul_slice_xor_c1_impl(input, out)
      [] c > 1 /\ xor -> rust_neon_mul_slice_xor_impl(c, input, out)
      [] OTHER -> rust_neon_mul_slice_impl(c, input)

rust_vsx_mul_slice_impl(c, input) == Unrolled(ShuffleMul, c, input)

rust_vsx_mul_slice_xor_impl(c, input, out) ==
    Accumulated(out, Unrolled(ShuffleMul, c, input))

rust_vsx_mul_slice(c, input, out, xor) ==
    CASE c \in {0, 1} -> mul_slice_pure_rust(c, input, out, xor)
      [] c > 1 /\ xor -> rust_vsx_mul_slice_xor_impl(c, input, out)
      [] OTHER -> rust_vsx_mul_slice_impl(c, input)

(* mul_slice and mul_slice_xor: the functions of the active back end.      *)
mul_slice(backend, c, input, out, xor) ==
    CASE backend = "ssse3" -> rust_ssse3_mul_slice(c, input, out, xor)
      [] backend = "avx2" -> rust_avx2_mul_slice(c, input, out, xor)
      [] backend = "avx512" -> rust_avx512_mul_slice(c, input, out, xor)
      [] backend = "gfni_avx2" -> rust_gfni_avx2_mul_slice(c, input, out, xor)
      [] backend = "gfni_avx512" -> rust_gfni_avx512_mul_slice(c, input, out, xor)
      [] backend = "neon" -> rust_neon_mul_slice(c, input, out, xor)
      [] backend = "vsx" -> rust_vsx_mul_slice(c, input, out, xor)
      [] OTHER -> mul_slice_pure_rust(c, input, out, xor)

----------------------------------------------------------------------------
(* Tower kernels                                                           *)

(***************************************************************************)
(* The layout kernels work on batches of 32 elements, four quarters of 8.  *)
(* For each position of a batch, the operators below give the position its *)
(* element is taken from.                                                  *)
(***************************************************************************)
Quarter == Lane \div 2

QuarterOf(i) == (i \div Quarter) % 4

InQuarter(i, q) == Swept(i, 4 * Quarter) + q * Quarter + (i % Quarter)

\* Mutant: the quarters stay where the lane-wise pack left them.
PermuteNothing(q) == q

Permute0xd8(q) == CASE q = 1 -> 2 [] q = 2 -> 1 [] OTHER -> q

(***************************************************************************)
(* packus works inside 128-bit lanes, so the quarters come out with first  *)
(* and second half of the batch interleaved; permute4x64 puts them back.   *)
(***************************************************************************)
PackedQuarter(q) == (q % 2) * 2 + (q \div 2)

deinterleave_avx2(i) == InQuarter(i, PackedQuarter(Permute0xd8(QuarterOf(i))))

(* unpacklo holds quarters 0 and 2 and unpackhi 1 and 3; permute2x128      *)
(* joins their low lanes, then their high lanes.                           *)
UnpackedQuarter(half, lane) == 2 * lane + half

interleave_avx2(i) ==
    LET q == QuarterOf(i) IN InQuarter(i, UnpackedQuarter(q % 2, q \div 2))

(* Each of the four loads fills one quarter of both planes.                *)
deinterleave_ssse3(i) == LET load == QuarterOf(i) IN InQuarter(i, load)

(* Low and high unpack of the first two quarters, then of the others.      *)
interleave_ssse3(i) ==
    LET store == QuarterOf(i) IN InQuarter(i, (store \div 2) * 2 + (store % 2))

(* vuzp takes one quarter of its result from each of its two operands.     *)
deinterleave_neon(i) ==
    LET pair == QuarterOf(i) \div 2
        operand == QuarterOf(i) % 2
    IN  InQuarter(i, 2 * pair + operand)

interleave_neon(i) ==
    LET store == QuarterOf(i) IN InQuarter(i, (store \div 2) * 2 + (store % 2))

avx2_layout_allowed(m, backend) ==
    /\ "avx2" \in m.built /\ "avx2" \in m.features
    /\ backend \in {"scalar", "avx2", "avx512"} \cup Gfni

(* What is left of a slice after its whole batches is copied in order.     *)
InBatch(n, i) == i < Swept(n, 4 * Quarter)

deinterleave(m, backend, n, i) ==
    CASE ~InBatch(n, i) -> i
      [] InBatch(n, i) /\ m.arch = "x86" /\ avx2_layout_allowed(m, backend) ->
             deinterleave_avx2(i)
      [] InBatch(n, i) /\ m.arch = "x86" /\ ~avx2_layout_allowed(m, backend)
         /\ "ssse3" \in m.features -> deinterleave_ssse3(i)
      [] InBatch(n, i) /\ m.arch = "aarch64" -> deinterleave_neon(i)
      [] OTHER -> i

interleave(m, backend, n, i) ==
    CASE ~InBatch(n, i) -> i
      [] InBatch(n, i) /\ m.arch = "x86" /\ avx2_layout_allowed(m, backend) ->
             interleave_avx2(i)
      [] InBatch(n, i) /\ m.arch = "x86" /\ ~avx2_layout_allowed(m, backend)
         /\ "ssse3" \in m.features -> interleave_ssse3(i)
      [] InBatch(n, i) /\ m.arch = "aarch64" -> interleave_neon(i)
      [] OTHER -> i

JoinedPlanes(m, backend, planes, out, xor) ==
    [i \in DOMAIN out |->
        LET j == interleave(m, backend, Len(out), i)
            joined == <<planes[1][j], planes[2][j]>>
        IN  IF xor THEN TowerAdd(out[i], joined) ELSE joined]

(* One chunk of gf16_mul_general: split, four byte multiplications, join.  *)
gf16_mul_chunk(m, backend, c, input, out, xor) ==
    LET coef == tower_mul_coefficients(c)
        n == Len(input)
        plane(p) == [i \in DOMAIN input |-> input[deinterleave(m, backend, n, i)][p]]
        ax == plane(1)
        ac == plane(2)
        product == [p \in 1 .. 2 |->
            mul_slice(backend, coef[2 * p], ac,
                      mul_slice(backend, coef[2 * p - 1], ax, ax, FALSE), TRUE)]
    IN  JoinedPlanes(m, backend, product, out, xor)

Cut(s, start, end) == [j \in 0 .. end - start - 1 |-> s[start + j]]

gf16_mul_general(m, backend, c, input, out, xor) ==
    LET start(i) == (i \div Gf16Chunk) * Gf16Chunk
        end(i) == Min({start(i) + Gf16Chunk, Len(input)})
        chunk(i) == gf16_mul_chunk(m, backend, c, Cut(input, start(i), end(i)),
                                   Cut(out, start(i), end(i)), xor)
        chunks == [s \in {start(i) : i \in DOMAIN input} |-> chunk(s)]
    IN  [i \in DOMAIN input |-> chunks[start(i)][i - start(i)]]

tower_scalar_tail(coef, x) ==
    <<Add(Mul(coef[1], x[1]), Mul(coef[2], x[2])),
      Add(Mul(coef[3], x[1]), Mul(coef[4], x[2]))>>

(***************************************************************************)
(* The native tower kernels: each lane holds the X coordinates, then the   *)
(* constants; the diagonal matrices act on the planes and the crossed ones *)
(* on the planes swapped.  Elements past the last vector take the table.   *)
(***************************************************************************)
TowerVectors(perVector, coef, input, out, xor) ==
    LET done == Swept(Len(input), perVector)
        diagonal == <<coef[1], coef[4]>>
        crossed == <<coef[2], coef[3]>>
        product(x) == [p \in 1 .. 2 |->
            Add(AffineMul(diagonal[p], x[p]), AffineMul(crossed[p], x[3 - p]))]
    IN  [i \in DOMAIN input |->
            LET y == IF i < done THEN product(input[i])
                     ELSE tower_scalar_tail(coef, input[i])
            IN  IF xor THEN TowerAdd(out[i], y) ELSE y]

rust_gfni_avx2_mul_tower(coef, input, out, xor) ==
    TowerVectors(Lane, coef, input, out, xor)

rust_gfni_avx512_mul_tower(coef, input, out, xor) ==
    TowerVectors(2 * Lane, coef, input, out, xor)

as_flattened(s) == [j \in 0 .. 2 * Len(s) - 1 |-> s[j \div 2][1 + (j % 2)]]

gf16_mul_slice(m, backend, c, input, out, xor) ==
    IF c[1] = 0
    THEN LET flat == mul_slice(backend, c[2], as_flattened(input),
                               as_flattened(out), xor)
         IN  [i \in DOMAIN input |-> <<flat[2 * i], flat[2 * i + 1]>>]
    ELSE CASE backend = "gfni_avx2" ->
                rust_gfni_avx2_mul_tower(tower_mul_coefficients(c), input, out, xor)
           [] backend = "gfni_avx512" ->
                rust_gfni_avx512_mul_tower(tower_mul_coefficients(c), input, out, xor)
           [] OTHER -> gf16_mul_general(m, backend, c, input, out, xor)

----------------------------------------------------------------------------
(* Row kernels and generated encoders                                      *)

(***************************************************************************)
(* One output chunk of a dot-product kernel.  The plan keeps the general   *)
(* coefficients and then the ones; zeros are never loaded.  Batches of     *)
(* four vectors and then single vectors use the instruction, the rest the  *)
(* scalar tail.                                                            *)
(***************************************************************************)
DotKernel(width, affine, row, inputs, start, end) ==
    LET product(c, x) == IF affine THEN AffineMul(c, x) ELSE ShuffleMul(c, x)
        general == {j \in DOMAIN row : row[j] > 1}
        units == {j \in DOMAIN row : row[j] = 1}
        batched == Swept(end - start, 4 * width)
        done == batched + Swept(end - start - batched, width)
        term(i, j) == CASE j \in units -> inputs[j][i]
                        [] j \in general /\ i - start < done ->
                               product(row[j], inputs[j][i])
                        [] OTHER -> Mul(row[j], inputs[j][i])
    IN  [i \in start .. end - 1 |->
            AddAll([j \in DOMAIN row |-> term(i, j)], general \cup units)]

(* The two instances of the GFNI macro.                                    *)
dot_avx2(row, inputs, start, end) ==
    DotKernel(2 * Lane, TRUE, row, inputs, start, end)

dot_avx512(row, inputs, start, end) ==
    DotKernel(4 * Lane, TRUE, row, inputs, start, end)

dot_table_avx2(row, inputs, start, end) ==
    DotKernel(2 * Lane, FALSE, row, inputs, start, end)

dot_table_avx512(row, inputs, start, end) ==
    DotKernel(4 * Lane, FALSE, row, inputs, start, end)

RowKernel(backend, row, inputs, start, end) ==
    CASE backend = "gfni_avx2" -> dot_avx2(row, inputs, start, end)
      [] backend = "gfni_avx512" -> dot_avx512(row, inputs, start, end)
      [] backend = "avx2" -> dot_table_avx2(row, inputs, start, end)
      [] backend = "avx512" -> dot_table_avx512(row, inputs, start, end)

ChunkStart(i, chunk) == (i \div chunk) * chunk
ChunkEnd(i, chunk, n) == Min({ChunkStart(i, chunk) + chunk, n})

(* execute: every chunk, every row of it.                                  *)
ExecuteRows(backend, rows, inputs, n, chunk) ==
    [r \in DOMAIN rows |->
        LET part == [s \in {ChunkStart(i, chunk) : i \in 0 .. n - 1} |->
                RowKernel(backend, rows[r], inputs, s, ChunkEnd(s, chunk, n))]
        IN  [i \in 0 .. n - 1 |-> part[ChunkStart(i, chunk)][i]]]

(* SelectedRowKernel::select: GFNI only, several outputs, a full batch.    *)
SelectsRows(backend, inputs, outputs, n) ==
    /\ backend \in Gfni
    /\ inputs \in 4 .. 32 /\ outputs \in 2 .. 4
    /\ n >= 8 * Lane /\ n >= 4 * Width(backend)

(* SelectedTableRowKernel::select, in builds with experimental-pr1-kernels.*)
SelectsTableRows(m, backend, inputs, outputs, n) ==
    /\ m.pr1 /\ backend \in {"avx2", "avx512"}
    /\ inputs \in 4 .. 16 /\ outputs \in 1 .. 4
    /\ n >= 8 * Lane /\ n >= 4 * Width(backend)

(* code_single_slice: the first input overwrites, the others accumulate.   *)
LoopRows(backend, rows, inputs, outputs, n, chunk) ==
    [r \in DOMAIN rows |->
        LET last == Len(inputs) - 1
            part(s) ==
                LET end == ChunkEnd(s, chunk, n)
                    acc[j \in 0 .. last] ==
                        mul_slice(backend, rows[r][j], Cut(inputs[j], s, end),
                                  IF j = 0 THEN Cut(outputs[r], s, end)
                                  ELSE acc[j - 1], j # 0)
                IN  acc[last]
            parts == [s \in {ChunkStart(i, chunk) : i \in 0 .. n - 1} |-> part(s)]
        IN  [i \in 0 .. n - 1 |->
                parts[ChunkStart(i, chunk)][i - ChunkStart(i, chunk)]]]

(* code_chunk_len, for shards up to CODE_SLICE_DEFAULT_CHUNK_BYTES.        *)
code_chunk_len(n) == Min({n, CodeChunk})

(* code_some_slices: which kernel codes the rows, and what it writes.      *)
code_some_slices(backend, rows, inputs, outputs, n) ==
    IF SelectsRows(backend, Len(inputs), Len(outputs), n)
    THEN ExecuteRows(backend, rows, inputs, n, code_chunk_len(n))
    ELSE LoopRows(backend, rows, inputs, outputs, n, code_chunk_len(n))

code_reconstruction_slices(m, backend, rows, inputs, outputs, n) ==
    IF SelectsTableRows(m, backend, Len(inputs), Len(outputs), n)
    THEN ExecuteRows(backend, rows, inputs, n, code_chunk_len(n))
    ELSE code_some_slices(backend, rows, inputs, outputs, n)

(* The shapes build.rs generates encoders for.                             *)
GeneratedConfigs(m) ==
    {<<10, 4>>, <<12, 4>>, <<8, 3>>, <<8, 4>>, <<6, 3>>, <<4, 2>>}
    \cup IF m.pr1 THEN {<<6, 2>>} ELSE {}

GeneratedAvx512Configs(m) ==
    {<<10, 4>>, <<12, 4>>, <<4, 2>>}
    \cup IF m.pr1 THEN {<<8, 3>>, <<8, 4>>, <<6, 3>>, <<6, 2>>} ELSE {}

(* select_encode_kernel_<isa>: the kernel generated for a shape, which x86 *)
(* offers when its features are there.                                     *)
select_encode_kernel(m, isa, shape) ==
    LET configs == IF isa = "avx512" THEN GeneratedAvx512Configs(m) ELSE GeneratedConfigs(m)
    IN  IF (isa = "neon" \/ Available(m, isa)) /\ shape \in configs THEN isa ELSE NoBackend

(* SelectedEncodeKernel::select.                                           *)
SelectEncodeKernel(m, backend, shape) ==
    IF /\ "avx512" \in m.built /\ backend = "avx512"
       /\ select_encode_kernel(m, "avx512", shape) # NoBackend
    THEN "avx512"
    ELSE CASE "avx2" \in m.built -> select_encode_kernel(m, "avx2", shape)
           [] m.built \cap {"avx512", "avx2"} = {"avx512"} ->
                  select_encode_kernel(m, "avx512", shape)
           [] "neon" \in m.built -> select_encode_kernel(m, "neon", shape)
           [] OTHER -> NoBackend

(***************************************************************************)
(* A generated encoder looks every coefficient up, zero and one included:  *)
(* whole vectors by the nibble tables, the tail by the full table.  AVX2   *)
(* and AVX-512 have a function per parity row; NEON feeds every parity     *)
(* from one load of each input.                                            *)
(***************************************************************************)
GeneratedRow(width, row, inputs, n) ==
    LET done == Swept(n, width)
    IN  [i \in 0 .. n - 1 |->
            AddAll([j \in DOMAIN inputs |->
                       IF i < done THEN ShuffleMul(row[j], inputs[j][i])
                       ELSE Mul(row[j], inputs[j][i])], DOMAIN inputs)]

encode_parity_avx2(row, inputs, n) == GeneratedRow(2 * Lane, row, inputs, n)

encode_parity_avx512(row, inputs, n) == GeneratedRow(4 * Lane, row, inputs, n)

encode_neon(rows, inputs, n) ==
    [r \in DOMAIN rows |-> GeneratedRow(Lane, rows[r], inputs, n)]

GeneratedEncode(kernel, rows, inputs, n) ==
    CASE kernel = "avx2" -> [r \in DOMAIN rows |-> encode_parity_avx2(rows[r], inputs, n)]
      [] kernel = "avx512" -> [r \in DOMAIN rows |-> encode_parity_avx512(rows[r], inputs, n)]
      [] kernel = "neon" -> encode_neon(rows, inputs, n)

----------------------------------------------------------------------------
(* The process                                                             *)

InitOn(m, value) ==
    /\ machine = m
    /\ env = value
    /\ changes = 0
    /\ active = NoBackend
    /\ reading = NoReaders
    /\ generated = Undecided
    /\ parallel = Undecided
    /\ call = NoCall

Init == \E m \in Machines, value \in EnvValues : InitOn(m, value)

SetEnv ==
    /\ call = NoCall
    /\ changes < MaxEnvChanges
    /\ env' \in EnvValues \ {env}
    /\ changes' = changes + 1
    /\ UNCHANGED <<machine, active, reading, generated, parallel, call>>

(* Test data: every element of the field occurs, none in order.            *)
Data(seed, n) == [i \in 0 .. n - 1 |-> (7 * i + 5 * seed + i \div 3) % FieldSize]

TowerData(seed, n) == [i \in 0 .. n - 1 |->
    <<(5 * i + seed) % FieldSize, (3 * i + 7 * seed + 1) % FieldSize>>]

CoefficientRows(shape) ==
    [r \in 0 .. shape[2] - 1 |-> [j \in 0 .. shape[1] - 1 |->
        IF r = 0 THEN (3 * j + 2) % FieldSize ELSE (r * j * j) % FieldSize]]

MulSlice(c, n, xor) ==
    /\ call = NoCall
    /\ active' = active_backend
    /\ call' = [kind |-> "slice", kernel |-> active', route |-> "slice", c |-> c,
                input |-> Data(1, n), before |-> Data(2, n), xor |-> xor,
                out |-> mul_slice(active', c, Data(1, n), Data(2, n), xor)]
    /\ UNCHANGED <<machine, env, changes, reading, generated, parallel>>

(* An empty general multiplication selects no back end.                    *)
TowerSlice(c, n, xor) ==
    LET in == TowerData(1, n)
        old == TowerData(2, n)
    IN  /\ call = NoCall
        /\ active' = IF c[1] # 0 /\ n = 0 THEN active ELSE active_backend
        /\ call' = [kind |-> "tower", kernel |-> active', route |-> "slice",
                    c |-> c, input |-> in, before |-> old, xor |-> xor,
                    out |-> IF c[1] # 0 /\ n = 0 THEN old
                            ELSE gf16_mul_slice(machine, active', c, in, old, xor)]
        /\ UNCHANGED <<machine, env, changes, reading, generated, parallel>>

(* runtime_generated_encode_allowed reads the variable first ...           *)
ReadOverride ==
    /\ generated = Undecided
    /\ reading.generated = NotReading
    /\ reading' = [reading EXCEPT !.generated = parse_backend_override(env)]
    /\ UNCHANGED <<machine, env, changes, active, generated, parallel, call>>

(* ... and the active back end, perhaps selecting it, second.              *)
DecideGenerated ==
    /\ reading.generated # NotReading
    /\ active' = active_backend
    /\ generated' = Verdict(generated_encode_allowed_for_backend(reading.generated, active'))
    /\ reading' = [reading EXCEPT !.generated = NotReading]
    /\ UNCHANGED <<machine, env, changes, parallel, call>>

(* parallel_gfni_encode_allowed in the same two steps, with the raw value. *)
ReadRequested ==
    /\ "gfni_avx2" \in machine.built
    /\ parallel = Undecided
    /\ reading.parallel = NotReading
    /\ reading' = [reading EXCEPT !.parallel = env]
    /\ UNCHANGED <<machine, env, changes, active, generated, parallel, call>>

(* A value that is not Unicode refuses without asking for the back end.    *)
DecideParallelGfni ==
    /\ reading.parallel # NotReading
    /\ active' = IF reading.parallel = "not Unicode" THEN active ELSE active_backend
    /\ parallel' = Verdict(parallel_gfni_encode_allowed_for_backend(reading.parallel, active'))
    /\ reading' = [reading EXCEPT !.parallel = NotReading]
    /\ UNCHANGED <<machine, env, changes, generated, call>>

(***************************************************************************)
(* The coding calls: parity or missing shards as rows over the inputs, all *)
(* in one chunk size.  The outputs hold old bytes before the call.         *)
(***************************************************************************)
Inputs(shape, n) == [j \in 0 .. shape[1] - 1 |-> Data(j, n)]

Outputs(shape, n) == [r \in 0 .. shape[2] - 1 |-> Data(r + 3, n)]

CodingCall(kernel, route, shape, n, out) ==
    [kind |-> "rows", kernel |-> kernel, route |-> route,
     rows |-> CoefficientRows(shape), inputs |-> Inputs(shape, n), out |-> out]

(***************************************************************************)
(* encode_sep and encode_sep_par: a parallel encode first tries the GFNI   *)
(* rows over its jobs; then the generated kernel, when it is allowed and   *)
(* exists for the shape; then the ordinary rows, which in a parallel       *)
(* encode are always coefficient by coefficient.                           *)
(***************************************************************************)
Encode(shape, n, isParallel) ==
    LET rows == CoefficientRows(shape)
        inputs == Inputs(shape, n)
        k == shape[1]
    IN  /\ call = NoCall
        /\ generated # Undecided
        /\ isParallel /\ "gfni_avx2" \in machine.built => parallel # Undecided
        /\ active' = active_backend
        /\ LET kernel == IF generated = "allowed"
                         THEN SelectEncodeKernel(machine, active', shape)
                         ELSE NoBackend
           IN  call' =
                CASE /\ isParallel /\ parallel = "allowed"
                     /\ SelectsRows(active', k, shape[2], n) ->
                       CodingCall(active', "parallel rows", shape, n,
                           ExecuteRows(active', rows, inputs, n, CodeChunk))
                  [] ~(/\ isParallel /\ parallel = "allowed"
                       /\ SelectsRows(active', k, shape[2], n))
                     /\ kernel # NoBackend ->
                       CodingCall(kernel, "generated", shape, n,
                           GeneratedEncode(kernel, rows, inputs, n))
                  [] OTHER ->
                       CodingCall(active', "generic", shape, n,
                           IF isParallel
                           THEN LoopRows(active', rows, inputs, Outputs(shape, n),
                                         n, CodeChunk)
                           ELSE code_some_slices(active', rows, inputs,
                                                 Outputs(shape, n), n))
        /\ UNCHANGED <<machine, env, changes, reading, generated, parallel>>

(* Serial reconstruction: table rows, GFNI rows, or the loop.              *)
Reconstruct(shape, n) ==
    /\ call = NoCall
    /\ active' = active_backend
    /\ call' = CodingCall(active', "generic", shape, n,
            code_reconstruction_slices(machine, active', CoefficientRows(shape),
                                       Inputs(shape, n), Outputs(shape, n), n))
    /\ UNCHANGED <<machine, env, changes, reading, generated, parallel>>

Return ==
    /\ call # NoCall
    /\ call' = NoCall
    /\ UNCHANGED <<machine, env, changes, active, reading, generated, parallel>>

Next ==
    \/ SetEnv
    \/ \E c \in Coefficients, n \in Lengths, xor \in BOOLEAN : MulSlice(c, n, xor)
    \/ \E c \in TowerCoefficients, n \in Lengths, xor \in BOOLEAN : TowerSlice(c, n, xor)
    \/ ReadOverride
    \/ DecideGenerated
    \/ ReadRequested
    \/ DecideParallelGfni
    \/ \E shape \in Shapes, n \in ShardLengths, isParallel \in BOOLEAN :
           Encode(shape, n, isParallel)
    \/ \E shape \in Shapes, n \in ShardLengths : Reconstruct(shape, n)
    \/ Return

Spec == Init /\ [][Next]_vars

----------------------------------------------------------------------------
(* What the kernels promise                                                *)

(***************************************************************************)
(* Whatever back end, vector width, tail, chunk or layout a call went      *)
(* through, its output is the field product, element by element, computed  *)
(* from the generating polynomial alone; an accumulating call adds it to   *)
(* the old bytes, and any other leaves nothing of them.                    *)
(***************************************************************************)
KernelsPointwise ==
    CASE call.kind = "slice" ->
           call.out = [i \in DOMAIN call.input |->
               Add(IF call.xor THEN call.before[i] ELSE 0,
                   Products[call.c][call.input[i]])]
      [] call.kind = "tower" ->
           call.out = [i \in DOMAIN call.input |->
               TowerAdd(IF call.xor THEN call.before[i] ELSE TowerZero,
                        TowerProduct(call.c, call.input[i]))]
      [] call.kind = "rows" ->
           \A r \in DOMAIN call.rows : \A i \in DOMAIN call.inputs[0] :
               call.out[r][i] =
                   AddAll([j \in DOMAIN call.inputs |->
                              Products[call.rows[r][j]][call.inputs[j][i]]],
                          DOMAIN call.inputs)
      [] OTHER -> TRUE

(***************************************************************************)
(* runtime_generated_encode_allowed: "An explicit, recognised backend      *)
(* override disables these generated table kernels.  This makes            *)
(* RSE_BACKEND_OVERRIDE=scalar a reliable way to avoid generated SIMD      *)
(* encode code as well as the ordinary multiplication backend."  In a      *)
(* process that does not rewrite the variable, an override the machine can *)
(* honour decides the kernel of every call; a recognised override it       *)
(* cannot honour still keeps the generated encoders and the parallel GFNI  *)
(* rows out; and generated table code never displaces an active GFNI back  *)
(* end.  Whatever was set, when and to what, no call runs an instruction   *)
(* the CPU does not have.                                                  *)
(***************************************************************************)
OverrideHonoured ==
    /\ call # NoCall /\ changes = 0 =>
         /\ env \in Backends => call.route # "generated"
         /\ active \in Gfni => call.route # "generated"
         /\ env \in Backends /\ Available(machine, env) /\ call.kernel # NoBackend =>
                call.kernel = env
         /\ env \in Backends /\ ~Available(machine, env) => call.route # "parallel rows"
    /\ call # NoCall /\ call.kernel # NoBackend =>
         Requires(call.kernel) \subseteq machine.features
=============================================================================
