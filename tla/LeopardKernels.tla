--------------------------- MODULE LeopardKernels ---------------------------
(***************************************************************************)
(* The kernels under the Leopard transforms: the conversion between the    *)
(* wire layout and the work lanes of GF16, alone and fused with a          *)
(* multiplication (ops.rs, fused.rs and avx2.rs of leopard_gf16), the      *)
(* products, sums and butterflies of whole lanes (ops.rs and mul_simd.rs;  *)
(* ops.rs and assign_avx2.rs of leopard_gf8), and the blocks of the Walsh  *)
(* transform (fwht_simd.rs), with the dispatch that picks one per machine  *)
(* and length.  LeopardFftCodec computes with what they are meant to       *)
(* compute; here they are taken apart into the registers they load,        *)
(* shuffle and store.                                                      *)
(*                                                                         *)
(* Lane bytes stand for the 16 of a 128-bit register; the other widths are *)
(* the code's multiples of it.  A slice is a function on 0 .. n-1.  A byte *)
(* of GF16 is half an element and is looked up by its own two halves.      *)
(***************************************************************************)
EXTENDS LeopardField

CONSTANTS
    Lane,                          \* bytes of a 128-bit register: 16
    Machines,                      \* records [arch, std, bigEndian, features, gfni]
    GFNI_LAYOUT_MIN_BYTES,
    NOSTD_AVX2_MIN_BYTES,
    NOSTD_AVX2_BUTTERFLY_MIN_LEN,
    BlockCounts,                   \* blocks of the slices that are converted
    SliceLengths                   \* elements of the slices that are computed on

(* What the constants have to satisfy.                                     *)
KernelAssumption == Lane \in Nat \ {0} /\ Lane % 4 = 0

VARIABLES
    machine,  \* the build and its CPU; gfni says that GF8 has chosen a GFNI back end
    call      \* the finished call whose output its caller looks at

vars == <<machine, call>>

NoCall == [kind |-> "none"]

Size(s) == Cardinality(DOMAIN s)

Swept(n, width) == (n \div width) * width

At(s, off, width) == [i \in 0 .. width - 1 |-> s[off + i]]

Xor(a, b) == [i \in DOMAIN a |-> Add(a[i], b[i])]

(* Registers of one width stored one after the other.                      *)
Joined(rs) ==
    LET width == Size(rs[1])
    IN  [k \in 0 .. width * Cardinality(DOMAIN rs) - 1 |-> rs[k \div width + 1][k % width]]

(* A kernel applied to every block of a slice.                             *)
EachBlock(s, size, kernel(_)) ==
    LET done == [b \in 0 .. Size(s) \div size - 1 |-> kernel(At(s, b * size, size))]
    IN  [k \in DOMAIN s |-> done[k \div size][k % size]]

----------------------------------------------------------------------------
(* Instructions.  Unpack and pack work in each 128-bit lane of their own;  *)
(* on one register they are NEON's zip and unzip.                          *)

Unpacked(a, b, start) ==
    [k \in DOMAIN a |-> LET i == k - (k % Lane) + start + ((k % Lane) \div 2)
                        IN  IF k % 2 = 0 THEN a[i] ELSE b[i]]

UnpackLo(a, b) == Unpacked(a, b, 0)

UnpackHi(a, b) == Unpacked(a, b, Lane \div 2)

(* The even (0) or odd (1) bytes of a, then those of b.                    *)
Pack(a, b, odd) ==
    [k \in DOMAIN a |->
        LET i == k % Lane
            first == k - i
        IN  IF i < Lane \div 2 THEN a[first + 2 * i + odd]
            ELSE b[first + 2 * (i - Lane \div 2) + odd]]

(* permute4x64 by 0xd8 swaps the middle quarters.                          *)
Permute4x64(r) ==
    LET quarter == Lane \div 2
    IN  [k \in DOMAIN r |-> r[<<0, 2, 1, 3>>[k \div quarter + 1] * quarter + (k % quarter)]]

(* permute2x128 by 0x20 (0) or 0x31 (1): one lane of each register.        *)
Permute2x128(a, b, lane) ==
    [k \in DOMAIN a |-> (IF k < Lane THEN a ELSE b)[lane * Lane + (k % Lane)]]

----------------------------------------------------------------------------
(* Layout conversion                                                       *)

BlockBytes == 4 * Lane

user_bytes_to_work_bytes_scalar(s) ==
    [k \in 0 .. BlockBytes - 1 |-> s[k \div 2 + (k % 2) * (BlockBytes \div 2)]]

user_bytes_to_work_bytes_ssse3(s) ==
    LET lo == At(s, 0, Lane)    lo2 == At(s, Lane, Lane)
        hi == At(s, 2 * Lane, Lane)    hi2 == At(s, 3 * Lane, Lane)
    IN  Joined(<<UnpackLo(lo, hi), UnpackHi(lo, hi), UnpackLo(lo2, hi2), UnpackHi(lo2, hi2)>>)

(* The same loads and stores around vzip1q and vzip2q.                     *)
user_bytes_to_work_bytes_neon(s) == user_bytes_to_work_bytes_ssse3(s)

work_bytes_to_user_bytes_scalar(s) ==
    [k \in 0 .. BlockBytes - 1 |-> s[2 * (k % (BlockBytes \div 2)) + k \div (BlockBytes \div 2)]]

(* Each shuffle leaves half a register, and half a register is stored.     *)
work_bytes_to_user_bytes_ssse3(s) ==
    LET picked(p, odd) == [i \in 0 .. Lane \div 2 - 1 |-> s[p * Lane + 2 * i + odd]]
    IN  Joined([n \in 1 .. 8 |-> picked((n - 1) % 4, (n - 1) \div 4)])

work_bytes_to_user_bytes_neon(s) ==
    LET p(n) == At(s, n * Lane, Lane)
    IN  Joined(<<Pack(p(0), p(1), 0), Pack(p(2), p(3), 0),
                 Pack(p(0), p(1), 1), Pack(p(2), p(3), 1)>>)

OnX86(m, feature) == m.arch = "x86_64" /\ m.std /\ feature \in m.features

NostdAvx2(m) == m.arch = "x86_64" /\ ~m.std /\ "avx2" \in m.features

user_bytes_to_work_bytes(m, s) ==
    CASE OnX86(m, "ssse3") \/ NostdAvx2(m) ->
            EachBlock(s, BlockBytes, user_bytes_to_work_bytes_ssse3)
      [] m.arch = "aarch64" -> EachBlock(s, BlockBytes, user_bytes_to_work_bytes_neon)
      [] OTHER -> EachBlock(s, BlockBytes, user_bytes_to_work_bytes_scalar)

work_bytes_to_user_bytes(m, s) ==
    CASE OnX86(m, "ssse3") \/ NostdAvx2(m) ->
            EachBlock(s, BlockBytes, work_bytes_to_user_bytes_ssse3)
      [] m.arch = "aarch64" -> EachBlock(s, BlockBytes, work_bytes_to_user_bytes_neon)
      [] OTHER -> EachBlock(s, BlockBytes, work_bytes_to_user_bytes_scalar)

(* u16 elements and their little-endian bytes.                             *)
Elements(bytes) ==
    [e \in 0 .. Size(bytes) \div 2 - 1 |-> bytes[2 * e] + Half * bytes[2 * e + 1]]

LeBytes(elements) ==
    [k \in 0 .. 2 * Size(elements) - 1 |->
        IF k % 2 = 0 THEN elements[k \div 2] % Half ELSE elements[k \div 2] \div Half]

user_bytes_to_work_u16_into(m, user) ==
    IF ~m.bigEndian THEN Elements(user_bytes_to_work_bytes(m, user))
    ELSE [e \in 0 .. Size(user) \div 2 - 1 |->
            LET lo == (e \div (BlockBytes \div 2)) * BlockBytes + (e % (BlockBytes \div 2))
            IN  user[lo] + Half * user[lo + BlockBytes \div 2]]

work_u16_to_user_bytes(m, work) == work_bytes_to_user_bytes(m, LeBytes(work))

----------------------------------------------------------------------------
(* Products in registers: planes of low and of high bytes                  *)

(* NibbleTables16::build, from the products of the powers of two where     *)
(* x86 vectors are built, entry by entry elsewhere.                        *)
build(m, log_m) ==
    IF m.arch = "x86_64" /\ (m.std \/ "avx2" \in m.features) THEN FilledTables[log_m]
    ELSE DirectTables[log_m]

Low(r) == [i \in DOMAIN r |-> r[i] % Quarter]

(* The shift of x86 is by 16-bit words: a low byte takes bits of the high  *)
(* byte above it, which the mask removes.                                  *)
srli_epi16(r) ==
    [i \in DOMAIN r |-> ((r[i] + IF i % 2 = 0 THEN Half * r[i + 1] ELSE 0) \div Quarter) % Quarter]

vshrq_n_u8(r) == [i \in DOMAIN r |-> r[i] \div Quarter]

Lookup(t, lo, hi, shift(_)) ==
    LET n == <<Low(lo), shift(lo), Low(hi), shift(hi)>>
        value == [i \in DOMAIN lo |->
                    Add(Add(t[0][n[1][i]], t[1][n[2][i]]), Add(t[2][n[3][i]], t[3][n[4][i]]))]
    IN  [lo |-> [i \in DOMAIN lo |-> value[i] % Half],
         hi |-> [i \in DOMAIN lo |-> value[i] \div Half]]

multiply_ssse3(t, lo, hi) == Lookup(t, lo, hi, srli_epi16)

multiply_neon(t, lo, hi) == Lookup(t, lo, hi, vshrq_n_u8)

(* load_tables broadcasts each table to both lanes.                        *)
multiply_avx2(t, lo, hi) == Lookup(t, lo, hi, srli_epi16)

gfni_multiply(affine, lo, hi) ==
    LET half(h) == [i \in DOMAIN lo |-> Add(affine[0][h][lo[i]], affine[1][h][hi[i]])]
    IN  [lo |-> half(0), hi |-> half(1)]

----------------------------------------------------------------------------
(* Conversion and product in one pass, block by block                      *)

user_to_work_128(multiply(_, _), s) ==
    LET p(half) == multiply(At(s, half * Lane, Lane), At(s, (2 + half) * Lane, Lane))
        p0 == p(0)
        p1 == p(1)
    IN  Joined(<<UnpackLo(p0.lo, p0.hi), UnpackHi(p0.lo, p0.hi),
                 UnpackLo(p1.lo, p1.hi), UnpackHi(p1.lo, p1.hi)>>)

work_to_user_128(multiply(_, _), s) ==
    LET p(half) == LET a == At(s, 2 * half * Lane, Lane)
                       b == At(s, (2 * half + 1) * Lane, Lane)
                   IN  multiply(Pack(a, b, 0), Pack(a, b, 1))
        p0 == p(0)
        p1 == p(1)
    IN  Joined(<<p0.lo, p1.lo, p0.hi, p1.hi>>)

ssse3_user_to_work(t, s) ==
    EachBlock(s, BlockBytes, LAMBDA b : user_to_work_128(LAMBDA lo, hi : multiply_ssse3(t, lo, hi), b))

ssse3_work_to_user(t, s) ==
    EachBlock(s, BlockBytes, LAMBDA b : work_to_user_128(LAMBDA lo, hi : multiply_ssse3(t, lo, hi), b))

neon_user_to_work(t, s) ==
    EachBlock(s, BlockBytes, LAMBDA b : user_to_work_128(LAMBDA lo, hi : multiply_neon(t, lo, hi), b))

neon_work_to_user(t, s) ==
    EachBlock(s, BlockBytes, LAMBDA b : work_to_user_128(LAMBDA lo, hi : multiply_neon(t, lo, hi), b))

(* The 256-bit unpacks leave lanes 0 and 1 of the block in a and b crossed.*)
user_to_work_256(multiply(_, _), s) ==
    LET p == multiply(At(s, 0, 2 * Lane), At(s, 2 * Lane, 2 * Lane))
        a == UnpackLo(p.lo, p.hi)
        b == UnpackHi(p.lo, p.hi)
    IN  Joined(<<Permute2x128(a, b, 0), Permute2x128(a, b, 1)>>)

work_to_user_256(multiply(_, _), s) ==
    LET a == At(s, 0, 2 * Lane)
        b == At(s, 2 * Lane, 2 * Lane)
        p == multiply(Permute4x64(Pack(a, b, 0)), Permute4x64(Pack(a, b, 1)))
    IN  Joined(<<p.lo, p.hi>>)

avx2_user_to_work(t, s) ==
    EachBlock(s, BlockBytes, LAMBDA b : user_to_work_256(LAMBDA lo, hi : multiply_avx2(t, lo, hi), b))

avx2_work_to_user(t, s) ==
    EachBlock(s, BlockBytes, LAMBDA b : work_to_user_256(LAMBDA lo, hi : multiply_avx2(t, lo, hi), b))

user_to_work_gfni_block(affine, b) ==
    user_to_work_256(LAMBDA lo, hi : gfni_multiply(affine, lo, hi), b)

work_to_user_gfni_block(affine, b) ==
    work_to_user_256(LAMBDA lo, hi : gfni_multiply(affine, lo, hi), b)

(* Pairs of blocks and then the odd one; what they do not reach is zero.   *)
InPairs(s, done) ==
    LET full == Swept(Size(s), 2 * BlockBytes)
        end == IF full # Size(s) THEN full + BlockBytes ELSE full
    IN  [k \in DOMAIN s |-> IF k < end THEN done[k] ELSE 0]

user_to_work_gfni(affine, s) ==
    InPairs(s, EachBlock(s, BlockBytes, LAMBDA b : user_to_work_gfni_block(affine, b)))

work_to_user_gfni(affine, s) ==
    InPairs(s, EachBlock(s, BlockBytes, LAMBDA b : work_to_user_gfni_block(affine, b)))

scalar_user_to_work_mul(user, log_m) ==
    LET input == Elements(EachBlock(user, BlockBytes, user_bytes_to_work_bytes_scalar))
    IN  [e \in DOMAIN input |-> mul_log(input[e], log_m)]

scalar_work_mul_to_user(work, log_m) ==
    EachBlock(LeBytes([e \in DOMAIN work |-> mul_log(work[e], log_m)]), BlockBytes,
              work_bytes_to_user_bytes_scalar)

----------------------------------------------------------------------------
(* Products of lanes                                                       *)

HasKernel(m) == ~m.bigEndian /\ (m.arch = "aarch64" \/ (m.arch = "x86_64" /\ m.std))

OnlySsse3(m) == OnX86(m, "ssse3") /\ ~OnX86(m, "avx2")

(* No fused kernel: the conversion and the product run one after the other *)
(* through scratch, or, without std, in a scalar loop.                     *)
Portable(m) == ~OnX86(m, "ssse3") /\ ~(m.arch = "aarch64" /\ ~m.bigEndian)

(* gfni_backend_available: only looks at the choice GF8 has made.          *)
gfni_backend_available(m) == OnX86(m, "gfni") /\ m.gfni

Stored(xor, out, product) == IF xor THEN Xor(out, product) ELSE product

tabled(t, v) ==
    Add(Add(t[0][v % Quarter], t[1][(v \div Quarter) % Quarter]),
        Add(t[2][(v \div Quarter ^ 2) % Quarter], t[3][v \div Quarter ^ 3]))

mulgf16_tabled_scalar(t, xor, out, input) ==
    Stored(xor, out, [e \in DOMAIN input |-> tabled(t, input[e])])

(* Two registers of elements, through their planes and back.               *)
ProductChunk(multiply(_, _), width, c) ==
    LET a == At(c, 0, width)
        b == At(c, width, width)
        p == multiply(Pack(a, b, 0), Pack(a, b, 1))
    IN  Joined(<<UnpackLo(p.lo, p.hi), UnpackHi(p.lo, p.hi)>>)

(* Whole chunks in registers of width bytes, the elements left by tail.    *)
Vectored(multiply(_, _), width, input, tail(_)) ==
    LET done == Swept(Size(input), width)
        head == Elements(EachBlock(LeBytes(At(input, 0, done)), 2 * width,
                                   LAMBDA c : ProductChunk(multiply, width, c)))
        rest == tail(At(input, done, Size(input) - done))
    IN  [e \in DOMAIN input |-> IF e < done THEN head[e] ELSE rest[e - done]]

mulgf16_ssse3(t, xor, out, input) ==
    Stored(xor, out, Vectored(LAMBDA lo, hi : multiply_ssse3(t, lo, hi), Lane, input,
                              LAMBDA rest : mulgf16_tabled_scalar(t, FALSE, rest, rest)))

mulgf16_neon(t, xor, out, input) ==
    Stored(xor, out, Vectored(LAMBDA lo, hi : multiply_neon(t, lo, hi), Lane, input,
                              LAMBDA rest : mulgf16_tabled_scalar(t, FALSE, rest, rest)))

(* What both lanes hold once the first one is new: in a butterfly the      *)
(* second was updated before the product or is now.                        *)
BothLanes(butterfly, inverse, factor, new) ==
    [dst |-> new,
     src |-> IF butterfly /\ ~inverse THEN Xor(factor, new) ELSE factor]

(* The lane order the packs leave is the one the unpacks undo.             *)
avx2_core(t, xor, butterfly, inverse, out, input) ==
    LET factor == IF inverse THEN Xor(input, out) ELSE input
        product == Vectored(LAMBDA lo, hi : multiply_avx2(t, lo, hi), 2 * Lane, factor,
                            LAMBDA rest : mulgf16_ssse3(t, FALSE, rest, rest))
    IN  BothLanes(butterfly, inverse, factor, Stored(xor \/ butterfly, out, product))

mulgf16_avx2(t, xor, out, input) == avx2_core(t, xor, FALSE, FALSE, out, input).dst

butterfly_avx2(t, inverse, out, input) == avx2_core(t, TRUE, TRUE, inverse, out, input)

mulgf16_tabled(m, t, xor, out, input) ==
    CASE OnX86(m, "avx2") -> mulgf16_avx2(t, xor, out, input)
      [] OnlySsse3(m) -> mulgf16_ssse3(t, xor, out, input)
      [] m.arch = "aarch64" -> mulgf16_neon(t, xor, out, input)
      [] OTHER -> mulgf16_tabled_scalar(t, xor, out, input)

mulgf16_simd(m, xor, out, input, log_m) ==
    mulgf16_tabled(m, build(m, log_m), xor, out, input)

should_use_simd(m, n) == Lane <= n /\ HasKernel(m)

Product16(m, xor, out, input, log_m) ==
    IF should_use_simd(m, Size(input)) THEN mulgf16_simd(m, xor, out, input, log_m)
    ELSE Stored(xor, out, [e \in DOMAIN input |-> mul_log(input[e], log_m)])

mulgf16(m, input, log_m) ==
    IF log_m = MODULUS THEN input ELSE Product16(m, FALSE, input, input, log_m)

----------------------------------------------------------------------------
(* Sums of lanes: passes of ever smaller chunks, each from where the one   *)
(* before it stopped.                                                      *)

Chunked(dst, src, widths) ==
    LET n == Size(dst)
        pass[i \in 0 .. Cardinality(DOMAIN widths)] ==
            IF i = 0 THEN [at |-> 0, dst |-> dst]
            ELSE LET before == pass[i - 1]
                     end == before.at + Swept(n - before.at, widths[i])
                 IN  [at |-> end,
                      dst |-> [k \in DOMAIN dst |->
                                IF k \in before.at .. end - 1 THEN Add(before.dst[k], src[k])
                                ELSE before.dst[k]]]
    IN  pass[Cardinality(DOMAIN widths)].dst

slice_xor_avx2(dst, src) == Chunked(dst, src, <<2 * Lane, 1>>)

slice_xor_neon(dst, src) == Chunked(dst, src, <<4 * Lane, Lane, 1>>)

slice_xor_u64(dst, src) == Chunked(dst, src, <<4 * Lane, Lane \div 2, 1>>)

(* The twins of GF16 work on the bytes of the elements.                    *)
slice_xor_u16_avx2(dst, src) == Chunked(dst, src, <<2 * Lane, 1>>)

slice_xor_u16_neon(dst, src) == Chunked(dst, src, <<4 * Lane, Lane, 1>>)

slice_xor_u16_u64(dst, src) == Chunked(dst, src, <<4 * Lane, Lane \div 2, 1>>)

slice_xor(m, dst, src) ==
    CASE OnX86(m, "avx2") -> slice_xor_avx2(dst, src)
      [] m.arch = "aarch64" -> slice_xor_neon(dst, src)
      [] OTHER -> slice_xor_u64(dst, src)

slice_xor_u16(m, dst, src) ==
    LET d == LeBytes(dst)
        s == LeBytes(src)
    IN  CASE m.arch = "x86_64" /\ m.std /\ Size(dst) = 2 * Lane -> Xor(dst, src)
          [] OnX86(m, "avx2") /\ Size(dst) # 2 * Lane -> Elements(slice_xor_u16_avx2(d, s))
          [] m.arch = "aarch64" -> Elements(slice_xor_u16_neon(d, s))
          [] OTHER -> Elements(slice_xor_u16_u64(d, s))

mulgf16_xor(m, out, input, log_m) ==
    IF log_m = MODULUS THEN slice_xor_u16(m, out, input)
    ELSE Product16(m, TRUE, out, input, log_m)

----------------------------------------------------------------------------
(* Dispatch of the fused conversions                                       *)

(* Which of the fused kernels a machine has for n bytes.                   *)
FusedKernel(m, n) ==
    CASE OnX86(m, "avx2") /\ GFNI_LAYOUT_MIN_BYTES <= n /\ gfni_backend_available(m) -> "gfni"
      [] \/ OnX86(m, "avx2") /\ ~(GFNI_LAYOUT_MIN_BYTES <= n /\ gfni_backend_available(m))
         \/ NostdAvx2(m) /\ NOSTD_AVX2_MIN_BYTES <= n -> "avx2"
      [] OnlySsse3(m) -> "ssse3"
      [] m.arch = "aarch64" /\ ~m.bigEndian -> "neon"
      [] Portable(m) /\ m.std -> "two passes"
      [] OTHER -> "scalar"

FusedToWork(m, kernel, user, t, log_m) ==
    CASE kernel = "gfni" -> Elements(user_to_work_gfni(Affine[log_m], user))
      [] kernel = "avx2" -> Elements(avx2_user_to_work(t, user))
      [] kernel = "ssse3" -> Elements(ssse3_user_to_work(t, user))
      [] kernel = "neon" -> Elements(neon_user_to_work(t, user))
      [] kernel = "two passes" -> mulgf16(m, user_bytes_to_work_u16_into(m, user), log_m)
      [] kernel = "scalar" -> scalar_user_to_work_mul(user, log_m)

user_to_work_mul(m, user, log_m) ==
    IF log_m = MODULUS THEN user_bytes_to_work_u16_into(m, user)
    ELSE FusedToWork(m, FusedKernel(m, Size(user)), user, build(m, log_m), log_m)

FusedToUser(m, kernel, work, t, log_m) ==
    CASE kernel = "gfni" -> work_to_user_gfni(Affine[log_m], LeBytes(work))
      [] kernel = "avx2" -> avx2_work_to_user(t, LeBytes(work))
      [] kernel = "ssse3" -> ssse3_work_to_user(t, LeBytes(work))
      [] kernel = "neon" -> neon_work_to_user(t, LeBytes(work))
      [] kernel = "two passes" -> work_u16_to_user_bytes(m, mulgf16(m, work, log_m))
      [] kernel = "scalar" -> scalar_work_mul_to_user(work, log_m)

work_mul_to_user(m, work, log_m) ==
    IF log_m = MODULUS THEN work_u16_to_user_bytes(m, work)
    ELSE FusedToUser(m, FusedKernel(m, 2 * Size(work)), work, build(m, log_m), log_m)

----------------------------------------------------------------------------
(* Butterflies of GF16                                                     *)

(* gfni_butterfly::run on one 256-bit register: in each lane the low bytes *)
(* go before the high bytes, and a copy has the halves swapped; the        *)
(* diagonal matrices keep a byte in its half, the crossed ones move it.    *)
gfni_product(affine, register) ==
    LET half == Lane \div 2
        split == [k \in DOMAIN register |->
                    LET i == k % Lane IN
                    register[k - i + IF i < half THEN 2 * i ELSE 2 * (i - half) + 1]]
        other == [k \in DOMAIN register |-> split[k - (k % Lane) + ((k + half) % Lane)]]
        product == [k \in DOMAIN register |->
                      LET h == IF k % Lane < half THEN 0 ELSE 1
                      IN  Add(affine[h][h][split[k]], affine[1 - h][h][other[k]])]
    IN  [k \in DOMAIN register |->
            LET i == k % Lane IN product[(k - i) + (i \div 2) + (i % 2) * half]]

(* Fewer than four registers one by one, more in pairs and the odd one;    *)
(* elements that fill no register one by one.                              *)
Reached(n) ==
    LET count == n \div Lane
        vectors == IF count < 4 THEN count ELSE Swept(count, 2) + (count % 2)
    IN  [vector |-> 0 .. Lane * vectors - 1, tail |-> Lane * count .. n - 1]

RunOn(reached, log_m, inverse, out, input, factor) ==
    LET vector == Elements(EachBlock(LeBytes(At(factor, 0, Swept(Size(input), Lane))), 2 * Lane,
                                     LAMBDA r : gfni_product(Affine[log_m], r)))
        new == [e \in DOMAIN out |->
                    CASE e \in reached.vector -> Add(out[e], vector[e])
                      [] e \in reached.tail -> Add(out[e], mul_log(factor[e], log_m))
                      [] OTHER -> out[e]]
        both == BothLanes(TRUE, inverse, factor, new)
    IN  [dst |-> both.dst,
         src |-> [e \in DOMAIN input |->
                    IF e \in reached.vector \cup reached.tail THEN both.src[e] ELSE input[e]]]

run(log_m, inverse, out, input) ==
    RunOn(Reached(Size(input)), log_m, inverse, out, input,
          IF inverse THEN Xor(input, out) ELSE input)

try_butterfly_avx2(m, log_m, inverse, out, input) ==
    IF gfni_backend_available(m) THEN run(log_m, inverse, out, input)
    ELSE butterfly_avx2(build(m, log_m), inverse, out, input)

(* One pass over both lanes, where there is a kernel for it.  Without std  *)
(* no back end of GF8 counts, and the tables are all there is.             *)
FusedButterfly(m, n) ==
    \/ NostdAvx2(m) /\ NOSTD_AVX2_BUTTERFLY_MIN_LEN <= n
    \/ OnX86(m, "avx2") /\ 2 * Lane <= n

(* y ^= x once x is new.                                                   *)
ThenSource16(m, new, src) == [dst |-> new, src |-> slice_xor_u16(m, src, new)]

dit2_step16(m, dst, src, log_m) ==
    CASE log_m = MODULUS -> [dst |-> dst, src |-> slice_xor_u16(m, src, dst)]
      [] log_m # MODULUS /\ FusedButterfly(m, Size(src)) ->
            try_butterfly_avx2(m, log_m, FALSE, dst, src)
      [] OTHER -> ThenSource16(m, mulgf16_xor(m, dst, src, log_m), src)

dit2_step_inv16(m, dst, src, log_m) ==
    CASE log_m = MODULUS -> [dst |-> dst, src |-> slice_xor_u16(m, src, dst)]
      [] log_m # MODULUS /\ FusedButterfly(m, Size(src)) ->
            try_butterfly_avx2(m, log_m, TRUE, dst, src)
      [] OTHER ->
            LET new == slice_xor_u16(m, src, dst)
            IN  [dst |-> mulgf16_xor(m, dst, new, log_m), src |-> new]

----------------------------------------------------------------------------
(* GF8: a byte is an element, looked up whole or by its two nibbles.       *)

(* The shift is by 64-bit words and reaches into the byte above.           *)
ShiftedNibble(s, k, width) ==
    LET above == IF k % width = width - 1 THEN 0 ELSE s[k + 1]
    IN  ((s[k] + ORDER * above) \div Half) % Half

NibbleLookup(lut, lo, hi) == Add(lut[lo], lut[hi * Half])

(* Whole chunks by shuffles, the tail by the 256-entry table.              *)
ChunkProduct(lut, s, chunk, high(_, _)) ==
    [k \in DOMAIN s |-> IF k < Swept(Size(s), chunk)
                        THEN NibbleLookup(lut, s[k] % Half, high(s, k))
                        ELSE lut[s[k]]]

Srli64(s, k) == ShiftedNibble(s, k, Lane \div 2)

Vshr8(s, k) == s[k] \div Half

lut_xor_avx2_prebuilt(lut, dst, src) ==
    Xor(dst, ChunkProduct(lut, src, 2 * Lane, Srli64))

lut_xor_ssse3_prebuilt(lut, dst, src) ==
    Xor(dst, ChunkProduct(lut, src, Lane, Srli64))

lut_xor_neon_prebuilt(lut, dst, src) ==
    Xor(dst, ChunkProduct(lut, src, Lane, Vshr8))

lut_xor_impl(m, lut, dst, src) ==
    LET n == Size(dst)
    IN  CASE 2 * Lane <= n /\ OnX86(m, "avx2") -> lut_xor_avx2_prebuilt(lut, dst, src)
          [] Lane <= n /\ OnX86(m, "ssse3") /\ ~(2 * Lane <= n /\ OnX86(m, "avx2")) ->
                lut_xor_ssse3_prebuilt(lut, dst, src)
          [] Lane <= n /\ m.arch = "aarch64" -> lut_xor_neon_prebuilt(lut, dst, src)
          [] OTHER -> Xor(dst, [k \in DOMAIN src |-> lut[src[k]]])

assign_avx2_mul(lut, src) == ChunkProduct(lut, src, 2 * Lane, Srli64)

mulgf8(m, src, lut) ==
    IF 4 * Lane <= Size(src) /\ OnX86(m, "avx2") THEN assign_avx2_mul(lut, src)
    ELSE [k \in DOMAIN src |-> lut[src[k]]]

(* y ^= x once x is new.                                                   *)
ThenSource8(m, new, src) == [dst |-> new, src |-> slice_xor(m, src, new)]

dit2_step_prebuilt(m, dst, src, log_m, lut) ==
    ThenSource8(m, IF log_m = MODULUS THEN dst ELSE lut_xor_impl(m, lut, dst, src), src)

dit2_step_inv_prebuilt(m, dst, src, log_m, lut) ==
    LET new == slice_xor(m, src, dst)
    IN  [dst |-> IF log_m = MODULUS THEN dst ELSE lut_xor_impl(m, lut, dst, new),
         src |-> new]

----------------------------------------------------------------------------
(* Blocks of the Walsh transform                                           *)

radix2_butterfly(data, off, dist, lane, plus(_, _), minus(_, _)) ==
    IF lane = 0 THEN plus(data[off], data[off + dist]) ELSE minus(data[off], data[off + dist])

(* Windows of width positions from r up to r + dist: each is loaded from   *)
(* every row and then stored to every row, the last row's store the last.  *)
Windows(data, r, dist, rows, width, butterfly(_, _, _, _)) ==
    LET count == (dist + width - 1) \div width
        after[w \in 0 .. count] ==
            IF w = 0 THEN data
            ELSE LET before == after[w - 1]
                     off == r + (w - 1) * width
                     stored(p) == {k \in 0 .. rows - 1 : p - off - k * dist \in 0 .. width - 1}
                 IN  [p \in DOMAIN data |->
                        IF stored(p) = {} THEN before[p]
                        ELSE LET k == Max(stored(p))
                             IN  butterfly(before, p - k * dist, dist, k)]
    IN  after[count]

Scalar4(data, off, dist, k) == radix4_butterfly(data, off, dist, k, add_mod, sub_mod)

Scalar2(data, off, dist, k) == radix2_butterfly(data, off, dist, k, add_mod, sub_mod)

(* x86 compares signed words, so the sign bit is flipped first.            *)
Biased(a) == (a + ORDER \div 2) % ORDER

Signed(a) == IF a < ORDER \div 2 THEN a ELSE a - ORDER

cmpgt_epi16(a, b) == IF Signed(Biased(b)) < Signed(Biased(a)) THEN MODULUS ELSE 0

add_mod_avx2(a, b) == LET s == (a + b) % ORDER IN (s - cmpgt_epi16(a, s)) % ORDER

sub_mod_avx2(a, b) == LET d == (a - b) % ORDER IN (d + cmpgt_epi16(b, a)) % ORDER

Vector4(data, off, dist, k) == radix4_butterfly(data, off, dist, k, add_mod_avx2, sub_mod_avx2)

Vector2(data, off, dist, k) == radix2_butterfly(data, off, dist, k, add_mod_avx2, sub_mod_avx2)

(* NEON compares unsigned.                                                 *)
Neon4(data, off, dist, k) == radix4_butterfly(data, off, dist, k, add_mod_masked, sub_mod_masked)

Neon2(data, off, dist, k) == radix2_butterfly(data, off, dist, k, add_mod_masked, sub_mod_masked)

radix4_scalar(data, r, dist) == Windows(data, r, dist, 4, 1, Scalar4)

radix2_scalar(data, r, dist) == Windows(data, r, dist, 2, 1, Scalar2)

radix4_avx2(data, r, dist) == Windows(data, r, dist, 4, Lane, Vector4)

radix2_avx2(data, r, dist) == Windows(data, r, dist, 2, Lane, Vector2)

radix4_sse2(data, r, dist) == Windows(data, r, dist, 4, Lane \div 2, Vector4)

radix2_sse2(data, r, dist) == Windows(data, r, dist, 2, Lane \div 2, Vector2)

radix4_neon(data, r, dist) == Windows(data, r, dist, 4, Lane \div 2, Neon4)

radix2_neon(data, r, dist) == Windows(data, r, dist, 2, Lane \div 2, Neon2)

LittleEndian(m, arch) == m.arch = arch /\ ~m.bigEndian

radix4_block(m, data, r, dist) ==
    CASE Lane <= dist /\ OnX86(m, "avx2") -> radix4_avx2(data, r, dist)
      [] Lane \div 2 <= dist /\ m.arch = "x86_64" /\ ~(Lane <= dist /\ OnX86(m, "avx2")) ->
            radix4_sse2(data, r, dist)
      [] Lane \div 2 <= dist /\ LittleEndian(m, "aarch64") -> radix4_neon(data, r, dist)
      [] OTHER -> radix4_scalar(data, r, dist)

radix2_block(m, data, r, dist) ==
    CASE Lane <= dist /\ OnX86(m, "avx2") -> radix2_avx2(data, r, dist)
      [] Lane \div 2 <= dist /\ m.arch = "x86_64" /\ ~(Lane <= dist /\ OnX86(m, "avx2")) ->
            radix2_sse2(data, r, dist)
      [] Lane \div 2 <= dist /\ LittleEndian(m, "aarch64") -> radix2_neon(data, r, dist)
      [] OTHER -> radix2_scalar(data, r, dist)

(* One pass: the blocks of size positions, from the first on.              *)
BlockPass(data, size, block(_, _)) ==
    LET after[b \in 0 .. Size(data) \div size] ==
            IF b = 0 THEN data ELSE block(after[b - 1], (b - 1) * size)
    IN  after[Size(data) \div size]

(* fwht16_variable: radix-4 passes while four rows fit, then at most one   *)
(* radix-2 pass.                                                           *)
fwht16_blocks(m, data) ==
    LET n == Size(data)
        quads == Cardinality({k \in 1 .. BITWIDTH : 4 ^ k <= n})
        after[k \in 0 .. quads] ==
            IF k = 0 THEN data
            ELSE BlockPass(after[k - 1], 4 ^ k,
                           LAMBDA d, r : radix4_block(m, d, r, 4 ^ (k - 1)))
        dist == 4 ^ quads
    IN  IF 2 * dist <= n
        THEN BlockPass(after[quads], 2 * dist, LAMBDA d, r : radix2_block(m, d, r, dist))
        ELSE after[quads]

----------------------------------------------------------------------------
(* Calls                                                                   *)

(* One position at a time, and slices in which every position differs.     *)
Inputs(n, size) ==
    {[i \in 0 .. n - 1 |-> IF i = p THEN size - 1 ELSE 0] : p \in 0 .. n - 1}
    \cup {[i \in 0 .. n - 1 |-> (step * i + i \div size + step) % size] : step \in {1, 3}}

(* What the lane written to holds before.                                  *)
Old(n) == [i \in 0 .. n - 1 |-> (5 * i + 2) % ORDER]

Logs == {1, MODULUS - 1, MODULUS}

Returned(kind, log_m, dst, src, out) ==
    /\ call = NoCall
    /\ call' = [kind |-> kind, log |-> log_m, dst |-> dst, src |-> src, out |-> out]
    /\ UNCHANGED machine

UserToWork ==
    \E blocks \in BlockCounts, log_m \in Logs :
        \E user \in Inputs(blocks * BlockBytes, Half) :
            Returned("to work", log_m, << >>, user, user_to_work_mul(machine, user, log_m))

WorkToUser ==
    \E blocks \in BlockCounts, log_m \in Logs :
        \E work \in Inputs(blocks * (BlockBytes \div 2), ORDER) :
            Returned("to user", log_m, << >>, work, work_mul_to_user(machine, work, log_m))

Multiply16 ==
    \E n \in SliceLengths, log_m \in Logs : \E src \in Inputs(n, ORDER) :
        Returned("scale", log_m, Old(n), src, mulgf16(machine, src, log_m))

MultiplyXor16 ==
    \E n \in SliceLengths, log_m \in Logs : \E src \in Inputs(n, ORDER) :
        Returned("scale and add", log_m, Old(n), src, mulgf16_xor(machine, Old(n), src, log_m))

Butterfly16 ==
    \E n \in SliceLengths, log_m \in Logs : \E src \in Inputs(n, ORDER) :
        Returned("forward", log_m, Old(n), src, dit2_step16(machine, Old(n), src, log_m))

ButterflyInv16 ==
    \E n \in SliceLengths, log_m \in Logs : \E src \in Inputs(n, ORDER) :
        Returned("inverse", log_m, Old(n), src, dit2_step_inv16(machine, Old(n), src, log_m))

Multiply8 ==
    \E n \in SliceLengths, log_m \in Logs : \E src \in Inputs(n, ORDER) :
        Returned("scale", log_m, Old(n), src, mulgf8(machine, src, LutProduct[log_m]))

Butterfly8 ==
    \E n \in SliceLengths, log_m \in Logs : \E src \in Inputs(n, ORDER) :
        Returned("forward", log_m, Old(n), src,
                 dit2_step_prebuilt(machine, Old(n), src, log_m, LutProduct[log_m]))

ButterflyInv8 ==
    \E n \in SliceLengths, log_m \in Logs : \E src \in Inputs(n, ORDER) :
        Returned("inverse", log_m, Old(n), src,
                 dit2_step_inv_prebuilt(machine, Old(n), src, log_m, LutProduct[log_m]))

Transform ==
    \E k \in 0 .. BITWIDTH : \E src \in Inputs(2 ^ k, ORDER) :
        Returned("walsh", 0, << >>, src, fwht16_blocks(machine, src))

Dismiss ==
    /\ call # NoCall
    /\ call' = NoCall
    /\ UNCHANGED machine

Init == machine \in Machines /\ call = NoCall

Next ==
    \/ UserToWork \/ WorkToUser
    \/ Multiply16 \/ MultiplyXor16 \/ Butterfly16 \/ ButterflyInv16
    \/ Multiply8 \/ Butterfly8 \/ ButterflyInv8
    \/ Transform
    \/ Dismiss

Spec == Init /\ [][Next]_vars

----------------------------------------------------------------------------
(* The products a kernel owes its caller.                                  *)
Scale(log_m, s) == [k \in DOMAIN s |-> FieldProduct[log_m][s[k]]]

(* The wire layout: in each block the low bytes of its elements, then the  *)
(* high bytes.                                                             *)
WireElements(user) ==
    LET half == BlockBytes \div 2
    IN  [e \in 0 .. Size(user) \div 2 - 1 |->
            LET at == (e \div half) * BlockBytes + (e % half) IN user[at] + Half * user[at + half]]

(* A butterfly reads MODULUS as the log of zero.                           *)
Forward(log_m, dst, src) ==
    LET new == IF log_m = MODULUS THEN dst ELSE Xor(dst, Scale(log_m, src))
    IN  [dst |-> new, src |-> Xor(src, new)]

Backward(log_m, dst, src) ==
    LET new == Xor(src, dst)
    IN  [dst |-> IF log_m = MODULUS THEN dst ELSE Xor(dst, Scale(log_m, new)), src |-> new]

(* Entry p of a Walsh transform: the entries whose index shares an odd     *)
(* number of bits with p are subtracted.                                   *)
WalshEntry(s, p) ==
    LET odd(q) == Cardinality({i \in 0 .. BITWIDTH : Bit(p, i) /\ Bit(q, i)}) % 2 = 1
    IN  MapThenSumSet(LAMBDA q : IF odd(q) THEN -s[q] ELSE s[q], DOMAIN s)

(* Whatever the machine and the length, a kernel computes what its scalar  *)
(* form is there to compute: register by register, through unpacks, packs  *)
(* and permutations, with its tail, and in place.  The transform's entries *)
(* are right modulo MODULUS, the logs' own modulus.                        *)
KernelsExact ==
    call # NoCall =>
        LET o == call.out IN
        CASE call.kind = "to work" -> o = Scale(call.log, WireElements(call.src))
          [] call.kind = "to user" -> WireElements(o) = Scale(call.log, call.src)
          [] call.kind = "scale" -> o = Scale(call.log, call.src)
          [] call.kind = "scale and add" -> o = Xor(call.dst, Scale(call.log, call.src))
          [] call.kind = "forward" -> o = Forward(call.log, call.dst, call.src)
          [] call.kind = "inverse" -> o = Backward(call.log, call.dst, call.src)
          [] call.kind = "walsh" ->
                \A p \in DOMAIN o : (o[p] - WalshEntry(call.src, p)) % MODULUS = 0
=============================================================================
