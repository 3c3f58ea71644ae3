-------------------------- MODULE LeopardTransform --------------------------
(***************************************************************************)
(* The additive FFT of the Leopard codecs: the schedules the plan builders *)
(* of leopard_gf8/mod.rs and leopard_gf16/mod.rs lay out, the butterflies  *)
(* of ops.rs, and the transforms of encode.rs and decode.rs that run them. *)
(*                                                                         *)
(* Every operation treats the byte (or u16) positions of a lane alike and  *)
(* apart, so a transform is stated for one position: the work buffer is a  *)
(* function from lanes to one element each, a column.  mul is the product  *)
(* table of the kernel the call was dispatched to (LeopardField), strategy *)
(* the radix-4 strategy of GF8 encoding.                                   *)
(***************************************************************************)
EXTENDS LeopardField, SequencesExt

CeilDiv(n, k) == (n + k - 1) \div k

ceil_pow2(n) == Min({q \in {2 ^ k : k \in 0 .. BITWIDTH + 1} : n <= q})

(* The number of radix-4 passes of a transform of m lanes.                 *)
Log4(m) == Max({k \in 0 .. BITWIDTH : 4 ^ k <= m})

(* step applied to w for every member of seq in turn.                      *)
Sweep(step(_, _), w, seq) ==
    LET after[i \in 0 .. Len(seq)] ==
            IF i = 0 THEN w
            ELSE LET before == after[i - 1] IN step(before, seq[i])
    IN  after[Len(seq)]

Lanes(w, from, count) == [i \in 0 .. count - 1 |-> w[from + i]]

Zeroed(w, S) == [i \in DOMAIN w |-> IF i \in S THEN 0 ELSE w[i]]

Xored(x, y) == [i \in DOMAIN x |-> Add(x[i], y[i])]

----------------------------------------------------------------------------
(* Schedules.  at is where the builder begins in the skew table it is      *)
(* handed: the encoder passes a tail of fft_skew, the decoders the whole   *)
(* of it and index one lower.                                              *)

Stage4Block(skew_lut, r, dist, at) ==
    LET i_end == r + dist
    IN  [r |-> r, dist |-> dist,
         log_m01 |-> skew_lut[at + i_end],
         log_m02 |-> skew_lut[at + i_end + dist],
         log_m23 |-> skew_lut[at + i_end + 2 * dist]]

(* The blocks of one radix-4 pass that start below mtrunc.                 *)
Stage4Pass(skew_lut, dist, mtrunc, at) ==
    [k \in 1 .. CeilDiv(mtrunc, 4 * dist) |->
        Stage4Block(skew_lut, (k - 1) * 4 * dist, dist, at)]

build_fft_dit8_plan(mtrunc, m, skew_lut) ==
    [mtrunc |-> mtrunc,
     stage4_blocks |->
        FlattenSeq([s \in 1 .. Log4(m) |-> Stage4Pass(skew_lut, m \div 4 ^ s, mtrunc, -1)]),
     final_stage |->
        IF m \div 4 ^ Log4(m) = 2
        THEN [k \in 1 .. CeilDiv(mtrunc, 2) |->
                [r |-> 2 * (k - 1), dist |-> 1, log_m |-> skew_lut[2 * (k - 1)]]]
        ELSE << >>]

build_fft_dit16_plan(mtrunc, m, skew_lut) == build_fft_dit8_plan(mtrunc, m, skew_lut)

(* The first pass covers whole groups of four and then the partial one.    *)
build_ifft_dit8_plan(mtrunc, m, skew_lut, at) ==
    LET dist == 4 ^ Log4(m)
    IN  [mtrunc |-> mtrunc, m |-> m,
         initial_blocks |-> IF 4 <= m THEN Stage4Pass(skew_lut, 1, mtrunc, at) ELSE << >>,
         later_blocks |->
            FlattenSeq([s \in 1 .. Log4(m) - 1 |-> Stage4Pass(skew_lut, 4 ^ s, mtrunc, at)]),
         clear_start |-> 4 * CeilDiv(mtrunc, 4),
         final_stage |->
            IF dist < m THEN << [r |-> 0, dist |-> dist, log_m |-> skew_lut[at + dist]] >>
            ELSE << >>]

build_ifft_dit16_plan(mtrunc, m, skew_lut, at) == build_ifft_dit8_plan(mtrunc, m, skew_lut, at)

build_ifft_decode_dit8_plan(mtrunc, m, skew_lut) ==
    build_ifft_dit8_plan(mtrunc, m, skew_lut, -1)

build_ifft_decode_dit16_plan(mtrunc, m, skew_lut) ==
    build_ifft_dit16_plan(mtrunc, m, skew_lut, -1)

(* EncodePlans::new: the groups of m data shards, the last one partial.    *)
SkewStart(d, m, g) == m - 1 + g * m

EncodePlans(d, p) ==
    LET m == ceil_pow2(p)
    IN  [ifft |-> [g \in 0 .. CeilDiv(d, m) - 1 |->
                    build_ifft_dit8_plan(Min({m, d - g * m}), m, fft_skew, SkewStart(d, m, g))],
         fft  |-> build_fft_dit8_plan(p, m, fft_skew)]

EncodePlans16(d, p) ==
    LET m == ceil_pow2(p)
    IN  [ifft |-> [g \in 0 .. CeilDiv(d, m) - 1 |->
                    build_ifft_dit16_plan(Min({m, d - g * m}), m, fft_skew, SkewStart(d, m, g))],
         fft  |-> build_fft_dit16_plan(p, m, fft_skew)]

----------------------------------------------------------------------------
(* Butterflies                                                             *)

(* x ^= mul(y); y ^= x.  MODULUS is the log of a zero skew.                *)
fft_dit2(w, x, y, log_m, mul) ==
    LET u == IF log_m = MODULUS THEN w[x] ELSE Add(w[x], mul[log_m][w[y]])
    IN  [w EXCEPT ![x] = u, ![y] = Add(w[y], u)]

(* y ^= x; x ^= mul(y)                                                     *)
ifft_dit2(w, x, y, log_m, mul) ==
    LET v == Add(w[y], w[x])
    IN  [w EXCEPT ![y] = v,
                  ![x] = IF log_m = MODULUS THEN w[x] ELSE Add(w[x], mul[log_m][v])]

dit2(dir, w, pair, mul) ==
    IF dir = "Forward" THEN fft_dit2(w, pair[1], pair[2], pair[3], mul)
    ELSE ifft_dit2(w, pair[1], pair[2], pair[3], mul)

(* The four radix-2 steps of a radix-4 butterfly on lanes a, a + dist, ... *)
fft_dit4_full_lut_scratch(a, k) ==
    LET b == a + k.dist c == a + 2 * k.dist d == a + 3 * k.dist
    IN  << <<a, c, k.log_m02>>, <<b, d, k.log_m02>>,
           <<a, b, k.log_m01>>, <<c, d, k.log_m23>> >>

ifft_dit4_full_lut_scratch(a, k) ==
    LET b == a + k.dist c == a + 2 * k.dist d == a + 3 * k.dist
    IN  << <<a, b, k.log_m01>>, <<c, d, k.log_m23>>,
           <<b, d, k.log_m02>>, <<a, c, k.log_m02>> >>

(* The pairwise form does the inverse's last two steps the other way round *)
(* and leaves out the pairs that reach past the lanes there are.           *)
dit4_pairwise_one(dir, a, k, lanes) ==
    LET b == a + k.dist c == a + 2 * k.dist d == a + 3 * k.dist
        steps == IF dir = "Forward" THEN fft_dit4_full_lut_scratch(a, k)
                 ELSE << <<a, b, k.log_m01>>, <<c, d, k.log_m23>>,
                         <<a, c, k.log_m02>>, <<b, d, k.log_m02>> >>
    IN  SelectSeq(steps, LAMBDA s : s[1] < lanes /\ s[2] < lanes)

(* The steps at lane a when its four lanes are all there.                  *)
Radix4(dir, a, k) ==
    IF dir = "Forward" THEN fft_dit4_full_lut_scratch(a, k)
    ELSE ifft_dit4_full_lut_scratch(a, k)

dit4_at_decomposed(dir, a, k, lanes) == dit4_pairwise_one(dir, a, k, lanes)

(* The bulk is taken without a look at the lanes, the rest lane by lane.   *)
dit4_at_direct(dir, a, k, lanes) ==
    LET bulk_end == Min({k.dist, Max({0, lanes - (k.r + 3 * k.dist)})}) IN
    IF a - k.r < bulk_end \/ a + 3 * k.dist < lanes THEN Radix4(dir, a, k)
    ELSE dit4_pairwise_one(dir, a, k, lanes)

dit4_at_direct_safe(dir, a, k, lanes) ==
    IF a + 3 * k.dist < lanes THEN Radix4(dir, a, k) ELSE dit4_pairwise_one(dir, a, k, lanes)

(* dit4_at with its strategies, dit4_at_16, and the decoders' twins.       *)
dit4_at(dir, w, k, mul, strategy) ==
    LET lanes == Cardinality(DOMAIN w)
        steps(a) == CASE strategy = "Decomposed" -> dit4_at_decomposed(dir, a, k, lanes)
                      [] strategy = "Direct" -> dit4_at_direct(dir, a, k, lanes)
                      [] strategy = "DirectSafe" -> dit4_at_direct_safe(dir, a, k, lanes)
    IN  Sweep(LAMBDA v, a : Sweep(LAMBDA u, s : dit2(dir, u, s, mul), v, steps(a)),
              w, [i \in 1 .. k.dist |-> k.r + i - 1])

dit4_at_16(dir, w, k, mul) == dit4_at(dir, w, k, mul, "Direct")

dit4_decode_at(dir, w, k, mul) == dit4_at(dir, w, k, mul, "Direct")

dit4_decode_at_16(dir, w, k, mul) == dit4_at(dir, w, k, mul, "Direct")

----------------------------------------------------------------------------
(* Encoding one column                                                     *)

(* The final radix-2 pass of an inverse transform.                         *)
InverseFinal(w, plan, mul) ==
    Sweep(LAMBDA v, s : Sweep(LAMBDA u, i : ifft_dit2(u, i, i + s.dist, s.log_m, mul),
                              v, [i \in 1 .. s.dist |-> i - 1]),
          w, plan.final_stage)

(* zero_trailing_lanes(work, clear_start, m - clear_start)                 *)
ClearTrailing(w, plan) == Zeroed(w, plan.clear_start .. plan.m - 1)

(* ifft_dit_encoder8_with_plan, before its sum into xor_dst: group is the  *)
(* data of the group, w the lanes as an earlier use left them.             *)
ifft_dit_encoder8_with_plan(group, plan, w, mul, strategy) ==
    LET load(v, k) ==
            [i \in DOMAIN v |-> IF i \notin k.r .. k.r + 3 THEN v[i]
                                ELSE IF i < plan.mtrunc THEN group[i] ELSE 0]
        first == IF plan.initial_blocks = << >>
                 THEN [i \in DOMAIN w |-> IF i < plan.mtrunc THEN group[i] ELSE 0]
                 ELSE ClearTrailing(
                        Sweep(LAMBDA v, k : dit4_at("Inverse", load(v, k), k, mul, strategy),
                              w, plan.initial_blocks), plan)
        later == Sweep(LAMBDA v, k : dit4_at("Inverse", v, k, mul, strategy),
                       first, plan.later_blocks)
    IN  InverseFinal(later, plan, mul)

ifft_dit_encoder16_with_plan(group, plan, w, mul) ==
    ifft_dit_encoder8_with_plan(group, plan, w, mul, "Direct")

fft_dit8_with_plan(w, plan, mul, strategy) ==
    Sweep(LAMBDA v, s : fft_dit2(v, s.r, s.r + s.dist, s.log_m, mul),
          Sweep(LAMBDA v, k : dit4_at("Forward", v, k, mul, strategy),
                w, plan.stage4_blocks),
          plan.final_stage)

fft_dit16_with_plan(w, plan, mul) == fft_dit8_with_plan(w, plan, mul, "Direct")

(* A group's transform in temp, added to dst.                              *)
Accumulated(dst, temp) == [dst |-> Xored(dst, temp), temp |-> temp]

(* The lanes after the forward transform, which leaves temp alone.         *)
ParityLanes(sum, m, fft, mul, strategy) ==
    LET parity == fft_dit8_with_plan(sum.dst, fft, mul, strategy)
    IN  [i \in 0 .. 2 * m - 1 |-> IF i < m THEN parity[i] ELSE sum.temp[i - m]]

(* One chunk position of encode_with_tables: the first group is transformed*)
(* in lanes 0..m-1, each later one in lanes m..2m-1 and added to them; the *)
(* forward transform leaves the parity in lanes 0..p-1.                    *)
EncodeColumn(data, d, p, plans, work, mul, strategy) ==
    LET m == ceil_pow2(p)
        group(g) == [i \in 0 .. Min({m, d - g * m}) - 1 |-> data[g * m + i]]
        inverse(g, lanes) ==
            ifft_dit_encoder8_with_plan(group(g), plans.ifft[g], lanes, mul, strategy)
        step(v, g) == Accumulated(v.dst, inverse(g, v.temp))
        summed == Sweep(step, [dst |-> inverse(0, Lanes(work, 0, m)),
                               temp |-> Lanes(work, m, m)],
                        [g \in 1 .. CeilDiv(d, m) - 1 |-> g])
    IN  ParityLanes(summed, m, plans.fft, mul, strategy)

----------------------------------------------------------------------------
(* Error locators: the log, for each position, of the product of its       *)
(* differences from the erased ones.  Parity i sits at position i, data i  *)
(* at m + i; the positions between the parity and m count as erased.       *)

Position(d, p, i) == IF i < d THEN ceil_pow2(p) + i ELSE i - d

(* A bug: the padding taken for received zeros.                            *)
ErasedWithoutPadding(d, p, present) ==
    {Position(d, p, i) : i \in (0 .. d + p - 1) \ present}

ErasedPositions(d, p, present) ==
    {Position(d, p, i) : i \in (0 .. d + p - 1) \ present} \cup p .. ceil_pow2(p) - 1

Scaled(locs) == [i \in Elem |-> (locs[i] * log_walsh[i]) % MODULUS]

compute_error_locs(d, p, present) ==
    LET erased == ErasedPositions(d, p, present)
        marked == [i \in Elem |-> IF i \in erased THEN 1 ELSE 0]
    IN  fwht_variable(Scaled(fwht8_mtrunc(marked, ceil_pow2(p) + d)))

compute_error_locs16(d, p, present) ==
    LET erased == ErasedPositions(d, p, present)
        marked == [i \in Elem |-> IF i \in erased THEN 1 ELSE 0]
    IN  fwht16_variable(Scaled(fwht16_mtrunc(marked, ceil_pow2(p) + d)))

SumOver(f, S) == MapThenSumSet(LAMBDA i : f[i], S)

(* The direct sum for few erasures, and the sentinel it leaves at received *)
(* positions so that they are copied and not multiplied.                   *)
fill_sparse_error_locs16(d, p, present) ==
    LET erased == ErasedPositions(d, p, present)
        sum(i) == SumOver([e \in erased |-> log_lut[Add(i, e)]], erased) % MODULUS
        received == {Position(d, p, i) : i \in present}
        marked(i, log) == IF i \in received /\ log = 0 THEN MODULUS ELSE log
    IN  [i \in 0 .. ceil_pow2(p) + d - 1 |-> marked(i, sum(i))]

----------------------------------------------------------------------------
(* Decoding one column                                                     *)

(* m + the index of the last data shard that is present + 1                *)
input_count(d, p, present) ==
    LET data == {i \in present : i < d}
    IN  ceil_pow2(p) + IF data = {} THEN 0 ELSE Max(data) + 1

DecodePlan(d, p, present) ==
    LET n == ceil_pow2(ceil_pow2(p) + d)
    IN  [err_locs |-> compute_error_locs(d, p, present),
         ifft |-> build_ifft_decode_dit8_plan(input_count(d, p, present), n, fft_skew),
         fft |-> build_fft_dit8_plan(ceil_pow2(p) + d, n, fft_skew)]

build_decode_plan(d, p, present, sparse) ==
    LET n == ceil_pow2(ceil_pow2(p) + d)
    IN  [err_locs |-> IF sparse THEN fill_sparse_error_locs16(d, p, present)
                      ELSE compute_error_locs16(d, p, present),
         ifft |-> build_ifft_decode_dit16_plan(input_count(d, p, present), n, fft_skew),
         fft |-> build_fft_dit16_plan(ceil_pow2(p) + d, n, fft_skew)]

(* Scaling by a log: MODULUS copies.                                       *)
mulgf8(x, log_m, mul) == mul[log_m][x]

mulgf16(x, log_m, mul) == IF log_m = MODULUS THEN x ELSE mul[log_m][x]

(* The lanes step 1 fills with zeros: the missing shards, the padding up   *)
(* to m, and what lies between the work size and the transform's.          *)
ZeroLanes(d, p, present) ==
    LET m == ceil_pow2(p)
    IN  ErasedPositions(d, p, present) \cup m + d .. ceil_pow2(m + d) - 1

(* Step 1 of a chunk: the received shards times their locators.            *)
Received(w, shards, d, p, present, err_locs, scale(_, _)) ==
    LET at == [l \in {Position(d, p, i) : i \in present} |->
                CHOOSE i \in present : Position(d, p, i) = l]
        zero == ZeroLanes(d, p, present)
    IN  [l \in DOMAIN w |-> IF l \in DOMAIN at THEN scale(shards[at[l]], err_locs[l])
                            ELSE IF l \in zero THEN 0 ELSE w[l]]

ifft_dit_decode8_with_plan(w, plan, mul) ==
    LET clear(v, k) ==
            Zeroed(v, {i \in DOMAIN v : i \in k.r .. k.r + 3 /\ plan.mtrunc <= i})
        first == IF plan.initial_blocks = << >>
                 THEN Zeroed(w, plan.mtrunc .. plan.m - 1)
                 ELSE ClearTrailing(
                        Sweep(LAMBDA v, k : dit4_decode_at("Inverse", clear(v, k), k, mul),
                              w, plan.initial_blocks), plan)
        later == Sweep(LAMBDA v, k : dit4_decode_at("Inverse", v, k, mul),
                       first, plan.later_blocks)
    IN  InverseFinal(later, plan, mul)

ifft_dit_decode16_with_plan(w, plan, mul) == ifft_dit_decode8_with_plan(w, plan, mul)

fft_dit_decode8_with_plan(w, plan, mul) ==
    Sweep(LAMBDA v, s : fft_dit2(v, s.r, s.r + s.dist, s.log_m, mul),
          Sweep(LAMBDA v, k : dit4_decode_at("Forward", v, k, mul), w, plan.stage4_blocks),
          plan.final_stage)

fft_dit_decode16_with_plan(w, plan, mul) == fft_dit_decode8_with_plan(w, plan, mul)

(* For i in 1..n-1 the width lanes below i take in the width lanes from i  *)
(* on, width being the lowest bit of i.                                    *)
compute_formal_derivative(w) ==
    LET n == Cardinality(DOMAIN w)
        width(i) == Max({q \in {2 ^ k : k \in 0 .. BITWIDTH} : i % q = 0})
        fold(v, i) == [l \in DOMAIN v |->
                        IF l \in i - width(i) .. i - 1 /\ l + width(i) < n
                        THEN Add(v[l], v[l + width(i)]) ELSE v[l]]
    IN  Sweep(fold, w, [i \in 1 .. n - 1 |-> i])

compute_formal_derivative16(w) == compute_formal_derivative(w)

(* One chunk position of reconstruct_with_resources: the work buffer it    *)
(* leaves, from which the missing shards are scaled out.                   *)
DecodeColumn(w, shards, d, p, present, plan, mul) ==
    fft_dit_decode8_with_plan(
        compute_formal_derivative(
            ifft_dit_decode8_with_plan(
                Received(w, shards, d, p, present, plan.err_locs,
                         LAMBDA x, log_m : mulgf8(x, log_m, mul)),
                plan.ifft, mul)),
        plan.fft, mul)

compute_reconstruct_chunk(w, shards, d, p, present, plan, mul) ==
    fft_dit_decode16_with_plan(
        compute_formal_derivative16(
            ifft_dit_decode16_with_plan(
                Received(w, shards, d, p, present, plan.err_locs,
                         LAMBDA x, log_m : mulgf16(x, log_m, mul)),
                plan.ifft, mul)),
        plan.fft, mul)

(* inv_err = MODULUS - err_loc; the log of zero, MODULUS, becomes 0.       *)
Recovered(w, position, err_locs, scale(_, _)) ==
    scale(w[position], MODULUS - err_locs[position])

=============================================================================
