-------------------------- MODULE LeopardFftCodec ---------------------------
(***************************************************************************)
(* Encoding and reconstruction by the two Leopard codecs, from their entry *)
(* points (encode_with_tables, encode_with_tables16,                       *)
(* reconstruct_with_tables, reconstruct_with_tables16_with_options) to the *)
(* bytes they publish: the drivers' checks, the chunks a shard is cut      *)
(* into, the work lanes an earlier chunk or call left, the wire layout of  *)
(* GF16, and the groups of chunks GF16 hands to parallel workers.  The     *)
(* transforms of a chunk position are those of LeopardTransform.           *)
(*                                                                         *)
(* A GF8 byte is one element; a GF16 element is two bytes of half the      *)
(* width, so a byte here is a number below ORDER, or below Half.           *)
(***************************************************************************)
EXTENDS LeopardTransform

CONSTANTS
    Shapes,                       \* pairs <<data_shards, parity_shards>>
    Erasures(_),                  \* the sets of missing shards a shape is tried with
    Block,                        \* 64: bytes of a block, the unit of shard lengths
    ShardLengths(_),                   \* the shard lengths, in bytes, a family is tried with
    WORK_SIZE8,                   \* bytes of a GF8 chunk
    WORK_SIZE8_HIGH_FANOUT,       \* and of one in high-fanout mode
    HIGH_FANOUT_TOTAL_SHARDS,
    HIGH_FANOUT_TOTAL_SHARDS_WITH_REMAINDER,
    WORK_SIZE16,                  \* elements of a GF16 chunk
    SPARSE_LOCATOR_MAX_WORK_SIZE,
    SPARSE_LOCATOR_MAX_TERMS,
    Threads,                      \* rayon::current_num_threads()
    MATRIX_CACHE_SLOTS            \* of a thread's GFNI matrix cache

ASSUME CodecAssumption ==
    /\ Block \in Nat /\ Block % 2 = 0 /\ 0 < Block
    /\ Block <= WORK_SIZE8 /\ WORK_SIZE8 % Block = 0
    /\ WORK_SIZE8_HIGH_FANOUT % Block = 0
    /\ WORK_SIZE16 % (Block \div 2) = 0
    /\ Threads \in Nat \ {0}

VARIABLES
    call,     \* the call under way: its arguments, its plan and its outcome
    groups,   \* the runs of chunks it is split into, with the work lanes of each
    out,      \* the bytes of the buffers it writes
    slots     \* a thread's matrix cache: slot -> the key and the matrices it holds

fftVars == <<call, groups, out, slots>>

Families == {"gf8", "gf16"}

Idle == [op |-> "none"]

(* An empty slot: key 0 and matrices of zeros.                             *)
Cold == [s \in 0 .. MATRIX_CACHE_SLOTS - 1 |->
            [key |-> 0, value |-> [g \in {0, 1} |-> [b \in 0 .. BITWIDTH \div 2 - 1 |-> 0]]]]

(* A codec call starts when no other is under way, and, to keep the cache  *)
(* apart from the codecs, when the matrix cache is cold: OwnMatrices is    *)
(* what says that the products do not depend on it.                        *)
MayCall == call = Idle /\ slots = Cold

----------------------------------------------------------------------------
(* The wire layout                                                         *)

HalfBlock == Block \div 2

(* user_bytes_to_work_u16_into: element i of a block is bytes i and        *)
(* i + Block/2 of it, low byte first.                                      *)
user_bytes_to_work_u16_into(user) ==
    [e \in 0 .. Cardinality(DOMAIN user) \div 2 - 1 |->
        LET base == (e \div HalfBlock) * Block + (e % HalfBlock)
        IN  user[base] + Half * user[base + HalfBlock]]

work_u16_to_user_bytes(work) ==
    [k \in 0 .. 2 * Cardinality(DOMAIN work) - 1 |->
        LET i == k % Block
            base == (k \div Block) * HalfBlock
        IN  IF i < HalfBlock THEN work[base + i] % Half
            ELSE work[base + i - HalfBlock] \div Half]

(* The elements of bytes from .. to-1 (GF16: element indices) of a shard,  *)
(* and the bytes of elements.                                              *)
ElementsOf(family, user, from, to) ==
    IF family = "gf8" THEN [c \in 0 .. to - from - 1 |-> user[from + c]]
    ELSE user_bytes_to_work_u16_into([k \in 0 .. 2 * (to - from) - 1 |-> user[2 * from + k]])

BytesOf(family, elements) ==
    IF family = "gf8" THEN elements ELSE work_u16_to_user_bytes(elements)

(* Bytes from * width on of a buffer overwritten with the bytes given.     *)
Written(buffer, family, from, bytes) ==
    LET start == IF family = "gf8" THEN from ELSE 2 * from
    IN  [k \in DOMAIN buffer |-> IF k - start \in DOMAIN bytes THEN bytes[k - start]
                                 ELSE buffer[k]]

----------------------------------------------------------------------------
(* The code the transforms compute, in the field of LeopardField: parity i *)
(* is the sum over the groups of m data shards of the polynomial through   *)
(* the group's shards, at their points, evaluated at point i.              *)

LabelOf == [x \in Elem |-> CHOOSE l \in Elem : CantorCode[l] = x]

Times == [a \in Elem |-> [b \in Elem |->
            LabelOf[PolynomialProduct[CantorCode[a]][CantorCode[b]]]]]

Over == [a \in Elem |-> [b \in Elem \ {0} |-> CHOOSE q \in Elem : Times[q][b] = a]]

ProductOf(f, S) == MapThenFoldSet(LAMBDA a, b : Times[a][b], 1, LAMBDA i : f[i],
                                  LAMBDA T : CHOOSE i \in T : TRUE, S)

(* The weight of the shard at point q in the parity at point i.            *)
Weight ==
    [m \in {2 ^ k : k \in 0 .. BITWIDTH - 1} |->
        [i \in 0 .. m - 1 |-> [q \in m .. ORDER - 1 |->
            LET first == q - (q % m)
                others == (first .. first + m - 1) \ {q}
            IN  ProductOf([k \in others |-> Over[Add(i, k)][Add(q, k)]], others)]]]

Parity(data, d, p, i) ==
    LET m == ceil_pow2(p)
    IN  AddAll([j \in 0 .. d - 1 |-> Times[Weight[m][i][m + j]][data[j]]], 0 .. d - 1)

(* Test data: the columns of a call are the unit vectors and dense ones.   *)
Datum(d, j, c) == IF c < d THEN (IF j = c THEN 1 + ((5 * c) % MODULUS) ELSE 0)
                  ELSE (7 * j + 5 * c + 3) % ORDER

Codeword(d, p, columns) ==
    LET data(c) == [j \in 0 .. d - 1 |-> Datum(d, j, c)]
    IN  [i \in 0 .. d + p - 1 |-> [c \in 0 .. columns - 1 |->
            IF i < d THEN Datum(d, i, c) ELSE Parity(data(c), d, p, i - d)]]

Columns(family, len) == IF family = "gf8" THEN len ELSE len \div 2

----------------------------------------------------------------------------
(* Drivers                                                                 *)

(* The checks the drivers share.                                           *)
ShapeError(p, len) ==
    IF len = 0 \/ len % Block # 0 THEN "IncorrectShardSize"
    ELSE IF MODULUS < ceil_pow2(p) THEN "TooManyShards" ELSE "ok"

build_leopard_gf8_encode_driver(d, p, len) ==
    LET high_fanout ==
            \/ HIGH_FANOUT_TOTAL_SHARDS <= d + p
            \/ /\ HIGH_FANOUT_TOTAL_SHARDS_WITH_REMAINDER <= d + p
               /\ d % ceil_pow2(p) # 0
    IN  [error |-> ShapeError(p, len),
         chunk |-> IF high_fanout /\ WORK_SIZE8_HIGH_FANOUT <= len
                   THEN WORK_SIZE8_HIGH_FANOUT ELSE WORK_SIZE8]

build_leopard_gf16_encode_driver(d, p, len) ==
    [error |-> ShapeError(p, len), chunk |-> WORK_SIZE16]

build_leopard_gf8_decode_driver(d, p, len) ==
    [error |-> IF ShapeError(p, len) # "ok" THEN ShapeError(p, len)
               ELSE IF ORDER < ceil_pow2(p) + d THEN "TooManyShards" ELSE "ok",
     chunk |-> WORK_SIZE8]

build_leopard_gf16_decode_driver(d, p, len) ==
    [build_leopard_gf8_decode_driver(d, p, len) EXCEPT !.chunk = WORK_SIZE16]

(* What the work lanes hold when a call gets them: what an earlier use     *)
(* left, or, in the GF8 encoder, uninitialized memory.  Zeros would hide a *)
(* lane that is read before it is written, so they hold something else.    *)
Leftover(lanes, count) ==
    [c \in 0 .. count - 1 |-> [l \in 0 .. lanes - 1 |-> (3 * l + 7 * c + 5) % ORDER]]

(* reconstruct_chunks_parallel: contiguous groups of chunks, one per job;  *)
(* one group otherwise.                                                    *)
ChunkGroups(columns, chunk, max_parallel_jobs) ==
    LET chunk_count == CeilDiv(columns, chunk)
        max_jobs == IF max_parallel_jobs = 0 THEN Threads
                    ELSE Max({1, Min({max_parallel_jobs, Threads})})
        per_job == IF max_parallel_jobs # 1 /\ 2 <= chunk_count
                   THEN Max({1, CeilDiv(chunk_count, max_jobs)}) * chunk
                   ELSE columns
    IN  [g \in 1 .. CeilDiv(columns, per_job) |->
            [start |-> (g - 1) * per_job, end |-> Min({g * per_job, columns})]]

Kernels(family) == IF family = "gf8" THEN {"lut", "shuffle"}
                   ELSE {"log", "nibble", "gfni"}

KernelProduct(kernel) == CASE kernel = "lut" -> LutProduct
                           [] kernel = "shuffle" -> ShuffleProduct
                           [] kernel = "log" -> LogProduct
                           [] kernel = "nibble" -> NibbleProduct
                           [] kernel = "gfni" -> MatrixProduct

Strategies(family) ==
    IF family = "gf8" THEN {"Decomposed", "Direct", "DirectSafe"} ELSE {"Direct"}

Fresh(buffers, len) == [i \in buffers |-> [k \in 0 .. len - 1 |-> 0]]

----------------------------------------------------------------------------
(* Calls                                                                   *)

FftInit ==
    /\ call = Idle
    /\ groups = << >>
    /\ out = << >>
    /\ slots = Cold

(* A call the driver rejects returns before it touches a buffer.           *)
Reject(op, family, d, p, len, error) ==
    /\ error # "ok"
    /\ call' = [op |-> op, family |-> family, d |-> d, p |-> p, len |-> len,
                result |-> error]
    /\ out' = << >>
    /\ UNCHANGED <<groups, slots>>

Begin(op, family, d, p, len, more, runs, lanes, chunk, buffers) ==
    /\ groups' = [g \in DOMAIN runs |->
                    [next |-> runs[g].start, end |-> runs[g].end,
                     work |-> Leftover(lanes, Min({chunk, Columns(family, len)}))]]
    /\ call' = more @@ [op |-> op, family |-> family, d |-> d, p |-> p, len |-> len,
                        chunk |-> chunk, result |-> "running"]
    /\ out' = Fresh(buffers, len)
    /\ UNCHANGED slots

(* Only shapes a codec can be built with reach the encoders.               *)
EncodeCall(family, d, p, len) ==
    /\ MayCall
    /\ LET driver == IF family = "gf8" THEN build_leopard_gf8_encode_driver(d, p, len)
                     ELSE build_leopard_gf16_encode_driver(d, p, len)
           columns == Columns(family, len)
       IN  \/ Reject("encode", family, d, p, len, driver.error)
           \/ /\ driver.error = "ok"
              /\ ceil_pow2(p) + d <= ORDER
              /\ \E kernel \in Kernels(family), strategy \in Strategies(family) :
                    LET word == Codeword(d, p, columns)
                    IN  Begin("encode", family, d, p, len,
                              [kernel |-> kernel, strategy |-> strategy,
                               shards |-> [i \in 0 .. d - 1 |-> BytesOf(family, word[i])],
                               plans |-> IF family = "gf8" THEN EncodePlans(d, p)
                                         ELSE EncodePlans16(d, p)],
                              << [start |-> 0, end |-> columns] >>,
                              2 * ceil_pow2(p), driver.chunk, d .. d + p - 1)

(* The outputs asked for are all the missing shards or the missing data.   *)
WantedSets(d, missing) == {missing, {i \in missing : i < d}}

(* Nothing to do, before the driver is built.                              *)
NothingWanted(family, d, p, len) ==
    /\ MayCall
    /\ call' = [op |-> "decode", family |-> family, d |-> d, p |-> p, len |-> len,
                result |-> "ok", wanted |-> {}]
    /\ out' = << >>
    /\ UNCHANGED <<groups, slots>>

(* GF16 also checks the count of missing shards, which GF8 leaves to its   *)
(* caller.                                                                 *)
DecodeCall(family, d, p, len, missing, wanted) ==
    /\ MayCall
    /\ wanted # {}
    /\ LET driver == IF family = "gf8" THEN build_leopard_gf8_decode_driver(d, p, len)
                     ELSE build_leopard_gf16_decode_driver(d, p, len)
           error == IF driver.error = "ok" /\ family = "gf16" /\ p < Cardinality(missing)
                    THEN "TooFewShardsPresent" ELSE driver.error
           present == (0 .. d + p - 1) \ missing
           m == ceil_pow2(p)
           columns == Columns(family, len)
       IN  \/ Reject("decode", family, d, p, len, error)
           \/ /\ error = "ok"
              /\ Cardinality(missing) <= p
              /\ \E kernel \in Kernels(family),
                    max_parallel_jobs \in IF family = "gf8" THEN {1} ELSE {0, 1} :
                    LET word == Codeword(d, p, columns)
                        terms == Cardinality(missing) + m - p
                        sparse == /\ m + d <= SPARSE_LOCATOR_MAX_WORK_SIZE
                                  /\ terms <= SPARSE_LOCATOR_MAX_TERMS
                    IN  Begin("decode", family, d, p, len,
                              [kernel |-> kernel, present |-> present, wanted |-> wanted,
                               shards |-> [i \in present |-> BytesOf(family, word[i])],
                               plans |-> IF family = "gf8" THEN DecodePlan(d, p, present)
                                         ELSE build_decode_plan(d, p, present, sparse)],
                              ChunkGroups(columns, driver.chunk, max_parallel_jobs),
                              ceil_pow2(m + d), driver.chunk, wanted)

----------------------------------------------------------------------------
(* Chunks                                                                  *)

Running == call.op # "none" /\ call.result = "running"

(* The elements the chunk from offset to end takes from a shard.           *)
ChunkOf(offset, end) ==
    [i \in DOMAIN call.shards |-> ElementsOf(call.family, call.shards[i], offset, end)]

(* The work lanes after the chunk: positions past a short chunk are kept.  *)
Transformed(work, size, column(_)) ==
    [c \in DOMAIN work |-> IF c < size THEN column(c) ELSE work[c]]

Advance(g, end, work) ==
    groups' = [groups EXCEPT ![g] = [@ EXCEPT !.next = end, !.work = work]]

(* The body of the chunk loop of encode_with_tables and its GF16 twin.     *)
EncodeChunk(g) ==
    /\ Running /\ call.op = "encode"
    /\ groups[g].next < groups[g].end
    /\ LET offset == groups[g].next
           end == Min({offset + call.chunk, groups[g].end})
           part == ChunkOf(offset, end)
           coded == Transformed(groups[g].work, end - offset,
                      LAMBDA c : EncodeColumn([j \in 0 .. call.d - 1 |-> part[j][c]],
                                              call.d, call.p, call.plans, groups[g].work[c],
                                              KernelProduct(call.kernel), call.strategy))
       IN  \E work \in {coded} :
             /\ Advance(g, end, work)
             /\ out' = [i \in DOMAIN out |->
                          Written(out[i], call.family, offset,
                                  BytesOf(call.family,
                                          [c \in 0 .. end - offset - 1 |->
                                              work[c][i - call.d]]))]
    /\ UNCHANGED <<call, slots>>

(* reconstruct_with_resources, and a worker's chunk of the GF16 loop.      *)
DecodeChunk(g) ==
    /\ Running /\ call.op = "decode"
    /\ groups[g].next < groups[g].end
    /\ LET offset == groups[g].next
           end == Min({offset + call.chunk, groups[g].end})
           part == ChunkOf(offset, end)
           shards(c) == [i \in call.present |-> part[i][c]]
           column(c, mul) ==
                IF call.family = "gf8"
                THEN DecodeColumn(groups[g].work[c], shards(c), call.d, call.p,
                                  call.present, call.plans, mul)
                ELSE compute_reconstruct_chunk(groups[g].work[c], shards(c), call.d, call.p,
                                               call.present, call.plans, mul)
           scale(x, log_m, mul) == IF call.family = "gf8" THEN mulgf8(x, log_m, mul)
                                   ELSE mulgf16(x, log_m, mul)
       IN  \E mul \in {KernelProduct(call.kernel)} :
           \E work \in {Transformed(groups[g].work, end - offset, LAMBDA c : column(c, mul))} :
             /\ Advance(g, end, work)
             /\ out' = [i \in DOMAIN out |->
                          Written(out[i], call.family, offset,
                                  BytesOf(call.family,
                                          [c \in 0 .. end - offset - 1 |->
                                              Recovered(work[c], Position(call.d, call.p, i),
                                                        call.plans.err_locs,
                                                        LAMBDA x, l : scale(x, l, mul))]))]
    /\ UNCHANGED <<call, slots>>

Finish ==
    /\ Running
    /\ \A g \in DOMAIN groups : groups[g].next = groups[g].end
    /\ call' = [call EXCEPT !.result = "ok"]
    /\ groups' = << >>
    /\ UNCHANGED <<out, slots>>

ReturnToCaller ==
    /\ call.op # "none" /\ call.result # "running"
    /\ call' = Idle
    /\ out' = << >>
    /\ UNCHANGED <<groups, slots>>

----------------------------------------------------------------------------
(* gfni_butterfly::cached_matrices: a direct-mapped cache, key 0 empty.    *)
(* The slot is a multiplicative hash of the log; any mix will do.          *)

MatrixSlot(log_m) == ((3 * log_m) \div 2) % MATRIX_CACHE_SLOTS

MatrixKey(log_m) == log_m + 1

cached_matrices(log_m) ==
    LET slot == slots[MatrixSlot(log_m)]
    IN  IF slot.key = MatrixKey(log_m) THEN slot ELSE
            [key |-> MatrixKey(log_m), value |-> matrices(log_m)]

CachedMatrices(log_m) ==
    /\ call = Idle
    /\ call' = [op |-> "matrices", log_m |-> log_m, result |-> "ok",
                value |-> cached_matrices(log_m).value]
    /\ slots' = [slots EXCEPT ![MatrixSlot(log_m)] = cached_matrices(log_m)]
    /\ UNCHANGED <<groups, out>>

----------------------------------------------------------------------------
FftNext ==
    \/ \E family \in Families, s \in Shapes : \E len \in ShardLengths(family) :
          \/ EncodeCall(family, s[1], s[2], len)
          \/ \E missing \in Erasures(s) : \E wanted \in WantedSets(s[1], missing) :
                \/ DecodeCall(family, s[1], s[2], len, missing, wanted)
                \/ wanted = {} /\ NothingWanted(family, s[1], s[2], len)
    \/ \E g \in DOMAIN groups : EncodeChunk(g) \/ DecodeChunk(g)
    \/ Finish
    \/ ReturnToCaller
    \/ \E log_m \in Elem : CachedMatrices(log_m)

FftSpec == FftInit /\ [][FftNext]_fftVars

----------------------------------------------------------------------------
(* Properties                                                              *)

(* What a codec call publishes is the code's word.  Every parity shard of  *)
(* an encoder is the evaluation the code is defined by: through the        *)
(* partial groups, the truncated transforms, the short last chunk, either  *)
(* radix-4 strategy, every kernel, and whatever the work lanes held before.*)
(* A reconstruction that succeeds has restored every missing shard it was  *)
(* asked for, from any set of survivors that is large enough: the locators *)
(* (transformed or summed), the truncated transforms, the derivative, the  *)
(* scaling with its two encodings of one, and chunks done in any order.    *)
PublishedIsCode ==
    call.op \in {"encode", "decode"} /\ call.result = "ok" =>
        LET word == Codeword(call.d, call.p, Columns(call.family, call.len))
            published == IF call.op = "encode" THEN call.d .. call.d + call.p - 1
                                               ELSE call.wanted
        IN  \A i \in published : out[i] = BytesOf(call.family, word[i])

(* The matrices a butterfly takes from its thread's cache multiply by the  *)
(* coefficient it asked for, whatever was asked for before: not those of   *)
(* another log of the same slot, nor the content of a slot never filled.   *)
OwnMatrices ==
    call.op = "matrices" =>
        \A x \in Elem :
            MatrixTimes(call.value, x)
                = Times[LabelOf[Register[call.log_m % MODULUS]]][x]
=============================================================================
