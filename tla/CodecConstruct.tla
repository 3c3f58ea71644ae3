--------------------------- MODULE CodecConstruct ---------------------------
(***************************************************************************)
(* Building a codec and the parts of its life that need no shard data:     *)
(* family resolution and the shape checks (leopard.rs), the encoding       *)
(* matrix (codec.rs), the decode matrix of any survivor selection, and     *)
(* split and join.  The field has FieldSize elements in place of 256 and   *)
(* Leopard GF16 reaches FieldSize^2 shards in place of 65536.              *)
(***************************************************************************)
EXTENDS ClassicMatrix

CONSTANTS
    Shapes,        \* <<data, parity>> counts asked for
    CustomShapes,  \* the ones asked for with a custom matrix
    CustomRows(_), \* custom matrices offered for a shape
    Families, Modes, MatrixModes,
    PayloadLengths,\* element counts given to split
    ShardMultiple, \* LEOPARD_SHARD_MULTIPLE
    WordMax,       \* usize::MAX
    WordLengths,   \* lengths near the word's end for leopard_aligned_shard_len
    MinCapacity, MaxCapacity, \* DATA_DECODE_MATRIX_CACHE_*_CAPACITY
    Exponents,     \* exponents offered to exp
    StoredShapes,  \* the shapes whose formats are kept and compared
    CustomHooks,   \* what a user's field answers about its stable format
    MaxIdBytes,    \* MAX_ID_BYTES
    DecodeData, DecodeParity \* bound: the shapes whose survivors are enumerated

ASSUME ConstructAssumption ==
    /\ Shapes \subseteq Nat \X Nat /\ CustomShapes \subseteq Nat \X Nat
    /\ ShardMultiple \in Nat \ {0} /\ WordMax \in Nat /\ WordMax >= 2 * ShardMultiple
    /\ PayloadLengths \subseteq 0 .. WordMax \div 2   \* a slice has at most isize::MAX bytes
    /\ WordLengths \subseteq 0 .. WordMax
    /\ MinCapacity \in Nat \ {0} /\ MaxCapacity \in Nat /\ MinCapacity <= MaxCapacity
    /\ MaxIdBytes \in Nat /\ MaxIdBytes < FieldSize * FieldSize

VARIABLES
    platform, \* [byteField, bigEndian]: the field type and the target
    codec,    \* the constructed codec, or NoCodec
    call,     \* the last call and its outcome
    stored    \* a format a caller kept, its identifier and its field's hooks

vars == <<platform, codec, call, stored>>

NoCodec == [family |-> "none"]
NoCall == [op |-> "none"]
NoFormat == [id |-> "nothing stored"]
NoId == << >>

----------------------------------------------------------------------------
(* Families and shapes                                                     *)

LEOPARD_GF8_MAX_SHARDS == FieldSize
LEOPARD_GF16_MAX_SHARDS == FieldSize * FieldSize
LEOPARD_GF8_MAX_PARITY == FieldSize \div 2

DivCeil(a, b) == (a + b - 1) \div b

SaturatingAdd(a, b) == Min({a + b, WordMax})

SaturatingMul(a, b) == Min({a * b, WordMax})

next_power_of_two(n) == CHOOSE m \in {2 ^ i : i \in 0 .. 20} :
    m >= n /\ (m = 1 \/ m \div 2 < n)

resolve_codec_family(requested, mode, total, parity) ==
    IF requested # "Classic" \/ ~platform.byteField THEN requested
    ELSE CASE mode = "Disabled" -> "Classic"
           [] mode = "AsNeeded" ->
                IF total <= LEOPARD_GF8_MAX_SHARDS THEN "Classic" ELSE "LeopardGF16"
           [] mode = "PreferGF16" -> "LeopardGF16"
           [] mode = "PreferLeopard" ->
                IF total <= LEOPARD_GF8_MAX_SHARDS /\ parity <= LEOPARD_GF8_MAX_PARITY
                THEN "LeopardGF8" ELSE "LeopardGF16"

max_total_shards_for_family(family) ==
    CASE family = "Classic" -> FieldSize
      [] family = "LeopardGF8" -> LEOPARD_GF8_MAX_SHARDS
      [] family = "LeopardGF16" -> LEOPARD_GF16_MAX_SHARDS

\* Mutant: the parity block is not counted.
FitsWithoutParityBlock(k, p, order) ==
    LET m == next_power_of_two(p)
    IN  k # 0 /\ p # 0 /\ m <= order /\ DivCeil(k, m) * m <= order

leopard_shard_combo_fits(k, p, order) ==
    LET m == next_power_of_two(p)
    IN  k # 0 /\ p # 0 /\ m <= order /\ DivCeil(k, m) * m <= order - m

validate_leopard_family(family, k, p) ==
    CASE family = "Classic" -> "Ok"
      [] family # "Classic" /\ ~platform.byteField -> "UnsupportedCodecFamily"
      [] family = "LeopardGF16" /\ platform.byteField /\ platform.bigEndian ->
             "UnsupportedCodecFamily"
      [] OTHER -> IF leopard_shard_combo_fits(k, p, max_total_shards_for_family(family))
                  THEN "Ok" ELSE "TooManyShards"

derive_inversion_cache_capacity(k, p) ==
    LET heuristic == SaturatingMul(SaturatingMul(SaturatingAdd(k, p), Max({p, 1})), 2)
        rounded == IF next_power_of_two(heuristic) > WordMax THEN MaxCapacity
                   ELSE next_power_of_two(heuristic)
    IN  Max({MinCapacity, Min({rounded, MaxCapacity})})

normalize_inversion_cache_capacity(k, p, requested) ==
    IF requested > 0 THEN requested ELSE derive_inversion_cache_capacity(k, p)

----------------------------------------------------------------------------
(* Shard lengths                                                           *)

\* Mutant: a saturated length is not brought back to a multiple.
AlignedWithoutFloor(len, shards) ==
    LET per == DivCeil(len, IF shards = 0 THEN 1 ELSE shards)
        remainder == per % ShardMultiple
        rounded == IF remainder = 0 THEN per
                   ELSE SaturatingAdd(per, ShardMultiple - remainder)
    IN  Max({rounded, ShardMultiple})

leopard_aligned_shard_len(len, shards) ==
    LET per == DivCeil(len, IF shards = 0 THEN 1 ELSE shards)
        remainder == per % ShardMultiple
        rounded == IF remainder = 0 THEN per
                   ELSE SaturatingAdd(per, ShardMultiple - remainder)
        clamped == Max({rounded, ShardMultiple})
    IN  clamped - (clamped % ShardMultiple)

validate_leopard_shard_len(len) == len # 0 /\ len % ShardMultiple = 0

(* A slice is a function on 0 .. n-1, shards a function of slices.         *)
split(data, n) ==
    LET k == codec.k
        len == IF codec.family # "Classic" THEN leopard_aligned_shard_len(n, k)
               ELSE DivCeil(n, k)
    IN  [i \in 0 .. k - 1 |-> [j \in 0 .. len - 1 |->
            IF i * len + j < n THEN data[i * len + j] ELSE 0]]

SliceLen(s) == Cardinality(DOMAIN s)

join(shards, outLen) ==
    LET len == SliceLen(shards[0])
        target == Min({outLen, SaturatingMul(len, codec.k)})
    IN  IF len = 0 THEN [outcome |-> "EmptyShard"]
        ELSE [outcome |-> "Ok",
              data |-> [i \in 0 .. target - 1 |-> shards[i \div len][i % len]]]

----------------------------------------------------------------------------
(* The identity of a format                                                *)

EncodingFormat(c) == [k |-> c.k, p |-> c.p, family |-> c.family, matrix |-> c.matrix]

(* Leopard formats have no matrix.                                         *)
matrix_shape(f) == IF f.family = "Classic" THEN <<f.k + f.p, f.k>> ELSE <<0, 0>>

eq(f, g) ==
    /\ f.k = g.k /\ f.p = g.p /\ f.family = g.family
    /\ matrix_shape(f) = matrix_shape(g) /\ f.matrix = g.matrix

(***************************************************************************)
(* A field's hooks: the name and element width of stable_format, empty and *)
(* zero where it offers none, and how many bytes write_format_element says *)
(* it wrote.  The byte field's are fixed, another's are the user's.        *)
(***************************************************************************)
ByteFieldHook == [id |-> <<8, 1, 13>>, width |-> 1, written |-> 1]

FieldHooks == IF platform.byteField THEN {ByteFieldHook} ELSE CustomHooks

write_format_element(element, width) == [i \in 1 .. width |-> IF i = width THEN element ELSE 0]

(* A u32 or u64 of the descriptor, most significant digit first.  What     *)
(* would not fit one is longer than MaxIdBytes.                            *)
BigEndian(n) == <<n \div FieldSize, n % FieldSize>>

FamilyTag(family) ==
    CASE family = "Classic" -> 0 [] family = "LeopardGF8" -> 1 [] family = "LeopardGF16" -> 2

(* stable_id_bytes: magic, version, tag, the field, five counts and the    *)
(* coefficients row by row; an empty sequence is None.                     *)
stable_id_bytes(f, hook) ==
    LET rows == matrix_shape(f)[1]
        cols == matrix_shape(f)[2]
        fixed == <<7, 1, FamilyTag(f.family)>> \o BigEndian(Len(hook.id)) \o hook.id
                 \o BigEndian(hook.width) \o BigEndian(FieldSize) \o BigEndian(f.k)
                 \o BigEndian(f.p) \o BigEndian(rows) \o BigEndian(cols)
        element(i) == write_format_element(f.matrix[i \div cols, i % cols], hook.width)
        coefficients == [i \in 1 .. rows * cols * hook.width |->
            element((i - 1) \div hook.width)[((i - 1) % hook.width) + 1]]
    IN  IF \/ Len(hook.id) = 0 \/ hook.width = 0
           \/ Len(fixed) + rows * cols * hook.width > MaxIdBytes \/ hook.width > MaxIdBytes
           \/ rows * cols > 0 /\ hook.written # hook.width
        THEN NoId
        ELSE fixed \o coefficients

----------------------------------------------------------------------------
(* Actions                                                                 *)

Init ==
    /\ stored = NoFormat
    /\ platform \in [byteField : BOOLEAN, bigEndian : BOOLEAN]
    /\ codec = NoCodec
    /\ call = NoCall

Codec(k, p, family, mode, matrix, capacity) ==
    [k |-> k, p |-> p, family |-> family, mode |-> mode, matrix |-> matrix,
     capacity |-> capacity]

NoMatrix == << >>

(* with_options: the checks in order, then the matrix of a Classic codec.  *)
WithOptions(k, p, requested, leopardMode, mode, fast, capacity) ==
    LET total == k + p
        family == resolve_codec_family(requested, leopardMode, total, p)
        checked == CASE k = 0 -> "TooFewDataShards"
                     [] k # 0 /\ p = 0 -> "TooFewParityShards"
                     [] k # 0 /\ p # 0 /\ total > max_total_shards_for_family(family) ->
                            "TooManyShards"
                     [] OTHER -> validate_leopard_family(family, k, p)
        built == IF checked = "Ok" /\ family = "Classic"
                 THEN build_matrix_with_options(k, total, mode, fast, platform.byteField)
                 ELSE Built(NoMatrix)
    IN  /\ codec = NoCodec /\ call = NoCall
        /\ \E b \in {built} :
              LET outcome == IF b.ok THEN checked ELSE "InvalidCustomMatrix"
              IN  /\ codec' = IF outcome = "Ok"
                              THEN Codec(k, p, family, mode, b.matrix,
                                         normalize_inversion_cache_capacity(k, p, capacity))
                              ELSE NoCodec
                  /\ call' = [op |-> "with_options", outcome |-> outcome, k |-> k, p |-> p,
                              requested |-> requested, leopardMode |-> leopardMode,
                              mode |-> mode]
        /\ UNCHANGED <<platform, stored>>

WithCustomMatrix(k, p, requested, rows, fast) ==
    LET built == build_custom_matrix(k, k + p, rows)
        outcome == CASE k = 0 -> "TooFewDataShards"
                     [] k # 0 /\ p = 0 -> "TooFewParityShards"
                     [] k # 0 /\ p # 0 /\ k + p > FieldSize -> "TooManyShards"
                     [] k # 0 /\ p # 0 /\ k + p <= FieldSize /\ requested # "Classic" ->
                            "UnsupportedCodecFamily"
                     [] OTHER ->
                            IF \/ ~built.ok
                               \/ /\ fast /\ p = 1
                                  /\ \E c \in 0 .. k - 1 : built.matrix[k, c] # 1
                            THEN "InvalidCustomMatrix" ELSE "Ok"
    IN  /\ codec = NoCodec /\ call = NoCall
        /\ codec' = IF outcome = "Ok"
                    THEN Codec(k, p, "Classic", "Custom", built.matrix,
                               normalize_inversion_cache_capacity(k, p, 0))
                    ELSE NoCodec
        /\ call' = [op |-> "with_custom_matrix", outcome |-> outcome, k |-> k, p |-> p]
        /\ UNCHANGED <<platform, stored>>

(* A construction has just answered.                                       *)
Constructed == call.op = "with_options" \/ call.op = "with_custom_matrix"

(* Reconstruction asks for the decode matrix of the k rows it selected.    *)
BuildDecodeMatrix(valid) ==
    /\ codec.family = "Classic" /\ Constructed
    /\ LET built == build_data_decode_matrix(codec.matrix, codec.k, Ascending(valid),
                                             platform.byteField)
       IN  call' = [op |-> "decode", valid |-> Ascending(valid), built |-> built]
    /\ UNCHANGED <<platform, codec, stored>>

(* Payload elements are never zero, so padding shows.                      *)
Payload(n) == [i \in 0 .. n - 1 |-> (i % (FieldSize - 1)) + 1]

SplitAndJoin(n, outLen) ==
    /\ codec # NoCodec /\ Constructed
    /\ LET shards == split(Payload(n), n)
       IN  call' = [op |-> "split", n |-> n, outLen |-> outLen, shards |-> shards,
                    joined |-> join(shards, outLen)]
    /\ UNCHANGED <<platform, codec, stored>>

AlignedShardLen(len, shards) ==
    /\ call = NoCall
    /\ call' = [op |-> "aligned", len |-> len, shards |-> shards,
                aligned |-> leopard_aligned_shard_len(len, shards)]
    /\ UNCHANGED <<platform, codec, stored>>

(* The field operations, of the byte field and of the tower.               *)
FieldCall(a, b, n) ==
    /\ call = NoCall
    /\ call' = [op |-> "field", a |-> a, b |-> b, n |-> n,
                mul |-> Mul(a, b), div |-> Div(a, b), exp |-> Exp(a, n),
                towerMul |-> TowerMul(<<a, b>>, <<b, a>>),
                towerDiv |-> TowerDiv(<<b, a>>, <<a, b>>),
                towerExp |-> TowerExp(<<a, b>>, n)]
    /\ UNCHANGED <<platform, codec, stored>>

(* The experimental builder, on the matrix the standard one starts from.   *)
BuildWithWorkspace(k, p) ==
    /\ call = NoCall
    /\ k > 0 /\ p > 0 /\ k + p <= FieldSize
    /\ call' = [op |-> "workspace", k |-> k, p |-> p,
                built |-> systematic_from_vandermonde(vandermonde(k + p, k), k,
                                                      platform.byteField)]
    /\ UNCHANGED <<platform, codec, stored>>

(* A caller keeps the format of the codec it wrote data with, and later    *)
(* holds another codec against what it kept.                               *)
StoreFormat(hook) ==
    /\ stored = NoFormat /\ codec # NoCodec /\ Constructed
    /\ stored' = [format |-> EncodingFormat(codec), hook |-> hook,
                  id |-> stable_id_bytes(EncodingFormat(codec), hook)]
    /\ codec' = NoCodec
    /\ call' = NoCall
    /\ UNCHANGED platform

CompareFormat ==
    /\ stored # NoFormat /\ codec # NoCodec /\ Constructed
    /\ call' = [op |-> "compare", same |-> eq(EncodingFormat(codec), stored.format),
                id |-> stable_id_bytes(EncodingFormat(codec), stored.hook)]
    /\ UNCHANGED <<platform, codec, stored>>

Return ==
    /\ call # NoCall
    /\ call' = NoCall
    /\ codec' = NoCodec
    /\ UNCHANGED <<platform, stored>>

(* Once a format is kept, only codecs of the stored shapes are of interest.*)
OfInterest(shape) == stored = NoFormat \/ shape \in StoredShapes

Next ==
    \/ /\ call = NoCall
       /\ \/ \E s \in Shapes, f \in Families, m \in Modes, x \in MatrixModes,
                fast \in BOOLEAN, capacity \in {0, 1} :
                /\ OfInterest(s)
                /\ (f = "Classic" /\ m = "Disabled") \/ (x = "Vandermonde" /\ ~fast)
                /\ capacity = 0 \/ x = "Vandermonde"
                /\ WithOptions(s[1], s[2], f, m, x, fast, capacity)
          \/ \E s \in CustomShapes, f \in Families, fast \in BOOLEAN :
                /\ OfInterest(s) /\ (stored = NoFormat \/ (f = "Classic" /\ ~fast))
                /\ \E rows \in CustomRows(s) : WithCustomMatrix(s[1], s[2], f, rows, fast)
    \/ /\ call = NoCall /\ stored = NoFormat
       /\ \/ \E len \in WordLengths, shards \in 0 .. 2 : AlignedShardLen(len, shards)
          \/ \E a, b \in Elem, n \in Exponents : FieldCall(a, b, n)
          \/ \E s \in Shapes : BuildWithWorkspace(s[1], s[2])
    \/ /\ codec # NoCodec /\ Constructed /\ stored = NoFormat
       /\ \/ /\ codec.k <= DecodeData /\ codec.p <= DecodeParity
             /\ \E valid \in kSubset(codec.k, 0 .. codec.k + codec.p - 1) :
                    BuildDecodeMatrix(valid)
          \/ \E n \in PayloadLengths, outLen \in PayloadLengths : SplitAndJoin(n, outLen)
          \/ /\ <<codec.k, codec.p>> \in StoredShapes /\ codec.mode # "Custom"
             /\ \E hook \in FieldHooks : StoreFormat(hook)
    \/ CompareFormat
    \/ Return

Spec == Init /\ [][Next]_vars

----------------------------------------------------------------------------
(* What construction promises                                              *)

(***************************************************************************)
(* build_data_decode_matrix inverts the survivors' rows on each of its     *)
(* three paths (one missing shard, some data present, none present) and    *)
(* with either elimination: it succeeds exactly when the rows have a       *)
(* nonzero determinant, and then decode matrix times rows is the identity. *)
(* Of the built-in modes every selection of k rows succeeds, so any k      *)
(* shards of a codec recover its data.                                     *)
(***************************************************************************)
DecodeIsInverse ==
    call.op = "decode" =>
        LET selected == SelectedRows(codec.matrix, call.valid)
        IN  /\ call.built.ok <=> Determinant(selected) # 0
            /\ call.built.ok => MatrixProduct(call.built.matrix, selected) = identity(codec.k)
            /\ codec.mode # "Custom" => call.built.ok

(* A family can hold a shape: for Leopard some power-of-two block takes    *)
(* the parity, and whole blocks the data, within the field.                *)
CanHold(family, k, p) ==
    CASE family = "Classic" -> k + p <= FieldSize
      [] family # "Classic" ->
           LET order == max_total_shards_for_family(family)
           IN  /\ platform.byteField
               /\ family = "LeopardGF16" => ~platform.bigEndian
               /\ \E m \in {2 ^ i : i \in 0 .. 2 * FieldBits} :
                      p <= m /\ \E blocks \in 1 .. order : k <= blocks * m
                                                           /\ (blocks + 1) * m <= order

(* Two codecs put the same parity beside the same data.                    *)
SameCode(f, g) ==
    /\ f.k = g.k /\ f.p = g.p /\ f.family = g.family
    /\ f.family = "Classic" =>
           \A r \in f.k .. f.k + f.p - 1, c \in 0 .. f.k - 1 : f.matrix[r, c] = g.matrix[r, c]

(***************************************************************************)
(* A format that was kept is recognised: equality and, where the field     *)
(* offers one, the stable identifier hold exactly of the codecs that code  *)
(* as the kept one did, however their matrix was chosen and their cache    *)
(* sized.  A byte-field codec within the size limit has an identifier.     *)
(***************************************************************************)
FormatIdentifies ==
    call.op = "compare" =>
        LET agree == SameCode(EncodingFormat(codec), stored.format)
        IN  /\ call.same <=> agree
            /\ stored.id # NoId /\ call.id # NoId => (call.id = stored.id <=> agree)
            /\ agree => (call.id = NoId <=> stored.id = NoId)
            /\ platform.byteField => call.id # NoId

(***************************************************************************)
(* A codec is refused only for a reason: with counts above zero and an     *)
(* explicit family, or with Disabled, AsNeeded or PreferGF16, with_options *)
(* succeeds exactly when the family those stand for can hold the shape     *)
(* (AsNeeded: Classic, and GF16 beyond the byte field).  A Classic codec   *)
(* is systematic whatever its matrix mode, the experimental builder        *)
(* computes the same matrix as the standard one, and formats identify the  *)
(* code (FormatIdentifies).                                                *)
(***************************************************************************)
ShapesAccepted ==
    /\ call.op = "with_options" /\ call.k > 0 /\ call.p > 0
       /\ (call.leopardMode # "PreferLeopard" \/ call.requested # "Classic") =>
        LET asked == CASE call.requested # "Classic" \/ ~platform.byteField
                             \/ call.leopardMode = "Disabled" -> call.requested
                       [] call.leopardMode = "PreferGF16" -> "LeopardGF16"
                       [] OTHER -> IF CanHold("Classic", call.k, call.p)
                                   THEN "Classic" ELSE "LeopardGF16"
        IN  call.outcome = "Ok" <=> CanHold(asked, call.k, call.p) /\ call.mode # "Custom"
    /\ codec # NoCodec /\ codec.family = "Classic" =>
           sub_matrix(codec.matrix, 0, 0, codec.k, codec.k) = identity(codec.k)
    /\ call.op = "workspace" =>
           call.built = build_matrix(call.k, call.k + call.p, platform.byteField)
    /\ FormatIdentifies

(***************************************************************************)
(* options.rs of LeopardMode::PreferLeopard: "Prefer a Leopard codec       *)
(* whenever possible": a shape that a Leopard family can hold is never     *)
(* refused.                                                                *)
(***************************************************************************)
PreferLeopardFits ==
    call.op = "with_options" /\ call.leopardMode = "PreferLeopard"
    /\ call.requested = "Classic" /\ call.outcome = "TooManyShards" =>
        ~CanHold("LeopardGF8", call.k, call.p) /\ ~CanHold("LeopardGF16", call.k, call.p)

(***************************************************************************)
(* join undoes split for every payload length and every prefix asked for:  *)
(* the payload comes back and only padding follows it; only the empty      *)
(* payload of a Classic codec has no shards to join.  Every length the     *)
(* codec hands to Leopard is one Leopard accepts, and it holds the         *)
(* payload unless it is the last multiple that fits the word.              *)
(***************************************************************************)
SplitJoinRoundTrip ==
    /\ call.op = "split" =>
        LET n == call.n
            room == SliceLen(call.shards[0]) * codec.k
        IN  /\ codec.family # "Classic" =>
                   validate_leopard_shard_len(SliceLen(call.shards[0]))
            /\ room >= n
            /\ call.joined.outcome = "Ok" <=> (n > 0 \/ codec.family # "Classic")
            /\ call.joined.outcome = "Ok" =>
                   call.joined.data = [i \in 0 .. Min({call.outLen, room}) - 1 |->
                                          IF i < n THEN Payload(n)[i] ELSE 0]
    /\ call.op = "aligned" =>
        /\ validate_leopard_shard_len(call.aligned)
        /\ call.aligned <= WordMax
        /\ \/ call.aligned * Max({call.shards, 1}) >= call.len
           \/ call.aligned + ShardMultiple > WordMax

(* The nth power by repeated reference multiplication.                     *)
PowerTo(a, n) ==
    LET power[i \in 0 .. n] == IF i = 0 THEN 1 ELSE Products[power[i - 1]][a]
    IN  power[n]

TowerPowerTo(a, n) ==
    LET power[i \in 0 .. n] ==
            IF i = 0 THEN TowerOne ELSE TowerProduct(power[i - 1], a)
    IN  power[n]

(***************************************************************************)
(* The tables of build.rs, the norm inverse of galois_16 and both          *)
(* exponentiations compute the field that the two polynomials define, for  *)
(* exponents of zero, at and beyond the period too; division by zero is    *)
(* zero, and 0^0 is one.                                                   *)
(***************************************************************************)
FieldLaws ==
    call.op = "field" =>
        LET a == call.a
            b == call.b
        IN  /\ call.mul = Products[a][b]
            /\ IF b = 0 THEN call.div = 0 ELSE Products[call.div][b] = a
            /\ call.exp = PowerTo(a, call.n)
            /\ call.towerMul = TowerProduct(<<a, b>>, <<b, a>>)
            /\ IF <<a, b>> = TowerZero THEN call.towerDiv = TowerZero
               ELSE TowerProduct(call.towerDiv, <<a, b>>) = <<b, a>>
            /\ call.towerExp = TowerPowerTo(<<a, b>>, call.n)
=============================================================================
