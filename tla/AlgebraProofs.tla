---------------------------- MODULE AlgebraProofs ----------------------------
(***************************************************************************)
(* Proofs about CodecConstruct and SliceKernels: joining what was split    *)
(* gives the payload back, for every shape, length and prefix; and the     *)
(* override of the back end is honoured, for every build, CPU and value of *)
(* the variable and every order in which threads select and decide.        *)
(*                                                                         *)
(* What the kernels and the matrices compute is left to TLC: it is about   *)
(* recursively generated tables.  Here their results are not looked at.    *)
(***************************************************************************)
EXTENDS MCAlgebra, FiniteSetTheorems, TLAPS

-----------------------------------------------------------------------------
(***************************************************************************)
(* Lengths.                                                                *)
(***************************************************************************)
(* usize::min and usize::max. *)
LEMMA LesserOfTwo ==
    ASSUME NEW a \in Int, NEW b \in Int
    PROVE  Min({a, b}) = IF a <= b THEN a ELSE b
<1>1. PICK m \in {a, b} : \A y \in {a, b} : m <= y
  <2>1. CASE a <= b
    BY <2>1
  <2>2. CASE b <= a
    BY <2>2
  <2> QED BY <2>1, <2>2
<1>2. Min({a, b}) \in {a, b} /\ \A y \in {a, b} : Min({a, b}) <= y
  BY <1>1, Zenon DEF Min
<1> QED BY <1>2

LEMMA GreaterOfTwo ==
    ASSUME NEW a \in Int, NEW b \in Int
    PROVE  Max({a, b}) = IF a >= b THEN a ELSE b
<1>1. PICK m \in {a, b} : \A y \in {a, b} : m >= y
  <2>1. CASE a >= b
    BY <2>1
  <2>2. CASE b >= a
    BY <2>2
  <2> QED BY <2>1, <2>2
<1>2. Max({a, b}) \in {a, b} /\ \A y \in {a, b} : Max({a, b}) >= y
  BY <1>1, Zenon DEF Max
<1> QED BY <1>2

(* What the steps below need of division and of products. *)
LEMMA Quotient ==
    ASSUME NEW n \in Nat, NEW s \in Nat \ {0}
    PROVE  n \div s \in Nat /\ (n \div s) * s <= n /\ n < (n \div s) * s + s
  OBVIOUS

LEMMA Above ==
    ASSUME NEW a \in Nat, NEW b \in Nat, a < b, NEW s \in Nat
    PROVE  a * s + s <= b * s /\ a * s \in Nat /\ b * s \in Nat
  OBVIOUS

(* The quotient is the one number that fits. *)
LEMMA QuotientIs ==
    ASSUME NEW n \in Nat, NEW s \in Nat \ {0}, NEW k \in Nat, k * s <= n, n < k * s + s
    PROVE  n \div s = k
<1> DEFINE q == n \div s
<1>1. q \in Nat /\ q * s <= n /\ n < q * s + s
  BY Quotient
<1>2. ~ (q < k)
  <2> SUFFICES ASSUME q < k PROVE FALSE
    OBVIOUS
  <2>1. q * s + s <= k * s
    BY <1>1, Above
  <2> QED BY <1>1, <2>1
<1>3. ~ (k < q)
  <2> SUFFICES ASSUME k < q PROVE FALSE
    OBVIOUS
  <2>1. k * s + s <= q * s
    BY <1>1, Above
  <2> QED BY <1>1, <2>1
<1>4. q = k
  BY <1>1, <1>2, <1>3
<1> QED BY <1>4 DEF q

LEMMA Remainder ==
    ASSUME NEW n \in Nat, NEW s \in Nat \ {0}
    PROVE  n % s \in 0 .. s - 1 /\ n = s * (n \div s) + (n % s)
  OBVIOUS

(* A multiple leaves nothing over. *)
LEMMA MultipleIs ==
    ASSUME NEW q \in Nat, NEW s \in Nat \ {0}
    PROVE  q * s \in Nat /\ (q * s) % s = 0 /\ (q * s) \div s = q
<1>1. PICK n \in Nat : n = q * s
  OBVIOUS
<1>2. n \div s = q
  BY <1>1, QuotientIs
<1>3. n = s * q + (n % s) /\ n % s \in 0 .. s - 1
  BY <1>2, Remainder
<1>4. s * q = n
  BY <1>1
<1> QED BY <1>1, <1>2, <1>3, <1>4

(* What is rounded down is a multiple. *)
LEMMA RoundedDown ==
    ASSUME NEW n \in Nat, NEW s \in Nat \ {0}
    PROVE  LET r == n - (n % s)
           IN  r \in Nat /\ r % s = 0 /\ r <= n /\ n < r + s /\ (n >= s => r >= s)
<1>1. PICK q \in Nat : q = n \div s
  BY Quotient
<1>2. n % s \in 0 .. s - 1 /\ n = s * q + (n % s)
  BY <1>1, Remainder
<1>3. PICK m \in Nat : m = q * s /\ m % s = 0
  BY MultipleIs
<1>4. n - (n % s) = m
  <2>1. s * q = m
    BY <1>3
  <2>2. PICK r \in 0 .. s - 1 : r = n % s /\ n = m + r
    BY <1>2, <2>1
  <2> QED BY <2>2
<1>5. n >= s => m >= s
  <2> SUFFICES ASSUME n >= s PROVE m >= s
    OBVIOUS
  <2>1. q # 0
    <3> SUFFICES ASSUME q = 0 PROVE FALSE
      OBVIOUS
    <3>1. m = 0
      BY <1>3
    <3> QED BY <1>2, <1>4, <3>1
  <2>2. 0 < q /\ 0 * s + s <= q * s
    BY <2>1, Above
  <2> QED BY <1>3, <2>2
<1> QED BY <1>2, <1>3, <1>4, <1>5

(* What is rounded up is a multiple. *)
LEMMA RoundedUp ==
    ASSUME NEW n \in Nat, NEW s \in Nat \ {0}
    PROVE  LET r == n + (s - (n % s))
           IN  r \in Nat /\ r % s = 0 /\ r >= n /\ r <= n + s /\ r >= s
               /\ (n % s # 0 => r < n + s)
<1>1. PICK q \in Nat : q = n \div s
  BY Quotient
<1>2. n % s \in 0 .. s - 1 /\ n = s * q + (n % s)
  BY <1>1, Remainder
<1>3. PICK m \in Nat : m = (q + 1) * s /\ m % s = 0
  BY MultipleIs
<1>4. m = s * q + s
  BY <1>3
<1>5. n + (s - (n % s)) = m
  BY <1>2, <1>4
<1>6. s * q \in Nat
  OBVIOUS
<1> QED BY <1>2, <1>3, <1>4, <1>5, <1>6

(* div_ceil: that many of s hold n. *)
LEMMA DivCeilIs ==
    ASSUME NEW n \in Nat, NEW s \in Nat \ {0}
    PROVE  /\ DivCeil(n, s) \in Nat /\ DivCeil(n, s) * s >= n /\ DivCeil(n, s) <= n
           /\ (DivCeil(n, s) = 0 <=> n = 0)
<1>1. PICK c \in Nat : c = DivCeil(n, s) /\ c * s <= n + s - 1 /\ n + s - 1 < c * s + s
  BY Quotient DEF DivCeil
<1>2. c * s \in Nat /\ c * s >= n
  BY <1>1
<1>3. c <= n
  <2> SUFFICES ASSUME n < c PROVE FALSE
    BY <1>1
  <2>1. n * s + s <= c * s /\ n * s \in Nat
    BY Above
  <2>2. n * s >= n
    <3>1. CASE s = 1
      BY <3>1
    <3>2. CASE 1 < s
      BY <3>2
    <3> QED BY <3>1, <3>2
  <2> QED BY <1>1, <2>1, <2>2
<1>4. c = 0 => n = 0
  BY <1>2
<1> QED BY <1>1, <1>2, <1>3, <1>4

(* leopard_aligned_shard_len answers a length that Leopard accepts and     *)
(* that holds the payload, but at the end of the word.                     *)
LEMMA AlignedIs ==
    ASSUME NEW len \in 0 .. WordMax, NEW shards \in Nat, NEW many \in Nat \ {0},
           many = IF shards = 0 THEN 1 ELSE shards,
           NEW a, a = leopard_aligned_shard_len(len, shards)
    PROVE  /\ a \in Nat \ {0} /\ a % ShardMultiple = 0 /\ a <= WordMax
           /\ a * many >= len \/ a + ShardMultiple > WordMax
           /\ len <= WordMax \div 2 => a * many >= len
<1>1. PICK s \in Nat \ {0}, w \in Nat : s = ShardMultiple /\ w = WordMax /\ w >= 2 * s
  BY ConstructAssumption
<1>2. PICK per \in Nat : per = DivCeil(len, many) /\ per * many >= len /\ per <= len
  BY DivCeilIs
<1>3. PICK remainder \in 0 .. s - 1 : remainder = per % s
  BY Remainder
<1>4. PICK up \in Nat : up = per + (s - remainder) /\ up % s = 0 /\ up >= per /\ up <= per + s
                        /\ up >= s /\ (remainder # 0 => up < per + s)
  BY <1>3, RoundedUp
<1>5. PICK rounded \in Nat :
        rounded = IF remainder = 0 THEN per ELSE SaturatingAdd(per, s - remainder)
  <2>1. SaturatingAdd(per, s - remainder) = IF up <= w THEN up ELSE w
    BY <1>1, <1>4, LesserOfTwo DEF SaturatingAdd
  <2> QED BY <1>1, <1>4, <2>1
<1>6. remainder # 0 => rounded = IF up <= w THEN up ELSE w
  BY <1>1, <1>4, <1>5, LesserOfTwo DEF SaturatingAdd
<1>7. PICK clamped \in Nat : clamped = Max({rounded, s})
                             /\ clamped = IF rounded >= s THEN rounded ELSE s
  BY GreaterOfTwo
<1>8. a = clamped - (clamped % s)
  BY <1>1, <1>2, <1>3, <1>5, <1>7 DEF leopard_aligned_shard_len
<1>9. a \in Nat /\ a % s = 0 /\ a <= clamped /\ clamped < a + s /\ a >= s
  <2>1. PICK down : down = clamped - (clamped % s)
    OBVIOUS
  <2>2. down \in Nat /\ down % s = 0 /\ down <= clamped /\ clamped < down + s
        /\ (clamped >= s => down >= s)
    BY <2>1, RoundedDown
  <2>3. a = down
    BY <1>8, <2>1
  <2>4. clamped >= s
    BY <1>7
  <2> QED BY <2>2, <2>3, <2>4
<1>10. clamped <= w
  <2>1. per <= w
    BY <1>1, <1>2
  <2>2. rounded <= w
    BY <1>5, <1>6, <2>1
  <2> QED BY <1>1, <1>7, <2>2
<1>11. a >= per \/ (a + s > w /\ rounded = w /\ up > w /\ remainder # 0)
  <2>1. CASE remainder = 0
    <3>1. clamped = per \/ clamped = s
      BY <1>5, <1>7, <2>1
    <3>2. clamped % s = 0
      <4>1. s % s = 0
        <5>1. (1 * s) % s = 0 /\ 1 * s = s
          BY MultipleIs
        <5> QED BY <5>1
      <4> QED BY <1>3, <2>1, <3>1, <4>1
    <3>3. a = clamped
      BY <1>8, <3>2
    <3>4. clamped >= per
      BY <1>5, <1>7, <2>1
    <3> QED BY <3>3, <3>4
  <2>2. CASE remainder # 0 /\ up <= w
    <3>1. clamped = up
      BY <1>4, <1>6, <1>7, <2>2
    <3> QED BY <1>4, <1>8, <3>1
  <2>3. CASE remainder # 0 /\ up > w
    BY <1>1, <1>6, <1>7, <1>9, <2>3
  <2> QED BY <1>4, <2>1, <2>2, <2>3
<1>12. a >= per => a * many >= len
  <2> SUFFICES ASSUME a >= per PROVE a * many >= len
    OBVIOUS
  <2>1. a * many >= per * many
    <3>1. CASE a = per
      BY <3>1
    <3>2. CASE per < a
      BY <1>9, <3>2, Above
    <3> QED BY <1>9, <3>1, <3>2
  <2>2. a * many \in Nat /\ per * many \in Nat
    BY <1>9
  <2> QED BY <1>2, <2>1, <2>2
<1>13. len <= WordMax \div 2 => a >= per
  <2> SUFFICES ASSUME len <= w \div 2 PROVE a >= per
    BY <1>1
  <2>1. 2 * len <= w
    OBVIOUS
  <2> QED BY <1>1, <1>2, <1>4, <1>11, <2>1
<1> QED BY <1>1, <1>9, <1>10, <1>11, <1>12, <1>13

(* The place of element i: shard q, position r. *)
LEMMA PlaceIs ==
    ASSUME NEW len \in Nat \ {0}, NEW k \in Nat \ {0}, NEW i \in Nat, i < len * k,
           NEW q, q = i \div len, NEW r, r = i % len
    PROVE  q \in 0 .. k - 1 /\ r \in 0 .. len - 1 /\ q * len + r = i
<1>1. q \in Nat /\ r \in 0 .. len - 1 /\ i = len * q + r
  BY Remainder, Quotient
<1>2. len * q = q * len /\ q * len \in Nat /\ len * k = k * len /\ k * len \in Nat
  BY <1>1
<1>3. q < k
  <2> SUFFICES ASSUME k <= q PROVE FALSE
    BY <1>1
  <2>1. k * len <= q * len
    <3>1. CASE k = q
      BY <1>2, <3>1
    <3>2. CASE k < q
      BY <1>1, <3>2, Above
    <3> QED BY <1>1, <3>1, <3>2
  <2> QED BY <1>1, <1>2, <2>1
<1> QED BY <1>1, <1>2, <1>3

(* The elements of one slice after another. *)
Element(data, n, i) == IF i < n THEN data[i] ELSE 0
Slices(data, n, k, len) ==
    [i \in 0 .. k - 1 |-> [j \in 0 .. len - 1 |-> Element(data, n, i * len + j)]]

(* Element i is found in slice i \div len. *)
FoundIn(shards, data, n, k, len) ==
    \A i \in Nat : len > 0 /\ i < len * k => shards[i \div len][i % len] = Element(data, n, i)

LEMMA SlicesHold ==
    ASSUME NEW data, NEW n \in Nat, NEW k \in Nat \ {0}, NEW len \in Nat, NEW shards,
           shards = Slices(data, n, k, len)
    PROVE  SliceLen(shards[0]) = len /\ FoundIn(shards, data, n, k, len)
<1>1. 0 \in 0 .. k - 1 /\ DOMAIN shards[0] = 0 .. len - 1
  BY DEF Slices
<1>2. Cardinality(0 .. len - 1) = len
  BY FS_Interval
<1>3. ASSUME NEW i \in Nat, len > 0, i < len * k
      PROVE  shards[i \div len][i % len] = Element(data, n, i)
  <2>1. PICK q, r : q = i \div len /\ r = i % len
    OBVIOUS
  <2>2. q \in 0 .. k - 1 /\ r \in 0 .. len - 1 /\ q * len + r = i
    BY <1>3, <2>1, PlaceIs
  <2>3. shards[q][r] = Element(data, n, q * len + r)
    BY <2>2 DEF Slices
  <2> QED BY <2>1, <2>2, <2>3
<1> QED BY <1>1, <1>2, <1>3 DEF SliceLen, FoundIn

(* join undoes split, whatever the payload holds and whatever prefix is    *)
(* asked for.                                                              *)
LEMMA JoinUndoesSplit ==
    ASSUME codec.k \in Nat \ {0},
           NEW n \in PayloadLengths, NEW outLen \in PayloadLengths, NEW data,
           NEW shards, shards = split(data, n), NEW joined, joined = join(shards, outLen),
           NEW room, room = SliceLen(shards[0]) * codec.k
    PROVE  /\ codec.family # "Classic" => validate_leopard_shard_len(SliceLen(shards[0]))
           /\ room >= n
           /\ joined.outcome = "Ok" <=> (n > 0 \/ codec.family # "Classic")
           /\ joined.outcome = "Ok" =>
                  joined.data = [i \in 0 .. Min({outLen, room}) - 1 |->
                                   IF i < n THEN data[i] ELSE 0]
<1>1. PICK k \in Nat \ {0}, w \in Nat : k = codec.k /\ w = WordMax
  BY ConstructAssumption
<1>2. n \in Nat /\ outLen \in Nat /\ n <= w \div 2 /\ outLen <= w \div 2 /\ w \div 2 <= w
  BY <1>1, ConstructAssumption
<1>3. n \in 0 .. WordMax /\ n <= WordMax \div 2
  BY <1>1, <1>2
<1>4. PICK len \in Nat :
        /\ len = IF codec.family # "Classic" THEN leopard_aligned_shard_len(n, k)
                 ELSE DivCeil(n, k)
        /\ len * k >= n
        /\ codec.family # "Classic" => len # 0 /\ len % ShardMultiple = 0
        /\ codec.family = "Classic" => (len = 0 <=> n = 0)
  <2>1. CASE codec.family # "Classic"
    <3>1. PICK a : a = leopard_aligned_shard_len(n, k)
      OBVIOUS
    <3>2. k = IF k = 0 THEN 1 ELSE k
      OBVIOUS
    <3>3. a \in Nat \ {0} /\ a % ShardMultiple = 0 /\ a * k >= n
      BY <1>3, <3>1, <3>2, AlignedIs
    <3> QED BY <2>1, <3>1, <3>3
  <2>2. CASE codec.family = "Classic"
    BY <1>2, <2>2, DivCeilIs
  <2> QED BY <2>1, <2>2
<1>5. shards = Slices(data, n, k, len)
  BY <1>1, <1>4 DEF split, Slices, Element
<1>6. SliceLen(shards[0]) = len /\ FoundIn(shards, data, n, k, len)
  BY <1>2, <1>5, SlicesHold
<1>7. PICK m \in Nat : m = len * k /\ m = room
  BY <1>1, <1>6
<1>8. PICK target \in Nat : target = Min({outLen, SaturatingMul(len, k)})
                            /\ target = Min({outLen, room}) /\ target <= m
  <2>1. SaturatingMul(len, k) = IF m <= w THEN m ELSE w
    BY <1>1, <1>7, LesserOfTwo DEF SaturatingMul
  <2>2. Min({outLen, SaturatingMul(len, k)})
          = IF outLen <= SaturatingMul(len, k) THEN outLen ELSE SaturatingMul(len, k)
    BY <1>2, <2>1, LesserOfTwo
  <2>3. Min({outLen, room}) = IF outLen <= m THEN outLen ELSE m
    BY <1>2, <1>7, LesserOfTwo
  <2> QED BY <1>2, <2>1, <2>2, <2>3
<1>9. joined = IF len = 0 THEN [outcome |-> "EmptyShard"]
               ELSE [outcome |-> "Ok",
                     data |-> [i \in 0 .. target - 1 |-> shards[i \div len][i % len]]]
  BY <1>1, <1>6, <1>8, Zenon DEF join
<1>10. joined.outcome = "Ok" <=> len # 0
  BY <1>9
<1>11. ASSUME len # 0
       PROVE  joined.data = [i \in 0 .. Min({outLen, room}) - 1 |-> Element(data, n, i)]
  <2>1. joined.data = [i \in 0 .. target - 1 |-> shards[i \div len][i % len]]
    BY <1>9, <1>11
  <2>2. \A i \in 0 .. target - 1 : shards[i \div len][i % len] = Element(data, n, i)
    BY <1>6, <1>7, <1>8, <1>11 DEF FoundIn
  <2>3. joined.data = [i \in 0 .. target - 1 |-> Element(data, n, i)]
    BY <2>1, <2>2, Zenon
  <2> QED BY <1>8, <2>3
<1>12. codec.family # "Classic" => validate_leopard_shard_len(SliceLen(shards[0]))
  BY <1>4, <1>6 DEF validate_leopard_shard_len
<1>13. room >= n
  BY <1>4, <1>7
<1>14. joined.outcome = "Ok" <=> (n > 0 \/ codec.family # "Classic")
  BY <1>2, <1>4, <1>10
<1> QED BY <1>10, <1>11, <1>12, <1>13, <1>14 DEF Element

-----------------------------------------------------------------------------
(***************************************************************************)
(* The calls on a codec.                                                   *)
(***************************************************************************)
(* A codec that exists has data shards. *)
CodecOK == codec # NoCodec => codec.k \in Nat \ {0}

(* Neither of the calls that the property is about. *)
OtherCall(c) == c.op # "split" /\ c.op # "aligned"

(* They leave nothing to show. *)
LEMMA OthersHold ==
    ASSUME OtherCall(call) PROVE SplitJoinRoundTrip
  BY DEF OtherCall, SplitJoinRoundTrip

(* with_options builds no codec without data shards, *)
LEMMA OptionsStep ==
    ASSUME CodecOK, NEW k \in Nat, NEW p \in Nat, NEW f, NEW m, NEW x, NEW fast, NEW capacity,
           WithOptions(k, p, f, m, x, fast, capacity)
    PROVE  CodecOK' /\ SplitJoinRoundTrip'
<1> DEFINE family == resolve_codec_family(f, m, k + p, p)
           checked == CASE k = 0 -> "TooFewDataShards"
                     [] k # 0 /\ p = 0 -> "TooFewParityShards"
                     [] k # 0 /\ p # 0 /\ k + p > max_total_shards_for_family(family) ->
                            "TooManyShards"
                     [] OTHER -> validate_leopard_family(family, k, p)
<1>1. PICK b : LET outcome == IF b.ok THEN checked ELSE "InvalidCustomMatrix"
               IN  /\ codec' = IF outcome = "Ok"
                              THEN Codec(k, p, family, x, b.matrix,
                                         normalize_inversion_cache_capacity(k, p, capacity))
                              ELSE NoCodec
                   /\ call' = [op |-> "with_options", outcome |-> outcome, k |-> k, p |-> p,
                              requested |-> f, leopardMode |-> m, mode |-> x]
  BY Zenon DEF WithOptions
<1>2. k = 0 => checked # "Ok"
  OBVIOUS
<1>3. codec' = NoCodec \/ (k # 0 /\ codec'.k = k)
  <2> HIDE DEF checked
  <2> QED BY <1>1, <1>2 DEF Codec
<1>4. call'.op = "with_options"
  BY <1>1
<1>5. SplitJoinRoundTrip'
  BY <1>4 DEF SplitJoinRoundTrip
<1> QED BY <1>3, <1>5 DEF CodecOK

(* nor does with_custom_matrix. *)
LEMMA CustomStep ==
    ASSUME CodecOK, NEW k \in Nat, NEW p \in Nat, NEW f, NEW rows, NEW fast,
           WithCustomMatrix(k, p, f, rows, fast)
    PROVE  CodecOK' /\ SplitJoinRoundTrip'
<1>1. PICK outcome :
        /\ k = 0 => outcome = "TooFewDataShards"
        /\ codec' = IF outcome = "Ok"
                    THEN Codec(k, p, "Classic", "Custom",
                               build_custom_matrix(k, k + p, rows).matrix,
                               normalize_inversion_cache_capacity(k, p, 0))
                    ELSE NoCodec
        /\ call' = [op |-> "with_custom_matrix", outcome |-> outcome, k |-> k, p |-> p]
  BY DEF WithCustomMatrix
<1>2. codec' = NoCodec \/ (k # 0 /\ codec'.k = k)
  BY <1>1 DEF Codec
<1>3. call'.op = "with_custom_matrix"
  BY <1>1
<1>4. SplitJoinRoundTrip'
  BY <1>3 DEF SplitJoinRoundTrip
<1> QED BY <1>2, <1>4 DEF CodecOK

(* The two calls that the property is about. *)
LEMMA SplitStep ==
    ASSUME CodecOK, NEW n \in PayloadLengths, NEW outLen \in PayloadLengths,
           SplitAndJoin(n, outLen)
    PROVE  CodecOK' /\ SplitJoinRoundTrip'
<1>1. /\ codec # NoCodec /\ codec' = codec
      /\ call' = [op |-> "split", n |-> n, outLen |-> outLen, shards |-> split(Payload(n), n),
                  joined |-> join(split(Payload(n), n), outLen)]
  BY DEF SplitAndJoin
<1>2. codec.k \in Nat \ {0}
  BY <1>1 DEF CodecOK
<1>3. PICK data, shards, joined, room :
        /\ data = Payload(n) /\ shards = split(data, n) /\ joined = join(shards, outLen)
        /\ room = SliceLen(shards[0]) * codec.k
  OBVIOUS
<1>4. /\ codec.family # "Classic" => validate_leopard_shard_len(SliceLen(shards[0]))
      /\ room >= n
      /\ joined.outcome = "Ok" <=> (n > 0 \/ codec.family # "Classic")
      /\ joined.outcome = "Ok" =>
             joined.data = [i \in 0 .. Min({outLen, room}) - 1 |->
                              IF i < n THEN data[i] ELSE 0]
  BY <1>2, <1>3, JoinUndoesSplit
<1>5. call' = [op |-> "split", n |-> n, outLen |-> outLen, shards |-> shards, joined |-> joined]
  BY <1>1, <1>3
<1>6. call'.op = "split" /\ call'.n = n /\ call'.outLen = outLen /\ call'.shards = shards
      /\ call'.joined = joined
  BY <1>5
<1>7. SplitJoinRoundTrip'
  BY <1>1, <1>3, <1>4, <1>6 DEF SplitJoinRoundTrip
<1> QED BY <1>1, <1>7 DEF CodecOK

LEMMA AlignedStep ==
    ASSUME CodecOK, NEW len \in WordLengths, NEW shards \in Nat, AlignedShardLen(len, shards)
    PROVE  CodecOK' /\ SplitJoinRoundTrip'
<1>1. PICK a : a = leopard_aligned_shard_len(len, shards)
  OBVIOUS
<1>2. /\ codec' = codec
      /\ call' = [op |-> "aligned", len |-> len, shards |-> shards, aligned |-> a]
  BY <1>1 DEF AlignedShardLen
<1>3. PICK many \in Nat \ {0} : many = IF shards = 0 THEN 1 ELSE shards
  OBVIOUS
<1>4. many = Max({shards, 1})
  BY <1>3, GreaterOfTwo
<1>5. len \in 0 .. WordMax
  BY ConstructAssumption
<1>6. /\ a \in Nat \ {0} /\ a % ShardMultiple = 0 /\ a <= WordMax
      /\ a * many >= len \/ a + ShardMultiple > WordMax
  BY <1>1, <1>3, <1>5, AlignedIs
<1>7. call'.op = "aligned" /\ call'.len = len /\ call'.shards = shards /\ call'.aligned = a
  BY <1>2
<1>8. SplitJoinRoundTrip'
  BY <1>4, <1>6, <1>7 DEF SplitJoinRoundTrip, validate_leopard_shard_len
<1> QED BY <1>2, <1>8 DEF CodecOK

(* The remaining calls keep the codec or drop it, and are other calls. *)
LEMMA OtherSteps ==
    ASSUME CodecOK,
           \/ \E valid : BuildDecodeMatrix(valid)
           \/ \E a, b, n : FieldCall(a, b, n)
           \/ \E k, p : BuildWithWorkspace(k, p)
           \/ \E hook : StoreFormat(hook)
           \/ CompareFormat \/ Return
    PROVE  CodecOK' /\ SplitJoinRoundTrip'
<1>1. codec' = codec \/ codec' = NoCodec
  BY Zenon DEF BuildDecodeMatrix, FieldCall, BuildWithWorkspace, StoreFormat, CompareFormat, Return
<1>2. call'.op # "split" /\ call'.op # "aligned"
  <2>1. ASSUME NEW valid, BuildDecodeMatrix(valid) PROVE call'.op = "decode"
    BY <2>1 DEF BuildDecodeMatrix
  <2>2. ASSUME NEW a, NEW b, NEW n, FieldCall(a, b, n) PROVE call'.op = "field"
    BY <2>2 DEF FieldCall
  <2>3. ASSUME NEW k, NEW p, BuildWithWorkspace(k, p) PROVE call'.op = "workspace"
    BY <2>3 DEF BuildWithWorkspace
  <2>4. ASSUME NEW hook, StoreFormat(hook) PROVE call'.op = "none"
    BY <2>4 DEF StoreFormat, NoCall
  <2>5. ASSUME CompareFormat PROVE call'.op = "compare"
    BY <2>5 DEF CompareFormat
  <2>6. ASSUME Return PROVE call'.op = "none"
    BY <2>6 DEF Return, NoCall
  <2> QED BY <2>1, <2>2, <2>3, <2>4, <2>5, <2>6
<1>3. SplitJoinRoundTrip'
  BY <1>2 DEF SplitJoinRoundTrip
<1> QED BY <1>1, <1>3 DEF CodecOK

(* Every step keeps both. *)
LEMMA ConstructInductive ==
    ASSUME CodecOK, SplitJoinRoundTrip, [Next]_vars
    PROVE  CodecOK' /\ SplitJoinRoundTrip'
<1>1. ASSUME NEW s \in Shapes PROVE s[1] \in Nat /\ s[2] \in Nat
  BY ConstructAssumption
<1>2. ASSUME NEW s \in CustomShapes PROVE s[1] \in Nat /\ s[2] \in Nat
  BY ConstructAssumption
<1>3. ASSUME NEW s \in Shapes, NEW f, NEW m, NEW x, NEW fast, NEW capacity,
             WithOptions(s[1], s[2], f, m, x, fast, capacity)
      PROVE  CodecOK' /\ SplitJoinRoundTrip'
  BY <1>1, <1>3, OptionsStep
<1>4. ASSUME NEW s \in CustomShapes, NEW f, NEW rows, NEW fast,
             WithCustomMatrix(s[1], s[2], f, rows, fast)
      PROVE  CodecOK' /\ SplitJoinRoundTrip'
  BY <1>2, <1>4, CustomStep
<1>5. ASSUME NEW len \in WordLengths, NEW shards \in 0 .. 2, AlignedShardLen(len, shards)
      PROVE  CodecOK' /\ SplitJoinRoundTrip'
  BY <1>5, AlignedStep
<1>6. CASE UNCHANGED vars
  BY <1>6 DEF vars, CodecOK, SplitJoinRoundTrip, validate_leopard_shard_len
<1> QED BY <1>3, <1>4, <1>5, <1>6, SplitStep, OtherSteps, Zenon DEF Next

(* join undoes split for every count of data shards, payload and prefix up *)
(* to half the word, which is what a slice can hold: the payload comes     *)
(* back and only padding follows; every length handed to Leopard is one it *)
(* accepts, also where rounding up saturates (split, join and              *)
(* leopard_aligned_shard_len).                                             *)
THEOREM SplitsJoin == MCSpec => []SplitJoinRoundTrip
<1>1. MCInit => CodecOK /\ SplitJoinRoundTrip
  <2> SUFFICES ASSUME MCInit PROVE CodecOK /\ SplitJoinRoundTrip
    OBVIOUS
  <2>1. codec = NoCodec /\ call = NoCall
    BY Zenon DEF MCInit, Init
  <2> QED BY <2>1, OthersHold DEF CodecOK, OtherCall, NoCall
<1>2. ASSUME CodecOK, SplitJoinRoundTrip, [MCNext]_<<subject, vars, kernelVars>>
      PROVE  CodecOK' /\ SplitJoinRoundTrip'
  <2>1. [Next]_vars
    BY <1>2 DEF MCNext
  <2> QED BY <1>2, <2>1, ConstructInductive
<1> QED BY <1>1, <1>2, PTL DEF MCSpec

-----------------------------------------------------------------------------
(***************************************************************************)
(* The choice of a back end.                                               *)
(***************************************************************************)
(* No back end; and one that the machine has and can run. *)
None == Kernels!NoBackend
Fits(backend) == backend \in Kernels!Backends /\ Kernels!Available(machine, backend)

(* What the builds are. *)
LEMMA MachineIs ==
    ASSUME machine \in Machines
    PROVE  \/ /\ machine.arch = "x86"
              /\ machine.built \subseteq {"ssse3", "avx2", "avx512", "gfni_avx2", "gfni_avx512"}
           \/ machine.arch = "aarch64" /\ machine.built \subseteq {"neon"}
           \/ machine.arch = "ppc64" /\ machine.built \subseteq {"vsx"}
<1>1. machine.arch \in {"x86", "aarch64", "ppc64"}
  BY KernelsFit DEF Kernels!KernelAssumption
<1>2. machine.built \subseteq
        CASE machine.arch = "x86" -> {"ssse3", "avx2", "avx512", "gfni_avx2", "gfni_avx512"}
          [] machine.arch = "aarch64" -> {"neon"}
          [] machine.arch = "ppc64" -> {"vsx"}
  BY KernelsFit, Zenon DEF Kernels!KernelAssumption
<1>3. CASE machine.arch = "x86"
  BY <1>2, <1>3
<1>4. CASE machine.arch = "aarch64"
  BY <1>2, <1>4
<1>5. CASE machine.arch = "ppc64"
  BY <1>2, <1>5
<1> QED BY <1>1, <1>3, <1>4, <1>5

(* Scalar code always runs. *)
LEMMA ScalarFits == Fits("scalar")
  BY DEF Fits, Kernels!Backends, Kernels!Available, Kernels!Requires

(* The automatic choice is one the machine can run. *)
LEMMA AutomaticFits ==
    ASSUME machine \in Machines
    PROVE  Fits(Kernels!auto_select_backend(machine))
<1>1. CASE machine.arch = "x86"
  <2> DEFINE S == {i \in DOMAIN Kernels!Priority : Kernels!Available(machine, Kernels!Priority[i])}
  <2>1. DOMAIN Kernels!Priority = 1 .. 6 /\ Kernels!Priority[6] = "scalar"
        /\ \A i \in 1 .. 6 : Kernels!Priority[i] \in Kernels!Backends
    BY DEF Kernels!Priority, Kernels!Backends, Kernels!Gfni
  <2>2. S \subseteq 1 .. 6 /\ 6 \in S
    BY <2>1, ScalarFits DEF Fits
  <2> HIDE DEF S
  <2>3. \E x \in S : \A y \in S : x <= y
    <3>1. CASE 1 \in S
      BY <2>2, <3>1
    <3>2. CASE 1 \notin S /\ 2 \in S
      BY <2>2, <3>2
    <3>3. CASE 1 \notin S /\ 2 \notin S /\ 3 \in S
      BY <2>2, <3>3
    <3>4. CASE 1 \notin S /\ 2 \notin S /\ 3 \notin S /\ 4 \in S
      BY <2>2, <3>4
    <3>5. CASE 1 \notin S /\ 2 \notin S /\ 3 \notin S /\ 4 \notin S /\ 5 \in S
      BY <2>2, <3>5
    <3>6. CASE 1 \notin S /\ 2 \notin S /\ 3 \notin S /\ 4 \notin S /\ 5 \notin S
      BY <2>2, <3>6
    <3> QED BY <3>1, <3>2, <3>3, <3>4, <3>5, <3>6
  <2>4. Kernels!Min(S) \in S
    BY <2>3, Zenon DEF Kernels!Min
  <2>5. Kernels!auto_select_backend(machine) = Kernels!Priority[Kernels!Min(S)]
    BY <1>1 DEF Kernels!auto_select_backend, Kernels!select_x86_backend, S
  <2> QED BY <2>1, <2>2, <2>4, <2>5 DEF Fits, S
<1>2. CASE machine.arch = "aarch64"
  <2>1. Kernels!auto_select_backend(machine) = Kernels!select_aarch64_backend(machine)
    BY <1>2 DEF Kernels!auto_select_backend
  <2>2. "neon" \in Kernels!Backends
    BY DEF Kernels!Backends
  <2> QED BY <2>1, <2>2, ScalarFits DEF Fits, Kernels!select_aarch64_backend
<1>3. CASE machine.arch = "ppc64"
  <2>1. Kernels!auto_select_backend(machine) = Kernels!select_powerpc_backend(machine)
    BY <1>3 DEF Kernels!auto_select_backend
  <2>2. "vsx" \in Kernels!Backends
    BY DEF Kernels!Backends
  <2> QED BY <2>1, <2>2, ScalarFits DEF Fits, Kernels!select_powerpc_backend
<1> QED BY <1>1, <1>2, <1>3, MachineIs

(* An override is honoured when the machine can; it selects no back end    *)
(* otherwise.                                                              *)
LEMMA OverrideIs ==
    ASSUME machine \in Machines, NEW override
    PROVE  Kernels!select_override_backend(machine, override)
             = IF Fits(override) THEN override ELSE None
<1>1. CASE machine.arch = "x86"
  <2>1. Kernels!select_override_backend(machine, override)
          = Kernels!Overridden(machine, override,
                               {"scalar", "ssse3", "avx2", "avx512"} \cup Kernels!Gfni)
    BY <1>1 DEF Kernels!select_override_backend, Kernels!select_x86_override_backend
  <2>2. machine.built \subseteq {"ssse3", "avx2", "avx512", "gfni_avx2", "gfni_avx512"}
    BY <1>1, MachineIs
  <2>3. Fits(override) <=> /\ override \in {"scalar", "ssse3", "avx2", "avx512"} \cup Kernels!Gfni
                           /\ Kernels!Available(machine, override)
    BY <2>2 DEF Fits, Kernels!Available, Kernels!Backends, Kernels!Gfni
  <2> QED BY <2>1, <2>3 DEF Kernels!Overridden, None
<1>2. CASE machine.arch = "aarch64"
  <2>1. Kernels!select_override_backend(machine, override)
          = Kernels!Overridden(machine, override, {"scalar", "neon"})
    BY <1>2 DEF Kernels!select_override_backend, Kernels!select_aarch64_override_backend
  <2>2. machine.built \subseteq {"neon"}
    BY <1>2, MachineIs
  <2>3. Fits(override) <=> override \in {"scalar", "neon"} /\ Kernels!Available(machine, override)
    BY <2>2 DEF Fits, Kernels!Available, Kernels!Backends
  <2> QED BY <2>1, <2>3 DEF Kernels!Overridden, None
<1>3. CASE machine.arch = "ppc64"
  <2>1. Kernels!select_override_backend(machine, override)
          = Kernels!Overridden(machine, override, {"scalar", "vsx"})
    BY <1>3 DEF Kernels!select_override_backend, Kernels!select_powerpc_override_backend
  <2>2. machine.built \subseteq {"vsx"}
    BY <1>3, MachineIs
  <2>3. Fits(override) <=> override \in {"scalar", "vsx"} /\ Kernels!Available(machine, override)
    BY <2>2 DEF Fits, Kernels!Available, Kernels!Backends
  <2> QED BY <2>1, <2>3 DEF Kernels!Overridden, None
<1> QED BY <1>1, <1>2, <1>3, MachineIs

(* What the first caller selects. *)
LEMMA SelectedIs ==
    ASSUME machine \in Machines
    PROVE  /\ Fits(Kernels!runtime_select_backend)
           /\ Fits(env) => Kernels!runtime_select_backend = env
<1>1. PICK override : override = Kernels!parse_backend_override(env)
  OBVIOUS
<1>2. Kernels!runtime_override_backend = IF Fits(override) THEN override ELSE None
  BY <1>1, OverrideIs DEF Kernels!runtime_override_backend
<1>3. ~ Fits(None)
  BY DEF Fits, None, Kernels!NoBackend, Kernels!Backends, Kernels!Gfni
<1>4. Fits(env) => override = env
  BY <1>1 DEF Fits, Kernels!parse_backend_override
<1> QED BY <1>2, <1>3, <1>4, AutomaticFits DEF Kernels!runtime_select_backend, None

(* A generated encoder that is selected is one the machine can run. *)
LEMMA GeneratedFits ==
    ASSUME machine \in Machines, NEW backend, NEW shape, NEW kernel,
           kernel = Kernels!SelectEncodeKernel(machine, backend, shape), kernel # None
    PROVE  Kernels!Requires(kernel) \subseteq machine.features
<1>1. ASSUME NEW isa, Kernels!select_encode_kernel(machine, isa, shape) # None,
             isa = "neon" => "neon" \in machine.built
      PROVE  /\ Kernels!select_encode_kernel(machine, isa, shape) = isa
             /\ Kernels!Requires(isa) \subseteq machine.features
  <2>1. /\ isa = "neon" \/ Kernels!Available(machine, isa)
        /\ Kernels!select_encode_kernel(machine, isa, shape) = isa
    BY <1>1 DEF Kernels!select_encode_kernel, None
  <2>2. isa = "neon" => Kernels!Requires(isa) \subseteq machine.features
    BY <1>1, KernelsFit DEF Kernels!KernelAssumption, Kernels!Requires
  <2> QED BY <2>1, <2>2 DEF Kernels!Available
<1>2. \/ kernel = "avx512" /\ Kernels!select_encode_kernel(machine, "avx512", shape) # None
      \/ kernel = Kernels!select_encode_kernel(machine, "avx2", shape)
      \/ kernel = Kernels!select_encode_kernel(machine, "avx512", shape)
      \/ "neon" \in machine.built /\ kernel = Kernels!select_encode_kernel(machine, "neon", shape)
  BY DEF Kernels!SelectEncodeKernel, None
<1> QED BY <1>1, <1>2

-----------------------------------------------------------------------------
(* As long as nobody rewrote the variable: the back end in use is the one  *)
(* that it selects, whoever is between reading it and deciding has read    *)
(* what it still is, and a permission was given for it.                    *)
Undisturbed ==
    /\ active # None => active = Kernels!runtime_select_backend
    /\ reading.generated \in {Kernels!NotReading, Kernels!parse_backend_override(env)}
    /\ reading.parallel \in {Kernels!NotReading, env}
    /\ generated = "allowed" => Kernels!parse_backend_override(env) \in {"none", "auto"}
    /\ parallel = "allowed" => env \in {"unset", "auto", active}

(* Permissions and the kernel of a call fit the back end, rewritten or not.*)
(* A generated kernel runs only after one was selected, which is why a     *)
(* later selection cannot turn out to be GFNI.                             *)
KernelIInv ==
    /\ machine \in Machines /\ changes \in Nat
    /\ active # None => Fits(active)
    /\ generated = "allowed" => active # None /\ active \notin Kernels!Gfni
    /\ parallel = "allowed" => active \in Kernels!Gfni
    /\ kernelCall # Kernels!NoCall /\ kernelCall.route = "generated"
         => active # None /\ active \notin Kernels!Gfni
    /\ changes = 0 => Undisturbed
    /\ OverrideHonoured

(* Whatever selects the back end finds it so. *)
LEMMA ActiveIs ==
    ASSUME KernelIInv
    PROVE  /\ Fits(Kernels!active_backend) /\ Kernels!active_backend # None
           /\ active # None => Kernels!active_backend = active
           /\ changes = 0 => Kernels!active_backend = Kernels!runtime_select_backend
           /\ changes = 0 /\ Fits(env) => Kernels!active_backend = env
<1>1. Fits(Kernels!runtime_select_backend) /\ (Fits(env) => Kernels!runtime_select_backend = env)
  BY SelectedIs DEF KernelIInv
<1>2. ~ Fits(None)
  BY DEF Fits, None, Kernels!NoBackend, Kernels!Backends, Kernels!Gfni
<1> QED BY <1>1, <1>2 DEF KernelIInv, Undisturbed, Kernels!active_backend, None

(* A step that may select the back end and finishes a call, of which the   *)
(* kernel and the route are known.                                         *)
LEMMA CallStep ==
    ASSUME KernelIInv, kernelCall = Kernels!NoCall,
           UNCHANGED <<machine, env, changes, reading, generated, parallel>>,
           active' \in {active, Kernels!active_backend},
           NEW kernel, NEW route,
           kernelCall' # Kernels!NoCall => kernelCall'.kernel = kernel /\ kernelCall'.route = route,
           kernelCall' # Kernels!NoCall =>
             \/ kernel = active' /\ route \in {"slice", "generic"}
             \/ /\ kernel = active' /\ route = "parallel rows"
                /\ parallel = "allowed" /\ active' = Kernels!active_backend
             \/ /\ route = "generated" /\ generated = "allowed" /\ active' = Kernels!active_backend
                /\ kernel # None => Kernels!Requires(kernel) \subseteq machine.features
    PROVE  KernelIInv'
<1>1. /\ active' # None =>
           Fits(active') /\ (changes = 0 => active' = Kernels!runtime_select_backend)
      /\ active # None => active' = active
      /\ changes = 0 /\ Fits(env) /\ active' # None => active' = env
  BY ActiveIs, SelectedIs DEF KernelIInv, Undisturbed
<1>2. Kernels!runtime_select_backend' = Kernels!runtime_select_backend
  BY DEF Kernels!runtime_select_backend, Kernels!runtime_override_backend
<1>3. (changes = 0 => Undisturbed)'
  BY <1>1, <1>2 DEF KernelIInv, Undisturbed, Kernels!Gfni, None, Kernels!NoBackend
<1>4. /\ (generated = "allowed" => active # None /\ active \notin Kernels!Gfni)'
      /\ (parallel = "allowed" => active \in Kernels!Gfni)'
      /\ (active # None => Fits(active))'
  BY <1>1 DEF KernelIInv, Fits, Kernels!Gfni, None, Kernels!NoBackend
<1>5. ASSUME kernelCall' # Kernels!NoCall
      PROVE  /\ kernelCall'.kernel = kernel /\ kernelCall'.route = route
             /\ route = "generated" => active' # None /\ active' \notin Kernels!Gfni
             /\ kernel # None => Kernels!Requires(kernel) \subseteq machine.features
             /\ changes = 0 =>
                  /\ env \in Kernels!Backends => route # "generated"
                  /\ Fits(env) /\ kernel # None => kernel = env
                  /\ env \in Kernels!Backends /\ ~Kernels!Available(machine, env)
                       => route # "parallel rows"
  <2>1. CASE kernel = active' /\ route \in {"slice", "generic"}
    BY <1>1, <1>5, <2>1 DEF Fits, Kernels!Available
  <2>2. CASE kernel = active' /\ route = "parallel rows" /\ parallel = "allowed"
    <3>1. active # None /\ active' = active
      BY <1>1, <2>2 DEF KernelIInv, Kernels!Gfni, None, Kernels!NoBackend
    <3>2. changes = 0 /\ env \in Kernels!Backends => env = active
      BY <2>2 DEF KernelIInv, Undisturbed, Kernels!Backends, Kernels!Gfni
    <3> QED BY <1>1, <1>5, <2>2, <3>1, <3>2 DEF Fits, Kernels!Available
  <2>3. CASE /\ route = "generated" /\ generated = "allowed"
             /\ kernel # None => Kernels!Requires(kernel) \subseteq machine.features
    <3>1. active # None /\ active' = active /\ active \notin Kernels!Gfni
      BY <1>1, <2>3 DEF KernelIInv
    <3>2. changes = 0 => env \notin Kernels!Backends
      BY <2>3 DEF KernelIInv, Undisturbed, Kernels!parse_backend_override, Kernels!Backends,
                  Kernels!Gfni
    <3> QED BY <1>5, <2>3, <3>1, <3>2 DEF Fits
  <2> QED BY <1>5, <2>1, <2>2, <2>3
<1>6. OverrideHonoured'
  BY <1>5 DEF OverrideHonoured, Kernels!OverrideHonoured, Fits, None
<1> QED BY <1>3, <1>4, <1>5, <1>6 DEF KernelIInv

(* The calls: on slices, reconstructing, and encoding, which alone may     *)
(* take the generated or the parallel kernels.                             *)
LEMMA SliceStep ==
    ASSUME KernelIInv, NEW c, NEW n, NEW xor,
           Kernels!MulSlice(c, n, xor) \/ Kernels!TowerSlice(c, n, xor)
    PROVE  KernelIInv'
<1>1. /\ kernelCall = Kernels!NoCall
      /\ UNCHANGED <<machine, env, changes, reading, generated, parallel>>
      /\ active' \in {active, Kernels!active_backend}
      /\ kernelCall'.kernel = active' /\ kernelCall'.route = "slice"
  BY DEF Kernels!MulSlice, Kernels!TowerSlice
<1> QED BY <1>1, CallStep

LEMMA ReconstructStep ==
    ASSUME KernelIInv, NEW shape, NEW n, Kernels!Reconstruct(shape, n)
    PROVE  KernelIInv'
<1>1. /\ kernelCall = Kernels!NoCall
      /\ UNCHANGED <<machine, env, changes, reading, generated, parallel>>
      /\ active' \in {active, Kernels!active_backend}
      /\ kernelCall'.kernel = active' /\ kernelCall'.route = "generic"
  BY DEF Kernels!Reconstruct, Kernels!CodingCall
<1> QED BY <1>1, CallStep

LEMMA EncodeStep ==
    ASSUME KernelIInv, NEW shape, NEW n, NEW isParallel, Kernels!Encode(shape, n, isParallel)
    PROVE  KernelIInv'
<1>1. PICK kernel : kernel = IF generated = "allowed"
                             THEN Kernels!SelectEncodeKernel(machine, active', shape)
                             ELSE Kernels!NoBackend
  OBVIOUS
<1>2. /\ kernelCall = Kernels!NoCall
      /\ UNCHANGED <<machine, env, changes, reading, generated, parallel>>
      /\ active' = Kernels!active_backend
  BY DEF Kernels!Encode
<1>3. \/ /\ kernelCall'.kernel = active' /\ kernelCall'.route = "parallel rows"
         /\ parallel = "allowed"
      \/ /\ kernelCall'.kernel = kernel /\ kernelCall'.route = "generated" /\ kernel # None
      \/ kernelCall'.kernel = active' /\ kernelCall'.route = "generic"
  BY <1>1 DEF Kernels!Encode, Kernels!CodingCall, None
<1>4. kernel # None => generated = "allowed" /\ Kernels!Requires(kernel) \subseteq machine.features
  BY <1>1, GeneratedFits DEF None, KernelIInv
<1> QED BY <1>2, <1>3, <1>4, CallStep

(* A closure decides while another thread's call may be finished. *)
LEMMA DecideStep ==
    ASSUME KernelIInv, Kernels!DecideGenerated \/ Kernels!DecideParallelGfni
    PROVE  KernelIInv'
<1>1. /\ UNCHANGED <<machine, env, changes, kernelCall>>
      /\ active' \in {active, Kernels!active_backend}
  BY DEF Kernels!DecideGenerated, Kernels!DecideParallelGfni
<1>2. /\ active' # None =>
           Fits(active') /\ (changes = 0 => active' = Kernels!runtime_select_backend)
      /\ active # None => active' = active
  BY <1>1, ActiveIs DEF KernelIInv, Undisturbed
<1>3. Kernels!runtime_select_backend' = Kernels!runtime_select_backend
  BY <1>1 DEF Kernels!runtime_select_backend, Kernels!runtime_override_backend
<1>4. /\ generated' = "allowed" => active' # None /\ active' \notin Kernels!Gfni
      /\ parallel' = "allowed" => active' \in Kernels!Gfni
      /\ changes = 0 =>
           /\ reading'.generated \in {Kernels!NotReading, Kernels!parse_backend_override(env)}
           /\ reading'.parallel \in {Kernels!NotReading, env}
           /\ generated' = "allowed" => Kernels!parse_backend_override(env) \in {"none", "auto"}
           /\ parallel' = "allowed" => env \in {"unset", "auto", active'}
  <2>1. CASE Kernels!DecideGenerated
    <3>1. /\ active' = Kernels!active_backend /\ parallel' = parallel
          /\ reading.generated # Kernels!NotReading
          /\ reading' = [reading EXCEPT !.generated = Kernels!NotReading]
          /\ generated' = "allowed" =>
               reading.generated \in {"none", "auto"} /\ active' \notin Kernels!Gfni
      BY <2>1 DEF Kernels!DecideGenerated, Kernels!Verdict,
                  Kernels!generated_encode_allowed_for_backend
    <3>2. reading'.generated \in {Kernels!NotReading, reading.generated}
          /\ reading'.parallel = reading.parallel
      BY <3>1
    <3>3. parallel = "allowed" => active' = active
      BY <1>2 DEF KernelIInv, Kernels!Gfni, None, Kernels!NoBackend
    <3> QED BY <3>1, <3>2, <3>3, ActiveIs DEF KernelIInv, Undisturbed
  <2>2. CASE Kernels!DecideParallelGfni
    <3>1. /\ generated' = generated /\ reading.parallel # Kernels!NotReading
          /\ reading' = [reading EXCEPT !.parallel = Kernels!NotReading]
          /\ parallel' = "allowed" =>
               active' \in Kernels!Gfni /\ reading.parallel \in {"unset", "auto", active'}
      BY <2>2 DEF Kernels!DecideParallelGfni, Kernels!Verdict,
                  Kernels!parallel_gfni_encode_allowed_for_backend
    <3>2. reading'.parallel \in {Kernels!NotReading, reading.parallel}
          /\ reading'.generated = reading.generated
      BY <3>1
    <3> QED BY <1>2, <3>1, <3>2 DEF KernelIInv, Undisturbed
  <2> QED BY <2>1, <2>2
<1>5. (changes = 0 => Undisturbed)'
  BY <1>1, <1>2, <1>3, <1>4 DEF Undisturbed
<1>6. /\ (active # None => Fits(active))'
      /\ (kernelCall # Kernels!NoCall /\ kernelCall.route = "generated"
             => active # None /\ active \notin Kernels!Gfni)'
  BY <1>1, <1>2 DEF KernelIInv, Fits
<1>7. OverrideHonoured'
  BY <1>1, <1>6 DEF KernelIInv, OverrideHonoured, Kernels!OverrideHonoured
<1> QED BY <1>1, <1>4, <1>5, <1>6, <1>7 DEF KernelIInv

(* The first half of a decision, and a caller that sets the variable. *)
LEMMA ReadStep ==
    ASSUME KernelIInv, Kernels!ReadOverride \/ Kernels!ReadRequested \/ Kernels!SetEnv
                       \/ Kernels!Return \/ UNCHANGED kernelVars
    PROVE  KernelIInv'
<1>1. UNCHANGED <<machine, active, generated, parallel>>
  BY DEF Kernels!ReadOverride, Kernels!ReadRequested, Kernels!SetEnv, Kernels!Return, kernelVars
<1>2. /\ changes' \in Nat
      /\ changes' = 0 => changes = 0 /\ env' = env
      /\ kernelCall' # Kernels!NoCall
           => kernelCall' = kernelCall /\ env' = env /\ changes' = changes
  BY DEF KernelIInv, Kernels!ReadOverride, Kernels!ReadRequested, Kernels!SetEnv, Kernels!Return,
         kernelVars
<1>3. (changes = 0 => Undisturbed)'
  <2> SUFFICES ASSUME changes' = 0 PROVE Undisturbed'
    OBVIOUS
  <2>1. Undisturbed /\ env' = env
    BY <1>2 DEF KernelIInv
  <2>2. Kernels!runtime_select_backend' = Kernels!runtime_select_backend
    BY <1>1, <2>1 DEF Kernels!runtime_select_backend, Kernels!runtime_override_backend
  <2>3. /\ reading'.generated \in {reading.generated, Kernels!parse_backend_override(env)}
        /\ reading'.parallel \in {reading.parallel, env}
    <3>1. CASE Kernels!ReadOverride
      <4>1. reading' = [reading EXCEPT !.generated = Kernels!parse_backend_override(env)]
        BY <3>1 DEF Kernels!ReadOverride
      <4> QED BY <4>1
    <3>2. CASE Kernels!ReadRequested
      <4>1. reading' = [reading EXCEPT !.parallel = env]
        BY <3>2 DEF Kernels!ReadRequested
      <4> QED BY <4>1
    <3>3. CASE Kernels!SetEnv \/ Kernels!Return \/ UNCHANGED kernelVars
      BY <3>3 DEF Kernels!SetEnv, Kernels!Return, kernelVars
    <3> QED BY <3>1, <3>2, <3>3
  <2> QED BY <1>1, <2>1, <2>2, <2>3 DEF Undisturbed
<1>4. OverrideHonoured'
  BY <1>1, <1>2 DEF KernelIInv, OverrideHonoured, Kernels!OverrideHonoured
<1> QED BY <1>1, <1>2, <1>3, <1>4 DEF KernelIInv, Fits

(* Every step keeps the invariant. *)
LEMMA KernelInductive ==
    ASSUME KernelIInv, Kernels!Next \/ UNCHANGED kernelVars
    PROVE  KernelIInv'
  BY SliceStep, ReconstructStep, EncodeStep, DecideStep, ReadStep, Zenon DEF Kernels!Next

(* Nothing is selected or permitted at the start. *)
LEMMA InitKernels ==
    ASSUME NEW m \in Machines, NEW value, Kernels!InitOn(m, value)
    PROVE  KernelIInv
<1>1. /\ machine \in Machines /\ changes = 0 /\ active = None /\ generated = Kernels!Undecided
      /\ parallel = Kernels!Undecided /\ kernelCall = Kernels!NoCall
      /\ reading.generated = Kernels!NotReading /\ reading.parallel = Kernels!NotReading
  BY DEF Kernels!InitOn, Kernels!NoReaders, None
<1>2. OverrideHonoured
  BY <1>1 DEF OverrideHonoured, Kernels!OverrideHonoured
<1> QED BY <1>1, <1>2 DEF KernelIInv, Undisturbed, Kernels!Undecided

(* On every build and CPU and for every value of RSE_BACKEND_OVERRIDE, in  *)
(* whatever order threads select the back end and decide the two           *)
(* permissions: an override the machine can honour is the kernel of every  *)
(* call, one it cannot still keeps generated and parallel GFNI code out,   *)
(* generated table code never displaces GFNI, and no call runs an          *)
(* instruction the CPU does not have, even when the variable is rewritten. *)
THEOREM OverridesAreHonoured == MCSpec => []OverrideHonoured
<1>1. MCInit => KernelIInv
  <2> SUFFICES ASSUME MCInit PROVE KernelIInv
    OBVIOUS
  <2>1. \E m \in Machines : \E value : Kernels!InitOn(m, value)
    <3>1. (CHOOSE m \in Machines : TRUE) \in Machines
      BY KernelsFit DEF Kernels!KernelAssumption
    <3> QED BY <3>1 DEF MCInit, Kernels!Init
  <2> QED BY <2>1, InitKernels
<1>2. ASSUME KernelIInv, [MCNext]_<<subject, vars, kernelVars>>
      PROVE  KernelIInv'
  <2>1. Kernels!Next \/ UNCHANGED kernelVars
    BY <1>2 DEF MCNext
  <2> QED BY <1>2, <2>1, KernelInductive
<1>3. KernelIInv => OverrideHonoured
  BY DEF KernelIInv
<1> QED BY <1>1, <1>2, <1>3, PTL DEF MCSpec

=============================================================================
