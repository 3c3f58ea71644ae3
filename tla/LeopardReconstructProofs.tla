---------------------- MODULE LeopardReconstructProofs ----------------------
(***************************************************************************)
(* Proofs about LeopardReconstruct, for every number of data and parity    *)
(* shards, every array, mask and scratch size: what is marked present is   *)
(* right, and a call restores all it was asked for or leaves the array as  *)
(* it was, up to the destinations before one that refuses its shard.  And  *)
(* about the caches its decoders draw from, for every shape, budget, depth *)
(* of nesting and number of threads.                                       *)
(***************************************************************************)
EXTENDS MCLeopardReconstruct, FiniteSetTheorems, SequenceTheorems, WellFoundedInduction, TLAPS

(***************************************************************************)
(* The inductive invariant.                                                *)
(***************************************************************************)
SettingOK == container \in Containers /\ inline \in BOOLEAN /\ stripe_len \in StripeLens

(* The array keeps its shards; a missing option never holds a buffer. *)
ArrayOK(sh) ==
    /\ sh \in [Shards -> ShardType]
    /\ container = "vec" => \A i \in Missing(sh) : sh[i] = NoBuffer

CallerOK ==
    /\ Shards \subseteq Nat /\ IsFiniteSet(Shards)
    /\ ArrayOK(shards) /\ ArrayOK(before.array)
    /\ before.wanted \subseteq Missing(before.array)
    /\ pc \in {"idle", "bind", "decode", "publish"}
    /\ calls \in 0 .. MaxCalls /\ edits \in 0 .. MaxEdits

Running == pc \in {"decode", "publish"}
Written(len) == Shard(len, BytesOf(len))

(* Present shards hold bytes of the stripe, except those the direct path   *)
(* has put there for its decoder.                                          *)
Clean ==
    \A i \in Shards : shards[i].present =>
       \/ shards[i].bytes = BytesOf(shards[i].len)
       \/ pc = "decode" /\ run.direct /\ i \in run.requested

LenOK == run.shard_len \in (StripeLens \cup OddLens) \ {0}

(* Between validation and binding the direct path's array cannot change. *)
BindOK ==
    pc = "bind" =>
      /\ LenOK /\ result = "none"
      /\ run.direct => /\ container = "vec" /\ shards = before.array
                       /\ before.wanted = Requested(run.required, shards)

(* The bound inputs and outputs of the decoder. *)
BoundOK ==
    Running =>
      /\ LenOK /\ result = "none"
      /\ run.requested = before.wanted
      /\ run.present = Present(before.array)
      /\ \A i \in Shards \ run.requested : shards[i] = before.array[i]

DirectOK ==
    Running /\ run.direct =>
      /\ pc = "decode" /\ container = "vec"
      /\ \A i \in run.requested : shards[i].present /\ shards[i].len = run.shard_len

(* Staged outputs have cells of their own; they are published in order. *)
RunFields == {"direct", "layout", "shard_len", "present", "requested", "outputs", "todo"}
StagedOK ==
    Running /\ ~ run.direct =>
      /\ DOMAIN run = RunFields
      /\ DOMAIN staging = Cells(run.layout, run.shard_len, Cardinality(run.requested))
      /\ run.outputs =
           [i \in run.requested |-> CellOf(run.layout, run.shard_len, run.requested, i)]
      /\ run.todo \subseteq run.requested
      /\ pc = "decode" => run.todo = run.requested
      /\ pc = "publish" => \A i \in run.requested :
            staging[run.outputs[i]] = <<i, BytesOf(run.shard_len)>>
      /\ \A i \in run.todo : shards[i] = before.array[i]
      /\ \A i \in run.requested \ run.todo :
            /\ shards[i] = Written(run.shard_len)
            /\ \A j \in run.todo : i < j

IInv == SettingOK /\ CallerOK /\ Clean /\ BindOK /\ BoundOK /\ DirectOK /\ StagedOK /\ AllOrNothing

-----------------------------------------------------------------------------
(***************************************************************************)
(* First elements, quorums and cells.                                      *)
(***************************************************************************)

(* A set of shards has a first one. *)
LEMMA MinIsLeast ==
    ASSUME NEW S \in SUBSET Nat, S # {}
    PROVE  Min(S) \in S /\ \A j \in S : Min(S) <= j
<1>1. PICK x \in S : \A y \in S : ~ (<<y, x>> \in OpToRel(<, Nat))
  BY NatLessThanWellFounded, WFMin
<1>2. ASSUME NEW y \in S, y < x PROVE <<y, x>> \in OpToRel(<, Nat)
  <2>1. <<y, x>> \in Nat \X Nat
    OBVIOUS
  <2>2. <<y, x>>[1] < <<y, x>>[2]
    BY <1>2
  <2> QED BY <2>1, <2>2, Zenon DEF OpToRel
<1>3. \A y \in S : ~ (y < x)
  BY <1>1, <1>2, Zenon
<1>4. \A y \in S : x <= y
  BY <1>3
<1> QED BY <1>4 DEF Min

(* A quorum is not empty. *)
LEMMA QuorumNotEmpty == ASSUME NEW S, Cardinality(S) >= DataShards PROVE S # {}
BY LeopardAssumption, FS_EmptySet

(* Counting requested shards off in order gives each a number of its own,  *)
(* from one to their count.                                                *)
LEMMA CountedOff ==
    ASSUME NEW R \in SUBSET Nat, IsFiniteSet(R), NEW i \in R
    PROVE  /\ Cardinality({j \in R : j <= i}) \in 1 .. Cardinality(R)
           /\ \A k \in R : i < k =>
                Cardinality({j \in R : j <= i}) < Cardinality({j \in R : j <= k})
<1> DEFINE upto(k) == {j \in R : j <= k}
<1>1. \A k \in R : /\ upto(k) \subseteq R /\ IsFiniteSet(upto(k))
                   /\ Cardinality(upto(k)) \in Nat /\ Cardinality(upto(k)) <= Cardinality(R)
  BY FS_Subset, FS_CardinalityType
<1>2. Cardinality(upto(i)) # 0
  <2>1. i \in upto(i)
    OBVIOUS
  <2> QED BY <1>1, <2>1, FS_EmptySet
<1>3. Cardinality(R) \in Nat
  BY FS_CardinalityType
<1>4. ASSUME NEW k \in R, i < k PROVE Cardinality(upto(i)) < Cardinality(upto(k))
  <2>0. \A j \in R : j <= i => j <= k
    BY <1>4
  <2>1. /\ upto(i) \in SUBSET upto(k)
        /\ k \in upto(k) /\ k \notin upto(i)
    <3>1. upto(i) \in SUBSET upto(k)
      BY <2>0
    <3>2. k <= k /\ ~ (k <= i)
      BY <1>4
    <3> QED BY <1>4, <3>1, <3>2
  <2>2. upto(k) # upto(i)
    BY <2>1
  <2> HIDE DEF upto
  <2>3. /\ Cardinality(upto(i)) <= Cardinality(upto(k))
        /\ Cardinality(upto(k)) = Cardinality(upto(i)) => upto(k) = upto(i)
    BY <1>1, <2>1, FS_Subset
  <2> QED BY <1>1, <2>2, <2>3
<1> QED BY <1>1, <1>2, <1>3, <1>4

(* Every requested output has a cell among those the layout provides. *)
LEMMA CellsCover ==
    ASSUME NEW layout, NEW len \in Nat \ {0}, NEW R \in SUBSET Shards, R \subseteq Nat,
           IsFiniteSet(R), NEW i \in R
    PROVE  CellOf(layout, len, R, i) \in Cells(layout, len, Cardinality(R))
<1>1. CASE layout # "packed"
  BY <1>1 DEF CellOf, Cells
<1>2. CASE layout = "packed"
  <2> DEFINE k == Cardinality({j \in R : j <= i})
             n == InlineBytes \div len
  <2>1. k \in 1 .. Cardinality(R) /\ Cardinality(R) \in Nat
    BY CountedOff, FS_CardinalityType
  <2>2. n \in Int
    BY LeopardAssumption
  <2>3. CellOf(layout, len, R, i) = IF k <= n THEN <<"scratch", k>> ELSE <<"overflow", k - n>>
    BY <1>2 DEF CellOf, PackedCell
  <2>4. Cells(layout, len, Cardinality(R)) =
          ({"scratch"} \X (1 .. n)) \cup ({"overflow"} \X (1 .. Cardinality(R) - n))
    BY <1>2 DEF Cells
  <2> HIDE DEF k, n
  <2>5. CASE k <= n
    BY <2>1, <2>2, <2>3, <2>4, <2>5
  <2>6. CASE ~ (k <= n)
    <3>1. k - n \in 1 .. Cardinality(R) - n
      BY <2>1, <2>2, <2>6
    <3> QED BY <2>3, <2>4, <2>6, <3>1
  <2> QED BY <2>5, <2>6
<1> QED BY <1>1, <1>2

(* Two requested outputs never share a cell. *)
LEMMA CellsDistinct ==
    ASSUME NEW layout, NEW len \in Nat \ {0}, NEW R \in SUBSET Nat,
           IsFiniteSet(R), NEW i \in R, NEW j \in R, i # j
    PROVE  CellOf(layout, len, R, i) # CellOf(layout, len, R, j)
<1>1. CASE layout # "packed"
  BY <1>1 DEF CellOf, OwnCell
<1>2. CASE layout = "packed"
  <2> DEFINE k(x) == Cardinality({y \in R : y <= x})
             n == InlineBytes \div len
  <2>1. k(i) \in Int /\ k(j) \in Int /\ n \in Int
    BY CountedOff, FS_CardinalityType, LeopardAssumption
  <2>2. k(i) # k(j)
    <3>1. ASSUME NEW x \in R, NEW y \in R, x < y PROVE k(x) < k(y)
      BY <3>1, CountedOff
    <3>2. i < j \/ j < i
      OBVIOUS
    <3> HIDE DEF k
    <3> QED BY <2>1, <3>1, <3>2
  <2>3. \A x \in R : CellOf(layout, len, R, x) =
          IF k(x) <= n THEN <<"scratch", k(x)>> ELSE <<"overflow", k(x) - n>>
    BY <1>2 DEF CellOf, PackedCell
  <2> HIDE DEF k, n
  <2> QED BY <2>1, <2>2, <2>3
<1> QED BY <1>1, <1>2

-----------------------------------------------------------------------------
(***************************************************************************)
(* The records of the array.                                               *)
(***************************************************************************)
Lens == StripeLens \cup OddLens \cup {0}
Contents == {"right", "zero", "partial", "stale", "cut"}

LEMMA ShardTypes ==
    /\ \A len \in Lens, b \in Contents : Shard(len, b) \in ShardType
    /\ NoBuffer \in ShardType
    /\ \A s \in ShardType : Lost(s) \in ShardType /\ ~ Lost(s).present
    /\ \A s \in ShardType, len \in Lens : [s EXCEPT !.len = len] \in ShardType
    /\ \A s \in ShardType, b \in Contents : [s EXCEPT !.bytes = b] \in ShardType
    /\ \A len : BytesOf(len) \in {"right", "cut"}
<1>1. \A s \in ShardType : [s EXCEPT !.present = FALSE, !.bytes = "stale"] \in ShardType
  BY DEF ShardType
<1>2. \A s \in ShardType : ~ [s EXCEPT !.present = FALSE, !.bytes = "stale"].present
  BY DEF ShardType
<1> QED BY <1>1, <1>2 DEF ShardType, Shard, NoBuffer, Lost, BytesOf, Lens, Contents

(* The fields of a shard. *)
LEMMA ShardFields ==
    /\ \A len, b : /\ Shard(len, b).present /\ Shard(len, b).len = len
                   /\ Shard(len, b).bytes = b
    /\ ~ NoBuffer.present
    /\ \A b : \A s \in ShardType : /\ [s EXCEPT !.bytes = b].present = s.present
                                   /\ [s EXCEPT !.bytes = b].len = s.len
                                   /\ [s EXCEPT !.bytes = b].bytes = b
    /\ \A len : \A s \in ShardType : [s EXCEPT !.len = len].present = s.present
    /\ \A s \in ShardType : s.present \in BOOLEAN /\ s.len \in Lens /\ s.bytes \in Contents
BY DEF Shard, NoBuffer, ShardType, Lens, Contents

(* Writing bytes leaves the rest of a shard alone. *)
LEMMA BytesOnly ==
    ASSUME NEW s \in ShardType, NEW b
    PROVE  /\ [s EXCEPT !.bytes = b].present <=> s.present
           /\ [s EXCEPT !.bytes = b].len = s.len
           /\ [s EXCEPT !.bytes = b].bytes = b
BY ShardFields

-----------------------------------------------------------------------------
(***************************************************************************)
(* The caller's steps.                                                     *)
(***************************************************************************)
LEMMA InitIInv == Init => IInv
<1> SUFFICES ASSUME Init PROVE IInv
  OBVIOUS
<1>1. PICK n \in ShardCounts : \E missing \in SUBSET (0 .. n - 1) :
         shards = [i \in 0 .. n - 1 |->
              IF i \in missing THEN Lost(Shard(stripe_len, "right")) ELSE Shard(stripe_len, "right")]
  BY DEF Init
<1>2. PICK missing \in SUBSET (0 .. n - 1) :
         shards = [i \in 0 .. n - 1 |->
              IF i \in missing THEN Lost(Shard(stripe_len, "right")) ELSE Shard(stripe_len, "right")]
  BY <1>1
<1>3. Shards = 0 .. n - 1 /\ Shards \subseteq Nat /\ IsFiniteSet(Shards)
  BY <1>2, LeopardAssumption, FS_Interval DEF Shards
<1>4. /\ Shard(stripe_len, "right") \in ShardType
      /\ Lost(Shard(stripe_len, "right")) \in ShardType
      /\ ~ Lost(Shard(stripe_len, "right")).present
  BY ShardTypes DEF Init, Lens, Contents
<1>5. shards \in [Shards -> ShardType]
  BY <1>2, <1>3, <1>4
<1>6. container = "vec" => \A i \in Missing(shards) : shards[i] = NoBuffer
  BY <1>2, <1>3, ShardFields DEF Missing, Present, Shards, Lost
<1>7. CallerOK
  BY <1>3, <1>5, <1>6, LeopardAssumption DEF CallerOK, ArrayOK, Init
<1>8. Clean
  BY <1>2, <1>3, <1>4, ShardFields DEF Clean, BytesOf, Shards
<1> QED BY <1>7, <1>8 DEF IInv, SettingOK, BindOK, BoundOK, DirectOK, StagedOK, Running,
                          AllOrNothing, Init

(* A caller changes a shard between two calls. *)
LEMMA EditStep ==
    ASSUME IInv, NEW i \in Shards, NEW s \in ShardType, Edit(i, s),
           s.present => s.bytes = BytesOf(s.len),
           container = "vec" /\ ~ s.present => s = NoBuffer
    PROVE  IInv'
<1>1. /\ pc = "idle" /\ shards' = [shards EXCEPT ![i] = s] /\ result' = "none"
      /\ UNCHANGED <<container, inline, stripe_len, pc, before, calls>>
      /\ edits < MaxEdits /\ edits' = edits + 1
  BY DEF Edit, setting
<1>2. shards \in [Shards -> ShardType] /\ Shards' = Shards
  BY <1>1 DEF IInv, CallerOK, ArrayOK, Shards
<1>3. /\ shards' \in [Shards -> ShardType]
      /\ \A j \in Shards : shards'[j] = IF j = i THEN s ELSE shards[j]
  BY <1>1, <1>2
<1>4. SettingOK'
  BY <1>1 DEF IInv, SettingOK
<1>5. CallerOK'
  <2>1. ArrayOK(before.array)' /\ (before.wanted \subseteq Missing(before.array))'
    BY <1>1, <1>2 DEF IInv, CallerOK, ArrayOK, Missing, Present
  <2>2. ArrayOK(shards)'
    BY <1>1, <1>2, <1>3 DEF IInv, CallerOK, ArrayOK, Missing, Present
  <2> QED BY <1>1, <1>2, <2>1, <2>2, LeopardAssumption DEF IInv, CallerOK
<1>6. Clean'
  BY <1>1, <1>2, <1>3 DEF IInv, Clean, BytesOf
<1> QED BY <1>1, <1>4, <1>5, <1>6
           DEF IInv, BindOK, BoundOK, DirectOK, StagedOK, Running, AllOrNothing

LEMMA CallerStep ==
    ASSUME IInv, NEW i \in Shards,
           \/ Lose(i) \/ Restore(i)
           \/ \E len \in OddLens \cup {stripe_len} : Refit(i, len)
           \/ \E len \in OddLens : Cut(i, len)
    PROVE  IInv'
<1>1. shards[i] \in ShardType /\ stripe_len \in StripeLens
  BY DEF IInv, CallerOK, ArrayOK, SettingOK
<1>2. CASE Lose(i)
  <2>1. Lost(shards[i]) \in ShardType /\ ~ Lost(shards[i]).present
    BY <1>1, ShardTypes
  <2>2. container = "vec" => Lost(shards[i]) = NoBuffer
    BY DEF Lost
  <2> QED BY <1>2, <2>1, <2>2, EditStep DEF Lose
<1>3. CASE Restore(i)
  <2>1. /\ Shard(stripe_len, "right") \in ShardType /\ Shard(stripe_len, "right").present
        /\ Shard(stripe_len, "right").bytes = BytesOf(Shard(stripe_len, "right").len)
    BY <1>1, ShardTypes, ShardFields DEF BytesOf, Lens, Contents
  <2> QED BY <1>3, <2>1, EditStep DEF Restore
<1>4. ASSUME NEW len \in OddLens \cup {stripe_len}, Refit(i, len) PROVE IInv'
  <2>1. [shards[i] EXCEPT !.len = len] \in ShardType /\ ~ [shards[i] EXCEPT !.len = len].present
    BY <1>1, <1>4, ShardTypes, ShardFields DEF Refit, Lens
  <2> QED BY <1>4, <2>1, EditStep DEF Refit
<1>5. ASSUME NEW len \in OddLens, Cut(i, len) PROVE IInv'
  <2>1. Shard(len, "cut") \in ShardType
    BY ShardTypes DEF Lens, Contents
  <2>2. Shard(len, "cut").present /\ Shard(len, "cut").bytes = BytesOf(Shard(len, "cut").len)
    BY <1>1, LeopardAssumption, ShardFields DEF BytesOf
  <2> QED BY <1>5, <2>1, <2>2, EditStep DEF Cut
<1> QED BY <1>2, <1>3, <1>4, <1>5

(* A container of the caller's own answers differently before binding. *)
LEMMA ChangeOfMindStep ==
    ASSUME IInv, NEW i \in Shards, ChangeOfMind(i)
    PROVE  IInv'
<1> DEFINE s == IF shards[i].present THEN Lost(shards[i])
                ELSE Shard(shards[i].len, BytesOf(shards[i].len))
<1>1. /\ pc = "bind" /\ container = "user" /\ shards' = [shards EXCEPT ![i] = s]
      /\ UNCHANGED <<container, inline, stripe_len, pc, run, result, before, calls>>
      /\ edits < MaxEdits /\ edits' = edits + 1
  BY DEF ChangeOfMind, setting
<1>2. shards \in [Shards -> ShardType] /\ Shards' = Shards
  BY <1>1 DEF IInv, CallerOK, ArrayOK, Shards
<1>3. s \in ShardType /\ (s.present => s.bytes = BytesOf(s.len))
  <2>1. shards[i] \in ShardType
    BY <1>2
  <2>2. CASE shards[i].present
    <3>1. s = Lost(shards[i])
      BY <2>2
    <3>2. Lost(shards[i]) \in ShardType /\ ~ Lost(shards[i]).present
      BY <2>1, ShardTypes
    <3> QED BY <3>1, <3>2
  <2>3. CASE ~ shards[i].present
    <3>1. s = Shard(shards[i].len, BytesOf(shards[i].len))
      BY <2>3
    <3>2. shards[i].len \in Lens /\ BytesOf(shards[i].len) \in Contents
      BY <2>1, ShardFields DEF BytesOf, Contents
    <3> QED BY <3>1, <3>2, ShardTypes, ShardFields
  <2> QED BY <2>2, <2>3
<1> HIDE DEF s
<1>4. /\ shards' \in [Shards -> ShardType]
      /\ \A j \in Shards : shards'[j] = IF j = i THEN s ELSE shards[j]
  BY <1>1, <1>2, <1>3
<1>5. SettingOK'
  BY <1>1 DEF IInv, SettingOK
<1>6. CallerOK'
  <2>1. ArrayOK(before.array)' /\ (before.wanted \subseteq Missing(before.array))'
    BY <1>1, <1>2 DEF IInv, CallerOK, ArrayOK, Missing, Present
  <2>2. ArrayOK(shards)'
    BY <1>1, <1>2, <1>4 DEF ArrayOK
  <2> QED BY <1>1, <1>2, <2>1, <2>2, LeopardAssumption DEF IInv, CallerOK
<1>7. Clean'
  BY <1>1, <1>2, <1>3, <1>4 DEF IInv, Clean, BytesOf
<1>8. BindOK'
  BY <1>1 DEF IInv, BindOK, LenOK
<1> QED BY <1>1, <1>5, <1>6, <1>7, <1>8
           DEF IInv, BindOK, BoundOK, DirectOK, StagedOK, Running, AllOrNothing

-----------------------------------------------------------------------------
(***************************************************************************)
(* A call: validation and binding.                                         *)
(***************************************************************************)

(* validate_leopard_reconstruction lets only a length of at least one byte *)
(* pass, that of a shard in the array.                                     *)
LEMMA ValidLen ==
    ASSUME IInv, Validation(shards) = "Ok"
    PROVE  LenOf(shards) \in (StripeLens \cup OddLens) \ {0}
<1>1. ScanError(shards) = "Ok" /\ Cardinality(Present(shards)) >= DataShards
  <2>1. ScanError(shards) = "Ok" /\ QuorumError(shards) = "Ok"
    BY DEF Validation, Then
  <2>2. Present(shards) \subseteq Shards /\ IsFiniteSet(Shards)
    BY DEF Present, Shards, IInv, CallerOK
  <2>3. Cardinality(Present(shards)) \in Nat
    BY <2>2, FS_Subset, FS_CardinalityType
  <2> QED BY <2>1, <2>3, LeopardAssumption DEF QuorumError
<1>2. Present(shards) # {} /\ Present(shards) \subseteq Nat
  BY <1>1, QuorumNotEmpty DEF IInv, CallerOK, Present, Shards
<1> DEFINE first == Min(Present(shards))
<1>3. first \in Present(shards)
  BY <1>2, MinIsLeast
<1>4. shards[first] \in ShardType
  BY <1>3 DEF IInv, CallerOK, ArrayOK, Present, Shards
<1>5. shards[first].len # 0
  BY <1>1, <1>3 DEF ScanError
<1> QED BY <1>4, <1>5, ShardFields DEF LenOf, Lens

(* A call that ends with the array as it found it. *)
LEMMA EndsUntouched ==
    ASSUME IInv, NEW res, Ends(res), UNCHANGED <<container, inline, stripe_len, shards>>,
           NEW wanted \in SUBSET Missing(shards), res = "Ok" => wanted = {},
           before' = [array |-> shards, wanted |-> wanted],
           calls' \in 0 .. MaxCalls, UNCHANGED edits,
           pc # "decode"
    PROVE  IInv'
<1>1. /\ pc' = "idle" /\ result' = res /\ Shards' = Shards
      /\ before'.array = shards /\ before'.wanted = wanted
  BY DEF Ends, Shards
<1>2. SettingOK'
  BY DEF IInv, SettingOK
<1>3. CallerOK'
  <2>1. ArrayOK(shards)' /\ ArrayOK(before.array)'
    BY <1>1 DEF IInv, CallerOK, ArrayOK, Missing, Present
  <2> QED BY <1>1, <2>1 DEF IInv, CallerOK, Missing, Present
<1>4. Clean'
  BY <1>1 DEF IInv, Clean, BytesOf
<1>5. AllOrNothing'
  BY <1>1 DEF AllOrNothing
<1> QED BY <1>1, <1>2, <1>3, <1>4, <1>5
           DEF IInv, BindOK, BoundOK, DirectOK, StagedOK, Running

LEMMA CallStep ==
    ASSUME IInv, NEW direct \in BOOLEAN, NEW mask \in Masks, Call(direct, mask)
    PROVE  IInv'
<1> DEFINE e == Then(MaskError(mask), Validation(shards))
           wanted == mask.set \cap Missing(shards)
<1>1. /\ pc = "idle" /\ calls' = calls + 1 /\ calls < MaxCalls
      /\ direct => container = "vec"
      /\ before' = [array |-> shards, wanted |-> wanted]
      /\ UNCHANGED <<container, inline, stripe_len, shards, edits>>
  BY DEF Call, setting
<1>2. calls' \in 0 .. MaxCalls
  BY <1>1, LeopardAssumption DEF IInv, CallerOK
<1>3. CASE e # "Ok" /\ Ends(e)
  BY <1>1, <1>2, <1>3, EndsUntouched
<1>4. CASE e = "Ok" /\ wanted = {} /\ Ends("Ok")
  BY <1>1, <1>2, <1>4, EndsUntouched
<1>5. CASE /\ e = "Ok"
           /\ pc' = "bind" /\ result' = "none"
           /\ run' = [direct |-> direct, required |-> mask.set, shard_len |-> LenOf(shards)]
  <2>1. LenOK'
    <3>1. Validation(shards) = "Ok"
      BY <1>5 DEF Then
    <3> QED BY <1>1, <1>5, <3>1, ValidLen DEF LenOK
  <2>2. /\ Shards' = Shards /\ before'.array = shards /\ before'.wanted = wanted
        /\ run'.direct = direct /\ run'.required = mask.set
    BY <1>1, <1>5 DEF Shards
  <2>3. SettingOK'
    BY <1>1 DEF IInv, SettingOK
  <2>4. CallerOK'
    <3>1. ArrayOK(shards)' /\ ArrayOK(before.array)'
      BY <1>1, <2>2 DEF IInv, CallerOK, ArrayOK, Missing, Present
    <3> QED BY <1>1, <1>2, <1>5, <2>2, <3>1 DEF IInv, CallerOK, Missing, Present
  <2>5. Clean'
    BY <1>1, <2>2 DEF IInv, Clean, BytesOf
  <2>6. BindOK'
    BY <1>1, <1>5, <2>1, <2>2 DEF BindOK, Requested, Missing, Present
  <2> QED BY <1>5, <2>3, <2>4, <2>5, <2>6
             DEF IInv, BoundOK, DirectOK, StagedOK, Running, AllOrNothing
<1> QED BY <1>3, <1>4, <1>5 DEF Call

LEMMA BindStagedStep ==
    ASSUME IInv, BindStaged
    PROVE  IInv'
<1> DEFINE requested == Requested(run.required, shards)
           layout == Layout(run.shard_len)
<1>1. /\ pc = "bind" /\ ~ run.direct
      /\ before' = [array |-> shards, wanted |-> requested]
      /\ UNCHANGED <<container, inline, stripe_len, shards, calls, edits>>
  BY DEF BindStaged, setting
<1>2. requested \in SUBSET Missing(shards)
  BY DEF Requested
<1>3. CASE Ends("IncorrectShardSize")
  BY <1>1, <1>2, <1>3, EndsUntouched DEF IInv, CallerOK
<1>4. CASE /\ pc' = "decode" /\ UNCHANGED result
           /\ staging' = [x \in Cells(layout, run.shard_len, Cardinality(requested)) |-> Empty]
           /\ run' = [direct |-> FALSE, layout |-> layout, shard_len |-> run.shard_len,
                      present |-> Present(shards), requested |-> requested,
                      outputs |-> [j \in requested |->
                          CellOf(layout, run.shard_len, requested, j)],
                      todo |-> requested]
  <2>1. /\ Shards' = Shards /\ before'.array = shards /\ before'.wanted = requested
        /\ run'.direct = FALSE /\ run'.layout = layout /\ run'.shard_len = run.shard_len
        /\ run'.present = Present(shards) /\ run'.requested = requested
        /\ run'.todo = requested
        /\ run'.outputs = [j \in requested |-> CellOf(layout, run.shard_len, requested, j)]
        /\ result' = "none"
    BY <1>1, <1>4 DEF Shards, IInv, BindOK
  <2>2. SettingOK'
    BY <1>1 DEF IInv, SettingOK
  <2>3. CallerOK'
    <3>1. ArrayOK(shards)' /\ ArrayOK(before.array)'
      BY <1>1, <2>1 DEF IInv, CallerOK, ArrayOK, Missing, Present
    <3> QED BY <1>1, <1>2, <1>4, <2>1, <3>1 DEF IInv, CallerOK, Missing, Present
  <2>4. Clean'
    BY <1>1, <2>1 DEF IInv, Clean, BytesOf
  <2>5. BoundOK'
    BY <1>1, <2>1 DEF IInv, BindOK, BoundOK, LenOK, Present
  <2>6. StagedOK'
    <3>1. DOMAIN staging' = Cells(run'.layout, run'.shard_len, Cardinality(run'.requested))
      BY <1>4, <2>1
    <3>2. Cells(run.layout, run.shard_len, Cardinality(run.requested))' =
            Cells(run'.layout, run'.shard_len, Cardinality(run'.requested))
      BY <2>1 DEF Cells
    <3>3. DOMAIN run' = RunFields
      BY <1>4 DEF RunFields
    <3> QED BY <1>1, <1>4, <2>1, <3>1, <3>2, <3>3 DEF StagedOK, CellOf, PackedCell, OwnCell
  <2> QED BY <1>4, <2>1, <2>2, <2>3, <2>4, <2>5, <2>6
             DEF IInv, BindOK, DirectOK, AllOrNothing
<1> QED BY <1>3, <1>4 DEF BindStaged

LEMMA BindDirectStep ==
    ASSUME IInv, BindDirect
    PROVE  IInv'
<1> DEFINE requested == Requested(run.required, shards)
<1>1. /\ pc = "bind" /\ run.direct /\ pc' = "decode"
      /\ shards' = [i \in Shards |->
                      IF i \in requested THEN Shard(run.shard_len, "zero") ELSE shards[i]]
      /\ run'.direct /\ run'.shard_len = run.shard_len
      /\ run'.present = Present(shards) /\ run'.requested = requested
      /\ UNCHANGED <<container, inline, stripe_len, result, before, calls, edits>>
  BY DEF BindDirect, setting
<1>2. /\ container = "vec" /\ shards = before.array /\ before.wanted = requested
      /\ LenOK /\ result = "none"
  BY <1>1 DEF IInv, BindOK
<1>3. Shards' = Shards
  BY <1>1 DEF Shards
<1>4. Shard(run.shard_len, "zero") \in ShardType
  BY <1>2, ShardTypes DEF LenOK, Lens, Contents
<1>5. shards' \in [Shards -> ShardType]
  BY <1>1, <1>4 DEF IInv, CallerOK, ArrayOK
<1>6. requested \subseteq Shards /\ requested \subseteq Missing(shards)
  BY DEF Requested, Missing, Shards
<1>7. SettingOK'
  BY <1>1 DEF IInv, SettingOK
<1>8. CallerOK'
  <2>1. ArrayOK(before.array)'
    BY <1>1, <1>3 DEF IInv, CallerOK, ArrayOK, Missing, Present
  <2>2. ArrayOK(shards)'
    BY <1>1, <1>3, <1>5, ShardFields DEF IInv, CallerOK, ArrayOK, Missing, Present, Shards
  <2> QED BY <1>1, <1>3, <2>1, <2>2 DEF IInv, CallerOK, Missing, Present
<1>9. Clean'
  BY <1>1, <1>3 DEF IInv, Clean, BytesOf
<1>10. BoundOK'
  BY <1>1, <1>2, <1>3 DEF BoundOK, LenOK
<1>11. DirectOK'
  BY <1>1, <1>2, <1>6, ShardFields DEF DirectOK
<1> QED BY <1>1, <1>2, <1>7, <1>8, <1>9, <1>10, <1>11
           DEF IInv, BindOK, StagedOK, AllOrNothing

-----------------------------------------------------------------------------
(***************************************************************************)
(* The decoder and the publication.                                        *)
(***************************************************************************)

(* The decoder's inputs are right or all cut to one length. *)
LEMMA DecodedIsRight ==
    ASSUME IInv, pc = "decode", DecoderError = "Ok"
    PROVE  DecodedBytes = BytesOf(run.shard_len)
<1>1. /\ run.present = Present(before.array) /\ run.requested = before.wanted
      /\ \A i \in Shards \ run.requested : shards[i] = before.array[i]
  BY DEF IInv, BoundOK, Running
<1>2. run.present \subseteq Shards /\ run.present \cap run.requested = {}
  BY <1>1 DEF IInv, CallerOK, ArrayOK, Missing, Present
<1>3. Cardinality(run.present) \in Nat
  BY <1>2, FS_Subset, FS_CardinalityType DEF IInv, CallerOK
<1>4. /\ \A i \in run.present : shards[i].len = run.shard_len
      /\ Cardinality(run.present) >= DataShards
  BY <1>3, LeopardAssumption DEF DecoderError
<1>5. run.present # {}
  BY <1>4, QuorumNotEmpty
<1>6. \A i \in run.present : shards[i].bytes = BytesOf(run.shard_len)
  BY <1>1, <1>2, <1>4 DEF IInv, Clean, Present
<1>7. BytesOf(run.shard_len) \in {"right", "cut"}
  BY ShardTypes
<1> QED BY <1>5, <1>6, <1>7 DEF DecodedBytes

(* The decoder writes to the array only on the direct path. *)
LEMMA ArrayWithStep ==
    ASSUME IInv, pc = "decode", NEW b, shards' = ArrayWith(b)
    PROVE  /\ Shards' = Shards
           /\ \A i \in Shards : shards'[i] = IF run.direct /\ i \in run.requested
                                  THEN [shards[i] EXCEPT !.bytes = b] ELSE shards[i]
           /\ ~ run.direct => shards' = shards
           /\ b \in Contents => shards' \in [Shards -> ShardType]
           /\ Present(shards)' = Present(shards)
<1>1. shards \in [Shards -> ShardType]
  BY DEF IInv, CallerOK, ArrayOK
<1>2. /\ Shards' = Shards
      /\ \A i \in Shards : shards'[i] = IF run.direct /\ i \in run.requested
                                  THEN [shards[i] EXCEPT !.bytes = b] ELSE shards[i]
  BY DEF ArrayWith, Shards
<1>3. ~ run.direct => shards' = shards
  BY <1>1, <1>2 DEF ArrayWith
<1>4. b \in Contents => shards' \in [Shards -> ShardType]
  BY <1>1, ShardTypes DEF ArrayWith
<1>5. ASSUME NEW i \in Shards PROVE shards'[i].present <=> shards[i].present
  <2>1. shards[i] \in ShardType
    BY <1>1
  <2>2. [shards[i] EXCEPT !.bytes = b].present <=> shards[i].present
    BY <2>1, ShardFields
  <2> QED BY <1>2, <2>2
<1>6. \A i : i \in Present(shards)' <=> i \in Present(shards)
  BY <1>2, <1>5 DEF Present, Shards
<1> QED BY <1>2, <1>3, <1>4, <1>6

(* While the decoder writes to all outputs, the array and the bound parts  *)
(* of the invariant stay as they are.                                      *)
LEMMA DecoderWrites ==
    ASSUME IInv, pc = "decode", NEW b \in Contents, shards' = ArrayWith(b),
           UNCHANGED <<container, inline, stripe_len, before, calls, edits>>,
           pc' \in {"idle", "decode", "publish"}
    PROVE  SettingOK' /\ CallerOK'
<1>1. /\ Shards' = Shards /\ Present(shards)' = Present(shards)
      /\ shards' \in [Shards -> ShardType]
      /\ \A i \in Shards : shards'[i] = IF run.direct /\ i \in run.requested
                             THEN [shards[i] EXCEPT !.bytes = b] ELSE shards[i]
  BY ArrayWithStep
<1>2. SettingOK'
  BY DEF IInv, SettingOK
<1>3. ArrayOK(before.array)' /\ (before.wanted \subseteq Missing(before.array))'
  BY <1>1 DEF IInv, CallerOK, ArrayOK, Missing, Present
<1>4. container = "vec" => \A i \in Missing(shards)' : shards'[i] = NoBuffer
  <2> SUFFICES ASSUME container = "vec", NEW i \in Missing(shards)' PROVE shards'[i] = NoBuffer
    OBVIOUS
  <2>1. i \in Missing(shards) /\ i \in Shards /\ ~ shards[i].present
    BY <1>1 DEF Missing, Shards, Present
  <2>2. ~ (run.direct /\ i \in run.requested)
    BY <2>1 DEF IInv, DirectOK, Running
  <2> QED BY <1>1, <2>1, <2>2 DEF IInv, CallerOK, ArrayOK
<1> QED BY <1>1, <1>2, <1>3, <1>4 DEF IInv, CallerOK, ArrayOK

LEMMA DecodeChunkStep ==
    ASSUME IInv, DecodeChunk
    PROVE  IInv'
<1>1. /\ pc = "decode" /\ shards' = ArrayWith("partial") /\ staging' = StagingWith("partial")
      /\ UNCHANGED <<container, inline, stripe_len, pc, run, result, before, calls, edits>>
  BY DEF DecodeChunk, setting
<1>2. /\ Shards' = Shards
      /\ \A i \in Shards : shards'[i] = IF run.direct /\ i \in run.requested
                             THEN [shards[i] EXCEPT !.bytes = "partial"] ELSE shards[i]
      /\ ~ run.direct => shards' = shards
  BY <1>1, ArrayWithStep
<1>3. SettingOK' /\ CallerOK'
  BY <1>1, DecoderWrites DEF Contents
<1>4. Clean'
  BY <1>1, <1>2 DEF IInv, Clean, BytesOf
<1>5. BoundOK'
  BY <1>1, <1>2 DEF IInv, BoundOK, LenOK, Running
<1>6. DirectOK'
  <2>1. ASSUME run.direct, NEW i \in run.requested
        PROVE  shards'[i].present /\ shards'[i].len = run.shard_len
    <3>1. /\ shards[i].present /\ shards[i].len = run.shard_len /\ i \in Shards
      BY <1>1, <2>1 DEF IInv, DirectOK, BoundOK, Running, CallerOK, ArrayOK, Missing
    <3>2. shards[i] \in ShardType
      BY <3>1 DEF IInv, CallerOK, ArrayOK
    <3>3. shards'[i] = [shards[i] EXCEPT !.bytes = "partial"]
      BY <1>2, <2>1, <3>1
    <3>4. (shards'[i].present <=> shards[i].present) /\ shards'[i].len = shards[i].len
      BY <3>2, <3>3, BytesOnly
    <3> QED BY <3>1, <3>4
  <2> QED BY <1>1, <2>1 DEF IInv, DirectOK, Running
<1>7. StagedOK'
  <2>1. DOMAIN staging' = DOMAIN staging
    BY <1>1 DEF StagingWith
  <2> QED BY <1>1, <1>2, <2>1 DEF IInv, StagedOK, Running, Cells, CellOf, PackedCell, OwnCell,
                                   Written, BytesOf
<1> QED BY <1>1, <1>3, <1>4, <1>5, <1>6, <1>7
           DEF IInv, BindOK, BoundOK, Running, AllOrNothing

(* The last chunk writes each staged output to the cell of its shard. *)
LEMMA StagedInOwnCells ==
    ASSUME IInv, Running, ~ run.direct, NEW b, NEW i \in run.requested
    PROVE  run.outputs[i] \in DOMAIN staging /\ StagingWith(b)[run.outputs[i]] = <<i, b>>
<1>1. /\ DOMAIN staging = Cells(run.layout, run.shard_len, Cardinality(run.requested))
      /\ run.outputs =
           [j \in run.requested |-> CellOf(run.layout, run.shard_len, run.requested, j)]
  BY DEF IInv, StagedOK
<1>2. /\ run.requested \in SUBSET Shards /\ run.requested \in SUBSET Nat
      /\ IsFiniteSet(run.requested)
  <2>1. run.requested \subseteq Shards
    BY DEF IInv, BoundOK, CallerOK, ArrayOK, Missing
  <2> QED BY <2>1, FS_Subset DEF IInv, CallerOK
<1>3. run.shard_len \in Nat \ {0}
  BY LeopardAssumption DEF IInv, BoundOK, LenOK
<1>4. run.outputs[i] \in DOMAIN staging
  BY <1>1, <1>2, <1>3, CellsCover
<1>5. ASSUME NEW j \in run.requested, run.outputs[j] = run.outputs[i] PROVE j = i
  BY <1>1, <1>2, <1>3, <1>5, CellsDistinct
<1>6. (CHOOSE j \in run.requested : run.outputs[j] = run.outputs[i]) = i
  BY <1>5
<1> QED BY <1>4, <1>6 DEF StagingWith

LEMMA DecodeEndStep ==
    ASSUME IInv, DecodeEnd
    PROVE  IInv'
<1> DEFINE b == BytesOf(run.shard_len)
<1>1. /\ pc = "decode" /\ DecoderError = "Ok" /\ shards' = ArrayWith(DecodedBytes)
      /\ UNCHANGED <<container, inline, stripe_len, before, calls, edits>>
      /\ pc' \in {"idle", "publish"}
  BY DEF DecodeEnd, setting, Ends
<1>2. DecodedBytes = b /\ b \in {"right", "cut"} /\ b \in Contents
  BY <1>1, DecodedIsRight, ShardTypes DEF Contents
<1>3. /\ Shards' = Shards
      /\ \A i \in Shards : shards'[i] = IF run.direct /\ i \in run.requested
                             THEN [shards[i] EXCEPT !.bytes = b] ELSE shards[i]
      /\ ~ run.direct => shards' = shards
  BY <1>1, <1>2, ArrayWithStep
<1>4. SettingOK' /\ CallerOK'
  BY <1>1, <1>2, DecoderWrites
<1>5. /\ run.requested = before.wanted /\ before.wanted \subseteq Shards
      /\ \A i \in Shards \ run.requested : shards[i] = before.array[i]
  BY <1>1 DEF IInv, BoundOK, Running, CallerOK, ArrayOK, Missing
<1>6. CASE run.direct /\ Ends("Ok")
  <2>1. pc' = "idle" /\ result' = "Ok" /\ run.direct
    BY <1>6 DEF Ends
  <2>2. \A i \in run.requested : /\ shards'[i].present /\ shards'[i].bytes = b
                                 /\ shards'[i].len = run.shard_len
    <3> SUFFICES ASSUME NEW i \in run.requested
                 PROVE  /\ shards'[i].present /\ shards'[i].bytes = b
                        /\ shards'[i].len = run.shard_len
      OBVIOUS
    <3>1. /\ shards[i].present /\ shards[i].len = run.shard_len /\ shards[i] \in ShardType
          /\ i \in Shards
      BY <1>1, <1>5, <2>1 DEF IInv, DirectOK, Running, CallerOK, ArrayOK
    <3> HIDE DEF b
    <3>2. shards'[i] = [shards[i] EXCEPT !.bytes = b]
      BY <1>3, <2>1, <3>1
    <3>3. /\ shards'[i].present <=> shards[i].present
          /\ shards'[i].len = shards[i].len /\ shards'[i].bytes = b
      BY <3>1, <3>2, BytesOnly
    <3> QED BY <3>1, <3>3
  <2>3. Clean'
    <3> SUFFICES ASSUME NEW i \in Shards, shards'[i].present
                 PROVE  shards'[i].bytes = BytesOf(shards'[i].len)
      BY <1>1, <1>3 DEF Clean, BytesOf
    <3>1. CASE i \in run.requested
      BY <2>2, <3>1
    <3>2. CASE i \notin run.requested
      BY <1>3, <3>2 DEF IInv, Clean
    <3> QED BY <3>1, <3>2
  <2>4. AllOrNothing'
    <3>1. \A i \in Shards : IF i \in before.wanted
            THEN shards'[i].present /\ shards'[i].bytes \in {"right", "cut"}
            ELSE shards'[i] = before.array[i]
      BY <1>2, <1>3, <1>5, <2>2
    <3> QED BY <1>1, <1>3, <2>1, <3>1 DEF AllOrNothing
  <2> QED BY <1>4, <2>1, <2>3, <2>4
             DEF IInv, BindOK, BoundOK, DirectOK, StagedOK, Running
<1>7. CASE /\ ~ run.direct /\ staging' = StagingWith(DecodedBytes)
           /\ pc' = "publish" /\ UNCHANGED <<run, result>>
  <2>1. shards' = shards /\ result = "none"
    BY <1>1, <1>3, <1>7 DEF IInv, BoundOK, Running
  <2>2. Clean' /\ BoundOK'
    BY <1>1, <1>7, <2>1 DEF IInv, Clean, BoundOK, LenOK, Running, BytesOf, Shards
  <2>3. StagedOK'
    <3>1. DOMAIN staging' = DOMAIN staging
      BY <1>7 DEF StagingWith
    <3>2. \A i \in run.requested : staging'[run.outputs[i]] = <<i, b>>
      BY <1>1, <1>2, <1>7, StagedInOwnCells DEF Running
    <3> QED BY <1>1, <1>7, <2>1, <3>1, <3>2
               DEF IInv, StagedOK, Running, Cells, CellOf, PackedCell, OwnCell, Written, BytesOf,
                   Shards
  <2> QED BY <1>1, <1>4, <1>7, <2>1, <2>2, <2>3
             DEF IInv, BindOK, DirectOK, Running, AllOrNothing
<1> QED BY <1>6, <1>7 DEF DecodeEnd

(* The array is the one the call found: what was missing then is missing   *)
(* again, whether it was rolled back or never written.                     *)
LEMMA TakenBack ==
    ASSUME IInv, pc = "decode", shards' = IF run.direct THEN RolledBack(shards) ELSE shards
    PROVE  shards' = before.array
<1>1. /\ run.present = Present(before.array) /\ run.requested = before.wanted
      /\ \A i \in Shards \ run.requested : shards[i] = before.array[i]
      /\ before.array \in [Shards -> ShardType] /\ shards \in [Shards -> ShardType]
      /\ before.wanted \subseteq Missing(before.array)
  BY DEF IInv, BoundOK, Running, CallerOK, ArrayOK
<1>2. CASE run.direct
  <2>1. \A i \in run.requested : i \notin run.present /\ before.array[i] = NoBuffer
    BY <1>1, <1>2 DEF IInv, DirectOK, Running, CallerOK, ArrayOK, Missing
  <2>2. shards' = [i \in Shards |-> IF i \in run.requested THEN NoBuffer ELSE shards[i]]
    BY <1>2, <2>1 DEF RolledBack, Shards
  <2>3. \A i \in Shards : shards'[i] = before.array[i]
    BY <1>1, <2>1, <2>2
  <2> QED BY <1>1, <2>2, <2>3
<1>3. CASE ~ run.direct
  <2>1. \A i \in run.requested : shards[i] = before.array[i]
    BY <1>3 DEF IInv, StagedOK, Running
  <2> QED BY <1>1, <1>3, <2>1
<1> QED BY <1>2, <1>3

LEMMA DecodeFailsStep ==
    ASSUME IInv, DecodeFails
    PROVE  IInv'
<1>1. /\ pc = "decode" /\ pc' = "idle" /\ result' # "Ok"
      /\ UNCHANGED <<container, inline, stripe_len, before, calls, edits>>
      /\ shards' = IF run.direct THEN RolledBack(shards) ELSE shards
  BY DEF DecodeFails, Ends, setting
<1>2. shards' = before.array
  BY <1>1, TakenBack
<1>3. Shards' = Shards /\ before.array \in [Shards -> ShardType]
  BY <1>2 DEF IInv, CallerOK, ArrayOK, Shards
<1>4. SettingOK'
  BY <1>1 DEF IInv, SettingOK
<1>5. CallerOK'
  <2>1. ArrayOK(before.array)' /\ (before.wanted \subseteq Missing(before.array))'
    BY <1>1, <1>3 DEF IInv, CallerOK, ArrayOK, Missing, Present
  <2>2. ArrayOK(shards)'
    BY <1>1, <1>2, <2>1
  <2> QED BY <1>1, <1>3, <2>1, <2>2 DEF IInv, CallerOK
<1>6. Clean'
  <2> SUFFICES ASSUME NEW i \in Shards, before.array[i].present
               PROVE  before.array[i].bytes = BytesOf(before.array[i].len)
    BY <1>1, <1>2, <1>3 DEF Clean, BytesOf
  <2>1. i \notin run.requested
    BY <1>1 DEF IInv, BoundOK, Running, CallerOK, Missing, Present
  <2>2. shards[i] = before.array[i]
    BY <1>1, <2>1 DEF IInv, BoundOK, Running
  <2> QED BY <2>1, <2>2 DEF IInv, Clean
<1>7. AllOrNothing'
  BY <1>1, <1>2 DEF AllOrNothing
<1> QED BY <1>1, <1>4, <1>5, <1>6, <1>7
           DEF IInv, BindOK, BoundOK, DirectOK, StagedOK, Running

LEMMA PublishStep ==
    ASSUME IInv, Publish
    PROVE  IInv'
<1>1. /\ pc = "publish" /\ Running /\ ~ run.direct
      /\ UNCHANGED <<container, inline, stripe_len, before, calls, edits>>
  BY DEF Publish, setting, IInv, DirectOK, Running
<1>2. /\ LenOK /\ run.requested = before.wanted
      /\ \A i \in Shards \ run.requested : shards[i] = before.array[i]
      /\ before.wanted \subseteq Missing(before.array) /\ before.wanted \subseteq Shards
      /\ before.array \in [Shards -> ShardType] /\ shards \in [Shards -> ShardType]
  BY <1>1 DEF IInv, BoundOK, CallerOK, ArrayOK, Missing
<1>3. /\ run.todo \subseteq run.requested
      /\ \A i \in run.todo : shards[i] = before.array[i]
      /\ \A i \in run.requested \ run.todo :
           shards[i] = Written(run.shard_len) /\ \A j \in run.todo : i < j
  BY <1>1 DEF IInv, StagedOK
<1>4. /\ Written(run.shard_len).present /\ Written(run.shard_len).len = run.shard_len
      /\ Written(run.shard_len).bytes = BytesOf(run.shard_len)
      /\ Written(run.shard_len) \in ShardType
      /\ BytesOf(run.shard_len) \in {"right", "cut"}
  BY <1>2, ShardTypes, ShardFields DEF Written, LenOK, Lens, Contents
<1>5. \A i \in before.wanted : ~ before.array[i].present
  BY <1>2 DEF Missing, Present
<1>6. ASSUME NEW res, Ends(res), UNCHANGED shards, AllOrNothing' PROVE IInv'
  <2>1. pc' = "idle" /\ Shards' = Shards
    BY <1>6 DEF Ends, Shards
  <2>2. SettingOK'
    BY <1>1 DEF IInv, SettingOK
  <2>3. CallerOK'
    <3>1. ArrayOK(shards)' /\ ArrayOK(before.array)'
      BY <1>1, <1>6, <2>1 DEF IInv, CallerOK, ArrayOK, Missing, Present
    <3> QED BY <1>1, <2>1, <3>1 DEF IInv, CallerOK, Missing, Present
  <2>4. Clean'
    BY <1>1, <1>6, <2>1 DEF IInv, Clean, BytesOf
  <2> QED BY <1>6, <2>1, <2>2, <2>3, <2>4
             DEF IInv, BindOK, BoundOK, DirectOK, StagedOK, Running
<1>7. CASE run.todo = {} /\ Ends("Ok") /\ UNCHANGED shards
  <2>1. \A i \in Shards : IF i \in before.wanted
          THEN shards[i].present /\ shards[i].bytes \in {"right", "cut"}
          ELSE shards[i] = before.array[i]
    BY <1>2, <1>3, <1>4, <1>7
  <2>2. AllOrNothing'
    BY <1>1, <1>7, <2>1 DEF AllOrNothing, Ends, Shards
  <2> QED BY <1>6, <1>7, <2>2
<1>8. CASE /\ ~ Accepts(shards[Min(run.todo)])
           /\ Ends("IncorrectShardSize") /\ UNCHANGED shards
  <2> DEFINE restored == {i \in Shards : shards[i] # before.array[i]}
  <2>1. container # "vec"
    BY <1>8 DEF Accepts
  <2>2. restored \subseteq run.requested \ run.todo
    BY <1>2, <1>3
  <2>3. \A j \in before.wanted \ restored : j \in run.todo
    BY <1>2, <1>3, <1>4, <1>5
  <2>4. \A i \in restored, j \in before.wanted \ restored : i < j
    BY <1>3, <2>2, <2>3
  <2>5. result' = "IncorrectShardSize" /\ Shards' = Shards
    BY <1>8 DEF Ends, Shards
  <2>6. AllOrNothing'
    BY <1>1, <1>2, <1>8, <2>1, <2>2, <2>4, <2>5 DEF AllOrNothing
  <2> QED BY <1>6, <1>8, <2>6
<1>9. CASE /\ run.todo # {}
           /\ LET i == Min(run.todo)
                  cell == PublishCell(run.layout, run.shard_len, run.requested, i)
              IN /\ shards' = [shards EXCEPT ![i] = Shard(run.shard_len,
                                 IF staging[cell][1] = i THEN staging[cell][2] ELSE "stale")]
                 /\ run' = [run EXCEPT !.todo = @ \ {i}]
           /\ UNCHANGED <<pc, staging, result>>
  <2> DEFINE i == Min(run.todo)
  <2>0. run.todo \in SUBSET Nat
    BY <1>2, <1>3 DEF IInv, CallerOK
  <2>1. i \in run.todo /\ \A j \in run.todo : i <= j
    BY <1>9, <2>0, MinIsLeast
  <2> HIDE DEF i
  <2>2. staging[PublishCell(run.layout, run.shard_len, run.requested, i)] =
          <<i, BytesOf(run.shard_len)>>
    BY <1>1, <1>3, <2>1 DEF IInv, StagedOK, PublishCell
  <2>3. shards' = [shards EXCEPT ![i] = Written(run.shard_len)]
    BY <1>9, <2>2 DEF Written, i
  <2>4. /\ i \in Shards /\ Shards' = Shards /\ shards' \in [Shards -> ShardType]
        /\ \A j \in Shards : shards'[j] = IF j = i THEN Written(run.shard_len) ELSE shards[j]
    BY <1>2, <1>3, <1>4, <2>1, <2>3 DEF Shards
  <2>5. /\ DOMAIN run' = RunFields /\ run'.todo = run.todo \ {i}
        /\ UNCHANGED <<run.direct, run.layout, run.shard_len, run.present, run.requested,
                       run.outputs>>
        /\ UNCHANGED <<pc, staging, result>>
    BY <1>1, <1>9 DEF IInv, StagedOK, RunFields, i
  <2>6. SettingOK'
    BY <1>1 DEF IInv, SettingOK
  <2>7. CallerOK'
    <3>1. ArrayOK(before.array)' /\ (before.wanted \subseteq Missing(before.array))'
      BY <1>1, <2>4 DEF IInv, CallerOK, ArrayOK, Missing, Present
    <3>2. ASSUME container = "vec", NEW j \in Missing(shards)' PROVE shards'[j] = NoBuffer
      <4>1. j \in Shards /\ ~ shards'[j].present
        BY <2>4 DEF Missing, Present, Shards
      <4>2. shards'[j] = shards[j]
        BY <1>4, <2>4, <4>1
      <4>3. j \in Missing(shards)
        BY <4>1, <4>2 DEF Missing, Present, Shards
      <4> QED BY <3>2, <4>2, <4>3 DEF IInv, CallerOK, ArrayOK
    <3>3. ArrayOK(shards)'
      BY <1>1, <2>4, <3>2 DEF ArrayOK
    <3> QED BY <1>1, <2>4, <2>5, <3>1, <3>3 DEF IInv, CallerOK
  <2>8. Clean'
    BY <1>1, <1>4, <2>4, <2>5 DEF IInv, Clean, BytesOf
  <2>9. BoundOK'
    BY <1>1, <1>2, <1>3, <2>1, <2>4, <2>5 DEF IInv, BoundOK, LenOK, Running
  <2>10. StagedOK'
    <3>1. \A j \in run'.todo : j \in run.todo /\ j # i /\ shards'[j] = before.array[j]
      BY <1>2, <1>3, <2>4, <2>5
    <3>2. \A k \in run.requested \ run'.todo :
            shards'[k] = Written(run.shard_len) /\ \A j \in run'.todo : k < j
      <4>1. \A j \in run'.todo : i < j
        BY <2>0, <2>1, <3>1
      <4> QED BY <1>2, <1>3, <2>4, <2>5, <3>1, <4>1
    <3>3. DOMAIN staging' =
            Cells(run.layout, run.shard_len, Cardinality(run.requested))'
      BY <1>1, <2>4, <2>5 DEF IInv, StagedOK, Cells
    <3>4. \A j \in run'.requested : staging'[run'.outputs[j]] = <<j, BytesOf(run.shard_len)>>'
      BY <1>1, <2>5 DEF IInv, StagedOK, BytesOf
    <3>5. run'.outputs =
           [j \in run'.requested |-> CellOf(run.layout, run.shard_len, run.requested, j)']
      BY <1>1, <2>5 DEF IInv, StagedOK, CellOf, PackedCell, OwnCell
    <3>6. Written(run.shard_len)' = Written(run.shard_len)
      BY <1>1, <2>5 DEF Written, BytesOf
    <3>7. run'.todo \subseteq run'.requested
      BY <1>3, <2>5
    <3> QED BY <1>1, <2>5, <3>1, <3>2, <3>3, <3>4, <3>5, <3>6, <3>7 DEF StagedOK
  <2> QED BY <1>1, <2>5, <2>6, <2>7, <2>8, <2>9, <2>10
             DEF IInv, BindOK, BoundOK, DirectOK, Running, AllOrNothing
<1> QED BY <1>7, <1>8, <1>9 DEF Publish

-----------------------------------------------------------------------------
(***************************************************************************)
(* The theorems.                                                           *)
(***************************************************************************)
LEMMA StutterStep == ASSUME IInv, UNCHANGED vars PROVE IInv'
<1>1. UNCHANGED <<container, inline, stripe_len, shards, pc, run, staging, result, before,
                  calls, edits>>
  BY DEF vars
<1>2. SettingOK' /\ CallerOK'
  BY <1>1 DEF IInv, SettingOK, CallerOK, ArrayOK, Shards, Missing, Present
<1>3. Clean' /\ BindOK' /\ BoundOK' /\ DirectOK'
  BY <1>1 DEF IInv, Clean, BindOK, BoundOK, DirectOK, LenOK, Running, BytesOf, Shards,
              Requested, Missing, Present
<1>4. StagedOK'
  BY <1>1 DEF IInv, StagedOK, Running, Cells, CellOf, PackedCell, OwnCell, Written, BytesOf,
              Shards
<1>5. AllOrNothing'
  BY <1>1 DEF IInv, AllOrNothing, Shards
<1> QED BY <1>2, <1>3, <1>4, <1>5 DEF IInv

LEMMA Inductive == IInv /\ [Next]_vars => IInv'
<1> SUFFICES ASSUME IInv, [Next]_vars PROVE IInv'
  OBVIOUS
<1>1. CASE \E direct \in BOOLEAN, mask \in Masks : Call(direct, mask)
  BY <1>1, CallStep
<1>2. CASE \E i \in Shards : ChangeOfMind(i)
  BY <1>2, ChangeOfMindStep
<1>3. CASE BindStaged
  BY <1>3, BindStagedStep
<1>4. CASE BindDirect
  BY <1>4, BindDirectStep
<1>5. CASE DecodeChunk
  BY <1>5, DecodeChunkStep
<1>6. CASE DecodeEnd
  BY <1>6, DecodeEndStep
<1>7. CASE DecodeFails
  BY <1>7, DecodeFailsStep
<1>8. CASE Publish
  BY <1>8, PublishStep
<1>9. CASE \E i \in Shards : \/ Lose(i) \/ Restore(i)
                             \/ \E len \in OddLens \cup {stripe_len} : Refit(i, len)
                             \/ \E len \in OddLens : Cut(i, len)
  BY <1>9, CallerStep
<1>10. CASE UNCHANGED vars
  BY <1>10, StutterStep
<1> QED BY <1>1, <1>2, <1>3, <1>4, <1>5, <1>6, <1>7, <1>8, <1>9, <1>10 DEF Next

LEMMA Invariance == Spec => []IInv
BY InitIInv, Inductive, PTL DEF Spec

(* The types of the array, the program counter and the counters; a missing *)
(* option never holds a buffer.                                            *)
THEOREM TypeCorrect == Spec => []TypeOK
<1>1. IInv => TypeOK
  BY DEF IInv, CallerOK, ArrayOK, TypeOK
<1> QED BY <1>1, Invariance, PTL

(* Whatever the container, the layout and the number of outputs, what is   *)
(* marked present holds bytes of the stripe, and every staged output has a *)
(* cell of its own among those that were allocated.                        *)
THEOREM PresentAreRight == Spec => []PresentIsRight
<1>1. ASSUME IInv PROVE PresentIsRight
  <2>1. \A i \in Present(shards) : shards[i].bytes \notin {"right", "cut"} =>
           pc = "decode" /\ run.direct /\ i \in run.requested
    BY <1>1, ShardTypes DEF IInv, Clean, Present, Shards
  <2>2. ASSUME pc \in {"decode", "publish"}, ~ run.direct
        PROVE  /\ \A i \in run.requested : run.outputs[i] \in DOMAIN staging
               /\ \A i, j \in run.requested : i # j => run.outputs[i] # run.outputs[j]
    <3>1. \A i \in run.requested : /\ run.outputs[i] \in DOMAIN staging
                                   /\ StagingWith("right")[run.outputs[i]] = <<i, "right">>
      BY <1>1, <2>2, StagedInOwnCells DEF Running
    <3>2. \A i, j \in run.requested : <<i, "right">> = <<j, "right">> => i = j
      OBVIOUS
    <3> QED BY <3>1, <3>2, Zenon
  <2> QED BY <2>1, <2>2 DEF PresentIsRight
<1> QED BY <1>1, Invariance, PTL

(* A successful call restored what was asked for and nothing else; a       *)
(* failed one left the array as it was, up to the destinations before one  *)
(* that refused its shard.                                                 *)
THEOREM RestoresAllOrNothing == Spec => []AllOrNothing
<1>1. IInv => AllOrNothing
  BY DEF IInv
<1> QED BY <1>1, Invariance, PTL

-----------------------------------------------------------------------------
(***************************************************************************)
(* The process-wide plan cache (DecodePlanCache).                          *)
(***************************************************************************)
LEMMA SameMin == ASSUME NEW S PROVE Thread!Min(S) = Min(S) /\ Global!Min(S) = Min(S)
  BY Zenon DEF Min, Thread!Min, Global!Min

LEMMA SameCardinality == ASSUME NEW S PROVE Thread!Cardinality(S) = Cardinality(S)
  BY DEF Cardinality, Thread!Cardinality

LEMMA SameSum == ASSUME NEW list PROVE Thread!CachedBytes(list) = Global!BytesOf(list)
  BY Zenon DEF Thread!CachedBytes, Global!BytesOf

(* A plan that was built for a request, and an entry that lists it. *)
Entry == [key : Requests, plan : Requests \X PlanThreads, bytes : Nat]

(* The bytes of the first k entries, for every k. *)
Sums(f, list) ==
    /\ f \in [0 .. Len(list) -> Nat]
    /\ f[0] = 0
    /\ \A k \in 1 .. Len(list) : f[k] = f[k - 1] + list[k].bytes

ListOK ==
    /\ entries \in Seq(Entry)
    /\ \A k \in 1 .. Len(entries) : entries[k].plan[1] = entries[k].key
    /\ \A j, k \in 1 .. Len(entries) : j # k => entries[j].key # entries[k].key
    /\ Len(entries) <= Capacity

ChargeOK ==
    /\ \E f : Sums(f, entries) /\ f[Len(entries)] = retained_bytes
    /\ retained_bytes <= MaxBytes

ThreadsOK ==
    /\ stage \in [PlanThreads -> {"idle", "lookup", "build", "insert", "done"}]
    /\ request \in [PlanThreads -> Requests]
    /\ plan \in [PlanThreads -> (Requests \X PlanThreads) \cup {Global!NoPlan}]
    /\ \A t \in PlanThreads : stage[t] \in {"insert", "done"} =>
         plan[t] \in Requests \X PlanThreads /\ plan[t][1] = request[t]

PlanIInv == ListOK /\ ChargeOK /\ ThreadsOK

(* A set of numbers in which every element has a predecessor is empty. *)
LEMMA NoneGoesWrongFirst ==
    ASSUME NEW D \in SUBSET Nat, \A n \in D : n - 1 \in D
    PROVE  D = {}
<1>1. SUFFICES ASSUME D # {} PROVE FALSE
  OBVIOUS
<1>2. PICK x \in D : \A y \in D : ~ (<<y, x>> \in OpToRel(<, Nat))
  BY <1>1, NatLessThanWellFounded, WFMin, Zenon
<1>3. x - 1 \in D /\ x - 1 \in Nat /\ x \in Nat
  BY <1>2
<1>4. x - 1 < x
  BY <1>3
<1>5. <<x - 1, x>> \in OpToRel(<, Nat)
  <2>1. <<x - 1, x>> \in Nat \X Nat
    BY <1>3
  <2>2. <<x - 1, x>>[1] < <<x - 1, x>>[2]
    BY <1>4
  <2> QED BY <2>1, <2>2, Zenon DEF OpToRel
<1> QED BY <1>2, <1>3, <1>5, Zenon

(* The recursive sum is the only function of partial sums. *)
LEMMA SumIs ==
    ASSUME NEW list, NEW f, Len(list) \in Nat, Sums(f, list)
    PROVE  Global!BytesOf(list) = f[Len(list)]
<1> DEFINE n == Len(list)
           Adds(s) == s = [k \in 0 .. n |-> IF k = 0 THEN 0 ELSE s[k - 1] + list[k].bytes]
           sum == CHOOSE s : Adds(s)
           D == {k \in 0 .. n : sum[k] # f[k]}
<1>1. Global!BytesOf(list) = sum[n]
  BY Zenon DEF Global!BytesOf
<1>2. \A k \in 0 .. n : f[k] = IF k = 0 THEN 0 ELSE f[k - 1] + list[k].bytes
  BY DEF Sums
<1>3. f = [k \in 0 .. n |-> IF k = 0 THEN 0 ELSE f[k - 1] + list[k].bytes]
  <2>1. f = [k \in 0 .. n |-> f[k]]
    BY DEF Sums
  <2> QED BY <1>2, <2>1
<1>4. Adds(sum)
  <2>1. Adds(f)
    BY <1>3
  <2> HIDE DEF Adds
  <2> QED BY <2>1
<1>5. \A k \in 0 .. n : sum[k] = IF k = 0 THEN 0 ELSE sum[k - 1] + list[k].bytes
  <2> HIDE DEF sum
  <2> QED BY <1>4
<1> HIDE DEF sum
<1>6. ASSUME NEW k \in D PROVE k - 1 \in D
  BY <1>2, <1>5
<1>7. D = {}
  <2>1. D \in SUBSET Nat
    OBVIOUS
  <2> HIDE DEF D
  <2> QED BY <1>6, <2>1, NoneGoesWrongFirst
<1> QED BY <1>1, <1>7

(* Partial sums of bytes grow. *)
LEMMA SumsGrow ==
    ASSUME NEW list \in Seq(Entry), NEW f, Sums(f, list), NEW j \in 0 .. Len(list),
           NEW m \in 0 .. Len(list), j <= m
    PROVE  f[j] <= f[m]
<1> DEFINE D == {k \in 0 .. Len(list) : j <= k /\ ~(f[j] <= f[k])}
<1>1. Len(list) \in Nat /\ \A k \in 1 .. Len(list) : list[k].bytes \in Nat
  <2>1. Len(list) \in Nat /\ \A k \in 1 .. Len(list) : list[k] \in Entry
    BY LenProperties, ElementOfSeq
  <2> QED BY <2>1 DEF Entry
<1>2. f \in [0 .. Len(list) -> Nat] /\ \A k \in 1 .. Len(list) : f[k] = f[k - 1] + list[k].bytes
  BY DEF Sums
<1>3. ASSUME NEW k \in D PROVE k - 1 \in D
  <2>1. f[j] \in Nat /\ f[k] \in Nat /\ k # j
    <3>1. f[j] \in Nat /\ f[k] \in Nat
      BY <1>2
    <3>2. f[j] <= f[j]
      BY <3>1
    <3> QED BY <3>1, <3>2
  <2>2. k \in 1 .. Len(list) /\ k - 1 \in 0 .. Len(list) /\ j <= k - 1
    BY <1>1, <2>1
  <2>3. f[k] = f[k - 1] + list[k].bytes /\ f[k - 1] \in Nat /\ list[k].bytes \in Nat
    BY <1>1, <1>2, <2>2
  <2> QED BY <2>1, <2>2, <2>3
<1>4. D = {}
  <2>1. D \in SUBSET Nat
    OBVIOUS
  <2> HIDE DEF D
  <2> QED BY <1>3, <2>1, NoneGoesWrongFirst
<1> QED BY <1>4

(* Evicting the oldest takes their bytes off the sum. *)
LEMMA EvictedSums ==
    ASSUME NEW list \in Seq(Entry), NEW f, Sums(f, list), NEW n \in 0 .. Len(list)
    PROVE  /\ Global!BytesOf(SubSeq(list, 1, n)) = f[n]
           /\ \E g : /\ Sums(g, SubSeq(list, n + 1, Len(list)))
                     /\ g[Len(list) - n] = f[Len(list)] - f[n]
<1>1. Len(list) \in Nat /\ \A k \in 1 .. Len(list) : list[k] \in Entry
  BY LenProperties, ElementOfSeq
<1>2. /\ SubSeq(list, 1, n) \in Seq(Entry) /\ Len(SubSeq(list, 1, n)) = n
      /\ \A k \in 1 .. n : SubSeq(list, 1, n)[k] = list[k]
  BY <1>1
<1>3. /\ Len(SubSeq(list, n + 1, Len(list))) = Len(list) - n
      /\ \A k \in 1 .. Len(list) - n : SubSeq(list, n + 1, Len(list))[k] = list[n + k]
  BY <1>1
<1>4. Global!BytesOf(SubSeq(list, 1, n)) = f[n]
  <2> DEFINE h == [k \in 0 .. n |-> f[k]]
  <2>1. PICK s : s = SubSeq(list, 1, n)
    OBVIOUS
  <2>2. n \in Nat /\ Len(s) = n /\ \A k \in 0 .. n : k \in 0 .. Len(list)
    BY <1>1, <1>2, <2>1
  <2>3. h \in [0 .. n -> Nat] /\ \A k \in 0 .. n : h[k] = f[k]
    BY <2>2 DEF Sums
  <2> HIDE DEF h
  <2>4. h[0] = 0
    BY <2>2, <2>3 DEF Sums
  <2>5. ASSUME NEW k \in 1 .. n PROVE h[k] = h[k - 1] + s[k].bytes
    <3>1. k \in 0 .. n /\ k - 1 \in 0 .. n /\ k \in 1 .. Len(list)
      BY <1>1
    <3>2. f[k] = f[k - 1] + list[k].bytes
      BY <3>1 DEF Sums
    <3> QED BY <1>2, <2>1, <2>3, <3>1, <3>2
  <2>6. Sums(h, s)
    BY <2>2, <2>3, <2>4, <2>5 DEF Sums
  <2>7. Global!BytesOf(s) = h[Len(s)]
    BY <2>2, <2>6, SumIs
  <2> QED BY <2>1, <2>2, <2>3, <2>7
<1>5. \E g : Sums(g, SubSeq(list, n + 1, Len(list))) /\ g[Len(list) - n] = f[Len(list)] - f[n]
  <2> DEFINE g == [k \in 0 .. Len(list) - n |-> f[n + k] - f[n]]
  <2>1. \A k \in 0 .. Len(list) - n : n + k \in 0 .. Len(list) /\ f[n + k] - f[n] \in Nat
    <3> SUFFICES ASSUME NEW k \in 0 .. Len(list) - n
                 PROVE  n + k \in 0 .. Len(list) /\ f[n + k] - f[n] \in Nat
      OBVIOUS
    <3>1. n + k \in 0 .. Len(list) /\ n <= n + k /\ n \in 0 .. Len(list)
      BY <1>1
    <3>2. f[n] <= f[n + k]
      BY <3>1, SumsGrow
    <3>3. f[n] \in Nat /\ f[n + k] \in Nat
      BY <3>1 DEF Sums
    <3> QED BY <3>1, <3>2, <3>3
  <2>2. g[0] = 0 /\ g[Len(list) - n] = f[Len(list)] - f[n]
    BY <1>1, <2>1 DEF Sums
  <2>3. \A k \in 1 .. Len(list) - n : g[k] = g[k - 1] + list[n + k].bytes
    <3> SUFFICES ASSUME NEW k \in 1 .. Len(list) - n PROVE g[k] = g[k - 1] + list[n + k].bytes
      OBVIOUS
    <3>1. n + k \in 1 .. Len(list) /\ k - 1 \in 0 .. Len(list) - n /\ n + (k - 1) = (n + k) - 1
      BY <1>1
    <3>2. f[n + k] = f[(n + k) - 1] + list[n + k].bytes
      BY <3>1 DEF Sums
    <3>3. /\ f[n + k] \in Nat
          /\ f[(n + k) - 1] \in Nat
          /\ f[n] \in Nat
          /\ list[n + k].bytes \in Nat
      <4>1. n + k \in 0 .. Len(list) /\ (n + k) - 1 \in 0 .. Len(list) /\ n \in 0 .. Len(list)
        BY <1>1, <3>1
      <4>2. f[n + k] \in Nat /\ f[(n + k) - 1] \in Nat /\ f[n] \in Nat
        BY <4>1 DEF Sums
      <4>3. list[n + k] \in Entry
        BY <1>1, <3>1
      <4> QED BY <4>2, <4>3 DEF Entry
    <3>4. g[k] = f[n + k] - f[n] /\ g[k - 1] = f[(n + k) - 1] - f[n]
      BY <1>1, <3>1
    <3> QED BY <3>2, <3>3, <3>4
  <2>5. g \in [0 .. Len(list) - n -> Nat]
    BY <2>1
  <2> HIDE DEF g
  <2>6. Sums(g, SubSeq(list, n + 1, Len(list)))
    BY <1>1, <1>3, <2>2, <2>3, <2>5 DEF Sums
  <2> QED BY <2>2, <2>6
<1> QED BY <1>4, <1>5

(* A new entry adds its bytes. *)
LEMMA AddedSums ==
    ASSUME NEW list \in Seq(Entry), NEW f, Sums(f, list), NEW e \in Entry
    PROVE  \E g : /\ Sums(g, Append(list, e))
                  /\ g[Len(Append(list, e))] = f[Len(list)] + e.bytes
<1>1. Len(list) \in Nat /\ e.bytes \in Nat
  BY LenProperties DEF Entry
<1>2. /\ Len(Append(list, e)) = Len(list) + 1
      /\ \A k \in 1 .. Len(list) : Append(list, e)[k] = list[k]
      /\ Append(list, e)[Len(list) + 1] = e
  BY <1>1, AppendProperties
<1> DEFINE N == Len(list)
           g == [k \in 0 .. N + 1 |-> IF k = N + 1 THEN f[N] + e.bytes ELSE f[k]]
<1>3. f \in [0 .. N -> Nat] /\ f[N] \in Nat
  BY <1>1 DEF Sums
<1>4. g \in [0 .. N + 1 -> Nat]
  BY <1>1, <1>3
<1>5. g[0] = 0 /\ g[N + 1] = f[N] + e.bytes /\ \A k \in 0 .. N : g[k] = f[k]
  BY <1>1 DEF Sums
<1> HIDE DEF g
<1>6. \A k \in 1 .. N + 1 : g[k] = g[k - 1] + Append(list, e)[k].bytes
  <2> SUFFICES ASSUME NEW k \in 1 .. N + 1 PROVE g[k] = g[k - 1] + Append(list, e)[k].bytes
    OBVIOUS
  <2>1. CASE k = N + 1
    BY <1>1, <1>2, <1>5, <2>1
  <2>2. CASE k # N + 1
    <3>1. k \in 1 .. N /\ k - 1 \in 0 .. N
      BY <1>1, <2>2
    <3> QED BY <1>2, <1>5, <3>1 DEF Sums
  <2> QED BY <2>1, <2>2
<1> QED BY <1>2, <1>4, <1>5, <1>6 DEF Sums

(* What a lookup does to the list: one entry goes to the end. *)
LEMMA TouchedIs ==
    ASSUME entries \in Seq(Entry), NEW p \in 1 .. Len(entries)
    PROVE  /\ Global!Touched(p) \in Seq(Entry) /\ Len(Global!Touched(p)) = Len(entries)
           /\ \A k \in 1 .. Len(entries) :
                Global!Touched(p)[k] = IF k < p THEN entries[k]
                                ELSE IF k < Len(entries) THEN entries[k + 1] ELSE entries[p]
<1> DEFINE N == Len(entries)
           A == SubSeq(entries, 1, p - 1)
           B == SubSeq(entries, p + 1, N)
<1>1. N \in Nat /\ \A k \in 1 .. N : entries[k] \in Entry
  BY LenProperties, ElementOfSeq
<1>2. /\ A \in Seq(Entry) /\ Len(A) = p - 1
      /\ \A k \in 1 .. p - 1 : A[k] = entries[k]
  BY <1>1
<1>3. /\ B \in Seq(Entry) /\ Len(B) = N - p
      /\ \A k \in 1 .. N - p : B[k] = entries[p + k]
  BY <1>1
<1>4. Global!Touched(p) = Append(A \o B, entries[p])
  BY DEF Global!Touched, Global!RemoveAt
<1> HIDE DEF A, B
<1>5. /\ A \o B \in Seq(Entry) /\ Len(A \o B) = N - 1
      /\ \A k \in 1 .. N - 1 : (A \o B)[k] = IF k < p THEN entries[k] ELSE entries[k + 1]
  <2>1. A \o B \in Seq(Entry) /\ Len(A \o B) = Len(A) + Len(B)
    BY <1>2, <1>3, ConcatProperties
  <2>2. \A k \in 1 .. Len(A) + Len(B) :
          (A \o B)[k] = IF k <= Len(A) THEN A[k] ELSE B[k - Len(A)]
    BY <1>2, <1>3, ConcatProperties
  <2>3. Len(A) + Len(B) = N - 1
    BY <1>1, <1>2, <1>3
  <2>4. ASSUME NEW k \in 1 .. N - 1
        PROVE  (A \o B)[k] = IF k < p THEN entries[k] ELSE entries[k + 1]
    <3>1. CASE k < p
      BY <1>1, <1>2, <2>2, <2>3, <3>1
    <3>2. CASE ~(k < p)
      <4>1. k - (p - 1) \in 1 .. N - p /\ p + (k - (p - 1)) = k + 1 /\ ~(k <= p - 1)
        BY <1>1, <3>2
      <4>2. (A \o B)[k] = B[k - (p - 1)]
        BY <1>2, <2>2, <2>3, <4>1
      <4>3. B[k - (p - 1)] = entries[k + 1]
        BY <1>3, <4>1
      <4> QED BY <3>2, <4>2, <4>3
    <3> QED BY <3>1, <3>2
  <2> QED BY <2>1, <2>3, <2>4
<1> DEFINE C == A \o B
<1> HIDE DEF C
<1>6. /\ Append(C, entries[p]) \in Seq(Entry) /\ Len(Append(C, entries[p])) = N
      /\ \A k \in 1 .. N - 1 : Append(C, entries[p])[k] = C[k]
      /\ Append(C, entries[p])[N] = entries[p]
  BY <1>1, <1>5, AppendProperties DEF C
<1>7. ASSUME NEW k \in 1 .. N
      PROVE  Global!Touched(p)[k] = IF k < p THEN entries[k]
                             ELSE IF k < N THEN entries[k + 1] ELSE entries[p]
  <2>1. CASE k = N
    <3>1. ~(k < p) /\ ~(k < N)
      BY <1>1, <2>1
    <3> QED BY <1>4, <1>6, <2>1, <3>1 DEF C
  <2>2. CASE k # N
    <3>1. k \in 1 .. N - 1 /\ k < N
      BY <1>1, <2>2
    <3> QED BY <1>4, <1>5, <1>6, <3>1 DEF C
  <2> QED BY <2>1, <2>2
<1> QED BY <1>4, <1>6, <1>7 DEF C

(* Moving an entry to the end changes no total. *)
LEMMA TouchedSums ==
    ASSUME entries \in Seq(Entry), NEW p \in 1 .. Len(entries), NEW f, Sums(f, entries)
    PROVE  \E g : Sums(g, Global!Touched(p)) /\ g[Len(entries)] = f[Len(entries)]
<1> DEFINE N == Len(entries)
           e == entries[p].bytes
           g == [k \in 0 .. N |-> IF k < p THEN f[k] ELSE IF k < N THEN f[k + 1] - e ELSE f[N]]
<1>1. N \in Nat /\ \A k \in 1 .. N : entries[k].bytes \in Nat
  <2>1. N \in Nat /\ \A k \in 1 .. N : entries[k] \in Entry
    BY LenProperties, ElementOfSeq
  <2> QED BY <2>1 DEF Entry
<1>2. /\ f \in [0 .. N -> Nat] /\ f[0] = 0
      /\ \A k \in 1 .. N : f[k] = f[k - 1] + entries[k].bytes
  BY DEF Sums
<1>3. p \in 1 .. N /\ e \in Nat /\ f[p] = f[p - 1] + e /\ f[p - 1] \in Nat /\ f[p] \in Nat
  BY <1>1, <1>2
<1>4. PICK T : T = Global!Touched(p)
  OBVIOUS
<1>5. /\ Len(T) = N
      /\ \A k \in 1 .. N : T[k] = IF k < p THEN entries[k]
                                  ELSE IF k < N THEN entries[k + 1] ELSE entries[p]
  BY <1>4, TouchedIs
<1>6. ASSUME NEW k \in 0 .. N PROVE g[k] \in Nat
  <2>1. CASE k < p
    BY <1>2, <2>1
  <2>2. CASE ~(k < p) /\ k < N
    <3>1. k + 1 \in 0 .. N /\ p \in 0 .. N /\ p <= k + 1
      BY <1>1, <1>3, <2>2
    <3>2. f[p] <= f[k + 1]
      BY <3>1, SumsGrow
    <3>3. f[k + 1] \in Nat
      BY <1>2, <3>1
    <3> QED BY <1>3, <2>2, <3>2, <3>3
  <2>3. CASE ~(k < p) /\ ~(k < N)
    BY <1>1, <1>2, <2>3
  <2> QED BY <2>1, <2>2, <2>3
<1>7. g \in [0 .. N -> Nat]
  BY <1>6
<1>8. g[0] = 0 /\ g[N] = f[N]
  BY <1>1, <1>2, <1>3
<1>9. ASSUME NEW k \in 1 .. N PROVE g[k] = g[k - 1] + T[k].bytes
  <2>1. k \in 0 .. N /\ k - 1 \in 0 .. N
    BY <1>1
  <2>2. f[k] = f[k - 1] + entries[k].bytes /\ f[k] \in Nat /\ f[k - 1] \in Nat
    BY <1>1, <1>2, <2>1
  <2>3. g[k] = IF k < p THEN f[k] ELSE IF k < N THEN f[k + 1] - e ELSE f[N]
    BY <2>1
  <2>4. g[k - 1] = IF k - 1 < p THEN f[k - 1] ELSE IF k - 1 < N THEN f[(k - 1) + 1] - e ELSE f[N]
    BY <2>1
  <2>5. (k - 1) + 1 = k /\ k - 1 < N
    BY <1>1
  <2> HIDE DEF g
  <2>6. CASE k < p
    <3>1. k - 1 < p
      BY <1>1, <1>3, <2>6
    <3> QED BY <1>5, <2>2, <2>3, <2>4, <2>6, <3>1
  <2>7. CASE ~(k < p) /\ k < N
    <3>1. /\ f[k + 1] = f[k] + entries[k + 1].bytes
          /\ f[k + 1] \in Nat /\ entries[k + 1].bytes \in Nat
      <4>1. k + 1 \in 1 .. N /\ (k + 1) - 1 = k
        BY <1>1, <2>7
      <4>2. f[k + 1] = f[(k + 1) - 1] + entries[k + 1].bytes
        BY <1>2, <4>1
      <4>3. k + 1 \in 0 .. N
        BY <1>1, <2>7
      <4> QED BY <1>1, <1>2, <4>1, <4>2, <4>3
    <3>2. g[k] = f[k + 1] - e /\ T[k] = entries[k + 1]
      BY <1>5, <2>3, <2>7
    <3>3. g[k - 1] = f[k] - e
      <4>1. CASE k = p
        <5>1. k - 1 < p
          BY <1>3, <4>1
        <5>2. g[k - 1] = f[p - 1]
          BY <2>4, <4>1, <5>1
        <5> QED BY <1>3, <4>1, <5>2
      <4>2. CASE k # p
        <5>1. ~(k - 1 < p)
          BY <1>3, <2>7, <4>2
        <5> QED BY <2>4, <2>5, <5>1
      <4> QED BY <4>1, <4>2
    <3>4. PICK b \in Nat : b = entries[k + 1].bytes
      BY <3>1
    <3>5. T[k].bytes = b /\ f[k + 1] = f[k] + b
      BY <3>1, <3>2, <3>4
    <3> HIDE DEF e
    <3> QED BY <1>3, <2>2, <3>2, <3>3, <3>5
  <2>8. CASE ~(k < p) /\ ~(k < N)
    <3>1. k = N
      BY <1>1, <2>8
    <3>2. g[k] = f[k] /\ T[k].bytes = e
      BY <1>5, <2>3, <2>8, <3>1
    <3>3. g[k - 1] = f[k] - e
      <4>1. CASE k = p
        <5>1. k - 1 < p
          BY <1>3, <4>1
        <5>2. g[k - 1] = f[p - 1]
          BY <2>4, <4>1, <5>1
        <5> QED BY <1>3, <4>1, <5>2
      <4>2. CASE k # p
        <5>1. ~(k - 1 < p)
          BY <1>3, <2>8, <4>2
        <5> QED BY <2>4, <2>5, <5>1
      <4> QED BY <4>1, <4>2
    <3> QED BY <1>3, <2>2, <3>2, <3>3
  <2> QED BY <2>6, <2>7, <2>8
<1> HIDE DEF g
<1>10. Sums(g, T)
  BY <1>5, <1>7, <1>8, <1>9 DEF Sums
<1> QED BY <1>4, <1>8, <1>10

(* The empty cache and idle threads. *)
LEMMA PlanInit == Global!Init => PlanIInv
<1> SUFFICES ASSUME Global!Init PROVE PlanIInv
  OBVIOUS
<1>1. entries = <<>> /\ retained_bytes = 0 /\ Len(entries) = 0 /\ entries \in Seq(Entry)
  BY EmptySeq DEF Global!Init
<1>2. ListOK
  BY <1>1, GlobalAssumption DEF ListOK, Global!PlanCacheAssumption
<1>3. ChargeOK
  <2> DEFINE f == [k \in 0 .. 0 |-> 0]
  <2>1. Sums(f, entries) /\ f[Len(entries)] = 0
    BY <1>1 DEF Sums
  <2> HIDE DEF f
  <2> QED BY <1>1, <2>1, GlobalAssumption DEF ChargeOK, Global!PlanCacheAssumption
<1>4. ThreadsOK
  <2>1. request \in [PlanThreads -> Requests]
    BY GlobalAssumption DEF Global!Init, Global!PlanCacheAssumption
  <2> QED BY <2>1 DEF Global!Init, ThreadsOK
<1> QED BY <1>2, <1>3, <1>4 DEF PlanIInv

(* A list that is not touched stays right. *)
LEMMA ListKept ==
    ASSUME PlanIInv, UNCHANGED <<entries, retained_bytes>>
    PROVE  ListOK' /\ ChargeOK'
<1>1. entries' = entries /\ retained_bytes' = retained_bytes
  OBVIOUS
<1>2. ListOK'
  BY <1>1 DEF PlanIInv, ListOK
<1>3. PICK f : Sums(f, entries) /\ f[Len(entries)] = retained_bytes
  BY DEF PlanIInv, ChargeOK
<1>4. Sums(f, entries')
  BY <1>1, <1>3
<1>5. ChargeOK'
  BY <1>1, <1>3, <1>4 DEF PlanIInv, ChargeOK
<1> QED BY <1>2, <1>5

(* A lookup that hits: the list is a permutation of what it was. *)
LEMMA FoundKeeps ==
    ASSUME PlanIInv, NEW t \in PlanThreads, Global!Found(t, Global!PlanKey(request[t]))
    PROVE  PlanIInv'
<1> DEFINE key == request[t]
           p == Global!At(key)
           N == Len(entries)
<1>1. Global!Found(t, key)
  BY DEF Global!PlanKey
<1>2. entries \in Seq(Entry) /\ N \in Nat /\ DOMAIN entries = 1 .. N
  BY LenProperties DEF PlanIInv, ListOK
<1>3. p \in 1 .. N /\ entries[p].key = key
  BY <1>1, <1>2 DEF Global!Found, Global!Listed, Global!At
<1>4. entries' = Global!Touched(p)
  BY <1>1 DEF Global!Found
<1> HIDE DEF p
<1>5. /\ entries' \in Seq(Entry) /\ Len(entries') = N
      /\ \A k \in 1 .. N : entries'[k] = IF k < p THEN entries[k]
                                         ELSE IF k < N THEN entries[k + 1] ELSE entries[p]
  BY <1>2, <1>3, <1>4, TouchedIs
<1> DEFINE From(k) == IF k < p THEN k ELSE IF k < N THEN k + 1 ELSE p
<1>6. \A k \in 1 .. N : From(k) \in 1 .. N /\ entries'[k] = entries[From(k)]
  BY <1>2, <1>3, <1>5
<1>7. \A j, k \in 1 .. N : j # k => From(j) # From(k)
  BY <1>2, <1>3
<1> HIDE DEF From
<1>8. ListOK'
  <2>1. \A j, k \in 1 .. N : j # k => entries'[j].key # entries'[k].key
    BY <1>6, <1>7 DEF PlanIInv, ListOK
  <2>2. \A k \in 1 .. N : entries'[k].plan[1] = entries'[k].key
    BY <1>6 DEF PlanIInv, ListOK
  <2> QED BY <1>5, <2>1, <2>2 DEF PlanIInv, ListOK
<1>9. ChargeOK'
  <2>1. PICK f : Sums(f, entries) /\ f[N] = retained_bytes
    BY DEF PlanIInv, ChargeOK
  <2>2. PICK g : Sums(g, Global!Touched(p)) /\ g[N] = f[N]
    BY <1>2, <1>3, <2>1, TouchedSums
  <2>3. Sums(g, entries') /\ g[Len(entries')] = retained_bytes'
    BY <1>1, <1>4, <1>5, <2>1, <2>2 DEF Global!Found
  <2> QED BY <1>1, <2>3 DEF Global!Found, PlanIInv, ChargeOK
<1>10. ThreadsOK'
  <2>1. /\ plan' = [plan EXCEPT ![t] = entries[p].plan]
        /\ stage' = [stage EXCEPT ![t] = "done"] /\ request' = request
    BY <1>1 DEF Global!Found, p
  <2>2. entries[p].plan \in Requests \X PlanThreads /\ entries[p].plan[1] = request[t]
    <3>1. entries[p] \in Entry /\ entries[p].plan[1] = entries[p].key
      BY <1>2, <1>3, ElementOfSeq DEF PlanIInv, ListOK
    <3> QED BY <1>3, <3>1 DEF Entry
  <2> QED BY <2>1, <2>2 DEF PlanIInv, ThreadsOK
<1> QED BY <1>8, <1>9, <1>10 DEF PlanIInv

(* A lookup that finds the plan, or not. *)
LEMMA LookupKeeps == ASSUME PlanIInv, NEW t \in PlanThreads, Global!Lookup(t) PROVE PlanIInv'
<1>1. CASE Global!Found(t, Global!PlanKey(request[t]))
  BY <1>1, FoundKeeps
<1>2. CASE ~ Global!Found(t, Global!PlanKey(request[t]))
  <2>1. /\ stage' = [stage EXCEPT ![t] = "build"]
        /\ UNCHANGED <<entries, retained_bytes, request, plan>>
    BY <1>2 DEF Global!Lookup
  <2>2. ThreadsOK'
    BY <2>1 DEF PlanIInv, ThreadsOK
  <2> QED BY <2>1, <2>2, ListKept DEF PlanIInv
<1> QED BY <1>1, <1>2

(* Steps that leave the list alone. *)
LEMMA OthersKeep ==
    ASSUME PlanIInv, NEW t \in PlanThreads,
           Global!Build(t) \/ Global!Finish(t) \/ (\E r \in Requests : Global!Request(t, r))
    PROVE  PlanIInv'
<1>1. UNCHANGED <<entries, retained_bytes>>
  BY DEF Global!Build, Global!Finish, Global!Request
<1>2. ThreadsOK'
  <2>1. CASE Global!Build(t)
    <3>1. <<request[t], t>> \in Requests \X PlanThreads /\ <<request[t], t>>[1] = request[t]
      BY DEF PlanIInv, ThreadsOK
    <3> QED BY <2>1, <3>1 DEF Global!Build, PlanIInv, ThreadsOK
  <2>2. CASE Global!Finish(t)
    BY <2>2 DEF Global!Finish, PlanIInv, ThreadsOK
  <2>3. CASE \E r \in Requests : Global!Request(t, r)
    BY <2>3 DEF Global!Request, PlanIInv, ThreadsOK
  <2> QED BY <2>1, <2>2, <2>3
<1> QED BY <1>1, <1>2, ListKept DEF PlanIInv

(* The loop that makes room stops, at the latest at the empty list. *)
LEMMA RoomIsMade ==
    ASSUME PlanIInv, NEW bytes \in Nat, bytes <= MaxBytes
    PROVE  /\ Global!Evictions(bytes) \in 0 .. Len(entries)
           /\ ~ Global!NoRoom(Global!Evictions(bytes), bytes)
<1> DEFINE N == Len(entries)
           S == {n \in 0 .. N : ~ Global!NoRoom(n, bytes)}
<1>1. N \in Nat /\ entries \in Seq(Entry) /\ MaxBytes \in Nat /\ Capacity \in Nat \ {0}
  BY LenProperties, GlobalAssumption DEF PlanIInv, ListOK, Global!PlanCacheAssumption
<1>2. PICK f : Sums(f, entries) /\ f[N] = retained_bytes
  BY DEF PlanIInv, ChargeOK
<1>3. f[N] \in Nat
  BY <1>1, <1>2 DEF Sums
<1>4. Global!BytesOf(Global!Oldest(N)) = f[N]
  BY <1>1, <1>2, EvictedSums DEF Global!Oldest
<1>5. ~ Global!NoRoom(N, bytes)
  BY <1>1, <1>2, <1>3, <1>4 DEF Global!NoRoom
<1>6. N \in S /\ S \in SUBSET Nat
  BY <1>1, <1>5
<1>7. Global!Evictions(bytes) = Global!Min(S)
  BY DEF Global!Evictions
<1> HIDE DEF S
<1>8. Global!Min(S) \in S
  BY <1>6, MinIsLeast, SameMin
<1> QED BY <1>7, <1>8 DEF S

(* insert: found after all, above the budget, or with room made for it. *)
LEMMA InsertKeeps == ASSUME PlanIInv, NEW t \in PlanThreads, Global!Insert(t) PROVE PlanIInv'
<1> DEFINE key == request[t]
           bytes == RequestBytes[key]
           n == Global!Evictions(bytes)
           N == Len(entries)
           e == [key |-> key, plan |-> plan[t], bytes |-> bytes]
<1>1. stage[t] = "insert" /\ plan[t] \in Requests \X PlanThreads /\ plan[t][1] = key
  BY DEF Global!Insert, PlanIInv, ThreadsOK
<1>2. /\ key \in Requests /\ bytes \in Nat /\ e \in Entry
      /\ MaxBytes \in Nat /\ Capacity \in Nat \ {0}
  <2>1. key \in Requests
    BY DEF PlanIInv, ThreadsOK
  <2> QED BY <1>1, <2>1, GlobalAssumption DEF Global!PlanCacheAssumption, Entry
<1>3. CASE Global!Found(t, Global!PlanKey(key))
  BY <1>3, FoundKeeps
<1>4. CASE UNCHANGED <<entries, retained_bytes, request, plan>> /\ stage' = [stage EXCEPT ![t] = "done"]
  <2>1. ThreadsOK'
    BY <1>1, <1>4 DEF PlanIInv, ThreadsOK
  <2> QED BY <1>4, <2>1, ListKept DEF PlanIInv
<1>5. CASE /\ Global!Listed(key) = {} /\ bytes <= MaxBytes
           /\ entries' = Append(Global!Others(n), e)
           /\ retained_bytes' = Global!Charged(n, bytes)
           /\ stage' = [stage EXCEPT ![t] = "done"] /\ UNCHANGED <<request, plan>>
  <2>1. n \in 0 .. N /\ ~ Global!NoRoom(n, bytes)
    BY <1>2, <1>5, RoomIsMade
  <2>2. entries \in Seq(Entry) /\ N \in Nat /\ DOMAIN entries = 1 .. N
    BY LenProperties DEF PlanIInv, ListOK
  <2> HIDE DEF n, e, bytes, key
  <2>3. PICK rest : rest = Global!Others(n)
    OBVIOUS
  <2>4. /\ rest \in Seq(Entry) /\ Len(rest) = N - n
        /\ \A k \in 1 .. N - n : rest[k] = entries[n + k]
    <3>1. \A k \in 1 .. N : entries[k] \in Entry
      BY <2>2, ElementOfSeq
    <3>2. rest = SubSeq(entries, n + 1, N)
      BY <2>3 DEF Global!Others
    <3>3. Len(rest) = N - n /\ \A k \in 1 .. N - n : rest[k] = entries[n + k]
      <4>1. N \in Nat /\ n \in Nat /\ n <= N /\ (n + 1 <= N <=> n # N)
        <5>1. N \in Nat /\ n \in 0 .. N
          BY <2>1, <2>2
        <5> HIDE DEF N
        <5> QED BY <5>1
      <4>2. Len(rest) = IF n + 1 <= N THEN N - (n + 1) + 1 ELSE 0
        BY <3>1, <3>2, <4>1, SubSeqProperties
      <4>3. \A k \in 1 .. N - n : rest[k] = entries[(n + 1) + k - 1]
        BY <3>1, <3>2, <4>1, SubSeqProperties
      <4>4. \A k \in 1 .. N - n : (n + 1) + k - 1 = n + k
        BY <4>1
      <4> QED BY <4>1, <4>2, <4>3, <4>4
    <3>4. rest \in Seq(Entry)
      BY <2>1, <2>2, <3>1, <3>2, SubSeqProperties
    <3> QED BY <3>3, <3>4
  <2>5. PICK list : list = Append(rest, e)
    OBVIOUS
  <2>6. /\ list \in Seq(Entry) /\ Len(list) = N - n + 1 /\ entries' = list
        /\ \A k \in 1 .. N - n : list[k] = entries[n + k]
        /\ list[N - n + 1] = e
    <3>1. /\ list \in Seq(Entry) /\ Len(list) = Len(rest) + 1
          /\ \A k \in 1 .. Len(rest) : list[k] = rest[k]
          /\ list[Len(rest) + 1] = e
      BY <1>2, <2>4, <2>5, AppendProperties
    <3> QED BY <1>5, <2>3, <2>4, <2>5, <3>1
  <2>7. \A k \in 1 .. N - n : n + k \in 1 .. N /\ list[k] = entries[n + k]
                             /\ list[k].key # key
    <3> SUFFICES ASSUME NEW k \in 1 .. N - n
                 PROVE  n + k \in 1 .. N /\ list[k] = entries[n + k] /\ list[k].key # key
      OBVIOUS
    <3>1. n + k \in 1 .. N
      BY <2>1, <2>2
    <3> QED BY <1>5, <2>2, <2>6, <3>1 DEF Global!Listed
  <2>8. e.key = key /\ e.plan[1] = key /\ e.bytes = bytes
    BY <1>1 DEF e, key
  <2>9. ListOK'
    <3>1. \A k \in 1 .. N - n + 1 : list[k].plan[1] = list[k].key
      <4> SUFFICES ASSUME NEW k \in 1 .. N - n + 1 PROVE list[k].plan[1] = list[k].key
        OBVIOUS
      <4>1. CASE k = N - n + 1
        BY <2>6, <2>8, <4>1
      <4>2. CASE k # N - n + 1
        <5>1. k \in 1 .. N - n
          BY <2>1, <2>2, <4>2
        <5> QED BY <2>7, <5>1 DEF PlanIInv, ListOK
      <4> QED BY <4>1, <4>2
    <3>2. \A j, k \in 1 .. N - n + 1 : j # k => list[j].key # list[k].key
      <4> SUFFICES ASSUME NEW j \in 1 .. N - n + 1, NEW k \in 1 .. N - n + 1, j # k
                   PROVE  list[j].key # list[k].key
        OBVIOUS
      <4>1. (j \in 1 .. N - n \/ j = N - n + 1) /\ (k \in 1 .. N - n \/ k = N - n + 1)
        BY <2>1, <2>2
      <4>2. CASE j \in 1 .. N - n /\ k \in 1 .. N - n
        <5>1. n + j # n + k
          BY <2>1, <2>2, <4>2
        <5> QED BY <2>7, <4>2, <5>1 DEF PlanIInv, ListOK
      <4> QED BY <2>6, <2>7, <2>8, <4>1, <4>2
    <3>3. Len(list) <= Capacity
      BY <1>2, <2>1, <2>2, <2>6 DEF Global!NoRoom
    <3> QED BY <2>6, <3>1, <3>2, <3>3 DEF ListOK
  <2>10. ChargeOK'
    <3>1. PICK f : Sums(f, entries) /\ f[N] = retained_bytes
      BY DEF PlanIInv, ChargeOK
    <3>2. Global!BytesOf(Global!Oldest(n)) = f[n]
      BY <2>1, <2>2, <3>1, EvictedSums DEF Global!Oldest
    <3>3. PICK g : Sums(g, rest) /\ g[N - n] = f[N] - f[n]
      BY <2>1, <2>2, <2>3, <3>1, EvictedSums DEF Global!Others
    <3>4. PICK h : Sums(h, list) /\ h[Len(list)] = g[Len(rest)] + e.bytes
      BY <1>2, <2>4, <2>5, <3>3, AddedSums
    <3>5. f[N] \in Nat /\ f[n] \in Nat
      BY <2>1, <2>2, <3>1 DEF Sums
    <3>6. h[Len(list)] = retained_bytes' /\ retained_bytes' <= MaxBytes
      BY <1>2, <1>5, <2>1, <2>4, <2>8, <3>1, <3>2, <3>3, <3>4, <3>5, SMTT(30)
         DEF Global!Charged, Global!NoRoom
    <3> QED BY <2>6, <3>4, <3>6 DEF ChargeOK
  <2>11. ThreadsOK'
    BY <1>1, <1>5 DEF PlanIInv, ThreadsOK, key
  <2> QED BY <2>9, <2>10, <2>11 DEF PlanIInv
<1> QED BY <1>3, <1>4, <1>5 DEF Global!Insert, Global!PlanKey, Global!AlreadyThere

(* The invariant is inductive, and says what the cache promises. *)
LEMMA PlanInductive == PlanIInv /\ [Global!Next]_(Global!vars) => PlanIInv'
<1> SUFFICES ASSUME PlanIInv, [Global!Next]_(Global!vars) PROVE PlanIInv'
  OBVIOUS
<1>1. CASE Global!Next
  BY <1>1, LookupKeeps, OthersKeep, InsertKeeps DEF Global!Next
<1>2. CASE UNCHANGED Global!vars
  <2>1. ThreadsOK'
    BY <1>2 DEF Global!vars, PlanIInv, ThreadsOK
  <2> QED BY <1>2, <2>1, ListKept DEF Global!vars, PlanIInv
<1> QED BY <1>1, <1>2

LEMMA PlanMeans == PlanIInv => Global!BudgetExact /\ Global!OwnPlan
<1> SUFFICES ASSUME PlanIInv PROVE Global!BudgetExact /\ Global!OwnPlan
  OBVIOUS
<1>1. Len(entries) \in Nat /\ DOMAIN entries = 1 .. Len(entries)
  BY LenProperties DEF PlanIInv, ListOK
<1>2. PICK f : Sums(f, entries) /\ f[Len(entries)] = retained_bytes
  BY DEF PlanIInv, ChargeOK
<1>3. retained_bytes = Global!BytesOf(entries)
  BY <1>1, <1>2, SumIs
<1>4. Global!BudgetExact
  BY <1>1, <1>3 DEF Global!BudgetExact, PlanIInv, ListOK, ChargeOK
<1> QED BY <1>4 DEF Global!OwnPlan, PlanIInv, ThreadsOK

-----------------------------------------------------------------------------
(***************************************************************************)
(* The caches of a thread (LeopardThreadCaches).                           *)
(***************************************************************************)

(* A thread's two-entry cache: keys are distinct, the budget is kept. *)
TwoEntries(cache, R, max) ==
    /\ cache \in Seq(R) /\ Len(cache) <= 2
    /\ Len(cache) = 1 => cache[1].bytes <= max
    /\ Len(cache) = 2 => /\ cache[1].key # cache[2].key
                         /\ cache[1].bytes + cache[2].bytes <= max

(* The lists a two-entry cache can be. *)
LEMMA SeqOfTwo ==
    ASSUME NEW R, NEW cache \in Seq(R), Len(cache) <= 2
    PROVE  /\ Len(cache) \in Nat /\ DOMAIN cache = 1 .. Len(cache)
           /\ Len(cache) = 0 => cache = <<>> /\ Thread!Entries(cache) = {}
           /\ Len(cache) = 1 => /\ cache[1] \in R /\ Thread!Entries(cache) = {cache[1]}
                                /\ cache = <<cache[1]>>
           /\ Len(cache) = 2 => /\ cache[1] \in R /\ cache[2] \in R
                                /\ Thread!Entries(cache) = {cache[1], cache[2]}
                                /\ cache = <<cache[1], cache[2]>>
           /\ Len(cache) \in {0, 1, 2}
<1>1. /\ Len(cache) \in Nat /\ DOMAIN cache = 1 .. Len(cache)
      /\ \A k \in 1 .. Len(cache) : cache[k] \in R
  BY LenProperties, ElementOfSeq
<1>2. Len(cache) = 0 \/ Len(cache) = 1 \/ Len(cache) = 2
  BY <1>1
<1>3. CASE Len(cache) = 0
  <2>1. cache = <<>>
    BY <1>3, EmptySeq
  <2>2. Thread!Entries(cache) = {}
    BY <1>1, <1>3 DEF Thread!Entries
  <2> QED BY <1>1, <1>3, <2>1, <2>2
<1>4. CASE Len(cache) = 1
  <2>1. \A k : k \in DOMAIN cache <=> k = 1
    BY <1>1, <1>4
  <2>2. Thread!Entries(cache) = {cache[1]}
    BY <2>1 DEF Thread!Entries
  <2> QED BY <1>1, <1>4, <2>1, <2>2
<1>5. CASE Len(cache) = 2
  <2>1. \A k : k \in DOMAIN cache <=> k = 1 \/ k = 2
    BY <1>1, <1>5
  <2>2. Thread!Entries(cache) = {cache[1], cache[2]}
    BY <2>1 DEF Thread!Entries
  <2> QED BY <1>1, <1>5, <2>1, <2>2
<1> QED BY <1>2, <1>3, <1>4, <1>5

(* What is left of such a list. *)
LEMMA Removal ==
    ASSUME NEW R, NEW s \in Seq(R)
    PROVE  /\ Len(s) = 1 => Thread!RemoveAt(s, 1) = <<>>
           /\ Len(s) = 2 => Thread!RemoveAt(s, 1) = <<s[2]>> /\ Thread!RemoveAt(s, 2) = <<s[1]>>
<1>1. Len(s) \in Nat /\ \A k \in 1 .. Len(s) : s[k] \in R
  BY LenProperties, ElementOfSeq
<1>2. SubSeq(s, 1, 0) = <<>> /\ (Len(s) = 1 => SubSeq(s, 2, 1) = <<>>)
      /\ (Len(s) = 2 => SubSeq(s, 3, 2) = <<>>)
  BY SubSeqEmpty
<1>3. ASSUME NEW k \in 1 .. Len(s) PROVE SubSeq(s, k, k) = <<s[k]>>
  <2>1. /\ SubSeq(s, k, k) \in Seq(R) /\ Len(SubSeq(s, k, k)) = 1
        /\ SubSeq(s, k, k)[1] = s[k]
    BY <1>1
  <2>2. PICK u : u = SubSeq(s, k, k)
    OBVIOUS
  <2>3. u \in Seq(R) /\ Len(u) = 1 /\ u[1] = s[k] /\ Len(u) <= 2
    BY <2>1, <2>2
  <2> QED BY <2>2, <2>3, SeqOfTwo
<1>4. CASE Len(s) = 1
  BY <1>2, <1>4 DEF Thread!RemoveAt
<1>5. CASE Len(s) = 2
  <2>1. s[1] \in R /\ s[2] \in R /\ SubSeq(s, 1, 1) = <<s[1]>> /\ SubSeq(s, 2, 2) = <<s[2]>>
    BY <1>1, <1>3, <1>5
  <2>2. <<>> \o <<s[2]>> = <<s[2]>> /\ <<s[1]>> \o <<>> = <<s[1]>>
    BY <2>1
  <2>3. /\ Thread!RemoveAt(s, 1) = SubSeq(s, 1, 0) \o SubSeq(s, 2, 2)
        /\ Thread!RemoveAt(s, 2) = SubSeq(s, 1, 1) \o SubSeq(s, 3, 2)
    BY <1>5 DEF Thread!RemoveAt
  <2> QED BY <1>2, <1>5, <2>1, <2>2, <2>3
<1> QED BY <1>4, <1>5

(* take gives the entry of the key and leaves the other one. *)
LEMMA TakenIs ==
    ASSUME NEW R, NEW max \in Nat, NEW cache, TwoEntries(cache, R, max), NEW key,
           \A r \in R : r.bytes \in Nat
    PROVE  /\ TwoEntries(Thread!Taken(cache, key), R, max)
           /\ \A x : x \in Thread!Entries(Thread!Taken(cache, key)) <=>
                       x \in Thread!Entries(cache) /\ x.key # key
           /\ \A new : \/ /\ Thread!TakeOr(cache, key, new) = new
                         /\ \A x \in Thread!Entries(cache) : x.key # key
                      \/ /\ Thread!TakeOr(cache, key, new) \in Thread!Entries(cache) \cap R
                         /\ Thread!TakeOr(cache, key, new).key = key
<1> DEFINE F == Thread!Find(cache, key)
<1>1. /\ cache \in Seq(R) /\ Len(cache) \in Nat /\ DOMAIN cache = 1 .. Len(cache)
      /\ \A k \in 1 .. Len(cache) : cache[k] \in R /\ cache[k] \in Thread!Entries(cache)
  BY SeqOfTwo, ElementOfSeq DEF TwoEntries, Thread!Entries
<1>2. \A k : k \in F <=> k \in 1 .. Len(cache) /\ cache[k].key = key
  BY <1>1 DEF Thread!Find
<1>3. CASE F = {}
  <2>1. Thread!Taken(cache, key) = cache
    BY <1>3 DEF Thread!Taken
  <2>2. \A x \in Thread!Entries(cache) : x.key # key
    BY <1>1, <1>2, <1>3 DEF Thread!Entries
  <2> QED BY <1>3, <2>1, <2>2 DEF Thread!TakeOr
<1>4. CASE F # {}
  <2>1. PICK p : p = Thread!Min(F)
    OBVIOUS
  <2>2. p \in F
    <3>1. F \in SUBSET Nat
      BY <1>1, <1>2
    <3> HIDE DEF F
    <3> QED BY <1>4, <2>1, <3>1, MinIsLeast, SameMin
  <2>3. p \in 1 .. Len(cache) /\ cache[p].key = key
    BY <1>2, <2>2
  <2>4. \A new : Thread!TakeOr(cache, key, new) = cache[p]
    BY <1>4, <2>1 DEF Thread!TakeOr
  <2>5. Thread!Taken(cache, key) = Thread!RemoveAt(cache, p)
    BY <1>4, <2>1 DEF Thread!Taken
  <2> HIDE DEF F
  <2>6. CASE Len(cache) = 1
    <3>1. p = 1 /\ Thread!Taken(cache, key) = <<>>
      BY <1>1, <2>3, <2>5, <2>6, Removal
    <3>2. Thread!Entries(cache) = {cache[1]} /\ Thread!Entries(<<>>) = {}
      BY <1>1, <2>6, SeqOfTwo DEF Thread!Entries, TwoEntries
    <3>3. TwoEntries(<<>>, R, max)
      BY EmptySeq DEF TwoEntries
    <3> QED BY <1>1, <2>3, <2>4, <3>1, <3>2, <3>3
  <2>7. CASE Len(cache) = 2
    <3>1. PICK q \in {1, 2} : q # p /\ Thread!Taken(cache, key) = <<cache[q]>>
      BY <1>1, <2>3, <2>5, <2>7, Removal
    <3>2. cache[1].key # cache[2].key /\ cache[1].bytes + cache[2].bytes <= max
      BY <2>7 DEF TwoEntries
    <3>3. cache[q] \in R /\ cache[q].key # key /\ cache[q].bytes <= max
      <4>1. cache[1] \in R /\ cache[2] \in R /\ cache[1].bytes \in Nat /\ cache[2].bytes \in Nat
        BY <1>1, <2>7
      <4>2. cache[q].bytes <= max
        BY <3>1, <3>2, <4>1
      <4>3. p \in {1, 2}
        BY <2>3, <2>7
      <4> QED BY <2>3, <3>1, <3>2, <4>1, <4>2, <4>3
    <3>4. Thread!Entries(cache) = {cache[1], cache[2]}
      BY <1>1, <2>7, SeqOfTwo DEF TwoEntries
    <3>5. PICK e : e = cache[q]
      OBVIOUS
    <3>6. <<e>> \in Seq(R) /\ Len(<<e>>) = 1 /\ <<e>>[1] = e /\ Thread!Entries(<<e>>) = {e}
      <4>1. e \in R
        BY <3>3, <3>5
      <4>2. <<e>> \in Seq(R) /\ Len(<<e>>) = 1 /\ <<e>>[1] = e
        BY <4>1
      <4>3. Len(<<e>>) <= 2
        BY <4>2
      <4> QED BY <4>2, <4>3, SeqOfTwo
    <3>7. TwoEntries(<<e>>, R, max)
      BY <3>3, <3>5, <3>6 DEF TwoEntries
    <3>8. \A x : x \in {e} <=> x \in {cache[1], cache[2]} /\ x.key # key
      <4>1. p \in {1, 2}
        BY <2>3, <2>7
      <4> QED BY <2>3, <3>1, <3>3, <3>5, <4>1
    <3> QED BY <1>1, <2>3, <2>4, <3>1, <3>4, <3>5, <3>6, <3>7, <3>8
  <2>8. Len(cache) \in {1, 2}
    BY <1>1, <2>3 DEF TwoEntries
  <2> QED BY <2>6, <2>7, <2>8
<1> QED BY <1>3, <1>4

(* insert keeps both limits of the cache and adds only its resource. *)
LEMMA InsertedIs ==
    ASSUME NEW R, NEW max \in Nat, NEW cache, TwoEntries(cache, R, max), NEW r \in R,
           \A x \in R : x.bytes \in Nat
    PROVE  /\ TwoEntries(Thread!Inserted(cache, r, max), R, max)
           /\ Thread!Entries(Thread!Inserted(cache, r, max)) \subseteq Thread!Entries(cache) \cup {r}
<1> DEFINE K == {k \in DOMAIN cache : cache[k].key # r.key /\ cache[k].bytes <= max - r.bytes}
<1>1. /\ cache \in Seq(R) /\ Len(cache) \in Nat /\ DOMAIN cache = 1 .. Len(cache)
      /\ \A k \in 1 .. Len(cache) : cache[k] \in R /\ cache[k] \in Thread!Entries(cache)
  BY SeqOfTwo, ElementOfSeq DEF TwoEntries, Thread!Entries
<1>2. CASE r.bytes > max
  BY <1>2 DEF Thread!Inserted
<1>3. CASE ~(r.bytes > max) /\ K = {}
  <2>1. Thread!Inserted(cache, r, max) = <<r>>
    BY <1>3 DEF Thread!Inserted
  <2>2. <<r>> \in Seq(R) /\ Len(<<r>>) = 1 /\ <<r>>[1] = r
    OBVIOUS
  <2>3. Thread!Entries(<<r>>) = {r}
    <3>1. Len(<<r>>) <= 2
      BY <2>2
    <3> QED BY <2>2, <3>1, SeqOfTwo
  <2>4. TwoEntries(<<r>>, R, max)
    BY <1>3, <2>2 DEF TwoEntries
  <2> QED BY <2>1, <2>3, <2>4
<1>4. CASE ~(r.bytes > max) /\ K # {}
  <2>1. PICK p : p = Thread!Min(K)
    OBVIOUS
  <2>2. p \in K
    <3>1. K \in SUBSET Nat
      BY <1>1
    <3> HIDE DEF K
    <3> QED BY <1>4, <2>1, <3>1, MinIsLeast, SameMin
  <2>3. PICK e : e = cache[p]
    OBVIOUS
  <2>4. /\ e \in R /\ e \in Thread!Entries(cache) /\ e.key # r.key /\ e.bytes <= max - r.bytes
        /\ e.bytes \in Nat /\ r.bytes \in Nat
    BY <1>1, <2>2, <2>3
  <2>5. Thread!Inserted(cache, r, max) = <<r, e>>
    BY <1>4, <2>1, <2>3 DEF Thread!Inserted
  <2>6. <<r, e>> \in Seq(R) /\ Len(<<r, e>>) = 2 /\ <<r, e>>[1] = r /\ <<r, e>>[2] = e
    BY <2>4
  <2>7. Thread!Entries(<<r, e>>) = {r, e}
    <3>1. Len(<<r, e>>) <= 2
      BY <2>6
    <3> QED BY <2>6, <3>1, SeqOfTwo
  <2>8. r.bytes + e.bytes <= max
    BY <2>4
  <2>9. TwoEntries(<<r, e>>, R, max)
    BY <2>4, <2>6, <2>8 DEF TwoEntries
  <2> QED BY <2>4, <2>5, <2>7, <2>9
<1> QED BY <1>2, <1>3, <1>4

-----------------------------------------------------------------------------
RP == Thread!ResourceType(Thread!Plans)
RW == Thread!ResourceType(Thread!Works)

FrameType == [op : {"encode", "decode8", "decode16"}, shape : CacheShapes,
              plan : RP \cup {Thread!None},
              work : RW, cacheable : BOOLEAN, holds : BOOLEAN]

Uses(f) == Thread!Held(f.plan) \cup Thread!Held(f.work)

(* A frame of the operation's own shape. *)
FrameOK(f) ==
    /\ f.work.key = f.shape.work
    /\ f.op # "decode16" => f.plan \in RP /\ f.plan.key = f.shape.plan
    /\ f.op = "decode16" => f.plan = Thread!None
    /\ f.plan # Thread!None => f.plan.id # f.work.id
    /\ f.holds => f.op = "decode8"

CachesOK ==
    /\ TwoEntries(plans, RP, MaxPlanBytes) /\ TwoEntries(works, RW, MaxWorkBytes)
    /\ slot16 \in RW \cup {Thread!None}
    /\ cache8 \in [borrowed : BOOLEAN, plan : RP \cup {Thread!None}, work : RW \cup {Thread!None}]
    /\ \A r \in Thread!Held(slot16) \cup Thread!Held(cache8.work) : r.bytes <= MaxWorkBytes
    /\ \A r \in Thread!Held(cache8.plan) : r.bytes <= MaxPlanBytes

StackOK ==
    /\ ops \in Programs
    /\ stack \in Seq(FrameType) /\ Len(stack) <= Depth
    /\ \A k \in 1 .. Len(stack) : FrameOK(stack[k])

BorrowOK ==
    /\ cache8.borrowed <=> \E k \in 1 .. Len(stack) : stack[k].holds
    /\ \A j, k \in 1 .. Len(stack) : stack[j].holds /\ stack[k].holds => j = k

(* What each cache keeps. *)
Boxes == {"plans", "works", "slot16", "plan8", "work8"}
Box(b) ==
    CASE b = "plans" -> Thread!Entries(plans)
      [] b = "works" -> Thread!Entries(works)
      [] b = "slot16" -> Thread!Held(slot16)
      [] b = "plan8" -> Thread!Held(cache8.plan)
      [] b = "work8" -> Thread!Held(cache8.work)

(* An allocation is kept in one place. *)
BoxesApart ==
    \A a, b \in Boxes : \A x \in Box(a), y \in Box(b) : x.id = y.id => a = b /\ x = y

(* It is used by one operation. *)
FramesApart ==
    \A j, k \in 1 .. Len(stack) : \A x \in Uses(stack[j]), y \in Uses(stack[k]) :
       x.id = y.id => j = k

(* It is kept while it is used only by the decoder that borrows its cache. *)
Loans ==
    \A k \in 1 .. Len(stack), b \in Boxes : \A x \in Uses(stack[k]), y \in Box(b) :
       x.id = y.id => stack[k].holds /\ b \in {"plan8", "work8"}

ThreadIInv == CachesOK /\ StackOK /\ BorrowOK /\ BoxesApart /\ FramesApart /\ Loans

(* The stack of operations is a list of frames. *)
LEMMA StackIs ==
    ASSUME StackOK
    PROVE  /\ Len(stack) \in Nat /\ DOMAIN stack = 1 .. Len(stack)
           /\ \A k \in 1 .. Len(stack) : stack[k] \in FrameType
           /\ stack # <<>> => Len(stack) \in 1 .. Len(stack)
<1>1. stack \in Seq(FrameType)
  BY DEF StackOK
<1>2. Len(stack) \in Nat /\ DOMAIN stack = 1 .. Len(stack)
  BY <1>1, LenProperties
<1>3. stack # <<>> => Len(stack) # 0
  BY <1>1, EmptySeq
<1> QED BY <1>1, <1>2, <1>3, ElementOfSeq

(* Starting an operation keeps the stack's part of the invariant. *)
LEMMA PushKeeps ==
    ASSUME ThreadIInv, NEW f \in FrameType, FrameOK(f), stack' = Append(stack, f),
           Len(stack) < Depth, ops' = ops, CachesOK', BoxesApart',
           \A b \in Boxes : \A y \in Box(b)' : y \in Box(b) \/ y \in Uses(f),
           \A k \in 1 .. Len(stack) : \A x \in Uses(f), z \in Uses(stack[k]) : x.id # z.id,
           \A b \in Boxes : \A x \in Uses(f), y \in Box(b)' :
              x.id = y.id => f.holds /\ b \in {"plan8", "work8"},
           cache8'.borrowed <=> cache8.borrowed \/ f.holds,
           f.holds => ~cache8.borrowed
    PROVE  ThreadIInv'
<1> DEFINE N == Len(stack)
<1>1. N \in Nat /\ stack \in Seq(FrameType) /\ \A k \in 1 .. N : stack[k] \in FrameType
  BY StackIs DEF ThreadIInv, StackOK
<1>2. /\ stack' \in Seq(FrameType) /\ Len(stack') = N + 1 /\ stack'[N + 1] = f
      /\ \A k \in 1 .. N : stack'[k] = stack[k]
  BY <1>1, AppendProperties
<1>3. \A k \in 1 .. N + 1 : k \in 1 .. N \/ k = N + 1
  BY <1>1
<1>4. N + 1 \in 1 .. N + 1 /\ \A k \in 1 .. N : k \in 1 .. N + 1 /\ k # N + 1
  BY <1>1
<1> HIDE DEF N
<1>5. StackOK'
  <2>1. \A k \in 1 .. N + 1 : FrameOK(stack'[k])
    BY <1>2, <1>3 DEF ThreadIInv, StackOK, N
  <2>2. N + 1 <= Depth
    BY <1>1, ThreadAssumption DEF Thread!CacheAssumption, N
  <2> QED BY <1>2, <2>1, <2>2 DEF ThreadIInv, StackOK
<1>6. BorrowOK'
  <2>1. (\E k \in 1 .. N + 1 : stack'[k].holds) <=> (\E k \in 1 .. N : stack[k].holds) \/ f.holds
    BY <1>2, <1>3, <1>4
  <2>2. \A j, k \in 1 .. N + 1 : stack'[j].holds /\ stack'[k].holds => j = k
    BY <1>2, <1>3 DEF ThreadIInv, BorrowOK, N
  <2> QED BY <1>2, <2>1, <2>2 DEF ThreadIInv, BorrowOK, N
<1>7. FramesApart'
  <2> SUFFICES ASSUME NEW j \in 1 .. N + 1, NEW k \in 1 .. N + 1, NEW x \in Uses(stack'[j]),
                      NEW y \in Uses(stack'[k]), x.id = y.id
               PROVE  j = k
    BY <1>2 DEF FramesApart
  <2> QED BY <1>2, <1>3 DEF ThreadIInv, FramesApart, N
<1>8. Loans'
  <2> SUFFICES ASSUME NEW k \in 1 .. N + 1, NEW b \in Boxes, NEW x \in Uses(stack'[k]),
                      NEW y \in Box(b)', x.id = y.id
               PROVE  stack'[k].holds /\ b \in {"plan8", "work8"}
    BY <1>2 DEF Loans
  <2> QED BY <1>2, <1>3 DEF ThreadIInv, Loans, N
<1> QED BY <1>5, <1>6, <1>7, <1>8 DEF ThreadIInv

(* Ending the innermost operation does, too. *)
LEMMA PopKeeps ==
    ASSUME ThreadIInv, stack # <<>>, stack' = Thread!Pop, ops' = ops, CachesOK', BoxesApart',
           \A b \in Boxes : \A y \in Box(b)' :
              y \in Box(b) \/ \E x \in Uses(Thread!Top) : y.id = x.id,
           cache8'.borrowed <=> cache8.borrowed /\ ~Thread!Top.holds
    PROVE  ThreadIInv'
<1> DEFINE N == Len(stack)
<1>1. N \in Nat /\ stack \in Seq(FrameType) /\ N \in 1 .. N /\ \A k \in 1 .. N : stack[k] \in FrameType
  BY StackIs DEF ThreadIInv, StackOK
<1>2. /\ stack' \in Seq(FrameType) /\ Len(stack') = N - 1
      /\ \A k \in 1 .. N - 1 : stack'[k] = stack[k]
  <2>1. stack' = SubSeq(stack, 1, N - 1)
    BY DEF Thread!Pop
  <2> HIDE DEF N
  <2>2. N - 1 \in Int /\ \A k \in 1 .. N - 1 : k \in 1 .. N
    BY <1>1
  <2>3. /\ stack' \in Seq(FrameType) /\ Len(stack') = IF 1 <= N - 1 THEN N - 1 - 1 + 1 ELSE 0
        /\ \A k \in 1 .. N - 1 - 1 + 1 : stack'[k] = stack[1 + k - 1]
    BY <1>1, <2>1, <2>2, SubSeqProperties
  <2>4. N - 1 - 1 + 1 = N - 1 /\ \A k \in 1 .. N - 1 : 1 + k - 1 = k
    BY <1>1
  <2>5. Len(stack') = N - 1
    BY <1>1, <2>3
  <2> QED BY <2>3, <2>4, <2>5
<1>3. \A k \in 1 .. N - 1 : k \in 1 .. N /\ k # N
  BY <1>1
<1>4. \A k \in 1 .. N : k \in 1 .. N - 1 \/ k = N
  BY <1>1
<1>5. Thread!Top = stack[N]
  BY DEF Thread!Top
<1> HIDE DEF N
<1>6. StackOK'
  <2>1. \A k \in 1 .. N - 1 : FrameOK(stack'[k])
    BY <1>2, <1>3 DEF ThreadIInv, StackOK, N
  <2>2. N - 1 <= Depth
    BY <1>1, ThreadAssumption DEF Thread!CacheAssumption, ThreadIInv, StackOK, N
  <2> QED BY <1>2, <2>1, <2>2 DEF ThreadIInv, StackOK
<1>7. BorrowOK'
  <2>1. (\E k \in 1 .. N - 1 : stack'[k].holds) <=> (\E k \in 1 .. N : stack[k].holds) /\ ~Thread!Top.holds
    BY <1>1, <1>2, <1>3, <1>4, <1>5 DEF ThreadIInv, BorrowOK, N
  <2>2. \A j, k \in 1 .. N - 1 : stack'[j].holds /\ stack'[k].holds => j = k
    BY <1>2, <1>3 DEF ThreadIInv, BorrowOK, N
  <2> QED BY <1>2, <2>1, <2>2 DEF ThreadIInv, BorrowOK, N
<1>8. FramesApart'
  <2> SUFFICES ASSUME NEW j \in 1 .. N - 1, NEW k \in 1 .. N - 1, NEW x \in Uses(stack'[j]),
                      NEW y \in Uses(stack'[k]), x.id = y.id
               PROVE  j = k
    BY <1>2 DEF FramesApart
  <2> QED BY <1>2, <1>3 DEF ThreadIInv, FramesApart, N
<1>9. Loans'
  <2> SUFFICES ASSUME NEW k \in 1 .. N - 1, NEW b \in Boxes, NEW x \in Uses(stack'[k]),
                      NEW y \in Box(b)', x.id = y.id
               PROVE  stack'[k].holds /\ b \in {"plan8", "work8"}
    BY <1>2 DEF Loans
  <2>1. k \in 1 .. N /\ k # N /\ x \in Uses(stack[k]) /\ stack'[k] = stack[k]
    BY <1>2, <1>3
  <2>2. CASE y \in Box(b)
    BY <2>1, <2>2 DEF ThreadIInv, Loans, N
  <2>3. CASE y \notin Box(b)
    <3>1. PICK z \in Uses(stack[N]) : y.id = z.id
      BY <1>5, <2>3
    <3> QED BY <1>1, <2>1, <3>1 DEF ThreadIInv, FramesApart, N
  <2> QED BY <2>2, <2>3
<1> QED BY <1>6, <1>7, <1>8, <1>9 DEF ThreadIInv

-----------------------------------------------------------------------------
(* New allocations.                                                        *)

(* The allocations in use are finitely many. *)
LEMMA ImageFinite ==
    ASSUME NEW S, IsFiniteSet(S), NEW f, DOMAIN f = S PROVE IsFiniteSet({f[x] : x \in S})
<1> DEFINE T == {f[x] : x \in S}
           g == [x \in S |-> f[x]]
<1>1. g \in [S -> T] /\ \A t \in T : \E x \in S : g[x] = t
  OBVIOUS
<1>2. g \in Surjection(S, T)
  BY <1>1 DEF Surjection
<1> HIDE DEF T, g
<1> QED BY <1>2, FS_Surjection DEF T

LEMMA HeldFinite == ASSUME NEW x PROVE IsFiniteSet(Thread!Held(x))
  BY FS_EmptySet, FS_Singleton DEF Thread!Held

LEMMA UsedFinite == ASSUME ThreadIInv PROVE IsFiniteSet(Thread!UsedIds)
<1>1. ASSUME NEW R, NEW c \in Seq(R) PROVE IsFiniteSet(Thread!Entries(c))
  <2>1. DOMAIN c = 1 .. Len(c) /\ Len(c) \in Nat
    BY LenProperties
  <2>2. IsFiniteSet(DOMAIN c)
    BY <2>1, FS_Interval
  <2>3. IsFiniteSet({c[k] : k \in DOMAIN c})
    BY <2>2, ImageFinite
  <2> QED BY <2>3 DEF Thread!Entries
<1>2. IsFiniteSet(Thread!InCaches)
  <2>1. IsFiniteSet(Thread!Entries(plans)) /\ IsFiniteSet(Thread!Entries(works))
    BY <1>1 DEF ThreadIInv, CachesOK, TwoEntries
  <2>2. IsFiniteSet(Thread!Entries(plans) \cup Thread!Entries(works))
    BY <2>1, FS_Union
  <2>3. IsFiniteSet(Thread!Entries(plans) \cup Thread!Entries(works) \cup Thread!Held(slot16))
    BY <2>2, HeldFinite, FS_Union
  <2>4. IsFiniteSet(Thread!Entries(plans) \cup Thread!Entries(works) \cup Thread!Held(slot16) \cup Thread!Held(cache8.plan))
    BY <2>3, HeldFinite, FS_Union
  <2> QED BY <2>4, HeldFinite, FS_Union DEF Thread!InCaches
<1>3. IsFiniteSet(Thread!InFrames)
  <2> DEFINE u == [k \in DOMAIN stack |-> Thread!Held(stack[k].plan) \cup Thread!Held(stack[k].work)]
  <2>1. IsFiniteSet(DOMAIN stack)
    BY StackIs, FS_Interval DEF ThreadIInv
  <2>2. \A k \in DOMAIN stack : IsFiniteSet(u[k])
    BY HeldFinite, FS_Union
  <2>3. Thread!InFrames = UNION {u[k] : k \in DOMAIN stack}
    BY DEF Thread!InFrames
  <2>4. DOMAIN u = DOMAIN stack
    OBVIOUS
  <2> HIDE DEF u
  <2>5. IsFiniteSet({u[k] : k \in DOMAIN stack})
    BY <2>1, <2>4, ImageFinite
  <2> QED BY <2>2, <2>3, <2>5, FS_UNION
<1> DEFINE X == Thread!InCaches \cup Thread!InFrames
           id == [r \in X |-> r.id]
<1>4. IsFiniteSet(X)
  BY <1>2, <1>3, FS_Union
<1>5. Thread!UsedIds = {id[r] : r \in X} /\ DOMAIN id = X
  BY DEF Thread!UsedIds
<1> HIDE DEF X, id
<1> QED BY <1>4, <1>5, ImageFinite

(* So there is a new one to draw. *)
LEMMA FreshIsNew ==
    ASSUME NEW taken, IsFiniteSet(taken)
    PROVE  Thread!FreshId(taken) \in Nat /\ Thread!FreshId(taken) \notin taken
<1>1. PICK c \in Nat : c = Cardinality(taken)
  BY FS_CardinalityType
<1>2. IsFiniteSet(1 .. c + 1) /\ Cardinality(1 .. c + 1) = c + 1
  BY FS_Interval
<1>3. ~(1 .. c + 1 \subseteq taken)
  <2> SUFFICES ASSUME 1 .. c + 1 \subseteq taken PROVE FALSE
    OBVIOUS
  <2>1. Cardinality(1 .. c + 1) <= Cardinality(taken)
    BY FS_Subset
  <2> QED BY <1>1, <1>2, <2>1
<1>4. \E n \in 1 .. c + 1 : n \notin taken
  BY <1>3
<1>5. Thread!FreshId(taken) \in 1 .. c + 1 /\ Thread!FreshId(taken) \notin taken
  BY <1>1, <1>4, SameCardinality DEF Thread!FreshId
<1> QED BY <1>5

MadeAs(r, R, id, key, bytes) == r \in R /\ r.id = id /\ r.key = key /\ r.bytes = bytes

(* The two ids a call may draw are new and differ. *)
LEMMA NewIds ==
    ASSUME ThreadIInv
    PROVE  \E i, j \in Nat :
             /\ i # j
             /\ \A s \in CacheShapes : MadeAs(Thread!NewPlan(s.plan), RP, i, s.plan, PlanBytes[s.plan])
                                 /\ MadeAs(Thread!NewWork(s.work), RW, j, s.work, WorkBytes[s.work])
             /\ \A b \in Boxes : \A y \in Box(b) : y.id # i /\ y.id # j
             /\ \A k \in 1 .. Len(stack) : \A z \in Uses(stack[k]) : z.id # i /\ z.id # j
<1> DEFINE i == Thread!FreshId(Thread!UsedIds)
           j == Thread!FreshId(Thread!UsedIds \cup {i})
<1>1. IsFiniteSet(Thread!UsedIds)
  BY UsedFinite
<1>2. i \in Nat /\ i \notin Thread!UsedIds
  BY <1>1, FreshIsNew
<1>3. j \in Nat /\ j \notin Thread!UsedIds \cup {i}
  <2> HIDE DEF i
  <2>1. IsFiniteSet(Thread!UsedIds \cup {i})
    BY <1>1, FS_AddElement
  <2> QED BY <2>1, FreshIsNew
<1>4. ASSUME NEW s \in CacheShapes
      PROVE  /\ MadeAs(Thread!NewPlan(s.plan), RP, i, s.plan, PlanBytes[s.plan])
             /\ MadeAs(Thread!NewWork(s.work), RW, j, s.work, WorkBytes[s.work])
  <2>1. /\ Thread!NewPlan(s.plan) = [id |-> i, key |-> s.plan, bytes |-> PlanBytes[s.plan]]
        /\ Thread!NewWork(s.work) = [id |-> j, key |-> s.work, bytes |-> WorkBytes[s.work]]
    BY DEF Thread!NewPlan, Thread!NewWork
  <2> HIDE DEF i, j
  <2>2. s.plan \in Thread!Plans /\ s.work \in Thread!Works
    BY DEF Thread!Plans, Thread!Works
  <2>3. PlanBytes[s.plan] \in Nat /\ WorkBytes[s.work] \in Nat
    BY <2>2, ThreadAssumption DEF Thread!CacheAssumption
  <2> QED BY <1>2, <1>3, <2>1, <2>2, <2>3 DEF RP, RW, Thread!ResourceType, MadeAs
<1>5. \A b \in Boxes : \A y \in Box(b) : y \in Thread!InCaches
  BY DEF Boxes, Box, Thread!InCaches
<1>6. \A k \in 1 .. Len(stack) : \A z \in Uses(stack[k]) : z \in Thread!InFrames
  BY StackIs DEF ThreadIInv, Uses, Thread!InFrames
<1>7. \A r \in Thread!InCaches \cup Thread!InFrames : r.id \in Thread!UsedIds
  BY DEF Thread!UsedIds
<1> HIDE DEF i, j
<1> QED BY <1>2, <1>3, <1>4, <1>5, <1>6, <1>7

(* A resource is not the absence of one. *)
LEMMA NotNone ==
    ASSUME NEW r \in RP \cup RW
    PROVE  r # Thread!None /\ Thread!Held(r) = {r} /\ r.bytes \in Nat
<1>1. DOMAIN r = {"id", "key", "bytes"} /\ r.bytes \in Nat
  BY DEF RP, RW, Thread!ResourceType
<1>2. DOMAIN Thread!None = {}
  BY DEF Thread!None
<1>3. r # Thread!None
  BY <1>1, <1>2
<1> QED BY <1>1, <1>3 DEF Thread!Held

LEMMA BytesAreNat == MaxPlanBytes \in Nat /\ MaxWorkBytes \in Nat
                     /\ (\A r \in RP : r.bytes \in Nat) /\ (\A r \in RW : r.bytes \in Nat)
  BY ThreadAssumption DEF Thread!CacheAssumption, RP, RW, Thread!ResourceType

LEMMA BoxIs == /\ Box("plans") = Thread!Entries(plans) /\ Box("works") = Thread!Entries(works)
               /\ Box("slot16") = Thread!Held(slot16)
               /\ Box("plan8") = Thread!Held(cache8.plan)
               /\ Box("work8") = Thread!Held(cache8.work)
  BY DEF Box

(* New, or taken out of a cache that is never lent: nobody else has it. *)
Drawn(x, i) ==
    \/ /\ \A b \in Boxes : \A y \in Box(b) : y.id # i
       /\ \A k \in 1 .. Len(stack) : \A z \in Uses(stack[k]) : z.id # i
       /\ x.id = i
    \/ \E a \in {"plans", "works", "slot16"} : x \in Box(a) /\ x \notin Box(a)'

(* What an operation draws, new or from a cache, no other one uses. *)
LEMMA DrawnIsFree ==
    ASSUME ThreadIInv, \A b \in Boxes : Box(b)' \subseteq Box(b), NEW x, NEW i, Drawn(x, i)
    PROVE  /\ \A k \in 1 .. Len(stack) : \A z \in Uses(stack[k]) : x.id # z.id
           /\ \A b \in Boxes : \A y \in Box(b)' : x.id # y.id
<1>1. CASE \E a \in {"plans", "works", "slot16"} : x \in Box(a) /\ x \notin Box(a)'
  <2>1. PICK a \in {"plans", "works", "slot16"} : x \in Box(a) /\ x \notin Box(a)'
    BY <1>1
  <2>2. a \in Boxes /\ a \notin {"plan8", "work8"}
    BY DEF Boxes
  <2>3. \A k \in 1 .. Len(stack) : \A z \in Uses(stack[k]) : x.id # z.id
    BY <2>1, <2>2 DEF ThreadIInv, Loans
  <2>4. \A b \in Boxes : \A y \in Box(b)' : x.id # y.id
    BY <2>1, <2>2 DEF ThreadIInv, BoxesApart
  <2> QED BY <2>3, <2>4
<1>2. CASE ~ \E a \in {"plans", "works", "slot16"} : x \in Box(a) /\ x \notin Box(a)'
  BY <1>2 DEF Drawn
<1> QED BY <1>1, <1>2

(* Caches that lose entries stay apart. *)
LEMMA StillApart ==
    ASSUME ThreadIInv, \A b \in Boxes : Box(b)' \subseteq Box(b) PROVE BoxesApart'
<1>1. ASSUME NEW a \in Boxes, NEW b \in Boxes, NEW x \in Box(a)', NEW y \in Box(b)', x.id = y.id
      PROVE  a = b /\ x = y
  BY <1>1 DEF ThreadIInv, BoxesApart
<1> QED BY <1>1 DEF BoxesApart

(* What taking a key leaves of a cache, and what it gives. *)
TakeFacts(cache, R, max, key) ==
    /\ TwoEntries(Thread!Taken(cache, key), R, max)
    /\ \A x : x \in Thread!Entries(Thread!Taken(cache, key)) <=>
               x \in Thread!Entries(cache) /\ x.key # key
    /\ \A new : \/ Thread!TakeOr(cache, key, new) = new
                \/ /\ Thread!TakeOr(cache, key, new) \in Thread!Entries(cache) \cap R
                   /\ Thread!TakeOr(cache, key, new).key = key

LEMMA TakenHere ==
    ASSUME TwoEntries(plans, RP, MaxPlanBytes), TwoEntries(works, RW, MaxWorkBytes), NEW key
    PROVE  TakeFacts(plans, RP, MaxPlanBytes, key) /\ TakeFacts(works, RW, MaxWorkBytes, key)
<1>1. TakeFacts(plans, RP, MaxPlanBytes, key)
  <2>1. MaxPlanBytes \in Nat /\ \A r \in RP : r.bytes \in Nat
    BY BytesAreNat
  <2> QED BY <2>1, TakenIs DEF TakeFacts
<1>2. TakeFacts(works, RW, MaxWorkBytes, key)
  <2>1. MaxWorkBytes \in Nat /\ \A r \in RW : r.bytes \in Nat
    BY BytesAreNat
  <2> QED BY <2>1, TakenIs DEF TakeFacts
<1> QED BY <1>1, <1>2

(* encode_with_tables checks its resources out. *)
LEMMA BeginEncodeKeeps ==
    ASSUME ThreadIInv, NEW s \in CacheShapes, Thread!BeginEncode(s)
    PROVE  ThreadIInv'
<1>1. PICK i, j \in Nat :
        /\ i # j
        /\ MadeAs(Thread!NewPlan(s.plan), RP, i, s.plan, PlanBytes[s.plan])
        /\ MadeAs(Thread!NewWork(s.work), RW, j, s.work, WorkBytes[s.work])
        /\ \A b \in Boxes : \A y \in Box(b) : y.id # i /\ y.id # j
        /\ \A k \in 1 .. Len(stack) : \A z \in Uses(stack[k]) : z.id # i /\ z.id # j
  BY NewIds
<1>2. PICK cacheable \in BOOLEAN : cacheable = Thread!Cacheable(s.work)
  <2>1. Thread!Cacheable(s.work) \in BOOLEAN
    BY DEF Thread!Cacheable
  <2> QED BY <2>1
<1>3. PICK planned : planned = IF cacheable THEN Thread!TakeOr(plans, s.plan, Thread!NewPlan(s.plan))
                               ELSE Thread!NewPlan(s.plan)
  OBVIOUS
<1>4. PICK work : work = IF cacheable THEN Thread!TakeOr(works, s.work, Thread!NewWork(s.work))
                         ELSE Thread!NewWork(s.work)
  OBVIOUS
<1>5. PICK f : f = Thread!Frame("encode", s, planned, work, cacheable, FALSE)
  OBVIOUS
<1>6. /\ Len(stack) < Depth /\ stack' = Append(stack, f)
      /\ plans' = IF cacheable THEN Thread!Taken(plans, s.plan) ELSE plans
      /\ works' = IF cacheable THEN Thread!Taken(works, s.work) ELSE works
      /\ UNCHANGED <<ops, slot16, cache8>>
  BY <1>2, <1>3, <1>4, <1>5 DEF Thread!BeginEncode, Thread!Enter
<1>7. /\ TwoEntries(plans, RP, MaxPlanBytes) /\ TwoEntries(works, RW, MaxWorkBytes)
  BY DEF ThreadIInv, CachesOK
<1>8. /\ TwoEntries(plans', RP, MaxPlanBytes)
      /\ Thread!Entries(plans') \subseteq Thread!Entries(plans)
      /\ planned \in RP /\ planned.key = s.plan
      /\ planned.id = i \/ (planned \in Thread!Entries(plans) /\ planned \notin Thread!Entries(plans'))
  <2>1. /\ Thread!NewPlan(s.plan) \in RP
        /\ Thread!NewPlan(s.plan).id = i
        /\ Thread!NewPlan(s.plan).key = s.plan
    BY <1>1 DEF MadeAs
  <2>2. CASE cacheable
    <3>1. /\ plans' = Thread!Taken(plans, s.plan)
          /\ planned = Thread!TakeOr(plans, s.plan, Thread!NewPlan(s.plan))
      BY <1>3, <1>6, <2>2
    <3>2. /\ TwoEntries(Thread!Taken(plans, s.plan), RP, MaxPlanBytes)
          /\ \A x : x \in Thread!Entries(Thread!Taken(plans, s.plan)) <=>
                      x \in Thread!Entries(plans) /\ x.key # s.plan
      BY <1>7, TakenHere DEF TakeFacts
    <3>3. \A new : \/ Thread!TakeOr(plans, s.plan, new) = new
                  \/ /\ Thread!TakeOr(plans, s.plan, new) \in Thread!Entries(plans) \cap RP
                     /\ Thread!TakeOr(plans, s.plan, new).key = s.plan
      BY <1>7, TakenHere DEF TakeFacts
    <3>4. \/ planned = Thread!NewPlan(s.plan)
          \/ planned \in Thread!Entries(plans) \cap RP /\ planned.key = s.plan
      BY <3>1, <3>3
    <3> QED BY <2>1, <3>1, <3>2, <3>4
  <2>3. CASE ~cacheable
    BY <1>3, <1>6, <1>7, <2>1, <2>3
  <2> QED BY <2>2, <2>3
<1>9. /\ TwoEntries(works', RW, MaxWorkBytes)
      /\ Thread!Entries(works') \subseteq Thread!Entries(works)
      /\ work \in RW /\ work.key = s.work
      /\ work.id = j \/ (work \in Thread!Entries(works) /\ work \notin Thread!Entries(works'))
  <2>1. /\ Thread!NewWork(s.work) \in RW
        /\ Thread!NewWork(s.work).id = j
        /\ Thread!NewWork(s.work).key = s.work
    BY <1>1 DEF MadeAs
  <2>2. CASE cacheable
    <3>1. /\ works' = Thread!Taken(works, s.work)
          /\ work = Thread!TakeOr(works, s.work, Thread!NewWork(s.work))
      BY <1>4, <1>6, <2>2
    <3>2. /\ TwoEntries(Thread!Taken(works, s.work), RW, MaxWorkBytes)
          /\ \A x : x \in Thread!Entries(Thread!Taken(works, s.work)) <=>
                      x \in Thread!Entries(works) /\ x.key # s.work
      BY <1>7, TakenHere DEF TakeFacts
    <3>3. \A new : \/ Thread!TakeOr(works, s.work, new) = new
                  \/ /\ Thread!TakeOr(works, s.work, new) \in Thread!Entries(works) \cap RW
                     /\ Thread!TakeOr(works, s.work, new).key = s.work
      BY <1>7, TakenHere DEF TakeFacts
    <3>4. \/ work = Thread!NewWork(s.work)
          \/ work \in Thread!Entries(works) \cap RW /\ work.key = s.work
      BY <3>1, <3>3
    <3> QED BY <2>1, <3>1, <3>2, <3>4
  <2>3. CASE ~cacheable
    BY <1>4, <1>6, <1>7, <2>1, <2>3
  <2> QED BY <2>2, <2>3
<1>10. \A b \in Boxes : Box(b)' \subseteq Box(b)
  BY <1>6, <1>8, <1>9 DEF Boxes, Box
<1>11. Drawn(planned, i) /\ Drawn(work, j)
  BY <1>1, <1>8, <1>9, BoxIs DEF Drawn, Box
<1>12. planned.id # work.id
  <2>1. "plans" \in Boxes /\ "works" \in Boxes /\ "plans" # "works"
    BY DEF Boxes
  <2> QED BY <1>1, <1>8, <1>9, <2>1, BoxIs DEF ThreadIInv, BoxesApart
<1>13. /\ f.op = "encode" /\ f.shape = s /\ f.plan = planned /\ f.work = work /\ f.holds = FALSE
       /\ f \in FrameType
  BY <1>5, <1>8, <1>9 DEF Thread!Frame, FrameType
<1>14. FrameOK(f) /\ Uses(f) = {planned, work}
  BY <1>8, <1>9, <1>12, <1>13, NotNone DEF FrameOK, Uses
<1>15. CachesOK'
  BY <1>6, <1>8, <1>9 DEF ThreadIInv, CachesOK
<1>16. BoxesApart'
  BY <1>10, StillApart
<1>17. /\ \A k \in 1 .. Len(stack) : \A x \in Uses(f), z \in Uses(stack[k]) : x.id # z.id
       /\ \A b \in Boxes : \A x \in Uses(f), y \in Box(b)' : x.id # y.id
  BY <1>10, <1>11, <1>14, DrawnIsFree
<1>18. ops' = ops /\ cache8' = cache8
  BY <1>6
<1> QED BY <1>6, <1>10, <1>13, <1>14, <1>15, <1>16, <1>17, <1>18, PushKeeps

(* with_decode_buffers empties the slot. *)
LEMMA BeginDecode16Keeps ==
    ASSUME ThreadIInv, NEW s \in CacheShapes, Thread!BeginDecode16(s)
    PROVE  ThreadIInv'
<1>1. PICK j \in Nat :
        /\ MadeAs(Thread!NewWork(s.work), RW, j, s.work, WorkBytes[s.work])
        /\ \A b \in Boxes : \A y \in Box(b) : y.id # j
        /\ \A k \in 1 .. Len(stack) : \A z \in Uses(stack[k]) : z.id # j
  BY NewIds
<1>2. PICK cacheable \in BOOLEAN : cacheable = Thread!Cacheable(s.work)
  <2>1. Thread!Cacheable(s.work) \in BOOLEAN
    BY DEF Thread!Cacheable
  <2> QED BY <2>1
<1>3. PICK work : work = IF cacheable /\ slot16 # Thread!None /\ slot16.key = s.work
                         THEN slot16 ELSE Thread!NewWork(s.work)
  OBVIOUS
<1>4. PICK f : f = Thread!Frame("decode16", s, Thread!None, work, cacheable, FALSE)
  OBVIOUS
<1>5. /\ Len(stack) < Depth /\ stack' = Append(stack, f)
      /\ slot16' = IF cacheable THEN Thread!None ELSE slot16
      /\ UNCHANGED <<ops, plans, works, cache8>>
  BY <1>2, <1>3, <1>4 DEF Thread!BeginDecode16, Thread!Enter
<1>6. slot16 \in RW \cup {Thread!None} /\ Thread!Held(Thread!None) = {}
  BY DEF ThreadIInv, CachesOK, Thread!Held
<1>7. /\ work \in RW /\ work.key = s.work
      /\ work.id = j \/ (work \in Thread!Held(slot16) /\ work \notin Thread!Held(slot16'))
  BY <1>1, <1>3, <1>5, <1>6, NotNone DEF MadeAs
<1>8. \A b \in Boxes : Box(b)' \subseteq Box(b)
  BY <1>5, <1>6 DEF Boxes, Box
<1>9. Drawn(work, j)
  BY <1>1, <1>7, BoxIs DEF Drawn, Box
<1>10. /\ f.op = "decode16"
       /\ f.shape = s
       /\ f.plan = Thread!None
       /\ f.work = work
       /\ f.holds = FALSE
       /\ f \in FrameType
  BY <1>4, <1>7 DEF Thread!Frame, FrameType
<1>11. FrameOK(f) /\ Uses(f) = {work}
  BY <1>6, <1>7, <1>10, NotNone DEF FrameOK, Uses
<1>12. CachesOK'
  BY <1>5, <1>6 DEF ThreadIInv, CachesOK
<1>13. BoxesApart'
  BY <1>8, StillApart
<1>14. /\ \A k \in 1 .. Len(stack) : \A x \in Uses(f), z \in Uses(stack[k]) : x.id # z.id
       /\ \A b \in Boxes : \A x \in Uses(f), y \in Box(b)' : x.id # y.id
  BY <1>8, <1>9, <1>11, DrawnIsFree
<1>15. ops' = ops /\ cache8' = cache8
  BY <1>5
<1> QED BY <1>5, <1>8, <1>10, <1>11, <1>12, <1>13, <1>14, <1>15, PushKeeps

(* The innermost operation. *)
LEMMA TopIs ==
    ASSUME ThreadIInv, stack # <<>>
    PROVE  /\ Thread!Top \in FrameType /\ FrameOK(Thread!Top)
           /\ Len(stack) \in 1 .. Len(stack) /\ Thread!Top = stack[Len(stack)]
  BY StackIs DEF ThreadIInv, StackOK, Thread!Top

(* What an operation returns that has borrowed nothing is in no cache yet. *)
LEMMA ReturnApart ==
    ASSUME ThreadIInv, stack # <<>>, ~Thread!Top.holds,
           \A b \in Boxes : \A y \in Box(b)' :
              y \in Box(b) \/ \E x \in Uses(Thread!Top) : y.id = x.id,
           \A a, b \in Boxes : \A x \in Box(a)' \ Box(a), y \in Box(b)' \ Box(b) :
              x.id = y.id => a = b /\ x = y
    PROVE  BoxesApart'
<1>1. ASSUME NEW b \in Boxes, NEW y \in Box(b)' \ Box(b), NEW a \in Boxes, NEW x \in Box(a)
      PROVE  x.id # y.id
  <2>1. PICK z \in Uses(Thread!Top) : y.id = z.id
    OBVIOUS
  <2>2. z.id # x.id
    BY TopIs DEF ThreadIInv, Loans
  <2> QED BY <2>1, <2>2
<1>2. ASSUME NEW a \in Boxes, NEW b \in Boxes, NEW x \in Box(a)', NEW y \in Box(b)', x.id = y.id
      PROVE  a = b /\ x = y
  <2>1. CASE x \in Box(a) /\ y \in Box(b)
    BY <1>2, <2>1 DEF ThreadIInv, BoxesApart
  <2>2. CASE x \in Box(a) /\ y \notin Box(b)
    BY <1>1, <1>2, <2>2
  <2>3. CASE x \notin Box(a) /\ y \in Box(b)
    BY <1>1, <1>2, <2>3
  <2>4. CASE x \notin Box(a) /\ y \notin Box(b)
    BY <1>2, <2>4
  <2> QED BY <2>1, <2>2, <2>3, <2>4
<1> QED BY <1>2 DEF BoxesApart

(* The resources of an encoding come back, grown perhaps. *)
LEMMA EndEncodeKeeps ==
    ASSUME ThreadIInv, NEW grown \in Growth, Thread!EndEncode(grown)
    PROVE  ThreadIInv'
<1>1. PICK f : f = Thread!Top
  OBVIOUS
<1>2. /\ stack # <<>> /\ f.op = "encode" /\ f \in FrameType /\ FrameOK(f)
      /\ f.plan \in RP /\ f.work \in RW /\ ~f.holds /\ f.plan.id # f.work.id
      /\ f.plan \in Uses(f) /\ f.work \in Uses(f)
  <2>1. stack # <<>> /\ f.op = "encode" /\ f \in FrameType /\ FrameOK(f)
    BY <1>1, TopIs DEF Thread!EndEncode
  <2>2. f.plan \in RP /\ f.work \in RW /\ ~f.holds
    BY <2>1 DEF FrameOK, FrameType
  <2> QED BY <2>1, <2>2, NotNone DEF FrameOK, Uses
<1>3. PICK r : r = [f.work EXCEPT !.bytes = WorkBytes[f.work.key] + grown]
  OBVIOUS
<1>4. r \in RW /\ r.id = f.work.id
  <2>1. PICK w \in RW : w = f.work
    BY <1>2
  <2>2. WorkBytes[w.key] \in Nat /\ grown \in Nat
    BY <2>1, ThreadAssumption DEF Thread!CacheAssumption, RW, Thread!ResourceType
  <2>3. WorkBytes[w.key] + grown \in Nat
    BY <2>2
  <2> QED BY <1>3, <2>1, <2>3 DEF RW, Thread!ResourceType
<1>5. /\ stack' = Thread!Pop /\ UNCHANGED <<ops, slot16, cache8>>
      /\ works' = IF f.cacheable THEN Thread!Inserted(works, r, MaxWorkBytes) ELSE works
      /\ plans' = IF f.cacheable THEN Thread!Inserted(plans, f.plan, MaxPlanBytes) ELSE plans
  BY <1>1, <1>3 DEF Thread!EndEncode
<1>6. TwoEntries(plans, RP, MaxPlanBytes) /\ TwoEntries(works, RW, MaxWorkBytes)
  BY DEF ThreadIInv, CachesOK
<1>7. /\ TwoEntries(plans', RP, MaxPlanBytes)
      /\ Thread!Entries(plans') \subseteq Thread!Entries(plans) \cup {f.plan}
  BY <1>2, <1>5, <1>6, InsertedIs, BytesAreNat
<1>8. /\ TwoEntries(works', RW, MaxWorkBytes)
      /\ Thread!Entries(works') \subseteq Thread!Entries(works) \cup {r}
  BY <1>4, <1>5, <1>6, InsertedIs, BytesAreNat
<1>9. CachesOK'
  BY <1>5, <1>7, <1>8 DEF ThreadIInv, CachesOK
<1>10. \A b \in Boxes : \A y \in Box(b)' :
         y \in Box(b) \/ (b = "plans" /\ y = f.plan) \/ (b = "works" /\ y = r)
  BY <1>5, <1>7, <1>8 DEF Boxes, Box
<1>11. \A b \in Boxes : \A y \in Box(b)' : y \in Box(b) \/ \E x \in Uses(f) : y.id = x.id
  BY <1>2, <1>4, <1>10
<1>12. \A a, b \in Boxes : \A x \in Box(a)' \ Box(a), y \in Box(b)' \ Box(b) :
         x.id = y.id => a = b /\ x = y
  BY <1>2, <1>4, <1>10
<1>13. BoxesApart'
  BY <1>1, <1>2, <1>11, <1>12, ReturnApart
<1>14. ops' = ops /\ cache8' = cache8
  BY <1>5
<1> QED BY <1>1, <1>2, <1>5, <1>9, <1>11, <1>13, <1>14, PopKeeps

(* The workspace of a GF(2^16) decoding comes back. *)
LEMMA EndDecode16Keeps == ASSUME ThreadIInv, Thread!EndDecode16 PROVE ThreadIInv'
<1>1. PICK f : f = Thread!Top
  OBVIOUS
<1>2. /\ stack # <<>> /\ f.op = "decode16" /\ f \in FrameType /\ f.work \in RW /\ ~f.holds
      /\ f.work \in Uses(f)
  <2>1. stack # <<>> /\ f.op = "decode16" /\ f \in FrameType /\ FrameOK(f)
    BY <1>1, TopIs DEF Thread!EndDecode16
  <2>2. f.work \in RW /\ ~f.holds
    BY <2>1 DEF FrameOK, FrameType
  <2> QED BY <2>1, <2>2, NotNone DEF Uses
<1>3. /\ stack' = Thread!Pop /\ UNCHANGED <<ops, plans, works, cache8>>
      /\ slot16' = slot16 \/ (slot16' = f.work /\ f.work.bytes <= MaxWorkBytes)
  BY <1>1 DEF Thread!EndDecode16, Thread!Fits
<1>4. \A y \in Thread!Held(slot16') : y \in Thread!Held(slot16) \/ (y = f.work /\ y.bytes <= MaxWorkBytes)
  BY <1>2, <1>3, NotNone
<1>5. slot16' \in RW \cup {Thread!None} /\ \A y \in Thread!Held(slot16') : y.bytes <= MaxWorkBytes
  BY <1>2, <1>3, <1>4 DEF ThreadIInv, CachesOK
<1>6. CachesOK'
  BY <1>3, <1>5 DEF ThreadIInv, CachesOK
<1>7. \A b \in Boxes : \A y \in Box(b)' : y \in Box(b) \/ (b = "slot16" /\ y = f.work)
  BY <1>3, <1>4 DEF Boxes, Box
<1>8. \A b \in Boxes : \A y \in Box(b)' : y \in Box(b) \/ \E x \in Uses(f) : y.id = x.id
  BY <1>2, <1>7
<1>9. BoxesApart'
  BY <1>1, <1>2, <1>7, <1>8, ReturnApart
<1>10. ops' = ops /\ cache8' = cache8
  BY <1>3
<1> QED BY <1>1, <1>2, <1>3, <1>6, <1>8, <1>9, <1>10, PopKeeps

(* The borrow ends, by a return or by a panic. *)
LEMMA ReleaseKeeps == ASSUME ThreadIInv, Thread!EndDecode8 \/ Thread!Unwind PROVE ThreadIInv'
<1>1. /\ stack # <<>> /\ stack' = Thread!Pop /\ UNCHANGED <<ops, plans, works, slot16>>
      /\ cache8' = IF Thread!Top.holds THEN [cache8 EXCEPT !.borrowed = FALSE] ELSE cache8
  BY DEF Thread!EndDecode8, Thread!Unwind
<1>2. PICK c : c = cache8
  OBVIOUS
<1>3. c \in [borrowed : BOOLEAN, plan : RP \cup {Thread!None}, work : RW \cup {Thread!None}]
  BY <1>2 DEF ThreadIInv, CachesOK
<1>4. /\ cache8' \in [borrowed : BOOLEAN, plan : RP \cup {Thread!None}, work : RW \cup {Thread!None}]
      /\ cache8'.plan = cache8.plan /\ cache8'.work = cache8.work
      /\ cache8'.borrowed <=> cache8.borrowed /\ ~Thread!Top.holds
  BY <1>1, <1>2, <1>3
<1>5. CachesOK'
  BY <1>1, <1>4 DEF ThreadIInv, CachesOK
<1>6. \A b \in Boxes : Box(b)' \subseteq Box(b)
  BY <1>1, <1>4 DEF Boxes, Box
<1>7. BoxesApart'
  BY <1>6, StillApart
<1>8. ops' = ops
  BY <1>1
<1> QED BY <1>1, <1>4, <1>5, <1>6, <1>7, <1>8, PopKeeps

(* with_decode_resources: nested, above the budget, or borrowing. *)
LEMMA BeginDecode8Keeps ==
    ASSUME ThreadIInv, NEW s \in CacheShapes, Thread!BeginDecode8(s)
    PROVE  ThreadIInv'
<1>1. PICK i, j \in Nat :
        /\ i # j
        /\ MadeAs(Thread!NewPlan(s.plan), RP, i, s.plan, PlanBytes[s.plan])
        /\ MadeAs(Thread!NewWork(s.work), RW, j, s.work, WorkBytes[s.work])
        /\ \A b \in Boxes : \A y \in Box(b) : y.id # i /\ y.id # j
        /\ \A k \in 1 .. Len(stack) : \A z \in Uses(stack[k]) : z.id # i /\ z.id # j
  BY NewIds
<1>2. PICK c : c = cache8
  OBVIOUS
<1>3. c \in [borrowed : BOOLEAN, plan : RP \cup {Thread!None}, work : RW \cup {Thread!None}] /\ Thread!Held(Thread!None) = {}
  BY <1>2 DEF ThreadIInv, CachesOK, Thread!Held
<1>4. UNCHANGED <<ops, plans, works, slot16>> /\ Len(stack) < Depth
  BY DEF Thread!BeginDecode8
<1>5. ASSUME NEW holds \in BOOLEAN, holds => ~cache8.borrowed,
             stack' = Append(stack, Thread!Frame("decode8", s, Thread!NewPlan(s.plan),
                                                 Thread!NewWork(s.work), FALSE, holds)),
             cache8'.plan = c.plan, cache8'.work = c.work,
             cache8' \in [borrowed : BOOLEAN, plan : RP \cup {Thread!None}, work : RW \cup {Thread!None}],
             cache8'.borrowed <=> cache8.borrowed \/ holds
      PROVE  ThreadIInv'
  <2>1. PICK f : f = Thread!Frame("decode8", s, Thread!NewPlan(s.plan), Thread!NewWork(s.work), FALSE, holds)
    OBVIOUS
  <2>2. PICK planned, work : planned = Thread!NewPlan(s.plan) /\ work = Thread!NewWork(s.work)
    OBVIOUS
  <2>3. /\ planned \in RP /\ planned.id = i /\ planned.key = s.plan
        /\ work \in RW /\ work.id = j /\ work.key = s.work
    BY <1>1, <2>2 DEF MadeAs
  <2>4. /\ f.op = "decode8"
        /\ f.shape = s
        /\ f.plan = planned
        /\ f.work = work
        /\ f.holds = holds
        /\ f \in FrameType
    BY <2>1, <2>2, <2>3 DEF Thread!Frame, FrameType
  <2>5. FrameOK(f) /\ Uses(f) = {planned, work}
    BY <1>1, <2>3, <2>4, NotNone DEF FrameOK, Uses
  <2>6. \A b \in Boxes : Box(b)' \subseteq Box(b)
    BY <1>2, <1>4, <1>5 DEF Boxes, Box
  <2>7. CachesOK'
    BY <1>2, <1>4, <1>5 DEF ThreadIInv, CachesOK
  <2>8. BoxesApart'
    BY <2>6, StillApart
  <2>9. /\ \A k \in 1 .. Len(stack) : \A x \in Uses(f), z \in Uses(stack[k]) : x.id # z.id
        /\ \A b \in Boxes : \A x \in Uses(f), y \in Box(b)' : x.id # y.id
    BY <1>1, <2>3, <2>5, <2>6
  <2>10. stack' = Append(stack, f) /\ ops' = ops /\ (cache8'.borrowed <=> cache8.borrowed \/ f.holds)
         /\ (f.holds => ~cache8.borrowed)
    BY <1>4, <1>5, <2>1, <2>4
  <2> QED BY <1>4, <2>4, <2>5, <2>6, <2>7, <2>8, <2>9, <2>10, PushKeeps
<1>6. CASE cache8.borrowed
  <2>1. /\ stack' = Append(stack, Thread!Frame("decode8", s, Thread!NewPlan(s.plan),
                                               Thread!NewWork(s.work), FALSE, FALSE))
        /\ cache8' = cache8
    BY <1>6 DEF Thread!BeginDecode8, Thread!BorrowTaken, Thread!Enter
  <2> QED BY <1>2, <1>3, <1>5, <2>1
<1> DEFINE plan_fits == Thread!Matches(cache8.plan, s.plan) \/ Thread!Fits(PlanBytes[s.plan], MaxPlanBytes)
           work_fits == Thread!Matches(cache8.work, s.work) \/ Thread!Fits(WorkBytes[s.work], MaxWorkBytes)
<1>7. CASE ~cache8.borrowed /\ ~plan_fits
  <2>1. /\ stack' = Append(stack, Thread!Frame("decode8", s, Thread!NewPlan(s.plan),
                                               Thread!NewWork(s.work), FALSE, TRUE))
        /\ cache8' = [cache8 EXCEPT !.borrowed = TRUE]
    BY <1>7 DEF Thread!BeginDecode8, Thread!BorrowTaken, Thread!Enter
  <2>2. /\ cache8' \in [borrowed : BOOLEAN, plan : RP \cup {Thread!None}, work : RW \cup {Thread!None}]
        /\ cache8'.plan = c.plan /\ cache8'.work = c.work /\ cache8'.borrowed
    BY <1>2, <1>3, <2>1
  <2> QED BY <1>5, <1>7, <2>1, <2>2
<1>8. CASE ~cache8.borrowed /\ plan_fits
  <2>1. PICK planned : planned = IF Thread!Matches(c.plan, s.plan) THEN c.plan
                                 ELSE Thread!NewPlan(s.plan)
    OBVIOUS
  <2>2. PICK work : work = IF Thread!Matches(c.work, s.work) THEN c.work ELSE Thread!NewWork(s.work)
    OBVIOUS
  <2>3. PICK f : f = Thread!Frame("decode8", s, planned, work, TRUE, TRUE)
    OBVIOUS
  <2>4. /\ stack' = Append(stack, f)
        /\ cache8' = [borrowed |-> TRUE, plan |-> planned, work |-> IF work_fits THEN work ELSE c.work]
    BY <1>2, <1>8, <2>1, <2>2, <2>3 DEF Thread!BeginDecode8, Thread!BorrowTaken, Thread!Enter
  <2>5. /\ planned \in RP /\ planned.key = s.plan /\ planned.bytes <= MaxPlanBytes
        /\ planned.id = i \/ planned \in Thread!Held(c.plan)
    <3>1. CASE Thread!Matches(c.plan, s.plan)
      <4>1. planned = c.plan /\ planned \in RP /\ planned.key = s.plan
        BY <1>3, <2>1, <3>1 DEF Thread!Matches
      <4> QED BY <1>2, <4>1, NotNone DEF ThreadIInv, CachesOK
    <3>2. CASE ~Thread!Matches(c.plan, s.plan)
      BY <1>1, <1>2, <1>8, <2>1, <3>2 DEF MadeAs, Thread!Fits
    <3> QED BY <3>1, <3>2
  <2>6. /\ work \in RW /\ work.key = s.work /\ (work_fits => work.bytes <= MaxWorkBytes)
        /\ work.id = j \/ work \in Thread!Held(c.work)
    <3>1. CASE Thread!Matches(c.work, s.work)
      <4>1. work = c.work /\ work \in RW /\ work.key = s.work
        BY <1>3, <2>2, <3>1 DEF Thread!Matches
      <4> QED BY <1>2, <4>1, NotNone DEF ThreadIInv, CachesOK
    <3>2. CASE ~Thread!Matches(c.work, s.work)
      BY <1>1, <1>2, <2>2, <3>2 DEF MadeAs, Thread!Fits
    <3> QED BY <3>1, <3>2
  <2>7. PICK kept : kept = IF work_fits THEN work ELSE c.work
    OBVIOUS
  <2>8. /\ kept \in RW \cup {Thread!None} /\ \A r \in Thread!Held(kept) : r.bytes <= MaxWorkBytes
        /\ \A r \in Thread!Held(kept) : r \in Thread!Held(c.work) \/ (r = work /\ work.id = j)
    <3>1. CASE work_fits
      BY <2>6, <2>7, <3>1, NotNone
    <3>2. CASE ~work_fits
      BY <1>2, <1>3, <2>7, <3>2 DEF ThreadIInv, CachesOK
    <3> QED BY <3>1, <3>2
  <2>9. cache8' = [borrowed |-> TRUE, plan |-> planned, work |-> kept]
    BY <2>4, <2>7
  <2> HIDE DEF plan_fits, work_fits
  <2>10. /\ cache8' \in [borrowed : BOOLEAN, plan : RP \cup {Thread!None}, work : RW \cup {Thread!None}]
         /\ cache8'.borrowed /\ cache8'.plan = planned /\ cache8'.work = kept
    BY <2>5, <2>8, <2>9
  <2>11. CachesOK'
    BY <1>4, <2>5, <2>8, <2>10, NotNone DEF ThreadIInv, CachesOK
  <2>12. \A b \in Boxes : \A y \in Box(b)' :
           \/ y \in Box(b)
           \/ b = "plan8" /\ y = planned /\ y.id = i
           \/ b = "work8" /\ y = work /\ y.id = j
    BY <1>2, <1>4, <2>5, <2>8, <2>10, NotNone DEF Boxes, Box
  <2>13. /\ planned.id = i \/ planned \in Box("plan8")
         /\ work.id = j \/ work \in Box("work8")
         /\ "plan8" \in Boxes /\ "work8" \in Boxes /\ "plan8" # "work8"
    BY <1>2, <2>5, <2>6, BoxIs DEF Boxes
  <2>14. planned.id # work.id
    BY <1>1, <2>13 DEF ThreadIInv, BoxesApart
  <2>15. BoxesApart'
    <3>1. ASSUME NEW a \in Boxes, NEW b \in Boxes, NEW x \in Box(a)', NEW y \in Box(b)', x.id = y.id
          PROVE  a = b /\ x = y
      <4>1. CASE x \in Box(a) /\ y \in Box(b)
        BY <3>1, <4>1 DEF ThreadIInv, BoxesApart
      <4>2. CASE ~(x \in Box(a) /\ y \in Box(b))
        BY <1>1, <2>12, <3>1, <4>2
      <4> QED BY <4>1, <4>2
    <3> QED BY <3>1 DEF BoxesApart
  <2>16. /\ f.op = "decode8"
         /\ f.shape = s
         /\ f.plan = planned
         /\ f.work = work
         /\ f.holds = TRUE
         /\ f \in FrameType
    BY <2>3, <2>5, <2>6 DEF Thread!Frame, FrameType
  <2>17. FrameOK(f) /\ Uses(f) = {planned, work}
    BY <2>5, <2>6, <2>14, <2>16, NotNone DEF FrameOK, Uses
  <2>18. \A b \in Boxes : \A y \in Box(b)' : y \in Box(b) \/ y \in Uses(f)
    BY <2>12, <2>17
  <2>19. \A k \in 1 .. Len(stack) : \A x \in Uses(f), z \in Uses(stack[k]) : x.id # z.id
    <3>1. \A k \in 1 .. Len(stack) : ~stack[k].holds
      BY <1>8 DEF ThreadIInv, BorrowOK
    <3>2. \A k \in 1 .. Len(stack), b \in Boxes : \A z \in Uses(stack[k]), y \in Box(b) : z.id # y.id
      BY <3>1 DEF ThreadIInv, Loans
    <3> QED BY <1>1, <2>13, <2>17, <3>2
  <2>20. \A b \in Boxes : \A x \in Uses(f), y \in Box(b)' :
            x.id = y.id => f.holds /\ b \in {"plan8", "work8"}
    <3> SUFFICES ASSUME NEW b \in Boxes, NEW x \in Uses(f), NEW y \in Box(b)', x.id = y.id
                 PROVE  b \in {"plan8", "work8"}
      BY <2>16
    <3>1. CASE y \in Box(b)
      <4>1. x.id # i /\ x.id # j
        BY <1>1, <3>1
      <4>2. x \in Box("plan8") \/ x \in Box("work8")
        BY <2>13, <2>17, <4>1
      <4> QED BY <2>13, <3>1, <4>2 DEF ThreadIInv, BoxesApart
    <3>2. CASE y \notin Box(b)
      BY <2>12, <3>2
    <3> QED BY <3>1, <3>2
  <2>21. ops' = ops
    BY <1>4
  <2> QED BY <1>4, <1>8, <2>4, <2>10, <2>11, <2>15, <2>16, <2>17, <2>18, <2>19, <2>20, <2>21, PushKeeps
<1> QED BY <1>6, <1>7, <1>8

(* Empty caches and an empty stack. *)
LEMMA ThreadInit == Thread!Init => ThreadIInv
<1> SUFFICES ASSUME Thread!Init PROVE ThreadIInv
  OBVIOUS
<1>1. Len(stack) = 0 /\ stack \in Seq(FrameType) /\ 1 .. Len(stack) = {}
  BY EmptySeq DEF Thread!Init
<1>2. Thread!Held(Thread!None) = {} /\ Thread!Entries(<<>>) = {}
  BY DEF Thread!Held, Thread!Entries
<1>3. cache8 = [borrowed |-> FALSE, plan |-> Thread!None, work |-> Thread!None]
  BY DEF Thread!Init
<1>4. TwoEntries(plans, RP, MaxPlanBytes) /\ TwoEntries(works, RW, MaxWorkBytes)
  BY EmptySeq DEF Thread!Init, TwoEntries
<1>5. CachesOK
  BY <1>2, <1>3, <1>4 DEF Thread!Init, CachesOK
<1>6. \A b \in Boxes : Box(b) = {}
  BY <1>2, <1>3 DEF Boxes, Box, Thread!Init
<1>7. StackOK /\ BorrowOK
  BY <1>1, <1>3, ThreadAssumption DEF Thread!Init, StackOK, BorrowOK, Thread!CacheAssumption
<1>8. BoxesApart /\ FramesApart /\ Loans
  BY <1>1, <1>6 DEF BoxesApart, FramesApart, Loans
<1> QED BY <1>5, <1>7, <1>8 DEF ThreadIInv

(* The invariant is inductive, and says what the caches promise. *)
LEMMA ThreadInductive == ThreadIInv /\ [Thread!Next]_(Thread!vars) => ThreadIInv'
<1> SUFFICES ASSUME ThreadIInv, [Thread!Next]_(Thread!vars) PROVE ThreadIInv'
  OBVIOUS
<1>1. CASE Thread!Next
  BY <1>1, BeginEncodeKeeps, EndEncodeKeeps, BeginDecode16Keeps, EndDecode16Keeps,
     BeginDecode8Keeps, ReleaseKeeps DEF Thread!Next
<1>2. CASE UNCHANGED Thread!vars
  <2>1. \A b \in Boxes : Box(b)' = Box(b)
    BY <1>2 DEF Thread!vars, Boxes, Box
  <2> QED BY <1>2, <2>1
         DEF Thread!vars, ThreadIInv, CachesOK, StackOK, BorrowOK, BoxesApart, FramesApart, Loans
<1> QED BY <1>1, <1>2

LEMMA ThreadMeans == ThreadIInv => Thread!OneUser /\ Thread!OwnShape
<1> SUFFICES ASSUME ThreadIInv PROVE Thread!OneUser /\ Thread!OwnShape
  OBVIOUS
<1>1. /\ DOMAIN stack = 1 .. Len(stack) /\ \A k \in 1 .. Len(stack) : stack[k] \in FrameType
      /\ \A k \in 1 .. Len(stack) : FrameOK(stack[k])
  BY StackIs DEF ThreadIInv, StackOK
<1>2. Thread!OwnShape
  <2>1. ASSUME NEW k \in 1 .. Len(stack)
        PROVE  /\ stack[k].work.key = stack[k].shape.work
               /\ stack[k].plan # Thread!None => stack[k].plan.key = stack[k].shape.plan
    BY <1>1 DEF FrameOK
  <2> QED BY <1>1, <2>1 DEF Thread!OwnShape
<1>3. \A k \in 1 .. Len(stack) :
         /\ stack[k].work \in Uses(stack[k])
         /\ stack[k].plan # Thread!None => stack[k].plan \in Uses(stack[k])
  <2>1. \A k \in 1 .. Len(stack) : stack[k].work \in RW
    BY <1>1 DEF FrameType
  <2> QED BY <2>1, NotNone DEF Uses, Thread!Held
<1>4. \A x : x \in Thread!InCaches <=> \E b \in Boxes : x \in Box(b)
  BY DEF Thread!InCaches, Boxes, Box
<1>5. \A k \in DOMAIN stack : \A r \in Thread!Held(stack[k].plan) \cup Thread!Held(stack[k].work) :
         (\E x \in Thread!InCaches : x.id = r.id) => stack[k].op = "decode8" /\ stack[k].holds
  <2> SUFFICES ASSUME NEW k \in 1 .. Len(stack), NEW r \in Uses(stack[k]),
                      NEW x \in Thread!InCaches, x.id = r.id
               PROVE  stack[k].op = "decode8" /\ stack[k].holds
    BY <1>1 DEF Uses
  <2>1. PICK b \in Boxes : x \in Box(b)
    BY <1>4
  <2>2. stack[k].holds
    BY <2>1 DEF ThreadIInv, Loans
  <2> QED BY <1>1, <2>2 DEF FrameOK
<1>6. \A j, k \in DOMAIN stack : j # k =>
         /\ stack[j].work.id # stack[k].work.id
         /\ stack[j].plan # Thread!None /\ stack[k].plan # Thread!None => stack[j].plan.id # stack[k].plan.id
  <2> SUFFICES ASSUME NEW j \in 1 .. Len(stack), NEW k \in 1 .. Len(stack), j # k
               PROVE  /\ stack[j].work.id # stack[k].work.id
                      /\ stack[j].plan # Thread!None /\ stack[k].plan # Thread!None =>
                           stack[j].plan.id # stack[k].plan.id
    BY <1>1
  <2>1. \A x \in Uses(stack[j]), y \in Uses(stack[k]) : x.id # y.id
    BY DEF ThreadIInv, FramesApart
  <2>2. stack[j].work.id # stack[k].work.id
    <3>1. stack[j].work \in Uses(stack[j]) /\ stack[k].work \in Uses(stack[k])
      BY <1>3
    <3> QED BY <2>1, <3>1, Zenon
  <2>3. ASSUME stack[j].plan # Thread!None, stack[k].plan # Thread!None
        PROVE  stack[j].plan.id # stack[k].plan.id
    <3>1. stack[j].plan \in Uses(stack[j]) /\ stack[k].plan \in Uses(stack[k])
      BY <1>3, <2>3
    <3> QED BY <2>1, <3>1, Zenon
  <2> QED BY <2>2, <2>3
<1>7. Thread!OneUser
  BY <1>1, <1>5, <1>6 DEF ThreadIInv, BorrowOK, Thread!OneUser
<1> QED BY <1>2, <1>7

(* The bytes of the first k entries, for every k. *)

(* The recursive sum of a two-entry cache is within the budget. *)
LEMMA BytesFit ==
    ASSUME NEW R, NEW max \in Nat, NEW cache, TwoEntries(cache, R, max),
           \A r \in R : r.bytes \in Nat
    PROVE  Thread!CachedBytes(cache) <= max
<1>1. /\ cache \in Seq(R) /\ Len(cache) \in {0, 1, 2}
      /\ Len(cache) \in {1, 2} => cache[1].bytes \in Nat
      /\ Len(cache) = 2 => cache[2].bytes \in Nat
  BY SeqOfTwo DEF TwoEntries
<1> DEFINE f == [k \in 0 .. Len(cache) |->
                   IF k = 0 THEN 0
                   ELSE IF k = 1 THEN cache[1].bytes ELSE cache[1].bytes + cache[2].bytes]
<1>2. Sums(f, cache)
  <2>1. \A k \in 0 .. Len(cache) : f[k] \in Nat
    BY <1>1
  <2>2. \A k \in 1 .. Len(cache) : f[k] = f[k - 1] + cache[k].bytes
    BY <1>1
  <2>3. f[0] = 0
    BY <1>1
  <2> QED BY <2>1, <2>2, <2>3 DEF Sums
<1>3. f[Len(cache)] <= max
  BY <1>1 DEF TwoEntries
<1>4. Thread!CachedBytes(cache) = f[Len(cache)]
  <2>1. Len(cache) \in Nat
    BY <1>1
  <2> HIDE DEF f
  <2> QED BY <1>2, <2>1, SumIs, SameSum
<1> QED BY <1>3, <1>4

LEMMA ThreadBounded == ThreadIInv => Thread!BudgetsRespected
<1> SUFFICES ASSUME ThreadIInv PROVE Thread!BudgetsRespected
  OBVIOUS
<1>1. TwoEntries(plans, RP, MaxPlanBytes) /\ TwoEntries(works, RW, MaxWorkBytes)
  BY DEF ThreadIInv, CachesOK
<1>2. \A cache \in {plans, works} : Len(cache) = 2 => cache[1].key # cache[2].key
  BY <1>1 DEF TwoEntries
<1>3. Thread!CachedBytes(plans) <= MaxPlanBytes /\ Thread!CachedBytes(works) <= MaxWorkBytes
  BY <1>1, BytesFit, BytesAreNat
<1> QED BY <1>2, <1>3 DEF Thread!BudgetsRespected, ThreadIInv, CachesOK

-----------------------------------------------------------------------------
(***************************************************************************)
(* The behaviours of the run.                                              *)
(***************************************************************************)
LEMMA CachesInvariant == MCSpec => [](ThreadIInv /\ PlanIInv)
<1>1. MCInit => ThreadIInv /\ PlanIInv
  BY ThreadInit, PlanInit DEF MCInit
<1>2. ASSUME ThreadIInv, PlanIInv, [MCNext]_<<subject, vars, threadVars, globalVars>>
      PROVE  ThreadIInv' /\ PlanIInv'
  <2>1. [Thread!Next]_(Thread!vars)
    BY <1>2 DEF MCNext, threadVars, Thread!vars
  <2>2. [Global!Next]_(Global!vars)
    BY <1>2 DEF MCNext, globalVars, Global!vars
  <2> QED BY <1>2, <2>1, <2>2, ThreadInductive, PlanInductive
<1> QED BY <1>1, <1>2, PTL DEF MCSpec

(* On one thread, however operations nest, end and unwind, an allocation   *)
(* has one user, of the shape it was made for, and the GF(2^8) decode      *)
(* cache is borrowed exactly while an operation holds it; and a thread     *)
(* that races others through the process-wide plan cache decodes with the  *)
(* plan of its own shard counts and erasures, whoever built it.            *)
THEOREM ResourcesAreOwn == MCSpec => []OwnResources
<1>1. ThreadIInv /\ PlanIInv => OwnResources
  BY ThreadMeans, PlanMeans DEF OwnResources
<1> QED BY <1>1, CachesInvariant, PTL

(* Whatever the budgets, the scratch that grew while it was checked out    *)
(* and the racing insertions: no cache holds more than its budget or two   *)
(* entries of one key, and the plan cache's byte counter is the sum over   *)
(* its entries.                                                            *)
THEOREM CachesStayBounded == MCSpec => []CachesBounded
<1>1. ThreadIInv /\ PlanIInv => CachesBounded
  BY ThreadBounded, PlanMeans DEF CachesBounded
<1> QED BY <1>1, CachesInvariant, PTL
=============================================================================
