----------------------- MODULE ClassicReconstructProofs -----------------------
(***************************************************************************)
(* Proofs about ClassicReconstruct, for every array, codec format, mask,   *)
(* inline capacity and number of edits and calls: what is present is right *)
(* at every moment, success restores exactly what was asked for, failure   *)
(* exactly the part before the destination that refused; and, at the end,  *)
(* about ProgressiveDecode, for every codec, erasure and split of its work *)
(* into workers and batches: no term is lost, none is added twice.         *)
(*                                                                         *)
(* The invariant says that the plan that runs is the plan of the array the *)
(* call began with, and that the array is that one with the first of the   *)
(* wanted shards restored.  It rests on the order of shard indices: the    *)
(* survivors collected inline and those read off the erasures are the      *)
(* first present shards, and merging the recovered data into the survivor  *)
(* views from the back gives the data shards in order.                     *)
(***************************************************************************)
EXTENDS MCClassicReconstruct, SequenceTheorems, FiniteSetTheorems, WellFoundedInduction, TLAPS

(* The requested data and parity shards. *)
DataTargets(c, sh, goal) == {i \in Missing(sh) : i < c.data /\ Requested(goal, i)}
ParityTargets(c, sh, goal) ==
    {i \in Missing(sh) : ~ (i < c.data) /\ goal.kind # "Data" /\ Requested(goal, i)}

(* A call that planning accepts. *)
Task(c, sh, goal) ==
    /\ c \in Codecs /\ Total(c) = ShardCount
    /\ sh \in [Shards -> ShardStates]
    /\ goal \in Goals
    /\ \A i \in Present(sh) : sh[i].len = FirstLength(sh) /\ sh[i].right
    /\ c.data <= Cardinality(Present(sh))

(* The array when the first m of the wanted shards were restored. *)
Restoration(sh) == [present |-> TRUE, len |-> FirstLength(sh), right |-> TRUE]
After(c, sh, goal, m) ==
    [i \in Shards |-> IF i \in Wanted(c, sh, goal) /\ Rank(Wanted(c, sh, goal), i) < m
                        THEN Restoration(sh) ELSE sh[i]]

(* A workspace holds the plan of an array it was once prepared for. *)
Prepared ==
    workspace # NoPlan =>
      /\ workspace.goal \in Goals /\ workspace.plan.codec \in Codecs
      /\ \E sh \in [Shards -> ShardStates] :
            /\ workspace.plan.codec.data <= Cardinality(Present(sh))
            /\ workspace.plan = PlanOf(workspace.plan.codec, sh, workspace.goal)

(* The executor runs the plan of the array the call began with, and has    *)
(* restored the wanted shards up to the next output.                       *)
Running(finished, targets, inputs) ==
    /\ Task(codec, before.shards, before.goal)
    /\ Wanted(codec, before.shards, before.goal) # {}
    /\ run.next \in 1 .. Cardinality(targets) + 1
    /\ run = [plan |-> PlanOf(codec, before.shards, before.goal), inputs |-> inputs,
              next |-> run.next]
    /\ shards = After(codec, before.shards, before.goal, finished + (run.next - 1))
    /\ result = "none"

InData ==
    Running(0, DataTargets(codec, before.shards, before.goal), run.plan.valid_indices)

InParity ==
    /\ Running(Cardinality(DataTargets(codec, before.shards, before.goal)),
               ParityTargets(codec, before.shards, before.goal), ParityInputs(run.plan))
    /\ ParityTargets(codec, before.shards, before.goal) # {}

(* What a call that succeeded has done. *)
Succeeded ==
    result = "Ok" =>
      \A i \in Shards : IF i \in Wanted(codec, before.shards, before.goal)
                          THEN Restored(i) ELSE shards[i] = before.shards[i]

(* The inductive invariant. *)
IInv ==
    /\ TypeOK /\ PresentIsRight /\ Prepared
    /\ pc = "data" => InData
    /\ pc = "parity" => InParity
    /\ Succeeded /\ FailureRestoresAPrefix

-----------------------------------------------------------------------------
(***************************************************************************)
(* Sets of shard indices in shard order.                                   *)
(***************************************************************************)

(* A set of naturals has a least element. *)
LEMMA MinIsLeast ==
    ASSUME NEW S \in SUBSET Nat, S # {}
    PROVE  Min(S) \in S /\ \A j \in S : Min(S) <= j
<1>1. PICK x \in S : \A y \in S : ~ (<<y, x>> \in OpToRel(<, Nat))
  BY NatLessThanWellFounded, WFMin, Zenon
<1>2. ASSUME NEW y \in S, y < x PROVE <<y, x>> \in OpToRel(<, Nat)
  <2>1. <<y, x>> \in Nat \X Nat
    OBVIOUS
  <2>2. <<y, x>>[1] < <<y, x>>[2]
    BY <1>2
  <2> QED BY <2>1, <2>2, Zenon DEF OpToRel
<1>3. \A y \in S : ~ (y < x)
  BY <1>1, <1>2, Zenon
<1>4. \A y \in S : x <= y
  BY <1>3
<1> QED BY <1>4, Zenon DEF Min

(* Rank counts the members below, so it grows by one past each member. *)
LEMMA RankGrows ==
    ASSUME NEW S \in SUBSET Nat, IsFiniteSet(S)
    PROVE  /\ Cardinality(S) \in Nat
           /\ \A i \in Int : Rank(S, i) \in 0 .. Cardinality(S)
           /\ Rank(S, 0) = 0
           /\ \A i \in Nat : Rank(S, i + 1) = IF i \in S THEN Rank(S, i) + 1 ELSE Rank(S, i)
           /\ \A i, j \in Nat : i <= j => Rank(S, i) <= Rank(S, j)
           /\ \A i \in S : Rank(S, i) < Cardinality(S)
<1>0. \A i \in S : i \in Nat
  OBVIOUS
<1>1. Cardinality(S) \in Nat
  BY FS_CardinalityType
<1>2. ASSUME NEW i \in Int
      PROVE  /\ IsFiniteSet({j \in S : j < i}) /\ Rank(S, i) \in Nat
             /\ Rank(S, i) <= Cardinality(S)
             /\ Rank(S, i) = Cardinality(S) => {j \in S : j < i} = S
  <2>1. {j \in S : j < i} \in SUBSET S
    OBVIOUS
  <2>2. /\ IsFiniteSet({j \in S : j < i})
        /\ Cardinality({j \in S : j < i}) <= Cardinality(S)
        /\ Cardinality(S) = Cardinality({j \in S : j < i}) => S = {j \in S : j < i}
    BY <2>1, FS_Subset
  <2>3. Cardinality({j \in S : j < i}) \in Nat
    BY <2>2, FS_CardinalityType
  <2> QED BY <2>2, <2>3 DEF Rank
<1>3. Rank(S, 0) = 0
  <2>0. \A j \in S : ~ (j < 0)
    BY <1>0
  <2>1. {j \in S : j < 0} = {}
    BY <2>0
  <2> QED BY <2>1, FS_EmptySet DEF Rank
<1>4. ASSUME NEW i \in Nat
      PROVE  Rank(S, i + 1) = IF i \in S THEN Rank(S, i) + 1 ELSE Rank(S, i)
  <2>1. CASE i \in S
    <3>0. \A j \in S : (j < i + 1) <=> (j < i \/ j = i)
      BY <1>0
    <3>1. {j \in S : j < i + 1} = {j \in S : j < i} \cup {i}
      BY <2>1, <3>0, Zenon
    <3>2. i \notin {j \in S : j < i} /\ IsFiniteSet({j \in S : j < i})
      BY <1>2
    <3>3. Cardinality({j \in S : j < i} \cup {i}) = Cardinality({j \in S : j < i}) + 1
      BY <3>2, FS_AddElement
    <3> QED BY <2>1, <3>1, <3>3 DEF Rank
  <2>2. CASE i \notin S
    <3>0. \A j \in S : (j < i + 1) <=> (j < i)
      BY <1>0, <2>2
    <3>1. {j \in S : j < i + 1} = {j \in S : j < i}
      BY <3>0, Zenon
    <3> QED BY <2>2, <3>1 DEF Rank
  <2> QED BY <2>1, <2>2
<1>5. ASSUME NEW i \in Nat, NEW j \in Nat, i <= j PROVE Rank(S, i) <= Rank(S, j)
  <2>0. \A k \in S : k < i => k < j
    BY <1>0, <1>5
  <2>1. {k \in S : k < i} \in SUBSET {k \in S : k < j}
    BY <2>0, Zenon
  <2>2. IsFiniteSet({k \in S : k < j})
    BY <1>2
  <2> QED BY <2>1, <2>2, FS_Subset DEF Rank
<1>6. ASSUME NEW i \in S PROVE Rank(S, i) < Cardinality(S)
  <2>1. i \in Int /\ i \notin {j \in S : j < i}
    BY <1>0
  <2>2. Rank(S, i) # Cardinality(S)
    BY <1>2, <2>1, Zenon
  <2>3. Rank(S, i) \in Nat /\ Rank(S, i) <= Cardinality(S)
    BY <1>2, <2>1, Zenon
  <2> QED BY <1>1, <2>2, <2>3
<1>7. ASSUME NEW i \in Int PROVE Rank(S, i) \in 0 .. Cardinality(S)
  <2>1. Rank(S, i) \in Nat /\ Rank(S, i) <= Cardinality(S)
    BY <1>2, Zenon
  <2> QED BY <1>1, <2>1
<1> QED BY <1>1, <1>3, <1>4, <1>5, <1>6, <1>7

(* The order of the ranks of members is the order of the members. *)
LEMMA RankOrders ==
    ASSUME NEW S \in SUBSET Nat, IsFiniteSet(S)
    PROVE  \A i, j \in S : (i < j) <=> (Rank(S, i) < Rank(S, j))
<1>1. ASSUME NEW i \in S, NEW j \in S, i < j PROVE Rank(S, i) < Rank(S, j)
  <2>1. Rank(S, i + 1) = Rank(S, i) + 1 /\ i \in Nat /\ j \in Nat
    BY RankGrows
  <2>2. Rank(S, i + 1) <= Rank(S, j)
    BY <1>1, <2>1, RankGrows
  <2>3. Rank(S, i) \in Int /\ Rank(S, j) \in Int
    BY <2>1, RankGrows
  <2> QED BY <2>1, <2>2, <2>3
<1>2. \A i \in S : i \in Int /\ Rank(S, i) \in Int
  BY RankGrows
<1>3. ASSUME NEW i \in S, NEW j \in S, Rank(S, i) < Rank(S, j) PROVE i < j
  <2>1. CASE i = j
    BY <1>2, <1>3, <2>1
  <2>2. CASE j < i
    BY <1>1, <1>2, <1>3, <2>2
  <2> QED BY <1>2, <2>1, <2>2
<1> QED BY <1>1, <1>3

(* Every number below the cardinality is the rank of exactly one member: *)
(* the ranks are as many as the members.                                 *)
LEMMA RankIsOnto ==
    ASSUME NEW S \in SUBSET Nat, IsFiniteSet(S), NEW k \in 0 .. Cardinality(S) - 1
    PROVE  \E i \in S : Rank(S, i) = k
<1> DEFINE f == [i \in S |-> Rank(S, i)]
<1> DEFINE T == 0 .. Cardinality(S) - 1
<1>1. Cardinality(S) \in Nat /\ \A i \in S : i \in Int /\ Rank(S, i) \in T
  BY RankGrows
<1>2. \A i, j \in S : Rank(S, i) = Rank(S, j) => i = j
  <2>1. \A i \in S : i \in Int /\ Rank(S, i) \in Int
    BY <1>1
  <2> QED BY <2>1, RankOrders
<1>3. f \in Injection(S, T)
  BY <1>1, <1>2 DEF Injection, IsInjective
<1>4. IsFiniteSet(T) /\ Cardinality(T) = Cardinality(S)
  BY <1>1, FS_Interval
<1>5. f \in Surjection(S, T)
  BY <1>3, <1>4, FS_Injection
<1> QED BY <1>5 DEF Surjection

(* InOrder lists the members in order: the member of rank k - 1 is the k-th. *)
LEMMA InOrderLists ==
    ASSUME NEW S \in SUBSET Nat, IsFiniteSet(S)
    PROVE  /\ InOrder(S) \in Seq(Nat) /\ Len(InOrder(S)) = Cardinality(S)
           /\ DOMAIN InOrder(S) = 1 .. Cardinality(S)
           /\ \A k \in 1 .. Cardinality(S) : InOrder(S)[k] \in S /\ Rank(S, InOrder(S)[k]) = k - 1
           /\ \A i \in S : Rank(S, i) + 1 \in 1 .. Cardinality(S) /\ InOrder(S)[Rank(S, i) + 1] = i
           /\ Members(InOrder(S)) = S
<1>1. Cardinality(S) \in Nat /\ \A i \in S : i \in Nat /\ Rank(S, i) \in 0 .. Cardinality(S) - 1
  BY RankGrows
<1>2. ASSUME NEW k \in 1 .. Cardinality(S)
      PROVE  InOrder(S)[k] \in S /\ Rank(S, InOrder(S)[k]) = k - 1
  <2>1. k - 1 \in 0 .. Cardinality(S) - 1
    BY <1>1
  <2>2. \E i \in S : Rank(S, i) = k - 1
    BY <2>1, RankIsOnto
  <2>3. InOrder(S)[k] = CHOOSE i \in S : Rank(S, i) = k - 1
    BY DEF InOrder
  <2> QED BY <2>2, <2>3, Zenon
<1>3. DOMAIN InOrder(S) = 1 .. Cardinality(S)
  BY DEF InOrder
<1>4. ASSUME NEW i \in S
      PROVE  Rank(S, i) + 1 \in 1 .. Cardinality(S) /\ InOrder(S)[Rank(S, i) + 1] = i
  <2>1. Rank(S, i) + 1 \in 1 .. Cardinality(S) /\ Rank(S, i) + 1 - 1 = Rank(S, i)
    BY <1>1
  <2> DEFINE k == Rank(S, i) + 1
             j == InOrder(S)[k]
  <2>2. j \in S /\ Rank(S, j) = Rank(S, i)
    <3>1. k \in 1 .. Cardinality(S) /\ k - 1 = Rank(S, i)
      BY <1>1
    <3> HIDE DEF k
    <3>2. InOrder(S)[k] \in S /\ Rank(S, InOrder(S)[k]) = k - 1
      BY <1>2, <3>1, Zenon
    <3> QED BY <3>1, <3>2
  <2> HIDE DEF j
  <2>3. i \in Nat /\ j \in Nat /\ Rank(S, i) \in Int
    BY <1>1, <2>2
  <2>4. ~ (i < j) /\ ~ (j < i)
    BY <2>2, <2>3, RankOrders
  <2>5. i = j
    BY <2>3, <2>4
  <2> QED BY <2>1, <2>5 DEF j
<1>5. InOrder(S) \in Seq(Nat) /\ Len(InOrder(S)) = Cardinality(S)
  <2>1. InOrder(S) \in [1 .. Cardinality(S) -> Nat]
    <3>1. \A k \in 1 .. Cardinality(S) : InOrder(S)[k] \in Nat
      BY <1>1, <1>2
    <3>2. InOrder(S) = [k \in 1 .. Cardinality(S) |-> InOrder(S)[k]]
      BY DEF InOrder
    <3> QED BY <3>1, <3>2
  <2> QED BY <1>1, <2>1
<1>6. Members(InOrder(S)) = S
  BY <1>2, <1>3, <1>4 DEF Members
<1> QED BY <1>2, <1>3, <1>4, <1>5, <1>6

(* A listing that holds the members of the right ranks is InOrder. *)
LEMMA InOrderIs ==
    ASSUME NEW S \in SUBSET Nat, IsFiniteSet(S), NEW s \in Seq(Nat), Len(s) = Cardinality(S),
           \A k \in 1 .. Len(s) : s[k] \in S /\ Rank(S, s[k]) = k - 1
    PROVE  s = InOrder(S)
<1>1. \A k \in 1 .. Len(s) : InOrder(S)[k] = s[k]
  <2> TAKE k \in 1 .. Len(s)
  <2>1. InOrder(S)[Rank(S, s[k]) + 1] = s[k] /\ Rank(S, s[k]) + 1 = k
    BY InOrderLists
  <2> QED BY <2>1
<1>2. InOrder(S) \in Seq(Nat) /\ Len(InOrder(S)) = Len(s)
  BY InOrderLists
<1> QED BY <1>1, <1>2, SeqEqual

(* The listing tells the set. *)
LEMMA InOrderTells ==
    ASSUME NEW S \in SUBSET Nat, NEW T \in SUBSET Nat, IsFiniteSet(S), IsFiniteSet(T),
           InOrder(S) = InOrder(T)
    PROVE  S = T
BY InOrderLists

(* Rank in a union of two sets is the sum of the ranks. *)
LEMMA RanksAddUp ==
    ASSUME NEW A \in SUBSET Nat, NEW B \in SUBSET Nat, IsFiniteSet(A), IsFiniteSet(B),
           A \cap B = {}, NEW i \in Nat
    PROVE  Rank(A \cup B, i) = Rank(A, i) + Rank(B, i)
<1> DEFINE a == {j \in A : j < i}
           b == {j \in B : j < i}
<1>1. a \in SUBSET A /\ b \in SUBSET B
  OBVIOUS
<1>2. {j \in A \cup B : j < i} = a \cup b /\ a \cap b = {}
  BY Zenon
<1> HIDE DEF a, b
<1>3. IsFiniteSet(a) /\ IsFiniteSet(b)
  BY <1>1, FS_Subset
<1>4. Cardinality(a) \in Nat /\ Cardinality(b) \in Nat
  BY <1>3, FS_CardinalityType
<1>5. Cardinality(a \cup b) = Cardinality(a) + Cardinality(b)
  BY <1>2, <1>3, <1>4, FS_Union, FS_EmptySet
<1> QED BY <1>2, <1>5 DEF Rank, a, b

(* A bound above all members counts them all. *)
LEMMA RankOfAll ==
    ASSUME NEW A \in SUBSET Nat, IsFiniteSet(A), NEW i \in Nat, \A j \in A : j < i
    PROVE  Rank(A, i) = Cardinality(A)
<1>1. {j \in A : j < i} = A
  BY Zenon
<1> QED BY <1>1 DEF Rank

(* In an interval from 0 a member's rank is the member itself. *)
LEMMA RankInInterval ==
    ASSUME NEW S \in SUBSET Nat, NEW i \in Nat, 0 .. i - 1 \subseteq S
    PROVE  Rank(S, i) = i
<1>1. \A j \in Nat : j < i <=> j \in 0 .. i - 1
  OBVIOUS
<1>2. {j \in S : j < i} = 0 .. i - 1
  <2>1. ASSUME NEW j \in S, j < i PROVE j \in 0 .. i - 1
    BY <1>1, <2>1
  <2>2. ASSUME NEW j \in 0 .. i - 1 PROVE j \in S /\ j < i
    BY <1>1
  <2> QED BY <2>1, <2>2
<1>3. Cardinality(0 .. i - 1) = i
  BY FS_Interval
<1> QED BY <1>2, <1>3 DEF Rank

(* Listings of sets one of which is below the other are joined. *)
LEMMA InOrderJoins ==
    ASSUME NEW A \in SUBSET Nat, NEW B \in SUBSET Nat, IsFiniteSet(A), IsFiniteSet(B),
           \A a \in A, b \in B : a < b
    PROVE  /\ Cardinality(A \cup B) = Cardinality(A) + Cardinality(B)
           /\ InOrder(A) \o InOrder(B) = InOrder(A \cup B)
<1> DEFINE s == InOrder(A) \o InOrder(B)
<1>1. Cardinality(A) \in Nat /\ Cardinality(B) \in Nat
  BY FS_CardinalityType
<1>2. A \cap B = {}
  <2>1. ASSUME NEW a \in A, a \in B PROVE FALSE
    <3>1. a < a /\ a \in Nat
      BY <2>1
    <3> QED BY <3>1
  <2> QED BY <2>1
<1>3. /\ IsFiniteSet(A \cup B) /\ A \cup B \in SUBSET Nat
      /\ Cardinality(A \cup B) = Cardinality(A) + Cardinality(B)
  <2>1. /\ IsFiniteSet(A \cup B)
        /\ Cardinality(A \cup B) = Cardinality(A) + Cardinality(B) - Cardinality(A \cap B)
    BY FS_Union
  <2>2. Cardinality(A \cap B) = 0
    BY <1>2, FS_EmptySet
  <2>3. A \cup B \in SUBSET Nat
    OBVIOUS
  <2> QED BY <1>1, <2>1, <2>2, <2>3
<1>4. /\ s \in Seq(Nat) /\ Len(s) = Cardinality(A) + Cardinality(B)
      /\ \A k \in 1 .. Len(s) : s[k] = IF k <= Cardinality(A) THEN InOrder(A)[k]
                                       ELSE InOrder(B)[k - Cardinality(A)]
  <2>1. /\ InOrder(A) \in Seq(Nat) /\ Len(InOrder(A)) = Cardinality(A)
        /\ InOrder(B) \in Seq(Nat) /\ Len(InOrder(B)) = Cardinality(B)
    BY InOrderLists
  <2>2. /\ s \in Seq(Nat) /\ Len(s) = Len(InOrder(A)) + Len(InOrder(B))
        /\ \A k \in 1 .. Len(InOrder(A)) + Len(InOrder(B)) :
              s[k] = IF k <= Len(InOrder(A)) THEN InOrder(A)[k] ELSE InOrder(B)[k - Len(InOrder(A))]
    BY <2>1, ConcatProperties
  <2> HIDE DEF s
  <2> QED BY <2>1, <2>2
<1> HIDE DEF s
<1>5. ASSUME NEW k \in 1 .. Len(s)
      PROVE  s[k] \in A \cup B /\ Rank(A \cup B, s[k]) = k - 1
  <2>1. CASE k <= Cardinality(A)
    <3>1. k \in 1 .. Cardinality(A) /\ s[k] = InOrder(A)[k]
      BY <1>1, <1>4, <2>1
    <3>2. s[k] \in A /\ Rank(A, s[k]) = k - 1 /\ s[k] \in Nat
      BY <3>1, InOrderLists
    <3>3. Rank(B, s[k]) = 0
      <4>1. \A b \in B : ~ (b < s[k])
        BY <3>2
      <4>2. {b \in B : b < s[k]} = {}
        BY <4>1, Zenon
      <4> QED BY <4>2, FS_EmptySet DEF Rank
    <3> QED BY <1>2, <3>2, <3>3, RanksAddUp
  <2>2. CASE ~ (k <= Cardinality(A))
    <3>1. k - Cardinality(A) \in 1 .. Cardinality(B) /\ s[k] = InOrder(B)[k - Cardinality(A)]
      BY <1>1, <1>4, <2>2
    <3>2. s[k] \in B /\ Rank(B, s[k]) = k - Cardinality(A) - 1 /\ s[k] \in Nat
      BY <3>1, InOrderLists
    <3>3. Rank(A, s[k]) = Cardinality(A)
      BY <3>2, RankOfAll
    <3>4. Rank(A \cup B, s[k]) = Rank(A, s[k]) + Rank(B, s[k])
      BY <1>2, <3>2, RanksAddUp
    <3> QED BY <1>1, <3>2, <3>3, <3>4
  <2> QED BY <2>1, <2>2
<1>6. s = InOrder(A \cup B)
  BY <1>3, <1>4, <1>5, InOrderIs
<1> QED BY <1>3, <1>6 DEF s

(* A prefix of a listing. *)
LEMMA PrefixOf ==
    ASSUME NEW S \in SUBSET Nat, IsFiniteSet(S), NEW n \in 0 .. Cardinality(S)
    PROVE  /\ SubSeq(InOrder(S), 1, n) \in Seq(Nat) /\ Len(SubSeq(InOrder(S), 1, n)) = n
           /\ \A k \in 1 .. n : /\ SubSeq(InOrder(S), 1, n)[k] = InOrder(S)[k]
                               /\ InOrder(S)[k] \in S /\ InOrder(S)[k] \in Nat
<1>1. Cardinality(S) \in Nat /\ n \in Nat /\ n <= Cardinality(S)
  BY FS_CardinalityType
<1>2. \A k \in 1 .. n : k \in 1 .. Cardinality(S) /\ 1 + k - 1 = k
  BY <1>1
<1>3. \A k \in 1 .. n : InOrder(S)[k] \in S /\ InOrder(S)[k] \in Nat
  BY <1>2, InOrderLists
<1>4. /\ SubSeq(InOrder(S), 1, n) \in Seq(Nat)
      /\ Len(SubSeq(InOrder(S), 1, n)) = IF 1 <= n THEN n - 1 + 1 ELSE 0
      /\ \A k \in 1 .. n - 1 + 1 : SubSeq(InOrder(S), 1, n)[k] = InOrder(S)[1 + k - 1]
  BY <1>1, <1>3, SubSeqProperties
<1>5. n - 1 + 1 = n /\ (IF 1 <= n THEN n - 1 + 1 ELSE 0) = n
  BY <1>1
<1> QED BY <1>2, <1>3, <1>4, <1>5

(* An argument by the least counterexample. *)
LEMMA NoneGoesWrongFirst ==
    ASSUME NEW D \in SUBSET Nat, \A n \in D : n - 1 \in D
    PROVE  D = {}
<1>1. SUFFICES ASSUME D # {} PROVE FALSE
  OBVIOUS
<1>2. Min(D) \in D /\ \A k \in D : Min(D) <= k
  BY <1>1, MinIsLeast
<1>3. Min(D) - 1 \in D /\ Min(D) \in Nat
  BY <1>2
<1> QED BY <1>2, <1>3

(* The shard indices. *)
LEMMA ShardSets ==
    /\ ShardCount \in Nat /\ IsFiniteSet(Shards) /\ Shards \in SUBSET Nat
    /\ \A S \in SUBSET Shards : S \in SUBSET Nat /\ IsFiniteSet(S)
<1>1. ShardCount \in Nat
  BY BoundsAssumption
<1>2. Shards \in SUBSET Nat
  BY <1>1 DEF Shards
<1>3. IsFiniteSet(Shards)
  BY <1>1, FS_Interval DEF Shards
<1> QED BY <1>1, <1>2, <1>3, FS_Subset

(* The inline part of the survivors and the part read off the erasures are *)
(* together the first survivors, whatever the inline capacity.             *)
LEMMA ValidIndicesAre ==
    ASSUME NEW c, c.data \in Nat, NEW missing \in SUBSET Shards,
           c.data <= Cardinality(Shards \ missing)
    PROVE  ValidIndices(c, missing) = SubSeq(InOrder(Shards \ missing), 1, c.data)
<1> DEFINE P == Shards \ missing
           inline == IF c.data < Inline THEN c.data ELSE Inline
           head == SubSeq(InOrder(P), 1, inline)
           start == IF head = <<>> THEN 0 ELSE head[Len(head)] + 1
           Q == {i \in Shards : i >= start /\ i \notin missing}
           A == {i \in P : i < start}
           tail == SubSeq(InOrder(Q), 1, c.data - inline)
<1>1. P \in SUBSET Shards /\ Q \in SUBSET Shards /\ A \in SUBSET Shards
  OBVIOUS
<1>2. /\ P \in SUBSET Nat /\ IsFiniteSet(P) /\ Q \in SUBSET Nat /\ IsFiniteSet(Q)
      /\ A \in SUBSET Nat /\ IsFiniteSet(A)
  BY <1>1, ShardSets
<1>3. ValidIndices(c, missing) = head \o SubSeq(InOrder(Q), 1, c.data - Len(head))
  BY Zenon DEF ValidIndices
<1>4. c.data <= Cardinality(P)
  OBVIOUS
<1> HIDE DEF P
<1>5. /\ inline \in Nat /\ inline <= c.data /\ inline \in 0 .. Cardinality(P)
      /\ c.data \in 0 .. Cardinality(P) /\ c.data - inline \in Nat
  <2>1. Inline \in Nat /\ Cardinality(P) \in Nat
    BY <1>2, FS_CardinalityType, BoundsAssumption
  <2> QED BY <1>4, <2>1
<1> HIDE DEF inline
<1>6. /\ head \in Seq(Nat) /\ Len(head) = inline
      /\ \A k \in 1 .. inline : head[k] = InOrder(P)[k] /\ InOrder(P)[k] \in P
  BY <1>2, <1>5, PrefixOf
<1> HIDE DEF head
<1>7. start \in Nat /\ Rank(P, start) = inline
  <2>1. CASE inline = 0
    <3>1. start = 0
      BY <1>6, <2>1
    <3>2. Rank(P, 0) = 0
      BY <1>2, RankGrows
    <3> QED BY <2>1, <3>1, <3>2
  <2>2. CASE inline # 0
    <3>1. inline \in 1 .. inline /\ inline \in 1 .. Cardinality(P) /\ head # <<>>
      BY <1>5, <1>6, <2>2
    <3>2. start = InOrder(P)[inline] + 1
      BY <1>6, <3>1
    <3>3. InOrder(P)[inline] \in P /\ Rank(P, InOrder(P)[inline]) = inline - 1
      BY <1>2, <3>1, InOrderLists
    <3> DEFINE x == InOrder(P)[inline]
    <3> HIDE DEF x
    <3>4. x \in P /\ x \in Nat /\ Rank(P, x) = inline - 1 /\ start = x + 1
      BY <1>2, <3>2, <3>3 DEF x
    <3>5. Rank(P, x + 1) = Rank(P, x) + 1
      BY <1>2, <3>4, RankGrows
    <3> QED BY <1>5, <3>4, <3>5
  <2> QED BY <2>1, <2>2
<1> HIDE DEF start
<1>8. P = A \cup Q /\ \A a \in A, b \in Q : a < b
  <2>1. \A i \in Shards : i \in Nat
    BY ShardSets
  <2>2. \A i \in Shards : (i < start) <=> ~ (i >= start)
    BY <1>7, <2>1
  <2>3. P = A \cup Q
    BY <2>2, Zenon DEF P
  <2>4. \A a, b \in Shards : a < start /\ b >= start => a < b
    BY <1>7, <2>1
  <2> QED BY <2>3, <2>4, Zenon DEF P
<1>9. Cardinality(A) = inline
  BY <1>7 DEF Rank
<1> HIDE DEF A, Q
<1>10. Cardinality(P) = inline + Cardinality(Q) /\ InOrder(A) \o InOrder(Q) = InOrder(P)
  BY <1>2, <1>8, <1>9, InOrderJoins
<1>11. Cardinality(Q) \in Nat /\ c.data - inline \in 0 .. Cardinality(Q)
  <2>1. Cardinality(Q) \in Nat
    BY <1>2, FS_CardinalityType
  <2> QED BY <1>4, <1>5, <1>10, <2>1
<1>12. /\ tail \in Seq(Nat) /\ Len(tail) = c.data - inline
       /\ \A k \in 1 .. c.data - inline : tail[k] = InOrder(Q)[k]
  BY <1>2, <1>11, PrefixOf
<1> HIDE DEF tail
<1>13. /\ head \o tail \in Seq(Nat) /\ Len(head \o tail) = c.data
       /\ \A k \in 1 .. c.data : (head \o tail)[k] = IF k <= inline THEN head[k] ELSE tail[k - inline]
  <2>1. inline + (c.data - inline) = c.data
    BY <1>5
  <2>2. /\ head \o tail \in Seq(Nat) /\ Len(head \o tail) = Len(head) + Len(tail)
        /\ \A k \in 1 .. Len(head) + Len(tail) :
              (head \o tail)[k] = IF k <= Len(head) THEN head[k] ELSE tail[k - Len(head)]
    BY <1>6, <1>12, ConcatProperties
  <2>3. Len(head) = inline /\ Len(tail) = c.data - inline
    BY <1>6, <1>12
  <2> QED BY <2>1, <2>2, <2>3
<1>14. ASSUME NEW k \in 1 .. c.data PROVE (head \o tail)[k] = InOrder(P)[k]
  <2>1. CASE k <= inline
    BY <1>5, <1>6, <1>13, <2>1
  <2>2. CASE ~ (k <= inline)
    <3>1. k - inline \in 1 .. c.data - inline /\ k \in 1 .. inline + Cardinality(Q)
      BY <1>5, <1>11, <2>2
    <3>2. /\ InOrder(A) \in Seq(Nat) /\ Len(InOrder(A)) = inline
          /\ InOrder(Q) \in Seq(Nat) /\ Len(InOrder(Q)) = Cardinality(Q)
      BY <1>2, <1>9, InOrderLists
    <3>3. (InOrder(A) \o InOrder(Q))[k] = InOrder(Q)[k - inline]
      <4>1. \A j \in 1 .. Len(InOrder(A)) + Len(InOrder(Q)) :
              (InOrder(A) \o InOrder(Q))[j]
                = IF j <= Len(InOrder(A)) THEN InOrder(A)[j] ELSE InOrder(Q)[j - Len(InOrder(A))]
        BY <3>2, ConcatProperties
      <4> QED BY <2>2, <3>1, <3>2, <4>1
    <3> QED BY <1>10, <1>12, <1>13, <2>2, <3>1, <3>3
  <2> QED BY <2>1, <2>2
<1>15. /\ SubSeq(InOrder(P), 1, c.data) \in Seq(Nat) /\ Len(SubSeq(InOrder(P), 1, c.data)) = c.data
       /\ \A k \in 1 .. c.data : SubSeq(InOrder(P), 1, c.data)[k] = InOrder(P)[k]
  BY <1>2, <1>5, PrefixOf
<1>16. head \o tail = SubSeq(InOrder(P), 1, c.data)
  <2> DEFINE s == head \o tail
             t == SubSeq(InOrder(P), 1, c.data)
  <2>1. /\ s \in Seq(Nat) /\ t \in Seq(Nat) /\ Len(s) = c.data /\ Len(t) = c.data
        /\ \A k \in 1 .. c.data : s[k] = t[k]
    BY <1>13, <1>14, <1>15
  <2> HIDE DEF s, t
  <2>2. s = t
    BY <2>1, SeqEqual
  <2> QED BY <2>2 DEF s, t
<1>17. ValidIndices(c, missing) = head \o tail
  BY <1>3, <1>6 DEF tail
<1> QED BY <1>16, <1>17 DEF P

(* use_recovered_data: merged from the back, the views become the data     *)
(* shards in order.  After k steps the last k views are final, and the     *)
(* survivor that the next step may need has not been written over.         *)
LEMMA MergeIsSystematic ==
    ASSUME NEW P \in SUBSET Nat, NEW M \in SUBSET Nat, IsFiniteSet(P), IsFiniteSet(M),
           P \cap M = {}, NEW n \in Nat, 0 .. n - 1 \subseteq P \cup M, n <= Cardinality(P)
    PROVE  Merge(SubSeq(InOrder(P), 1, n), InOrder({i \in M : i < n})) = InOrder(0 .. n - 1)
<1> DEFINE D == {i \in M : i < n}
           V == SubSeq(InOrder(P), 1, n)
           W == InOrder(D)
           view(k) == [j \in 1 .. n |-> IF j > n - k THEN j - 1 ELSE V[j]]
           state(k) == [views |-> view(k), existing |-> n - k - Rank(D, n - k),
                        recovered |-> Rank(D, n - k)]
           first == [views |-> V, existing |-> Len(V) - Len(W), recovered |-> Len(W)]
           upto == CHOOSE f : f = [k \in 0 .. Len(V) |->
                     IF k = 0 THEN first ELSE MergeStep(f[k - 1], Len(V) - k, W)]
           states == [k \in 0 .. n |-> state(k)]
<1>1. Merge(V, W) = upto[Len(V)].views
  BY Zenon DEF Merge
<1>2. D \in SUBSET M /\ D \in SUBSET Nat /\ P \cap D = {}
  OBVIOUS
<1>3. IsFiniteSet(D) /\ Cardinality(D) \in Nat
  BY <1>2, FS_Subset, FS_CardinalityType
<1>4. \A i \in Nat : i < n => i \in P \/ i \in D
  <2>1. \A i \in Nat : i < n => i \in 0 .. n - 1
    OBVIOUS
  <2> QED BY <2>1, Zenon
<1>5. Rank(D, n) = Cardinality(D)
  <2>1. \A i \in D : i < n
    OBVIOUS
  <2> HIDE DEF D
  <2> QED BY <1>2, <1>3, <2>1, RankOfAll
<1> HIDE DEF D
<1>6. ASSUME NEW x \in 0 .. n
      PROVE  /\ Rank(P, x) \in Nat /\ Rank(D, x) \in Nat /\ Rank(P, x) + Rank(D, x) = x
             /\ Rank(D, x) <= Cardinality(D)
  <2>1. x \in Nat /\ x \in Int
    OBVIOUS
  <2>2. Rank(P \cup D, x) = Rank(P, x) + Rank(D, x)
    BY <1>2, <1>3, <2>1, RanksAddUp
  <2>3. \A i \in 0 .. x - 1 : i \in Nat /\ i < n
    OBVIOUS
  <2>4. P \cup D \in SUBSET Nat /\ 0 .. x - 1 \subseteq P \cup D
    BY <1>2, <1>4, <2>3, Zenon
  <2>5. Rank(P \cup D, x) = x
    BY <2>1, <2>4, RankInInterval
  <2>6. Rank(P, x) \in 0 .. Cardinality(P) /\ Rank(D, x) \in 0 .. Cardinality(D)
    BY <1>2, <1>3, <2>1, RankGrows
  <2>7. Cardinality(P) \in Nat
    BY FS_CardinalityType
  <2> QED BY <1>3, <2>2, <2>5, <2>6, <2>7
<1>7. /\ V \in Seq(Nat) /\ Len(V) = n
      /\ \A k \in 1 .. n : V[k] = InOrder(P)[k]
  <2>1. n \in 0 .. Cardinality(P)
    BY FS_CardinalityType
  <2> QED BY <2>1, PrefixOf
<1>8. Len(W) = Cardinality(D)
  BY <1>2, <1>3, InOrderLists
<1> HIDE DEF V
<1>9. first = state(0)
  <2>1. view(0) = [j \in 1 .. n |-> V[j]]
    OBVIOUS
  <2>2. V = [j \in 1 .. n |-> V[j]]
    BY <1>7
  <2>3. n - 0 = n
    OBVIOUS
  <2> QED BY <1>5, <1>7, <1>8, <2>1, <2>2, <2>3
<1>10. ASSUME NEW k \in 1 .. n PROVE MergeStep(state(k - 1), n - k, W) = state(k)
  <2> DEFINE x == n - k
             old == view(k - 1)
             new == view(k)
  <2>1. x \in Nat /\ x < n /\ x \in 0 .. n /\ x + 1 \in 0 .. n /\ n - (k - 1) = x + 1
    OBVIOUS
  <2>4. new = [old EXCEPT ![x + 1] = x]
    <3>1. old \in [1 .. n -> Nat] /\ new \in [1 .. n -> Nat]
      BY <1>7
    <3>2. \A j \in 1 .. n : new[j] = IF j = x + 1 THEN x ELSE old[j]
      OBVIOUS
    <3>3. x + 1 \in 1 .. n
      OBVIOUS
    <3> HIDE DEF new, old, x
    <3> QED BY <3>1, <3>2, <3>3
  <2>5. \A e \in 1 .. x + 1 : old[e] = V[e]
    BY <2>1
  <2> DEFINE s == state(k - 1)
  <2> HIDE DEF view
  <2>2. /\ state(k - 1).views = old /\ state(k - 1).existing = (x + 1) - Rank(D, x + 1)
        /\ state(k - 1).recovered = Rank(D, x + 1)
    <3>1. /\ state(k - 1).views = old
          /\ state(k - 1).existing = n - (k - 1) - Rank(D, n - (k - 1))
          /\ state(k - 1).recovered = Rank(D, n - (k - 1))
      OBVIOUS
    <3>2. n - (k - 1) = x + 1
      OBVIOUS
    <3> HIDE DEF x, old, state
    <3> QED BY <3>1, <3>2, Zenon
  <2>3. state(k) = [views |-> new, existing |-> x - Rank(D, x), recovered |-> Rank(D, x)]
    OBVIOUS
  <2> HIDE DEF x, old, new, state, s
  <2>6. Rank(D, x + 1) = IF x \in D THEN Rank(D, x) + 1 ELSE Rank(D, x)
    BY <1>2, <1>3, <2>1, RankGrows
  <2>7. /\ Rank(P, x) \in Nat /\ Rank(D, x) \in Nat /\ Rank(P, x) + Rank(D, x) = x
        /\ Rank(D, x) <= Cardinality(D)
    BY <1>6, <2>1
  <2>8. CASE x \in D
    <3>1. s.recovered = Rank(D, x) + 1 /\ s.recovered # 0 /\ s.existing = x - Rank(D, x)
      BY <2>1, <2>2, <2>6, <2>7, <2>8 DEF s
    <3>2. W[Rank(D, x) + 1] = x
      BY <1>2, <1>3, <2>8, InOrderLists
    <3>3. MergeStep(s, x, W) = [views |-> [s.views EXCEPT ![x + 1] = W[s.recovered]],
                                existing |-> s.existing, recovered |-> s.recovered - 1]
      BY <3>1, <3>2 DEF MergeStep
    <3>4. s.recovered - 1 = Rank(D, x)
      BY <2>7, <3>1
    <3>5. MergeStep(s, x, W) = [views |-> new, existing |-> x - Rank(D, x), recovered |-> Rank(D, x)]
      BY <2>2, <2>4, <3>1, <3>2, <3>3, <3>4 DEF s
    <3> QED BY <2>3, <3>5 DEF s, x
  <2>9. CASE x \notin D
    <3>1. s.recovered = Rank(D, x) /\ s.existing = Rank(P, x) + 1
      BY <2>1, <2>2, <2>6, <2>7, <2>9 DEF s
    <3>2. ~ (s.recovered # 0 /\ W[s.recovered] = x)
      <4>1. ASSUME Rank(D, x) # 0 PROVE W[Rank(D, x)] \in D
        <5>1. Rank(D, x) \in 1 .. Cardinality(D)
          BY <1>3, <2>7, <4>1
        <5> QED BY <1>2, <1>3, <5>1, InOrderLists
      <4> QED BY <2>9, <3>1, <4>1
    <3>3. s.views[s.existing] = x
      <4>1. x \in P
        BY <1>4, <2>1, <2>9
      <4>2. Rank(P, x) + 1 \in 1 .. x + 1 /\ Rank(P, x) + 1 \in 1 .. n
        BY <2>1, <2>7
      <4>3. InOrder(P)[Rank(P, x) + 1] = x
        BY <4>1, InOrderLists
      <4> QED BY <1>7, <2>2, <2>5, <3>1, <4>2, <4>3 DEF s
    <3>4. MergeStep(s, x, W) = [views |-> [s.views EXCEPT ![x + 1] = s.views[s.existing]],
                                existing |-> s.existing - 1, recovered |-> s.recovered]
      BY <3>2 DEF MergeStep
    <3>5. s.existing - 1 = x - Rank(D, x)
      BY <2>1, <2>7, <3>1
    <3>6. MergeStep(s, x, W) = [views |-> new, existing |-> x - Rank(D, x), recovered |-> Rank(D, x)]
      BY <2>2, <2>4, <3>1, <3>3, <3>4, <3>5 DEF s
    <3> QED BY <2>3, <3>6 DEF s, x
  <2> QED BY <2>8, <2>9
<1> HIDE DEF W
<1>11. view(n) = InOrder(0 .. n - 1)
  <2>1. 0 .. n - 1 \in SUBSET Nat /\ IsFiniteSet(0 .. n - 1) /\ Cardinality(0 .. n - 1) = n
    <3>1. n - 1 \in Int /\ 0 .. n - 1 \in SUBSET Nat
      OBVIOUS
    <3>2. IsFiniteSet(0 .. n - 1) /\ Cardinality(0 .. n - 1) = IF 0 > n - 1 THEN 0 ELSE n - 1 - 0 + 1
      BY <3>1, FS_Interval
    <3> QED BY <3>1, <3>2
  <2>2. view(n) \in Seq(Nat) /\ Len(view(n)) = n
    <3>1. \A j \in 1 .. n : j > n - n /\ j - 1 \in Nat
      OBVIOUS
    <3>2. view(n) \in [1 .. n -> Nat]
      BY <3>1
    <3> HIDE DEF view
    <3> QED BY <3>2
  <2>3. ASSUME NEW j \in 1 .. n
        PROVE  view(n)[j] \in 0 .. n - 1 /\ Rank(0 .. n - 1, view(n)[j]) = j - 1
    <3>1. view(n)[j] = j - 1 /\ j - 1 \in 0 .. n - 1 /\ j - 1 \in Nat
      OBVIOUS
    <3>2. 0 .. (j - 1) - 1 \subseteq 0 .. n - 1
      OBVIOUS
    <3>3. Rank(0 .. n - 1, j - 1) = j - 1
      BY <2>1, <3>1, <3>2, RankInInterval
    <3> QED BY <3>1, <3>3
  <2> HIDE DEF view
  <2> QED BY <2>1, <2>2, <2>3, InOrderIs
<1>12. state(n).views = view(n)
  OBVIOUS
<1> HIDE DEF view, state, first
<1>13. states = [k \in 0 .. n |-> IF k = 0 THEN first ELSE MergeStep(states[k - 1], n - k, W)]
  <2>1. \A k \in 0 .. n : k # 0 => k \in 1 .. n /\ k - 1 \in 0 .. n
    OBVIOUS
  <2>2. \A k \in 0 .. n : k # 0 => MergeStep(states[k - 1], n - k, W) = states[k]
    BY <1>10, <2>1
  <2> QED BY <1>9, <2>2
<1> HIDE DEF states
<1>14. upto = [k \in 0 .. n |-> IF k = 0 THEN first ELSE MergeStep(upto[k - 1], n - k, W)]
  BY <1>7, <1>13, Zenon
<1> HIDE DEF upto
<1> DEFINE wrong == {k \in 0 .. n : upto[k] # states[k]}
<1>15. ASSUME NEW k \in wrong PROVE k - 1 \in wrong
  <2>1. k \in 0 .. n /\ upto[k] # states[k]
    OBVIOUS
  <2>2. k # 0
    BY <1>13, <1>14, <2>1
  <2>3. k - 1 \in 0 .. n
    BY <2>1, <2>2
  <2>4. upto[k - 1] # states[k - 1]
    BY <1>13, <1>14, <2>1, <2>2
  <2> QED BY <2>3, <2>4
<1>16. wrong = {}
  <2>1. wrong \in SUBSET Nat
    OBVIOUS
  <2> HIDE DEF wrong
  <2> QED BY <1>15, <2>1, NoneGoesWrongFirst
<1>17. upto[n] = states[n] /\ states[n] = state(n)
  <2>1. n \in 0 .. n
    OBVIOUS
  <2>2. upto[n] = states[n]
    BY <1>16, <2>1
  <2> QED BY <2>1, <2>2 DEF states
<1> QED BY <1>1, <1>7, <1>11, <1>12, <1>17 DEF V, W, D

-----------------------------------------------------------------------------
(***************************************************************************)
(* Plans.                                                                  *)
(***************************************************************************)

(* A listing is empty when there is nothing to list. *)
LEMMA EmptyListing ==
    ASSUME NEW S \in SUBSET Nat, IsFiniteSet(S)
    PROVE  (InOrder(S) = <<>>) <=> (S = {})
<1>1. InOrder(S) \in Seq(Nat) /\ Len(InOrder(S)) = Cardinality(S) /\ Cardinality(S) \in Nat
  BY InOrderLists, FS_CardinalityType
<1>2. (InOrder(S) = <<>>) <=> (Cardinality(S) = 0)
  BY <1>1
<1> QED BY <1>2, FS_EmptySet

(* A plan, field by field. *)
LEMMA PlanFields ==
    ASSUME NEW c, NEW sh, NEW goal
    PROVE  /\ PlanOf(c, sh, goal).codec = c
           /\ PlanOf(c, sh, goal).shard_len = FirstLength(sh)
           /\ PlanOf(c, sh, goal).invalid_indices = InOrder(Missing(sh))
           /\ Missing(sh) # {} => PlanOf(c, sh, goal).valid_indices = ValidIndices(c, Missing(sh))
           /\ PlanOf(c, sh, goal).data_targets = InOrder(DataTargets(c, sh, goal))
           /\ PlanOf(c, sh, goal).parity_targets = InOrder(ParityTargets(c, sh, goal))
           /\ PlanOf(c, sh, goal).direct_parity
                <=> /\ goal.kind = "Required" /\ ParityTargets(c, sh, goal) # {}
                    /\ {i \in Missing(sh) : i < c.data} # {}
<1> DEFINE missing == Missing(sh)
           missing_data == {i \in missing : i < c.data}
           data == {i \in missing_data : Requested(goal, i)}
           parity == {i \in missing \ missing_data : goal.kind # "Data" /\ Requested(goal, i)}
<1>1. data = DataTargets(c, sh, goal) /\ parity = ParityTargets(c, sh, goal)
  BY Zenon DEF DataTargets, ParityTargets
<1>2. PlanOf(c, sh, goal) =
        [codec |-> c,
         shard_len |-> FirstLength(sh),
         valid_indices |-> IF missing = {} THEN <<>> ELSE ValidIndices(c, missing),
         invalid_indices |-> InOrder(missing),
         data_targets |-> InOrder(data),
         parity_targets |-> InOrder(parity),
         needs_inverse |-> missing_data # {} /\ data \cup parity # {},
         direct_parity |-> goal.kind = "Required" /\ missing_data # {} /\ parity # {}]
  BY DEF PlanOf
<1> HIDE DEF data, parity, missing_data
<1> DEFINE p == PlanOf(c, sh, goal)
<1>3. /\ p.codec = c /\ p.shard_len = FirstLength(sh) /\ p.invalid_indices = InOrder(missing)
      /\ p.valid_indices = IF missing = {} THEN <<>> ELSE ValidIndices(c, missing)
      /\ p.data_targets = InOrder(data) /\ p.parity_targets = InOrder(parity)
  BY <1>2
<1>6. p.direct_parity <=> goal.kind = "Required" /\ missing_data # {} /\ parity # {}
  <2> DEFINE d == goal.kind = "Required" /\ missing_data # {} /\ parity # {}
  <2>1. p.direct_parity = d
    BY DEF PlanOf, data, parity, missing_data
  <2> QED BY <2>1, Zenon
<1>4. missing # {} => p.valid_indices = ValidIndices(c, missing)
  BY <1>3
<1> HIDE DEF p
<1>5. /\ p.data_targets = InOrder(DataTargets(c, sh, goal))
      /\ p.parity_targets = InOrder(ParityTargets(c, sh, goal))
      /\ p.direct_parity <=> /\ goal.kind = "Required" /\ ParityTargets(c, sh, goal) # {}
                             /\ missing_data # {}
  BY <1>1, <1>3, <1>6, Zenon
<1> QED BY <1>3, <1>4, <1>5, Zenon DEF p, missing_data

(* A plan depends on what is missing and on the shard length alone. *)
LEMMA PlanDepends ==
    ASSUME NEW c, NEW goal, NEW old, NEW new,
           Missing(old) = Missing(new), FirstLength(old) = FirstLength(new)
    PROVE  PlanOf(c, old, goal) = PlanOf(c, new, goal)
BY Zenon DEF PlanOf

(* The present and the missing shards share out the array. *)
LEMMA PresentAndMissing ==
    ASSUME NEW sh
    PROVE  /\ Present(sh) = Shards \ Missing(sh) /\ Present(sh) \cap Missing(sh) = {}
           /\ Present(sh) \cup Missing(sh) = Shards
           /\ Present(sh) \in SUBSET Shards /\ Missing(sh) \in SUBSET Shards
           /\ Present(sh) \in SUBSET Nat /\ IsFiniteSet(Present(sh))
           /\ Missing(sh) \in SUBSET Nat /\ IsFiniteSet(Missing(sh))
<1>1. Present(sh) \in SUBSET Shards /\ Missing(sh) \in SUBSET Shards
  BY DEF Present, Missing
<1>2. /\ Present(sh) = Shards \ Missing(sh) /\ Present(sh) \cap Missing(sh) = {}
      /\ Present(sh) \cup Missing(sh) = Shards
  BY <1>1 DEF Missing
<1> QED BY <1>1, <1>2, ShardSets

(* The outputs of a plan, data before parity, are the wanted shards in order. *)
LEMMA TargetsAreWanted ==
    ASSUME NEW c \in Codecs, NEW sh, NEW goal \in Goals
    PROVE  LET data == DataTargets(c, sh, goal)
               parity == ParityTargets(c, sh, goal)
               wanted == Wanted(c, sh, goal)
           IN /\ wanted = data \cup parity /\ wanted \in SUBSET Missing(sh)
              /\ data \in SUBSET Nat /\ IsFiniteSet(data)
              /\ parity \in SUBSET Nat /\ IsFiniteSet(parity)
              /\ wanted \in SUBSET Nat /\ IsFiniteSet(wanted)
              /\ Cardinality(data) \in Nat /\ Cardinality(parity) \in Nat
              /\ Cardinality(wanted) = Cardinality(data) + Cardinality(parity)
              /\ InOrder(data) \o InOrder(parity) = InOrder(wanted)
<1> DEFINE data == DataTargets(c, sh, goal)
           parity == ParityTargets(c, sh, goal)
           wanted == Wanted(c, sh, goal)
<1>1. goal.kind \in {"All", "Data", "Required"}
  BY DEF Goals
<1>2. /\ goal.kind = "All" => wanted = Missing(sh)
      /\ goal.kind = "Data" => wanted = {i \in Missing(sh) : i < c.data}
      /\ goal.kind = "Required" => wanted = {i \in Missing(sh) : i \in goal.mask.set}
  BY DEF Wanted
<1>3. wanted = data \cup parity
  <2>1. CASE goal.kind = "All"
    BY <1>2, <2>1 DEF DataTargets, ParityTargets, Requested
  <2>2. CASE goal.kind = "Data"
    BY <1>2, <2>2 DEF DataTargets, ParityTargets, Requested
  <2>3. CASE goal.kind = "Required"
    BY <1>2, <2>3 DEF DataTargets, ParityTargets, Requested
  <2> QED BY <1>1, <2>1, <2>2, <2>3
<1>4. data \in SUBSET Missing(sh) /\ parity \in SUBSET Missing(sh)
  BY DEF DataTargets, ParityTargets
<1>5. \A a \in data, b \in parity : a < b
  <2>1. c.data \in Nat
    BY FormatAssumption
  <2>2. \A i \in Missing(sh) : i \in Nat
    BY PresentAndMissing
  <2>3. \A a \in data, b \in parity : a \in Nat /\ b \in Nat /\ a < c.data /\ ~ (b < c.data)
    BY <2>2 DEF DataTargets, ParityTargets
  <2> QED BY <2>1, <2>3
<1> HIDE DEF data, parity, wanted
<1>6. /\ data \in SUBSET Nat /\ IsFiniteSet(data) /\ parity \in SUBSET Nat /\ IsFiniteSet(parity)
  BY <1>4, PresentAndMissing, FS_Subset
<1>7. wanted \in SUBSET Missing(sh) /\ wanted \in SUBSET Nat
  BY <1>3, <1>4, <1>6
<1>8. IsFiniteSet(wanted)
  BY <1>7, PresentAndMissing, FS_Subset
<1>9. Cardinality(data) \in Nat /\ Cardinality(parity) \in Nat
  BY <1>6, FS_CardinalityType
<1>10. /\ Cardinality(data \cup parity) = Cardinality(data) + Cardinality(parity)
       /\ InOrder(data) \o InOrder(parity) = InOrder(data \cup parity)
  BY <1>5, <1>6, InOrderJoins
<1> QED BY <1>3, <1>6, <1>7, <1>8, <1>9, <1>10 DEF data, parity, wanted

(* The survivors of a plan are the first present shards. *)
LEMMA SurvivorsAre ==
    ASSUME NEW c, NEW sh, NEW goal, Task(c, sh, goal), Missing(sh) # {}
    PROVE  LET valid == PlanOf(c, sh, goal).valid_indices
           IN /\ valid = SubSeq(InOrder(Present(sh)), 1, c.data)
              /\ DOMAIN valid = 1 .. c.data
              /\ \A k \in 1 .. c.data : valid[k] \in Present(sh)
<1> DEFINE valid == PlanOf(c, sh, goal).valid_indices
<1>1. c.data \in Nat /\ c.data <= Cardinality(Present(sh))
  BY FormatAssumption DEF Task
<1>2. Missing(sh) \in SUBSET Shards /\ Present(sh) = Shards \ Missing(sh)
  BY PresentAndMissing
<1>3. ValidIndices(c, Missing(sh)) = SubSeq(InOrder(Present(sh)), 1, c.data)
  BY <1>1, <1>2, ValidIndicesAre
<1>4. valid = SubSeq(InOrder(Present(sh)), 1, c.data)
  <2>1. Missing(sh) # {} => PlanOf(c, sh, goal).valid_indices = ValidIndices(c, Missing(sh))
    BY PlanFields
  <2> QED BY <1>3, <2>1
<1>5. c.data \in 0 .. Cardinality(Present(sh))
  BY <1>1, PresentAndMissing, FS_CardinalityType
<1>6. /\ SubSeq(InOrder(Present(sh)), 1, c.data) \in Seq(Nat)
      /\ Len(SubSeq(InOrder(Present(sh)), 1, c.data)) = c.data
      /\ \A k \in 1 .. c.data : SubSeq(InOrder(Present(sh)), 1, c.data)[k] \in Present(sh)
  BY <1>5, PresentAndMissing, PrefixOf
<1> HIDE DEF valid
<1>7. valid \in Seq(Nat) /\ Len(valid) = c.data /\ \A k \in 1 .. c.data : valid[k] \in Present(sh)
  BY <1>4, <1>6
<1>8. DOMAIN valid = 1 .. c.data
  BY <1>7
<1> QED BY <1>4, <1>7, <1>8 DEF valid

(* When no data shard is missing, the survivors are the data shards. *)
LEMMA PrefixIsSystematic ==
    ASSUME NEW P \in SUBSET Nat, IsFiniteSet(P), NEW n \in 0 .. Cardinality(P), 0 .. n - 1 \subseteq P
    PROVE  SubSeq(InOrder(P), 1, n) = InOrder(0 .. n - 1)
<1> DEFINE s == SubSeq(InOrder(P), 1, n)
<1>1. n \in Nat
  BY FS_CardinalityType
<1>2. s \in Seq(Nat) /\ Len(s) = n /\ \A k \in 1 .. n : s[k] = InOrder(P)[k]
  BY PrefixOf
<1> HIDE DEF s
<1>3. 0 .. n - 1 \in SUBSET Nat /\ IsFiniteSet(0 .. n - 1) /\ Cardinality(0 .. n - 1) = n
  <2>1. n - 1 \in Int /\ 0 .. n - 1 \in SUBSET Nat
    BY <1>1
  <2>2. IsFiniteSet(0 .. n - 1) /\ Cardinality(0 .. n - 1) = IF 0 > n - 1 THEN 0 ELSE n - 1 - 0 + 1
    BY <2>1, FS_Interval
  <2> QED BY <1>1, <2>1, <2>2
<1>4. ASSUME NEW k \in 1 .. n
      PROVE  s[k] \in 0 .. n - 1 /\ Rank(0 .. n - 1, s[k]) = k - 1
  <2>1. k - 1 \in Nat /\ k - 1 \in 0 .. n - 1 /\ 0 .. (k - 1) - 1 \subseteq 0 .. n - 1
    BY <1>1
  <2>2. k - 1 \in P /\ 0 .. (k - 1) - 1 \subseteq P
    BY <2>1
  <2>3. Rank(P, k - 1) = k - 1 /\ Rank(0 .. n - 1, k - 1) = k - 1
    BY <1>3, <2>1, <2>2, RankInInterval
  <2>4. InOrder(P)[Rank(P, k - 1) + 1] = k - 1
    BY <2>2, InOrderLists
  <2>5. (k - 1) + 1 = k
    BY <1>1
  <2>6. s[k] = k - 1
    BY <1>2, <2>3, <2>4, <2>5
  <2> QED BY <2>1, <2>3, <2>6
<1>5. s = InOrder(0 .. n - 1)
  BY <1>2, <1>3, <1>4, InOrderIs
<1> QED BY <1>5 DEF s

(* A data row reads the survivors it was derived for. *)
LEMMA ComputesData ==
    ASSUME NEW sh, NEW goal, Task(codec, sh, goal), NEW now, NEW target \in DataTargets(codec, sh, goal),
           \A i \in Present(sh) : now[i] = sh[i]
    PROVE  ComputesRight(PlanOf(codec, sh, goal), now, PlanOf(codec, sh, goal).valid_indices, target)
<1> DEFINE plan == PlanOf(codec, sh, goal)
           valid == plan.valid_indices
<1>1. plan.codec = codec /\ plan.shard_len = FirstLength(sh)
  BY PlanFields
<1>2. target \in Missing(sh) /\ target < codec.data
  BY DEF DataTargets
<1>3. DOMAIN valid = 1 .. codec.data /\ \A k \in 1 .. codec.data : valid[k] \in Present(sh)
  BY <1>2, SurvivorsAre
<1> HIDE DEF plan
<1>4. RowInputs(plan, target) = valid
  BY <1>1, <1>2 DEF RowInputs
<1>5. \A i \in Present(sh) : now[i].right /\ now[i].len = FirstLength(sh)
  BY DEF Task
<1>6. \A k \in DOMAIN valid : now[valid[k]].right /\ now[valid[k]].len = plan.shard_len
  BY <1>1, <1>3, <1>5
<1>7. ComputesRight(plan, now, valid, target)
  BY <1>1, <1>4, <1>6 DEF ComputesRight
<1> QED BY <1>7 DEF plan

(* A parity row reads the survivors it was composed for, or the data shards *)
(* in order, the recovered ones among them.                                 *)
LEMMA ComputesParity ==
    ASSUME NEW sh, NEW goal, Task(codec, sh, goal), NEW now, NEW target \in ParityTargets(codec, sh, goal),
           \A i \in Present(sh) : now[i] = sh[i],
           \A i \in DataTargets(codec, sh, goal) : now[i] = Restoration(sh)
    PROVE  ComputesRight(PlanOf(codec, sh, goal), now, ParityInputs(PlanOf(codec, sh, goal)), target)
<1> DEFINE plan == PlanOf(codec, sh, goal)
           valid == plan.valid_indices
           n == codec.data
           P == Present(sh)
           M == Missing(sh)
           D == {i \in M : i < n}
           data == DataTargets(codec, sh, goal)
           parity == ParityTargets(codec, sh, goal)
<1>1. /\ plan.codec = codec /\ plan.shard_len = FirstLength(sh)
      /\ plan.data_targets = InOrder(data)
  BY PlanFields
<1>2. plan.direct_parity <=> goal.kind = "Required" /\ parity # {} /\ D # {}
  BY PlanFields, Zenon
<1>3. target \in M /\ ~ (target < n) /\ goal.kind # "Data" /\ parity # {}
  BY DEF ParityTargets
<1>4. /\ valid = SubSeq(InOrder(P), 1, n) /\ DOMAIN valid = 1 .. n
      /\ \A k \in 1 .. n : valid[k] \in P
  BY <1>3, SurvivorsAre
<1>5. /\ P \in SUBSET Nat /\ IsFiniteSet(P) /\ M \in SUBSET Nat /\ IsFiniteSet(M)
      /\ P \cap M = {} /\ P \cup M = Shards
  BY PresentAndMissing
<1>6. n \in Nat /\ n <= Cardinality(P) /\ 0 .. n - 1 \subseteq P \cup M
  <2>1. /\ n \in Nat /\ codec.parity \in Nat /\ n + codec.parity = ShardCount
        /\ n <= Cardinality(P)
    BY FormatAssumption DEF Task, Total
  <2>2. 0 .. n - 1 \subseteq Shards
    BY <2>1 DEF Shards
  <2> QED BY <1>5, <2>1, <2>2
<1>7. /\ \A i \in P : now[i].right /\ now[i].len = FirstLength(sh)
      /\ \A i \in data : now[i].right /\ now[i].len = FirstLength(sh)
  BY DEF Task, Restoration
<1>8. n \in 0 .. Cardinality(P)
  BY <1>5, <1>6, FS_CardinalityType
<1>9. data \in SUBSET Nat /\ IsFiniteSet(data)
  <2>1. codec \in Codecs /\ goal \in Goals
    BY DEF Task
  <2> QED BY <2>1, TargetsAreWanted
<1>10. CASE plan.direct_parity
  <2> HIDE DEF plan, valid
  <2>1. ParityInputs(plan) = valid /\ RowInputs(plan, target) = valid
    BY <1>10 DEF ParityInputs, RowInputs, valid
  <2>2. \A k \in DOMAIN valid : now[valid[k]].right /\ now[valid[k]].len = plan.shard_len
    BY <1>1, <1>4, <1>7
  <2> QED BY <1>1, <2>1, <2>2 DEF ComputesRight, plan
<1>11. CASE ~ plan.direct_parity
  <2> DEFINE all == InOrder(0 .. n - 1)
  <2>1. data = D
    <3>1. goal.kind \in {"All", "Data", "Required"}
      BY DEF Goals, Task
    <3>2. CASE goal.kind = "All"
      BY <3>2 DEF DataTargets, Requested
    <3>3. CASE goal.kind = "Required"
      <4>1. D = {}
        BY <1>2, <1>3, <1>11, <3>3
      <4> QED BY <4>1 DEF DataTargets
    <3> QED BY <1>3, <3>1, <3>2, <3>3
  <2>2. RowInputs(plan, target) = all
    <3> HIDE DEF plan
    <3> QED BY <1>1, <1>3, <1>11 DEF RowInputs
  <2>3. ParityInputs(plan) = all
    <3>1. CASE data = {}
      <4>1. plan.data_targets = <<>>
        BY <1>1, <1>9, <3>1, EmptyListing
      <4>2. 0 .. n - 1 \subseteq P
        <5>1. \A i \in 0 .. n - 1 : i < n
          BY <1>6
        <5> QED BY <1>6, <2>1, <3>1, <5>1
      <4>3. SubSeq(InOrder(P), 1, n) = all
        BY <1>5, <1>8, <4>2, PrefixIsSystematic
      <4> HIDE DEF plan, P
      <4>4. ParityInputs(plan) = plan.valid_indices
        BY <4>1 DEF ParityInputs
      <4> QED BY <1>4, <4>3, <4>4
    <3>2. CASE data # {}
      <4>1. plan.data_targets # <<>>
        BY <1>1, <1>9, <3>2, EmptyListing
      <4>2. Merge(SubSeq(InOrder(P), 1, n), InOrder(D)) = all
        BY <1>5, <1>6, MergeIsSystematic
      <4> HIDE DEF plan, P, D, data
      <4>3. ParityInputs(plan) = Merge(plan.valid_indices, plan.data_targets)
        BY <1>11, <4>1 DEF ParityInputs
      <4> QED BY <1>1, <1>4, <2>1, <4>2, <4>3
    <3> QED BY <3>1, <3>2
  <2>4. \A k \in DOMAIN all : all[k] \in 0 .. n - 1
    <3>1. 0 .. n - 1 \in SUBSET Nat /\ IsFiniteSet(0 .. n - 1)
      BY <1>6, FS_Interval
    <3> QED BY <3>1, InOrderLists
  <2>5. \A i \in 0 .. n - 1 : i \in P \/ i \in data
    <3>1. \A i \in 0 .. n - 1 : i < n
      BY <1>6
    <3> HIDE DEF data, P, M
    <3> QED BY <1>6, <2>1, <3>1
  <2> HIDE DEF all, plan, data, P
  <2>6. \A k \in DOMAIN all : now[all[k]].right /\ now[all[k]].len = plan.shard_len
    BY <1>1, <1>7, <2>4, <2>5
  <2> QED BY <1>1, <2>2, <2>3, <2>6 DEF ComputesRight, plan
<1> QED BY <1>10, <1>11

-----------------------------------------------------------------------------
(***************************************************************************)
(* The array during and after a call.                                      *)
(***************************************************************************)

(* What a call on sh has made of it when it succeeds, and when it fails. *)
AllDone(c, sh, goal, now) ==
    \A i \in Shards : IF i \in Wanted(c, sh, goal) THEN now[i] = Restoration(sh) ELSE now[i] = sh[i]
PrefixDone(c, sh, goal, now) ==
    LET wanted == Wanted(c, sh, goal)
        filled == {i \in Shards : now[i] # sh[i]}
    IN /\ filled \subseteq wanted
       /\ \A i \in filled : now[i] = Restoration(sh)
       /\ filled # {} => \E i \in wanted \ filled : /\ sh[i].len # FirstLength(sh)
                                                  /\ filled = {j \in wanted : j < i}

(* The shard length is a length. *)
LEMMA FirstLengthType ==
    ASSUME NEW sh \in [Shards -> ShardStates] PROVE FirstLength(sh) \in Lengths \cup {0}
<1>1. CASE Present(sh) = {}
  BY <1>1 DEF FirstLength
<1>2. CASE Present(sh) # {}
  <2>1. Min(Present(sh)) \in Present(sh)
    BY <1>2, PresentAndMissing, MinIsLeast
  <2>2. sh[Min(Present(sh))] \in ShardStates
    BY <2>1 DEF Present
  <2>3. sh[Min(Present(sh))].len \in Lengths \cup {0}
    BY <2>2 DEF ShardStates
  <2> QED BY <1>2, <2>3 DEF FirstLength
<1> QED BY <1>1, <1>2

(* The array stays well typed and right, and what was present stays as it was. *)
LEMMA AfterIsSound ==
    ASSUME NEW c, NEW sh, NEW goal, Task(c, sh, goal), NEW m
    PROVE  /\ After(c, sh, goal, m) \in [Shards -> ShardStates]
           /\ \A i \in Shards : After(c, sh, goal, m)[i].present => After(c, sh, goal, m)[i].right
           /\ \A i \in Present(sh) : After(c, sh, goal, m)[i] = sh[i]
<1>1. sh \in [Shards -> ShardStates] /\ c \in Codecs /\ goal \in Goals
  BY DEF Task
<1>2. /\ Restoration(sh) \in ShardStates /\ Restoration(sh).present /\ Restoration(sh).right
  BY <1>1, FirstLengthType DEF Restoration, ShardStates
<1>3. \A i \in Shards : sh[i].present => sh[i].right
  BY DEF Task, Present
<1>4. Wanted(c, sh, goal) \in SUBSET Missing(sh)
  BY <1>1, TargetsAreWanted
<1>5. \A i \in Shards : \/ After(c, sh, goal, m)[i] = sh[i]
                        \/ i \in Missing(sh) /\ After(c, sh, goal, m)[i] = Restoration(sh)
  BY <1>4 DEF After
<1>6. \A i \in Present(sh) : i \in Shards /\ i \notin Missing(sh)
  BY DEF Present, Missing
<1>7. After(c, sh, goal, m) \in [Shards -> ShardStates]
  <2>1. After(c, sh, goal, m) = [i \in Shards |-> After(c, sh, goal, m)[i]]
    BY DEF After
  <2>2. \A i \in Shards : After(c, sh, goal, m)[i] \in ShardStates
    BY <1>1, <1>2, <1>5
  <2> QED BY <2>1, <2>2
<1>8. \A i \in Shards : After(c, sh, goal, m)[i].present => After(c, sh, goal, m)[i].right
  BY <1>2, <1>3, <1>5
<1>9. \A i \in Present(sh) : After(c, sh, goal, m)[i] = sh[i]
  BY <1>5, <1>6
<1> QED BY <1>7, <1>8, <1>9

(* Nothing, everything, and one more of the wanted shards. *)
LEMMA AfterNone ==
    ASSUME NEW c, NEW sh, NEW goal, Task(c, sh, goal)
    PROVE  After(c, sh, goal, 0) = sh
<1>1. /\ sh \in [Shards -> ShardStates] /\ Wanted(c, sh, goal) \in SUBSET Nat
      /\ IsFiniteSet(Wanted(c, sh, goal))
  BY TargetsAreWanted DEF Task
<1>2. \A i \in Wanted(c, sh, goal) : ~ (Rank(Wanted(c, sh, goal), i) < 0)
  <2>1. \A i \in Wanted(c, sh, goal) : i \in Int
    BY <1>1
  <2>2. \A i \in Wanted(c, sh, goal) : Rank(Wanted(c, sh, goal), i) \in 0 .. Cardinality(Wanted(c, sh, goal))
    BY <1>1, <2>1, RankGrows
  <2>3. Cardinality(Wanted(c, sh, goal)) \in Nat
    BY <1>1, FS_CardinalityType
  <2> QED BY <2>2, <2>3
<1> QED BY <1>1, <1>2 DEF After

(* When as many as are wanted were restored, all of them were. *)
LEMMA AfterAll ==
    ASSUME NEW c, NEW sh, NEW goal, Task(c, sh, goal)
    PROVE  AllDone(c, sh, goal, After(c, sh, goal, Cardinality(Wanted(c, sh, goal))))
<1>1. Wanted(c, sh, goal) \in SUBSET Nat /\ IsFiniteSet(Wanted(c, sh, goal))
  BY TargetsAreWanted DEF Task
<1>2. \A i \in Wanted(c, sh, goal) : Rank(Wanted(c, sh, goal), i) < Cardinality(Wanted(c, sh, goal))
  BY <1>1, RankGrows
<1> QED BY <1>2 DEF AllDone, After

(* One more restored is the next of the wanted shards. *)
LEMMA AfterNext ==
    ASSUME NEW c, NEW sh, NEW goal, Task(c, sh, goal), NEW i \in Wanted(c, sh, goal)
    PROVE  LET m == Rank(Wanted(c, sh, goal), i)
               now == After(c, sh, goal, m)
           IN /\ i \in Shards /\ now[i] = sh[i]
              /\ [now EXCEPT ![i] = Restoration(sh)] = After(c, sh, goal, m + 1)
              /\ sh[i].len # FirstLength(sh) => PrefixDone(c, sh, goal, now)
<1> DEFINE W == Wanted(c, sh, goal)
           m == Rank(W, i)
           now == After(c, sh, goal, m)
<1>1. /\ W \in SUBSET Nat /\ IsFiniteSet(W) /\ W \in SUBSET Missing(sh)
      /\ sh \in [Shards -> ShardStates]
  BY TargetsAreWanted DEF Task
<1>2. \A j \in W : j \in Shards /\ sh[j] # Restoration(sh)
  <2>1. \A j \in Missing(sh) : j \in Shards /\ ~ sh[j].present
    BY DEF Missing, Present
  <2>2. Restoration(sh).present
    BY DEF Restoration
  <2> QED BY <1>1, <2>1, <2>2
<1> HIDE DEF W
<1>3. i \in W
  BY DEF W
<1>4. \A j \in W : j \in Int /\ Rank(W, j) \in Int
  <2>1. \A j \in W : j \in Int
    BY <1>1
  <2>2. \A j \in W : Rank(W, j) \in 0 .. Cardinality(W)
    BY <1>1, <2>1, RankGrows
  <2> QED BY <2>1, <2>2
<1>5. \A j \in W : /\ (Rank(W, j) < m) <=> (j < i)
                   /\ (Rank(W, j) < m + 1) <=> (j < i \/ j = i)
  <2> TAKE j \in W
  <2>1. ((j < i) <=> (Rank(W, j) < Rank(W, i))) /\ ((i < j) <=> (Rank(W, i) < Rank(W, j)))
    BY <1>1, <1>3, RankOrders
  <2>2. i \in Int /\ j \in Int /\ Rank(W, i) \in Int /\ Rank(W, j) \in Int
    BY <1>3, <1>4
  <2> QED BY <2>1, <2>2
<1>6. now = [j \in Shards |-> IF j \in W /\ j < i THEN Restoration(sh) ELSE sh[j]]
  BY <1>5, Zenon DEF After, W
<1>7. After(c, sh, goal, m + 1)
        = [j \in Shards |-> IF j \in W /\ (j < i \/ j = i) THEN Restoration(sh) ELSE sh[j]]
  BY <1>5, Zenon DEF After, W
<1>8. ~ (i < i) /\ i \in Shards
  BY <1>2, <1>3, <1>4
<1> HIDE DEF now, m
<1>9. now[i] = sh[i]
  BY <1>6, <1>8
<1>10. [now EXCEPT ![i] = Restoration(sh)] = After(c, sh, goal, m + 1)
  BY <1>3, <1>6, <1>7, <1>8
<1>11. {j \in Shards : now[j] # sh[j]} = {j \in W : j < i}
  BY <1>2, <1>6
<1>12. \A j \in {k \in W : k < i} : j \in Shards /\ now[j] = Restoration(sh)
  BY <1>2, <1>6
<1>13. sh[i].len # FirstLength(sh) => PrefixDone(c, sh, goal, now)
  <2> DEFINE filled == {j \in Shards : now[j] # sh[j]}
  <2>1. filled \subseteq W /\ \A j \in filled : now[j] = Restoration(sh)
    BY <1>11, <1>12
  <2>2. i \in W \ filled /\ filled = {j \in W : j < i}
    BY <1>3, <1>8, <1>11
  <2> HIDE DEF filled
  <2> QED BY <2>1, <2>2, Zenon DEF PrefixDone, W, filled
<1> QED BY <1>8, <1>9, <1>10, <1>13 DEF W, m, now

(* An array that was not touched. *)
LEMMA NothingDone ==
    ASSUME NEW c, NEW sh, NEW goal
    PROVE  PrefixDone(c, sh, goal, sh) /\ (Wanted(c, sh, goal) = {} => AllDone(c, sh, goal, sh))
<1>1. {i \in Shards : sh[i] # sh[i]} = {}
  OBVIOUS
<1> QED BY <1>1 DEF PrefixDone, AllDone

-----------------------------------------------------------------------------
(***************************************************************************)
(* Validation and the two executors.                                       *)
(***************************************************************************)

(* Validation that reports nothing has found nothing. *)
LEMMA FirstErrorOk ==
    ASSUME NEW e, DOMAIN e \in SUBSET Nat, FirstError(e) = "Ok"
    PROVE  \A k \in DOMAIN e : e[k] = "Ok"
<1> DEFINE bad == {k \in DOMAIN e : e[k] # "Ok"}
<1>1. bad \in SUBSET Nat
  OBVIOUS
<1>2. bad # {} => Min(bad) \in bad
  <2> HIDE DEF bad
  <2> QED BY <1>1, MinIsLeast
<1>3. bad # {} => FirstError(e) # "Ok"
  BY <1>2 DEF FirstError
<1> QED BY <1>3

(* The same for the errors a fresh plan can meet. *)
LEMMA ThreeOk ==
    ASSUME NEW a, NEW b, NEW c, FirstError(<<a, b, c>>) = "Ok"
    PROVE  a = "Ok" /\ b = "Ok" /\ c = "Ok"
<1> DEFINE e == <<a, b, c>>
<1>1. DOMAIN e = 1 .. 3 /\ e[1] = a /\ e[2] = b /\ e[3] = c
  OBVIOUS
<1> HIDE DEF e
<1>2. \A k \in 1 .. 3 : e[k] = "Ok"
  <2>1. DOMAIN e \in SUBSET Nat
    BY <1>1
  <2> QED BY <1>1, <2>1, FirstErrorOk DEF e
<1> QED BY <1>1, <1>2

(* The same for the errors of a workspace. *)
LEMMA FourOk ==
    ASSUME NEW a, NEW b, NEW c, NEW d, FirstError(<<a, b, c, d>>) = "Ok"
    PROVE  a = "Ok" /\ b = "Ok" /\ c = "Ok" /\ d = "Ok"
<1> DEFINE e == <<a, b, c, d>>
<1>1. DOMAIN e = 1 .. 4 /\ e[1] = a /\ e[2] = b /\ e[3] = c /\ e[4] = d
  OBVIOUS
<1> HIDE DEF e
<1>2. \A k \in 1 .. 4 : e[k] = "Ok"
  <2>1. DOMAIN e \in SUBSET Nat
    BY <1>1
  <2> QED BY <1>1, <2>1, FirstErrorOk DEF e
<1> QED BY <1>1, <1>2

(* What validation and the survivor count establish. *)
LEMMA Validated ==
    ASSUME IInv, NEW goal \in Goals, CountError(codec) = "Ok", ScanError(shards) = "Ok",
           codec.data <= Cardinality(Present(shards))
    PROVE  Task(codec, shards, goal)
<1>1. codec \in Codecs /\ shards \in [Shards -> ShardStates]
  BY DEF IInv, TypeOK
<1>2. Total(codec) = ShardCount
  <2>1. Total(codec) \in Nat /\ ShardCount \in Nat
    BY <1>1, FormatAssumption, BoundsAssumption DEF Total
  <2> QED BY <2>1 DEF CountError
<1>3. \A i \in Present(shards) : shards[i].len = FirstLength(shards)
  <2> DEFINE bad == {i \in Present(shards) : shards[i].len = 0 \/ shards[i].len # FirstLength(shards)}
  <2>1. bad = {}
    BY DEF ScanError
  <2> QED BY <2>1
<1>4. \A i \in Present(shards) : shards[i].right
  BY DEF IInv, PresentIsRight, Present
<1> QED BY <1>1, <1>2, <1>3, <1>4 DEF Task

(* Planning that reports nothing has its survivors. *)
LEMMA Quorum ==
    ASSUME IInv, NEW goal, PlanError(codec, shards, goal) = "Ok"
    PROVE  codec.data <= Cardinality(Present(shards))
<1>1. codec.data \in Nat
  BY FormatAssumption DEF IInv, TypeOK
<1>2. Cardinality(Present(shards)) \in Nat
  BY PresentAndMissing, FS_CardinalityType
<1>3. ~ (Cardinality(Present(shards)) < codec.data)
  BY DEF PlanError
<1> QED BY <1>1, <1>2, <1>3

(* The k-th output of a stage and its place among the wanted shards. *)
LEMMA NthWanted ==
    ASSUME NEW c \in Codecs, NEW sh, NEW goal \in Goals
    PROVE  LET data == DataTargets(c, sh, goal)
               parity == ParityTargets(c, sh, goal)
               wanted == Wanted(c, sh, goal)
           IN /\ \A k \in 1 .. Cardinality(data) :
                    /\ InOrder(data)[k] \in data /\ InOrder(data)[k] \in wanted
                    /\ Rank(wanted, InOrder(data)[k]) = 0 + (k - 1)
              /\ \A k \in 1 .. Cardinality(parity) :
                    /\ InOrder(parity)[k] \in parity /\ InOrder(parity)[k] \in wanted
                    /\ Rank(wanted, InOrder(parity)[k]) = Cardinality(data) + (k - 1)
              /\ \A i \in data : Rank(wanted, i) < Cardinality(data)
<1> DEFINE data == DataTargets(c, sh, goal)
           parity == ParityTargets(c, sh, goal)
           wanted == Wanted(c, sh, goal)
           s == InOrder(data) \o InOrder(parity)
<1>1. /\ wanted = data \cup parity
      /\ data \in SUBSET Nat /\ IsFiniteSet(data) /\ parity \in SUBSET Nat /\ IsFiniteSet(parity)
      /\ wanted \in SUBSET Nat /\ IsFiniteSet(wanted)
      /\ Cardinality(data) \in Nat /\ Cardinality(parity) \in Nat
      /\ Cardinality(wanted) = Cardinality(data) + Cardinality(parity)
      /\ s = InOrder(wanted)
  BY TargetsAreWanted
<1> HIDE DEF data, parity, wanted
<1>2. /\ InOrder(data) \in Seq(Nat) /\ Len(InOrder(data)) = Cardinality(data)
      /\ InOrder(parity) \in Seq(Nat) /\ Len(InOrder(parity)) = Cardinality(parity)
      /\ \A k \in 1 .. Cardinality(data) : InOrder(data)[k] \in data
      /\ \A k \in 1 .. Cardinality(parity) : InOrder(parity)[k] \in parity
      /\ \A i \in data : Rank(data, i) + 1 \in 1 .. Cardinality(data)
                         /\ InOrder(data)[Rank(data, i) + 1] = i
  BY <1>1, InOrderLists
<1>3. \A k \in 1 .. Cardinality(wanted) : Rank(wanted, InOrder(wanted)[k]) = k - 1
  BY <1>1, InOrderLists
<1>4. \A k \in 1 .. Len(InOrder(data)) + Len(InOrder(parity)) :
         s[k] = IF k <= Len(InOrder(data)) THEN InOrder(data)[k] ELSE InOrder(parity)[k - Len(InOrder(data))]
  BY <1>2, ConcatProperties
<1> HIDE DEF s
<1>5. ASSUME NEW k \in 1 .. Cardinality(data)
      PROVE  Rank(wanted, InOrder(data)[k]) = 0 + (k - 1)
  <2>1. /\ k \in 1 .. Cardinality(data) + Cardinality(parity) /\ k <= Cardinality(data)
        /\ 0 + (k - 1) = k - 1
    BY <1>1
  <2>2. s[k] = InOrder(data)[k]
    BY <1>2, <1>4, <2>1
  <2> QED BY <1>1, <1>3, <2>1, <2>2
<1>6. ASSUME NEW k \in 1 .. Cardinality(parity)
      PROVE  Rank(wanted, InOrder(parity)[k]) = Cardinality(data) + (k - 1)
  <2> DEFINE n == Cardinality(data) + k
  <2>1. /\ n \in 1 .. Cardinality(data) + Cardinality(parity) /\ ~ (n <= Cardinality(data))
        /\ n - Cardinality(data) = k /\ n - 1 = Cardinality(data) + (k - 1)
    BY <1>1
  <2> HIDE DEF n
  <2>2. s[n] = InOrder(parity)[k]
    BY <1>2, <1>4, <2>1
  <2>3. Rank(wanted, InOrder(wanted)[n]) = n - 1
    BY <1>1, <1>3, <2>1
  <2> QED BY <1>1, <2>1, <2>2, <2>3
<1>7. ASSUME NEW i \in data PROVE Rank(wanted, i) < Cardinality(data)
  <2> DEFINE k == Rank(data, i) + 1
  <2>1. k \in 1 .. Cardinality(data) /\ InOrder(data)[k] = i
    BY <1>2
  <2> HIDE DEF k
  <2>2. Rank(wanted, i) = 0 + (k - 1)
    BY <1>5, <2>1
  <2> QED BY <1>1, <2>1, <2>2
<1> QED BY <1>1, <1>2, <1>5, <1>6, <1>7 DEF data, parity, wanted

(* An output whose row is applied to the right views restores its shard. *)
LEMMA PublishedIsRestored ==
    ASSUME NEW plan, NEW now, NEW inputs, NEW i, NEW sh, plan.shard_len = FirstLength(sh),
           ComputesRight(plan, now, inputs, i)
    PROVE  Published(plan, now, inputs, i) = Restoration(sh)
<1>1. ComputesRight(plan, now, inputs, i) = TRUE
  BY DEF ComputesRight
<1> QED BY <1>1 DEF Published, Restoration

(* The bulk executor fills in the whole of what is wanted. *)
LEMMA BulkIsAll ==
    ASSUME NEW goal, Task(codec, shards, goal)
    PROVE  BulkOutputs(PlanOf(codec, shards, goal))
             = After(codec, shards, goal, Cardinality(Wanted(codec, shards, goal)))
<1> DEFINE plan == PlanOf(codec, shards, goal)
           data == DataTargets(codec, shards, goal)
           parity == ParityTargets(codec, shards, goal)
           wanted == Wanted(codec, shards, goal)
           first == FillAll(plan, shards, plan.valid_indices, plan.data_targets)
           all == FillAll(plan, first, ParityInputs(plan), plan.parity_targets)
<1>1. codec \in Codecs /\ goal \in Goals /\ shards \in [Shards -> ShardStates]
  BY DEF Task
<1>2. /\ plan.shard_len = FirstLength(shards)
      /\ plan.data_targets = InOrder(data) /\ plan.parity_targets = InOrder(parity)
  BY PlanFields
<1>3. /\ wanted = data \cup parity /\ wanted \in SUBSET Missing(shards)
      /\ data \in SUBSET Nat /\ IsFiniteSet(data) /\ parity \in SUBSET Nat /\ IsFiniteSet(parity)
  BY <1>1, TargetsAreWanted
<1>4. Members(plan.data_targets) = data /\ Members(plan.parity_targets) = parity
  <2> HIDE DEF data, parity, plan
  <2> QED BY <1>2, <1>3, InOrderLists
<1>5. \A i \in data : Published(plan, shards, plan.valid_indices, i) = Restoration(shards)
  <2>1. \A i \in data : ComputesRight(plan, shards, plan.valid_indices, i)
    BY ComputesData
  <2> HIDE DEF plan
  <2> QED BY <1>2, <2>1, PublishedIsRestored
<1>6. first = [i \in Shards |-> IF i \in data THEN Restoration(shards) ELSE shards[i]]
  <2> HIDE DEF plan, data
  <2> QED BY <1>4, <1>5, Zenon DEF FillAll
<1>7. \A i \in data : i \in Shards /\ i \notin Present(shards)
  BY <1>3 DEF Missing
<1>8. \A i \in Present(shards) : first[i] = shards[i]
  <2>1. \A i \in Present(shards) : i \in Shards /\ i \notin data
    BY <1>7 DEF Present
  <2> HIDE DEF first, data
  <2> QED BY <1>6, <2>1
<1>9. \A i \in data : first[i] = Restoration(shards)
  <2> HIDE DEF first, data
  <2> QED BY <1>6, <1>7
<1>10. \A i \in parity : Published(plan, first, ParityInputs(plan), i) = Restoration(shards)
  <2>1. \A i \in parity : ComputesRight(plan, first, ParityInputs(plan), i)
    <3> HIDE DEF first
    <3> QED BY <1>8, <1>9, ComputesParity
  <2> HIDE DEF plan, first
  <2> QED BY <1>2, <2>1, PublishedIsRestored
<1>11. all = [i \in Shards |-> IF i \in parity THEN Restoration(shards) ELSE first[i]]
  <2> HIDE DEF plan, parity, first
  <2> QED BY <1>4, <1>10, Zenon DEF FillAll
<1>12. BulkOutputs(plan) = all
  BY DEF BulkOutputs
<1> HIDE DEF all, first
<1>13. all = [i \in Shards |-> IF i \in wanted THEN Restoration(shards) ELSE shards[i]]
  <2> HIDE DEF data, parity, wanted
  <2> QED BY <1>3, <1>6, <1>11
<1>14. \A i \in wanted : Rank(wanted, i) < Cardinality(wanted)
  BY <1>1, TargetsAreWanted, RankGrows
<1>15. After(codec, shards, goal, Cardinality(wanted))
         = [i \in Shards |-> IF i \in wanted THEN Restoration(shards) ELSE shards[i]]
  BY <1>14, Zenon DEF After
<1> QED BY <1>12, <1>13, <1>15

-----------------------------------------------------------------------------
(***************************************************************************)
(* The steps.                                                              *)
(***************************************************************************)

(* A step that leaves the executor idle. *)
LEMMA IdleStep ==
    ASSUME IInv, pc' = "idle", container' = container, codec' \in Codecs,
           edits' \in 0 .. MaxEdits, calls' \in 0 .. MaxCalls, Prepared',
           shards' \in [Shards -> ShardStates], before'.shards \in [Shards -> ShardStates],
           PresentIsRight',
           result' = "Ok" => AllDone(codec', before'.shards, before'.goal, shards'),
           result' \notin {"none", "Ok"} => PrefixDone(codec', before'.shards, before'.goal, shards')
    PROVE  IInv'
<1>1. Succeeded' /\ FailureRestoresAPrefix'
  BY DEF Succeeded, FailureRestoresAPrefix, AllDone, PrefixDone, Restored, Restoration
<1>2. (workspace = NoPlan \/ (workspace.goal \in Goals /\ workspace.plan.codec \in Codecs))'
  BY DEF Prepared
<1>3. TypeOK'
  BY <1>2 DEF IInv, TypeOK
<1> QED BY <1>1, <1>3 DEF IInv

(* A call that returned an error, or had nothing to do. *)
LEMMA UntouchedStep ==
    ASSUME IInv, pc' = "idle", UNCHANGED <<container, codec, edits>>, calls' \in 0 .. MaxCalls,
           Prepared', shards' = shards, before'.shards = shards,
           result' # "Ok" \/ Wanted(codec, shards, before'.goal) = {}
    PROVE  IInv'
<1>1. /\ codec \in Codecs /\ edits \in 0 .. MaxEdits /\ shards \in [Shards -> ShardStates]
      /\ PresentIsRight
  BY DEF IInv, TypeOK
<1>2. PresentIsRight'
  BY <1>1 DEF PresentIsRight
<1>3. PrefixDone(codec', before'.shards, before'.goal, shards')
  BY NothingDone
<1>4. result' = "Ok" => AllDone(codec', before'.shards, before'.goal, shards')
  BY NothingDone
<1>5. /\ container' = container /\ codec' \in Codecs /\ edits' \in 0 .. MaxEdits
      /\ shards' \in [Shards -> ShardStates] /\ before'.shards \in [Shards -> ShardStates]
  BY <1>1
<1> QED BY <1>2, <1>3, <1>4, <1>5, IdleStep

(* A call that restored everything wanted. *)
LEMMA CompletedStep ==
    ASSUME IInv, pc' = "idle", UNCHANGED <<container, codec, workspace, edits>>, calls' \in 0 .. MaxCalls,
           Task(codec, before'.shards, before'.goal), result' = "Ok",
           shards' = After(codec, before'.shards, before'.goal,
                           Cardinality(Wanted(codec, before'.shards, before'.goal)))
    PROVE  IInv'
<1>1. codec \in Codecs /\ edits \in 0 .. MaxEdits /\ Prepared
  BY DEF IInv, TypeOK
<1>2. Prepared'
  BY <1>1 DEF Prepared
<1>3. before'.shards \in [Shards -> ShardStates]
  BY DEF Task
<1>4. /\ shards' \in [Shards -> ShardStates]
      /\ \A i \in Shards : shards'[i].present => shards'[i].right
  BY AfterIsSound
<1>5. PresentIsRight'
  BY <1>4 DEF PresentIsRight
<1>6. AllDone(codec', before'.shards, before'.goal, shards')
  BY AfterAll
<1> QED BY <1>1, <1>2, <1>3, <1>4, <1>5, <1>6, IdleStep

(* Execution of a plan that was made for the array, or for one like it. *)
LEMMA ExecuteStep ==
    ASSUME IInv, NEW goal \in Goals, Task(codec, shards, goal),
           NEW executor, Execute(executor, PlanOf(codec, shards, goal)),
           before' = [shards |-> shards, goal |-> goal],
           UNCHANGED <<container, codec, workspace, edits>>, calls' \in 0 .. MaxCalls
    PROVE  IInv'
<1> DEFINE plan == PlanOf(codec, shards, goal)
           wanted == Wanted(codec, shards, goal)
<1>1. /\ codec \in Codecs /\ edits \in 0 .. MaxEdits /\ Prepared /\ PresentIsRight
      /\ shards \in [Shards -> ShardStates] /\ container \in Containers
  BY DEF IInv, TypeOK
<1>2. Prepared' /\ before'.shards = shards /\ before'.goal = goal
  BY <1>1 DEF Prepared
<1>3. HasOutputs(plan) <=> (wanted # {})
  <2>1. /\ plan.data_targets = InOrder(DataTargets(codec, shards, goal))
        /\ plan.parity_targets = InOrder(ParityTargets(codec, shards, goal))
    BY PlanFields
  <2>2. /\ wanted = DataTargets(codec, shards, goal) \cup ParityTargets(codec, shards, goal)
        /\ DataTargets(codec, shards, goal) \in SUBSET Nat
        /\ IsFiniteSet(DataTargets(codec, shards, goal))
        /\ ParityTargets(codec, shards, goal) \in SUBSET Nat
        /\ IsFiniteSet(ParityTargets(codec, shards, goal))
    BY <1>1, TargetsAreWanted
  <2> HIDE DEF plan
  <2> QED BY <2>1, <2>2, EmptyListing DEF HasOutputs
<1>4. ASSUME NEW r, Return(r), shards' = shards, r # "Ok" \/ wanted = {} PROVE IInv'
  <2>1. pc' = "idle" /\ result' = r
    BY <1>4 DEF Return
  <2> QED BY <1>2, <1>4, <2>1, UntouchedStep
<1>5. CASE ~ HasOutputs(plan)
  <2>1. Return("Ok") /\ shards' = shards
    <3> HIDE DEF plan
    <3> QED BY <1>5 DEF Execute, ExecuteSerial, ExecuteBulk, plan
  <2> QED BY <1>3, <1>4, <1>5, <2>1
<1>6. CASE HasOutputs(plan) /\ BindError(plan) # "Ok"
  <2>1. Return(BindError(plan)) /\ shards' = shards
    BY <1>6 DEF Execute, ExecuteSerial, ExecuteBulk
  <2> DEFINE r == BindError(plan)
  <2>2. r # "Ok" /\ Return(r)
    BY <1>6, <2>1
  <2>3. pc' = "idle" /\ result' # "Ok"
    BY <2>2 DEF Return
  <2> QED BY <1>2, <2>1, <2>3, UntouchedStep
<1>7. CASE HasOutputs(plan) /\ BindError(plan) = "Ok" /\ executor = "serial"
  <2>1. /\ pc' = "data" /\ shards' = shards /\ result' = "none"
        /\ run' = [plan |-> plan, inputs |-> plan.valid_indices, next |-> 1]
    BY <1>7 DEF Execute, ExecuteSerial
  <2>2. shards = After(codec, shards, goal, 0)
    BY AfterNone
  <2>3. /\ run'.next = 1 /\ 0 + (1 - 1) = 0 /\ run'.plan = plan
        /\ 1 \in 1 .. Cardinality(DataTargets(codec, shards, goal)) + 1
    <3>1. Cardinality(DataTargets(codec, shards, goal)) \in Nat
      BY <1>1, TargetsAreWanted
    <3> HIDE DEF plan
    <3> QED BY <2>1, <3>1
  <2>4. InData'
    <3> HIDE DEF plan
    <3>1. run' = [plan |-> plan, inputs |-> run'.plan.valid_indices, next |-> run'.next]
      BY <2>1, <2>3
    <3>2. Task(codec', before'.shards, before'.goal) /\ Wanted(codec', before'.shards, before'.goal) # {}
      BY <1>2, <1>3, <1>7
    <3>3. shards' = After(codec', before'.shards, before'.goal, 0 + (run'.next - 1))
      BY <1>2, <2>1, <2>2, <2>3
    <3>4. run'.next \in 1 .. Cardinality(DataTargets(codec', before'.shards, before'.goal)) + 1
      BY <1>2, <2>3
    <3>5. plan = PlanOf(codec', before'.shards, before'.goal)
      BY <1>2 DEF plan
    <3> QED BY <2>1, <3>1, <3>2, <3>3, <3>4, <3>5 DEF InData, Running
  <2>5. TypeOK' /\ PresentIsRight'
    <3>1. (workspace = NoPlan \/ (workspace.goal \in Goals /\ workspace.plan.codec \in Codecs))'
      BY <1>2 DEF Prepared
    <3> QED BY <1>1, <1>2, <2>1, <3>1 DEF TypeOK, PresentIsRight
  <2>6. Succeeded' /\ FailureRestoresAPrefix'
    BY <2>1 DEF Succeeded, FailureRestoresAPrefix
  <2> QED BY <1>2, <2>1, <2>4, <2>5, <2>6 DEF IInv
<1>8. CASE HasOutputs(plan) /\ BindError(plan) = "Ok" /\ executor = "bulk"
  <2>1. Return("Ok") /\ shards' = BulkOutputs(plan)
    BY <1>8 DEF Execute, ExecuteBulk
  <2>2. shards' = After(codec, shards, goal, Cardinality(wanted))
    BY <2>1, BulkIsAll
  <2>3. pc' = "idle" /\ result' = "Ok"
    BY <2>1 DEF Return
  <2>4. Task(codec, before'.shards, before'.goal)
    BY <1>2
  <2> QED BY <1>2, <2>2, <2>3, <2>4, CompletedStep
<1>9. executor = "serial" \/ executor = "bulk"
  BY DEF Execute
<1> QED BY <1>5, <1>6, <1>7, <1>8, <1>9

(* reconstruct and its variants: an error before planning ends the call. *)
LEMMA WithPlanStep ==
    ASSUME IInv, NEW goal \in Goals, NEW executor, WithPlan(goal, executor)
    PROVE  IInv'
<1> DEFINE invalid == FirstError(<<MaskError(codec, goal), CountError(codec), ScanError(shards)>>)
           planning == PlanError(codec, shards, goal)
<1>1. /\ pc = "idle" /\ before' = [shards |-> shards, goal |-> goal]
      /\ UNCHANGED <<container, codec, workspace, edits>>
      /\ calls \in 0 .. MaxCalls /\ calls < MaxCalls /\ calls' = calls + 1
  BY DEF IInv, TypeOK, WithPlan, Call
<1>2. calls' \in 0 .. MaxCalls
  BY <1>1, BoundsAssumption
<1>3. Prepared' /\ before'.shards = shards /\ before'.goal = goal
  BY <1>1 DEF IInv, Prepared
<1>4. ASSUME NEW r, Return(r), shards' = shards, r # "Ok" \/ Wanted(codec, shards, goal) = {} PROVE IInv'
  <2>1. pc' = "idle" /\ result' = r
    BY <1>4 DEF Return
  <2> QED BY <1>1, <1>2, <1>3, <1>4, <2>1, UntouchedStep
<1>5. IF invalid # "Ok" THEN Return(invalid) /\ UNCHANGED shards
      ELSE IF Missing(shards) = {} THEN Return("Ok") /\ UNCHANGED shards
      ELSE IF planning # "Ok" THEN Return(planning) /\ UNCHANGED shards
      ELSE Execute(executor, PlanOf(codec, shards, goal))
  BY Zenon DEF WithPlan
<1>6. CASE invalid # "Ok"
  <2> HIDE DEF invalid, planning
  <2>1. Return(invalid) /\ shards' = shards
    BY <1>5, <1>6
  <2>2. pc' = "idle" /\ result' # "Ok"
    BY <1>6, <2>1 DEF Return
  <2> QED BY <1>1, <1>2, <1>3, <2>1, <2>2, UntouchedStep
<1>7. CASE invalid = "Ok" /\ Missing(shards) = {}
  <2> HIDE DEF invalid, planning
  <2>1. Return("Ok") /\ shards' = shards
    BY <1>5, <1>7
  <2>2. Wanted(codec, shards, goal) = {}
    BY <1>7 DEF Wanted
  <2> QED BY <1>4, <2>1, <2>2
<1>8. CASE invalid = "Ok" /\ Missing(shards) # {} /\ planning # "Ok"
  <2> HIDE DEF invalid, planning
  <2>1. Return(planning) /\ shards' = shards
    BY <1>5, <1>8
  <2>2. pc' = "idle" /\ result' # "Ok"
    BY <1>8, <2>1 DEF Return
  <2> QED BY <1>1, <1>2, <1>3, <2>1, <2>2, UntouchedStep
<1>9. CASE invalid = "Ok" /\ Missing(shards) # {} /\ planning = "Ok"
  <2>1. CountError(codec) = "Ok" /\ ScanError(shards) = "Ok"
    BY <1>9, ThreeOk
  <2>2. codec.data <= Cardinality(Present(shards))
    BY <1>9, Quorum
  <2>3. Task(codec, shards, goal)
    BY <2>1, <2>2, Validated
  <2>4. Execute(executor, PlanOf(codec, shards, goal))
    BY <1>5, <1>9
  <2> QED BY <1>1, <1>2, <2>3, <2>4, ExecuteStep
<1> QED BY <1>6, <1>7, <1>8, <1>9

(* Preparing a workspace touches nothing else. *)
LEMMA PrepareStep ==
    ASSUME IInv, NEW goal \in Goals, Prepare(goal)
    PROVE  IInv'
<1> DEFINE invalid == FirstError(<<MaskError(codec, goal), CountError(codec), FamilyError,
                                   ScanError(shards)>>)
           error == IF invalid # "Ok" THEN invalid ELSE PlanError(codec, shards, goal)
<1>1. /\ pc' = "idle" /\ shards' = shards /\ UNCHANGED <<container, codec, edits>>
      /\ before' = [shards |-> shards, goal |-> [kind |-> "None"]]
      /\ calls \in 0 .. MaxCalls /\ calls < MaxCalls /\ calls' = calls + 1
  BY DEF IInv, TypeOK, Prepare, Call
<1>2. calls' \in 0 .. MaxCalls
  BY <1>1, BoundsAssumption
<1>3. before'.shards = shards /\ before'.goal = [kind |-> "None"] /\ before'.goal.kind = "None"
  BY <1>1
<1>4. Wanted(codec, shards, before'.goal) = {}
  BY <1>3 DEF Wanted
<1>5. IF error # "Ok" THEN result' = error /\ UNCHANGED workspace
      ELSE /\ workspace' = [goal |-> goal, plan |-> PlanOf(codec, shards, goal)]
           /\ result' = "Ok"
  BY Zenon DEF Prepare
<1>6. Prepared'
  <2>1. CASE error # "Ok"
    <3>1. workspace' = workspace
      BY <1>5, <2>1
    <3> QED BY <3>1 DEF IInv, Prepared
  <2>2. CASE error = "Ok"
    <3>1. workspace' = [goal |-> goal, plan |-> PlanOf(codec, shards, goal)]
      BY <1>5, <2>2
    <3>2. codec.data <= Cardinality(Present(shards))
      BY <2>2, Quorum
    <3>3. /\ workspace'.goal = goal /\ workspace'.plan = PlanOf(codec, shards, goal)
          /\ workspace'.plan.codec = codec
      BY <3>1, PlanFields
    <3>4. codec \in Codecs /\ shards \in [Shards -> ShardStates]
      BY DEF IInv, TypeOK
    <3> QED BY <3>2, <3>3, <3>4 DEF Prepared
  <2> QED BY <2>1, <2>2
<1> QED BY <1>1, <1>2, <1>3, <1>4, <1>6, UntouchedStep

(* A workspace that passes validation holds the plan of this array. *)
LEMMA WorkspaceFits ==
    ASSUME IInv, workspace # NoPlan, WorkspaceError(workspace) = "Ok"
    PROVE  /\ workspace.goal \in Goals /\ Task(codec, shards, workspace.goal)
           /\ workspace.plan = PlanOf(codec, shards, workspace.goal)
<1> DEFINE ws == workspace
<1>1. /\ ws.goal \in Goals /\ ws.plan.codec \in Codecs /\ codec \in Codecs
  BY DEF IInv, Prepared, TypeOK
<1>2. PICK sh \in [Shards -> ShardStates] :
        /\ ws.plan.codec.data <= Cardinality(Present(sh))
        /\ ws.plan = PlanOf(ws.plan.codec, sh, ws.goal)
  BY DEF IInv, Prepared
<1>3. CountError(codec) = "Ok" /\ FormatError(ws.plan.codec) = "Ok" /\ LayoutError(ws.plan) = "Ok"
  BY FourOk DEF WorkspaceError
<1>4. ws.plan.codec = codec
  BY <1>3 DEF FormatError
<1>5. ScanError(shards) = "Ok"
  BY <1>3, ThreeOk DEF LayoutError
<1>6. InOrder(Missing(shards)) = ws.plan.invalid_indices
  <2>1. (IF InOrder(Missing(shards)) = ws.plan.invalid_indices THEN "Ok" ELSE "InvalidShardFlags") = "Ok"
    BY <1>3, ThreeOk DEF LayoutError
  <2> QED BY <2>1
<1>7. FirstLength(shards) = ws.plan.shard_len
  <2>1. (IF FirstLength(shards) = ws.plan.shard_len THEN "Ok" ELSE "IncorrectShardSize") = "Ok"
    BY <1>3, ThreeOk DEF LayoutError
  <2> QED BY <2>1
<1>8. ws.plan.invalid_indices = InOrder(Missing(sh)) /\ ws.plan.shard_len = FirstLength(sh)
  <2>1. /\ PlanOf(ws.plan.codec, sh, ws.goal).invalid_indices = InOrder(Missing(sh))
        /\ PlanOf(ws.plan.codec, sh, ws.goal).shard_len = FirstLength(sh)
    BY PlanFields
  <2> QED BY <1>2, <2>1
<1>9. Missing(shards) = Missing(sh) /\ FirstLength(shards) = FirstLength(sh)
  BY <1>6, <1>7, <1>8, PresentAndMissing, InOrderTells
<1>10. ws.plan = PlanOf(codec, shards, ws.goal)
  BY <1>2, <1>4, <1>9, PlanDepends
<1>11. Present(shards) = Present(sh)
  BY <1>9, PresentAndMissing
<1>12. codec.data <= Cardinality(Present(shards))
  BY <1>2, <1>4, <1>11
<1>13. Task(codec, shards, ws.goal)
  BY <1>1, <1>3, <1>5, <1>12, Validated
<1> QED BY <1>1, <1>10, <1>13

(* reconstruct_with_workspace: no planning, only validation. *)
LEMMA WithWorkspaceStep ==
    ASSUME IInv, NEW executor, WithWorkspace(executor)
    PROVE  IInv'
<1>1. /\ workspace # NoPlan /\ before' = [shards |-> shards, goal |-> workspace.goal]
      /\ UNCHANGED <<container, codec, workspace, edits>>
      /\ calls \in 0 .. MaxCalls /\ calls < MaxCalls /\ calls' = calls + 1
  BY DEF IInv, TypeOK, WithWorkspace, Call
<1>2. calls' \in 0 .. MaxCalls
  BY <1>1, BoundsAssumption
<1>3. Prepared' /\ before'.shards = shards /\ before'.goal = workspace.goal
  BY <1>1 DEF IInv, Prepared
<1>4. CASE WorkspaceError(workspace) # "Ok"
  <2>1. Return(WorkspaceError(workspace)) /\ shards' = shards
    BY <1>4 DEF WithWorkspace
  <2>2. pc' = "idle" /\ result' # "Ok"
    BY <1>4, <2>1 DEF Return
  <2> QED BY <1>1, <1>2, <1>3, <2>1, <2>2, UntouchedStep
<1>5. CASE WorkspaceError(workspace) = "Ok"
  <2>1. Execute(executor, workspace.plan)
    BY <1>5 DEF WithWorkspace
  <2>2. PICK goal \in Goals : goal = workspace.goal
    BY <1>1, <1>5, WorkspaceFits
  <2>3. Task(codec, shards, goal) /\ workspace.plan = PlanOf(codec, shards, goal)
    BY <1>1, <1>5, <2>2, WorkspaceFits
  <2>4. Execute(executor, PlanOf(codec, shards, goal)) /\ before' = [shards |-> shards, goal |-> goal]
    BY <1>1, <2>1, <2>2, <2>3
  <2> QED BY <1>1, <1>2, <2>3, <2>4, ExecuteStep
<1> QED BY <1>4, <1>5

(* One output of a stage: it restores the next wanted shard, or is refused *)
(* and leaves exactly the wanted shards before it restored.                *)
LEMMA OutputStep ==
    ASSUME IInv, NEW finished \in Nat, NEW targets \in SUBSET Nat, IsFiniteSet(targets), NEW inputs,
           Running(finished, targets, inputs), run.next <= Cardinality(targets),
           InOrder(targets)[run.next] \in Wanted(codec, before.shards, before.goal),
           Rank(Wanted(codec, before.shards, before.goal), InOrder(targets)[run.next])
             = finished + (run.next - 1),
           ComputesRight(run.plan, shards, inputs, InOrder(targets)[run.next]),
           Output(InOrder(targets)),
           UNCHANGED <<container, codec, workspace, before, edits, calls>>
    PROVE  IInv' \/ (pc' = pc /\ run'.plan = run.plan /\ Running(finished, targets, inputs)')
<1> DEFINE sh == before.shards
           goal == before.goal
           wanted == Wanted(codec, sh, goal)
           i == InOrder(targets)[run.next]
           m == finished + (run.next - 1)
<1>1. /\ Task(codec, sh, goal) /\ shards = After(codec, sh, goal, m)
      /\ run = [plan |-> PlanOf(codec, sh, goal), inputs |-> inputs, next |-> run.next]
      /\ run.next \in 1 .. Cardinality(targets) + 1 /\ result = "none" /\ wanted # {}
  BY DEF Running
<1>2. run.plan = PlanOf(codec, sh, goal) /\ run.inputs = inputs
  BY <1>1
<1>3. run.plan.shard_len = FirstLength(sh)
  BY <1>2, PlanFields
<1>4. Cardinality(targets) \in Nat
  BY FS_CardinalityType
<1>5. i \in wanted /\ Rank(wanted, i) = m
  OBVIOUS
<1> HIDE DEF i, m, wanted
<1>6. /\ i \in Shards /\ shards[i] = sh[i]
      /\ [shards EXCEPT ![i] = Restoration(sh)] = After(codec, sh, goal, m + 1)
      /\ sh[i].len # FirstLength(sh) => PrefixDone(codec, sh, goal, shards)
  BY <1>1, <1>5, AfterNext DEF wanted
<1>7. CASE ~ Accepts(i, run.plan.shard_len)
  <2>1. pc' = "idle" /\ result' = "IncorrectShardSize" /\ shards' = shards
    BY <1>7 DEF Output, Return, i
  <2>2. sh[i].len # FirstLength(sh)
    BY <1>3, <1>6, <1>7 DEF Accepts
  <2>3. PrefixDone(codec', before'.shards, before'.goal, shards')
    BY <1>6, <2>1, <2>2
  <2>4. /\ codec \in Codecs /\ edits \in 0 .. MaxEdits /\ calls \in 0 .. MaxCalls
        /\ shards \in [Shards -> ShardStates] /\ before.shards \in [Shards -> ShardStates]
    BY DEF IInv, TypeOK
  <2>5. Prepared' /\ PresentIsRight'
    BY <2>1 DEF IInv, Prepared, PresentIsRight
  <2> QED BY <2>1, <2>3, <2>4, <2>5, IdleStep
<1>8. CASE Accepts(i, run.plan.shard_len)
  <2>1. /\ shards' = [shards EXCEPT ![i] = Published(run.plan, shards, run.inputs, i)]
        /\ run' = [run EXCEPT !.next = @ + 1] /\ pc' = pc /\ result' = result
    BY <1>8 DEF Output, i
  <2>2. Published(run.plan, shards, run.inputs, i) = Restoration(sh)
    BY <1>2, <1>3, PublishedIsRestored DEF i
  <2>3. shards' = After(codec, sh, goal, m + 1)
    BY <1>6, <2>1, <2>2
  <2>4. run' = [plan |-> PlanOf(codec, sh, goal), inputs |-> inputs, next |-> run.next + 1]
    BY <1>1, <2>1
  <2>5. /\ run'.next = run.next + 1 /\ run'.plan = PlanOf(codec, sh, goal)
        /\ run' = [plan |-> PlanOf(codec, sh, goal), inputs |-> inputs, next |-> run'.next]
    BY <2>4
  <2>6. m + 1 = finished + (run'.next - 1) /\ run'.next \in 1 .. Cardinality(targets) + 1
    BY <1>1, <1>4, <2>5 DEF m
  <2>7. before'.shards = sh /\ before'.goal = goal /\ codec' = codec
    OBVIOUS
  <2>8. shards' = After(codec', before'.shards, before'.goal, finished + (run'.next - 1))
    BY <2>3, <2>6, <2>7
  <2> HIDE DEF sh, goal
  <2>9. Running(finished, targets, inputs)'
    BY <1>1, <2>1, <2>5, <2>6, <2>7, <2>8 DEF Running, wanted
  <2> QED BY <1>2, <2>1, <2>5, <2>9
<1> QED BY <1>7, <1>8

(* The frame of a step inside a stage. *)
LEMMA StageStep ==
    ASSUME IInv, UNCHANGED <<container, codec, workspace, before, edits, calls>>,
           result' = "none", Task(codec', before'.shards, before'.goal),
           NEW m, shards' = After(codec', before'.shards, before'.goal, m),
           (pc' = "data" /\ InData') \/ (pc' = "parity" /\ InParity')
    PROVE  IInv'
<1>1. /\ shards' \in [Shards -> ShardStates]
      /\ \A i \in Shards : shards'[i].present => shards'[i].right
  BY AfterIsSound
<1>2. TypeOK'
  BY <1>1 DEF IInv, TypeOK
<1>3. PresentIsRight'
  BY <1>1 DEF PresentIsRight
<1>4. Prepared'
  BY DEF IInv, Prepared
<1>5. Succeeded' /\ FailureRestoresAPrefix'
  BY DEF Succeeded, FailureRestoresAPrefix
<1> QED BY <1>2, <1>3, <1>4, <1>5 DEF IInv

(* reconstruct_classic_output in the data stage. *)
LEMMA DataOutputStep ==
    ASSUME IInv, DataOutput PROVE IInv'
<1>1. /\ pc = "data" /\ InData /\ run.next <= Len(run.plan.data_targets)
      /\ Output(run.plan.data_targets)
      /\ UNCHANGED <<container, codec, workspace, before, edits, calls>>
  BY DEF IInv, DataOutput
<1>2. PICK T, V : T = DataTargets(codec, before.shards, before.goal) /\ V = run.plan.valid_indices
  OBVIOUS
<1>3. Running(0, T, V)
  BY <1>1, <1>2 DEF InData
<1>4. /\ Task(codec, before.shards, before.goal) /\ codec \in Codecs /\ before.goal \in Goals
      /\ run.next \in 1 .. Cardinality(T) + 1
      /\ run.plan = PlanOf(codec, before.shards, before.goal)
      /\ shards = After(codec, before.shards, before.goal, 0 + (run.next - 1))
  BY <1>3 DEF Running, Task
<1>5. T \in SUBSET Nat /\ IsFiniteSet(T) /\ Cardinality(T) \in Nat
  BY <1>2, <1>4, TargetsAreWanted
<1>6. run.plan.data_targets = InOrder(T) /\ Len(InOrder(T)) = Cardinality(T)
  BY <1>2, <1>4, <1>5, PlanFields, InOrderLists
<1>7. run.next \in 1 .. Cardinality(T) /\ run.next <= Cardinality(T)
  BY <1>1, <1>4, <1>5, <1>6
<1>8. /\ InOrder(T)[run.next] \in T
      /\ InOrder(T)[run.next] \in Wanted(codec, before.shards, before.goal)
      /\ Rank(Wanted(codec, before.shards, before.goal), InOrder(T)[run.next]) = 0 + (run.next - 1)
  BY <1>2, <1>4, <1>7, NthWanted
<1>9. \A i \in Present(before.shards) : shards[i] = before.shards[i]
  BY <1>4, AfterIsSound
<1>10. ComputesRight(run.plan, shards, V, InOrder(T)[run.next])
  BY <1>2, <1>4, <1>8, <1>9, ComputesData
<1>11. IInv' \/ (pc' = pc /\ run'.plan = run.plan /\ Running(0, T, V)')
  BY <1>1, <1>3, <1>5, <1>6, <1>7, <1>8, <1>10, OutputStep
<1>12. CASE pc' = pc /\ run'.plan = run.plan /\ Running(0, T, V)'
  <2>1. /\ Task(codec', before'.shards, before'.goal) /\ result' = "none"
        /\ shards' = After(codec', before'.shards, before'.goal, 0 + (run'.next - 1))
    BY <1>12 DEF Running
  <2>2. T = DataTargets(codec', before'.shards, before'.goal) /\ V = run'.plan.valid_indices
    BY <1>1, <1>2, <1>12
  <2>3. InData' /\ pc' = "data"
    BY <1>1, <1>12, <2>2 DEF InData
  <2> QED BY <1>1, <2>1, <2>3, StageStep
<1> QED BY <1>11, <1>12

(* reconstruct_classic_output in the parity stage. *)
LEMMA ParityOutputStep ==
    ASSUME IInv, ParityOutput PROVE IInv'
<1>1. /\ pc = "parity" /\ InParity /\ run.next <= Len(run.plan.parity_targets)
      /\ Output(run.plan.parity_targets)
      /\ UNCHANGED <<container, codec, workspace, before, edits, calls>>
  BY DEF IInv, ParityOutput
<1>2. PICK D, T, V : /\ D = DataTargets(codec, before.shards, before.goal)
                     /\ T = ParityTargets(codec, before.shards, before.goal)
                     /\ V = ParityInputs(run.plan)
  OBVIOUS
<1>3. Running(Cardinality(D), T, V) /\ T # {}
  BY <1>1, <1>2 DEF InParity
<1>4. /\ Task(codec, before.shards, before.goal) /\ codec \in Codecs /\ before.goal \in Goals
      /\ run.next \in 1 .. Cardinality(T) + 1
      /\ run.plan = PlanOf(codec, before.shards, before.goal)
      /\ shards = After(codec, before.shards, before.goal, Cardinality(D) + (run.next - 1))
  BY <1>3 DEF Running, Task
<1>5. /\ T \in SUBSET Nat /\ IsFiniteSet(T) /\ Cardinality(T) \in Nat /\ Cardinality(D) \in Nat
      /\ D \in SUBSET Wanted(codec, before.shards, before.goal)
      /\ Wanted(codec, before.shards, before.goal) \in SUBSET Missing(before.shards)
  BY <1>2, <1>4, TargetsAreWanted
<1>6. run.plan.parity_targets = InOrder(T) /\ Len(InOrder(T)) = Cardinality(T)
  BY <1>2, <1>4, <1>5, PlanFields, InOrderLists
<1>7. run.next \in 1 .. Cardinality(T) /\ run.next <= Cardinality(T)
  BY <1>1, <1>4, <1>5, <1>6
<1>8. /\ InOrder(T)[run.next] \in T
      /\ InOrder(T)[run.next] \in Wanted(codec, before.shards, before.goal)
      /\ Rank(Wanted(codec, before.shards, before.goal), InOrder(T)[run.next])
           = Cardinality(D) + (run.next - 1)
  BY <1>2, <1>4, <1>7, NthWanted
<1>9. \A i \in Present(before.shards) : shards[i] = before.shards[i]
  BY <1>4, AfterIsSound
<1>10. \A i \in D : shards[i] = Restoration(before.shards)
  <2> TAKE i \in D
  <2>1. Rank(Wanted(codec, before.shards, before.goal), i) < Cardinality(D)
    BY <1>2, <1>4, NthWanted
  <2>2. i \in Wanted(codec, before.shards, before.goal) /\ i \in Shards /\ i \in Nat
    BY <1>5, PresentAndMissing
  <2>3. Rank(Wanted(codec, before.shards, before.goal), i) \in Int
    <3> DEFINE W == Wanted(codec, before.shards, before.goal)
    <3>1. W \in SUBSET Nat /\ IsFiniteSet(W)
      BY <1>4, TargetsAreWanted
    <3> HIDE DEF W
    <3>2. Rank(W, i) \in 0 .. Cardinality(W)
      BY <2>2, <3>1, RankGrows
    <3> QED BY <3>2 DEF W
  <2>4. Rank(Wanted(codec, before.shards, before.goal), i) < Cardinality(D) + (run.next - 1)
    BY <1>5, <1>7, <2>1, <2>3
  <2> QED BY <1>4, <2>2, <2>4 DEF After
<1>11. ComputesRight(run.plan, shards, V, InOrder(T)[run.next])
  BY <1>2, <1>4, <1>8, <1>9, <1>10, ComputesParity
<1>12. IInv' \/ (pc' = pc /\ run'.plan = run.plan /\ Running(Cardinality(D), T, V)')
  BY <1>1, <1>3, <1>5, <1>6, <1>7, <1>8, <1>11, OutputStep
<1>13. CASE pc' = pc /\ run'.plan = run.plan /\ Running(Cardinality(D), T, V)'
  <2>1. /\ Task(codec', before'.shards, before'.goal) /\ result' = "none"
        /\ shards' = After(codec', before'.shards, before'.goal, Cardinality(D) + (run'.next - 1))
    BY <1>13 DEF Running
  <2>2. /\ D = DataTargets(codec', before'.shards, before'.goal)
        /\ T = ParityTargets(codec', before'.shards, before'.goal)
    BY <1>1, <1>2
  <2>3. V = ParityInputs(run.plan)'
    BY <1>2, <1>13 DEF ParityInputs
  <2>4. InParity' /\ pc' = "parity"
    BY <1>1, <1>3, <1>13, <2>2, <2>3 DEF InParity
  <2> QED BY <1>1, <2>1, <2>4, StageStep
<1> QED BY <1>12, <1>13

(* Between the stages, or when no parity was wanted. *)
LEMMA DataDoneStep ==
    ASSUME IInv, DataDone PROVE IInv'
<1>1. /\ pc = "data" /\ InData /\ run.next > Len(run.plan.data_targets)
      /\ UNCHANGED <<container, codec, shards, workspace, before, edits, calls>>
  BY DEF IInv, DataDone
<1>2. PICK D, T : /\ D = DataTargets(codec, before.shards, before.goal)
                  /\ T = ParityTargets(codec, before.shards, before.goal)
  OBVIOUS
<1>3. /\ Task(codec, before.shards, before.goal) /\ codec \in Codecs /\ before.goal \in Goals
      /\ run.next \in 1 .. Cardinality(D) + 1
      /\ run.plan = PlanOf(codec, before.shards, before.goal)
      /\ run = [plan |-> PlanOf(codec, before.shards, before.goal), inputs |-> run.plan.valid_indices,
                next |-> run.next]
      /\ shards = After(codec, before.shards, before.goal, 0 + (run.next - 1))
      /\ result = "none" /\ Wanted(codec, before.shards, before.goal) # {}
  BY <1>1, <1>2 DEF InData, Running, Task
<1>4. /\ D \in SUBSET Nat /\ IsFiniteSet(D) /\ T \in SUBSET Nat /\ IsFiniteSet(T)
      /\ Cardinality(D) \in Nat /\ Cardinality(T) \in Nat
      /\ Cardinality(Wanted(codec, before.shards, before.goal)) = Cardinality(D) + Cardinality(T)
  BY <1>2, <1>3, TargetsAreWanted
<1>5. /\ run.plan.data_targets = InOrder(D) /\ Len(InOrder(D)) = Cardinality(D)
      /\ run.plan.parity_targets = InOrder(T)
  BY <1>2, <1>3, <1>4, PlanFields, InOrderLists
<1>6. 0 + (run.next - 1) = Cardinality(D)
  BY <1>1, <1>3, <1>4, <1>5
<1>7. calls' \in 0 .. MaxCalls
  BY <1>1 DEF IInv, TypeOK
<1>8. CASE T = {}
  <2>1. run.plan.parity_targets = <<>>
    BY <1>4, <1>5, <1>8, EmptyListing
  <2>2. pc' = "idle" /\ result' = "Ok"
    BY <2>1 DEF DataDone, Return
  <2>3. Cardinality(T) = 0
    BY <1>8, FS_EmptySet
  <2>4. Cardinality(Wanted(codec, before.shards, before.goal)) = Cardinality(D)
    BY <1>4, <2>3
  <2>5. shards' = After(codec, before'.shards, before'.goal,
                        Cardinality(Wanted(codec, before'.shards, before'.goal)))
    BY <1>1, <1>3, <1>6, <2>4
  <2>6. Task(codec, before'.shards, before'.goal)
    BY <1>1, <1>3
  <2> QED BY <1>1, <1>7, <2>2, <2>5, <2>6, CompletedStep
<1>9. CASE T # {}
  <2>1. run.plan.parity_targets # <<>>
    BY <1>4, <1>5, <1>9, EmptyListing
  <2>2. /\ pc' = "parity" /\ result' = result
        /\ run' = [run EXCEPT !.next = 1, !.inputs = ParityInputs(run.plan)]
    BY <2>1 DEF DataDone
  <2>3. run' = [plan |-> run.plan, inputs |-> ParityInputs(run.plan), next |-> 1]
    BY <1>3, <2>2
  <2>4. run'.plan = run.plan /\ run'.next = 1 /\ run'.inputs = ParityInputs(run.plan)
    BY <2>3
  <2>5. ParityInputs(run.plan)' = ParityInputs(run.plan)
    BY <2>4 DEF ParityInputs
  <2>6. run' = [plan |-> PlanOf(codec', before'.shards, before'.goal), inputs |-> ParityInputs(run.plan)',
                next |-> run'.next]
    BY <1>1, <1>3, <2>3, <2>4, <2>5
  <2>7. /\ Task(codec', before'.shards, before'.goal) /\ result' = "none"
        /\ Wanted(codec', before'.shards, before'.goal) # {}
        /\ D = DataTargets(codec', before'.shards, before'.goal)
        /\ T = ParityTargets(codec', before'.shards, before'.goal)
    BY <1>1, <1>2, <1>3, <2>2
  <2>8. Cardinality(D) + (run'.next - 1) = Cardinality(D) /\ run'.next \in 1 .. Cardinality(T) + 1
    BY <1>4, <2>4
  <2>9. shards' = After(codec', before'.shards, before'.goal, Cardinality(D) + (run'.next - 1))
    BY <1>1, <1>3, <1>6, <2>8
  <2>10. InParity'
    BY <1>9, <2>6, <2>7, <2>8, <2>9 DEF InParity, Running
  <2> QED BY <1>1, <2>2, <2>7, <2>9, <2>10, StageStep
<1> QED BY <1>8, <1>9

(* The last parity output ends the call. *)
LEMMA ParityDoneStep ==
    ASSUME IInv, ParityDone PROVE IInv'
<1>1. /\ InParity /\ run.next > Len(run.plan.parity_targets) /\ pc' = "idle" /\ result' = "Ok"
      /\ UNCHANGED <<container, codec, shards, workspace, before, edits, calls>>
  BY DEF IInv, ParityDone, Return
<1>2. PICK D, T : /\ D = DataTargets(codec, before.shards, before.goal)
                  /\ T = ParityTargets(codec, before.shards, before.goal)
  OBVIOUS
<1>3. /\ Task(codec, before.shards, before.goal) /\ codec \in Codecs /\ before.goal \in Goals
      /\ run.next \in 1 .. Cardinality(T) + 1
      /\ run.plan = PlanOf(codec, before.shards, before.goal)
      /\ shards = After(codec, before.shards, before.goal, Cardinality(D) + (run.next - 1))
  BY <1>1, <1>2 DEF InParity, Running, Task
<1>4. /\ T \in SUBSET Nat /\ IsFiniteSet(T) /\ Cardinality(D) \in Nat /\ Cardinality(T) \in Nat
      /\ Cardinality(Wanted(codec, before.shards, before.goal)) = Cardinality(D) + Cardinality(T)
  BY <1>2, <1>3, TargetsAreWanted
<1>5. Len(InOrder(T)) = Cardinality(T) /\ run.plan.parity_targets = InOrder(T)
  BY <1>2, <1>3, <1>4, PlanFields, InOrderLists
<1>6. Cardinality(D) + (run.next - 1) = Cardinality(Wanted(codec, before.shards, before.goal))
  BY <1>1, <1>3, <1>4, <1>5
<1>7. calls' \in 0 .. MaxCalls
  BY <1>1 DEF IInv, TypeOK
<1>8. /\ Task(codec, before'.shards, before'.goal)
      /\ shards' = After(codec, before'.shards, before'.goal,
                         Cardinality(Wanted(codec, before'.shards, before'.goal)))
  BY <1>1, <1>3, <1>6
<1> QED BY <1>1, <1>7, <1>8, CompletedStep

(* The caller's edits of the array. *)
LEMMA EditStep ==
    ASSUME IInv, NEW sh \in [Shards -> ShardStates], \A i \in Shards : sh[i].present => sh[i].right,
           NEW c \in Codecs, Edit(sh, c)
    PROVE  IInv'
<1>1. /\ pc' = "idle" /\ shards' = sh /\ codec' = c /\ result' = "none"
      /\ before' = [shards |-> sh, goal |-> [kind |-> "None"]]
      /\ UNCHANGED <<container, workspace, calls>>
      /\ edits \in 0 .. MaxEdits /\ edits < MaxEdits /\ edits' = edits + 1
      /\ calls \in 0 .. MaxCalls
  BY DEF IInv, TypeOK, Edit
<1>2. edits' \in 0 .. MaxEdits /\ calls' \in 0 .. MaxCalls
  BY <1>1, BoundsAssumption
<1>3. before'.shards = sh
  BY <1>1
<1>4. Prepared' /\ PresentIsRight'
  BY <1>1 DEF IInv, Prepared, PresentIsRight
<1> QED BY <1>1, <1>2, <1>3, <1>4, IdleStep

(* Shards that are lost, arrive or change their length. *)
LEMMA ShardKinds ==
    /\ Whole \in ShardStates /\ Whole.present /\ Whole.right
    /\ \A s \in ShardStates : Lost(s) \in ShardStates /\ ~ Lost(s).present
    /\ \A s \in ShardStates, len \in Lengths :
          /\ [s EXCEPT !.len = len] \in ShardStates
          /\ [s EXCEPT !.len = len].present = s.present /\ [s EXCEPT !.len = len].right = s.right
<1>1. StripeLen \in Lengths
  BY BoundsAssumption
<1>2. Whole \in ShardStates /\ Whole.present /\ Whole.right
  BY <1>1 DEF Whole, ShardStates
<1>3. \A s \in ShardStates : Lost(s) \in ShardStates /\ ~ Lost(s).present
  BY DEF Lost, ShardStates
<1>4. \A s \in ShardStates, len \in Lengths :
          /\ [s EXCEPT !.len = len] \in ShardStates
          /\ [s EXCEPT !.len = len].present = s.present /\ [s EXCEPT !.len = len].right = s.right
  BY DEF ShardStates
<1> QED BY <1>2, <1>3, <1>4

(* Whatever the caller does between calls. *)
LEMMA CallerStep ==
    ASSUME IInv, Caller PROVE IInv'
<1>1. /\ shards \in [Shards -> ShardStates] /\ codec \in Codecs
      /\ \A i \in Shards : shards[i].present => shards[i].right
  BY DEF IInv, TypeOK, PresentIsRight
<1>2. ASSUME NEW i \in Shards, NEW s \in ShardStates, s.present => s.right,
             Edit([shards EXCEPT ![i] = s], codec)
      PROVE  IInv'
  <2>1. PICK sh, c : sh = [shards EXCEPT ![i] = s] /\ c = codec
    OBVIOUS
  <2>2. sh \in [Shards -> ShardStates] /\ \A j \in Shards : sh[j].present => sh[j].right
    BY <1>1, <1>2, <2>1
  <2>3. Edit(sh, c) /\ c \in Codecs
    BY <1>1, <1>2, <2>1
  <2> QED BY <2>2, <2>3, EditStep
<1>3. ASSUME NEW i \in Shards, Lose(i) PROVE IInv'
  <2>1. PICK s : s = Lost(shards[i])
    OBVIOUS
  <2>2. s \in ShardStates /\ ~ s.present
    BY <1>1, <2>1, ShardKinds
  <2>3. Edit([shards EXCEPT ![i] = s], codec)
    BY <1>3, <2>1 DEF Lose
  <2> QED BY <1>2, <2>2, <2>3
<1>4. ASSUME NEW i \in Shards, Receive(i) PROVE IInv'
  BY <1>2, <1>4, ShardKinds DEF Receive
<1>5. ASSUME NEW i \in Shards, NEW len \in Lengths, Resize(i, len) PROVE IInv'
  <2>1. PICK s : s = [shards[i] EXCEPT !.len = len]
    OBVIOUS
  <2>2. s \in ShardStates /\ (s.present => s.right)
    BY <1>1, <2>1, ShardKinds
  <2>3. Edit([shards EXCEPT ![i] = s], codec)
    BY <1>5, <2>1 DEF Resize
  <2> QED BY <1>2, <2>2, <2>3
<1>6. ASSUME NEW c \in Codecs, Reencode(c) PROVE IInv'
  <2>1. PICK sh : sh = shards
    OBVIOUS
  <2>2. Edit(sh, c) /\ sh \in [Shards -> ShardStates]
        /\ \A i \in Shards : sh[i].present => sh[i].right
    BY <1>1, <1>6, <2>1 DEF Reencode
  <2> QED BY <2>2, EditStep
<1> QED BY <1>3, <1>4, <1>5, <1>6 DEF Caller

-----------------------------------------------------------------------------
(***************************************************************************)
(* The theorems.                                                           *)
(***************************************************************************)
(* The invariant holds initially. *)
LEMMA InitEstablishes == Init => IInv
<1> SUFFICES ASSUME Init PROVE IInv
  OBVIOUS
<1>1. /\ shards \in [Shards -> ShardStates] /\ \A i \in Shards : shards[i].present => shards[i].right
  <2>1. PICK missing \in SUBSET Shards :
          shards = [i \in Shards |-> IF i \in missing THEN Lost(Whole) ELSE Whole]
    BY DEF Init
  <2>2. Lost(Whole) \in ShardStates /\ ~ Lost(Whole).present
    BY ShardKinds
  <2> QED BY <2>1, <2>2, ShardKinds
<1>2. before.shards = shards
  BY DEF Init
<1>3. TypeOK
  BY <1>1, <1>2, BoundsAssumption DEF Init, TypeOK
<1> QED BY <1>1, <1>3
        DEF Init, IInv, PresentIsRight, Prepared, Succeeded, FailureRestoresAPrefix

(* Every step of every action keeps the invariant. *)
LEMMA StepKeeps == IInv /\ [Next]_vars => IInv'
<1> SUFFICES ASSUME IInv, [Next]_vars PROVE IInv'
  OBVIOUS
<1>1. CASE UNCHANGED vars
  <2>1. (TypeOK /\ PresentIsRight /\ Prepared)'
    BY <1>1 DEF IInv, vars, TypeOK, PresentIsRight, Prepared
  <2>2. Succeeded'
    BY <1>1 DEF IInv, vars, Succeeded, Restored
  <2>3. FailureRestoresAPrefix'
    BY <1>1 DEF IInv, vars, FailureRestoresAPrefix, Restored
  <2>4. (pc = "data" => InData)' /\ (pc = "parity" => InParity)'
    BY <1>1 DEF IInv, vars, InData, InParity, Running, ParityInputs
  <2> QED BY <2>1, <2>2, <2>3, <2>4 DEF IInv
<1>2. ASSUME NEW goal \in Goals, Reconstruct(goal) \/ ReconstructOpt(goal) PROVE IInv'
  BY <1>2, WithPlanStep DEF Reconstruct, ReconstructOpt
<1>3. ASSUME NEW goal \in Goals, Prepare(goal) PROVE IInv'
  BY <1>3, PrepareStep
<1>4. CASE ReconstructWithWorkspace \/ ReconstructOptWithWorkspace
  BY <1>4, WithWorkspaceStep DEF ReconstructWithWorkspace, ReconstructOptWithWorkspace
<1>5. CASE DataOutput
  BY <1>5, DataOutputStep
<1>6. CASE DataDone
  BY <1>6, DataDoneStep
<1>7. CASE ParityOutput
  BY <1>7, ParityOutputStep
<1>8. CASE ParityDone
  BY <1>8, ParityDoneStep
<1>9. CASE Caller
  BY <1>9, CallerStep
<1> QED BY <1>1, <1>2, <1>3, <1>4, <1>5, <1>6, <1>7, <1>8, <1>9 DEF Next

(* The invariant holds in every reachable state. *)
LEMMA Invariance == Spec => []IInv
BY InitEstablishes, StepKeeps, PTL DEF Spec

(* Every reachable state is well typed: the array, the workspace and the   *)
(* executor's stage, and no more edits and calls than were allowed.        *)
THEOREM TypeCorrect == Spec => []TypeOK
<1>1. IInv => TypeOK
  BY DEF IInv
<1> QED BY <1>1, Invariance, PTL

(* No shard is ever marked present with bytes that are not the stripe's,   *)
(* between two outputs of execute_classic_plan_with and after a refusal    *)
(* too, for every layout, mask, inline capacity and stale workspace.       *)
THEOREM PresentAreRight == Spec => []PresentIsRight
<1>1. IInv => PresentIsRight
  BY DEF IInv
<1> QED BY <1>1, Invariance, PTL

(* A call that succeeds restored exactly what it was asked for, and the    *)
(* plan that runs is that of the array it runs on: its survivors are the   *)
(* first present shards in order, its outputs the wanted shards in order.  *)
THEOREM SuccessRestoresTheWanted == Spec => []OkRestoresTheWanted
<1>1. IInv => OkRestoresTheWanted
  <2> SUFFICES ASSUME IInv PROVE OkRestoresTheWanted
    OBVIOUS
  <2>1. result = "Ok" =>
          \A i \in Shards : IF i \in Wanted(codec, before.shards, before.goal)
                              THEN Restored(i) ELSE shards[i] = before.shards[i]
    BY DEF IInv, Succeeded
  <2>2. ASSUME pc # "idle"
        PROVE  /\ run.plan.codec = codec
               /\ run.plan.valid_indices = SubSeq(InOrder(Present(before.shards)), 1, codec.data)
               /\ run.plan.data_targets \o run.plan.parity_targets
                    = InOrder(Wanted(codec, before.shards, before.goal))
    <3>1. /\ Task(codec, before.shards, before.goal)
          /\ Wanted(codec, before.shards, before.goal) # {}
          /\ run.plan = PlanOf(codec, before.shards, before.goal)
      BY <2>2 DEF IInv, TypeOK, InData, InParity, Running
    <3>2. codec \in Codecs /\ before.goal \in Goals
      BY <3>1 DEF Task
    <3>3. /\ Wanted(codec, before.shards, before.goal) \in SUBSET Missing(before.shards)
          /\ InOrder(DataTargets(codec, before.shards, before.goal))
               \o InOrder(ParityTargets(codec, before.shards, before.goal))
               = InOrder(Wanted(codec, before.shards, before.goal))
      BY <3>2, TargetsAreWanted
    <3>4. Missing(before.shards) # {}
      BY <3>1, <3>3
    <3>5. run.plan.valid_indices = SubSeq(InOrder(Present(before.shards)), 1, codec.data)
      BY <3>1, <3>4, SurvivorsAre
    <3>6. /\ run.plan.codec = codec
          /\ run.plan.data_targets = InOrder(DataTargets(codec, before.shards, before.goal))
          /\ run.plan.parity_targets = InOrder(ParityTargets(codec, before.shards, before.goal))
      BY <3>1, PlanFields
    <3> QED BY <3>3, <3>5, <3>6
  <2> QED BY <2>1, <2>2 DEF OkRestoresTheWanted
<1> QED BY <1>1, Invariance, PTL

(* A call that fails restored exactly the wanted shards below the first    *)
(* destination that refused the shard length, and nothing at all when      *)
(* validation or planning failed.                                          *)
THEOREM FailureLeavesAPrefix == Spec => []FailureRestoresAPrefix
<1>1. IInv => FailureRestoresAPrefix
  BY DEF IInv
<1> QED BY <1>1, Invariance, PTL

-----------------------------------------------------------------------------
(***************************************************************************)
(* Progressive recovery.  A destination holds a sum in which a term added  *)
(* twice is a term lost, so what has to be shown is that the terms of the  *)
(* batches are apart and that a rejected call adds none of them.  A merge  *)
(* takes over all a worker owes only because the summands it passes over,  *)
(* the unprepared ones, never held anything: that is PreparedOK.           *)
(***************************************************************************)

(* What is prepared stays prepared, but for destinations of the collecting *)
(* worker once its own batches are in.                                     *)
PreparedOK ==
  \A w \in Workers, i \in Idx!Shards :
    /\ dst[w][i].some => i \in Destinations
    /\ i \in Destinations /\ ~dst[w][i].some =>
         w = Main /\ \A j \in Jobs : j.worker = w => j \in done

ProgressIInv == Idx!TypeOK /\ PreparedOK /\ Idx!HoldsWhatWasAccepted

Buffer == [some : BOOLEAN, len : {0, Idx!Short, Idx!Stripe}, holds : SUBSET Survivors]

LEMMA DstType == ASSUME Idx!TypeOK PROVE dst \in [Workers -> [Idx!Shards -> Buffer]]
  BY DEF Idx!TypeOK, Buffer

(* Two batches never have a survivor in common.                            *)
LEMMA BatchesApart ==
    ASSUME NEW i \in Jobs, NEW j \in Jobs, i # j
    PROVE  i.inputs \cap j.inputs \cap Survivors = {}
  BY ProgressiveAssumption DEF Idx!JobAssumption

LEMMA JobTypes ==
    ASSUME NEW j \in Jobs PROVE j.worker \in Workers /\ j.inputs \subseteq Idx!Shards
  BY ProgressiveAssumption DEF Idx!JobAssumption

LEMMA SameCardinality == \A S : Idx!Cardinality(S) = Cardinality(S)
  BY DEF Idx!Cardinality, Cardinality

(* The columns of a batch that is expected are all of its survivors.       *)
LEMMA WholeContribution ==
    ASSUME NEW inputs PROVE Idx!Contribution(Survivors, inputs) = inputs \cap Survivors
<1>1. ASSUME NEW i \in inputs \cap Survivors
      PROVE  Cardinality({j \in Survivors : j < i}) < DataShards
  <2> DEFINE below == {j \in Survivors : j < i}
  <2>1. Survivors \subseteq Int /\ IsFiniteSet(Survivors) /\ Cardinality(Survivors) = DataShards
    <3>1. Survivors \subseteq 0 .. TotalShards - 1 /\ TotalShards \in Nat
      BY ProgressiveAssumption DEF Idx!RecoveryAssumption, Idx!Shards
    <3>2. IsFiniteSet(0 .. TotalShards - 1)
      BY <3>1, FS_Interval
    <3>3. IsFiniteSet(Survivors)
      BY <3>1, <3>2, FS_Subset
    <3> QED BY <3>1, <3>3, ProgressiveAssumption, SameCardinality DEF Idx!RecoveryAssumption
  <2>2. below \subseteq Survivors /\ i \in Survivors /\ i \notin below
    <3>1. i \in Int
      BY <2>1
    <3>2. ~(i < i)
      BY <3>1
    <3> QED BY <3>2
  <2>3. below # Survivors
    BY <2>2
  <2>4. Cardinality(below) < Cardinality(Survivors)
    <3>1. IsFiniteSet(below) /\ Cardinality(below) <= Cardinality(Survivors)
          /\ (Cardinality(below) = Cardinality(Survivors) => below = Survivors)
      BY <2>1, <2>2, FS_Subset
    <3>2. Cardinality(below) \in Nat /\ Cardinality(Survivors) \in Nat
      BY <2>1, <3>1, FS_CardinalityType
    <3> QED BY <2>3, <3>1, <3>2
  <2> QED BY <2>1, <2>4
<1> QED BY <1>1, SameCardinality DEF Idx!Contribution

LEMMA InitProgress == Idx!Init => ProgressIInv
<1> SUFFICES ASSUME Idx!Init PROVE ProgressIInv
  OBVIOUS
<1>1. dst \in [Workers -> [Idx!Shards -> Buffer]]
  <2>1. \A i \in Idx!Shards : Idx!Prepared(i) \in Buffer
    BY DEF Idx!Prepared, Buffer
  <2> QED BY <2>1 DEF Idx!Init
<1>2. Idx!TypeOK
  <2>1. 0 \in 0 .. MaxBreaks /\ 0 \in 0 .. MaxDecodes
    BY ProgressiveAssumption DEF Idx!RecoveryAssumption
  <2> QED BY <1>1, <2>1 DEF Idx!Init, Idx!TypeOK, Buffer
<1>3. \A w \in Workers, i \in Idx!Shards : dst[w][i].holds = {} /\ dst[w][i].some = (i \in Destinations)
  BY DEF Idx!Init, Idx!Prepared
<1>4. \A w : Idx!Owned(w) = {}
  BY DEF Idx!Init, Idx!Owned
<1> QED BY <1>2, <1>3, <1>4 DEF ProgressIInv, PreparedOK, Idx!HoldsWhatWasAccepted

(* A step that keeps what every destination holds and is told, and takes   *)
(* none away that batches are owed to.                                     *)
LEMMA ProgressKept ==
    ASSUME ProgressIInv, UNCHANGED <<done, merged>>, PreparedOK',
           dst' \in [Workers -> [Idx!Shards -> Buffer]],
           \A w \in Workers, i \in Idx!Shards : dst'[w][i].holds = dst[w][i].holds
    PROVE  Idx!HoldsWhatWasAccepted'
<1>1. \A w : Idx!Owned(w)' = Idx!Owned(w)
  BY DEF Idx!Owned
<1> QED BY <1>1 DEF ProgressIInv, Idx!HoldsWhatWasAccepted

LEMMA MalformedKeeps ==
    ASSUME ProgressIInv, NEW error, Idx!Malformed(error) PROVE ProgressIInv'
<1>1. Idx!TypeOK'
  BY ProgressiveAssumption DEF ProgressIInv, Idx!TypeOK, Idx!Malformed, Idx!Call, Idx!RecoveryAssumption
<1>2. PreparedOK' /\ Idx!HoldsWhatWasAccepted'
  <2>1. UNCHANGED <<dst, done, merged>>
    BY DEF Idx!Malformed
  <2>2. \A w : Idx!Owned(w)' = Idx!Owned(w)
    BY <2>1 DEF Idx!Owned
  <2>3. PreparedOK'
    BY <2>1 DEF ProgressIInv, PreparedOK
  <2> QED BY <2>1, <2>2, <2>3 DEF ProgressIInv, Idx!HoldsWhatWasAccepted
<1> QED BY <1>1, <1>2 DEF ProgressIInv

LEMMA BreakKeeps ==
    ASSUME ProgressIInv, NEW w \in Workers, NEW i \in Idx!Shards, NEW broken \in Idx!BrokenForms,
           Idx!Break(w, i, broken)
    PROVE  ProgressIInv'
<1> DEFINE b == [broken EXCEPT !.holds = dst[w][i].holds]
<1>1. dst \in [Workers -> [Idx!Shards -> Buffer]]
  BY DstType DEF ProgressIInv
<1>2. b \in Buffer /\ b.holds = dst[w][i].holds /\ b.some = broken.some
  <2>1. dst[w][i].holds \in SUBSET Survivors
    BY <1>1 DEF Buffer
  <2>2. CASE broken = [some |-> TRUE, len |-> Idx!Short, holds |-> {}]
    BY <2>1, <2>2 DEF Buffer
  <2>3. CASE broken = [some |-> FALSE, len |-> 0, holds |-> {}]
    BY <2>1, <2>3 DEF Buffer
  <2> QED BY <2>2, <2>3 DEF Idx!BrokenForms
<1>3. dst' = [dst EXCEPT ![w][i] = b]
  BY DEF Idx!Break
<1> HIDE DEF b
<1>4. dst' \in [Workers -> [Idx!Shards -> Buffer]]
  BY <1>1, <1>2, <1>3
<1>5. \A v \in Workers, k \in Idx!Shards : dst'[v][k] = IF v = w /\ k = i THEN b ELSE dst[v][k]
  BY <1>1, <1>3
<1>6. Idx!TypeOK'
  BY <1>4, ProgressiveAssumption DEF ProgressIInv, Idx!TypeOK, Idx!Break, Idx!RecoveryAssumption, Buffer
<1>7. PreparedOK'
  <2>1. UNCHANGED done /\ dst[w][i].some
        /\ (~ broken.some => w = Main /\ \A j \in Jobs : j.worker = w => j \in done)
    BY DEF Idx!Break
  <2> QED BY <1>2, <1>5, <2>1 DEF ProgressIInv, PreparedOK
<1>8. \A v \in Workers, k \in Idx!Shards : dst'[v][k].holds = dst[v][k].holds
  BY <1>2, <1>5
<1>9. UNCHANGED <<done, merged>>
  BY DEF Idx!Break
<1> QED BY <1>4, <1>6, <1>7, <1>8, <1>9, ProgressKept DEF ProgressIInv

LEMMA RepairKeeps ==
    ASSUME ProgressIInv, NEW w \in Workers, NEW i \in Idx!Shards, Idx!Repair(w, i)
    PROVE  ProgressIInv'
<1> DEFINE b == [dst[w][i] EXCEPT !.some = TRUE, !.len = Idx!Stripe]
<1>1. dst \in [Workers -> [Idx!Shards -> Buffer]]
  BY DstType DEF ProgressIInv
<1>2. b \in Buffer /\ b.holds = dst[w][i].holds /\ b.some
  <2>1. dst[w][i] \in Buffer
    BY <1>1
  <2> QED BY <2>1 DEF Buffer
<1>3. dst' = [dst EXCEPT ![w][i] = b]
  BY DEF Idx!Repair
<1> HIDE DEF b
<1>4. dst' \in [Workers -> [Idx!Shards -> Buffer]]
  BY <1>1, <1>2, <1>3
<1>5. \A v \in Workers, k \in Idx!Shards : dst'[v][k] = IF v = w /\ k = i THEN b ELSE dst[v][k]
  BY <1>1, <1>3
<1>6. Idx!TypeOK'
  BY <1>4 DEF ProgressIInv, Idx!TypeOK, Idx!Repair, Buffer
<1>7. PreparedOK'
  <2>1. UNCHANGED done /\ i \in Destinations
    BY DEF Idx!Repair
  <2> QED BY <1>2, <1>5, <2>1 DEF ProgressIInv, PreparedOK
<1>8. \A v \in Workers, k \in Idx!Shards : dst'[v][k].holds = dst[v][k].holds
  BY <1>2, <1>5
<1>9. UNCHANGED <<done, merged>>
  BY DEF Idx!Repair
<1> QED BY <1>4, <1>6, <1>7, <1>8, <1>9, ProgressKept DEF ProgressIInv
(* What a worker has been told it holds, when a batch is accepted.         *)
LEMMA OwnedGrows ==
    ASSUME ProgressIInv, NEW job \in Jobs, job \notin done, job.worker \notin merged,
           done' = done \cup {job}, merged' = merged, NEW w \in Workers
    PROVE  /\ w = job.worker => Idx!Owned(w)' = Idx!Owned(w) \cup (job.inputs \cap Survivors)
           /\ w # job.worker => Idx!Owned(w)' = Idx!Owned(w)
           /\ Idx!Owned(w) \cap job.inputs \cap Survivors = {}
<1> DEFINE told == {k \in done : k.worker = w \/ (w = Main /\ k.worker \in merged)}
           now == {k \in done' : k.worker = w \/ (w = Main /\ k.worker \in merged')}
<1>1. Idx!Owned(w) = Survivors \cap UNION {j.inputs : j \in told}
      /\ Idx!Owned(w)' = Survivors \cap UNION {j.inputs : j \in now}
  BY DEF Idx!Owned
<1>2. done \subseteq Jobs
  BY DEF ProgressIInv, Idx!TypeOK
<1>3. w = job.worker => now = told \cup {job}
  OBVIOUS
<1>4. w # job.worker => now = told
  OBVIOUS
<1>5. \A k \in told : k \in Jobs /\ k # job
  BY <1>2
<1> HIDE DEF told, now
<1>6. \A k \in told : k.inputs \cap job.inputs \cap Survivors = {}
  BY <1>5, BatchesApart
<1>7. \A x : x \in Idx!Owned(w) <=> x \in Survivors /\ \E k \in told : x \in k.inputs
  BY <1>1
<1>8. \A x : x \in Idx!Owned(w)' <=> x \in Survivors /\ \E k \in now : x \in k.inputs
  BY <1>1
<1>9. Idx!Owned(w) \cap job.inputs \cap Survivors = {}
  BY <1>6, <1>7
<1>10. CASE w = job.worker
  <2>1. \A x : x \in Idx!Owned(w)' <=> x \in Idx!Owned(w) \/ x \in job.inputs \cap Survivors
    BY <1>3, <1>7, <1>8, <1>10
  <2>2. Idx!Owned(w)' = Idx!Owned(w) \cup (job.inputs \cap Survivors)
    BY <2>1
  <2> QED BY <1>9, <1>10, <2>2
<1>11. CASE w # job.worker
  BY <1>1, <1>4, <1>9, <1>11
<1> QED BY <1>10, <1>11

(* Adding terms to what is prepared.                                       *)
LEMMA Accumulated ==
    ASSUME ProgressIInv, NEW w \in Workers, NEW terms \in SUBSET Survivors,
           dst' = Idx!Accumulate(w, terms)
    PROVE  /\ dst' \in [Workers -> [Idx!Shards -> Buffer]]
           /\ \A v \in Workers, i \in Idx!Shards :
                /\ dst'[v][i].some = dst[v][i].some /\ dst'[v][i].len = dst[v][i].len
                /\ dst'[v][i].holds = IF v = w /\ dst[v][i].some
                                      THEN Idx!SymDiff(dst[v][i].holds, terms) ELSE dst[v][i].holds
<1>1. dst \in [Workers -> [Idx!Shards -> Buffer]]
  BY DstType DEF ProgressIInv
<1> DEFINE row == [i \in Idx!Shards |->
             IF dst[w][i].some THEN Idx!Plus(dst[w][i], terms)
             ELSE dst[w][i]]
<1>2. dst' = [dst EXCEPT ![w] = row]
  BY Zenon DEF Idx!Accumulate
<1>3. ASSUME NEW i \in Idx!Shards
      PROVE  /\ row[i] \in Buffer /\ row[i].some = dst[w][i].some /\ row[i].len = dst[w][i].len
             /\ row[i].holds = IF dst[w][i].some THEN Idx!SymDiff(dst[w][i].holds, terms)
                                                ELSE dst[w][i].holds
  <2>1. PICK b \in Buffer : b = dst[w][i]
    BY <1>1
  <2>2. Idx!SymDiff(b.holds, terms) \in SUBSET Survivors
    BY DEF Buffer, Idx!SymDiff
  <2>3. row[i] = IF b.some THEN Idx!Plus(b, terms) ELSE b
    BY <2>1
  <2> HIDE DEF row
  <2> QED BY <2>1, <2>2, <2>3 DEF Buffer, Idx!Plus
<1>4. row \in [Idx!Shards -> Buffer]
  BY <1>3
<1> HIDE DEF row
<1>5. dst' \in [Workers -> [Idx!Shards -> Buffer]]
  BY <1>1, <1>2, <1>4
<1>6. \A v \in Workers : dst'[v] = IF v = w THEN row ELSE dst[v]
  BY <1>1, <1>2
<1> QED BY <1>3, <1>5, <1>6

LEMMA ContributeKeeps ==
    ASSUME ProgressIInv, NEW job \in Jobs, NEW mask \in {Survivors} \cup WrongMasks,
           NEW damaged \in SUBSET job.inputs, Idx!Contribute(job, mask, damaged)
    PROVE  ProgressIInv'
<1> DEFINE w == job.worker
           len == [i \in job.inputs |-> IF i \in damaged THEN Idx!Damaged ELSE Idx!Stripe]
           error == Idx!ExpectError(w, mask, len)
<1>1. /\ decodes < MaxDecodes /\ decodes' = decodes + 1
      /\ job \notin done /\ w \notin merged /\ UNCHANGED <<singular, merged, breaks>>
      /\ error = "Ok" => dst' = Idx!Accumulate(w, Idx!Contribution(mask, job.inputs))
      /\ error # "Ok" => UNCHANGED dst
      /\ done' = IF error = "Ok" /\ mask = Survivors THEN done \cup {job} ELSE done
  BY DEF Idx!Contribute, Idx!Call
<1>2. w \in Workers /\ DOMAIN len = job.inputs
  BY JobTypes
<1>3. dst \in [Workers -> [Idx!Shards -> Buffer]]
  BY DstType DEF ProgressIInv
<1>4. error = "Ok" =>
        \/ \A i \in Idx!Shards : ~ dst[w][i].some
        \/ Idx!Contribution(mask, job.inputs) = {}
        \/ Idx!Cardinality(mask) = DataShards
  BY <1>2 DEF Idx!ExpectError, Idx!Kept
<1>5. decodes' \in 0 .. MaxDecodes /\ breaks' \in 0 .. MaxBreaks /\ singular' \in BOOLEAN
      /\ merged' \subseteq Workers \ {Main} /\ done' \subseteq Jobs
  BY <1>1, ProgressiveAssumption DEF ProgressIInv, Idx!TypeOK, Idx!RecoveryAssumption
<1> HIDE DEF error, len
<1>6. CASE error = "Ok" /\ mask = Survivors
  <2>1. dst' = Idx!Accumulate(w, job.inputs \cap Survivors) /\ done' = done \cup {job} /\ merged' = merged
    BY <1>1, <1>6, WholeContribution
  <2>2. job.inputs \cap Survivors \in SUBSET Survivors
    OBVIOUS
  <2> DEFINE t == job.inputs \cap Survivors
  <2>3. /\ dst' \in [Workers -> [Idx!Shards -> Buffer]]
        /\ \A v \in Workers, i \in Idx!Shards :
             /\ dst'[v][i].some = dst[v][i].some /\ dst'[v][i].len = dst[v][i].len
             /\ dst'[v][i].holds = IF v = w /\ dst[v][i].some
                                   THEN Idx!SymDiff(dst[v][i].holds, t) ELSE dst[v][i].holds
    BY <1>2, <2>1, <2>2, Accumulated
  <2>4. Idx!TypeOK'
    BY <1>5, <2>3 DEF Idx!TypeOK, Buffer
  <2>5. PreparedOK'
    BY <1>1, <2>1, <2>3 DEF ProgressIInv, PreparedOK
  <2>6. ASSUME NEW v \in Workers, NEW i \in Idx!Shards
        PROVE  dst'[v][i].holds = IF i \in Destinations THEN Idx!Owned(v)' ELSE {}
    <3>1. dst[v][i].holds = IF i \in Destinations THEN Idx!Owned(v) ELSE {}
      BY DEF ProgressIInv, Idx!HoldsWhatWasAccepted
    <3>2. dst[v][i].some => i \in Destinations
      BY DEF ProgressIInv, PreparedOK
    <3>3. v = w /\ i \in Destinations => dst[v][i].some
      BY <1>1 DEF ProgressIInv, PreparedOK
    <3>4. /\ v = w => Idx!Owned(v)' = Idx!Owned(v) \cup t
          /\ v # w => Idx!Owned(v)' = Idx!Owned(v)
          /\ Idx!Owned(v) \cap t = {}
      BY <1>1, <2>1, OwnedGrows
    <3> HIDE DEF t, w
    <3>5. dst'[v][i].holds = IF v = w /\ dst[v][i].some
                             THEN Idx!SymDiff(dst[v][i].holds, t) ELSE dst[v][i].holds
      BY <2>3
    <3>6. Idx!SymDiff(Idx!Owned(v), t) = Idx!Owned(v) \cup t
      BY <3>4 DEF Idx!SymDiff
    <3> QED BY <3>1, <3>2, <3>3, <3>4, <3>5, <3>6
  <2> QED BY <2>4, <2>5, <2>6 DEF ProgressIInv, Idx!HoldsWhatWasAccepted
<1>7. CASE ~(error = "Ok" /\ mask = Survivors)
  <2>1. UNCHANGED <<done, merged>>
    BY <1>1, <1>7
  <2>2. /\ dst' \in [Workers -> [Idx!Shards -> Buffer]]
        /\ \A v \in Workers, i \in Idx!Shards :
             /\ dst'[v][i].some = dst[v][i].some /\ dst'[v][i].holds = dst[v][i].holds
    <3>1. CASE error # "Ok"
      BY <1>1, <1>3, <3>1
    <3>2. CASE error = "Ok"
      <4>1. mask \in WrongMasks
        BY <1>7, <3>2
      <4>2. \/ \A i \in Idx!Shards : ~ dst[w][i].some
            \/ Idx!Contribution(mask, job.inputs) = {}
        BY <1>4, <3>2, <4>1, ProgressiveAssumption DEF Idx!RecoveryAssumption
      <4>3. dst' = Idx!Accumulate(w, Idx!Contribution(mask, job.inputs))
        BY <1>1, <3>2
      <4>4. CASE Idx!Contribution(mask, job.inputs) = {}
        <5>1. dst' = Idx!Accumulate(w, {})
          BY <4>3, <4>4
        <5>2. \A s : Idx!SymDiff(s, {}) = s
          BY DEF Idx!SymDiff
        <5> QED BY <1>2, <5>1, <5>2, Accumulated
      <4>5. CASE \A i \in Idx!Shards : ~ dst[w][i].some
        <5>1. dst' = [dst EXCEPT ![w] = [i \in Idx!Shards |-> dst[w][i]]]
          BY <1>2, <1>3, <4>3, <4>5 DEF Idx!Accumulate
        <5>2. [i \in Idx!Shards |-> dst[w][i]] = dst[w]
          BY <1>2, <1>3
        <5>3. dst' = dst
          BY <1>2, <1>3, <5>1, <5>2
        <5> QED BY <1>3, <5>3
      <4> QED BY <4>2, <4>4, <4>5
    <3> QED BY <3>1, <3>2
  <2>3. Idx!TypeOK'
    BY <1>5, <2>2 DEF Idx!TypeOK, Buffer
  <2>4. PreparedOK'
    BY <2>1, <2>2 DEF ProgressIInv, PreparedOK
  <2> QED BY <2>1, <2>2, <2>3, <2>4, ProgressKept DEF ProgressIInv
<1> QED BY <1>6, <1>7

LEMMA MergeKeeps ==
    ASSUME ProgressIInv, NEW w \in Workers, Idx!Merge(w) PROVE ProgressIInv'
<1>1. /\ decodes < MaxDecodes /\ decodes' = decodes + 1 /\ w \notin merged /\ w # Main
      /\ \A j \in Jobs : j.worker = w => j \in done
      /\ dst' = Idx!MergedAll(w) /\ UNCHANGED <<singular, done, breaks>>
      /\ merged' = IF Idx!Misfits(w) = {} THEN merged \cup {w} ELSE merged
  BY DEF Idx!Merge, Idx!Call
<1>2. dst \in [Workers -> [Idx!Shards -> Buffer]] /\ Main \in Workers /\ TotalShards \in Nat
  BY DstType, ProgressiveAssumption DEF ProgressIInv, Idx!RecoveryAssumption
<1>3. decodes' \in 0 .. MaxDecodes /\ breaks' \in 0 .. MaxBreaks /\ singular' \in BOOLEAN
      /\ merged' \subseteq Workers \ {Main} /\ done' \subseteq Jobs
  BY <1>1, ProgressiveAssumption DEF ProgressIInv, Idx!TypeOK, Idx!RecoveryAssumption
<1>4. CASE Idx!Misfits(w) # {}
  <2>1. UNCHANGED <<dst, done, merged>>
    BY <1>1, <1>4 DEF Idx!MergedAll
  <2>2. Idx!TypeOK'
    BY <1>2, <1>3, <2>1 DEF Idx!TypeOK, Buffer
  <2>3. PreparedOK'
    BY <2>1 DEF ProgressIInv, PreparedOK
  <2> QED BY <1>2, <2>1, <2>2, <2>3, ProgressKept DEF ProgressIInv
<1>5. CASE Idx!Misfits(w) = {}
  <2> DEFINE row == [i \in Idx!Shards |->
               IF i < TotalShards /\ dst[w][i].some
               THEN Idx!Plus(dst[Main][i], dst[w][i].holds)
               ELSE dst[Main][i]]
  <2>1. dst' = [dst EXCEPT ![Main] = row] /\ merged' = merged \cup {w}
    BY <1>1, <1>5, Zenon DEF Idx!MergedAll, Idx!Xored
  <2>2. ASSUME NEW i \in Idx!Shards
        PROVE  /\ row[i] \in Buffer /\ row[i].some = dst[Main][i].some
               /\ row[i].holds = IF dst[w][i].some THEN Idx!SymDiff(dst[Main][i].holds, dst[w][i].holds)
                                                  ELSE dst[Main][i].holds
    <3>1. PICK b \in Buffer : b = dst[Main][i]
      BY <1>2
    <3>2. PICK c \in Buffer : c = dst[w][i]
      BY <1>2
    <3>3. Idx!SymDiff(b.holds, c.holds) \in SUBSET Survivors
      BY DEF Buffer, Idx!SymDiff
    <3>4. i < TotalShards
      BY <1>2 DEF Idx!Shards
    <3>5. row[i] = IF c.some THEN Idx!Plus(b, c.holds) ELSE b
      BY <3>1, <3>2, <3>4
    <3> HIDE DEF row
    <3> QED BY <3>1, <3>2, <3>3, <3>5 DEF Buffer, Idx!Plus
  <2>3. row \in [Idx!Shards -> Buffer]
    BY <2>2
  <2> HIDE DEF row
  <2>4. dst' \in [Workers -> [Idx!Shards -> Buffer]]
    BY <1>2, <2>1, <2>3
  <2>5. \A v \in Workers : dst'[v] = IF v = Main THEN row ELSE dst[v]
    BY <1>2, <2>1
  <2>6. Idx!TypeOK'
    BY <1>3, <2>4 DEF Idx!TypeOK, Buffer
  <2>7. PreparedOK'
    BY <1>1, <2>2, <2>5 DEF ProgressIInv, PreparedOK
  <2>8. \A v \in Workers : v # Main => Idx!Owned(v)' = Idx!Owned(v)
    BY <1>1 DEF Idx!Owned
  <2>9. Idx!Owned(Main)' = Idx!Owned(Main) \cup Idx!Owned(w) /\ Idx!Owned(Main) \cap Idx!Owned(w) = {}
    <3> DEFINE mine == {k \in done : k.worker = Main \/ k.worker \in merged}
               yours == {k \in done : k.worker = w}
               now == {k \in done' : k.worker = Main \/ k.worker \in merged'}
    <3>1. /\ Idx!Owned(Main) = Survivors \cap UNION {j.inputs : j \in mine}
          /\ Idx!Owned(w) = Survivors \cap UNION {j.inputs : j \in yours}
          /\ Idx!Owned(Main)' = Survivors \cap UNION {j.inputs : j \in now}
      BY <1>1 DEF Idx!Owned
    <3>2. now = mine \cup yours
      BY <1>1, <2>1
    <3>3. \A k \in mine, j \in yours : k \in Jobs /\ j \in Jobs /\ k # j
      BY <1>1 DEF ProgressIInv, Idx!TypeOK
    <3> HIDE DEF mine, yours, now
    <3>4. \A k \in mine, j \in yours : k.inputs \cap j.inputs \cap Survivors = {}
      BY <3>3, BatchesApart
    <3>5. /\ \A x : x \in Idx!Owned(Main) <=> x \in Survivors /\ \E k \in mine : x \in k.inputs
          /\ \A x : x \in Idx!Owned(w) <=> x \in Survivors /\ \E k \in yours : x \in k.inputs
          /\ \A x : x \in Idx!Owned(Main)' <=> x \in Survivors /\ \E k \in now : x \in k.inputs
      BY <3>1
    <3>6. Idx!Owned(Main) \cap Idx!Owned(w) = {}
      BY <3>4, <3>5
    <3>7. \A x : x \in Idx!Owned(Main)' <=> x \in Idx!Owned(Main) \/ x \in Idx!Owned(w)
      BY <3>2, <3>5
    <3>8. Idx!Owned(Main)' = Idx!Owned(Main) \cup Idx!Owned(w)
      BY <3>7
    <3> QED BY <3>6, <3>8
  <2>10. ASSUME NEW v \in Workers, NEW i \in Idx!Shards
         PROVE  dst'[v][i].holds = IF i \in Destinations THEN Idx!Owned(v)' ELSE {}
    <3>1. /\ dst[v][i].holds = IF i \in Destinations THEN Idx!Owned(v) ELSE {}
          /\ dst[w][i].holds = IF i \in Destinations THEN Idx!Owned(w) ELSE {}
      BY DEF ProgressIInv, Idx!HoldsWhatWasAccepted
    <3>2. dst[w][i].some <=> i \in Destinations
      BY <1>1 DEF ProgressIInv, PreparedOK
    <3>3. CASE v # Main
      BY <2>5, <2>8, <3>1, <3>3
    <3>4. CASE v = Main
      <4>1. Idx!SymDiff(Idx!Owned(Main), Idx!Owned(w)) = Idx!Owned(Main) \cup Idx!Owned(w)
        BY <2>9 DEF Idx!SymDiff
      <4> QED BY <2>2, <2>5, <2>9, <3>1, <3>2, <3>4, <4>1
    <3> QED BY <3>3, <3>4
  <2> QED BY <2>6, <2>7, <2>10 DEF ProgressIInv, Idx!HoldsWhatWasAccepted
<1> QED BY <1>4, <1>5

LEMMA ProgressInductive == ProgressIInv /\ [Idx!Next]_(Idx!vars) => ProgressIInv'
<1> SUFFICES ASSUME ProgressIInv, [Idx!Next]_(Idx!vars) PROVE ProgressIInv'
  OBVIOUS
<1>1. CASE Idx!Next
  BY <1>1, ContributeKeeps, MalformedKeeps, MergeKeeps, BreakKeeps, RepairKeeps DEF Idx!Next
<1>2. CASE UNCHANGED Idx!vars
  <2>1. \A w : Idx!Owned(w)' = Idx!Owned(w)
    BY <1>2 DEF Idx!Owned, Idx!vars
  <2> QED BY <1>2, <2>1 DEF ProgressIInv, Idx!TypeOK, PreparedOK, Idx!HoldsWhatWasAccepted, Idx!vars
<1> QED BY <1>1, <1>2

(* Every prepared destination of every worker holds the terms of exactly   *)
(* the batches the worker's calls accepted, of the merged workers' too, of *)
(* each once: whatever was rejected, broken, repaired and called again in  *)
(* between (decode_idx checks a whole batch before it adds any of it).     *)
THEOREM HoldsEachTermOnce == MCSpec => []HoldsWhatWasAccepted
<1>1. MCInit => ProgressIInv
  BY InitProgress DEF MCInit
<1>2. ProgressIInv /\ [MCNext]_<<subject, vars, progressiveVars>> => ProgressIInv'
  <2>1. [MCNext]_<<subject, vars, progressiveVars>> => [Idx!Next]_(Idx!vars)
    BY DEF MCNext, progressiveVars, Idx!vars
  <2> QED BY <2>1, ProgressInductive
<1>3. ProgressIInv => HoldsWhatWasAccepted
  BY DEF ProgressIInv, HoldsWhatWasAccepted
<1> QED BY <1>1, <1>2, <1>3, PTL DEF MCSpec

=============================================================================
