-------------------------- MODULE ShardEncodeProofs --------------------------
(***************************************************************************)
(* Proofs about ShardEncode and ParallelSchedule, for every number of data *)
(* and parity shards, every length and chunk length, every policy and      *)
(* every number of threads: the parity is the sum of exactly what was put  *)
(* into it, verification tells right from wrong parity, and however a call *)
(* is cut into jobs, every element of every output is coded once, with its *)
(* own row and from its own place.                                         *)
(*                                                                         *)
(* The coding loops are recursive functions. What such a loop computes is  *)
(* found without induction theorems: the closed form solves the loop's     *)
(* equation, and of two solutions that differ, the first place where they  *)
(* do is none.                                                             *)
(*                                                                         *)
(* The second half is about the schedule. Each way of cutting a call is    *)
(* shown to be a Division: every element of every output is in exactly one *)
(* piece of exactly one task, and the tasks are no more than the jobs that *)
(* were decided. Products and quotients are kept behind the operators At,  *)
(* No and Rem, so that most steps are free of non-linear arithmetic.       *)
(***************************************************************************)
EXTENDS MCShardEncode, FiniteSetTheorems, WellFoundedInduction, SequenceTheorems, TLAPS

(* A set of naturals has a least element. *)
LEMMA MinIsLeast ==
    ASSUME NEW S \in SUBSET Nat, S # {}
    PROVE  Min(S) \in S /\ \A j \in S : Min(S) <= j
<1>1. PICK x \in S : \A y \in S : ~ (<<y, x>> \in OpToRel(<, Nat))
  BY NatLessThanWellFounded, WFMin, Zenon
<1>2. ASSUME NEW y \in S, y < x PROVE <<y, x>> \in OpToRel(<, Nat)
  <2>1. <<y, x>> \in Nat \X Nat
    OBVIOUS
  <2>2. <<y, x>>[1] < <<y, x>>[2]
    BY <1>2
  <2> QED BY <2>1, <2>2, Zenon DEF OpToRel
<1>3. \A y \in S : ~ (y < x)
  BY <1>1, <1>2, Zenon
<1>4. \A y \in S : x <= y
  BY <1>3
<1> QED BY <1>4 DEF Min

-----------------------------------------------------------------------------
(***************************************************************************)
(* Sums of terms.                                                          *)
(***************************************************************************)
(* What the parity may stand for. *)
Foldings == [Data -> Contents \cup {None}]

(* One element of the parity of the shards in g. *)
Terms(g, r, p) == {<<Coefficient(r, i), i, g[i][p]>> : i \in {j \in Data : g[j] # None}}

LEMMA ParityIsTerms ==
    ASSUME NEW g PROVE ParityOf(g) = [r \in Rows |-> [p \in Elems |-> Terms(g, r, p)]]
BY DEF ParityOf, Terms

(* No content is mistaken for no content. *)
LEMMA ContentsAreSome == None \notin Contents
<1>1. DOMAIN None = {}
  BY DEF None
<1>2. \A s \in Contents : 1 \in DOMAIN s
  BY ShardEncodeAssumption DEF Elems
<1> QED BY <1>1, <1>2

(* A shard that is not in the sum is added to it. *)
LEMMA AddedTerm ==
    ASSUME NEW g \in Foldings, NEW i \in Data, g[i] = None, NEW s \in Contents, NEW r, NEW p
    PROVE  Add(Terms(g, r, p), Times(Coefficient(r, i), i, s[p])) = Terms([g EXCEPT ![i] = s], r, p)
<1> DEFINE h == [g EXCEPT ![i] = s]
           x == <<Coefficient(r, i), i, s[p]>>
<1>1. h[i] = s /\ s # None /\ \A j \in Data : j # i => h[j] = g[j]
  BY ContentsAreSome DEF Foldings
<1>2. \A t : t \in Terms(g, r, p) <=>
          \E j \in Data : j # i /\ g[j] # None /\ t = <<Coefficient(r, j), j, g[j][p]>>
  BY DEF Terms
<1>3. \A t : t \in Terms(h, r, p) <=>
          \E j \in Data : h[j] # None /\ t = <<Coefficient(r, j), j, h[j][p]>>
  BY DEF Terms
<1> HIDE DEF h
<1>4. x \notin Terms(g, r, p)
  BY <1>2
<1>5. \A t : t \in Terms(h, r, p) <=> t = x \/ t \in Terms(g, r, p)
  BY <1>1, <1>2, <1>3
<1>6. Add(Terms(g, r, p), {x}) = Terms(g, r, p) \cup {x}
  BY <1>4 DEF Add
<1>7. Terms(h, r, p) = Terms(g, r, p) \cup {x}
  BY <1>5
<1> QED BY <1>6, <1>7 DEF Times, h

(* The difference of two contents takes the old one out and puts the new   *)
(* one in.                                                                 *)
LEMMA ReplacedTerm ==
    ASSUME NEW g \in Foldings, NEW i \in Data, g[i] # None, NEW s \in Contents, NEW r, NEW p
    PROVE  Add(Terms(g, r, p), Delta(Coefficient(r, i), i, g[i], s, p))
             = Terms([g EXCEPT ![i] = s], r, p)
<1> DEFINE h == [g EXCEPT ![i] = s]
           old == <<Coefficient(r, i), i, g[i][p]>>
           new == <<Coefficient(r, i), i, s[p]>>
<1>1. h[i] = s /\ s # None /\ \A j \in Data : j # i => h[j] = g[j]
  BY ContentsAreSome DEF Foldings
<1>2. \A t : t \in Terms(g, r, p) <=>
          \E j \in Data : g[j] # None /\ t = <<Coefficient(r, j), j, g[j][p]>>
  BY DEF Terms
<1>3. \A t : t \in Terms(h, r, p) <=>
          \E j \in Data : h[j] # None /\ t = <<Coefficient(r, j), j, h[j][p]>>
  BY DEF Terms
<1>4. Delta(Coefficient(r, i), i, g[i], s, p) = Add({old}, {new})
  BY DEF Delta, Times
<1>5. old \in Terms(g, r, p)
  BY <1>2
<1> HIDE DEF h
<1>6. CASE g[i][p] = s[p]
  <2>1. Delta(Coefficient(r, i), i, g[i], s, p) = {}
    BY <1>4, <1>6 DEF Add
  <2>2. \A t : t \in Terms(h, r, p) <=> t \in Terms(g, r, p)
    BY <1>1, <1>2, <1>3, <1>6
  <2>3. Terms(h, r, p) = Terms(g, r, p)
    BY <2>2
  <2> QED BY <2>1, <2>3 DEF Add, h
<1>7. CASE g[i][p] # s[p]
  <2>1. old # new
    BY <1>7
  <2>2. new \notin Terms(g, r, p)
    BY <1>2, <1>7
  <2>3. \A t : t \in Terms(h, r, p) <=> t = new \/ (t \in Terms(g, r, p) /\ t # old)
    BY <1>1, <1>2, <1>3, <1>7
  <2> HIDE DEF old, new
  <2>4. Delta(Coefficient(r, i), i, g[i], s, p) = {old, new}
    BY <1>4, <2>1 DEF Add
  <2>5. Add(Terms(g, r, p), {old, new}) = (Terms(g, r, p) \ {old}) \cup {new}
    BY <1>5, <2>1, <2>2 DEF Add
  <2>6. Terms(h, r, p) = (Terms(g, r, p) \ {old}) \cup {new}
    BY <2>3
  <2> QED BY <2>4, <2>5, <2>6 DEF h
<1> QED BY <1>6, <1>7

-----------------------------------------------------------------------------
(***************************************************************************)
(* Loops over the data shards.                                             *)
(***************************************************************************)

(* Among the rounds at which something goes wrong one is the first. *)
LEMMA NoneGoesWrongFirst ==
    ASSUME NEW D \in SUBSET Nat, \A n \in D : n - 1 \in D
    PROVE  D = {}
<1>1. SUFFICES ASSUME D # {} PROVE FALSE
  OBVIOUS
<1>2. Min(D) \in D /\ \A k \in D : Min(D) <= k
  BY <1>1, MinIsLeast
<1>3. Min(D) - 1 \in D /\ Min(D) \in Nat
  BY <1>2
<1> QED BY <1>2, <1>3

(* The shards below n. *)
Below(shards, n) == [j \in Data |-> IF j < n THEN shards[j] ELSE None]

LEMMA BelowGrows ==
    ASSUME NEW g \in [Data -> Contents], NEW n \in 1 .. DataShards
    PROVE  /\ n - 1 \in Data /\ Below(g, n - 1) \in Foldings /\ Below(g, n - 1)[n - 1] = None
           /\ g[n - 1] \in Contents
           /\ [Below(g, n - 1) EXCEPT ![n - 1] = g[n - 1]] = Below(g, n)
<1>1. n - 1 \in Data /\ DataShards \in Nat
  BY ShardEncodeAssumption DEF Data
<1>2. Below(g, n - 1) \in Foldings /\ Below(g, n - 1)[n - 1] = None
  BY <1>1 DEF Below, Foldings
<1>3. \A j \in Data : j < n <=> j < n - 1 \/ j = n - 1
  BY <1>1 DEF Data
<1> QED BY <1>1, <1>2, <1>3 DEF Below

LEMMA BelowAll == ASSUME NEW g \in [Data -> Contents] PROVE Below(g, DataShards) = g
BY ShardEncodeAssumption DEF Below, Data

(* The first shard overwrites whatever the outputs held. *)
LEMMA FirstOverwrites ==
    ASSUME NEW g \in [Data -> Contents], NEW buffer
    PROVE  CodeSingle(buffer, 0, g[0]) = ParityOf(Below(g, 1))
<1>1. 0 \in Data /\ \A j \in Data : j < 1 <=> j = 0
  BY ShardEncodeAssumption DEF Data
<1>2. g[0] \in Contents /\ g[0] # None
  BY <1>1, ContentsAreSome
<1>3. ASSUME NEW r, NEW p PROVE Times(Coefficient(r, 0), 0, g[0][p]) = Terms(Below(g, 1), r, p)
  <2>1. \A j \in Data : Below(g, 1)[j] = IF j = 0 THEN g[0] ELSE None
    BY <1>1 DEF Below
  <2>2. {j \in Data : Below(g, 1)[j] # None} = {0}
    BY <1>1, <1>2, <2>1
  <2> QED BY <1>1, <2>1, <2>2 DEF Times, Terms
<1> QED BY <1>3, ParityIsTerms DEF CodeSingle

(* Another one joins the sum. *)
LEMMA OtherAdds ==
    ASSUME NEW g \in Foldings, NEW i \in Data \ {0}, g[i] = None, NEW s \in Contents
    PROVE  CodeSingle(ParityOf(g), i, s) = ParityOf([g EXCEPT ![i] = s])
<1>1. \A r \in Rows, p \in Elems : ParityOf(g)[r][p] = Terms(g, r, p)
  BY ParityIsTerms
<1>2. \A r \in Rows, p \in Elems :
        Add(ParityOf(g)[r][p], Times(Coefficient(r, i), i, s[p])) = Terms([g EXCEPT ![i] = s], r, p)
  BY <1>1, AddedTerm
<1> QED BY <1>2, ParityIsTerms DEF CodeSingle

(* code_some_slices: whatever the outputs held, they end as the parity. *)
LEMMA CodeSomeIsParity ==
    ASSUME NEW buffer, data \in [Data -> Contents] PROVE CodeSome(buffer) = ParityOf(data)
<1> DEFINE upto == CHOOSE f : f = [n \in 0 .. DataShards |->
                     IF n = 0 THEN buffer ELSE CodeSingle(f[n - 1], n - 1, data[n - 1])]
           sums == [n \in 0 .. DataShards |-> IF n = 0 THEN buffer ELSE ParityOf(Below(data, n))]
<1>1. DataShards \in Nat \ {0}
  BY ShardEncodeAssumption
<1>2. ASSUME NEW n \in 1 .. DataShards
      PROVE  CodeSingle(sums[n - 1], n - 1, data[n - 1]) = sums[n]
  <2>1. CASE n = 1
    BY <1>1, <2>1, FirstOverwrites
  <2>2. CASE n # 1
    <3>1. sums[n - 1] = ParityOf(Below(data, n - 1)) /\ sums[n] = ParityOf(Below(data, n))
      BY <1>1, <2>2
    <3>2. n - 1 \in Data \ {0}
      BY <2>2, BelowGrows
    <3> HIDE DEF sums
    <3> QED BY <3>1, <3>2, BelowGrows, OtherAdds
  <2> QED BY <2>1, <2>2
<1>3. sums = [n \in 0 .. DataShards |->
                IF n = 0 THEN buffer ELSE CodeSingle(sums[n - 1], n - 1, data[n - 1])]
  <2>1. \A n \in 0 .. DataShards : n # 0 => n \in 1 .. DataShards
    BY <1>1
  <2> QED BY <1>1, <1>2, <2>1
<1> HIDE DEF sums
<1>4. upto = [n \in 0 .. DataShards |->
                IF n = 0 THEN buffer ELSE CodeSingle(upto[n - 1], n - 1, data[n - 1])]
  BY <1>3, Zenon
<1>5. CodeSome(buffer) = upto[DataShards]
  BY Zenon DEF CodeSome
<1> HIDE DEF upto
<1>6. upto[0] = sums[0]
  BY <1>1, <1>4 DEF sums
<1> DEFINE wrong == {n \in 0 .. DataShards : upto[n] # sums[n]}
<1>7. ASSUME NEW n \in wrong PROVE n - 1 \in wrong
  <2>1. n \in 1 .. DataShards /\ n - 1 \in 0 .. DataShards
    BY <1>1, <1>6
  <2> QED BY <1>2, <1>4, <2>1
<1>8. wrong = {}
  <2>1. wrong \in SUBSET Nat
    BY <1>1
  <2> HIDE DEF wrong
  <2> QED BY <1>7, <2>1, NoneGoesWrongFirst
<1>9. upto[DataShards] = sums[DataShards]
  BY <1>1, <1>8
<1> QED BY <1>1, <1>5, <1>9, BelowAll DEF sums

(* A buffer with an output of the right length for each parity shard. *)
Shaped(w) == w = [r \in Rows |-> [p \in Elems |-> w[r][p]]]

LEMMA FastHasOneRow ==
    ASSUME codec \in Codecs, codec.fast
    PROVE  Rows = {0} /\ \A r, i : Coefficient(r, i) = One
BY ShardEncodeAssumption DEF Rows, Coefficient

(* encode_fast_one_parity computes the parity too. *)
LEMMA FastIsParity ==
    ASSUME NEW buffer, Shaped(buffer), data \in [Data -> Contents], codec \in Codecs, codec.fast
    PROVE  FastOneParity(buffer) = ParityOf(data)
<1> DEFINE first == [buffer EXCEPT ![0] = [p \in Elems |-> Times(One, 0, data[0][p])]]
           next(x, n) == [x EXCEPT ![0] =
                            [p \in Elems |-> Add(@[p], Times(One, n - 1, data[n - 1][p]))]]
           upto == CHOOSE f : f = [n \in 1 .. DataShards |-> IF n = 1 THEN first ELSE next(f[n - 1], n)]
           sums == [n \in 1 .. DataShards |-> ParityOf(Below(data, n))]
<1>1. DataShards \in Nat \ {0}
  BY ShardEncodeAssumption
<1>2. Rows = {0} /\ \A r, i : Coefficient(r, i) = One
  BY FastHasOneRow
<1>3. first = ParityOf(Below(data, 1))
  <2>1. CodeSingle(buffer, 0, data[0]) = [r \in Rows |-> [p \in Elems |-> Times(One, 0, data[0][p])]]
    BY <1>2 DEF CodeSingle
  <2>2. first = [r \in Rows |-> [p \in Elems |-> Times(One, 0, data[0][p])]]
    BY <1>2 DEF Shaped
  <2> QED BY <2>1, <2>2, FirstOverwrites
<1>4. ASSUME NEW n \in 2 .. DataShards PROVE next(sums[n - 1], n) = sums[n]
  <2>1. /\ sums[n - 1] = ParityOf(Below(data, n - 1)) /\ sums[n] = ParityOf(Below(data, n))
        /\ n - 1 \in Data \ {0} /\ n \in 1 .. DataShards
    BY <1>1 DEF Data
  <2>2. CodeSingle(ParityOf(Below(data, n - 1)), n - 1, data[n - 1]) = ParityOf(Below(data, n))
    BY <2>1, BelowGrows, OtherAdds
  <2> DEFINE x == ParityOf(Below(data, n - 1))
  <2>3. CodeSingle(x, n - 1, data[n - 1]) = [r \in Rows |-> [p \in Elems |->
            Add(x[r][p], Times(One, n - 1, data[n - 1][p]))]]
    BY <1>2, <2>1 DEF CodeSingle
  <2>4. DOMAIN x = Rows /\ x = [r \in Rows |-> x[r]]
    BY DEF ParityOf
  <2> HIDE DEF x
  <2>5. next(x, n) = [r \in Rows |-> [p \in Elems |->
            Add(x[r][p], Times(One, n - 1, data[n - 1][p]))]]
    BY <1>2, <2>4
  <2> QED BY <2>1, <2>2, <2>3, <2>5, ZenonT(30) DEF x
<1>5. sums = [n \in 1 .. DataShards |-> IF n = 1 THEN first ELSE next(sums[n - 1], n)]
  <2>1. \A n \in 1 .. DataShards : n # 1 => n \in 2 .. DataShards
    BY <1>1
  <2> HIDE DEF first, next
  <2>2. 1 \in 1 .. DataShards /\ sums[1] = first
    BY <1>1, <1>3
  <2> QED BY <1>1, <1>4, <2>1, <2>2
<1>6. FastOneParity(buffer) = upto[DataShards]
  BY Zenon DEF FastOneParity
<1> HIDE DEF sums, first, next
<1>7. upto = [n \in 1 .. DataShards |-> IF n = 1 THEN first ELSE next(upto[n - 1], n)]
  BY <1>5, Zenon
<1> HIDE DEF upto
<1> DEFINE wrong == {n \in 1 .. DataShards : upto[n] # sums[n]}
<1>8. ASSUME NEW n \in wrong PROVE n - 1 \in wrong
  <2>1. upto[1] = sums[1]
    BY <1>1, <1>5, <1>7
  <2>2. n \in 2 .. DataShards /\ n - 1 \in 1 .. DataShards
    BY <1>1, <2>1
  <2> QED BY <1>4, <1>7, <2>2
<1>9. wrong = {}
  <2>1. wrong \in SUBSET Nat
    BY <1>1
  <2> HIDE DEF wrong
  <2> QED BY <1>8, <2>1, NoneGoesWrongFirst
<1>10. upto[DataShards] = sums[DataShards]
  BY <1>1, <1>9
<1> QED BY <1>1, <1>6, <1>10, BelowAll DEF sums

(* Every way of encoding leaves the parity of the data, whatever the       *)
(* outputs held before.                                                    *)
LEMMA EncodedIsParity ==
    ASSUME NEW buffer, Shaped(buffer), data \in [Data -> Contents], codec \in Codecs
    PROVE  Encoded(buffer) = ParityOf(data)
<1>1. CASE codec.family = "Leopard"
  <2>1. \A i \in Data : data[i] # None
    BY ContentsAreSome
  <2>2. ASSUME NEW r, NEW p
        PROVE  UNION {Times(Coefficient(r, i), i, data[i][p]) : i \in Data} = Terms(data, r, p)
    BY <2>1 DEF Times, Terms
  <2>3. LeopardOutputs = [r \in Rows |-> [p \in Elems |-> Terms(data, r, p)]]
    BY <2>2 DEF LeopardOutputs
  <2> QED BY <1>1, <2>3, ParityIsTerms DEF Encoded
<1>2. CASE codec.family = "Classic" /\ codec.fast
  <2>1. Encoded(buffer) = FastOneParity(buffer)
    BY <1>2 DEF Encoded
  <2> QED BY <1>2, <2>1, FastIsParity
<1>3. CASE codec.family = "Classic" /\ ~ codec.fast
  <2>1. Encoded(buffer) = CodeSome(buffer)
    BY <1>3 DEF Encoded
  <2> QED BY <2>1, CodeSomeIsParity
<1> QED BY <1>1, <1>2, <1>3, ShardEncodeAssumption

-----------------------------------------------------------------------------
(***************************************************************************)
(* Updates.                                                                *)
(***************************************************************************)

(* What the parity stands for when the new shards below n are in. *)
NewBelow(new, n) ==
    [j \in Data |-> IF j < n /\ new[j] # None THEN new[j] ELSE folded[j]]

(* One shard's difference replaces its old content by the new one. *)
LEMMA DeltaReplaces ==
    ASSUME codec \in Codecs, NEW g \in Foldings, NEW i \in Data, g[i] = data[i], g[i] # None,
           NEW s \in Contents
    PROVE  WithDelta(ParityOf(g), i, s) = ParityOf([g EXCEPT ![i] = s])
<1> DEFINE h == [g EXCEPT ![i] = s]
<1>1. \A r \in Rows, p \in Elems :
        Add(Terms(g, r, p), Delta(Coefficient(r, i), i, data[i], s, p)) = Terms(h, r, p)
  BY ReplacedTerm
<1>2. s # None
  BY ContentsAreSome
<1>3. \A r \in Rows, p \in Elems : ParityOf(g)[r][p] = Terms(g, r, p)
  BY ParityIsTerms
<1>4. CASE codec.fast
  <2>1. Rows = {0} /\ \A r, j : Coefficient(r, j) = One
    BY <1>4, FastHasOneRow
  <2> DEFINE x == ParityOf(g)
  <2>2. DOMAIN x = Rows /\ x = [r \in Rows |-> x[r]]
    BY DEF ParityOf
  <2>3. WithDelta(x, i, s) =
          [x EXCEPT ![0] = [p \in Elems |-> Add(@[p], Delta(One, i, data[i], s, p))]]
    BY <1>2, <1>4 DEF WithDelta
  <2>4. \A p \in Elems : Add(x[0][p], Delta(One, i, data[i], s, p)) = Terms(h, 0, p)
    BY <1>1, <1>3, <2>1
  <2> HIDE DEF x, h
  <2>5. WithDelta(x, i, s) =
          [r \in Rows |-> [p \in Elems |-> Add(x[0][p], Delta(One, i, data[i], s, p))]]
    BY <2>1, <2>2, <2>3
  <2>6. WithDelta(x, i, s) = [r \in Rows |-> [p \in Elems |-> Terms(h, r, p)]]
    BY <2>1, <2>4, <2>5
  <2> QED BY <2>6, ParityIsTerms DEF x, h
<1>5. CASE ~ codec.fast
  <2>1. ASSUME NEW p \in Elems, ~ Changed(data[i], s, p) PROVE data[i][p] = s[p]
    <3>1. p \in ChunkOf(p)
      BY DEF ChunkOf
    <3> QED BY <2>1, <3>1 DEF Changed
  <2>2. ASSUME NEW r \in Rows, NEW p \in Elems, ~ Changed(data[i], s, p)
        PROVE  Terms(g, r, p) = Terms(h, r, p)
    <3>1. Delta(Coefficient(r, i), i, data[i], s, p) = {}
      BY <2>1, <2>2 DEF Delta, Times, Add
    <3>2. Add(Terms(g, r, p), {}) = Terms(g, r, p)
      BY DEF Add
    <3> QED BY <1>1, <3>1, <3>2
  <2>3. WithDelta(ParityOf(g), i, s) = [r \in Rows |-> [p \in Elems |->
             IF Changed(data[i], s, p)
               THEN Add(ParityOf(g)[r][p], Delta(Coefficient(r, i), i, data[i], s, p))
               ELSE ParityOf(g)[r][p]]]
    BY <1>2, <1>5 DEF WithDelta
  <2> HIDE DEF h
  <2>4. WithDelta(ParityOf(g), i, s) = [r \in Rows |-> [p \in Elems |-> Terms(h, r, p)]]
    BY <1>1, <1>3, <2>2, <2>3
  <2> QED BY <2>4, ParityIsTerms DEF h
<1> QED BY <1>4, <1>5

LEMMA UpdatedIsParity ==
    ASSUME codec \in Codecs, folded \in Foldings, parity = ParityOf(folded),
           NEW new \in Foldings, OldDataIsFolded(new), data \in [Data -> Contents]
    PROVE  Updated(new) = ParityOf(Replaced(folded, new))
<1> DEFINE upto == CHOOSE f : f = [n \in 0 .. DataShards |->
                     IF n = 0 THEN parity ELSE WithDelta(f[n - 1], n - 1, new[n - 1])]
           sums == [n \in 0 .. DataShards |-> ParityOf(NewBelow(new, n))]
<1>1. DataShards \in Nat \ {0} /\ Data = 0 .. DataShards - 1
  BY ShardEncodeAssumption DEF Data
<1>2. \A n \in 0 .. DataShards : NewBelow(new, n) \in Foldings
  BY DEF NewBelow, Foldings
<1>3. sums[0] = parity
  <2>1. NewBelow(new, 0) = folded
    BY <1>1 DEF NewBelow, Foldings
  <2> QED BY <1>1, <2>1
<1>4. ASSUME NEW n \in 1 .. DataShards
      PROVE  WithDelta(sums[n - 1], n - 1, new[n - 1]) = sums[n]
  <2> DEFINE i == n - 1
  <2>1. i \in Data /\ i \in 0 .. DataShards /\ n \in 0 .. DataShards
    BY <1>1
  <2>2. \A j \in Data : j < n <=> j < i \/ j = i
    BY <1>1
  <2>3. sums[i] = ParityOf(NewBelow(new, i)) /\ sums[n] = ParityOf(NewBelow(new, n))
    BY <2>1
  <2>4. NewBelow(new, i)[i] = folded[i]
    BY <2>1 DEF NewBelow
  <2> HIDE DEF sums, i
  <2>5. CASE new[i] = None
    <3>1. NewBelow(new, n) = NewBelow(new, i)
      BY <2>1, <2>2, <2>5 DEF NewBelow
    <3>2. WithDelta(sums[i], i, new[i]) = sums[i]
      BY <2>5 DEF WithDelta
    <3> QED BY <2>3, <3>1, <3>2 DEF i
  <2>6. CASE new[i] # None
    <3>1. new[i] \in Contents /\ folded[i] = data[i] /\ folded[i] # None
      BY <2>1, <2>6, ContentsAreSome DEF Foldings, OldDataIsFolded
    <3>2. [NewBelow(new, i) EXCEPT ![i] = new[i]] = NewBelow(new, n)
      BY <2>1, <2>2, <2>6 DEF NewBelow
    <3>3. WithDelta(ParityOf(NewBelow(new, i)), i, new[i])
            = ParityOf([NewBelow(new, i) EXCEPT ![i] = new[i]])
      BY <1>2, <2>1, <2>4, <3>1, DeltaReplaces
    <3> QED BY <2>3, <3>2, <3>3 DEF i
  <2> QED BY <2>5, <2>6
<1>5. sums = [n \in 0 .. DataShards |->
                IF n = 0 THEN parity ELSE WithDelta(sums[n - 1], n - 1, new[n - 1])]
  <2>1. \A n \in 0 .. DataShards : n # 0 => n \in 1 .. DataShards
    BY <1>1
  <2> QED BY <1>1, <1>3, <1>4, <2>1
<1> HIDE DEF sums
<1>6. upto = [n \in 0 .. DataShards |->
                IF n = 0 THEN parity ELSE WithDelta(upto[n - 1], n - 1, new[n - 1])]
  BY <1>5, Zenon
<1>7. Updated(new) = upto[DataShards]
  BY Zenon DEF Updated
<1> HIDE DEF upto
<1> DEFINE wrong == {n \in 0 .. DataShards : upto[n] # sums[n]}
<1>8. ASSUME NEW n \in wrong PROVE n - 1 \in wrong
  <2>1. upto[0] = sums[0]
    BY <1>1, <1>3, <1>6
  <2>2. n \in 1 .. DataShards /\ n - 1 \in 0 .. DataShards
    BY <1>1, <2>1
  <2> QED BY <1>4, <1>6, <2>2
<1>9. wrong = {}
  <2>1. wrong \in SUBSET Nat
    BY <1>1
  <2> HIDE DEF wrong
  <2> QED BY <1>8, <2>1, NoneGoesWrongFirst
<1>10. upto[DataShards] = sums[DataShards]
  BY <1>1, <1>9
<1>11. NewBelow(new, DataShards) = Replaced(folded, new)
  BY <1>1 DEF NewBelow, Replaced
<1> QED BY <1>1, <1>7, <1>10, <1>11 DEF sums

-----------------------------------------------------------------------------
(***************************************************************************)
(* Arguments.                                                              *)
(***************************************************************************)
Faults == {"few", "many", "empty", "uneven", "few_data", "many_data", "few_parity", "many_parity",
           "few_buffers", "many_buffers", "index", "empty_data", "uneven_data", "empty_output",
           "uneven_output", "lengths_differ", "few_new", "many_new", "uneven_new"}
Check == Faults \X Errors
Checks == Seq(Check)
Answers == Errors \cup {"Ok"}

LEMMA ListsAreChecks ==
    ASSUME NEW w \in Check, NEW x \in Check, NEW y \in Check, NEW z \in Check
    PROVE  /\ <<w>> \in Checks /\ <<w, x>> \in Checks /\ <<w, x, y, z>> \in Checks
           /\ Len(<<w, x, y, z>>) = 4
BY DEF Checks

(* The checks of every entry point answer with errors. *)
LEMMA ChecksAreChecks ==
    /\ AllChecks \in Checks /\ SepChecks \in Checks /\ OptSepChecks \in Checks
    /\ SingleChecks \in Checks /\ SingleSepChecks \in Checks /\ BufferChecks \in Checks
    /\ UpdateChecks \in Checks
<1>0. \A f \in Faults, e \in Errors : <<f, e>> \in Check
  BY DEF Check
<1>1. AllChecks \in Checks /\ Len(AllChecks) = 4
  <2>1. /\ <<"few", "TooFewShards">> \in Check /\ <<"many", "TooManyShards">> \in Check
        /\ <<"empty", "EmptyShard">> \in Check /\ <<"uneven", "IncorrectShardSize">> \in Check
    BY <1>0 DEF Faults, Errors
  <2> QED BY <2>1, ListsAreChecks, Zenon DEF AllChecks
<1>2. DataCount \in Checks /\ ParityCount \in Checks /\ BufferCount \in Checks
  <2>1. /\ <<"few_data", "TooFewDataShards">> \in Check
        /\ <<"many_data", "TooManyDataShards">> \in Check
        /\ <<"few_parity", "TooFewParityShards">> \in Check
        /\ <<"many_parity", "TooManyParityShards">> \in Check
        /\ <<"few_buffers", "TooFewBufferShards">> \in Check
        /\ <<"many_buffers", "TooManyBufferShards">> \in Check
    BY <1>0 DEF Faults, Errors
  <2> QED BY <2>1, ListsAreChecks, Zenon DEF DataCount, ParityCount, BufferCount
<1>3. /\ IndexCheck \in Checks /\ DataSlices \in Checks /\ SameLength \in Checks
      /\ OutputSlices \in Checks /\ OutputSlices # <<>>
  <2>1. /\ <<"index", "InvalidIndex">> \in Check
        /\ <<"empty_data", "EmptyShard">> \in Check
        /\ <<"uneven_data", "IncorrectShardSize">> \in Check
        /\ <<"empty_output", "EmptyShard">> \in Check
        /\ <<"uneven_output", "IncorrectShardSize">> \in Check
        /\ <<"lengths_differ", "IncorrectShardSize">> \in Check
    BY <1>0 DEF Faults, Errors
  <2>2. OutputSlices # <<>>
    BY DEF OutputSlices
  <2> QED BY <2>1, <2>2, ListsAreChecks, Zenon DEF IndexCheck, DataSlices, SameLength, OutputSlices
<1>4. /\ NewCount \in Checks /\ NewLengths \in Checks
      /\ << <<"empty_output", "IncorrectShardSize">> >> \in Checks
  <2>1. /\ <<"few_new", "TooFewDataShards">> \in Check
        /\ <<"many_new", "TooManyDataShards">> \in Check
        /\ <<"uneven_new", "IncorrectShardSize">> \in Check
        /\ <<"empty_output", "IncorrectShardSize">> \in Check
    BY <1>0 DEF Faults, Errors
  <2> QED BY <2>1, ListsAreChecks, Zenon DEF NewCount, NewLengths
<1>5. \A c, d \in Checks : c \o d \in Checks
  BY DEF Checks
<1>6. SubSeq(AllChecks, 1, 2) \in Checks /\ SubSeq(AllChecks, 3, 4) \in Checks
  <2>1. ASSUME NEW S, NEW c \in Seq(S), Len(c) = 4
        PROVE  SubSeq(c, 1, 2) \in Seq(S) /\ SubSeq(c, 3, 4) \in Seq(S)
    <3>1. \A k \in 1 .. Len(c) : c[k] \in S
      OBVIOUS
    <3>2. \A k \in (1 .. 2) \cup (3 .. 4) : k \in 1 .. Len(c)
      BY <2>1
    <3> QED BY <3>1, <3>2, SubSeqProperties
  <2> QED BY <1>1, <2>1 DEF Checks
<1>7. Tail(OutputSlices) \in Checks
  BY <1>3 DEF Checks
<1> QED BY <1>1, <1>2, <1>3, <1>4, <1>5, <1>6, <1>7
           DEF SepChecks, OptSepChecks, SingleChecks, SingleSepChecks, BufferChecks, UpdateChecks

LEMMA FirstErrorAnswers ==
    ASSUME NEW checks \in Checks, NEW faults PROVE FirstError(checks, faults) \in Answers
<1> DEFINE hits == {k \in DOMAIN checks : checks[k][1] \in faults}
<1>1. DOMAIN checks \subseteq Nat /\ \A k \in DOMAIN checks : checks[k][2] \in Errors
  <2>1. \A c \in Check : c[2] \in Errors
    BY DEF Check
  <2> QED BY <2>1 DEF Checks
<1>2. hits # {} => Min(hits) \in DOMAIN checks
  BY <1>1, MinIsLeast
<1> QED BY <1>1, <1>2 DEF FirstError, Answers

(* The first of several answers is one of them, and Ok only if all are. *)
LEMMA FirstAnswers ==
    ASSUME NEW a \in Answers, NEW b \in Answers, NEW c \in Answers
    PROVE  /\ First(<<a, b>>) \in Answers /\ First(<<a, b, c>>) \in Answers
           /\ First(<<a, b>>) = "Ok" => a = "Ok" /\ b = "Ok"
           /\ First(<<a, b, c>>) = "Ok" => a = "Ok" /\ b = "Ok" /\ c = "Ok"
<1>1. ASSUME NEW errors \in Seq(Answers)
      PROVE  /\ First(errors) \in Answers
             /\ First(errors) = "Ok" => \A k \in DOMAIN errors : errors[k] = "Ok"
  <2> DEFINE hits == {k \in DOMAIN errors : errors[k] # "Ok"}
  <2>1. hits \in SUBSET Nat /\ \A k \in hits : errors[k] \in Answers \ {"Ok"}
    OBVIOUS
  <2>2. hits # {} => Min(hits) \in hits
    BY <2>1, MinIsLeast
  <2> QED BY <2>1, <2>2 DEF First, Answers
<1>2. <<a, b>> \in Seq(Answers) /\ <<a, b, c>> \in Seq(Answers)
  OBVIOUS
<1>3. /\ DOMAIN <<a, b>> = 1 .. 2 /\ DOMAIN <<a, b, c>> = 1 .. 3
      /\ <<a, b>>[1] = a /\ <<a, b>>[2] = b
      /\ <<a, b, c>>[1] = a /\ <<a, b, c>>[2] = b /\ <<a, b, c>>[3] = c
  OBVIOUS
<1>4. 1 \in 1 .. 2 /\ 2 \in 1 .. 2 /\ 1 \in 1 .. 3 /\ 2 \in 1 .. 3 /\ 3 \in 1 .. 3
  OBVIOUS
<1> QED BY <1>1, <1>2, <1>3, <1>4, Zenon

LEMMA CodecAnswers == Unsupported \in Answers /\ LeopardLength \in Answers
BY DEF Unsupported, LeopardLength, Answers, Errors

-----------------------------------------------------------------------------
(***************************************************************************)
(* The inductive invariant: the properties, and the shapes of the buffers  *)
(* that the single-parity loop relies on.                                  *)
(***************************************************************************)
Tabular(w) == w = [r \in DOMAIN w |-> [p \in DOMAIN w[r] |-> w[r][p]]]

IInv == TypeOK /\ Shaped(parity) /\ Tabular(ws) /\ ParityIsFolded /\ VerdictRight

LEMMA ShapedIsTabular == ASSUME NEW w, Shaped(w) PROVE Tabular(w)
BY DEF Shaped, Tabular

LEMMA PreparedFits == ASSUME NEW w, Tabular(w) PROVE Shaped(Prepared(w))
<1>1. CASE DOMAIN w # Rows \/ \E r \in DOMAIN w : DOMAIN w[r] # Elems
  BY <1>1 DEF Prepared, Resized, Shaped
<1>2. CASE DOMAIN w = Rows /\ \A r \in DOMAIN w : DOMAIN w[r] = Elems
  BY <1>2 DEF Prepared, Tabular, Shaped
<1> QED BY <1>1, <1>2

LEMMA FoldingIsNotSpoiled == Spoiled \notin Foldings
<1>1. 0 \in Data
  BY ShardEncodeAssumption DEF Data
<1>2. \A g \in Foldings : DOMAIN g = Data
  BY DEF Foldings
<1>3. DOMAIN Spoiled = {}
  BY DEF Spoiled
<1> QED BY <1>1, <1>2, <1>3

LEMMA InitIInv == Init => IInv
<1> SUFFICES ASSUME Init PROVE IInv
  OBVIOUS
<1>1. data \in [Data -> Contents]
  <2>1. (CHOOSE s \in Contents : TRUE) \in Contents
    BY ShardEncodeAssumption
  <2> QED BY <2>1 DEF Init
<1>2. Shaped(parity) /\ DOMAIN parity = Rows /\ \A r \in Rows : DOMAIN parity[r] = Elems
  BY DEF Init, Shaped
<1>3. Tabular(ws)
  <2>1. Shaped(ws)
    BY DEF Init, Zeros, Shaped
  <2> QED BY <2>1, ShapedIsTabular
<1>4. TypeOK
  <2>1. codec \in Codecs /\ aligned \in BOOLEAN /\ undisturbed \in BOOLEAN
    BY DEF Init
  <2>2. cur_input \in 0 .. DataShards /\ touched = {} /\ result = "none" /\ folded = Spoiled
    BY ShardEncodeAssumption DEF Init
  <2> QED BY <1>1, <1>2, <2>1, <2>2 DEF TypeOK
<1>5. ParityIsFolded /\ VerdictRight
  BY DEF Init, ParityIsFolded, VerdictRight, Errors
<1> QED BY <1>2, <1>3, <1>4, <1>5 DEF IInv

-----------------------------------------------------------------------------
(***************************************************************************)
(* The steps.                                                              *)
(***************************************************************************)

(* A call that returns, or an edit, keeps the invariant when the parity    *)
(* still is what it stands for and the answer is right.                    *)
LEMMA Kept ==
    ASSUME IInv, UNCHANGED <<codec, aligned>>,
           data' \in [Data -> Contents], Shaped(parity'), Tabular(ws'),
           cur_input' \in 0 .. DataShards, undisturbed' \in BOOLEAN,
           folded' = Spoiled \/ (folded' \in Foldings /\ parity' = ParityOf(folded')),
           cur_input' > 0 /\ undisturbed' =>
             folded' # Spoiled /\ {i \in Data : folded'[i] # None} = 0 .. cur_input' - 1,
           result' \in Errors \cup {"none", "Ok", "True", "False"},
           touched' \subseteq {"parity", "ws", "sbs"},
           result' = "True" => parity' = ParityOf(data'),
           result' = "False" => parity' # ParityOf(data'),
           result' \in Errors =>
             /\ touched' \cap {"parity", "sbs"} = {}
             /\ codec.family # "Leopard" => "ws" \notin touched'
    PROVE  IInv'
<1>1. Rows' = Rows /\ ParityOf(folded)' = ParityOf(folded') /\ ParityOf(data)' = ParityOf(data')
  BY DEF Rows, ParityOf, Coefficient
<1>2. Shaped(parity)' /\ Tabular(ws)'
  BY <1>1 DEF Shaped, Tabular
<1>3. TypeOK'
  <2>1. DOMAIN parity' = Rows /\ \A r \in Rows : DOMAIN parity'[r] = Elems
    BY DEF Shaped
  <2> QED BY <1>1, <2>1 DEF IInv, TypeOK, Foldings
<1>4. ParityIsFolded'
  BY <1>1 DEF ParityIsFolded
<1>5. VerdictRight'
  BY <1>1 DEF VerdictRight
<1> QED BY <1>2, <1>3, <1>4, <1>5 DEF IInv

LEMMA RejectedStep ==
    ASSUME IInv, NEW e \in Answers, Rejected(e)
    PROVE  IInv'
<1>1. /\ e \in Errors /\ result' = e /\ touched' = {}
      /\ UNCHANGED <<codec, aligned, data, parity, cur_input, ws, folded, undisturbed>>
  BY DEF Rejected, Returns, stripe, Answers
<1>2. e \notin {"True", "False"}
  BY <1>1 DEF Errors
<1>3. folded = Spoiled \/ (folded \in Foldings /\ parity = ParityOf(folded))
  BY DEF IInv, TypeOK, ParityIsFolded, Foldings
<1> QED BY <1>1, <1>2, <1>3, Kept DEF IInv, TypeOK, ParityIsFolded

(* What is known of a stripe between two calls. *)
LEMMA Between ==
    ASSUME IInv
    PROVE  /\ codec \in Codecs /\ data \in [Data -> Contents] /\ Shaped(parity) /\ Tabular(ws)
           /\ cur_input \in 0 .. DataShards /\ undisturbed \in BOOLEAN
           /\ folded = Spoiled \/ (folded \in Foldings /\ parity = ParityOf(folded))
           /\ cur_input > 0 /\ undisturbed =>
                folded # Spoiled /\ {i \in Data : folded[i] # None} = 0 .. cur_input - 1
BY DEF IInv, TypeOK, ParityIsFolded, Foldings

LEMMA ParityIsShaped == ASSUME NEW g PROVE Shaped(ParityOf(g))
BY DEF ParityOf, Shaped

(* A call that succeeds without a verdict. *)
LEMMA ReturnsOk ==
    ASSUME Returns("Ok")
    PROVE  /\ UNCHANGED <<codec, aligned>>
           /\ result' \in Errors \cup {"none", "Ok", "True", "False"}
           /\ result' \notin Errors \cup {"True", "False"}
           /\ touched' \subseteq {"parity", "ws", "sbs"}
BY DEF Returns, stripe, Errors

LEMMA EncodeStep ==
    ASSUME IInv, NEW checks \in Checks, NEW faults, Encode(checks, faults)
    PROVE  IInv'
<1> DEFINE e == First(<<FirstError(checks, faults), LeopardLength>>)
<1>1. e \in Answers
  BY FirstErrorAnswers, CodecAnswers, FirstAnswers
<1>2. CASE Rejected(e)
  <2> HIDE DEF e
  <2> QED BY <1>1, <1>2, RejectedStep
<1>3. CASE /\ parity' = Encoded(parity) /\ folded' = data /\ undisturbed' = FALSE
           /\ UNCHANGED <<data, cur_input, ws>> /\ Returns("Ok")
  <2>1. parity' = ParityOf(data)
    BY <1>3, Between, EncodedIsParity
  <2>2. data \in Foldings
    BY Between DEF Foldings
  <2> QED BY <1>3, <2>1, <2>2, ParityIsShaped, Between, ReturnsOk, Kept
<1> QED BY <1>2, <1>3 DEF Encode

(* One more shard: the sum that the outputs stand for gains it. *)
LEMMA SingleFolds ==
    ASSUME IInv, NEW i \in Data
    PROVE  /\ Shaped(CodeSingle(parity, i, data[i]))
           /\ \/ FoldedWith(i) = Spoiled
              \/ /\ FoldedWith(i) \in Foldings
                 /\ CodeSingle(parity, i, data[i]) = ParityOf(FoldedWith(i))
<1>1. Shaped(CodeSingle(parity, i, data[i]))
  BY DEF CodeSingle, Shaped
<1>2. CASE i = 0
  <2>1. FoldedWith(i) = Below(data, 1)
    <3>1. \A j \in Data : j < 1 <=> j = 0
      BY ShardEncodeAssumption DEF Data
    <3>2. FoldedWith(i) = [j \in Data |-> IF j = 0 THEN data[0] ELSE None]
      BY <1>2 DEF FoldedWith
    <3>3. Below(data, 1) = [j \in Data |-> IF j = 0 THEN data[0] ELSE None]
      BY <3>1 DEF Below
    <3> QED BY <3>2, <3>3
  <2>2. Below(data, 1) \in Foldings
    BY Between DEF Below, Foldings
  <2> QED BY <1>1, <1>2, <2>1, <2>2, Between, FirstOverwrites
<1>3. CASE i # 0 /\ folded # Spoiled /\ folded[i] = None
  <2>1. FoldedWith(i) = [folded EXCEPT ![i] = data[i]]
    BY <1>3 DEF FoldedWith
  <2>2. folded \in Foldings /\ parity = ParityOf(folded) /\ data[i] \in Contents
    BY <1>3, Between
  <2>3. [folded EXCEPT ![i] = data[i]] \in Foldings
    BY <2>2 DEF Foldings
  <2>4. i \in Data \ {0}
    BY <1>3
  <2>5. CodeSingle(ParityOf(folded), i, data[i]) = ParityOf([folded EXCEPT ![i] = data[i]])
    BY <1>3, <2>2, <2>4, OtherAdds
  <2> QED BY <1>1, <2>1, <2>2, <2>3, <2>5, Zenon
<1>4. CASE i # 0 /\ ~ (folded # Spoiled /\ folded[i] = None)
  BY <1>1, <1>4 DEF FoldedWith
<1> QED BY <1>2, <1>3, <1>4

LEMMA EncodeSingleStep ==
    ASSUME IInv, NEW i \in Data, NEW checks \in Checks, NEW faults, EncodeSingle(i, checks, faults)
    PROVE  IInv'
<1> DEFINE e == First(<<Unsupported, FirstError(checks, faults)>>)
<1>1. e \in Answers
  BY FirstErrorAnswers, CodecAnswers, FirstAnswers
<1>2. CASE Rejected(e)
  <2> HIDE DEF e
  <2> QED BY <1>1, <1>2, RejectedStep
<1>3. CASE /\ parity' = CodeSingle(parity, i, data[i]) /\ folded' = FoldedWith(i)
           /\ undisturbed' = FALSE /\ UNCHANGED <<data, cur_input, ws>> /\ Returns("Ok")
  BY <1>3, SingleFolds, Between, ReturnsOk, Kept
<1> QED BY <1>2, <1>3 DEF EncodeSingle

(* A batch that only ShardByShard writes grows by the shard at its index. *)
LEMMA BatchGrows ==
    ASSUME IInv, cur_input \in Data, cur_input = 0 \/ undisturbed
    PROVE  /\ FoldedWith(cur_input) # Spoiled
           /\ {j \in Data : FoldedWith(cur_input)[j] # None} = 0 .. cur_input
<1>1. /\ 0 \in Data /\ Data = 0 .. DataShards - 1 /\ DataShards \in Nat
      /\ data[cur_input] # None /\ data[0] # None
  BY ShardEncodeAssumption, ContentsAreSome, Between DEF Data
<1>2. CASE cur_input = 0
  <2>1. FoldedWith(cur_input) = [j \in Data |-> IF j = 0 THEN data[0] ELSE None]
    BY <1>2 DEF FoldedWith
  <2>2. FoldedWith(cur_input) \in Foldings
    BY <1>1, <2>1, Between DEF Foldings
  <2>3. {j \in Data : FoldedWith(cur_input)[j] # None} = {0}
    BY <1>1, <2>1
  <2> QED BY <1>2, <2>2, <2>3, FoldingIsNotSpoiled
<1>3. CASE cur_input # 0
  <2>1. /\ folded # Spoiled /\ {j \in Data : folded[j] # None} = 0 .. cur_input - 1
        /\ folded \in Foldings
    BY <1>1, <1>3, Between
  <2>2. folded[cur_input] = None /\ \A j \in Data : folded[j] # None <=> j \in 0 .. cur_input - 1
    BY <1>1, <2>1
  <2>3. FoldedWith(cur_input) = [folded EXCEPT ![cur_input] = data[cur_input]]
    BY <1>3, <2>1, <2>2 DEF FoldedWith
  <2>4. FoldedWith(cur_input) \in Foldings
    BY <2>1, <2>3, Between DEF Foldings
  <2>5. \A j \in Data : FoldedWith(cur_input)[j] # None <=> j = cur_input \/ folded[j] # None
    BY <1>1, <2>1, <2>3 DEF Foldings
  <2>6. \A j \in Data : FoldedWith(cur_input)[j] # None <=> j \in 0 .. cur_input
    BY <1>1, <2>2, <2>5
  <2>7. 0 .. cur_input \subseteq Data
    BY <1>1
  <2> QED BY <2>4, <2>6, <2>7, FoldingIsNotSpoiled
<1> QED BY <1>2, <1>3

LEMMA SbsEncodeStep ==
    ASSUME IInv, NEW checks \in Checks, NEW faults, SbsEncode(checks, faults)
    PROVE  IInv'
<1> DEFINE ready == IF ParityReady THEN "TooManyCalls" ELSE "Ok"
           e == First(<<ready, FirstError(checks, faults), Unsupported>>)
<1>1. ready \in Answers
  BY DEF Answers, Errors
<1>2. e \in Answers /\ (e = "Ok" => ready = "Ok")
  <2> HIDE DEF ready
  <2> QED BY <1>1, FirstErrorAnswers, CodecAnswers, FirstAnswers
<1>3. CASE Rejected(e)
  <2> HIDE DEF e
  <2> QED BY <1>2, <1>3, RejectedStep
<1>4. CASE /\ e = "Ok"
           /\ parity' = CodeSingle(parity, cur_input, data[cur_input])
           /\ cur_input' = cur_input + 1
           /\ folded' = FoldedWith(cur_input)
           /\ undisturbed' = IF cur_input = 0 THEN TRUE ELSE undisturbed
           /\ UNCHANGED <<data, ws>> /\ Returns("Ok")
  <2>1. ~ ParityReady
    BY <1>2, <1>4
  <2>2. cur_input \in Data /\ cur_input' \in 0 .. DataShards /\ cur_input' - 1 = cur_input
    BY <1>4, <2>1, Between, ShardEncodeAssumption DEF ParityReady, Data
  <2>3. undisturbed' \in BOOLEAN /\ (undisturbed' => cur_input = 0 \/ undisturbed)
    BY <1>4, Between
  <2>4. undisturbed' =>
          folded' # Spoiled /\ {j \in Data : folded'[j] # None} = 0 .. cur_input' - 1
    BY <1>4, <2>2, <2>3, BatchGrows
  <2>5. /\ Shaped(parity')
        /\ folded' = Spoiled \/ (folded' \in Foldings /\ parity' = ParityOf(folded'))
    BY <1>4, <2>2, SingleFolds
  <2> QED BY <1>4, <2>2, <2>3, <2>4, <2>5, Between, ReturnsOk, Kept
<1> QED BY <1>3, <1>4 DEF SbsEncode

LEMMA ResetStep ==
    ASSUME IInv, SbsReset \/ SbsResetForce
    PROVE  IInv'
<1> DEFINE e == IF cur_input > 0 /\ ~ ParityReady THEN "LeftoverShards" ELSE "Ok"
<1>1. e \in Answers
  BY DEF Answers, Errors
<1>2. CASE Rejected(e)
  <2> HIDE DEF e
  <2> QED BY <1>1, <1>2, RejectedStep
<1>3. CASE cur_input' = 0 /\ UNCHANGED <<data, parity, ws, folded, undisturbed>> /\ Returns("Ok")
  <2>1. cur_input' \in 0 .. DataShards /\ ~ (cur_input' > 0)
    BY <1>3, ShardEncodeAssumption
  <2> QED BY <1>3, <2>1, Between, ReturnsOk, Kept
<1> QED BY <1>2, <1>3 DEF SbsReset, SbsResetForce

(* An update: where nothing is new the parity is left alone, and else the  *)
(* old shards it stands for are the caller's.                              *)
LEMMA UpdateStep ==
    ASSUME IInv, NEW new \in Foldings, NEW faults, Update(new, faults)
    PROVE  IInv'
<1> DEFINE e == First(<<Unsupported, FirstError(UpdateChecks, faults)>>)
           nothing == \A i \in Data : new[i] = None
<1>1. e \in Answers
  BY FirstErrorAnswers, CodecAnswers, FirstAnswers, ChecksAreChecks
<1>2. CASE Rejected(e)
  <2> HIDE DEF e
  <2> QED BY <1>1, <1>2, RejectedStep
<1>3. CASE /\ OldDataIsFolded(new)
           /\ parity' = IF nothing THEN parity ELSE Updated(new)
           /\ data' = Replaced(data, new)
           /\ folded' = FoldedUpdated(new)
           /\ undisturbed' = (undisturbed /\ nothing)
           /\ UNCHANGED <<cur_input, ws>> /\ Returns("Ok")
  <2>1. data' \in [Data -> Contents]
    BY <1>3, Between DEF Replaced, Foldings
  <2>2. undisturbed' \in BOOLEAN
    BY <1>3
  <2>3. CASE nothing
    <3>1. parity' = parity
      BY <1>3, <2>3
    <3>2. folded' = folded
      <4>1. CASE folded = Spoiled
        BY <1>3, <4>1 DEF FoldedUpdated
      <4>2. CASE folded # Spoiled
        <5>1. folded \in Foldings /\ folded' = Replaced(folded, new)
          BY <1>3, <4>2, Between DEF FoldedUpdated
        <5> QED BY <2>3, <5>1 DEF Replaced, Foldings
      <4> QED BY <4>1, <4>2
    <3>3. undisturbed' = undisturbed
      BY <1>3, <2>3, Between
    <3> HIDE DEF nothing
    <3> QED BY <1>3, <2>1, <3>1, <3>2, <3>3, Between, ReturnsOk, Kept
  <2>4. CASE ~ nothing
    <3>1. folded # Spoiled /\ folded \in Foldings /\ parity = ParityOf(folded)
      BY <1>3, <2>4, Between DEF OldDataIsFolded
    <3>2. folded' = Replaced(folded, new) /\ parity' = ParityOf(Replaced(folded, new))
      BY <1>3, <2>4, <3>1, Between, UpdatedIsParity DEF FoldedUpdated
    <3>3. Replaced(folded, new) \in Foldings
      BY <3>1 DEF Replaced, Foldings
    <3>4. ~ undisturbed'
      BY <1>3, <2>4
    <3> HIDE DEF nothing
    <3> QED BY <1>3, <2>1, <2>2, <3>2, <3>3, <3>4, ParityIsShaped, Between, ReturnsOk, Kept
  <2> QED BY <2>3, <2>4
<1> QED BY <1>2, <1>3 DEF Update

(* A verdict is right when the scratch was overwritten by the parity. *)
LEMMA VerdictStep ==
    ASSUME IInv, Returns(Verdict(ParityOf(data))), Tabular(ws'),
           UNCHANGED <<data, parity, cur_input, folded, undisturbed>>
    PROVE  IInv'
<1>1. /\ result' \in {"True", "False"} /\ UNCHANGED <<codec, aligned>>
      /\ result' = "True" <=> parity = ParityOf(data)
      /\ touched' \subseteq {"parity", "ws", "sbs"}
  BY DEF Returns, Verdict, stripe
<1>2. result' = "False" => parity # ParityOf(data)
  BY <1>1
<1>3. result' \notin Errors
  BY <1>1 DEF Errors
<1> QED BY <1>1, <1>2, <1>3, Between, Kept

LEMMA VerifyStep ==
    ASSUME IInv, NEW checks \in Checks, NEW scratch, Shaped(scratch), NEW faults,
           Verify(checks, scratch, faults)
    PROVE  IInv'
<1> DEFINE e == First(<<FirstError(checks, faults), LeopardLength>>)
<1>1. e \in Answers
  BY FirstErrorAnswers, CodecAnswers, FirstAnswers
<1>2. CASE Rejected(e)
  <2> HIDE DEF e
  <2> QED BY <1>1, <1>2, RejectedStep
<1>3. CASE /\ UNCHANGED <<data, parity, cur_input, ws, folded, undisturbed>>
           /\ Returns(Verdict(Encoded(scratch)))
  <2>1. Encoded(scratch) = ParityOf(data)
    BY Between, EncodedIsParity
  <2> QED BY <1>3, <2>1, Between, VerdictStep
<1> QED BY <1>2, <1>3 DEF Verify

LEMMA ScratchIsShaped == Shaped(Zeros) /\ Shaped(StaleBuffer)
BY DEF Shaped, Zeros, StaleBuffer

(* A workspace of any shape is made to fit, and then overwritten. *)
LEMMA VerifyWithWorkspaceStep ==
    ASSUME IInv, NEW faults, VerifyWithWorkspace(faults)
    PROVE  IInv'
<1> DEFINE e == FirstError(AllChecks, faults)
<1>1. e \in Answers
  BY FirstErrorAnswers, ChecksAreChecks
<1>2. Shaped(Prepared(ws))
  BY Between, PreparedFits
<1>3. CASE Rejected(e)
  <2> HIDE DEF e
  <2> QED BY <1>1, <1>3, RejectedStep
<1>4. CASE /\ LeopardLength # "Ok" /\ ws' = Prepared(ws)
           /\ UNCHANGED <<data, parity, cur_input, folded, undisturbed>>
           /\ Returns(LeopardLength)
  <2>1. /\ LeopardLength = "IncorrectShardSize" /\ codec.family = "Leopard" /\ ~ aligned
    BY <1>4 DEF LeopardLength
  <2>2. /\ result' = "IncorrectShardSize" /\ UNCHANGED <<codec, aligned>>
        /\ touched' \subseteq {"ws"}
    BY <1>4, <2>1 DEF Returns, stripe
  <2>3. /\ result' \in Errors /\ result' \notin {"True", "False"}
        /\ touched' \cap {"parity", "sbs"} = {} /\ touched' \subseteq {"parity", "ws", "sbs"}
    BY <2>2 DEF Errors
  <2>4. Tabular(ws')
    BY <1>2, <1>4, ShapedIsTabular
  <2> QED BY <1>4, <2>1, <2>2, <2>3, <2>4, Between, Kept
<1>5. CASE /\ ws' = Encoded(Prepared(ws))
           /\ UNCHANGED <<data, parity, cur_input, folded, undisturbed>>
           /\ Returns(Verdict(Encoded(Prepared(ws))))
  <2>1. Encoded(Prepared(ws)) = ParityOf(data)
    BY <1>2, Between, EncodedIsParity
  <2>2. Tabular(ws')
    BY <1>5, <2>1, ParityIsShaped, ShapedIsTabular
  <2> QED BY <1>5, <2>1, <2>2, VerdictStep
<1> QED BY <1>3, <1>4, <1>5 DEF VerifyWithWorkspace

(* The caller's own steps answer nothing. *)
LEMMA QuietReturns ==
    ASSUME Quiet
    PROVE  /\ UNCHANGED <<codec, aligned>> /\ touched' = {}
           /\ result' \in Errors \cup {"none", "Ok", "True", "False"}
           /\ result' \notin Errors \cup {"True", "False"}
BY DEF Quiet, stripe, Errors

LEMMA CallerStep ==
    ASSUME IInv,
           \/ \E i \in Data, s \in Contents : Edit(i, s)
           \/ \E r \in Rows : Damage(r, ShardLen)
           \/ \E w \in Workspaces : UseElsewhere(w)
    PROVE  IInv'
<1>1. ASSUME NEW i \in Data, NEW s \in Contents, Edit(i, s) PROVE IInv'
  <2>1. /\ data' \in [Data -> Contents] /\ Quiet
        /\ UNCHANGED <<parity, cur_input, ws, folded, undisturbed>>
    BY <1>1, Between DEF Edit
  <2> QED BY <2>1, QuietReturns, Between, Kept
<1>2. ASSUME NEW r \in Rows, Damage(r, ShardLen) PROVE IInv'
  <2>1. /\ folded' = Spoiled /\ undisturbed' = FALSE /\ Quiet
        /\ parity' = [parity EXCEPT ![r][ShardLen] = Junk]
        /\ UNCHANGED <<data, cur_input, ws>>
    BY <1>2 DEF Damage
  <2>2. Shaped(parity')
    BY <2>1, Between DEF Shaped
  <2> QED BY <2>1, <2>2, QuietReturns, Between, Kept
<1>3. ASSUME NEW w \in Workspaces, UseElsewhere(w) PROVE IInv'
  <2>1. /\ ws' = JunkWorkspace(w) /\ Quiet
        /\ UNCHANGED <<data, parity, cur_input, folded, undisturbed>>
    BY <1>3 DEF UseElsewhere
  <2>2. Tabular(ws')
    BY <2>1 DEF Tabular, JunkWorkspace
  <2> QED BY <2>1, <2>2, QuietReturns, Between, Kept
<1> QED BY <1>1, <1>2, <1>3

(* The arguments of the next-state relation are ones of the lemmas. *)
LEMMA ArgumentsFit ==
    ASSUME IInv
    PROVE  /\ \A checks : \A a \in ArgsWith(Data, 0, checks) : a[1] \in Data
           /\ \A a \in ArgsWith([Data -> Contents \cup {None}], NewEverywhere, UpdateChecks) :
                a[1] \in Foldings
<1>1. ASSUME NEW A, NEW x \in A, NEW checks, NEW a \in ArgsWith(A, x, checks) PROVE a[1] \in A
  BY <1>1 DEF ArgsWith
<1>2. 0 \in Data
  BY ShardEncodeAssumption DEF Data
<1>3. NewEverywhere \in Foldings
  <2>1. \A i \in Data : \E s \in Contents : s # data[i]
    BY ShardEncodeAssumption
  <2>2. \A i \in Data : (CHOOSE s \in Contents : s # data[i]) \in Contents
    BY <2>1
  <2> QED BY <2>2 DEF NewEverywhere, Foldings
<1> QED BY <1>1, <1>2, <1>3 DEF Foldings

LEMMA Inductive == IInv /\ [Next]_vars => IInv'
<1> SUFFICES ASSUME IInv, [Next]_vars PROVE IInv'
  OBVIOUS
<1>1. ASSUME NEW checks \in {AllChecks, SepChecks}, NEW faults, Encode(checks, faults) PROVE IInv'
  BY <1>1, ChecksAreChecks, EncodeStep
<1>2. ASSUME NEW faults, Encode(OptSepChecks, faults) PROVE IInv'
  BY <1>2, ChecksAreChecks, EncodeStep
<1>3. ASSUME NEW checks \in {SingleChecks, SingleSepChecks},
             NEW a \in ArgsWith(Data, 0, checks), EncodeSingle(a[1], checks, a[2])
      PROVE  IInv'
  <2>1. checks \in Checks /\ a[1] \in Data
    BY ChecksAreChecks, ArgumentsFit
  <2> QED BY <1>3, <2>1, EncodeSingleStep
<1>4. ASSUME NEW checks \in {AllChecks, SepChecks}, NEW faults, SbsEncode(checks, faults) PROVE IInv'
  BY <1>4, ChecksAreChecks, SbsEncodeStep
<1>5. CASE SbsReset \/ SbsResetForce
  BY <1>5, ResetStep
<1>6. ASSUME NEW a \in ArgsWith([Data -> Contents \cup {None}], NewEverywhere, UpdateChecks),
             Update(a[1], a[2])
      PROVE  IInv'
  BY <1>6, ArgumentsFit, UpdateStep
<1>7. ASSUME NEW faults, Verify(AllChecks, Zeros, faults) PROVE IInv'
  BY <1>7, ChecksAreChecks, ScratchIsShaped, VerifyStep
<1>8. ASSUME NEW faults, Verify(BufferChecks, StaleBuffer, faults) PROVE IInv'
  BY <1>8, ChecksAreChecks, ScratchIsShaped, VerifyStep
<1>9. ASSUME NEW faults, VerifyWithWorkspace(faults) PROVE IInv'
  BY <1>9, VerifyWithWorkspaceStep
<1>10. CASE \/ \E i \in Data, s \in Contents : Edit(i, s)
            \/ \E r \in Rows : Damage(r, ShardLen)
            \/ \E w \in Workspaces : UseElsewhere(w)
  BY <1>10, CallerStep
<1>11. CASE UNCHANGED vars
  <2>1. UNCHANGED <<codec, aligned, data, parity, cur_input, ws, result, touched, folded, undisturbed>>
    BY <1>11 DEF vars
  <2>2. /\ result \in Errors \cup {"none", "Ok", "True", "False"}
        /\ touched \subseteq {"parity", "ws", "sbs"}
        /\ result = "True" => parity = ParityOf(data)
        /\ result = "False" => parity # ParityOf(data)
        /\ result \in Errors =>
             /\ touched \cap {"parity", "sbs"} = {}
             /\ codec.family # "Leopard" => "ws" \notin touched
    BY DEF IInv, TypeOK, VerdictRight
  <2> QED BY <2>1, <2>2, Between, Kept
<1> QED BY <1>1, <1>2, <1>3, <1>4, <1>5, <1>6, <1>7, <1>8, <1>9, <1>10, <1>11, Zenon DEF Next

LEMMA Invariance == Spec => []IInv
BY InitIInv, Inductive, PTL DEF Spec

-----------------------------------------------------------------------------
(***************************************************************************)
(* Theorems.                                                               *)
(***************************************************************************)

(* Buffers and workspaces keep their shapes, answers are the documented    *)
(* ones, and ShardByShard::cur_input never passes the number of data       *)
(* shards.                                                                 *)
THEOREM TypeCorrect == Spec => []TypeOK
<1>1. IInv => TypeOK
  BY DEF IInv
<1> QED BY <1>1, Invariance, PTL

(* encode, encode_single, ShardByShard and update in any order, with       *)
(* rejected calls in between: the parity is the sum of exactly the shards  *)
(* that were put into it, and parity_ready() of a batch nobody else wrote  *)
(* to means that it is the whole stripe's.                                 *)
THEOREM ParityStaysFolded == Spec => []ParityIsFolded
<1>1. IInv => ParityIsFolded
  BY DEF IInv
<1> QED BY <1>1, Invariance, PTL

(* verify, verify_with_buffer and verify_with_workspace answer true        *)
(* exactly for the parity of the data, whatever the scratch held, and a    *)
(* rejected call changes neither parity nor index.                         *)
THEOREM VerdictsAreRight == Spec => []VerdictRight
<1>1. IInv => VerdictRight
  BY DEF IInv
<1> QED BY <1>1, Invariance, PTL

-----------------------------------------------------------------------------
(***************************************************************************)
(* The schedule.                                                           *)
(***************************************************************************)
(* usize::min and usize::max, of two and of three. *)
LEMMA LesserOfTwo ==
    ASSUME NEW a \in Int, NEW b \in Int
    PROVE  Schedule!Min({a, b}) = IF a <= b THEN a ELSE b
<1>1. PICK m \in {a, b} : \A y \in {a, b} : m <= y
  <2>1. CASE a <= b
    BY <2>1
  <2>2. CASE ~(a <= b)
    BY <2>2
  <2> QED BY <2>1, <2>2
<1>2. Schedule!Min({a, b}) \in {a, b} /\ \A y \in {a, b} : Schedule!Min({a, b}) <= y
  BY <1>1, Zenon DEF Schedule!Min
<1> QED BY <1>2

LEMMA GreaterOfTwo ==
    ASSUME NEW a \in Int, NEW b \in Int
    PROVE  Schedule!Max({a, b}) = IF a >= b THEN a ELSE b
<1>1. PICK m \in {a, b} : \A y \in {a, b} : m >= y
  <2>1. CASE a >= b
    BY <2>1
  <2>2. CASE ~(a >= b)
    BY <2>2
  <2> QED BY <2>1, <2>2
<1>2. Schedule!Max({a, b}) \in {a, b} /\ \A y \in {a, b} : Schedule!Max({a, b}) >= y
  BY <1>1, Zenon DEF Schedule!Max
<1> QED BY <1>2

LEMMA LeastOfThree ==
    ASSUME NEW a \in Nat \ {0}, NEW b \in Nat \ {0}, NEW c \in Nat \ {0}
    PROVE  Schedule!Min({a, b, c}) \in Nat \ {0}
<1>1. PICK m \in {a, b, c} : \A y \in {a, b, c} : m <= y
  <2>1. CASE a <= b /\ a <= c
    BY <2>1
  <2>2. CASE b <= a /\ b <= c
    BY <2>2
  <2>3. CASE c <= a /\ c <= b
    BY <2>3
  <2> QED BY <2>1, <2>2, <2>3
<1>2. Schedule!Min({a, b, c}) \in {a, b, c}
  BY <1>1, Zenon DEF Schedule!Min
<1> QED BY <1>2

(* The clamp max(1). *)
LEMMA AtLeastOneIs ==
    ASSUME NEW n \in Nat
    PROVE  Schedule!AtLeastOne(n) \in Nat /\ Schedule!AtLeastOne(n) >= 1
           /\ Schedule!AtLeastOne(n) >= n
           /\ (n >= 1 => Schedule!AtLeastOne(n) = n) /\ (n = 0 => Schedule!AtLeastOne(n) = 1)
  BY GreaterOfTwo DEF Schedule!AtLeastOne

(* What the steps below need of division and of products. *)
LEMMA Quotient ==
    ASSUME NEW n \in Nat, NEW s \in Nat \ {0}
    PROVE  n \div s \in Nat /\ (n \div s) * s <= n /\ n < (n \div s) * s + s
  OBVIOUS

LEMMA Above ==
    ASSUME NEW a \in Nat, NEW b \in Nat, a < b, NEW s \in Nat
    PROVE  a * s + s <= b * s /\ a * s \in Nat /\ b * s \in Nat
  OBVIOUS

(* The quotient is the one number that fits. *)
LEMMA QuotientIs ==
    ASSUME NEW n \in Nat, NEW s \in Nat \ {0}, NEW k \in Nat, k * s <= n, n < k * s + s
    PROVE  n \div s = k
<1> DEFINE q == n \div s
<1>1. q \in Nat /\ q * s <= n /\ n < q * s + s
  BY Quotient
<1> HIDE DEF q
<1>2. CASE k < q
  BY <1>1, <1>2, Above
<1>3. CASE q < k
  BY <1>1, <1>3, Above
<1>4. q = k
  BY <1>1, <1>2, <1>3
<1> QED BY <1>4 DEF q

LEMMA Remainder ==
    ASSUME NEW n \in Nat, NEW s \in Nat \ {0}
    PROVE  n % s \in 0 .. s - 1 /\ n = s * (n \div s) + (n % s)
  OBVIOUS

(* Chunk k is one of the chunks if it begins before the end. *)
LEMMA ChunksBelow ==
    ASSUME NEW n \in Nat, NEW s \in Nat \ {0}
    PROVE  /\ Schedule!DivCeil(n, s) \in Nat
           /\ \A k \in Nat : k < Schedule!DivCeil(n, s) <=> k * s < n
<1> DEFINE c == (n + s - 1) \div s
<1>1. c \in Nat /\ c * s <= n + s - 1 /\ n + s - 1 < c * s + s
  BY Quotient
<1>2. Schedule!DivCeil(n, s) = c
  BY DEF Schedule!DivCeil
<1> HIDE DEF c
<1>3. ASSUME NEW k \in Nat, k < c PROVE k * s < n
  BY <1>1, <1>3, Above
<1>4. ASSUME NEW k \in Nat, c <= k PROVE n <= k * s
  <2>1. CASE c < k
    BY <1>1, <2>1, Above
  <2>2. CASE c = k
    BY <1>1, <2>2
  <2> QED BY <1>1, <1>4, <2>1, <2>2
<1>5. ASSUME NEW k \in Nat PROVE k < c <=> k * s < n
  <2>1. k * s \in Nat
    OBVIOUS
  <2> QED BY <1>1, <1>3, <1>4, <2>1
<1> QED BY <1>1, <1>2, <1>5

(* Where chunk k begins, and which chunk element x is in. *)
At(k, s) == k * s
No(x, s) == x \div s

(* What chunks_mut makes of n elements: element x is in the chunk with the *)
(* number x \div s and in no other.                                        *)
LEMMA ChunkHolds ==
    ASSUME NEW n \in Nat, NEW s \in Nat \ {0}, NEW k \in Nat, At(k, s) < n
    PROVE  /\ Schedule!LenOfChunk(n, s, k) \in Nat \ {0} /\ At(k, s) \in Nat
           /\ At(k, s) + Schedule!LenOfChunk(n, s, k) <= n
           /\ \A x \in Nat : x \in At(k, s) .. At(k, s) + Schedule!LenOfChunk(n, s, k) - 1
                               <=> x < n /\ No(x, s) = k
<1> DEFINE len == Schedule!LenOfChunk(n, s, k)
<1>1. k * s \in Nat /\ k * s < n
  BY DEF At
<1>2. len = IF s <= n - k * s THEN s ELSE n - k * s
  BY <1>1, LesserOfTwo DEF Schedule!LenOfChunk
<1>3. len \in Nat \ {0} /\ k * s + len <= n /\ len <= s
  BY <1>1, <1>2
<1> HIDE DEF len
<1>4. ASSUME NEW x \in Nat, x \in k * s .. k * s + len - 1
      PROVE  x < n /\ x \div s = k
  <2>1. k * s <= x /\ x < k * s + s /\ x < n
    BY <1>1, <1>3, <1>4
  <2> QED BY <2>1, QuotientIs
<1>5. ASSUME NEW x \in Nat, x < n, x \div s = k
      PROVE  x \in k * s .. k * s + len - 1
  <2>1. k * s <= x /\ x < k * s + s
    BY <1>5, Quotient
  <2> QED BY <1>1, <1>2, <1>5, <2>1
<1>6. ASSUME NEW x \in Nat
      PROVE  x \in At(k, s) .. At(k, s) + len - 1 <=> x < n /\ No(x, s) = k
  <2>1. x \in k * s .. k * s + len - 1 <=> x < n /\ x \div s = k
    BY <1>4, <1>5
  <2> QED BY <2>1 DEF At, No
<1>7. At(k, s) \in Nat /\ At(k, s) + len <= n
  BY <1>1, <1>3 DEF At
<1> QED BY <1>3, <1>6, <1>7 DEF len

(* The chunk of an element is one of the chunks. *)
LEMMA ChunkExists ==
    ASSUME NEW n \in Nat, NEW s \in Nat \ {0}, NEW x \in Nat, x < n
    PROVE  No(x, s) \in Nat /\ At(No(x, s), s) < n /\ No(x, s) < Schedule!DivCeil(n, s)
<1> DEFINE k == x \div s
<1>1. k \in Nat /\ k * s <= x
  BY Quotient
<1>2. k * s < n
  BY <1>1
<1>3. k < Schedule!DivCeil(n, s)
  BY <1>1, <1>2, ChunksBelow
<1> QED BY <1>1, <1>2, <1>3 DEF At, No

(* The chunks are those that begin before the end. *)
LEMMA ChunkCountIs ==
    ASSUME NEW n \in Nat, NEW s \in Nat \ {0}
    PROVE  /\ Schedule!DivCeil(n, s) \in Nat
           /\ \A k \in Nat : k < Schedule!DivCeil(n, s) <=> At(k, s) < n
  BY ChunksBelow DEF At

(* Chunks of at least n / j elements are at most j. *)
LEMMA FewChunks ==
    ASSUME NEW n \in Nat, NEW s \in Nat \ {0}, NEW j \in Nat, n <= j * s
    PROVE  Schedule!DivCeil(n, s) <= j
<1>1. Schedule!DivCeil(n, s) \in Nat /\ (j < Schedule!DivCeil(n, s) <=> j * s < n)
  BY ChunksBelow
<1>2. j * s \in Nat
  OBVIOUS
<1> QED BY <1>1, <1>2

(* What is not empty has a chunk. *)
LEMMA SomeChunk ==
    ASSUME NEW n \in Nat \ {0}, NEW s \in Nat \ {0}
    PROVE  Schedule!DivCeil(n, s) \in Nat \ {0}
<1>1. Schedule!DivCeil(n, s) \in Nat /\ (0 < Schedule!DivCeil(n, s) <=> 0 * s < n)
  BY ChunksBelow
<1>2. 0 * s = 0
  OBVIOUS
<1> QED BY <1>1, <1>2

(* That many chunks hold everything. *)
LEMMA ChunksSuffice ==
    ASSUME NEW n \in Nat, NEW s \in Nat \ {0}
    PROVE  n <= Schedule!DivCeil(n, s) * s
<1> DEFINE c == Schedule!DivCeil(n, s)
<1>1. c \in Nat /\ (c < c <=> c * s < n)
  BY ChunksBelow
<1> HIDE DEF c
<1>2. c * s \in Nat
  BY <1>1
<1>3. n <= c * s
  BY <1>1, <1>2
<1> QED BY <1>3 DEF c

-----------------------------------------------------------------------------
(* Piece p codes element x of output r. *)
Covers(p, r, x) == r \in DOMAIN p.rows /\ x \in p.at .. p.at + p.len - 1

(* A piece is coded with the rows and from the place that it belongs to. *)
Faithful(p) == p.start = p.at /\ p.at \in Nat /\ p.len \in Nat /\ \A r \in DOMAIN p.rows :
    p.rows[r] = r

(* A task's list of faithful pieces. *)
Listed(ps) == Len(ps) \in Nat /\ DOMAIN ps = 1 .. Len(ps) /\ \A n \in DOMAIN ps : Faithful(ps[n])

(* One task has one piece for element x of output r, and nobody another. *)
Owned(ts, r, x) ==
    \E t0 \in DOMAIN ts : \E n0 \in DOMAIN ts[t0] :
      \A t \in DOMAIN ts : \A n \in DOMAIN ts[t] : Covers(ts[t][n], r, x) <=> t = t0 /\ n = n0

(* A division of the outputs among tasks. *)
Division(ts) ==
    /\ \A t \in DOMAIN ts : Listed(ts[t])
    /\ \A r \in Schedule!OutputRows, x \in 0 .. call.len - 1 : Owned(ts, r, x)
    /\ IsFiniteSet(DOMAIN ts) /\ Cardinality(DOMAIN ts) <= Schedule!Jobs

(* What is known of a call: sizes are naturals and at least one, and its   *)
(* policy has the bound on jobs that the caller asked for.                 *)
CallOK(c) ==
    /\ c.len \in Nat /\ c.outputs \in Nat \ {0} /\ c.esize \in Nat \ {0} /\ c.avail \in Nat
    /\ c.policy.min_parallel \in Nat /\ c.policy.min_per_job \in Nat
    /\ c.policy.max_jobs \in Nat /\ c.policy.l2 \in Nat
    /\ c.asked = c.policy.max_jobs

(* Cutting len elements into groups of G and a group into steps of s. *)
LEMMA ChunksOfGroups ==
    ASSUME NEW len \in Nat \ {0}, NEW G \in Nat \ {0}, NEW s \in Nat \ {0}, NEW g \in Nat,
           At(g, G) < len,
           NEW l, l = Schedule!LenOfChunk(len, G, g), NEW k \in Nat, At(k, s) < l
    PROVE  /\ l \in Nat \ {0} /\ At(g, G) \in Nat /\ At(k, s) \in Nat
                /\ Schedule!LenOfChunk(l, s, k) \in Nat
           /\ \A x \in Nat : x \in At(g, G) + At(k, s)
                .. At(g, G) + At(k, s) + Schedule!LenOfChunk(l, s, k) - 1
                               <=> x < len /\ No(x, G) = g /\ No(x - At(g, G), s) = k
<1> DEFINE a == At(g, G)
           b == At(k, s)
           m == Schedule!LenOfChunk(l, s, k)
<1>1. /\ l \in Nat \ {0} /\ a + l <= len /\ a \in Nat
      /\ \A y \in Nat : y \in a .. a + l - 1 <=> y < len /\ No(y, G) = g
  BY ChunkHolds
<1>2. /\ m \in Nat \ {0} /\ b + m <= l /\ b \in Nat
      /\ \A y \in Nat : y \in b .. b + m - 1 <=> y < l /\ No(y, s) = k
  BY <1>1, ChunkHolds
<1> HIDE DEF a, b, m
<1>3. ASSUME NEW x \in Nat
      PROVE  x \in a + b .. a + b + m - 1 <=> x < len /\ No(x, G) = g /\ No(x - a, s) = k
  <2>1. CASE x >= a
    <3>1. PICK y \in Nat : y = x - a
      BY <1>1, <2>1
    <3>2. y \in b .. b + m - 1 <=> y < l /\ No(y, s) = k
      BY <1>2
    <3>3. x \in a + b .. a + b + m - 1 <=> y \in b .. b + m - 1
      BY <1>1, <1>2, <3>1
    <3>4. y < l <=> x \in a .. a + l - 1
      BY <1>1, <2>1, <3>1
    <3>5. y < l <=> x < len /\ No(x, G) = g
      BY <1>1, <3>4
    <3> QED BY <3>1, <3>2, <3>3, <3>5
  <2>2. CASE x < a
    BY <1>1, <1>2, <2>2
  <2> QED BY <1>1, <2>1, <2>2
<1> QED BY <1>1, <1>2, <1>3 DEF a, b, m

(* The pieces of group g: the elements from g * G on, in steps of s. *)
GroupPieces(rows, len, G, s, g) ==
    LET l == Schedule!LenOfChunk(len, G, g)
    IN  [n \in 1 .. Schedule!ChunkCount(l, s) |->
           Schedule!Piece(rows, At(g, G) + At(n - 1, s), At(g, G) + At(n - 1, s),
               Schedule!LenOfChunk(l, s, n - 1))]

(* Each output is coded with the row of the same number. *)
IsIdentity(rows) == \A r \in DOMAIN rows : rows[r] = r

(* What a piece made with the same start and place covers. *)
LEMMA PieceIs ==
    ASSUME NEW rows, IsIdentity(rows), NEW at \in Nat, NEW len \in Nat, NEW p,
           p = Schedule!Piece(rows, at, at, len)
    PROVE  /\ Faithful(p)
           /\ \A r, x : Covers(p, r, x) <=> r \in DOMAIN rows /\ x \in at .. at + len - 1
  BY DEF Covers, Faithful, Schedule!Piece, IsIdentity

(* The chunk k of group g, as a piece. *)
LEMMA PieceOfGroup ==
    ASSUME NEW len \in Nat \ {0}, NEW G \in Nat \ {0}, NEW s \in Nat \ {0}, NEW g \in Nat,
           At(g, G) < len,
           NEW l, l = Schedule!LenOfChunk(len, G, g), NEW k \in Nat, At(k, s) < l, NEW rows,
               IsIdentity(rows),
           NEW p, p = Schedule!Piece(rows, At(g, G) + At(k, s), At(g, G) + At(k, s),
               Schedule!LenOfChunk(l, s, k))
    PROVE  /\ Faithful(p)
           /\ \A r : \A x \in Nat : Covers(p, r, x)
                        <=> r \in DOMAIN rows /\ x < len /\ No(x, G) = g /\ No(x - At(g, G), s) = k
<1>1. /\ At(g, G) \in Nat /\ At(k, s) \in Nat /\ Schedule!LenOfChunk(l, s, k) \in Nat
      /\ \A x \in Nat : x \in At(g, G) + At(k, s)
           .. At(g, G) + At(k, s) + Schedule!LenOfChunk(l, s, k) - 1
                          <=> x < len /\ No(x, G) = g /\ No(x - At(g, G), s) = k
  BY ChunksOfGroups
<1>2. PICK at \in Nat, m \in Nat : at = At(g, G) + At(k, s) /\ m = Schedule!LenOfChunk(l, s, k)
  BY <1>1
<1>3. /\ Faithful(p)
      /\ \A r, x : Covers(p, r, x) <=> r \in DOMAIN rows /\ x \in at .. at + m - 1
  BY <1>2, PieceIs
<1>4. \A x \in Nat : x \in at .. at + m - 1 <=> x < len /\ No(x, G) = g /\ No(x - At(g, G), s) = k
  BY <1>1, <1>2
<1> QED BY <1>3, <1>4

(* The pieces of group g cover the elements of that group, each once. *)
LEMMA GroupIs ==
    ASSUME NEW len \in Nat \ {0}, NEW G \in Nat \ {0}, NEW s \in Nat \ {0}, NEW g \in Nat,
           At(g, G) < len,
           NEW rows, IsIdentity(rows), NEW ps, ps = GroupPieces(rows, len, G, s, g)
    PROVE  /\ Listed(ps)
           /\ \A n \in DOMAIN ps : \A r : \A x \in Nat :
                Covers(ps[n], r, x) <=> /\ r \in DOMAIN rows /\ x < len /\ No(x, G) = g
                                        /\ n = No(x - At(g, G), s) + 1
           /\ \A x \in Nat : x < len /\ No(x, G) = g => No(x - At(g, G), s) + 1 \in DOMAIN ps
<1>1. PICK l \in Nat \ {0}, a \in Nat : l = Schedule!LenOfChunk(len, G, g) /\ a = At(g, G)
  BY ChunkHolds
<1>2. \A x \in Nat : x < len /\ No(x, G) = g => x - a \in Nat /\ x - a < l /\ No(x - a, s) \in Nat
  <2>1. \A x \in Nat : x \in a .. a + l - 1 <=> x < len /\ No(x, G) = g
    BY <1>1, ChunkHolds
  <2>2. \A x \in Nat : x < len /\ No(x, G) = g => x - a \in Nat /\ x - a < l
    BY <2>1
  <2>3. \A y \in Nat : y < l => No(y, s) \in Nat
    BY ChunkExists
  <2> QED BY <2>2, <2>3
<1>3. PICK c \in Nat : c = Schedule!ChunkCount(l, s) /\ c = Schedule!DivCeil(l, s) /\ \A k \in Nat :
        k < c <=> At(k, s) < l
  BY ChunkCountIs DEF Schedule!ChunkCount
<1>4. ps = [n \in 1 .. c |-> Schedule!Piece(rows, a + At(n - 1, s), a + At(n - 1, s),
        Schedule!LenOfChunk(l, s, n - 1))]
  BY <1>1, <1>3 DEF GroupPieces
<1>5. DOMAIN ps = 1 .. c /\ Len(ps) = c
  BY <1>4
<1>6. ASSUME NEW n \in 1 .. c
      PROVE  /\ Faithful(ps[n])
             /\ \A r : \A x \in Nat : Covers(ps[n], r, x) <=>
                            /\ r \in DOMAIN rows /\ x < len /\ No(x, G) = g
                            /\ n = No(x - a, s) + 1
  <2>1. PICK k \in Nat : k = n - 1 /\ k < c
    OBVIOUS
  <2>2. At(k, s) < l
    BY <1>3, <2>1
  <2>3. ps[n] = Schedule!Piece(rows, a + At(k, s), a + At(k, s), Schedule!LenOfChunk(l, s, k))
    BY <1>4, <2>1
  <2>4. /\ Faithful(ps[n])
        /\ \A r : \A x \in Nat : Covers(ps[n], r, x)
                        <=> r \in DOMAIN rows /\ x < len /\ No(x, G) = g /\ No(x - a, s) = k
    BY <1>1, <2>2, <2>3, PieceOfGroup
  <2>5. \A x \in Nat : x < len /\ No(x, G) = g => (No(x - a, s) = k <=> n = No(x - a, s) + 1)
    BY <1>2, <2>1
  <2> QED BY <2>4, <2>5
<1>7. ASSUME NEW x \in Nat, x < len, No(x, G) = g
      PROVE  No(x - a, s) + 1 \in 1 .. c
  <2>1. PICK y \in Nat : y = x - a /\ y < l
    BY <1>2, <1>7
  <2>2. No(y, s) \in Nat /\ No(y, s) < c
    BY <1>3, <2>1, ChunkExists
  <2> QED BY <2>1, <2>2
<1>8. Listed(ps)
  BY <1>5, <1>6 DEF Listed
<1> QED BY <1>1, <1>5, <1>6, <1>7, <1>8

-----------------------------------------------------------------------------
(* Sets of outputs, each cut into groups of a size of its own. *)
Grouped(ts, len, s, I, size, rows) ==
    /\ size \in [I -> Nat \ {0}] /\ \A i \in I : IsIdentity(rows[i])
    /\ \A t : t \in DOMAIN ts <=> \E i \in I : \E g \in Nat : t = <<i, g>> /\ At(g, size[i]) < len
    /\ \A i \in I : \A g \in Nat :
         At(g, size[i]) < len => ts[<<i, g>>] = GroupPieces(rows[i], len, size[i], s, g)

(* Output r belongs to one of the sets of outputs. *)
RowIsIn(r, I, rows) == \E i \in I : \A j \in I : r \in DOMAIN rows[j] <=> j = i

(* Cut that way, every element of such an output has one owner. *)
LEMMA GroupsOwn ==
    ASSUME NEW len \in Nat \ {0}, NEW s \in Nat \ {0}, NEW ts, NEW I, NEW size, NEW rows,
           Grouped(ts, len, s, I, size, rows)
    PROVE  /\ \A t \in DOMAIN ts : Listed(ts[t])
           /\ \A r : \A x \in Nat : x < len /\ RowIsIn(r, I, rows) => Owned(ts, r, x)
<1> USE DEF Grouped
<1>1. ASSUME NEW t \in DOMAIN ts PROVE Listed(ts[t])
  <2>1. PICK i \in I : \E g \in Nat : t = <<i, g>> /\ At(g, size[i]) < len
    OBVIOUS
  <2>2. PICK g \in Nat : t = <<i, g>> /\ At(g, size[i]) < len
    BY <2>1
  <2>3. PICK G \in Nat \ {0} : G = size[i]
    OBVIOUS
  <2>4. ts[t] = GroupPieces(rows[i], len, G, s, g) /\ IsIdentity(rows[i]) /\ At(g, G) < len
    BY <2>2, <2>3
  <2> QED BY <2>4, GroupIs
<1>2. ASSUME NEW r, NEW x \in Nat, x < len, NEW i \in I, \A j \in I : r \in DOMAIN rows[j] <=> j = i
      PROVE  Owned(ts, r, x)
  <2>1. PICK G \in Nat \ {0} : G = size[i]
    OBVIOUS
  <2>2. PICK g0 \in Nat : g0 = No(x, G) /\ At(g0, G) < len
    BY <1>2, ChunkExists
  <2>3. PICK t0 : t0 = <<i, g0>>
    OBVIOUS
  <2>4. t0 \in DOMAIN ts /\ ts[t0] = GroupPieces(rows[i], len, G, s, g0) /\ IsIdentity(rows[i])
    BY <2>1, <2>2, <2>3
  <2>5. PICK n0 : n0 = No(x - At(g0, G), s) + 1
    OBVIOUS
  <2>6. n0 \in DOMAIN ts[t0]
    BY <1>2, <2>2, <2>4, <2>5, GroupIs
  <2>7. ASSUME NEW t \in DOMAIN ts, NEW n \in DOMAIN ts[t]
        PROVE  Covers(ts[t][n], r, x) <=> t = t0 /\ n = n0
    <3>1. PICK j \in I : \E g \in Nat : t = <<j, g>> /\ At(g, size[j]) < len
      OBVIOUS
    <3>2. PICK g \in Nat : t = <<j, g>> /\ At(g, size[j]) < len
      BY <3>1
    <3>3. PICK H \in Nat \ {0} : H = size[j]
      OBVIOUS
    <3>4. ts[t] = GroupPieces(rows[j], len, H, s, g) /\ IsIdentity(rows[j]) /\ At(g, H) < len
      BY <3>2, <3>3
    <3>5. Covers(ts[t][n], r, x) <=> /\ r \in DOMAIN rows[j] /\ x < len /\ No(x, H) = g
                                     /\ n = No(x - At(g, H), s) + 1
      BY <3>4, GroupIs
    <3>6. r \in DOMAIN rows[j] <=> j = i
      BY <1>2
    <3>7. t = t0 <=> j = i /\ g = g0
      BY <2>3, <3>2
    <3>8. j = i => H = G
      BY <2>1, <3>3
    <3> QED BY <1>2, <2>2, <2>5, <3>5, <3>6, <3>7, <3>8
  <2> QED BY <2>4, <2>6, <2>7 DEF Owned
<1> QED BY <1>1, <1>2 DEF RowIsIn

-----------------------------------------------------------------------------
(* Groups of outputs, each output cut into chunks. *)
Rem(n, s) == n % s

(* A number has one pair of digits, *)
LEMMA Digits ==
    ASSUME NEW n \in Nat, NEW s \in Nat \ {0}, NEW a \in Nat, NEW k \in Nat, k < s
    PROVE  n = At(a, s) + k <=> No(n, s) = a /\ Rem(n, s) = k
<1>1. n % s \in Nat /\ n = s * (n \div s) + (n % s)
  BY Remainder
<1>2. ASSUME n = a * s + k PROVE n \div s = a /\ n % s = k
  <2>1. a * s \in Nat
    OBVIOUS
  <2>2. a * s <= n /\ n < a * s + s
    BY <1>2, <2>1
  <2>3. n \div s = a
    BY <2>2, QuotientIs
  <2>4. n = s * a + (n % s)
    BY <1>1, <2>3
  <2> QED BY <1>1, <1>2, <2>3, <2>4
<1>3. ASSUME n \div s = a, n % s = k PROVE n = a * s + k
  <2>1. n = s * a + k
    BY <1>1, <1>3
  <2> QED BY <2>1
<1> QED BY <1>2, <1>3 DEF At, No, Rem

(* the higher one is in range when the number is, *)
LEMMA DigitsInRange ==
    ASSUME NEW n \in Nat, NEW s \in Nat \ {0}, NEW m \in Nat
    PROVE  /\ No(n, s) \in Nat /\ Rem(n, s) \in Nat /\ Rem(n, s) < s /\ At(m, s) \in Nat
           /\ n < At(m, s) => No(n, s) < m
<1>1. n % s \in Nat /\ n % s < s /\ n \div s \in Nat /\ m * s \in Nat
  BY Remainder, Quotient
<1>2. ASSUME n < m * s PROVE n \div s < m
  <2>1. (n \div s) * s <= n
    BY Quotient
  <2>2. CASE m < n \div s
    BY <1>1, <1>2, <2>1, <2>2, Above
  <2>3. CASE m = n \div s
    BY <1>1, <1>2, <2>1, <2>3
  <2> QED BY <1>1, <2>2, <2>3
<1> QED BY <1>1, <1>2 DEF At, No, Rem

(* and every pair of digits in range is a number in range. *)
LEMMA DigitsFit ==
    ASSUME NEW s \in Nat \ {0}, NEW m \in Nat, NEW a \in Nat, NEW k \in Nat, a < m, k < s
    PROVE  At(a, s) \in Nat /\ At(m, s) \in Nat /\ At(a, s) + k < At(m, s)
  BY Above DEF At

(* The pieces of group g of P outputs, output after output. *)
OutputPieces(len, outputs, P, s, g) ==
    [n \in 1 .. Schedule!LenOfChunk(outputs, P, g) * Schedule!ChunkCount(len, s) |->
       LET C == Schedule!ChunkCount(len, s)
       IN  Schedule!Piece(Schedule!OneRow(At(g, P) + No(n - 1, C), At(g, P) + No(n - 1, C)),
                 At(Rem(n - 1, C), s), At(Rem(n - 1, C), s),
                     Schedule!LenOfChunk(len, s, Rem(n - 1, C)))]

(* They cover the outputs of that group, every element of them once. *)
LEMMA OutputGroupIs ==
    ASSUME NEW len \in Nat \ {0}, NEW outputs \in Nat \ {0}, NEW P \in Nat \ {0},
           NEW s \in Nat \ {0},
           NEW g \in Nat, At(g, P) < outputs,
           NEW C, C = Schedule!DivCeil(len, s),
           NEW ps, ps = OutputPieces(len, outputs, P, s, g)
    PROVE  /\ Listed(ps)
           /\ \A n \in DOMAIN ps : \A r, x \in Nat :
                Covers(ps[n], r, x) <=> /\ r < outputs /\ No(r, P) = g /\ x < len
                                        /\ n = At(r - At(g, P), C) + No(x, s) + 1
           /\ \A r, x \in Nat : r < outputs /\ No(r, P) = g /\ x < len
                => At(r - At(g, P), C) + No(x, s) + 1 \in DOMAIN ps
<1>1. PICK m \in Nat \ {0}, a \in Nat : m = Schedule!LenOfChunk(outputs, P, g) /\ a = At(g, P)
  BY ChunkHolds
<1>2. \A r \in Nat : r \in a .. a + m - 1 <=> r < outputs /\ No(r, P) = g
  BY <1>1, ChunkHolds
<1>3. C \in Nat \ {0} /\ (\A k \in Nat : k < C <=> At(k, s) < len)
        /\ C = Schedule!ChunkCount(len, s)
  BY ChunkCountIs, SomeChunk DEF Schedule!ChunkCount
<1>4. PICK c \in Nat : c = At(m, C)
  BY <1>1, <1>3, DigitsInRange
<1>5. m * C = c
  BY <1>4 DEF At
<1>6. ps = [n \in 1 .. c |-> Schedule!Piece(Schedule!OneRow(a + No(n - 1, C), a + No(n - 1, C)),
                 At(Rem(n - 1, C), s), At(Rem(n - 1, C), s),
                     Schedule!LenOfChunk(len, s, Rem(n - 1, C)))]
  BY <1>1, <1>3, <1>5 DEF OutputPieces
<1>7. DOMAIN ps = 1 .. c /\ Len(ps) = c
  BY <1>6
<1>8. \A x \in Nat : x < len => No(x, s) \in Nat /\ No(x, s) < C
  BY <1>3, ChunkExists
<1>9. ASSUME NEW n \in 1 .. c
      PROVE  /\ Faithful(ps[n])
             /\ \A r, x \in Nat :
                Covers(ps[n], r, x) <=> /\ r < outputs /\ No(r, P) = g /\ x < len
                                        /\ n = At(r - a, C) + No(x, s) + 1
  <2>1. PICK y \in Nat : y = n - 1 /\ y < c
    OBVIOUS
  <2>2. PICK o \in Nat, k \in Nat : o = No(y, C) /\ k = Rem(y, C) /\ o < m /\ k < C
    BY <1>1, <1>3, <1>4, <2>1, DigitsInRange
  <2>0. /\ At(k, s) \in Nat /\ Schedule!LenOfChunk(len, s, k) \in Nat
        /\ \A x \in Nat : x \in At(k, s) .. At(k, s) + Schedule!LenOfChunk(len, s, k) - 1
                            <=> x < len /\ No(x, s) = k
    BY <1>3, <2>2, ChunkHolds
  <2>3. PICK at \in Nat, l \in Nat : /\ at = At(k, s) /\ l = Schedule!LenOfChunk(len, s, k)
                                           /\ \A x \in Nat : x \in at .. at + l - 1 <=> x < len
                                                /\ No(x, s) = k
    BY <2>0
  <2>4. ps[n] = Schedule!Piece(Schedule!OneRow(a + o, a + o), at, at, l)
    BY <1>6, <2>1, <2>2, <2>3
  <2>5. DOMAIN Schedule!OneRow(a + o, a + o) = {a + o} /\ IsIdentity(Schedule!OneRow(a + o, a + o))
    BY DEF Schedule!OneRow, IsIdentity
  <2>6. /\ Faithful(ps[n])
        /\ \A r, x : Covers(ps[n], r, x) <=> r = a + o /\ x \in at .. at + l - 1
    BY <2>4, <2>5, PieceIs
  <2>7. ASSUME NEW r \in Nat, NEW x \in Nat
        PROVE  r = a + o /\ x < len /\ No(x, s) = k
                 <=> /\ r < outputs /\ No(r, P) = g /\ x < len
                     /\ n = At(r - a, C) + No(x, s) + 1
    <3>1. ASSUME r = a + o, x < len, No(x, s) = k
          PROVE  /\ r < outputs /\ No(r, P) = g /\ x < len
                 /\ n = At(r - a, C) + No(x, s) + 1
      <4>1. r \in a .. a + m - 1 /\ r - a = o
        BY <1>1, <2>2, <3>1
      <4>2. y = At(o, C) + k
        BY <1>3, <2>2, Digits
      <4>3. At(o, C) \in Nat
        BY <1>3, DigitsInRange
      <4> QED BY <1>2, <2>1, <3>1, <4>1, <4>2, <4>3
    <3>2. ASSUME r < outputs, No(r, P) = g, x < len, n = At(r - a, C) + No(x, s) + 1
          PROVE  r = a + o /\ No(x, s) = k
      <4>1. PICK q \in Nat : q = r - a
        BY <1>1, <1>2, <3>2
      <4>2. PICK j \in Nat : j = No(x, s) /\ j < C
        BY <1>8, <3>2
      <4>3. At(q, C) \in Nat
        BY <1>3, DigitsInRange
      <4>4. y = At(q, C) + j
        BY <2>1, <3>2, <4>1, <4>2, <4>3
      <4>5. o = q /\ k = j
        BY <1>3, <2>2, <4>2, <4>4, Digits
      <4> QED BY <4>1, <4>2, <4>5
    <3> QED BY <3>1, <3>2
  <2> QED BY <2>3, <2>6, <2>7
<1>10. ASSUME NEW r \in Nat, NEW x \in Nat, r < outputs, No(r, P) = g, x < len
       PROVE  At(r - a, C) + No(x, s) + 1 \in 1 .. c
  <2>1. PICK q \in Nat : q = r - a /\ q < m
    BY <1>1, <1>2, <1>10
  <2>2. PICK j \in Nat : j = No(x, s) /\ j < C
    BY <1>8, <1>10
  <2>3. At(q, C) + j < At(m, C) /\ At(q, C) \in Nat
    BY <1>1, <1>3, <2>1, <2>2, DigitsFit
  <2> QED BY <1>4, <2>1, <2>2, <2>3
<1>11. Listed(ps)
  BY <1>7, <1>9 DEF Listed
<1> QED BY <1>1, <1>7, <1>9, <1>10, <1>11

-----------------------------------------------------------------------------
(* What is known of a decision. *)
Decided == decision.jobs \in Nat /\ decision.chunk_len \in Nat

(* No loop has a step of zero: every divisor and chunk length the loops    *)
(* use is at least one, whatever was decided.                              *)
LEMMA StepsArePositive ==
    ASSUME CallOK(call), call.len > 0, Decided
    PROVE  /\ Schedule!Jobs \in Nat \ {0} /\ Schedule!ChunkStep \in Nat \ {0}
           /\ Schedule!AtLeastOne(decision.chunk_len) \in Nat \ {0}
           /\ Schedule!Min({Schedule!SerialChunkLen(call.len), call.len}) \in Nat \ {0}
<1>1. PICK len \in Nat \ {0} : len = call.len
  BY DEF CallOK
<1>2. PICK c \in Nat \ {0} : c = Schedule!AtLeastOne(decision.chunk_len)
  BY AtLeastOneIs DEF Decided
<1>3. PICK j \in Nat \ {0} : j = Schedule!Jobs
  BY AtLeastOneIs DEF Decided, Schedule!Jobs
<1>4. Schedule!SerialChunkLen(len) \in Nat \ {0}
  BY ScheduleFits DEF Schedule!SerialChunkLen, Schedule!ScheduleAssumption
<1>5. Schedule!Min({Schedule!SerialChunkLen(len), len}) \in Nat \ {0}
  BY <1>4, LesserOfTwo
<1>6. Schedule!Min({c, len}) \in Nat \ {0}
  BY LesserOfTwo
<1>7. Schedule!ChunkStep = Schedule!Min({c, len})
  BY <1>1, <1>2 DEF Schedule!ChunkStep
<1> QED BY <1>1, <1>2, <1>3, <1>5, <1>6, <1>7

(* All outputs, each with its own row. *)
LEMMA AllRowsIs == IsIdentity(Schedule!AllRows) /\ DOMAIN Schedule!AllRows = Schedule!OutputRows
  BY DEF IsIdentity, Schedule!AllRows

(* There are c numbers below c. *)
LEMMA CountUp ==
    ASSUME NEW c \in Nat
    PROVE  IsFiniteSet(0 .. c - 1) /\ Cardinality(0 .. c - 1) = c
  BY FS_Interval

(* The tasks of one row of groups. *)
LEMMA FlatTasks ==
    ASSUME NEW c \in Nat, NEW S, S = {0} \X (0 .. c - 1)
    PROVE  IsFiniteSet(S) /\ Cardinality(S) = c
<1>1. IsFiniteSet(0 .. c - 1) /\ Cardinality(0 .. c - 1) = c
  BY CountUp
<1>2. IsFiniteSet({0}) /\ Cardinality({0}) = 1
  BY FS_Singleton
<1>3. IsFiniteSet(S) /\ Cardinality(S) = Cardinality({0}) * Cardinality(0 .. c - 1)
  BY <1>1, <1>2, FS_Product
<1>4. Cardinality(S) = 1 * c
  BY <1>1, <1>2, <1>3
<1> QED BY <1>3, <1>4

(* Every group across all outputs. *)
FlatGroups(c, G, s) == [t \in {0} \X (0 .. c - 1) |->
    GroupPieces(Schedule!AllRows, call.len, G, s, t[2])]

(* Groups across all outputs are a division. *)
LEMMA FlatDivides ==
    ASSUME CallOK(call), call.len > 0, NEW G \in Nat \ {0}, NEW s \in Nat \ {0},
           NEW c \in Nat, c = Schedule!DivCeil(call.len, G), c <= Schedule!Jobs,
           NEW ts, ts = FlatGroups(c, G, s)
    PROVE  Division(ts)
<1> USE DEF FlatGroups
<1>1. PICK len \in Nat \ {0} : len = call.len
  BY DEF CallOK
<1>2. PICK size : size = [i \in {0} |-> G]
  OBVIOUS
<1>3. PICK rows : rows = [i \in {0} |-> Schedule!AllRows]
  OBVIOUS
<1>4. \A g \in Nat : g < c <=> At(g, G) < len
  BY <1>1, ChunkCountIs
<1>5. DOMAIN ts = {0} \X (0 .. c - 1)
  OBVIOUS
<1>0. PICK I : I = {0}
  OBVIOUS
<1>6. ASSUME NEW t
      PROVE  t \in DOMAIN ts <=> \E i \in I : \E g \in Nat : t = <<i, g>> /\ At(g, size[i]) < len
  <2>1. ASSUME t \in DOMAIN ts
        PROVE  \E i \in I : \E g \in Nat : t = <<i, g>> /\ At(g, size[i]) < len
    <3>1. PICK g \in 0 .. c - 1 : t = <<0, g>>
      BY <1>5, <2>1
    <3>2. g \in Nat /\ At(g, G) < len /\ size[0] = G
      BY <1>2, <1>4
    <3> QED BY <1>0, <3>1, <3>2
  <2>2. ASSUME NEW g \in Nat, t = <<0, g>>, At(g, size[0]) < len
        PROVE  t \in DOMAIN ts
    <3>1. g \in 0 .. c - 1
      BY <1>2, <1>4, <2>2
    <3> QED BY <1>5, <2>2, <3>1
  <2> QED BY <1>0, <2>1, <2>2
<1>7. ASSUME NEW i \in I, NEW g \in Nat, At(g, size[i]) < len
      PROVE  ts[<<i, g>>] = GroupPieces(rows[i], len, size[i], s, g)
  <2>1. <<i, g>> \in DOMAIN ts
    BY <1>6, <1>7
  <2> QED BY <1>0, <1>1, <1>2, <1>3, <2>1
<1>8. \A i \in I : IsIdentity(rows[i])
  BY <1>0, <1>3, AllRowsIs
<1>9. size \in [I -> Nat \ {0}]
  BY <1>0, <1>2
<1>10. /\ \A t \in DOMAIN ts : Listed(ts[t])
       /\ \A r : \A x \in Nat :
            x < len /\ RowIsIn(r, I, rows) => Owned(ts, r, x)
  <2>1. Grouped(ts, len, s, I, size, rows)
    BY <1>6, <1>7, <1>8, <1>9 DEF Grouped
  <2> QED BY <2>1, GroupsOwn
<1>11. ASSUME NEW r \in Schedule!OutputRows, NEW x \in 0 .. call.len - 1 PROVE Owned(ts, r, x)
  <2>1. x \in Nat /\ x < len
    BY <1>1
  <2>2. \A j \in I : r \in DOMAIN rows[j] <=> j = 0
    BY <1>0, <1>3, AllRowsIs
  <2> QED BY <1>0, <1>10, <2>1, <2>2 DEF RowIsIn
<1>12. IsFiniteSet(DOMAIN ts) /\ Cardinality(DOMAIN ts) <= Schedule!Jobs
  BY <1>5, FlatTasks
<1> QED BY <1>10, <1>11, <1>12 DEF Division

(* The pieces as the code computes them. *)
LEMMA GroupAsCoded ==
    ASSUME NEW len \in Nat \ {0}, NEW G \in Nat \ {0}, NEW s \in Nat \ {0}, NEW g \in Nat, NEW rows
    PROVE  GroupPieces(rows, len, G, s, g) =
             [n \in 1 .. Schedule!ChunkCount(Schedule!LenOfChunk(len, G, g), s) |->
                Schedule!Piece(rows, g * G + (n - 1) * s, g * G + (n - 1) * s,
                      Schedule!LenOfChunk(Schedule!LenOfChunk(len, G, g), s, n - 1))]
  BY DEF GroupPieces, At

(* The serial loop is a division: one task. *)
LEMMA SerialDivides ==
    ASSUME CallOK(call), call.len > 0, Decided
    PROVE  Division(Schedule!SerialLoop)
<1>1. PICK len \in Nat \ {0} : len = call.len
  BY DEF CallOK
<1>2. PICK s \in Nat \ {0} : s = Schedule!Min({Schedule!SerialChunkLen(call.len), call.len})
  BY StepsArePositive
<1>3. Schedule!SerialLoop = [t \in {<<0, 0>>} |->
          [n \in 1 .. Schedule!ChunkCount(len, s) |->
             Schedule!Piece(Schedule!AllRows, (n - 1) * s, (n - 1) * s,
                 Schedule!LenOfChunk(len, s, n - 1))]]
  BY <1>1, <1>2 DEF Schedule!SerialLoop
<1>4. Schedule!LenOfChunk(len, len, 0) = len /\ 0 * len = 0
  BY LesserOfTwo DEF Schedule!LenOfChunk
<1>5. GroupPieces(Schedule!AllRows, len, len, s, 0) =
        [n \in 1 .. Schedule!ChunkCount(len, s) |->
           Schedule!Piece(Schedule!AllRows, (n - 1) * s, (n - 1) * s,
               Schedule!LenOfChunk(len, s, n - 1))]
  <2>1. GroupPieces(Schedule!AllRows, len, len, s, 0) =
          [n \in 1 .. Schedule!ChunkCount(len, s) |->
             Schedule!Piece(Schedule!AllRows, 0 + (n - 1) * s, 0 + (n - 1) * s,
                 Schedule!LenOfChunk(len, s, n - 1))]
    BY <1>4, GroupAsCoded
  <2>2. ASSUME NEW n \in 1 .. Schedule!ChunkCount(len, s) PROVE 0 + (n - 1) * s = (n - 1) * s
    OBVIOUS
  <2> QED BY <2>1, <2>2
<1>6. Schedule!SerialLoop = [t \in {0} \X (0 .. 1 - 1) |->
        GroupPieces(Schedule!AllRows, len, len, s, t[2])]
  <2>1. {0} \X (0 .. 1 - 1) = {<<0, 0>>}
    OBVIOUS
  <2>2. PICK f : f = GroupPieces(Schedule!AllRows, len, len, s, 0)
    OBVIOUS
  <2>3. Schedule!SerialLoop = [t \in {<<0, 0>>} |-> f]
    BY <1>3, <1>5, <2>2
  <2>4. [t \in {<<0, 0>>} |-> f] = [t \in {<<0, 0>>} |->
          GroupPieces(Schedule!AllRows, len, len, s, t[2])]
    BY <2>2
  <2> QED BY <2>1, <2>3, <2>4
<1>7. Schedule!DivCeil(len, len) = 1
  <2>1. Schedule!DivCeil(len, len) \in Nat \ {0}
    BY SomeChunk
  <2>2. Schedule!DivCeil(len, len) <= 1
    BY FewChunks
  <2> QED BY <2>1, <2>2
<1>8. 1 <= Schedule!Jobs /\ Schedule!Jobs \in Nat
  BY StepsArePositive
<1>9. Schedule!SerialLoop = FlatGroups(1, len, s)
  BY <1>1, <1>6, Zenon DEF FlatGroups
<1> QED BY <1>1, <1>7, <1>8, <1>9, FlatDivides

(* The byte loops over groups of elements are a division. *)
LEMMA NativeDivides ==
    ASSUME CallOK(call), call.len > 0, Decided, decision.jobs >= 2
    PROVE  Division(Schedule!NativeJobs)
<1>1. PICK len \in Nat \ {0} : len = call.len
  BY DEF CallOK
<1>2. PICK s \in Nat \ {0} : s = Schedule!AtLeastOne(decision.chunk_len)
  BY StepsArePositive
<1>3. PICK j \in Nat \ {0} : j = decision.jobs /\ Schedule!Jobs = j
  BY AtLeastOneIs DEF Decided, Schedule!Jobs
<1>4. PICK d \in Nat \ {0} : d = Schedule!DivCeil(len, j) /\ len <= j * d
  <2>1. len <= Schedule!DivCeil(len, j) * j
    BY ChunksSuffice
  <2>2. Schedule!DivCeil(len, j) \in Nat \ {0}
    BY SomeChunk
  <2>3. PICK e \in Nat \ {0} : e = Schedule!DivCeil(len, j)
    BY <2>2
  <2>4. len <= j * e
    BY <2>1, <2>3
  <2> QED BY <2>3, <2>4
<1>5. PICK G \in Nat \ {0} : G = Schedule!DivCeil(d, Alignment) * Alignment /\ d <= G
  <2>1. PICK a \in Nat \ {0} : a = Alignment
    BY ScheduleFits DEF Schedule!ScheduleAssumption
  <2>2. PICK e \in Nat \ {0} : e = Schedule!DivCeil(d, a)
    BY SomeChunk
  <2>3. d <= e * a
    BY <2>2, ChunksSuffice
  <2>4. e * a \in Nat \ {0}
    BY <2>3
  <2> QED BY <2>1, <2>2, <2>3, <2>4
<1>6. len <= j * G
  <2>1. j * d <= j * G
    BY <1>5
  <2> QED BY <1>4, <2>1
<1>7. PICK c \in Nat : c = Schedule!DivCeil(len, G) /\ c <= Schedule!Jobs
  <2>1. Schedule!DivCeil(len, G) \in Nat
    BY SomeChunk
  <2>2. Schedule!DivCeil(len, G) <= j
    BY <1>6, FewChunks
  <2> QED BY <1>3, <2>1, <2>2
<1>8. Schedule!NativeJobs = [t \in {0} \X (0 .. c - 1) |->
          [n \in 1 .. Schedule!ChunkCount(Schedule!LenOfChunk(len, G, t[2]), s) |->
                Schedule!Piece(Schedule!AllRows, t[2] * G + (n - 1) * s, t[2] * G + (n - 1) * s,
                      Schedule!LenOfChunk(Schedule!LenOfChunk(len, G, t[2]), s, n - 1))]]
  <2>1. Schedule!DivCeil(Schedule!DivCeil(call.len, decision.jobs), Alignment) * Alignment = G
    BY <1>1, <1>3, <1>4, <1>5
  <2>2. Schedule!NativeJobCount(G) = c
    BY <1>1, <1>7 DEF Schedule!NativeJobCount
  <2> QED BY <1>1, <1>2, <2>1, <2>2, Zenon DEF Schedule!NativeJobs
<1>9. ASSUME NEW t \in {0} \X (0 .. c - 1)
      PROVE  GroupPieces(Schedule!AllRows, len, G, s, t[2]) =
               [n \in 1 .. Schedule!ChunkCount(Schedule!LenOfChunk(len, G, t[2]), s) |->
                Schedule!Piece(Schedule!AllRows, t[2] * G + (n - 1) * s, t[2] * G + (n - 1) * s,
                      Schedule!LenOfChunk(Schedule!LenOfChunk(len, G, t[2]), s, n - 1))]
  <2>1. PICK g \in Nat : g = t[2]
    OBVIOUS
  <2> QED BY <2>1, GroupAsCoded
<1>10. Schedule!NativeJobs = [t \in {0} \X (0 .. c - 1) |->
         GroupPieces(Schedule!AllRows, len, G, s, t[2])]
  BY <1>8, <1>9, Zenon
<1>11. Schedule!NativeJobs = FlatGroups(c, G, s)
  BY <1>1, <1>10, Zenon DEF FlatGroups
<1> QED BY <1>1, <1>7, <1>11, FlatDivides

(* So is one job per group of outputs, when there are outputs enough. *)
LEMMA OutputsDivide ==
    ASSUME CallOK(call), call.len > 0, Decided, call.outputs >= Schedule!Jobs
    PROVE  Division(Schedule!ForEachOutputChunk)
<1>1. PICK len \in Nat \ {0}, outputs \in Nat \ {0} : len = call.len /\ outputs = call.outputs
  BY DEF CallOK
<1>2. PICK s \in Nat \ {0}, j \in Nat \ {0} : s = Schedule!ChunkStep /\ j = Schedule!Jobs
  BY StepsArePositive
<1>3. PICK P \in Nat \ {0} : P = Schedule!OutputsPerJob /\ outputs <= j * P
  <2>1. PICK e \in Nat \ {0} : e = Schedule!DivCeil(outputs, j)
    BY SomeChunk
  <2>2. outputs <= e * j
    BY <2>1, ChunksSuffice
  <2> QED BY <1>1, <1>2, <2>1, <2>2 DEF Schedule!OutputsPerJob
<1>4. PICK c \in Nat : c = Schedule!DivCeil(outputs, P) /\ c <= j /\ \A g \in Nat : g < c
        <=> At(g, P) < outputs
  <2>1. Schedule!DivCeil(outputs, P) \in Nat /\ \A g \in Nat : g < Schedule!DivCeil(outputs, P)
          <=> At(g, P) < outputs
    BY ChunkCountIs
  <2>2. Schedule!DivCeil(outputs, P) <= j
    BY <1>3, FewChunks
  <2> QED BY <2>1, <2>2
<1>5. PICK ts : ts = Schedule!ForEachOutputChunk
  OBVIOUS
<1>6. ts = [t \in {0} \X (0 .. c - 1) |-> Schedule!OutputGroup(t[2])]
  BY <1>1, <1>3, <1>4, <1>5 DEF Schedule!ForEachOutputChunk
<1>7. ASSUME NEW g \in Nat PROVE Schedule!OutputGroup(g) = OutputPieces(len, outputs, P, s, g)
  BY <1>1, <1>2, <1>3 DEF Schedule!OutputGroup, OutputPieces, Schedule!GroupRow,
      Schedule!LenOfChunk, At, No, Rem
<1>8. DOMAIN ts = {0} \X (0 .. c - 1)
  BY <1>6
<1>9. ASSUME NEW t \in DOMAIN ts
      PROVE  \E g \in Nat : t = <<0, g>> /\ At(g, P) < outputs
             /\ ts[t] = OutputPieces(len, outputs, P, s, g)
  <2>1. PICK g \in 0 .. c - 1 : t = <<0, g>>
    BY <1>8
  <2>2. g \in Nat /\ At(g, P) < outputs
    BY <1>4
  <2>3. ts[t] = Schedule!OutputGroup(g)
    BY <1>6, <1>8, <2>1
  <2> QED BY <1>7, <2>1, <2>2, <2>3
<1>10. PICK C : C = Schedule!DivCeil(len, s)
  OBVIOUS
<1>11. ASSUME NEW t \in DOMAIN ts PROVE Listed(ts[t])
  <2>1. PICK g \in Nat : At(g, P) < outputs /\ ts[t] = OutputPieces(len, outputs, P, s, g)
    BY <1>9
  <2> QED BY <1>10, <2>1, OutputGroupIs
<1>12. ASSUME NEW r \in Schedule!OutputRows, NEW x \in 0 .. call.len - 1
       PROVE  Owned(ts, r, x)
  <2>1. r \in Nat /\ r < outputs /\ x \in Nat /\ x < len
    BY <1>1 DEF Schedule!OutputRows
  <2>2. PICK g0 \in Nat : g0 = No(r, P) /\ At(g0, P) < outputs /\ g0 < c
    BY <1>4, <2>1, ChunkExists
  <2>3. PICK t0 : t0 = <<0, g0>>
    OBVIOUS
  <2>4. PICK n0 : n0 = At(r - At(g0, P), C) + No(x, s) + 1
    OBVIOUS
  <2>5. t0 \in DOMAIN ts /\ ts[t0] = OutputPieces(len, outputs, P, s, g0)
    <3>1. t0 \in {0} \X (0 .. c - 1)
      BY <2>2, <2>3
    <3> QED BY <1>6, <1>7, <2>3, <3>1
  <2>6. n0 \in DOMAIN ts[t0]
    BY <1>10, <2>1, <2>2, <2>4, <2>5, OutputGroupIs
  <2>7. ASSUME NEW t \in DOMAIN ts, NEW n \in DOMAIN ts[t]
        PROVE  Covers(ts[t][n], r, x) <=> t = t0 /\ n = n0
    <3>1. PICK g \in Nat : t = <<0, g>> /\ At(g, P) < outputs
                           /\ ts[t] = OutputPieces(len, outputs, P, s, g)
      BY <1>9
    <3>2. Covers(ts[t][n], r, x) <=> /\ r < outputs /\ No(r, P) = g /\ x < len
                                     /\ n = At(r - At(g, P), C) + No(x, s) + 1
      BY <1>10, <2>1, <3>1, OutputGroupIs
    <3>3. t = t0 <=> g = g0
      BY <2>3, <3>1
    <3> QED BY <2>1, <2>2, <2>4, <3>2, <3>3
  <2> QED BY <2>5, <2>6, <2>7 DEF Owned
<1>13. IsFiniteSet(DOMAIN ts) /\ Cardinality(DOMAIN ts) <= Schedule!Jobs
  BY <1>2, <1>4, <1>8, FlatTasks
<1> QED BY <1>5, <1>11, <1>12, <1>13 DEF Division

(* The first of the jobs of row r, when every row has q and the first m of *)
(* them one more.                                                          *)
FirstJob(r, q, m) == At(r, q) + (IF r < m THEN r ELSE m)
MoreJob(r, m) == IF r < m THEN 1 ELSE 0

(* The jobs of one row come before the jobs of the next. *)
LEMMA JobsFollow ==
    ASSUME NEW q \in Nat, NEW m \in Nat, NEW a \in Nat, NEW b \in Nat, a < b
    PROVE  /\ FirstJob(a, q, m) \in Nat /\ FirstJob(b, q, m) \in Nat
           /\ FirstJob(a, q, m) + q + MoreJob(a, m) <= FirstJob(b, q, m)
<1>1. PICK x \in Nat, y \in Nat : x = At(a, q) /\ y = At(b, q) /\ x + q <= y
  BY Above DEF At
<1> QED BY <1>1 DEF FirstJob, MoreJob

(* Tasks that each row's jobs have room for are no more than the jobs. *)
LEMMA TasksFit ==
    ASSUME NEW outputs \in Nat \ {0}, NEW j \in Nat, NEW q \in Nat, NEW m \in Nat,
           m < outputs, j = At(outputs, q) + m,
           NEW D, \A t \in D : \E r \in Nat, g \in Nat :
                    t = <<r, g>> /\ r < outputs /\ g < q + MoreJob(r, m)
    PROVE  IsFiniteSet(D) /\ Cardinality(D) <= j
<1>1. PICK f : f = [t \in D |-> FirstJob(t[1], q, m) + t[2]]
  OBVIOUS
<1>2. FirstJob(outputs, q, m) = j
  BY DEF FirstJob
<1>3. ASSUME NEW t \in D PROVE f[t] \in 0 .. j - 1
  <2>1. PICK r \in Nat, g \in Nat : t = <<r, g>> /\ r < outputs /\ g < q + MoreJob(r, m)
    OBVIOUS
  <2>2. FirstJob(r, q, m) \in Nat /\ FirstJob(r, q, m) + q + MoreJob(r, m) <= j
    BY <1>2, <2>1, JobsFollow
  <2>3. f[t] = FirstJob(r, q, m) + g
    BY <1>1, <2>1
  <2>4. MoreJob(r, m) \in Nat
    BY DEF MoreJob
  <2> QED BY <2>1, <2>2, <2>3, <2>4
<1>4. ASSUME NEW t \in D, NEW u \in D, f[t] = f[u] PROVE t = u
  <2>1. PICK r \in Nat, g \in Nat : t = <<r, g>> /\ r < outputs /\ g < q + MoreJob(r, m)
    OBVIOUS
  <2>2. PICK r1 \in Nat, g1 \in Nat : u = <<r1, g1>> /\ r1 < outputs /\ g1 < q + MoreJob(r1, m)
    OBVIOUS
  <2>3. f[t] = FirstJob(r, q, m) + g /\ f[u] = FirstJob(r1, q, m) + g1
    BY <1>1, <2>1, <2>2
  <2>4. MoreJob(r, m) \in Nat /\ MoreJob(r1, m) \in Nat
    BY DEF MoreJob
  <2>5. CASE r < r1
    <3>1. /\ FirstJob(r, q, m) \in Nat /\ FirstJob(r1, q, m) \in Nat
          /\ FirstJob(r, q, m) + q + MoreJob(r, m) <= FirstJob(r1, q, m)
      BY <2>5, JobsFollow
    <3> QED BY <1>4, <2>1, <2>2, <2>3, <2>4, <3>1
  <2>6. CASE r1 < r
    <3>1. /\ FirstJob(r, q, m) \in Nat /\ FirstJob(r1, q, m) \in Nat
          /\ FirstJob(r1, q, m) + q + MoreJob(r1, m) <= FirstJob(r, q, m)
      BY <2>6, JobsFollow
    <3> QED BY <1>4, <2>1, <2>2, <2>3, <2>4, <3>1
  <2>7. CASE r = r1
    <3>1. FirstJob(r, q, m) \in Nat
      BY <2>1, JobsFollow
    <3> QED BY <1>4, <2>1, <2>2, <2>3, <2>7, <3>1
  <2> QED BY <2>5, <2>6, <2>7
<1>5. f \in Injection(D, 0 .. j - 1)
  BY <1>1, <1>3, <1>4 DEF Injection, IsInjective
<1>6. IsFiniteSet(0 .. j - 1) /\ Cardinality(0 .. j - 1) = j
  BY CountUp
<1> QED BY <1>5, <1>6, FS_Injection

(* The jobs of a row, and how long its groups are: long enough that its    *)
(* jobs cover it.                                                          *)
LEMMA RowsFit ==
    ASSUME CallOK(call), call.len > 0, Decided, call.outputs < Schedule!Jobs
    PROVE  \E q \in Nat \ {0}, m \in Nat :
             /\ m < call.outputs /\ Schedule!Jobs = At(call.outputs, q) + m
             /\ \A r \in Schedule!OutputRows :
                  Schedule!GroupLen(r) \in Nat \ {0}
                      /\ Schedule!DivCeil(call.len, Schedule!GroupLen(r)) <= q + MoreJob(r, m)
<1>1. PICK len \in Nat \ {0}, outputs \in Nat \ {0} : len = call.len /\ outputs = call.outputs
  BY DEF CallOK
<1>2. PICK s \in Nat \ {0}, j \in Nat \ {0} : s = Schedule!ChunkStep /\ j = Schedule!Jobs
  BY StepsArePositive
<1>3. PICK q \in Nat, m \in Nat : q = j \div outputs /\ m = j % outputs /\ m < outputs
                                  /\ j = outputs * q + m
  <2>1. j \div outputs \in Nat
    BY Quotient
  <2> QED BY <2>1, Remainder
<1>4. q # 0
  <2>1. ASSUME q = 0 PROVE FALSE
    <3>1. outputs * q = 0
      BY <2>1
    <3> QED BY <1>1, <1>2, <1>3, <3>1
  <2> QED BY <2>1
<1>5. j = At(outputs, q) + m
  BY <1>3 DEF At
<1>6. ASSUME NEW r \in Schedule!OutputRows
      PROVE  Schedule!GroupLen(r) \in Nat \ {0}
             /\ Schedule!DivCeil(len, Schedule!GroupLen(r)) <= q + MoreJob(r, m)
  <2>1. PICK R \in Nat \ {0} : R = q + MoreJob(r, m)
    BY <1>4 DEF MoreJob
  <2>2. Schedule!RowJobs(r) = R
    BY <1>1, <1>2, <1>3, <2>1 DEF Schedule!RowJobs, MoreJob
  <2>3. PICK C \in Nat \ {0} : C = Schedule!ChunkCount(len, s) /\ len <= C * s
    <3>1. PICK e \in Nat \ {0} : e = Schedule!DivCeil(len, s)
      BY SomeChunk
    <3>2. len <= e * s
      BY <3>1, ChunksSuffice
    <3> QED BY <3>1, <3>2 DEF Schedule!ChunkCount
  <2>4. PICK p \in Nat \ {0} : p = Schedule!DivCeil(C, R) /\ C <= p * R
    <3>1. PICK e \in Nat \ {0} : e = Schedule!DivCeil(C, R)
      BY SomeChunk
    <3>2. C <= e * R
      BY <3>1, ChunksSuffice
    <3> QED BY <3>1, <3>2
  <2>5. PICK w \in Nat \ {0} : w = p * s
    OBVIOUS
  <2>6. Schedule!GroupLen(r) = Schedule!Min({w, len})
    BY <1>1, <1>2, <2>2, <2>3, <2>4, <2>5 DEF Schedule!GroupLen
  <2>7. Schedule!GroupLen(r) = IF w <= len THEN w ELSE len
    BY <2>6, LesserOfTwo
  <2>8. len <= R * w
    <3>1. C * s <= (p * R) * s
      BY <2>4
    <3>2. (p * R) * s = R * (p * s)
      OBVIOUS
    <3> QED BY <2>3, <2>5, <3>1, <3>2
  <2>9. CASE w <= len
    BY <2>1, <2>7, <2>8, <2>9, FewChunks
  <2>10. CASE len < w
    <3>1. len <= R * len
      OBVIOUS
    <3> QED BY <2>1, <2>7, <2>10, <3>1, FewChunks
  <2> QED BY <2>9, <2>10
<1> QED BY <1>1, <1>2, <1>3, <1>4, <1>5, <1>6

(* With more jobs than outputs, each output's own jobs are a division. *)
LEMMA RowsDivide ==
    ASSUME CallOK(call), call.len > 0, Decided, call.outputs < Schedule!Jobs
    PROVE  Division(Schedule!ForEachOutputChunk)
<1>1. PICK len \in Nat \ {0}, outputs \in Nat \ {0} : len = call.len /\ outputs = call.outputs
  BY DEF CallOK
<1>2. PICK s \in Nat \ {0}, j \in Nat \ {0} : s = Schedule!ChunkStep /\ j = Schedule!Jobs
  BY StepsArePositive
<1>3. PICK q \in Nat \ {0}, m \in Nat :
             /\ m < outputs /\ j = At(outputs, q) + m
             /\ \A r \in Schedule!OutputRows :
                  Schedule!GroupLen(r) \in Nat \ {0}
                      /\ Schedule!DivCeil(len, Schedule!GroupLen(r)) <= q + MoreJob(r, m)
  BY <1>1, <1>2, RowsFit
<1>4. PICK ts : ts = Schedule!ForEachOutputChunk
  OBVIOUS
<1>5. PICK D : D = UNION {{r} \X (0 .. Schedule!DivCeil(len, Schedule!GroupLen(r)) - 1) :
        r \in Schedule!OutputRows}
  OBVIOUS
<1>6. ts = [t \in D |-> Schedule!RowGroup(t[1], t[2])]
  <2>1. ~(call.outputs >= Schedule!Jobs)
    BY <1>1, <1>2
  <2> QED BY <1>1, <1>4, <1>5, <2>1 DEF Schedule!ForEachOutputChunk, Schedule!ChunkCount
<1>7. DOMAIN ts = D
  BY <1>6
<1>8. PICK size : size = [r \in Schedule!OutputRows |-> Schedule!GroupLen(r)]
  OBVIOUS
<1>9. PICK rows : rows = [r \in Schedule!OutputRows |-> Schedule!OneRow(r, r)]
  OBVIOUS
<1>10. ASSUME NEW r \in Schedule!OutputRows, NEW g \in Nat
       PROVE  <<r, g>> \in D <=> At(g, size[r]) < len
  <2>1. PICK G \in Nat \ {0} : G = Schedule!GroupLen(r) /\ size[r] = G
    BY <1>3, <1>8
  <2>2. Schedule!DivCeil(len, G) \in Nat /\ (g < Schedule!DivCeil(len, G) <=> At(g, G) < len)
    BY ChunkCountIs
  <2>3. <<r, g>> \in D <=> g \in 0 .. Schedule!DivCeil(len, G) - 1
    BY <1>5, <2>1
  <2> QED BY <2>1, <2>2, <2>3
<1>11. ASSUME NEW t \in D
       PROVE  \E r \in Schedule!OutputRows : \E g \in Nat : t = <<r, g>>
  <2>1. PICK r \in Schedule!OutputRows : t \in {r} \X (0
          .. Schedule!DivCeil(len, Schedule!GroupLen(r)) - 1)
    BY <1>5
  <2> QED BY <2>1
<1>12. ASSUME NEW r \in Schedule!OutputRows, NEW g \in Nat, At(g, size[r]) < len
       PROVE  ts[<<r, g>>] = GroupPieces(rows[r], len, size[r], s, g)
  <2>1. PICK G \in Nat \ {0} : G = Schedule!GroupLen(r) /\ size[r] = G
    BY <1>3, <1>8
  <2>2. ts[<<r, g>>] = Schedule!RowGroup(r, g)
    BY <1>6, <1>10, <1>12
  <2>3. Schedule!RowGroup(r, g) = [n \in 1 .. Schedule!ChunkCount(Schedule!LenOfChunk(len, G, g),
          s) |->
                Schedule!Piece(Schedule!OneRow(r, r), g * G + (n - 1) * s, g * G + (n - 1) * s,
                      Schedule!LenOfChunk(Schedule!LenOfChunk(len, G, g), s, n - 1))]
    BY <1>1, <1>2, <2>1, Zenon DEF Schedule!RowGroup, Schedule!GroupStart
  <2>4. rows[r] = Schedule!OneRow(r, r)
    BY <1>9
  <2> QED BY <2>1, <2>2, <2>3, <2>4, GroupAsCoded
<1>13. Grouped(ts, len, s, Schedule!OutputRows, size, rows)
  <2>1. size \in [Schedule!OutputRows -> Nat \ {0}]
    BY <1>3, <1>8
  <2>2. \A r \in Schedule!OutputRows : IsIdentity(rows[r])
    BY <1>9 DEF IsIdentity, Schedule!OneRow
  <2>3. \A t : t \in DOMAIN ts <=> \E r \in Schedule!OutputRows : \E g \in Nat : t = <<r, g>>
          /\ At(g, size[r]) < len
    BY <1>7, <1>10, <1>11
  <2> QED BY <1>12, <2>1, <2>2, <2>3 DEF Grouped
<1>14. /\ \A t \in DOMAIN ts : Listed(ts[t])
       /\ \A r : \A x \in Nat : x < len /\ RowIsIn(r, Schedule!OutputRows, rows) => Owned(ts, r, x)
  BY <1>13, GroupsOwn
<1>15. ASSUME NEW r \in Schedule!OutputRows, NEW x \in 0 .. call.len - 1 PROVE Owned(ts, r, x)
  <2>1. x \in Nat /\ x < len
    BY <1>1
  <2>2. \A i \in Schedule!OutputRows : r \in DOMAIN rows[i] <=> i = r
    BY <1>9 DEF Schedule!OneRow
  <2> QED BY <1>14, <2>1, <2>2 DEF RowIsIn
<1>16. IsFiniteSet(D) /\ Cardinality(D) <= j
  <2>1. ASSUME NEW t \in D
        PROVE  \E r \in Nat, g \in Nat : t = <<r, g>> /\ r < outputs /\ g < q + MoreJob(r, m)
    <3>1. PICK r \in Schedule!OutputRows, g \in Nat : t = <<r, g>>
      BY <1>11
    <3>2. r \in Nat /\ r < outputs
      BY <1>1 DEF Schedule!OutputRows
    <3>3. PICK c \in Nat : c = Schedule!DivCeil(len, Schedule!GroupLen(r))
      BY <1>3, SomeChunk
    <3>4. g < c
      BY <1>5, <3>1, <3>3
    <3>5. c <= q + MoreJob(r, m) /\ MoreJob(r, m) \in Nat
      BY <1>3, <3>3 DEF MoreJob
    <3> QED BY <3>1, <3>2, <3>4, <3>5
  <2> QED BY <1>3, <2>1, TasksFit
<1> QED BY <1>2, <1>4, <1>7, <1>14, <1>15, <1>16 DEF Division

-----------------------------------------------------------------------------
(* Rounding to the alignment. *)
LEMMA AlignIs ==
    ASSUME NEW n \in Nat
    PROVE  Schedule!Align(n) \in Nat
<1>1. PICK a \in Nat \ {0} : a = Alignment
  BY ScheduleFits DEF Schedule!ScheduleAssumption
<1>2. n \div a \in Nat
  BY Quotient
<1>3. (n \div a) * a \in Nat
  BY <1>2
<1> QED BY <1>1, <1>3 DEF Schedule!Align

(* The bound on jobs is at least one. *)
LEMMA MaxJobsIs ==
    ASSUME NEW p, p.max_jobs \in Nat, NEW avail \in Nat
    PROVE  Schedule!MaxJobs(p, avail) \in Nat \ {0}
<1>1. PICK a \in Nat \ {0} : a = Schedule!AtLeastOne(avail)
  BY AtLeastOneIs
<1>2. PICK m \in Nat : m = p.max_jobs
  OBVIOUS
<1>3. Schedule!Min({m, a}) = IF m <= a THEN m ELSE a
  BY LesserOfTwo
<1> QED BY <1>1, <1>2, <1>3 DEF Schedule!MaxJobs

(* What a decision is held to: no more jobs than the policy allows. *)
Outcome(d, p, avail) ==
    /\ d.jobs \in Nat /\ d.chunk_len \in Nat /\ d.jobs <= Schedule!MaxJobs(p, avail)

(* ParallelPolicy::decide never decides on more jobs than that. *)
LEMMA DecideIs ==
    ASSUME NEW p, p.min_parallel \in Nat, p.min_per_job \in Nat, p.max_jobs \in Nat, p.l2 \in Nat,
           NEW size \in Nat, NEW outputs \in Nat \ {0}, NEW avail \in Nat
    PROVE  Outcome(Schedule!DecideBytes(p, size, outputs, avail), p, avail)
<1>1. PICK most \in Nat \ {0} : most = Schedule!MaxJobs(p, avail)
  BY MaxJobsIs
<1>2. CASE size = 0
  BY <1>1, <1>2 DEF Schedule!DecideBytes, Outcome
<1>3. CASE size > 0
  <2>1. PICK cache \in Nat \ {0} : cache = Schedule!CacheChunkLen(p, size, outputs)
    <3>0. DataShards \in Nat \ {0}
      BY ScheduleFits DEF Schedule!ScheduleAssumption
    <3>1. PICK s \in Nat \ {0}, l \in Nat : s = DataShards + outputs /\ l = p.l2
      BY <3>0
    <3>2. l \div s \in Nat
      BY Quotient
    <3>3. Schedule!AtLeastOne(l \div s) \in Nat \ {0}
      BY <3>2, AtLeastOneIs
    <3> QED BY <1>3, <3>1, <3>3 DEF Schedule!CacheChunkLen
  <2>2. PICK base \in Nat \ {0} : base = Schedule!Max({p.min_per_job, MinChunk})
    <3>1. MinChunk \in Nat \ {0}
      BY ScheduleFits DEF Schedule!ScheduleAssumption
    <3>2. PICK m \in Nat : m = p.min_per_job
      OBVIOUS
    <3> QED BY <3>1, <3>2, GreaterOfTwo
  <2>3. PICK cap \in Nat \ {0} : cap = Schedule!Min({base, cache, size})
    <3>1. size \in Nat \ {0}
      BY <1>3
    <3> QED BY <3>1, LeastOfThree
  <2>4. PICK count \in Nat \ {0} : count = Schedule!DivCeil(size, cap)
    BY <1>3, SomeChunk
  <2>5. PICK useful \in Nat : useful = IF outputs <= 2 THEN count ELSE outputs * count
    <3>1. outputs * count \in Nat
      OBVIOUS
    <3> QED BY <3>1
  <2>6. PICK jobs \in Nat : jobs = Schedule!Min({most, useful}) /\ jobs <= most
    BY LesserOfTwo
  <2>7. PICK each \in Nat \ {0} : each = Schedule!AtLeastOne(Schedule!DivCeil(jobs, outputs))
    <3>1. Schedule!DivCeil(jobs, outputs) \in Nat
      BY ChunkCountIs
    <3> QED BY <3>1, AtLeastOneIs
  <2>8. PICK len \in Nat : len = Schedule!Align(Schedule!Min({Schedule!DivCeil(size, each), cap}))
    <3>1. PICK d \in Nat : d = Schedule!DivCeil(size, each)
      BY ChunkCountIs
    <3>2. Schedule!Min({d, cap}) \in Nat
      BY LesserOfTwo
    <3> QED BY <3>1, <3>2, AlignIs
  <2>9. Schedule!Min({len, size}) \in Nat
    BY LesserOfTwo
  <2>10. Schedule!Align(Schedule!Min({Schedule!SerialChunkLen(size), cache})) \in Nat
    <3>1. Schedule!SerialChunkLen(size) \in Nat
      BY ScheduleFits DEF Schedule!SerialChunkLen, Schedule!ScheduleAssumption
    <3>2. Schedule!Min({Schedule!SerialChunkLen(size), cache}) \in Nat
      BY <3>1, LesserOfTwo
    <3> QED BY <3>2, AlignIs
  <2>11. Schedule!DecideBytes(p, size, outputs, avail) =
           IF size < Schedule!AtLeastOne(p.min_parallel) \/ jobs < 2
           THEN [use_parallel |-> FALSE, jobs |-> 1,
                 chunk_len |-> Schedule!Align(Schedule!Min({Schedule!SerialChunkLen(size), cache}))]
           ELSE [use_parallel |-> TRUE, jobs |-> jobs, chunk_len |-> Schedule!Min({len, size})]
    <3>1. size # 0
      BY <1>3
    <3> QED BY <1>1, <2>1, <2>2, <2>3, <2>4, <2>5, <2>6, <2>7, <2>8, <3>1, Zenon
          DEF Schedule!DecideBytes
  <2>12. CASE size < Schedule!AtLeastOne(p.min_parallel) \/ jobs < 2
    BY <1>1, <2>10, <2>11, <2>12 DEF Outcome
  <2>13. CASE ~(size < Schedule!AtLeastOne(p.min_parallel) \/ jobs < 2)
    BY <1>1, <2>6, <2>9, <2>11, <2>13 DEF Outcome
  <2> QED BY <2>12, <2>13
<1> QED BY <1>2, <1>3

-----------------------------------------------------------------------------
(* Where policies come from: the defaults, the environment, the options    *)
(* and the stages of a reconstruction. None of them leaves the naturals,   *)
(* and none loses the bound on jobs that was asked for.                    *)
Policies == [min_parallel : Nat, min_per_job : Nat, max_jobs : Nat, l2 : Nat]

(* A number from the environment, or its default. *)
LEMMA GivenIsNat ==
    ASSUME NEW s \in Setups, NEW name, NEW default \in Nat
    PROVE  /\ Schedule!unwrap_or(Schedule!parse_env_usize(s.env, name), default) \in Nat
           /\ Schedule!unwrap_or(Schedule!parse_positive_env_usize(s.env, name), default) \in Nat
<1>1. /\ Schedule!ParsedFrom(0, s.env, name) \in Nat \cup {Schedule!None}
      /\ Schedule!ParsedFrom(1, s.env, name) \in Nat \cup {Schedule!None}
  BY ScheduleFits DEF Schedule!ScheduleAssumption, Schedule!ParsedFrom, Schedule!None
<1> QED BY <1>1 DEF Schedule!unwrap_or, Schedule!parse_env_usize, Schedule!parse_positive_env_usize,
      Schedule!None

(* The default policy, with what the cache size gives. *)
LEMMA DefaultIs ==
    ASSUME NEW s \in Setups
    PROVE  Schedule!default_policy(s) \in Policies /\ Schedule!default_policy(s).max_jobs = 0
<1>1. PICK number \in Int, kilo \in Nat \ {0}, top \in Nat :
        number = s.cache.number /\ kilo = Kilo /\ top = UsizeMax
  BY ScheduleFits DEF Schedule!ScheduleAssumption
<1>2. Schedule!parse_cache_size(s.cache) \in Nat \cup {Schedule!None}
  <2>1. PICK unit \in Nat \ {0} :
          unit = [none |-> 1, K |-> Kilo, M |-> Kilo * Kilo][s.cache.suffix]
    <3>1. kilo * kilo \in Nat \ {0}
      OBVIOUS
    <3>2. s.cache.suffix \in {"none", "K", "M"}
      BY ScheduleFits DEF Schedule!ScheduleAssumption
    <3> QED BY <1>1, <3>1, <3>2
  <2>2. top \div unit \in Nat
    BY Quotient
  <2>3. ASSUME number \in 0 .. top \div unit PROVE number * unit \in Nat
    BY <2>3
  <2> QED BY <1>1, <2>1, <2>2, <2>3, Zenon DEF Schedule!parse_cache_size
<1>3. Schedule!detect_l2_cache_macos(s.cache) \in Nat \cup {Schedule!None}
  BY <1>1 DEF Schedule!detect_l2_cache_macos
<1>4. Schedule!detect_l2_cache_bytes(s) \in Nat \cup {Schedule!None}
  BY <1>2, <1>3 DEF Schedule!detect_l2_cache_bytes
<1>5. Schedule!unwrap_or(Schedule!detect_l2_cache_bytes(s), DEFAULT_L2_CACHE_BYTES) \in Nat
  BY <1>4, ScheduleFits DEF Schedule!ScheduleAssumption, Schedule!unwrap_or
<1>6. PARALLEL_MIN_SHARD_BYTES \in Nat /\ LargeChunk \in Nat
  BY ScheduleFits DEF Schedule!ScheduleAssumption
<1> QED BY <1>5, <1>6 DEF Schedule!default_policy, Policies

(* The policy after environment and options, and its bound on jobs. *)
BasePolicy(s) ==
    LET given == Schedule!with_env_overrides(Schedule!default_policy(s), s.env)
    IN  [given EXCEPT !.max_jobs = IF s.jobs > 0 THEN s.jobs ELSE @]

BaseJobs(s) ==
    IF s.jobs > 0 THEN s.jobs
    ELSE Schedule!unwrap_or(Schedule!parse_env_usize(s.env, "RS_PARALLEL_POLICY_MAX_JOBS"), 0)

(* Environment and options: the bound is the one asked for. *)
LEMMA BaseIs ==
    ASSUME NEW s \in Setups
    PROVE  BasePolicy(s) \in Policies /\ BasePolicy(s).max_jobs = BaseJobs(s)
<1>1. PICK d \in Policies : d = Schedule!default_policy(s) /\ d.max_jobs = 0
  BY DefaultIs
<1>2. PICK a \in Nat :
        a = Schedule!unwrap_or(Schedule!parse_positive_env_usize(s.env,
            "RS_PARALLEL_POLICY_MIN_PARALLEL_SHARD_BYTES"),
                      d.min_parallel)
  BY GivenIsNat DEF Policies
<1>3. PICK b \in Nat :
        b = Schedule!unwrap_or(Schedule!parse_positive_env_usize(s.env,
            "RS_PARALLEL_POLICY_MIN_BYTES_PER_JOB"),
                      d.min_per_job)
  BY GivenIsNat DEF Policies
<1>4. PICK c \in Nat : c = Schedule!unwrap_or(Schedule!parse_env_usize(s.env,
        "RS_PARALLEL_POLICY_MAX_JOBS"), d.max_jobs)
  BY GivenIsNat DEF Policies
<1>5. PICK e \in Nat : e = Schedule!unwrap_or(Schedule!parse_env_usize(s.env,
        "RS_PARALLEL_POLICY_L2_CACHE_BYTES"), d.l2)
  BY GivenIsNat DEF Policies
<1>6. Schedule!with_env_overrides(d, s.env) = [min_parallel |-> a, min_per_job |-> b, max_jobs |->
        c, l2 |-> e]
  BY <1>2, <1>3, <1>4, <1>5, Zenon DEF Schedule!with_env_overrides
<1>7. s.jobs \in Nat
  BY ScheduleFits DEF Schedule!ScheduleAssumption
<1>8. BasePolicy(s) = [min_parallel |-> a, min_per_job |-> b,
                       max_jobs |-> IF s.jobs > 0 THEN s.jobs ELSE c, l2 |-> e]
  BY <1>1, <1>6 DEF BasePolicy
<1> QED BY <1>1, <1>4, <1>7, <1>8 DEF BaseJobs, Policies

(* A stage's own policy keeps the bound of the base policy. *)
LEMMA StageDefault ==
    ASSUME NEW s \in Setups, NEW base \in Policies, NEW data_only \in BOOLEAN,
           NEW p, p = Schedule!reconstruct_parallel_policy_default(base, s.env, data_only)
    PROVE  p \in Policies /\ p.max_jobs = base.max_jobs
<1>1. PICK a \in Nat :
        a = Schedule!unwrap_or(Schedule!parse_positive_env_usize(s.env,
            "RS_RECONSTRUCT_MIN_BYTES_PER_JOB"),
                      base.min_per_job)
  BY GivenIsNat DEF Policies
<1>2. PICK b \in Nat :
        b = Schedule!unwrap_or(Schedule!parse_positive_env_usize(s.env,
            "RS_RECONSTRUCT_DATA_MIN_PARALLEL_SHARD_BYTES"),
                      RECONSTRUCT_DATA_MIN_PARALLEL_SHARD_BYTES)
  BY GivenIsNat, ScheduleFits DEF Schedule!ScheduleAssumption
<1>3. PICK c \in Nat :
        c = Schedule!unwrap_or(Schedule!parse_positive_env_usize(s.env,
            "RS_RECONSTRUCT_FULL_MIN_PARALLEL_SHARD_BYTES"),
                      RECONSTRUCT_FULL_MIN_PARALLEL_SHARD_BYTES)
  BY GivenIsNat, ScheduleFits DEF Schedule!ScheduleAssumption
<1>4. PICK m \in Nat : m = base.min_parallel
  BY DEF Policies
<1>5. Schedule!Max({m, b}) \in Nat /\ Schedule!Max({m \div 2, c}) \in Nat
  <2>1. m \div 2 \in Nat
    OBVIOUS
  <2> QED BY <2>1, GreaterOfTwo
<1>6. p = [base EXCEPT !.min_per_job = a,
                       !.min_parallel = IF data_only THEN Schedule!Max({m, b})
                           ELSE Schedule!Max({m \div 2, c})]
  BY <1>1, <1>2, <1>3, <1>4 DEF Schedule!reconstruct_parallel_policy_default
<1> QED BY <1>5, <1>6 DEF Policies

(* A policy with that bound on jobs. *)
Keeps(p, jobs) == p \in Policies /\ p.max_jobs = jobs

(* The stages on aarch64, which have a variable of their own. *)
LEMMA Aarch64Is ==
    ASSUME NEW s \in Setups, NEW base \in Policies,
           NEW cache, cache = Schedule!reconstruct_policy_cache_aarch64(base, s.env)
    PROVE  LET own == Schedule!unwrap_or(Schedule!parse_env_usize(s.env,
           "RS_AARCH64_RECONSTRUCT_MAX_JOBS"), base.max_jobs)
           IN  /\ cache.data = base /\ Keeps(cache.reconstruct_data, own)
               /\ Keeps(cache.reconstruct_full_data, own)
               /\ Keeps(cache.reconstruct_full_parity, base.max_jobs)
<1>1. PICK d \in Policies : d = Schedule!reconstruct_parallel_policy_default(base, s.env, TRUE)
                            /\ d.max_jobs = base.max_jobs
  <2>1. PICK data_only \in BOOLEAN : data_only = TRUE
    OBVIOUS
  <2>2. PICK p : p = Schedule!reconstruct_parallel_policy_default(base, s.env, data_only)
    OBVIOUS
  <2>3. p \in Policies /\ p.max_jobs = base.max_jobs
    BY <2>2, StageDefault
  <2> QED BY <2>1, <2>2, <2>3
<1>2. PICK f \in Policies : f = Schedule!reconstruct_parallel_policy_default(base, s.env, FALSE)
                            /\ f.max_jobs = base.max_jobs
  <2>1. PICK data_only \in BOOLEAN : data_only = FALSE
    OBVIOUS
  <2>2. PICK p : p = Schedule!reconstruct_parallel_policy_default(base, s.env, data_only)
    OBVIOUS
  <2>3. p \in Policies /\ p.max_jobs = base.max_jobs
    BY <2>2, StageDefault
  <2> QED BY <2>1, <2>2, <2>3
<1>3. PICK a \in Nat :
        a = Schedule!unwrap_or(Schedule!parse_positive_env_usize(s.env,
            "RS_AARCH64_RECONSTRUCT_MIN_PARALLEL_SHARD_BYTES"),
                      f.min_parallel)
  BY GivenIsNat DEF Policies
<1>4. PICK b \in Nat :
        b = Schedule!unwrap_or(Schedule!parse_positive_env_usize(s.env,
            "RS_AARCH64_RECONSTRUCT_MIN_BYTES_PER_JOB"),
                      f.min_per_job)
  BY GivenIsNat DEF Policies
<1>5. PICK c \in Nat : c = Schedule!unwrap_or(Schedule!parse_env_usize(s.env,
        "RS_AARCH64_RECONSTRUCT_MAX_JOBS"), f.max_jobs)
  BY GivenIsNat DEF Policies
<1>6. PICK full \in Policies :
        full = [f EXCEPT !.min_parallel = a, !.min_per_job = b, !.max_jobs = c]
        /\ full.max_jobs = c
  <2>1. [f EXCEPT !.min_parallel = a, !.min_per_job = b, !.max_jobs = c] \in Policies
    BY DEF Policies
  <2>2. [f EXCEPT !.min_parallel = a, !.min_per_job = b, !.max_jobs = c].max_jobs = c
    BY DEF Policies
  <2> QED BY <2>1, <2>2
<1>7. PICK e \in Nat :
        e = Schedule!unwrap_or(Schedule!parse_positive_env_usize(s.env,
            "RS_AARCH64_RECONSTRUCT_DATA_MIN_BYTES_PER_JOB"),
                      full.min_per_job)
  BY GivenIsNat DEF Policies
<1>8. PICK g \in Nat :
        g = Schedule!unwrap_or(Schedule!parse_positive_env_usize(s.env,
            "RS_AARCH64_RECONSTRUCT_PARITY_MIN_BYTES_PER_JOB"),
                      f.min_per_job)
  BY GivenIsNat DEF Policies
<1>9. [f EXCEPT !.min_parallel = Schedule!unwrap_or(Schedule!parse_positive_env_usize(s.env,
                   "RS_AARCH64_RECONSTRUCT_MIN_PARALLEL_SHARD_BYTES"), @),
                !.min_per_job = Schedule!unwrap_or(Schedule!parse_positive_env_usize(s.env,
                   "RS_AARCH64_RECONSTRUCT_MIN_BYTES_PER_JOB"), @),
                !.max_jobs = Schedule!unwrap_or(Schedule!parse_env_usize(s.env,
                    "RS_AARCH64_RECONSTRUCT_MAX_JOBS"), @)]
        = full
  BY <1>3, <1>4, <1>5, <1>6 DEF Policies
<1>10. [f EXCEPT !.min_per_job = Schedule!unwrap_or(Schedule!parse_positive_env_usize(s.env,
                   "RS_AARCH64_RECONSTRUCT_PARITY_MIN_BYTES_PER_JOB"), @)]
         = [f EXCEPT !.min_per_job = g]
  BY <1>8 DEF Policies
<1>11. cache = [data |-> base,
                reconstruct_data |-> [d EXCEPT !.min_parallel = full.min_parallel,
                    !.min_per_job = e,
                                               !.max_jobs = full.max_jobs],
                reconstruct_full_data |-> full,
                reconstruct_full_parity |-> [f EXCEPT !.min_per_job = g]]
  BY <1>1, <1>2, <1>7, <1>9, <1>10 DEF Schedule!reconstruct_policy_cache_aarch64
<1>12. /\ Keeps([d EXCEPT !.min_parallel = full.min_parallel, !.min_per_job = e,
                          !.max_jobs = full.max_jobs], c)
       /\ Keeps(full, c) /\ Keeps([f EXCEPT !.min_per_job = g], base.max_jobs)
  BY <1>2, <1>6 DEF Keeps, Policies
<1> QED BY <1>2, <1>5, <1>11, <1>12

(* The four policies a codec keeps have the bounds that were asked for. *)
LEMMA CacheIs ==
    ASSUME NEW s \in Setups, NEW cache, cache = Schedule!resolve_policy_cache_with_options(s)
    PROVE  /\ Keeps(cache.data, Schedule!AskedJobs(s, "code"))
           /\ Keeps(cache.reconstruct_data, Schedule!AskedJobs(s, "data_only"))
           /\ Keeps(cache.reconstruct_full_data, Schedule!AskedJobs(s, "full_data"))
           /\ Keeps(cache.reconstruct_full_parity, Schedule!AskedJobs(s, "full_parity"))
<1>1. PICK base \in Policies : base = BasePolicy(s) /\ base.max_jobs = BaseJobs(s)
  BY BaseIs
<1>2. s.bytes \in BOOLEAN /\ s.aarch64 \in BOOLEAN
  BY ScheduleFits DEF Schedule!ScheduleAssumption
<1>3. Schedule!AskedJobs(s, "code") = BaseJobs(s)
        /\ Schedule!AskedJobs(s, "full_parity") = BaseJobs(s)
  BY DEF Schedule!AskedJobs, BaseJobs
<1>4. CASE s.bytes /\ s.aarch64
  <2>1. cache = Schedule!reconstruct_policy_cache_aarch64(base, s.env)
    BY <1>1, <1>2, <1>4 DEF Schedule!resolve_policy_cache_with_options, BasePolicy
  <2>2. PICK own : own = Schedule!unwrap_or(Schedule!parse_env_usize(s.env,
          "RS_AARCH64_RECONSTRUCT_MAX_JOBS"),
                                   base.max_jobs)
    OBVIOUS
  <2>3. /\ cache.data = base /\ Keeps(cache.reconstruct_data, own)
        /\ Keeps(cache.reconstruct_full_data, own)
        /\ Keeps(cache.reconstruct_full_parity, base.max_jobs)
    BY <2>1, <2>2, Aarch64Is
  <2>4. Schedule!AskedJobs(s, "data_only") = own /\ Schedule!AskedJobs(s, "full_data") = own
    BY <1>1, <1>4, <2>2 DEF Schedule!AskedJobs, BaseJobs, Schedule!unwrap_or
  <2> QED BY <1>1, <1>3, <2>3, <2>4 DEF Keeps
<1>5. CASE ~(s.bytes /\ s.aarch64)
  <2>1. Schedule!AskedJobs(s, "data_only") = BaseJobs(s)
          /\ Schedule!AskedJobs(s, "full_data") = BaseJobs(s)
    BY <1>5 DEF Schedule!AskedJobs, BaseJobs
  <2>2. CASE s.bytes
    <3>1. cache = Schedule!resolve_runtime_parallel_policy_cache(base, s.env)
      BY <1>1, <1>2, <1>5, <2>2 DEF Schedule!resolve_policy_cache_with_options, BasePolicy
    <3>2. ASSUME NEW b \in BOOLEAN
          PROVE  Keeps(Schedule!reconstruct_parallel_policy_default(base, s.env, b), BaseJobs(s))
      BY <1>1, StageDefault DEF Keeps
    <3>3. Keeps(base, BaseJobs(s))
      BY <1>1 DEF Keeps
    <3>4. PICK d, f : /\ d = Schedule!reconstruct_parallel_policy_default(base, s.env, TRUE)
                      /\ f = Schedule!reconstruct_parallel_policy_default(base, s.env, FALSE)
      OBVIOUS
    <3>5. Keeps(d, BaseJobs(s)) /\ Keeps(f, BaseJobs(s))
      BY <3>2, <3>4
    <3>6. cache = [data |-> base, reconstruct_data |-> d, reconstruct_full_data |-> f,
                   reconstruct_full_parity |-> f]
      BY <3>1, <3>4 DEF Schedule!resolve_runtime_parallel_policy_cache
    <3>7. cache.data = base /\ cache.reconstruct_data = d /\ cache.reconstruct_full_data = f
          /\ cache.reconstruct_full_parity = f
      BY <3>6
    <3> QED BY <1>3, <2>1, <3>3, <3>5, <3>7
  <2>3. CASE ~s.bytes
    <3>1. cache = Schedule!one_policy_cache(base)
      BY <1>1, <1>2, <1>5, <2>3 DEF Schedule!resolve_policy_cache_with_options, BasePolicy
    <3> QED BY <1>1, <1>3, <2>1, <3>1 DEF Schedule!one_policy_cache, Keeps
  <2> QED BY <1>2, <2>2, <2>3
<1> QED BY <1>4, <1>5

(* A stage as the model lists it. *)
StageRecord(p, e, asked) == [policy |-> p, coding |-> FALSE, entry |-> e, asked |-> asked]

(* A stage has the bound of its policy, *)
LEMMA StageKeeps ==
    ASSUME NEW p, NEW e, NEW asked, Keeps(p, asked), NEW u, u = StageRecord(p, e, asked)
    PROVE  /\ Keeps(u.policy, u.asked)
           /\ \A v : v = [u EXCEPT !.entry = Schedule!NoEntry] => Keeps(v.policy, v.asked)
  BY DEF StageRecord

(* so has coding, *)
LEMMA CodingKeeps ==
    ASSUME NEW s \in Setups, NEW u, u = Schedule!Coding(s) \/ u =
           [Schedule!Coding(s) EXCEPT !.coding = FALSE]
    PROVE  Keeps(u.policy, u.asked)
<1>1. PICK p, a : p = Schedule!resolve_policy_cache_with_options(s).data
        /\ a = Schedule!AskedJobs(s, "code")
  OBVIOUS
<1>2. Keeps(p, a)
  BY <1>1, CacheIs
<1>3. Schedule!Coding(s) = [policy |-> p, coding |-> TRUE, entry |-> Schedule!NoEntry, asked |-> a]
  BY <1>1 DEF Schedule!Coding
<1>4. u.policy = p /\ u.asked = a
  BY <1>3
<1> QED BY <1>2, <1>4

(* and so has every stage of a reconstruction. *)
LEMMA StagesKeep ==
    ASSUME NEW s \in Setups, NEW n, NEW m, NEW u \in Schedule!Stages(s, n, m)
    PROVE  Keeps(u.policy, u.asked)
<1>1. PICK cache : cache = Schedule!resolve_policy_cache_with_options(s)
  OBVIOUS
<1>2. PICK p, q, w : p = cache.reconstruct_data /\ q = cache.reconstruct_full_data
                     /\ w = cache.reconstruct_full_parity
  OBVIOUS
<1>3. PICK a, b, c : a = Schedule!AskedJobs(s, "data_only")
        /\ b = Schedule!AskedJobs(s, "full_data")
                     /\ c = Schedule!AskedJobs(s, "full_parity")
  OBVIOUS
<1>4. Keeps(p, a) /\ Keeps(q, b) /\ Keeps(w, c)
  BY <1>1, <1>2, <1>3, CacheIs
<1>5. PICK e, f : e = [outputs |-> n, policy |-> p] /\ f = [outputs |-> n + m, policy |-> q]
  OBVIOUS
<1>6. PICK x, y, z : x = StageRecord(p, e, a) /\ y = StageRecord(q, f, b)
        /\ z = StageRecord(w, f, c)
  OBVIOUS
<1>7. Schedule!Stages(s, n, m) = {x, y, z} \cup {[v EXCEPT !.entry = Schedule!NoEntry] :
        v \in {x, y, z}}
                                 \cup {[Schedule!Coding(s) EXCEPT !.coding = FALSE]}
  <2>1. /\ Schedule!reconstruct_stage_policies(cache, TRUE)[1] = p
             /\ Schedule!reconstruct_policy(cache, TRUE) = p
        /\ Schedule!reconstruct_stage_policies(cache, FALSE)[1] = q
             /\ Schedule!reconstruct_policy(cache, FALSE) = q
        /\ Schedule!reconstruct_stage_policies(cache, FALSE)[2] = w
    BY <1>2 DEF Schedule!reconstruct_stage_policies, Schedule!reconstruct_policy
  <2> QED BY <1>1, <1>3, <1>5, <1>6, <2>1 DEF Schedule!Stages, StageRecord
<1>8. CASE u \in {x, y, z}
  BY <1>4, <1>6, <1>8, StageKeeps
<1>9. CASE u \in {[v EXCEPT !.entry = Schedule!NoEntry] : v \in {x, y, z}}
  <2>1. PICK v \in {x, y, z} : u = [v EXCEPT !.entry = Schedule!NoEntry]
    BY <1>9
  <2> QED BY <1>4, <1>6, <2>1, StageKeeps
<1>10. CASE u = [Schedule!Coding(s) EXCEPT !.coding = FALSE]
  BY <1>10, CodingKeeps
<1> QED BY <1>7, <1>8, <1>9, <1>10

(* Every call is as CallOK says, *)
LEMMA CallsAreOK ==
    ASSUME NEW c \in Schedule!Calls
    PROVE  CallOK(c)
<1>1. PICK l \in ShardLens, n \in OutputCounts, a \in Parallelisms, s \in Setups :
        \E u \in {Schedule!Coding(s)} \cup (IF s.bytes
            THEN UNION {Schedule!Stages(s, n, m) : m \in MissingBesides} ELSE {}) :
          c = Schedule!Call(l, n, IF s.bytes THEN 1 ELSE ElementSize, a, u)
  BY DEF Schedule!Calls
<1>2. PICK u \in {Schedule!Coding(s)} \cup (IF s.bytes
        THEN UNION {Schedule!Stages(s, n, m) : m \in MissingBesides} ELSE {}) :
        c = Schedule!Call(l, n, IF s.bytes THEN 1 ELSE ElementSize, a, u)
  BY <1>1
<1>3. Keeps(u.policy, u.asked)
  BY CodingKeeps, StagesKeep
<1>4. PICK p, j : p = u.policy /\ j = u.asked
  OBVIOUS
<1>5. PICK e \in Nat \ {0} : e = IF s.bytes THEN 1 ELSE ElementSize
  BY ScheduleFits DEF Schedule!ScheduleAssumption
<1>6. l \in Nat /\ n \in Nat \ {0} /\ a \in Nat
  BY ScheduleFits DEF Schedule!ScheduleAssumption
<1>7. c.len = l /\ c.outputs = n /\ c.esize = e /\ c.avail = a /\ c.policy = p /\ c.asked = j
  BY <1>2, <1>4, <1>5 DEF Schedule!Call
<1>8. p \in Policies /\ p.max_jobs = j
  BY <1>3, <1>4 DEF Keeps
<1> QED BY <1>6, <1>7, <1>8 DEF CallOK, Policies

(* The calls of one length, output count, thread count and set-up. *)
CallsOf(l, n, a, s) ==
    {Schedule!Call(l, n, IF s.bytes THEN 1 ELSE ElementSize, a, u) :
       u \in {Schedule!Coding(s)} \cup (IF s.bytes
           THEN UNION {Schedule!Stages(s, n, m) : m \in MissingBesides} ELSE {})}

(* and there is one. *)
LEMMA SomeCall == \E c : c \in Schedule!Calls
<1>1. PICK l \in ShardLens, n \in OutputCounts, a \in Parallelisms, s \in Setups : TRUE
  <2>1. ShardLens # {} /\ OutputCounts # {} /\ Parallelisms # {} /\ Setups # {}
    BY ScheduleFits DEF Schedule!ScheduleAssumption
  <2> QED BY <2>1
<1>2. Schedule!Calls = UNION {CallsOf(l1, n1, a1, s1) :
                       l1 \in ShardLens, n1 \in OutputCounts, a1 \in Parallelisms, s1 \in Setups}
  BY DEF Schedule!Calls, CallsOf
<1>3. Schedule!Call(l, n, IF s.bytes THEN 1 ELSE ElementSize, a, Schedule!Coding(s)) \in CallsOf(l,
        n, a, s)
  BY DEF CallsOf
<1>4. CallsOf(l, n, a, s) \subseteq Schedule!Calls
  BY <1>2
<1> QED BY <1>3, <1>4

-----------------------------------------------------------------------------
(***************************************************************************)
(* The invariant.                                                          *)
(***************************************************************************)
(* An element has been coded once its task has come past its piece. *)
Progress ==
    /\ DOMAIN done = DOMAIN tasks
    /\ \A t \in DOMAIN tasks : done[t] \in 0 .. Len(tasks[t])
    /\ \A t \in DOMAIN tasks : \A n \in DOMAIN tasks[t] :
         \A r \in Schedule!OutputRows, x \in 0 .. call.len - 1 :
           Covers(tasks[t][n], r, x)
             => out[r][x] = IF n <= done[t] THEN << <<r, x>> >> ELSE <<>>

(* Before the split nothing is coded; after it the tasks are a division,   *)
(* and what has been coded is what the tasks have come past. This is       *)
(* CodedOnce made inductive: that an element is coded at most once needs   *)
(* that no other task, and no later piece of the same task, covers it.     *)
ScheduleIInv ==
    /\ CallOK(call) /\ Decided
    /\ decision.jobs <= Schedule!MaxJobs(call.policy, call.avail)
    /\ pc \in {"decide", "split", "run", "done"}
    /\ pc \in {"decide", "split"} =>
         /\ tasks = Schedule!Nothing
         /\ \A r \in Schedule!OutputRows, x \in 0 .. call.len - 1 : out[r][x] = <<>>
    /\ pc \in {"run", "done"} => Division(tasks) /\ Progress
    /\ pc = "done" => Schedule!Unfinished = {}

(* It holds at the start, *)
LEMMA InitSchedule ==
    ASSUME NEW c \in Schedule!Calls, Schedule!InitWith(c)
    PROVE  ScheduleIInv
<1>1. call \in Schedule!Calls /\ decision = Schedule!NoDecision /\ pc = "decide"
        /\ tasks = Schedule!Nothing
      /\ out = [r \in Schedule!OutputRows |-> [x \in 0 .. call.len - 1 |-> <<>>]]
  BY DEF Schedule!InitWith
<1>2. CallOK(call)
  BY <1>1, CallsAreOK
<1>3. PICK p, a : p = call.policy /\ a = call.avail
  OBVIOUS
<1>4. Schedule!MaxJobs(p, a) \in Nat \ {0}
  BY <1>2, <1>3, MaxJobsIs DEF CallOK
<1>5. Decided /\ decision.jobs <= Schedule!MaxJobs(call.policy, call.avail)
  BY <1>1, <1>3, <1>4 DEF Decided, Schedule!NoDecision
<1>6. \A r \in Schedule!OutputRows, x \in 0 .. call.len - 1 : out[r][x] = <<>>
  BY <1>1
<1> QED BY <1>1, <1>2, <1>5, <1>6 DEF ScheduleIInv

(* a decision keeps within the bound, *)
LEMMA DecideStep ==
    ASSUME ScheduleIInv, Schedule!Decide \/ Schedule!DecideSerialEntry
    PROVE  ScheduleIInv'
<1>1. /\ UNCHANGED <<call, tasks, done, out>> /\ pc = "decide" /\ pc' = "split"
  BY DEF Schedule!Decide, Schedule!DecideSerialEntry
<1>2. CallOK(call)'
  BY <1>1 DEF ScheduleIInv, CallOK
<1>3. PICK p, a : p = call.policy /\ a = call.avail
  OBVIOUS
<1>4. Schedule!MaxJobs(p, a) \in Nat \ {0}
  BY <1>3, MaxJobsIs DEF ScheduleIInv, CallOK
<1>5. decision'.jobs \in Nat /\ decision'.chunk_len \in Nat
        /\ decision'.jobs <= Schedule!MaxJobs(p, a)
  <2>1. CASE Schedule!DecideSerialEntry
    <3>1. decision' = [use_parallel |-> FALSE, jobs |-> 1, chunk_len |-> 0]
      BY <2>1 DEF Schedule!DecideSerialEntry, Schedule!NoDecision
    <3> QED BY <1>4, <3>1
  <2>2. CASE Schedule!Decide
    <3>1. PICK len \in Nat, outputs \in Nat \ {0}, esize \in Nat \ {0} :
            len = call.len /\ outputs = call.outputs /\ esize = call.esize
      BY DEF ScheduleIInv, CallOK
    <3>2. PICK size \in Nat : size = len * esize
      OBVIOUS
    <3>3. PICK d : d = Schedule!DecideBytes(p, size, outputs, a)
      OBVIOUS
    <3>4. Outcome(d, p, a)
      BY <1>3, <3>3, DecideIs DEF ScheduleIInv, CallOK
    <3>5. PICK k : k = Schedule!InElements(d.chunk_len, call)
      OBVIOUS
    <3>6. decision' = [d EXCEPT !.chunk_len = k]
      BY <1>3, <2>2, <3>1, <3>2, <3>3, <3>5 DEF Schedule!Decide
    <3>7. k \in Nat
      <4>1. PICK bytes \in Nat : bytes = d.chunk_len
        BY <3>4 DEF Outcome
      <4>2. bytes \div esize \in Nat
        BY Quotient
      <4>3. PICK e \in Nat : e = Schedule!AtLeastOne(bytes \div esize)
        BY <4>2, AtLeastOneIs
      <4>4. Schedule!Min({e, len}) \in Nat
        BY LesserOfTwo
      <4> QED BY <3>1, <3>5, <4>1, <4>3, <4>4 DEF Schedule!InElements
    <3>8. /\ d = [use_parallel |-> d.use_parallel, jobs |-> d.jobs, chunk_len |-> d.chunk_len]
      BY <3>3, Zenon DEF Schedule!DecideBytes
    <3> QED BY <3>4, <3>6, <3>7, <3>8 DEF Outcome
  <2> QED BY <2>1, <2>2
<1>6. Decided' /\ decision'.jobs <= Schedule!MaxJobs(call'.policy, call'.avail)
  BY <1>1, <1>3, <1>5 DEF Decided
<1>7. (tasks = Schedule!Nothing)' /\ (\A r \in Schedule!OutputRows, x \in 0 .. call.len - 1 :
        out[r][x] = <<>>)'
  BY <1>1 DEF ScheduleIInv, Schedule!OutputRows, Schedule!Nothing
<1> QED BY <1>1, <1>2, <1>6, <1>7 DEF ScheduleIInv

(* nothing at all is a division of an empty call, *)
LEMMA NothingDivides ==
    ASSUME CallOK(call), call.len = 0, Decided
    PROVE  Division(Schedule!Nothing)
<1>1. DOMAIN Schedule!Nothing = {}
  BY DEF Schedule!Nothing
<1>2. IsFiniteSet({}) /\ Cardinality({}) = 0
  BY FS_EmptySet
<1>3. Schedule!Jobs \in Nat
  BY AtLeastOneIs DEF Decided, Schedule!Jobs
<1>4. 0 .. call.len - 1 = {}
  OBVIOUS
<1> QED BY <1>1, <1>2, <1>3, <1>4 DEF Division

(* splitting gives a division, *)
LEMMA SplitStep ==
    ASSUME ScheduleIInv, Schedule!Split
    PROVE  ScheduleIInv'
<1>1. /\ UNCHANGED <<call, decision, out>> /\ pc = "split" /\ pc' = "run"
      /\ done' = [t \in DOMAIN tasks' |-> 0]
  BY DEF Schedule!Split
<1>2. CallOK(call) /\ Decided /\ call.len \in Nat /\ call.outputs \in Nat
      /\ \A r \in Schedule!OutputRows, x \in 0 .. call.len - 1 : out[r][x] = <<>>
  BY <1>1 DEF ScheduleIInv, CallOK
<1>3. PICK ts : ts = tasks'
  OBVIOUS
<1>4. Division(ts)
  <2>1. CASE call.len = 0 /\ ts = Schedule!Nothing
    BY <1>2, <2>1, NothingDivides
  <2>2. CASE call.len > 0 /\ ts = Schedule!SerialLoop
    BY <1>2, <2>2, SerialDivides
  <2>3. CASE call.len > 0 /\ ts = Schedule!ForEachOutputChunk
    <3>1. Schedule!Jobs \in Nat
      BY <1>2, AtLeastOneIs DEF Decided, Schedule!Jobs
    <3>2. CASE call.outputs >= Schedule!Jobs
      BY <1>2, <2>3, <3>2, OutputsDivide
    <3>3. CASE call.outputs < Schedule!Jobs
      BY <1>2, <2>3, <3>3, RowsDivide
    <3> QED BY <1>2, <3>1, <3>2, <3>3
  <2>4. CASE call.len > 0 /\ decision.jobs \in 2 .. 4 /\ ts = Schedule!NativeJobs
    BY <1>2, <2>4, NativeDivides
  <2> QED BY <1>3, <2>1, <2>2, <2>3, <2>4 DEF Schedule!Split
<1>5. Division(tasks)'
  <2>1. Schedule!OutputRows' = Schedule!OutputRows /\ Schedule!Jobs' = Schedule!Jobs /\ call' = call
    BY <1>1 DEF Schedule!OutputRows, Schedule!Jobs
  <2> QED BY <1>3, <1>4, <2>1 DEF Division
<1>6. Progress'
  <2>1. ASSUME NEW t \in DOMAIN ts
        PROVE  Len(ts[t]) \in Nat /\ DOMAIN ts[t] = 1 .. Len(ts[t])
    BY <1>4 DEF Division, Listed
  <2>2. DOMAIN done' = DOMAIN ts /\ \A t \in DOMAIN ts : done'[t] = 0
    BY <1>1, <1>3
  <2>3. \A t \in DOMAIN ts : done'[t] \in 0 .. Len(ts[t])
    BY <2>1, <2>2
  <2>4. ASSUME NEW t \in DOMAIN ts, NEW n \in DOMAIN ts[t],
               NEW r \in Schedule!OutputRows, NEW x \in 0 .. call.len - 1
        PROVE  out'[r][x] = IF n <= done'[t] THEN << <<r, x>> >> ELSE <<>>
    <3>1. ~(n <= done'[t])
      BY <2>1, <2>2
    <3> QED BY <1>1, <1>2, <3>1
  <2>5. Schedule!OutputRows' = Schedule!OutputRows /\ call' = call
    BY <1>1 DEF Schedule!OutputRows
  <2> QED BY <1>3, <2>2, <2>3, <2>4, <2>5 DEF Progress
<1>7. CallOK(call)' /\ Decided' /\ decision'.jobs <= Schedule!MaxJobs(call'.policy, call'.avail)
  BY <1>1 DEF ScheduleIInv, CallOK, Decided
<1> QED BY <1>1, <1>5, <1>6, <1>7 DEF ScheduleIInv

(* coding a piece marks the elements of that piece and no other, *)
LEMMA CodeStep ==
    ASSUME ScheduleIInv, NEW t \in DOMAIN tasks, Schedule!CodePiece(t)
    PROVE  ScheduleIInv'
<1>1. /\ UNCHANGED <<call, decision, tasks, pc>> /\ pc = "run" /\ t \in Schedule!Unfinished
      /\ done' = [done EXCEPT ![t] = @ + 1]
  BY DEF Schedule!CodePiece
<1>2. Division(tasks) /\ Progress /\ CallOK(call)
  BY <1>1 DEF ScheduleIInv
<1>3. PICK k : k = done[t] + 1
  OBVIOUS
<1>4. k \in DOMAIN tasks[t] /\ done[t] \in Nat /\ k \in Nat /\ k <= Len(tasks[t])
        /\ Len(tasks[t]) \in Nat
  <2>1. Len(tasks[t]) \in Nat /\ DOMAIN tasks[t] = 1 .. Len(tasks[t])
    BY <1>2 DEF Division, Listed
  <2>2. done[t] \in 0 .. Len(tasks[t]) /\ done[t] < Len(tasks[t])
    BY <1>1, <1>2 DEF Progress, Schedule!Unfinished
  <2> QED BY <1>3, <2>1, <2>2
<1>5. PICK p : p = tasks[t][k]
  OBVIOUS
<1>6. Faithful(p)
  BY <1>2, <1>4, <1>5 DEF Division, Listed
<1>7. ASSUME NEW r \in Schedule!OutputRows, NEW x \in 0 .. call.len - 1
      PROVE  out'[r][x] = IF Covers(p, r, x) THEN Append(out[r][x], <<p.rows[r],
             p.start + x - p.at>>)
                          ELSE out[r][x]
  BY <1>3, <1>5 DEF Schedule!CodePiece, Covers
<1>8. DOMAIN done' = DOMAIN tasks /\ \A u \in DOMAIN tasks : done'[u] = IF u = t THEN k ELSE done[u]
  BY <1>1, <1>2, <1>3 DEF Progress
<1>9. ASSUME NEW u \in DOMAIN tasks, NEW n \in DOMAIN tasks[u],
             NEW r \in Schedule!OutputRows, NEW x \in 0 .. call.len - 1, Covers(tasks[u][n], r, x)
      PROVE  out'[r][x] = IF n <= done'[u] THEN << <<r, x>> >> ELSE <<>>
  <2>1. Owned(tasks, r, x)
    BY <1>2 DEF Division
  <2>2. Covers(p, r, x) <=> t = u /\ k = n
    <3>1. PICK t0 \in DOMAIN tasks : \E n0 \in DOMAIN tasks[t0] :
            \A v \in DOMAIN tasks : \A i \in DOMAIN tasks[v] :
              Covers(tasks[v][i], r, x) <=> v = t0 /\ i = n0
      BY <2>1 DEF Owned
    <3>2. PICK n0 \in DOMAIN tasks[t0] :
            \A v \in DOMAIN tasks : \A i \in DOMAIN tasks[v] :
              Covers(tasks[v][i], r, x) <=> v = t0 /\ i = n0
      BY <3>1
    <3>3. u = t0 /\ n = n0
      BY <1>9, <3>2
    <3> QED BY <1>4, <1>5, <3>2, <3>3
  <2>3. out[r][x] = IF n <= done[u] THEN << <<r, x>> >> ELSE <<>>
    BY <1>2, <1>9 DEF Progress
  <2>4. n \in Nat /\ done[u] \in Nat
    BY <1>2 DEF Division, Listed, Progress
  <2>5. CASE t = u /\ k = n
    <3>1. Covers(p, r, x)
      BY <2>2, <2>5
    <3>2. out[r][x] = <<>>
      BY <1>3, <1>4, <2>3, <2>5
    <3>3. p.rows[r] = r /\ p.start + x - p.at = x
      <4>1. x \in Int /\ p.at \in Nat /\ p.start = p.at /\ r \in DOMAIN p.rows
        BY <1>6, <3>1 DEF Faithful, Covers
      <4>2. p.rows[r] = r
        BY <1>6, <4>1 DEF Faithful
      <4> QED BY <4>1, <4>2
    <3>4. out'[r][x] = Append(<<>>, <<r, x>>)
      BY <1>7, <3>1, <3>2, <3>3
    <3>5. n <= done'[u]
      BY <1>4, <1>8, <2>5
    <3> QED BY <3>4, <3>5
  <2>6. CASE ~(t = u /\ k = n)
    <3>1. out'[r][x] = out[r][x]
      BY <1>7, <2>2, <2>6
    <3>2. n <= done'[u] <=> n <= done[u]
      BY <1>3, <1>4, <1>8, <2>4, <2>6
    <3> QED BY <2>3, <3>1, <3>2
  <2> QED BY <2>5, <2>6
<1>10. \A u \in DOMAIN tasks : done'[u] \in 0 .. Len(tasks[u])
  BY <1>2, <1>4, <1>8 DEF Progress
<1>11. Schedule!OutputRows' = Schedule!OutputRows /\ Schedule!Jobs' = Schedule!Jobs /\ call' = call
         /\ tasks' = tasks
  BY <1>1 DEF Schedule!OutputRows, Schedule!Jobs
<1>12. Progress'
  BY <1>8, <1>9, <1>10, <1>11 DEF Progress
<1>13. Division(tasks)'
  BY <1>2, <1>11 DEF Division
<1>14. CallOK(call)' /\ Decided' /\ decision'.jobs <= Schedule!MaxJobs(call'.policy, call'.avail)
  BY <1>1 DEF ScheduleIInv, CallOK, Decided
<1> QED BY <1>1, <1>12, <1>13, <1>14 DEF ScheduleIInv

(* and the join changes nothing. *)
LEMMA QuietStep ==
    ASSUME ScheduleIInv, Schedule!Join \/ UNCHANGED Schedule!vars
    PROVE  ScheduleIInv'
<1>1. UNCHANGED <<call, decision, tasks, done, out>>
  BY DEF Schedule!Join, Schedule!vars
<1>2. Schedule!OutputRows' = Schedule!OutputRows /\ Schedule!Jobs' = Schedule!Jobs
        /\ Schedule!Unfinished' = Schedule!Unfinished
  BY <1>1 DEF Schedule!OutputRows, Schedule!Jobs, Schedule!Unfinished
<1>3. CallOK(call)' /\ Decided' /\ decision'.jobs <= Schedule!MaxJobs(call'.policy, call'.avail)
  BY <1>1 DEF ScheduleIInv, CallOK, Decided
<1>4. Division(tasks) => Division(tasks)'
  BY <1>1, <1>2 DEF Division
<1>5. Progress => Progress'
  BY <1>1, <1>2 DEF Progress
<1>6. CASE Schedule!Join
  BY <1>1, <1>2, <1>3, <1>4, <1>5, <1>6 DEF ScheduleIInv, Schedule!Join
<1>7. CASE UNCHANGED Schedule!vars
  BY <1>1, <1>2, <1>3, <1>4, <1>5, <1>7 DEF ScheduleIInv, Schedule!vars
<1> QED BY <1>6, <1>7

(* Every step keeps it. *)
LEMMA ScheduleInductive == ScheduleIInv /\ [Schedule!Next]_(Schedule!vars) => ScheduleIInv'
  BY DecideStep, SplitStep, CodeStep, QuietStep DEF Schedule!Next

(* The instance's cardinality is the library's. *)
LEMMA SameCardinality == ASSUME NEW S PROVE Schedule!Cardinality(S) = Cardinality(S)
  BY DEF Cardinality, Schedule!Cardinality

(* It implies that each element is coded once. *)
LEMMA ScheduleMeans == ScheduleIInv => Schedule!CodedOnce
<1> SUFFICES ASSUME ScheduleIInv PROVE Schedule!CodedOnce
  OBVIOUS
<1>1. ASSUME NEW r \in Schedule!OutputRows, NEW x \in 0 .. call.len - 1
      PROVE  out[r][x] \in {<<>>, << <<r, x>> >>} /\ (pc = "done" => out[r][x] # <<>>)
  <2>1. CASE pc \in {"decide", "split"}
    BY <2>1 DEF ScheduleIInv
  <2>2. CASE pc \in {"run", "done"}
    <3>1. Division(tasks) /\ Progress
      BY <2>2 DEF ScheduleIInv
    <3>2. PICK t \in DOMAIN tasks : \E i \in DOMAIN tasks[t] : Covers(tasks[t][i], r, x)
      BY <3>1 DEF Division, Owned
    <3>3. PICK n \in DOMAIN tasks[t] : Covers(tasks[t][n], r, x)
      BY <3>2
    <3>4. out[r][x] = IF n <= done[t] THEN << <<r, x>> >> ELSE <<>>
      BY <3>1, <3>3 DEF Progress
    <3>5. pc = "done" => n <= done[t]
      <4>1. Len(tasks[t]) \in Nat /\ n \in 1 .. Len(tasks[t]) /\ done[t] \in 0 .. Len(tasks[t])
        BY <3>1 DEF Division, Listed, Progress
      <4>2. pc = "done" => ~(done[t] < Len(tasks[t]))
        BY DEF ScheduleIInv, Schedule!Unfinished
      <4> QED BY <4>1, <4>2
    <3> QED BY <3>4, <3>5
  <2> QED BY <2>1, <2>2 DEF ScheduleIInv
<1>2. Schedule!Cardinality(Schedule!Unfinished) <= Schedule!AtLeastOne(decision.jobs)
  <2>1. Schedule!AtLeastOne(decision.jobs) \in Nat
    BY AtLeastOneIs DEF ScheduleIInv, Decided
  <2>2. IsFiniteSet(DOMAIN tasks) /\ Cardinality(DOMAIN tasks) <= Schedule!AtLeastOne(decision.jobs)
    <3>1. CASE pc \in {"decide", "split"}
      <4>1. DOMAIN tasks = {}
        BY <3>1 DEF ScheduleIInv, Schedule!Nothing
      <4> QED BY <2>1, <4>1, FS_EmptySet
    <3>2. CASE pc \in {"run", "done"}
      BY <3>2 DEF ScheduleIInv, Division, Schedule!Jobs
    <3> QED BY <3>1, <3>2 DEF ScheduleIInv
  <2>3. Schedule!Unfinished \subseteq DOMAIN tasks
    BY DEF Schedule!Unfinished
  <2>4. Cardinality(Schedule!Unfinished) <= Cardinality(DOMAIN tasks)
          /\ IsFiniteSet(Schedule!Unfinished)
    BY <2>2, <2>3, FS_Subset
  <2>5. Cardinality(Schedule!Unfinished) \in Nat /\ Cardinality(DOMAIN tasks) \in Nat
    BY <2>2, <2>4, FS_CardinalityType
  <2> QED BY <2>1, <2>2, <2>4, <2>5, SameCardinality
<1>3. decision.jobs <= (IF call.asked = 0 THEN Schedule!AtLeastOne(call.avail)
                        ELSE Schedule!Min({call.asked, Schedule!AtLeastOne(call.avail)}))
  BY DEF ScheduleIInv, CallOK, Schedule!MaxJobs
<1> QED BY <1>1, <1>2, <1>3 DEF Schedule!CodedOnce

-----------------------------------------------------------------------------
(***************************************************************************)
(* The behaviours of the run.                                              *)
(***************************************************************************)
(* Whatever the lengths, the numbers of outputs and threads and the        *)
(* policies, and in whatever order rayon runs the tasks: each way the code *)
(* cuts a call up (the serial loop, for_each_output_chunk with more        *)
(* outputs than jobs and with fewer, the native jobs) codes every element  *)
(* once, with its own row and from its own place, when the call returns    *)
(* none is left, and neither the tasks nor the jobs exceed what was        *)
(* decided, the threads there are and what the options and the             *)
(* environment allow.                                                      *)
THEOREM ElementsAreCodedOnce == MCSpec => []CodedOnce
<1>1. MCInit => ScheduleIInv
  <2>1. OneSchedule => ScheduleIInv
    BY SomeCall, InitSchedule DEF OneSchedule
  <2>2. Schedule!Init => ScheduleIInv
    BY InitSchedule DEF Schedule!Init
  <2> QED BY <2>1, <2>2 DEF MCInit
<1>2. ASSUME ScheduleIInv, [MCNext]_<<subject, vars, scheduleVars, metricsVars>>
      PROVE  ScheduleIInv'
  <2>1. [Schedule!Next]_(Schedule!vars)
    BY <1>2 DEF MCNext, scheduleVars, Schedule!vars
  <2> QED BY <1>2, <2>1, ScheduleInductive
<1>3. ScheduleIInv => CodedOnce
  BY ScheduleMeans DEF CodedOnce
<1> QED BY <1>1, <1>2, <1>3, PTL DEF MCSpec
=============================================================================
