--------------------------- MODULE ProgressiveDecode ---------------------------
(***************************************************************************)
(* Progressive recovery with decode_idx (galois_8/policy.rs).  Workers add *)
(* the contributions of their own survivors into zeroed destinations, and  *)
(* one of them collects the others' partial sums in merge mode.  Addition  *)
(* is XOR: what is applied twice is gone, so every rejected call must have *)
(* left the destinations as they were, for its batch to be tried again.    *)
(*                                                                         *)
(* The bytes of a destination are abstracted to the set of survivors whose *)
(* contribution they hold; it is the recovered shard when it holds each of *)
(* the expected survivors' once.                                           *)
(***************************************************************************)
EXTENDS Integers, FiniteSets, FiniteSetsExt

CONSTANTS
    TotalShards,    \* total_shard_count
    DataShards,     \* data_shard_count
    Survivors,      \* the mask of expected inputs the callers agreed on
    WrongMasks,     \* masks handed over by mistake: short or overcomplete
    Destinations,   \* the destinations every worker prepares
    Workers,        \* workers with partial sums
    Main,           \* the worker that collects them
    Jobs,           \* [worker, inputs]: batches with each survivor in one of them,
                    \* empty ones too
    MaxEdits,       \* bound on broken destinations
    MaxCalls        \* bound on the calls

Shards == 0 .. TotalShards - 1

\* Lengths: of the stripe, of a destination cut short, of a damaged input.
Stripe == 2
Short == 1
Damaged == 3

\* What the constants have to satisfy.
RecoveryAssumption ==
    /\ TotalShards \in Nat /\ DataShards \in 1 .. TotalShards
    /\ Survivors \subseteq Shards /\ Cardinality(Survivors) = DataShards
    /\ WrongMasks \subseteq {S \in SUBSET Shards : Cardinality(S) # DataShards}
    /\ Destinations \subseteq Shards /\ Main \in Workers
    /\ MaxEdits \in Nat /\ MaxCalls \in Nat

JobAssumption ==
    /\ Jobs \subseteq [worker : Workers, inputs : SUBSET Shards]
    /\ \A i, j \in Jobs : i # j => i.inputs \cap j.inputs \cap Survivors = {}
    /\ Survivors \subseteq UNION {j.inputs : j \in Jobs}

VARIABLES
    singular,   \* a custom matrix whose survivor rows have no inverse
    dst,        \* each worker's destinations: [some, len, holds]
    done,       \* the batches whose call returned Ok
    merged,     \* the workers whose sums the main one took over
    result,     \* what the last call returned
    edits, calls

vars == <<singular, dst, done, merged, result, edits, calls>>

Prepared(i) == [some |-> i \in Destinations, len |-> IF i \in Destinations THEN Stripe ELSE 0,
                holds |-> {}]

Init ==
    /\ singular \in BOOLEAN
    /\ dst = [w \in Workers |-> [i \in Shards |-> Prepared(i)]]
    /\ done = {} /\ merged = {}
    /\ result = "none"
    /\ edits = 0 /\ calls = 0

\* The columns a batch supplies: shards among the first data_count expected.
Contribution(mask, inputs) ==
    {i \in inputs \cap mask : Cardinality({j \in mask : j < i}) < DataShards}

\* The destinations of a worker that are there.
Kept(w) == {i \in Shards : dst[w][i].some}

\* The length every buffer must have is that of the first supplied input, or
\* of the first destination when the batch is empty.
LengthOf(w, len) ==
    IF DOMAIN len # {} THEN len[Min(DOMAIN len)] ELSE dst[w][Min(Kept(w))].len

\* The checks of the expectation mode, in their order.  `len` gives the lengths
\* of the supplied inputs.
ExpectError(w, mask, len) ==
    IF Cardinality(mask) < DataShards THEN "TooFewShardsPresent"
    ELSE IF DOMAIN len = {} /\ Kept(w) = {} THEN "TooFewShardsPresent"
    ELSE IF \E i \in DOMAIN len : len[i] # LengthOf(w, len) THEN "IncorrectShardSize"
    ELSE IF \E i \in Kept(w) : dst[w][i].len # LengthOf(w, len) THEN "IncorrectShardSize"
    ELSE IF Kept(w) = {} THEN "Ok"
    ELSE IF Contribution(mask, DOMAIN len) = {} THEN "Ok"
    ELSE IF Cardinality(mask) # DataShards THEN "TooFewShardsPresent"
    ELSE IF singular THEN "InvalidCustomMatrix"
    ELSE "Ok"

\* mul_slice_xor of the terms into a buffer.
Plus(buffer, terms) == [buffer EXCEPT !.holds = SymDiff(@, terms)]

\* Every supplied column, into every prepared destination.
Accumulate(w, terms) ==
    [dst EXCEPT ![w] = [i \in Shards |->
        IF dst[w][i].some THEN Plus(dst[w][i], terms) ELSE dst[w][i]]]

Call ==
    /\ calls < MaxCalls
    /\ calls' = calls + 1

\* The family, the slot counts and the length of the mask come first.
Malformed(error) ==
    /\ Call
    /\ result' = error
    /\ UNCHANGED <<singular, dst, done, merged, edits>>

\* decode_idx(dst, Some(mask), input) for a batch that is still owed.
Contribute(job, mask, damaged) ==
    /\ Call
    /\ job \notin done
    /\ job.worker \notin merged
    /\ LET len == [i \in job.inputs |-> IF i \in damaged THEN Damaged ELSE Stripe]
           error == ExpectError(job.worker, mask, len)
       IN /\ result' = error
          /\ IF error = "Ok"
               THEN dst' = Accumulate(job.worker, Contribution(mask, job.inputs))
               ELSE UNCHANGED dst
          /\ done' = IF error = "Ok" /\ mask = Survivors THEN done \cup {job} ELSE done
    /\ UNCHANGED <<singular, merged, edits>>

\* The first pair, in shard order, that cannot be merged.
PairError(w, i) ==
    IF ~ dst[w][i].some THEN "Ok"
    ELSE IF ~ dst[Main][i].some THEN "TooFewShards"
    ELSE IF dst[Main][i].len # dst[w][i].len THEN "IncorrectShardSize"
    ELSE "Ok"

Misfits(w) == {i \in Shards : PairError(w, i) # "Ok"}

Xored(w, upto) ==
    [dst EXCEPT ![Main] = [i \in Shards |->
        IF i < upto /\ dst[w][i].some
          THEN Plus(dst[Main][i], dst[w][i].holds) ELSE dst[Main][i]]]

\* Mutant: pairs are checked one by one while they are merged.
MergedUpTo(w) ==
    IF Misfits(w) = {} THEN Xored(w, TotalShards) ELSE Xored(w, Min(Misfits(w)))

\* Every active pair is checked before any is merged.
MergedAll(w) == IF Misfits(w) = {} THEN Xored(w, TotalShards) ELSE dst

\* decode_idx(dst, None, input) with a finished worker's sums.
Merge(w) ==
    /\ Call
    /\ w \in Workers \ (merged \cup {Main})
    /\ \A j \in Jobs : j.worker = w => j \in done
    /\ result' = IF Misfits(w) = {} THEN "Ok" ELSE PairError(w, Min(Misfits(w)))
    /\ dst' = MergedAll(w)
    /\ merged' = IF Misfits(w) = {} THEN merged \cup {w} ELSE merged
    /\ UNCHANGED <<singular, done, edits>>

-----------------------------------------------------------------------------
(***************************************************************************)
(* A destination of the wrong layout, and its repair from the caller's     *)
(* copy.  Taking one away deselects it for contributions, and taking a     *)
(* summand away omits it from the merge: the collecting worker may lose a  *)
(* destination once its own batches are in.                                *)
(***************************************************************************)
Break(w, i, broken) ==
    /\ edits < MaxEdits
    /\ dst[w][i].some /\ dst[w][i].len = Stripe
    /\ broken.some => \A v \in Workers : dst[v][i].len # Short
    /\ ~ broken.some => w = Main /\ \A j \in Jobs : j.worker = w => j \in done
    /\ dst' = [dst EXCEPT ![w][i] = [broken EXCEPT !.holds = dst[w][i].holds]]
    /\ edits' = edits + 1
    /\ UNCHANGED <<singular, done, merged, result, calls>>

Repair(w, i) ==
    /\ i \in Destinations
    /\ dst[w][i].len # Stripe
    /\ dst' = [dst EXCEPT ![w][i] = [@ EXCEPT !.some = TRUE, !.len = Stripe]]
    /\ UNCHANGED <<singular, done, merged, result, edits, calls>>

BrokenForms == {[some |-> TRUE, len |-> Short, holds |-> {}],
                [some |-> FALSE, len |-> 0, holds |-> {}]}

Next ==
    \/ \E job \in Jobs, mask \in {Survivors} \cup WrongMasks :
          \E damaged \in SUBSET job.inputs : Contribute(job, mask, damaged)
    \/ \E error \in {"UnsupportedCodecFamily", "TooFewShards", "TooManyShards",
                    "InvalidShardFlags"} : Malformed(error)
    \/ \E w \in Workers : Merge(w)
    \/ \E w \in Workers, i \in Shards, broken \in BrokenForms : Break(w, i, broken)
    \/ \E w \in Workers, i \in Shards : Repair(w, i)

Spec == Init /\ [][Next]_vars

-----------------------------------------------------------------------------
(***************************************************************************)
(* Properties.                                                             *)
(***************************************************************************)

\* The type invariant.
TypeOK ==
    /\ singular \in BOOLEAN
    /\ dst \in [Workers -> [Shards -> [some : BOOLEAN, len : {0, Short, Stripe},
                                       holds : SUBSET Survivors]]]
    /\ done \subseteq Jobs
    /\ merged \subseteq Workers \ {Main}
    /\ edits \in 0 .. MaxEdits
    /\ calls \in 0 .. MaxCalls

\* The survivors whose contribution a worker has been told it holds.
Owned(w) ==
    Survivors \cap UNION {j.inputs : j \in
        {k \in done : k.worker = w \/ (w = Main /\ k.worker \in merged)}}

\* A destination holds exactly the contributions of the batches that returned
\* Ok, each of them once, however many calls were rejected and tried again on
\* the way (decode_idx: retrying a half-applied batch would "apply them twice
\* and cancel their recovered bytes"); one that was not prepared holds nothing.
HoldsWhatWasAccepted ==
    \A w \in Workers, i \in Shards :
       dst[w][i].holds = IF i \in Destinations THEN Owned(w) ELSE {}

=============================================================================
