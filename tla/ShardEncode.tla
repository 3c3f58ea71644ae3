----------------------------- MODULE ShardEncode -----------------------------
(***************************************************************************)
(* Encoding, incremental encoding, update and verification of one stripe   *)
(* (encode.rs, shard_by_shard.rs, verify.rs, workspace.rs), in any order,  *)
(* with arguments the codec rejects in between.                            *)
(*                                                                         *)
(* An element of a parity shard is the set of the terms added up in it, a  *)
(* term being the product of a coefficient and an element of a data shard: *)
(* adding a term twice removes it, as in any field of characteristic two.  *)
(* Coefficients are symbols, so what holds here holds for every matrix.    *)
(***************************************************************************)
EXTENDS Integers, Sequences, FiniteSets, FiniteSetsExt

CONSTANTS
    Codecs,         \* [family, parity, fast]: the codecs a stripe may have
    DataShards,
    ShardLen,       \* elements of a shard
    ChunkLen,       \* code_chunk_len: elements of a chunk
    Contents,       \* what a data shard may hold: functions on the elements
    Workspaces      \* [rows, len] that other users leave a workspace with

Data == 0 .. DataShards - 1
Elems == 1 .. ShardLen
None == <<>>
Spoiled == <<>>

ASSUME ShardEncodeAssumption ==
    /\ DataShards \in Nat \ {0} /\ ShardLen \in Nat \ {0} /\ ChunkLen \in Nat \ {0}
    /\ \A c \in Codecs : /\ c.family \in {"Classic", "Leopard"}
                         /\ c.parity \in Nat \ {0}
                         /\ c.fast => c.parity = 1 /\ c.family = "Classic"
    /\ \A s \in Contents : DOMAIN s = Elems
    /\ \E s, t \in Contents : s # t

VARIABLES
    codec,      \* the codec of the stripe
    aligned,    \* the shard length is a multiple of 64
    data,       \* the data shards
    parity,     \* the parity shards
    cur_input,  \* ShardByShard::cur_input
    ws,         \* VerifyWorkspace::parity
    result,     \* what the last call returned
    touched,    \* what the last call changed
    folded,     \* history: the data shards the parity stands for, or Spoiled
    undisturbed \* history: nobody but ShardByShard wrote parity in this batch

vars == <<codec, aligned, data, parity, cur_input, ws, result, touched, folded, undisturbed>>
stripe == <<codec, aligned>>

Rows == 0 .. codec.parity - 1
Junk == {<<>>}       \* what memory held before

-----------------------------------------------------------------------------
(***************************************************************************)
(* Arithmetic.                                                             *)
(***************************************************************************)
Add(x, y) == (x \ y) \cup (y \ x)

One == <<"one">>

\* The encoding matrix: with fast_one_parity its parity row is all ones, for
\* built matrices and, checked at construction, for custom ones.
Coefficient(r, i) == IF codec.fast THEN One ELSE <<r, i>>

Times(c, i, x) == {<<c, i, x>>}

\* Mutant: the first input is added like the others.
CodeSingleAdding(out, i, shard) ==
    [r \in Rows |-> [p \in Elems |-> Add(out[r][p], Times(Coefficient(r, i), i, shard[p]))]]

\* The first input overwrites what the output held, the others are added.
CodeSingle(out, i, shard) ==
    [r \in Rows |-> [p \in Elems |->
        IF i = 0 THEN Times(Coefficient(r, i), i, shard[p])
                 ELSE Add(out[r][p], Times(Coefficient(r, i), i, shard[p]))]]

CodeSome(out) ==
    LET upto[n \in 0 .. DataShards] ==
          IF n = 0 THEN out ELSE CodeSingle(upto[n - 1], n - 1, data[n - 1])
    IN upto[DataShards]

\* encode_fast_one_parity: copy the first shard, add the others.
FastOneParity(out) ==
    LET upto[n \in 1 .. DataShards] ==
          IF n = 1 THEN [out EXCEPT ![0] = [p \in Elems |-> Times(One, 0, data[0][p])]]
          ELSE [upto[n - 1] EXCEPT ![0] =
                 [p \in Elems |-> Add(@[p], Times(One, n - 1, data[n - 1][p]))]]
    IN upto[DataShards]

\* What the Leopard transforms leave in the outputs.
LeopardOutputs == [r \in Rows |-> [p \in Elems |->
    UNION {Times(Coefficient(r, i), i, data[i][p]) : i \in Data}]]

Encoded(out) ==
    CASE codec.family = "Leopard" -> LeopardOutputs
      [] codec.family = "Classic" /\ codec.fast -> FastOneParity(out)
      [] codec.family = "Classic" /\ ~ codec.fast -> CodeSome(out)

-----------------------------------------------------------------------------
(***************************************************************************)
(* Arguments: the checks of each entry point, in order, as pairs of a fault*)
(* of the arguments and the error it is answered with.                     *)
(***************************************************************************)
AllChecks == << <<"few", "TooFewShards">>, <<"many", "TooManyShards">>,
                <<"empty", "EmptyShard">>, <<"uneven", "IncorrectShardSize">> >>

DataCount == << <<"few_data", "TooFewDataShards">>, <<"many_data", "TooManyDataShards">> >>
ParityCount == << <<"few_parity", "TooFewParityShards">>, <<"many_parity", "TooManyParityShards">> >>
BufferCount == << <<"few_buffers", "TooFewBufferShards">>, <<"many_buffers", "TooManyBufferShards">> >>
IndexCheck == << <<"index", "InvalidIndex">> >>
DataSlices == << <<"empty_data", "EmptyShard">>, <<"uneven_data", "IncorrectShardSize">> >>
OutputSlices == << <<"empty_output", "EmptyShard">>, <<"uneven_output", "IncorrectShardSize">> >>
SameLength == << <<"lengths_differ", "IncorrectShardSize">> >>
SepChecks == DataCount \o ParityCount \o DataSlices \o OutputSlices \o SameLength
\* encode_sep_opt of the byte-wise Leopard family has its own: an empty output
\* is one of a wrong length.
OptSepChecks == DataCount \o ParityCount \o DataSlices
                  \o << <<"empty_output", "IncorrectShardSize">> >> \o Tail(OutputSlices) \o SameLength
SingleChecks == IndexCheck \o AllChecks
SingleSepChecks == IndexCheck \o ParityCount \o OutputSlices \o SameLength
BufferChecks == SubSeq(AllChecks, 1, 2) \o BufferCount \o SubSeq(AllChecks, 3, 4)
                  \o OutputSlices \o SameLength
NewCount == << <<"few_new", "TooFewDataShards">>, <<"many_new", "TooManyDataShards">> >>
NewLengths == << <<"uneven_new", "IncorrectShardSize">> >>
UpdateChecks == DataCount \o ParityCount \o NewCount \o DataSlices \o OutputSlices
                  \o SameLength \o NewLengths

\* At most one thing is wrong with the arguments.
FaultsOf(checks) == {{}} \cup {{checks[k][1]} : k \in DOMAIN checks}

\* Any argument of A when nothing is wrong, any fault with the argument a.
ArgsWith(A, a, checks) == (A \X {{}}) \cup ({a} \X FaultsOf(checks))

FirstError(checks, faults) ==
    LET hits == {k \in DOMAIN checks : checks[k][1] \in faults}
    IN IF hits = {} THEN "Ok" ELSE checks[Min(hits)][2]

Unsupported == IF codec.family = "Leopard" THEN "UnsupportedCodecFamily" ELSE "Ok"

\* validate_leopard_shard_len, reached when the transform is about to start.
LeopardLength == IF codec.family = "Leopard" /\ ~ aligned THEN "IncorrectShardSize" ELSE "Ok"

First(errors) ==
    LET hits == {k \in DOMAIN errors : errors[k] # "Ok"}
    IN IF hits = {} THEN "Ok" ELSE errors[Min(hits)]

-----------------------------------------------------------------------------
(***************************************************************************)
(* Calls.                                                                  *)
(***************************************************************************)
\* How every call ends.
Returns(res) ==
    /\ result' = res
    /\ touched' = {x \in {"parity", "ws", "sbs"} :
                     \/ x = "parity" /\ parity' # parity
                     \/ x = "ws" /\ ws' # ws
                     \/ x = "sbs" /\ cur_input' # cur_input}
    /\ UNCHANGED stripe

Rejected(e) ==
    /\ e # "Ok"
    /\ UNCHANGED <<data, parity, cur_input, ws, folded, undisturbed>>
    /\ Returns(e)

\* encode, encode_sep, encode_par, encode_sep_par and the _opt entry points.
Encode(checks, faults) ==
    LET e == First(<<FirstError(checks, faults), LeopardLength>>)
    IN \/ Rejected(e)
       \/ /\ e = "Ok"
          /\ parity' = Encoded(parity)
          /\ folded' = data
          /\ undisturbed' = FALSE
          /\ UNCHANGED <<data, cur_input, ws>>
          /\ Returns("Ok")

\* What the parity stands for after shard i went into it.
FoldedWith(i) ==
    IF i = 0 THEN [j \in Data |-> IF j = 0 THEN data[0] ELSE None]
    ELSE IF folded = Spoiled THEN Spoiled
    ELSE IF folded[i] = None THEN [folded EXCEPT ![i] = data[i]] ELSE Spoiled

\* encode_single, encode_single_sep, encode_single_sep_par, encode_single_opt.
EncodeSingle(i, checks, faults) ==
    LET e == First(<<Unsupported, FirstError(checks, faults)>>)
    IN \/ Rejected(e)
       \/ /\ e = "Ok"
          /\ parity' = CodeSingle(parity, i, data[i])
          /\ folded' = FoldedWith(i)
          /\ undisturbed' = FALSE
          /\ UNCHANGED <<data, cur_input, ws>>
          /\ Returns("Ok")

ParityReady == cur_input = DataShards

\* Mutant: the index moves on although the call was rejected.
SbsEncodeCounted(checks, faults) ==
    LET e == First(<<IF ParityReady THEN "TooManyCalls" ELSE "Ok",
                     FirstError(checks, faults), Unsupported>>)
    IN /\ cur_input' = cur_input + 1
       /\ parity' = IF e = "Ok" THEN CodeSingle(parity, cur_input, data[cur_input]) ELSE parity
       /\ folded' = IF e = "Ok" THEN FoldedWith(cur_input) ELSE folded
       /\ undisturbed' = IF cur_input = 0 THEN TRUE ELSE undisturbed
       /\ UNCHANGED <<data, ws>>
       /\ Returns(e)

\* ShardByShard::encode and encode_sep.
SbsEncode(checks, faults) ==
    LET e == First(<<IF ParityReady THEN "TooManyCalls" ELSE "Ok",
                     FirstError(checks, faults), Unsupported>>)
    IN \/ Rejected(e)
       \/ /\ e = "Ok"
          /\ parity' = CodeSingle(parity, cur_input, data[cur_input])
          /\ cur_input' = cur_input + 1
          /\ folded' = FoldedWith(cur_input)
          /\ undisturbed' = IF cur_input = 0 THEN TRUE ELSE undisturbed
          /\ UNCHANGED <<data, ws>>
          /\ Returns("Ok")

SbsReset ==
    \/ Rejected(IF cur_input > 0 /\ ~ ParityReady THEN "LeftoverShards" ELSE "Ok")
    \/ /\ cur_input = 0 \/ ParityReady
       /\ cur_input' = 0
       /\ UNCHANGED <<data, parity, ws, folded, undisturbed>>
       /\ Returns("Ok")

SbsResetForce ==
    /\ cur_input' = 0
    /\ UNCHANGED <<data, parity, ws, folded, undisturbed>>
    /\ Returns("Ok")

-----------------------------------------------------------------------------
(***************************************************************************)
(* update(old_data, new_data, parity): `new` maps a shard to its new       *)
(* content or None.                                                        *)
(***************************************************************************)
ChunkOf(p) == {q \in Elems : (q - 1) \div ChunkLen = (p - 1) \div ChunkLen}

\* A chunk that is equal in the old and the new shard is skipped.
Changed(old, s, p) == \E q \in ChunkOf(p) : old[q] # s[q]

\* One shard's delta: c * (old + new), added to every output.
Delta(c, i, old, s, p) == Add(Times(c, i, old[p]), Times(c, i, s[p]))

\* The outputs after shard i became s, if it has changed at all.
WithDelta(out, i, s) ==
    IF s = None THEN out
    ELSE IF codec.fast
      THEN [out EXCEPT ![0] = [p \in Elems |-> Add(@[p], Delta(One, i, data[i], s, p))]]
      ELSE [r \in Rows |-> [p \in Elems |->
             IF Changed(data[i], s, p)
               THEN Add(out[r][p], Delta(Coefficient(r, i), i, data[i], s, p))
               ELSE out[r][p]]]

Updated(new) ==
    LET upto[n \in 0 .. DataShards] ==
          IF n = 0 THEN parity ELSE WithDelta(upto[n - 1], n - 1, new[n - 1])
    IN upto[DataShards]

\* The caller passes as old_data the shards the parity was made from.
OldDataIsFolded(new) ==
    \A i \in Data : new[i] # None => folded # Spoiled /\ folded[i] = data[i]

Replaced(shards, new) == [i \in Data |-> IF new[i] = None THEN shards[i] ELSE new[i]]

FoldedUpdated(new) == IF folded = Spoiled THEN Spoiled ELSE Replaced(folded, new)

\* The caller's current shards are old_data; on success it keeps the new ones.
\* Without a new shard nothing is done.
Update(new, faults) ==
    LET e == First(<<Unsupported, FirstError(UpdateChecks, faults)>>)
    IN \/ Rejected(e)
       \/ /\ e = "Ok"
          /\ OldDataIsFolded(new)
          /\ parity' = IF \A i \in Data : new[i] = None THEN parity ELSE Updated(new)
          /\ data' = Replaced(data, new)
          /\ folded' = FoldedUpdated(new)
          /\ undisturbed' = (undisturbed /\ \A i \in Data : new[i] = None)
          /\ UNCHANGED <<cur_input, ws>>
          /\ Returns("Ok")

-----------------------------------------------------------------------------
(***************************************************************************)
(* Verification.                                                           *)
(***************************************************************************)
Zeros == [r \in Rows |-> [p \in Elems |-> {}]]
StaleBuffer == [r \in Rows |-> [p \in Elems |-> Junk]]

\* The parity is encoded once more, into scratch, and compared.
Verdict(scratch) == IF scratch = parity THEN "True" ELSE "False"

\* verify, verify_par with zeroed scratch; verify_with_buffer and its parallel
\* and _opt forms with whatever the caller's buffers hold.
Verify(checks, scratch, faults) ==
    LET e == First(<<FirstError(checks, faults), LeopardLength>>)
    IN \/ Rejected(e)
       \/ /\ e = "Ok"
          /\ UNCHANGED <<data, parity, cur_input, ws, folded, undisturbed>>
          /\ Returns(Verdict(Encoded(scratch)))

Resized(w) ==
    [r \in Rows |-> [p \in Elems |->
        IF r \in DOMAIN w /\ p \in DOMAIN w[r] THEN w[r][p] ELSE {}]]

\* VerifyWorkspace::prepare: resized when the count or a length does not fit.
Prepared(w) ==
    IF DOMAIN w # Rows \/ \E r \in DOMAIN w : DOMAIN w[r] # Elems THEN Resized(w) ELSE w

\* verify_with_workspace, _par and _opt: what the workspace held before stays
\* in it until the encoding overwrites it.
VerifyWithWorkspace(faults) ==
    LET e == FirstError(AllChecks, faults)
        scratch == Prepared(ws)
    IN \/ Rejected(e)
       \/ /\ e = "Ok" /\ LeopardLength # "Ok"
          /\ ws' = scratch
          /\ UNCHANGED <<data, parity, cur_input, folded, undisturbed>>
          /\ Returns(LeopardLength)
       \/ /\ e = "Ok" /\ LeopardLength = "Ok"
          /\ ws' = Encoded(scratch)
          /\ UNCHANGED <<data, parity, cur_input, folded, undisturbed>>
          /\ Returns(Verdict(Encoded(scratch)))

-----------------------------------------------------------------------------
(***************************************************************************)
(* The caller.                                                             *)
(***************************************************************************)
Quiet == result' = "none" /\ touched' = {} /\ UNCHANGED stripe

\* A data shard gets new content.
Edit(i, s) ==
    /\ data[i] # s
    /\ data' = [data EXCEPT ![i] = s]
    /\ Quiet
    /\ UNCHANGED <<parity, cur_input, ws, folded, undisturbed>>

\* A parity element is damaged; Next takes the last of a shard.
Damage(r, p) ==
    /\ folded # Spoiled
    /\ parity' = [parity EXCEPT ![r][p] = Junk]
    /\ folded' = Spoiled
    /\ undisturbed' = FALSE
    /\ Quiet
    /\ UNCHANGED <<data, cur_input, ws>>

NewEverywhere == [i \in Data |-> CHOOSE s \in Contents : s # data[i]]

JunkWorkspace(w) == [r \in 0 .. w.rows - 1 |-> [p \in 1 .. w.len |-> Junk]]

\* The workspace serves another codec, another length, or is made anew.
UseElsewhere(w) ==
    /\ ws' = JunkWorkspace(w)
    /\ Quiet
    /\ UNCHANGED <<data, parity, cur_input, folded, undisturbed>>

Init ==
    /\ codec \in Codecs
    /\ aligned \in BOOLEAN
    /\ codec.family = "Classic" => aligned
    /\ data \in [Data -> {CHOOSE s \in Contents : TRUE}]
    /\ parity = [r \in Rows |-> [p \in Elems |-> Junk]]
    /\ cur_input = 0
    /\ ws = Zeros
    /\ result = "none" /\ touched = {}
    /\ folded = Spoiled
    /\ undisturbed = FALSE

Next ==
    \/ \E checks \in {AllChecks, SepChecks} : \E faults \in FaultsOf(checks) :
          Encode(checks, faults)
    \/ \E faults \in FaultsOf(OptSepChecks) :
          codec.family = "Leopard" /\ Encode(OptSepChecks, faults)
    \/ \E checks \in {SingleChecks, SingleSepChecks} : \E a \in ArgsWith(Data, 0, checks) :
          EncodeSingle(a[1], checks, a[2])
    \/ \E checks \in {AllChecks, SepChecks} : \E faults \in FaultsOf(checks) :
          SbsEncode(checks, faults)
    \/ SbsReset
    \/ SbsResetForce
    \/ \E a \in ArgsWith([Data -> Contents \cup {None}], NewEverywhere, UpdateChecks) :
          Update(a[1], a[2])
    \/ \E faults \in FaultsOf(AllChecks) : Verify(AllChecks, Zeros, faults)
    \/ \E faults \in FaultsOf(BufferChecks) : Verify(BufferChecks, StaleBuffer, faults)
    \/ \E faults \in FaultsOf(AllChecks) : VerifyWithWorkspace(faults)
    \/ \E i \in Data, s \in Contents : Edit(i, s)
    \/ \E r \in Rows : Damage(r, ShardLen)
    \/ \E w \in Workspaces : UseElsewhere(w)

Spec == Init /\ [][Next]_vars

-----------------------------------------------------------------------------
(***************************************************************************)
(* Properties.                                                             *)
(***************************************************************************)
Errors == {"TooFewShards", "TooManyShards", "EmptyShard", "IncorrectShardSize",
           "TooFewDataShards", "TooManyDataShards", "TooFewParityShards", "TooManyParityShards",
           "TooFewBufferShards", "TooManyBufferShards", "InvalidIndex",
           "UnsupportedCodecFamily", "TooManyCalls", "LeftoverShards"}

\* The type invariant; ShardByShard never counts past the data shards.
TypeOK ==
    /\ codec \in Codecs /\ aligned \in BOOLEAN
    /\ data \in [Data -> Contents]
    /\ DOMAIN parity = Rows /\ \A r \in Rows : DOMAIN parity[r] = Elems
    /\ cur_input \in 0 .. DataShards
    /\ result \in Errors \cup {"none", "Ok", "True", "False"}
    /\ touched \subseteq {"parity", "ws", "sbs"}
    /\ folded = Spoiled \/ folded \in [Data -> Contents \cup {None}]
    /\ undisturbed \in BOOLEAN

\* The parity of the shards in `shards`, by definition of the code.
ParityOf(shards) ==
    [r \in Rows |-> [p \in Elems |->
        {<<Coefficient(r, i), i, shards[i][p]>> : i \in {j \in Data : shards[j] # None}}]]

\* Whatever was called in which order, whole encoding, one shard at a time or
\* by difference, through the matrix or the single-parity path: the parity is
\* the sum of exactly the shards that were put into it, each as it was then.  A
\* batch that only ShardByShard wrote holds the shards below the index, so that
\* all of them are encoded when parity_ready() says so, after rejected calls,
\* forced resets and earlier batches too.
ParityIsFolded ==
    /\ folded # Spoiled => parity = ParityOf(folded)
    /\ cur_input > 0 /\ undisturbed =>
         /\ folded # Spoiled
         /\ {i \in Data : folded[i] # None} = 0 .. cur_input - 1

\* Verification answers true exactly when the parity is the data's, whatever
\* the scratch buffers and the workspace held before.  A rejected call has
\* changed no parity and no index, and a matrix codec's no workspace.
VerdictRight ==
    /\ result = "True" => parity = ParityOf(data)
    /\ result = "False" => parity # ParityOf(data)
    /\ result \in Errors =>
         /\ touched \cap {"parity", "sbs"} = {}
         /\ codec.family # "Leopard" => "ws" \notin touched

\* What verify.rs:122 says of verify_with_workspace_par for every family:
\* "Invalid input counts and lengths are rejected before resizing it".
RejectedLeavesWorkspace == result \in Errors => "ws" \notin touched

=============================================================================
