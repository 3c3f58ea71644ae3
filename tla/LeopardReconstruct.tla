-------------------------- MODULE LeopardReconstruct --------------------------
(***************************************************************************)
(* Reconstruction with the Leopard families (reconstruct.rs, packed.rs):   *)
(* validation of the array, the private staging of generic containers with *)
(* its three layouts, the direct path of option vectors that publishes     *)
(* zeroed buffers first and takes them back when the decoder fails, and    *)
(* callers that lose shards, repair destinations and try again.            *)
(*                                                                         *)
(* The bytes of a shard are "right" (those of the stripe), "zero",         *)
(* "partial" (some chunks decoded), "stale" (whatever a buffer held        *)
(* before) or "cut" (a piece of the right ones).                           *)
(***************************************************************************)
EXTENDS Integers, FiniteSets, FiniteSetsExt

CONSTANTS
    DataShards, ParityShards,
    ShardCounts,    \* shards in the arrays that callers pass
    StripeLens,     \* lengths of a stripe's shards
    OddLens,        \* other lengths a shard or a buffer may have
    Multiple,       \* LEOPARD_SHARD_MULTIPLE
    InlineBytes,    \* LEOPARD_INLINE_RECOVERY_BYTES
    Masks,          \* `required` masks: [len, set]
    Containers,     \* "vec" (Option<Vec<u8>>), "slot" or "user"
    MaxCalls, MaxEdits

TotalShards == DataShards + ParityShards
Empty == <<0, "zero">>

ASSUME LeopardAssumption ==
    /\ DataShards \in Nat \ {0} /\ ParityShards \in Nat \ {0} /\ Multiple \in Nat \ {0}
    /\ ShardCounts \subseteq Nat /\ InlineBytes \in Nat
    /\ MaxCalls \in Nat /\ MaxEdits \in Nat
    /\ \A n \in StripeLens : n \in Nat \ {0} /\ n % Multiple = 0
    /\ OddLens \subseteq Nat /\ OddLens \cap StripeLens = {}
    /\ Containers \subseteq {"vec", "slot", "user"}
    /\ \A m \in Masks : m.set \subseteq 0 .. m.len - 1

VARIABLES
    container,  \* the ReconstructShard implementation of the array
    inline,     \* staging may be inline: std and x86_64
    stripe_len, \* length of the stripe's shards
    shards,     \* [present, len, bytes] of each shard
    pc,         \* "idle", "bind", "decode" or "publish"
    run,        \* the call in progress
    staging,    \* the private output buffers: cell -> <<shard, bytes>>
    result,     \* what the last call returned
    before,     \* history: the array when the last call began
    calls, edits

vars == <<container, inline, stripe_len, shards, pc, run, staging, result, before, calls, edits>>
setting == <<container, inline, stripe_len>>

Shards == DOMAIN shards
Present(sh) == {i \in DOMAIN sh : sh[i].present}
Missing(sh) == DOMAIN sh \ Present(sh)

Shard(len, bytes) == [present |-> TRUE, len |-> len, bytes |-> bytes]
NoBuffer == [present |-> FALSE, len |-> 0, bytes |-> "stale"]

\* What is left of a shard that its owner gives up: an option drops its
\* buffer, a slot only clears its flag.
Lost(s) == IF container = "vec" THEN NoBuffer ELSE [s EXCEPT !.present = FALSE, !.bytes = "stale"]

\* What a shard of the stripe holds at some length.
BytesOf(len) == IF len = stripe_len THEN "right" ELSE "cut"

-----------------------------------------------------------------------------
(***************************************************************************)
(* Validation.                                                             *)
(***************************************************************************)
MaskError(m) == IF m.len \in {DataShards, TotalShards} THEN "Ok" ELSE "InvalidShardFlags"

CountError ==
    IF Cardinality(Shards) < TotalShards THEN "TooFewShards"
    ELSE IF Cardinality(Shards) > TotalShards THEN "TooManyShards" ELSE "Ok"

\* The first present shard, in order, that is empty, of another length than
\* the ones before it, or no multiple of 64.
ScanError(sh) ==
    LET bad == {i \in Present(sh) : \/ sh[i].len % Multiple # 0
                                    \/ sh[i].len = 0
                                    \/ sh[i].len # sh[Min(Present(sh))].len}
    IN IF bad = {} THEN "Ok"
       ELSE IF sh[Min(bad)].len = 0 THEN "EmptyShard" ELSE "IncorrectShardSize"

QuorumError(sh) == IF Cardinality(Present(sh)) < DataShards THEN "TooFewShardsPresent" ELSE "Ok"

\* The second check is made when the first one passes.
Then(first, second) == IF first # "Ok" THEN first ELSE second

\* validate_leopard_reconstruction
Validation(sh) == Then(CountError, Then(ScanError(sh), QuorumError(sh)))

LenOf(sh) == sh[Min(Present(sh))].len

Ends(res) == pc' = "idle" /\ result' = res /\ run' = <<>> /\ staging' = <<>>

\* reconstruct, reconstruct_data, reconstruct_some and their _opt forms.
Call(direct, mask) ==
    LET e == Then(MaskError(mask), Validation(shards))
        wanted == mask.set \cap Missing(shards)
    IN /\ pc = "idle" /\ calls < MaxCalls
       /\ direct => container = "vec"
       /\ calls' = calls + 1
       /\ before' = [array |-> shards, wanted |-> wanted]
       /\ \/ e # "Ok" /\ Ends(e)
          \/ e = "Ok" /\ wanted = {} /\ Ends("Ok")
          \/ /\ e = "Ok" /\ wanted # {}
             /\ pc' = "bind"
             /\ run' = [direct |-> direct, required |-> mask.set, shard_len |-> LenOf(shards)]
             /\ result' = "none"
             /\ UNCHANGED staging
       /\ UNCHANGED <<setting, shards, edits>>

-----------------------------------------------------------------------------
(***************************************************************************)
(* Binding inputs and outputs.                                             *)
(***************************************************************************)
\* Which staging a call uses; the inline ones are for at most 32 shards.
Layout(len) ==
    IF inline /\ TotalShards <= 32 /\ TotalShards * len <= InlineBytes THEN "small"
    ELSE IF inline /\ TotalShards <= 32 /\ ParityShards * len <= InlineBytes THEN "packed"
    ELSE "heap"

\* The k-th requested output of the packed layout: in the scratch while it
\* lasts, then in overflow storage.
PackedCell(k, len) ==
    LET inline_count == InlineBytes \div len
    IN IF k <= inline_count THEN <<"scratch", k>> ELSE <<"overflow", k - inline_count>>

\* The other layouts stage a shard in a cell of its own, wanted or not.
OwnCell(i) == <<"own", i>>

\* The cells a layout provides when `count` outputs are requested.
Cells(layout, len, count) ==
    IF layout = "packed"
      THEN LET inline_count == InlineBytes \div len
           IN ({"scratch"} \X (1 .. inline_count))
                \cup ({"overflow"} \X (1 .. count - inline_count))
      ELSE {OwnCell(i) : i \in Shards}

\* The cell of each requested shard, counted off in shard order.
CellOf(layout, len, requested, i) ==
    IF layout = "packed"
      THEN PackedCell(Cardinality({j \in requested : j <= i}), len)
      ELSE OwnCell(i)

\* Mutant: counted off from the other end.
PublishCellReversed(layout, len, requested, i) ==
    IF layout = "packed"
      THEN PackedCell(Cardinality({j \in requested : j >= i}), len)
      ELSE OwnCell(i)

\* Publication counts the cells off once more.
PublishCell(layout, len, requested, i) == CellOf(layout, len, requested, i)

\* What is to be recovered: required and not there.
Requested(required, sh) == required \cap Missing(sh)

\* A container may answer differently than it did when it was validated.
ChangeOfMind(i) ==
    /\ container = "user" /\ pc = "bind"
    /\ edits < MaxEdits /\ edits' = edits + 1
    /\ shards' = [shards EXCEPT ![i] =
                    IF @.present THEN Lost(@) ELSE Shard(@.len, BytesOf(@.len))]
    /\ UNCHANGED <<setting, pc, run, staging, result, before, calls>>

BindStaged ==
    LET layout == Layout(run.shard_len)
        requested == Requested(run.required, shards)
    IN /\ pc = "bind" /\ ~ run.direct
       /\ \/ /\ \E i \in Present(shards) : shards[i].len # run.shard_len
             /\ before' = [array |-> shards, wanted |-> requested]
             /\ Ends("IncorrectShardSize")
          \/ /\ \A i \in Present(shards) : shards[i].len = run.shard_len
             /\ before' = [array |-> shards, wanted |-> requested]
             /\ staging' = [x \in Cells(layout, run.shard_len, Cardinality(requested)) |-> Empty]
             /\ run' = [direct |-> FALSE, layout |-> layout, shard_len |-> run.shard_len,
                        present |-> Present(shards), requested |-> requested,
                        outputs |-> [i \in requested |->
                            CellOf(layout, run.shard_len, requested, i)],
                        todo |-> requested]
             /\ pc' = "decode"
             /\ UNCHANGED result
       /\ UNCHANGED <<setting, shards, calls, edits>>

\* The direct path initializes the options themselves.
BindDirect ==
    LET requested == Requested(run.required, shards)
    IN /\ pc = "bind" /\ run.direct
       /\ shards' = [i \in Shards |->
                       IF i \in requested THEN Shard(run.shard_len, "zero") ELSE shards[i]]
       /\ run' = [direct |-> TRUE, shard_len |-> run.shard_len,
                  present |-> Present(shards), requested |-> requested,
                  outputs |-> <<>>, todo |-> {}]
       /\ pc' = "decode"
       /\ UNCHANGED <<setting, staging, result, before, calls, edits>>

-----------------------------------------------------------------------------
(***************************************************************************)
(* The decoder, which sees only what was bound.                            *)
(***************************************************************************)
\* validate_leopard_decode_buffers: the inputs once more.
DecoderError ==
    IF \E i \in run.present : shards[i].len # run.shard_len THEN "IncorrectShardSize"
    ELSE IF Cardinality(run.present) < DataShards THEN "TooFewShardsPresent" ELSE "Ok"

\* With a quorum of pieces of the stripe the decoder's outputs are those too.
DecodedBytes ==
    IF \E b \in {"right", "cut"} : \A i \in run.present : shards[i].bytes = b
      THEN shards[CHOOSE i \in run.present : TRUE].bytes ELSE "wrong"

\* The array and the staging after the decoder wrote `bytes` to all outputs.
ArrayWith(bytes) ==
    [i \in Shards |-> IF run.direct /\ i \in run.requested
                        THEN [shards[i] EXCEPT !.bytes = bytes] ELSE shards[i]]
StagingWith(bytes) ==
    [x \in DOMAIN staging |->
        IF \E i \in run.requested : run.outputs[i] = x
          THEN <<CHOOSE i \in run.requested : run.outputs[i] = x, bytes>> ELSE staging[x]]

\* The decoder works through a shard in chunks, across all outputs.
DecodeChunk ==
    /\ pc = "decode" /\ DecoderError = "Ok"
    /\ shards' = ArrayWith("partial")
    /\ staging' = StagingWith("partial")
    /\ UNCHANGED <<setting, pc, run, result, before, calls, edits>>

\* The last chunk: the direct path commits, the staged ones go on to publish.
DecodeEnd ==
    /\ pc = "decode" /\ DecoderError = "Ok"
    /\ shards' = ArrayWith(DecodedBytes)
    /\ \/ run.direct /\ Ends("Ok")
       \/ /\ ~ run.direct
          /\ staging' = StagingWith(DecodedBytes)
          /\ pc' = "publish"
          /\ UNCHANGED <<run, result>>
    /\ UNCHANGED <<setting, before, calls, edits>>

\* Mutant: the guard leaves the data shards as they are.
RolledBackParity(sh) ==
    [i \in DOMAIN sh |-> IF i \in run.requested /\ i >= DataShards THEN NoBuffer ELSE sh[i]]

\* Rollback::drop: what was initialized becomes missing again.
RolledBack(sh) ==
    [i \in DOMAIN sh |-> IF i \notin run.present /\ i \in run.requested THEN NoBuffer ELSE sh[i]]

\* The decoder returns an error, or unwinds.
DecodeFails ==
    /\ pc = "decode"
    /\ shards' = IF run.direct THEN RolledBack(shards) ELSE shards
    /\ \/ DecoderError # "Ok" /\ Ends(DecoderError)
       \/ DecoderError = "Ok" /\ Ends("DecoderFailed")
    /\ UNCHANGED <<setting, before, calls, edits>>

-----------------------------------------------------------------------------
(***************************************************************************)
(* Publication, one destination after the other.                           *)
(***************************************************************************)
\* get_or_initialize: an option makes a buffer, a slot's must fit.
Accepts(s) == container = "vec" \/ s.len = run.shard_len

Publish ==
    /\ pc = "publish"
    /\ \/ run.todo = {} /\ Ends("Ok") /\ UNCHANGED shards
       \/ /\ run.todo # {}
          /\ ~ Accepts(shards[Min(run.todo)])
          /\ Ends("IncorrectShardSize") /\ UNCHANGED shards
       \/ /\ run.todo # {}
          /\ Accepts(shards[Min(run.todo)])
          /\ LET i == Min(run.todo)
                 cell == PublishCell(run.layout, run.shard_len, run.requested, i)
             IN /\ shards' = [shards EXCEPT ![i] = Shard(run.shard_len,
                                IF staging[cell][1] = i THEN staging[cell][2] ELSE "stale")]
                /\ run' = [run EXCEPT !.todo = @ \ {i}]
          /\ UNCHANGED <<pc, staging, result>>
    /\ UNCHANGED <<setting, before, calls, edits>>

-----------------------------------------------------------------------------
(***************************************************************************)
(* The caller, between calls.                                              *)
(***************************************************************************)
Edit(i, s) ==
    /\ pc = "idle" /\ edits < MaxEdits /\ edits' = edits + 1
    /\ s # shards[i]
    /\ shards' = [shards EXCEPT ![i] = s]
    /\ result' = "none"
    /\ UNCHANGED <<setting, pc, run, staging, before, calls>>

\* A shard is lost, or comes back right; a slot's buffer is replaced by one of
\* another length; a present shard is cut.
Lose(i) == shards[i].present /\ Edit(i, Lost(shards[i]))
Restore(i) == ~ shards[i].present /\ Edit(i, Shard(stripe_len, "right"))
Refit(i, len) == ~ shards[i].present /\ container # "vec" /\ Edit(i, [shards[i] EXCEPT !.len = len])
Cut(i, len) == shards[i].present /\ Edit(i, Shard(len, "cut"))

Init ==
    /\ container \in Containers
    /\ inline \in BOOLEAN
    /\ stripe_len \in StripeLens
    /\ \E n \in ShardCounts : \E missing \in SUBSET (0 .. n - 1) :
         /\ Cardinality(missing) <= ParityShards
         /\ shards = [i \in 0 .. n - 1 |->
              IF i \in missing THEN Lost(Shard(stripe_len, "right")) ELSE Shard(stripe_len, "right")]
    /\ pc = "idle" /\ run = <<>> /\ staging = <<>>
    /\ result = "none"
    /\ before = [array |-> shards, wanted |-> {}]
    /\ calls = 0 /\ edits = 0

Next ==
    \/ \E direct \in BOOLEAN, mask \in Masks : Call(direct, mask)
    \/ \E i \in Shards : ChangeOfMind(i)
    \/ BindStaged
    \/ BindDirect
    \/ DecodeChunk
    \/ DecodeEnd
    \/ DecodeFails
    \/ Publish
    \/ \E i \in Shards : Lose(i)
    \/ \E i \in Shards : Restore(i)
    \/ \E i \in Shards, len \in OddLens \cup {stripe_len} : Refit(i, len)
    \/ \E i \in Shards, len \in OddLens : Cut(i, len)

Spec == Init /\ [][Next]_vars

-----------------------------------------------------------------------------
(***************************************************************************)
(* Properties.                                                             *)
(***************************************************************************)
ShardType == [present : BOOLEAN, len : StripeLens \cup OddLens \cup {0},
              bytes : {"right", "zero", "partial", "stale", "cut"}]

\* The type invariant; a missing option never holds a buffer.
TypeOK ==
    /\ \A i \in Shards : shards[i] \in ShardType
    /\ container = "vec" => \A i \in Missing(shards) : shards[i] = NoBuffer
    /\ pc \in {"idle", "bind", "decode", "publish"}
    /\ calls \in 0 .. MaxCalls /\ edits \in 0 .. MaxEdits

\* A shard that is marked present holds bytes of the stripe, while a call
\* publishes and however it ends; only the direct path's own buffers do not
\* while its decoder runs.  What is published comes from a staging cell of the
\* shard's own, in each layout and also when a container asks for more outputs
\* than were validated: "overflow buffers cover outputs".
PresentIsRight ==
    /\ \A i \in Present(shards) :
         shards[i].bytes \notin {"right", "cut"} =>
           pc = "decode" /\ run.direct /\ i \in run.requested
    /\ pc \in {"decode", "publish"} /\ ~ run.direct =>
         /\ \A i \in run.requested : run.outputs[i] \in DOMAIN staging
         /\ \A i, j \in run.requested : i # j => run.outputs[i] # run.outputs[j]

\* A successful call has restored what was asked for and nothing else.  A
\* failed one leaves the array as it was, after decoder errors and unwinding
\* too; only a destination that refuses its shard leaves the ones before it
\* restored.
AllOrNothing ==
    /\ result = "Ok" =>
         \A i \in Shards :
           IF i \in before.wanted
             THEN shards[i].present /\ shards[i].bytes \in {"right", "cut"}
             ELSE shards[i] = before.array[i]
    /\ pc = "idle" /\ result \notin {"Ok", "none"} =>
         LET restored == {i \in Shards : shards[i] # before.array[i]}
         IN restored # {} =>
              /\ result = "IncorrectShardSize" /\ container # "vec"
              /\ restored \subseteq before.wanted
              /\ \A i \in restored, j \in before.wanted \ restored : i < j
=============================================================================
