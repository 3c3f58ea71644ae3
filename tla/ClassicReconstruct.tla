-------------------------- MODULE ClassicReconstruct --------------------------
(***************************************************************************)
(* Classic reconstruction of one shard array: planning (recovery_plan.rs), *)
(* the serial executor that publishes one output at a time, the bulk one   *)
(* for option vectors, and owned workspaces that are prepared once and     *)
(* reused while the caller edits the array (reconstruct.rs, workspace.rs). *)
(*                                                                         *)
(* The bytes of a shard are abstracted to whether they are the right ones  *)
(* of the stripe.  A coefficient row computes the right bytes exactly when *)
(* it is applied to the shards it was derived for, in their order, by the  *)
(* codec it was derived from, and all of those are right.                  *)
(***************************************************************************)
EXTENDS Integers, Sequences, FiniteSets, FiniteSetsExt

CONSTANTS
    Codecs,     \* [data, parity, matrix, family] formats the caller uses
    Singular,   \* <<matrix, survivor set>> pairs that have no inverse
    Masks,      \* `required` masks: [len, set] with set \subseteq 0 .. len - 1
    ShardCount, \* shards in the array
    Lengths,    \* shard lengths; 0 is the empty shard
    StripeLen,  \* the length the caller's shards have at first
    Inline,     \* inline capacity of valid_indices
    Containers, \* "slot" keeps a buffer while missing, "option" drops it
    MaxEdits,   \* bound on the caller's edits of the array
    MaxCalls    \* bound on the calls

Shards == 0 .. ShardCount - 1
Goals == {[kind |-> "All"], [kind |-> "Data"]}
            \cup {[kind |-> "Required", mask |-> m] : m \in Masks}

ASSUME BoundsAssumption ==
    /\ ShardCount \in Nat /\ Inline \in Nat /\ MaxEdits \in Nat /\ MaxCalls \in Nat
    /\ Lengths \subseteq Nat /\ StripeLen \in Lengths \ {0}
    /\ Containers \subseteq {"slot", "option"}
ASSUME FormatAssumption ==
    /\ \A c \in Codecs : /\ c.data \in Nat \ {0} /\ c.parity \in Nat \ {0}
                         /\ c.family \in {"Classic", "Leopard"}
    /\ \A m \in Masks : m.len \in Nat /\ m.set \subseteq 0 .. m.len - 1

VARIABLES
    container,  \* which ReconstructShard implementation the array is made of
    codec,      \* the codec in use, for which the stripe is encoded
    shards,     \* the array: [present, len, right] of each shard
    workspace,  \* the prepared ReconstructWorkspace, or NoPlan
    pc,         \* "idle", or the stage of the executor
    run,        \* the call in progress: plan, input views, next output
    result,     \* what the last call returned
    before,     \* history: the array when the last call began, and its goal
    edits, calls

vars == <<container, codec, shards, workspace, pc, run, result, before, edits, calls>>

-----------------------------------------------------------------------------
(***************************************************************************)
(* Shapes and plans.                                                       *)
(***************************************************************************)
Total(c) == c.data + c.parity

\* The members of a set of shard indices in shard order.
Rank(S, i) == Cardinality({j \in S : j < i})
InOrder(S) == [k \in 1 .. Cardinality(S) |-> CHOOSE i \in S : Rank(S, i) = k - 1]

Members(s) == {s[k] : k \in DOMAIN s}

Present(sh) == {i \in Shards : sh[i].present}
Missing(sh) == Shards \ Present(sh)

\* validate_classic_shard_count
CountError(c) ==
    IF ShardCount < Total(c) THEN "TooFewShards"
    ELSE IF ShardCount > Total(c) THEN "TooManyShards"
    ELSE "Ok"

\* ClassicShardLengths::observe over the array, in shard order: the first
\* present length is the shard length, and the first misfit is reported.
FirstLength(sh) == IF Present(sh) = {} THEN 0 ELSE sh[Min(Present(sh))].len
ScanError(sh) ==
    LET bad == {i \in Present(sh) : sh[i].len = 0 \/ sh[i].len # FirstLength(sh)}
    IN IF bad = {} THEN "Ok"
       ELSE IF sh[Min(bad)].len = 0 THEN "EmptyShard" ELSE "IncorrectShardSize"

\* The survivors are collected inline up to the inline capacity; the rest is
\* read off the erasure list once the quorum is known.
ValidIndices(c, missing) ==
    LET inline == IF c.data < Inline THEN c.data ELSE Inline
        present == InOrder(Shards \ missing)
        head == SubSeq(present, 1, inline)
        start == IF head = <<>> THEN 0 ELSE head[Len(head)] + 1
        rest == InOrder({i \in Shards : i >= start /\ i \notin missing})
    IN head \o SubSeq(rest, 1, c.data - Len(head))

NoPlan == [codec |-> "none"]

MaskError(c, goal) ==
    IF goal.kind = "Required" /\ goal.mask.len \notin {c.data, Total(c)}
      THEN "InvalidShardFlags" ELSE "Ok"

Requested(goal, i) == goal.kind = "Required" => i \in goal.mask.set

\* fill_classic_reconstruct_plan: requested erasures, data before parity; an
\* inverse only if data is missing and something is to be computed; composed
\* parity rows for a selective request that also misses data.
PlanOf(c, sh, goal) ==
    LET missing == Missing(sh)
        missing_data == {i \in missing : i < c.data}
        data == {i \in missing_data : Requested(goal, i)}
        parity == {i \in missing \ missing_data : goal.kind # "Data" /\ Requested(goal, i)}
    IN [codec |-> c,
        shard_len |-> FirstLength(sh),
        valid_indices |-> IF missing = {} THEN <<>> ELSE ValidIndices(c, missing),
        invalid_indices |-> InOrder(missing),
        data_targets |-> InOrder(data),
        parity_targets |-> InOrder(parity),
        needs_inverse |-> missing_data # {} /\ data \cup parity # {},
        direct_parity |-> goal.kind = "Required" /\ missing_data # {} /\ parity # {}]

\* Planning fails before any destination is touched.
PlanError(c, sh, goal) ==
    LET p == PlanOf(c, sh, goal)
    IN IF Cardinality(Present(sh)) < c.data THEN "TooFewShardsPresent"
       ELSE IF p.needs_inverse
               /\ <<c.matrix, Members(p.valid_indices)>> \in Singular
         THEN "InvalidCustomMatrix" ELSE "Ok"

-----------------------------------------------------------------------------
(***************************************************************************)
(* Execution.                                                              *)
(***************************************************************************)

\* Mutant: the merge runs from the front and overwrites views still unread.
MergeForwards(inputs, data_targets) ==
    LET m[k \in 0 .. Len(inputs)] ==
          IF k = 0
            THEN [views |-> inputs, existing |-> 1, recovered |-> 1]
            ELSE LET s == m[k - 1]
                 IN IF s.recovered <= Len(data_targets) /\ data_targets[s.recovered] = k - 1
                      THEN [s EXCEPT !.views[k] = data_targets[s.recovered],
                                     !.recovered = @ + 1]
                      ELSE [s EXCEPT !.views[k] = s.views[s.existing], !.existing = @ + 1]
    IN m[Len(inputs)].views

\* use_recovered_data: the systematic input order, merged from the back over
\* the survivor views that are not read any more.
MergeStep(s, index, data_targets) ==
    IF s.recovered # 0 /\ data_targets[s.recovered] = index
      THEN [views |-> [s.views EXCEPT ![index + 1] = data_targets[s.recovered]],
            existing |-> s.existing, recovered |-> s.recovered - 1]
      ELSE [views |-> [s.views EXCEPT ![index + 1] = s.views[s.existing]],
            existing |-> s.existing - 1, recovered |-> s.recovered]
Merge(inputs, data_targets) ==
    LET n == Len(inputs)
        m[k \in 0 .. n] ==
          IF k = 0
            THEN [views |-> inputs, existing |-> n - Len(data_targets),
                  recovered |-> Len(data_targets)]
            ELSE MergeStep(m[k - 1], n - k, data_targets)
    IN m[n].views

\* Composed parity rows read the survivors, and so do the encoding rows when
\* no data was recovered: the survivors are then the data shards.
ParityInputs(plan) ==
    IF plan.direct_parity \/ plan.data_targets = <<>>
      THEN plan.valid_indices
      ELSE Merge(plan.valid_indices, plan.data_targets)

\* The input views that the row of `target` was derived for.
RowInputs(plan, target) ==
    IF target < plan.codec.data \/ plan.direct_parity
      THEN plan.valid_indices
      ELSE InOrder(0 .. plan.codec.data - 1)

ComputesRight(plan, sh, inputs, target) ==
    /\ plan.codec = codec
    /\ inputs = RowInputs(plan, target)
    /\ \A k \in DOMAIN inputs :
          sh[inputs[k]].right /\ sh[inputs[k]].len = plan.shard_len

Published(plan, sh, inputs, target) ==
    [present |-> TRUE, len |-> plan.shard_len,
     right |-> ComputesRight(plan, sh, inputs, target)]

\* get_or_initialize: a missing slot keeps its buffer and refuses another
\* length; a missing option has none and allocates.
Accepts(i, len) == container = "option" \/ shards[i].len = len

\* Both executors bind the survivor views in shard order before any output.
BindError(plan) ==
    LET bad == {i \in Members(plan.valid_indices) :
                  ~ shards[i].present \/ shards[i].len # plan.shard_len}
    IN IF bad = {} THEN "Ok"
       ELSE IF shards[Min(bad)].present THEN "IncorrectShardSize" ELSE "TooFewShardsPresent"

FirstError(errors) ==
    LET bad == {k \in DOMAIN errors : errors[k] # "Ok"}
    IN IF bad = {} THEN "Ok" ELSE errors[Min(bad)]

NoRun == [plan |-> NoPlan, inputs |-> <<>>, next |-> 0]

Call ==
    /\ pc = "idle"
    /\ calls < MaxCalls
    /\ calls' = calls + 1

Return(r) ==
    /\ pc' = "idle"
    /\ run' = NoRun
    /\ result' = r

HasOutputs(plan) == plan.data_targets # <<>> \/ plan.parity_targets # <<>>

\* execute_classic_plan_with, up to its first output.
ExecuteSerial(plan) ==
    /\ IF ~ HasOutputs(plan) THEN Return("Ok")
       ELSE IF BindError(plan) # "Ok" THEN Return(BindError(plan))
       ELSE /\ pc' = "data"
            /\ run' = [plan |-> plan, inputs |-> plan.valid_indices, next |-> 1]
            /\ result' = "none"
    /\ UNCHANGED shards

\* execute_classic_option_plan_bulk: destinations that cannot refuse, one
\* kernel call for all outputs of a stage.
FillAll(plan, sh, inputs, targets) ==
    [i \in Shards |-> IF i \in Members(targets)
                        THEN Published(plan, sh, inputs, i) ELSE sh[i]]
BulkOutputs(plan) ==
    FillAll(plan, FillAll(plan, shards, plan.valid_indices, plan.data_targets),
            ParityInputs(plan), plan.parity_targets)

ExecuteBulk(plan) ==
    IF ~ HasOutputs(plan) THEN Return("Ok") /\ UNCHANGED shards
    ELSE IF BindError(plan) # "Ok" THEN Return(BindError(plan)) /\ UNCHANGED shards
    ELSE Return("Ok") /\ shards' = BulkOutputs(plan)

\* Only option vectors have entry points that run the bulk executor.
Execute(executor, plan) ==
    \/ executor = "serial" /\ ExecuteSerial(plan)
    \/ executor = "bulk" /\ ExecuteBulk(plan)

\* with_classic_reconstruct_plan: validation and planning touch no destination.
WithPlan(goal, executor) ==
    /\ Call
    /\ codec.family = "Classic"
    /\ before' = [shards |-> shards, goal |-> goal]
    /\ LET invalid == FirstError(<<MaskError(codec, goal), CountError(codec), ScanError(shards)>>)
           planning == PlanError(codec, shards, goal)
       IN IF invalid # "Ok" THEN Return(invalid) /\ UNCHANGED shards
          ELSE IF Missing(shards) = {} THEN Return("Ok") /\ UNCHANGED shards
          ELSE IF planning # "Ok" THEN Return(planning) /\ UNCHANGED shards
          ELSE Execute(executor, PlanOf(codec, shards, goal))
    /\ UNCHANGED <<container, codec, workspace, edits>>

\* reconstruct, reconstruct_data and reconstruct_some.
Reconstruct(goal) == WithPlan(goal, "serial")

\* reconstruct_opt, reconstruct_data_opt and reconstruct_some_opt.
ReconstructOpt(goal) == container = "option" /\ WithPlan(goal, "bulk")

FamilyError == IF codec.family = "Classic" THEN "Ok" ELSE "UnsupportedCodecFamily"

\* prepare_reconstruct_workspace and its data-only and selective variants.
Prepare(goal) ==
    /\ Call
    /\ LET invalid == FirstError(<<MaskError(codec, goal), CountError(codec), FamilyError,
                                   ScanError(shards)>>)
           error == IF invalid # "Ok" THEN invalid ELSE PlanError(codec, shards, goal)
       IN IF error # "Ok"
            THEN result' = error /\ UNCHANGED workspace
            ELSE /\ workspace' = [goal |-> goal, plan |-> PlanOf(codec, shards, goal)]
                 /\ result' = "Ok"
    /\ before' = [shards |-> shards, goal |-> [kind |-> "None"]]
    /\ UNCHANGED <<container, codec, shards, pc, run, edits>>

\* The format comparison of validate_reconstruct_workspace: counts, then all.
FormatError(format) ==
    IF format.data < codec.data THEN "TooFewDataShards"
    ELSE IF format.data > codec.data THEN "TooManyDataShards"
    ELSE IF format.parity < codec.parity THEN "TooFewParityShards"
    ELSE IF format.parity > codec.parity THEN "TooManyParityShards"
    ELSE IF format # codec THEN "InvalidCustomMatrix"
    ELSE "Ok"

\* Mutant: a workspace is accepted whatever is missing now.
LayoutErrorLengthOnly(plan) ==
    FirstError(<<ScanError(shards),
                 IF FirstLength(shards) = plan.shard_len
                   THEN "Ok" ELSE "IncorrectShardSize">>)

\* validate_classic_plan_layout: every length, then pattern, then length.
LayoutError(plan) ==
    FirstError(<<ScanError(shards),
                 IF InOrder(Missing(shards)) = plan.invalid_indices
                   THEN "Ok" ELSE "InvalidShardFlags",
                 IF FirstLength(shards) = plan.shard_len
                   THEN "Ok" ELSE "IncorrectShardSize">>)

WorkspaceError(ws) ==
    FirstError(<<CountError(codec), FamilyError, FormatError(ws.plan.codec),
                 LayoutError(ws.plan)>>)

WithWorkspace(executor) ==
    /\ Call
    /\ workspace # NoPlan
    /\ before' = [shards |-> shards, goal |-> workspace.goal]
    /\ IF WorkspaceError(workspace) # "Ok"
         THEN Return(WorkspaceError(workspace)) /\ UNCHANGED shards
         ELSE Execute(executor, workspace.plan)
    /\ UNCHANGED <<container, codec, workspace, edits>>

\* reconstruct_with_workspace and its parallel variant: no planning.
ReconstructWithWorkspace == WithWorkspace("serial")

\* reconstruct_opt_with_workspace and its parallel variant.
ReconstructOptWithWorkspace == container = "option" /\ WithWorkspace("bulk")

\* Mutant: the destinations of a stage are visited from the last.
OutputReversed(targets) ==
    LET i == targets[Len(targets) + 1 - run.next]
    IN IF ~ Accepts(i, run.plan.shard_len)
         THEN Return("IncorrectShardSize") /\ UNCHANGED shards
         ELSE /\ shards' = [shards EXCEPT ![i] = Published(run.plan, shards, run.inputs, i)]
              /\ run' = [run EXCEPT !.next = @ + 1]
              /\ UNCHANGED <<pc, result>>

\* reconstruct_classic_output: one output of the running stage is initialised
\* and computed before the next is touched; a refusal ends the call.
Output(targets) ==
    LET i == targets[run.next]
    IN IF ~ Accepts(i, run.plan.shard_len)
         THEN Return("IncorrectShardSize") /\ UNCHANGED shards
         ELSE /\ shards' = [shards EXCEPT ![i] = Published(run.plan, shards, run.inputs, i)]
              /\ run' = [run EXCEPT !.next = @ + 1]
              /\ UNCHANGED <<pc, result>>

DataOutput ==
    /\ pc = "data"
    /\ run.next <= Len(run.plan.data_targets)
    /\ Output(run.plan.data_targets)
    /\ UNCHANGED <<container, codec, workspace, before, edits, calls>>

\* Between the stages the recovered data joins the input views.
DataDone ==
    /\ pc = "data"
    /\ run.next > Len(run.plan.data_targets)
    /\ IF run.plan.parity_targets = <<>> THEN Return("Ok")
       ELSE /\ pc' = "parity"
            /\ run' = [run EXCEPT !.next = 1, !.inputs = ParityInputs(run.plan)]
            /\ UNCHANGED result
    /\ UNCHANGED <<container, codec, shards, workspace, before, edits, calls>>

ParityOutput ==
    /\ pc = "parity"
    /\ run.next <= Len(run.plan.parity_targets)
    /\ Output(run.plan.parity_targets)
    /\ UNCHANGED <<container, codec, workspace, before, edits, calls>>

ParityDone ==
    /\ pc = "parity"
    /\ run.next > Len(run.plan.parity_targets)
    /\ Return("Ok")
    /\ UNCHANGED <<container, codec, shards, workspace, before, edits, calls>>

-----------------------------------------------------------------------------
(***************************************************************************)
(* The caller, between calls.  A shard of length len holds the first len   *)
(* elements of its row of the stripe, so cutting one keeps it right.       *)
(***************************************************************************)
Edit(sh, c) ==
    /\ pc = "idle"
    /\ edits < MaxEdits
    /\ edits' = edits + 1
    /\ shards' = sh
    /\ codec' = c
    /\ result' = "none"
    /\ before' = [shards |-> sh, goal |-> [kind |-> "None"]]
    /\ UNCHANGED <<container, workspace, pc, run, calls>>

Lost(s) == [present |-> FALSE, len |-> IF container = "option" THEN 0 ELSE s.len,
            right |-> FALSE]

\* mark_missing, or an option set to None.
Lose(i) == shards[i].present /\ Edit([shards EXCEPT ![i] = Lost(@)], codec)

\* The shard arrives from elsewhere.
Whole == [present |-> TRUE, len |-> StripeLen, right |-> TRUE]
Receive(i) == ~ shards[i].present /\ Edit([shards EXCEPT ![i] = Whole], codec)

\* The buffer behind a shard is replaced by one of another length.
Resize(i, len) ==
    /\ shards[i].len # len
    /\ shards[i].present \/ container = "slot"
    /\ Edit([shards EXCEPT ![i].len = len], codec)

\* The array now holds the same data encoded by another codec.
Reencode(c) == c # codec /\ Edit(shards, c)

Init ==
    /\ container \in Containers
    /\ codec \in Codecs
    /\ \E missing \in SUBSET Shards :
          shards = [i \in Shards |-> IF i \in missing THEN Lost(Whole) ELSE Whole]
    /\ workspace = NoPlan
    /\ pc = "idle" /\ run = NoRun /\ result = "none"
    /\ before = [shards |-> shards, goal |-> [kind |-> "None"]]
    /\ edits = 0 /\ calls = 0

Caller ==
    \/ \E i \in Shards : Lose(i)
    \/ \E i \in Shards : Receive(i)
    \/ \E i \in Shards, len \in Lengths : Resize(i, len)
    \/ \E c \in Codecs : Reencode(c)

Next ==
    \/ \E goal \in Goals : Reconstruct(goal)
    \/ \E goal \in Goals : ReconstructOpt(goal)
    \/ \E goal \in Goals : Prepare(goal)
    \/ ReconstructWithWorkspace
    \/ ReconstructOptWithWorkspace
    \/ DataOutput
    \/ DataDone
    \/ ParityOutput
    \/ ParityDone
    \/ Caller

Spec == Init /\ [][Next]_vars

-----------------------------------------------------------------------------
(***************************************************************************)
(* Properties.                                                             *)
(***************************************************************************)
ShardStates == [present : BOOLEAN, len : Lengths \cup {0}, right : BOOLEAN]

\* The type invariant.
TypeOK ==
    /\ container \in Containers
    /\ codec \in Codecs
    /\ shards \in [Shards -> ShardStates]
    /\ workspace = NoPlan \/ (workspace.goal \in Goals /\ workspace.plan.codec \in Codecs)
    /\ pc \in {"idle", "data", "parity"}
    /\ before.shards \in [Shards -> ShardStates]
    /\ edits \in 0 .. MaxEdits
    /\ calls \in 0 .. MaxCalls

\* No shard is ever marked present while its bytes are not those of the
\* stripe: not between two outputs of the executor, not after a destination
\* refused, and not when a workspace outlived the layout it was prepared for
\* (execute_classic_plan_with: "a later error never leaves an earlier
\* destination marked present with stale bytes").
PresentIsRight == \A i \in Shards : shards[i].present => shards[i].right

\* The shards a call on `sh` is asked for, from the request alone.
Wanted(c, sh, goal) ==
    {i \in Missing(sh) : CASE goal.kind = "All" -> TRUE
                           [] goal.kind = "Data" -> i < c.data
                           [] goal.kind = "Required" -> i \in goal.mask.set
                           [] OTHER -> FALSE}

Restored(i) == shards[i] = [present |-> TRUE, len |-> FirstLength(before.shards), right |-> TRUE]

\* A call that succeeds has restored every missing shard it was asked for and
\* no other, whether planned afresh or from a workspace, by either executor.
\* The plan that runs is the one of the array it runs on: its survivors are
\* the first data-count present shards, in order, also when the inline index
\* buffer was too short for them, and its outputs are the wanted shards.
OkRestoresTheWanted ==
    /\ result = "Ok" =>
         \A i \in Shards : IF i \in Wanted(codec, before.shards, before.goal)
                             THEN Restored(i)
                             ELSE shards[i] = before.shards[i]
    /\ pc # "idle" =>
         /\ run.plan.codec = codec
         /\ run.plan.valid_indices = SubSeq(InOrder(Present(before.shards)), 1, codec.data)
         /\ run.plan.data_targets \o run.plan.parity_targets
              = InOrder(Wanted(codec, before.shards, before.goal))

\* A call that fails has restored exactly the wanted shards below the first
\* destination that refused the shard length; when nothing refused (every
\* validation and planning error) it has touched nothing.
FailureRestoresAPrefix ==
    result \notin {"none", "Ok"} =>
      LET wanted == Wanted(codec, before.shards, before.goal)
          done == {i \in Shards : shards[i] # before.shards[i]}
      IN /\ done \subseteq wanted
         /\ \A i \in done : Restored(i)
         /\ done # {} => \E i \in wanted \ done :
                            /\ before.shards[i].len # FirstLength(before.shards)
                            /\ done = {j \in wanted : j < i}

=============================================================================
