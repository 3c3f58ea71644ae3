# Verification of rustfs-erasure-codec

TLA+ models of the erasure codec, the TLC runs that check them on small
instances, and TLAPS proofs of the results that hold for every instance. Paths
such as `core/reconstruct.rs` are relative to `src/src/`.

## 1. The system

The crate turns `data` shards into `data + parity` shards and recovers missing
ones. A codec (`ReedSolomon<F>`) is immutable after construction and shared by
threads; what changes is the caller's shard array, caller-owned workspaces, the
inverse-matrix cache behind a mutex, thread-local caches of FFT resources, and
relaxed counters.

| component | state | operations | hard behaviour |
|---|---|---|---|
| Inverse-matrix cache (`core/inversion_cache.rs`, `get_data_decode_matrix`) | LRU list, byte charge, counters | lookup, build outside the mutex, insert with eviction | two threads miss one key; a key that omits some erasures; two budgets at their limit |
| Classic planning (`core/recovery_plan.rs`) | plan: survivors, targets, rows | validate, select survivors, select targets, rows | survivors that overflow the inline buffer; selective requests; error order |
| Classic execution (`core/reconstruct.rs`) | shard array | serial and bulk executors | a destination that refuses half-way; in-place merge of the recovered data |
| Workspaces (`core/workspace.rs`) | prepared plan | prepare, reconstruct with | the array or the codec changed since |
| Progressive recovery (`galois_8/policy.rs`, `decode_idx`) | partial sums | contribute, merge | XOR is its own inverse: rejected calls and retries |
| Leopard reconstruction (`core/reconstruct.rs`, `core/reconstruct/packed.rs`) | staging, options | validate, decode, publish, roll back | errors and unwinds between publication steps |
| Leopard caches (`core/leopard_cache.rs`) | two entries per thread | take, insert | nested users of one key |
| Encoding, update, verify (`core/encode.rs`, `core/verify.rs`) | parity | overwrite then add, deltas | chunking, alignment, stale buffers |
| ShardByShard (`core/shard_by_shard.rs`) | `cur_input` | encode, encode_sep, reset, reset_force | rejected calls in a batch |
| Streaming (`core/stream.rs`) | block buffers, streams | encode, verify, reconstruct | short and interrupted reads, partial failure, parallel I/O |
| Matrix algebra (`matrix.rs`, `core/codec.rs`) | - | build, invert | singular patterns, three build paths, two eliminations |
| Construction, options, formats, families (`core/codec.rs`, `core/leopard.rs`, `core/format.rs`) | codec fields | new, with_options, with_custom_matrix, split, join, stable_id_bytes | limits and normalisation |
| Fields, slice kernels, back ends (`galois_8`, `galois_16.rs`, `build.rs`) | the chosen back end, two verdicts, each set once | multiply slices, row products, generated encoders | tails, register layouts; a variable that changes between two once-only reads |
| Leopard FFT codecs (`core/leopard_gf8`, `core/leopard_gf16`) | work lanes, plans, locator tables | encode, reconstruct, kernels | dirty lanes, truncated transforms, padding, parallel chunks |
| Parallel policy (`core/parallel.rs`, `core/cache_detect.rs`, `galois_8/policy.rs`) | thresholds | resolve, decide, split, run | boundary arithmetic, overrides that meet |
| Profile counters (`core/metrics.rs` and two more banks) | relaxed atomics | record, snapshot, reset | none of it atomic as a whole |
| Owned processes (`xtask/src/diagnostics/owned*`, `plan_bench/run.rs`) | a process group | spawn, poll, signal, stop | forks and exits between system calls, two deadlines |
| Plan-bench campaigns (`xtask/src/plan_bench`, `artifact/snapshot.rs`) | files, a digest chain, the clock | install, execute, receipt, verify, replay | crashes, other writers, time running out |
| Release sampling and campaigns (`scripts/release-sampling`, `xtask/src/sampling_contract*`, `control/*`) | workers, records, manifests, published files | calibrate, measure, replay, approve, publish | migrating threads, drift, failing writes |
| Regression gate and ABBA report (`xtask/src/regression.rs`, `benchmark_contract.rs`, `abba.rs`) | rows, two reports | normalise, compare, write | spellings, duplicates, stale reports |

Calls go down: the public entry points plan, ask the cache for an inverse,
execute with coefficient rows and publish into the caller's array; streams keep
one plan for all blocks. The tools run the library in worker processes and judge
what those print. `PROJECT.json` lists every component with its status, and the
hazards found in the code at the line where they bite.

What makes each component correct, in one line each: the inverse cache is
invisible but for its cost and never exceeds its budgets; a reconstruction marks
a shard present only with the stripe's bytes, a success has all that was asked
for, a failure leaves what was missing missing (but for a published prefix of
right shards); a progressive sum holds each accepted contribution once; parity
is the sum of what was put into it, and a verdict is about the array it was
given; a stream's writers hold a right prefix and errors name a shard at fault;
a schedule covers every output element once; a cached resource has one user,
fits its user and its budget; every kernel computes the field; every shape a
family can hold is accepted and any `data` shards recover the rest; a supervisor
returns and leaves nobody behind; an accepted measurement was made as it claims,
and a refused one had a cause.

## 2. Modules

Each module models one component. Components meet through calls that return
before the next one starts, so a module models the callee by what it promises,
and names in its header what that is; the callee's own module checks the
promise. What `ClassicReconstruct` takes from a matrix (independent rows recover
the stripe) is `DecodeIsInverse`; what `LeopardReconstruct` takes from the FFT
decoder is `LeopardIsTheCode`; what the codecs take from a kernel is
`ArithmeticIsTheFields`. The composition with an abstract specification of its
own is `InversionCache` => `DecodeService`; `ParallelSchedule` extends
`ParallelPolicy` (a call is decided by a policy resolved from a setup),
`CodecConstruct` extends `ClassicMatrix` and `GaloisField`, `LeopardFftCodec`
extends `LeopardTransform` and `LeopardField`, and `SamplingRun` and
`ReleaseCampaign` extend `SamplingWorker` and with it `SamplingContract`.

| module | models | run |
|---|---|---|
| `InversionCache` | the shared inverse cache, its mutex and counters | `inversion_cache` |
| `DecodeService` | what a codec without a cache promises | property of `inversion_cache` |
| `InversionCacheProofs` | theorems about the two | TLAPS |
| `ClassicReconstruct` | planning, both executors, workspaces | `codecs` |
| `ProgressiveDecode` | `decode_idx` and its merge mode | `codecs` |
| `ClassicReconstructProofs` | theorems about the two | TLAPS |
| `StreamCodec` | the four streaming calls | `stream_codec`, `stream_lowest_writer` |
| `StreamCodecProofs` | theorems about them | TLAPS |
| `ShardEncode` | encode, update, single-shard, shard-by-shard, verify | `shard_encode`, `verify_workspace` |
| `ParallelPolicy` | where a policy's numbers come from | `shard_encode` |
| `ParallelSchedule` | policy decisions, splitting, running of the tasks | `shard_encode` |
| `ShardEncodeProofs` | theorems about `ShardEncode` and `ParallelSchedule` | TLAPS |
| `MetricRecordings`, `RuntimeMetrics` | the three banks of profile counters; recording, snapshot, reset | `shard_encode` |
| `LeopardReconstruct` | staged and direct Leopard reconstruction | `leopard_reconstruct` |
| `LeopardThreadCaches` | the thread-local plans and buffers | `leopard_reconstruct` |
| `DecodePlanCache` | the process-wide decode-plan cache | `leopard_reconstruct` |
| `LeopardReconstructProofs` | theorems about the three | TLAPS |
| `LeopardField`, `LeopardTransform` | tables, schedules, butterflies, transforms, locators | `codecs` |
| `LeopardFftCodec` | both families' encoders and decoders | `codecs` |
| `LeopardKernels` | the vector kernels beneath them, register by register | `codecs` |
| `GaloisField`, `ClassicMatrix` | tables, both fields; matrices and elimination | `algebra`, `prefer_leopard` |
| `CodecConstruct` | construction, options, lengths, split, join, format identity | `algebra`, `prefer_leopard` |
| `SliceKernels` | slice kernels, row kernels, generated encoders, back-end choice | `algebra` |
| `AlgebraProofs` | theorems about split and join, and about the choice | TLAPS |
| `OwnedProcess` | the supervisor of a process group | `owned_process` |
| `PlanCampaign` | functional benchmark campaigns | `plan_campaign` |
| `PlanCampaignProofs` | theorems about `OwnedProcess` and `PlanCampaign` | TLAPS |
| `SamplingContract`, `SamplingWorker` | the sampler's contracts and records | `release_tools` |
| `SamplingRun`, `ReleaseCampaign` | one case's workers; the whole campaign and its publication | `release_tools` |
| `RegressionGate`, `AbbaReport` | the gates over the measured rows | `release_tools` |
| `ReleaseToolsProofs` | theorems about the publication, the regression gates and the ABBA report | TLAPS |

Some `MC*.tla` hold several machines: a variable (`subject`, or `tool`) says
which of them a behaviour is about, its steps are that machine's, and the
variables of the others stay as they are. So one run checks modules that belong
together without multiplying their states, and none of them is restricted by
its company. `MCCodecs` puts the Leopard codecs beside
`MCClassicReconstruct` in this way, so each of its behaviours is also one of the
specification the theorems about the matrix codecs are about. `MCPlanCampaign`
has two specifications instead, the campaign and
the supervisor of its workers, and each of its configurations runs one of them
alone. A definition whose comment says "mutant" is a plausible error in
the code at that place; no specification uses it. `PROJECT.json` pairs each
property with one that must violate it. `TypeOK` states the types of a module's
variables; a run checks it where it says more than that (a counter that must not
underflow).

### InversionCache and DecodeService

State: `entries` is the `hashlink::LruCache`, least recently used first, each
entry with its key, the inverse and the charge; `retained_bytes` and `metrics`
are the fields of the code; `lock` is the mutex while `insert` runs; `pc`, `req`
and `answer` are a thread's place in `get_data_decode_matrix`, its arguments and
its result. A matrix is represented by the survivor rows it inverts.

Actions: `RejectCount` and `Request` (the two callers' argument handling and the
key), `Hit` and `Miss` (one critical section each), `Build` (no lock held, and
fails on singular rows), then the second critical section step by step:
`RefuseInsert`, or `BeginInsert` (a listed entry of the same key is removed and
its charge given back), `Evict` once per turn of the loop, `FinishInsert`. The
LRU list and its eviction are external (`hashlink`).

`DecodeService` has calls and responses only. The refinement maps a thread in
any state but idle to a pending call.

### ClassicReconstruct

A shard is present or not, has a length, and holds right or other bytes; a row
of a plan is the set of inputs it reads. `PlanError` follows the order of the
code's checks; `PlanOf` selects survivors with the inline buffer and its spill,
the targets and the rows. The
serial executor publishes one destination per step and may be refused; the bulk
executor of option vectors recovers data, merges it into the survivor views from
the back and computes parity. Workspaces carry a plan over to later calls;
between calls the caller loses, restores and resizes shards.

### ProgressiveDecode

A partial sum is the set of inputs XORed into it, so a contribution applied
twice is gone. `Contribute` and `Merge` follow `decode_idx` with every rejection,
`Break` and `Repair` are callers that pass a misfit and try again. A batch may be
empty; the length is then that of the first destination.

### StreamCodec

One call at a time, over two blocks: prepare (argument checks in order), read a
block by per-stream reads that deliver any part, are interrupted or fail, check
lengths, pad, compute, write, next block. Serial I/O goes stream by stream;
parallel I/O interleaves streams, and stops starting new ones after an error, as
rayon's `try_for_each` does. A byte is known by the stream and offset it came
from; one left over in a buffer is told apart from zero padding.

### ShardEncode

A parity shard is, per element, the multiset of (shard, content) terms that were
added up in it; overwriting replaces it, adding the same term twice cancels. One
action per public operation: `encode`, `encode_single`, `encode_single_sep`,
`update` with its delta in chunks, `ShardByShard`'s operations, and the forms of
`verify`.

### ParallelPolicy and ParallelSchedule

A setup is an environment, the option `max_parallel_jobs`, the field, the target
and what the operating system says of the second-level cache. `ParallelPolicy`
resolves it: defaults, detected cache, `RS_*` variables, options, and for bytes
the policies of the reconstruction stages with the aarch64 overrides. Numbers
are clamped at `UsizeMax` as the code's saturating operations clamp them.

`ParallelSchedule` decides for a call (serial entry, threshold, job count, cache
and alignment rounding), cuts the outputs in one of the three ways of the code,
and runs the tasks in any order on at most as many threads as there are jobs.

### MetricRecordings and RuntimeMetrics

`MetricRecordings` has the fields of the banks and what each recording function
adds to them. In `RuntimeMetrics`, `counters` is one bank of atomics. A
recording adds to its counters one at a time, a snapshot loads them and a reset
clears them one at a time; `ledger` is what was really recorded. The accesses
are relaxed, so nothing relates two counters while somebody is busy: the
properties are stated per counter, and a behaviour that takes snapshots follows
two of them.

### LeopardReconstruct

`Call` validates; `BindStaged` or `BindDirect` collects inputs and outputs;
`DecodeChunk`, `DecodeEnd` and `DecodeFails` are the FFT decoder seen from
outside (external arithmetic: a quorum of pieces of one stripe gives pieces of
that stripe); `Publish` goes on one destination at a time. `ChangeOfMind` is a
user-defined container that answers differently when it is bound than when it
was validated, a case that `packed.rs` names and provides overflow storage for.
A decoder error and an unwind have the same effect here and are one action.

### LeopardThreadCaches and DecodePlanCache

`stack` holds the operations in progress on one thread; one is nested in another
when a shard type's `AsRef` calls the codec. Encoding checks plan and buffers
out of two `TwoEntryCache`s, the GF(2^16) decoder checks its workspace out of
one slot, the GF(2^8) decoder keeps its cache borrowed while it runs. `Unwind`
drops the innermost operation. `Growth` is scratch that grew while checked out.

`DecodePlanCache` is shared by the process: lookup and insertion are one
critical section each, building happens between them.

### Leopard codecs and kernels

`LeopardField` builds the log, exp, skew, Walsh and multiplication tables of the
codecs for a field of 16 elements; a reference product is computed apart from
the polynomial. `LeopardTransform` has the transform schedules with their
truncation, the butterflies in their pairwise and radix-4 forms, the error
locators and the formal derivative. `LeopardFftCodec` makes calls of them: the
drivers' checks, the chunks of a shard, work lanes with whatever the last call
left in them, the wire layout of GF16, chunk groups for parallel workers and the
cache of affine matrices. `LeopardKernels` takes the vector kernels apart into
loads, shuffles, products and stores.

### Fields, matrices, construction and slice kernels

`GaloisField` generates the tables of `build.rs` and the tower field over them.
`ClassicMatrix` has the five encoding matrices, both Gaussian eliminations and
the three paths to a decode matrix. `CodecConstruct` makes a codec from options
or a custom matrix with the checks in order, and uses it: decode matrices of
every selection, split and join, aligned lengths, and a format that is kept and
held against another codec's. `SliceKernels` is a process that chooses its back
end once, and two verdicts about generated and parallel encoders once each,
while the environment may be rewritten; every kernel, tail and layout is an
operator compared with the field.

### The tools

`OwnedProcess` interleaves the supervisor's system calls with a group whose
members fork, exit, ignore SIGTERM and are reaped by others; process identifiers
are reused after reaping, and on Darwin a signal may be refused. A signal that
`kill` sends is pending: who is struck is dying, runs nothing of its own any more
and is gone at some later step, perhaps after the supervisor has returned, since
it waits for the leader only (`owned.rs:157`). `PlanCampaign`
has a clock, a controller that may crash between two steps and another writer; a
file is absent, own or foreign. Bytes are known by who wrote them, so the model
takes as right that a stage loads the capsule of its own side (`capture` pins A
and B once, before the first stage). `SamplingContract` is functions of records;
`SamplingWorker` says what a worker prints; `SamplingRun` runs the workers of a
case through calibration, measurement and replay while threads migrate, buffers
move and processes die; `ReleaseCampaign` runs the phases of a whole campaign,
captures its paired layout, seals and replays its manifest against the journal of
the workers that were started, and publishes, again if need be, under failing
writes: a write that fails leaves its file as it was or truncated, and the report
of a failure is a write like the others. `AbbaReport`'s second file may fail too.
`RegressionGate` and `AbbaReport` judge artifacts that were edited. Strings,
digests and paths are abstracted to who wrote them and what they name.

## 3. Runs

Bounds are the constants named `Max*`, `Depth`, and the sizes of the sets in the
configurations.

- **inversion_cache**: two threads, three calls, five shards of which two are
  data, every set of survivors, one singular, budgets of two entries and six
  bytes. Races need two threads; the third call meets what the first two left.
  Keys charge 0 to 6 bytes, so both budgets bind, and one key is refused.
  `ListIntact` is the accounting, both budgets, the eviction candidate and one
  entry per key; `MetricsConsistent` that the counters add up;
  `CacheIsTransparent` the refinement (a caller gets its own inverse);
  `CallsReturn` that every call returns.
- **codecs** (940 thousand states). The matrix codecs: a five-shard array under four
  formats (two shapes, a matrix with a singular survivor set, a Leopard codec),
  two slots of inline room, two calls and two edits: enough for a workspace to be
  prepared, made stale in each of the ways it checks, and used. And
  `decode_idx` on a 3+2 codec with two workers, four batches, one of them empty, in
  six calls and two wrong masks: each accepted contribution is held once.
  The Leopard codecs (17 thousand of the states): every shape of the instance, up to
  the whole field of 16, all erasure patterns of the small ones, chunk and block sizes
  scaled so that shards have one chunk, several and a tail. The kernels: ten
  machines, four bytes for sixteen, lengths below, at and above each width,
  one-hot and dense inputs (a kernel is linear in each input, so the one-hot ones
  determine it).
- **stream_codec**: two data and two parity streams of 0, 3 or 4 bytes in blocks
  of two, a stream that fails at its third byte, one interruption. Two blocks
  are enough because a block's buffers carry over to the next one only.
- **shard_encode** (1.5 million states). `ShardEncode`: two data shards of three
  elements in chunks of two, a short last chunk, a changed element behind an
  unchanged one; a matrix, a single-parity and a Leopard codec; workspaces of
  other shapes; no bound on the calls, the state space is finite.
  `ParallelSchedule`: six setups (defaults, each kind of override, an option that
  meets a variable, detected and undetected caches), lengths around every
  rounding step, byte constants scaled down in order (1024 is 2, `usize::MAX`
  31). `RuntimeMetrics`: two recorders, one reset, one snapshot, two for the NEON
  bank, whose difference is reported.
- **leopard_reconstruct** (2.4 million). The array: 2+2 shards and arrays of one
  too few and one too many; eight bytes of inline scratch, so the lengths 2, 4 and
  6 take the small, the packed and the heap layout; two calls, two edits. The
  thread caches: nesting depth two; an operation touches the
  caches when it begins and when it ends, and any sequence of inner operations
  may run in between, so a third level adds no new order. Budgets of five hold
  two small resources until one grows. The plan cache: three symmetric threads,
  five requests, two entries, four bytes. `OwnResources` is that a resource has
  one user, of its own shape; `CachesBounded` the budgets.
- **algebra** (394 thousand): a field of 16 and its tower of 256; shapes 0..4 x
  0..3 and the ones around each family's limits; custom matrices over {0, 1, 7} with singular ones;
  a word of 127; two elements for a 128-bit register; seven machines, six values
  of the override and one rewrite of it; lengths 0 to 33. Formats of two shapes
  are held against every codec of those shapes, under a byte field and under
  user fields whose hooks agree, disagree or are absent.
- **owned_process** (803 thousand): a leader and two workers; one worker can hide
  behind another, which is what the double listing on Darwin is for. Each process
  is running, dying of a signal, a zombie or gone.
- **plan_campaign** (1.9 million): two members, two stages, budgets of one and two
  ticks, a clock of three, one foreign write: one write between two reads is
  enough to make files that were never together.
- **release_tools** (415 thousand): one warmup and five samples for three and
  nine, three batches, growth as in the code; a latency and a throughput case;
  one upset or two edits per behaviour: the properties speak about the
  smallest disturbance that must not pass, and two edits can hide each other. A
  benchmark gate is given any two of its five options (`MaxOptions`).
  Beside the upset one write may fail (`MaxFailures`); without an upset two may,
  which is what it takes for a publication to fail and its report as well. A
  single case is measured at paces of 35, 100 and 150 percent: two observations
  may be off the pace when nothing else happens (`MaxPaces`), since a lone outlier
  never widens the spread, and the lowest pace leaves a window below the minimum.
- **stream_lowest_writer**, **prefer_leopard**, **verify_workspace**: section 4.

Threads are symmetric in the plan cache of `leopard_reconstruct`, which checks no
liveness property. Deadlock is checked where the system can always go on; the
configurations with bounded calls and single streaming calls switch it off,
since those really end.

Fairness. `CallsReturn` assumes weak fairness of each thread's step inside a
call: the operating system schedules threads, and the mutex is held for finitely
many steps. No thread is assumed to call. `StreamReturns` assumes weak fairness
of the call's next step: it runs on the caller's thread and rayon's pool, and
readers and writers answer; interruptions are finitely many. `SupervisorReturns`
assumes that the supervisor keeps taking steps, that time passes, and strong
fairness of noticing a passed deadline: every turn of its loop reads the clock,
and what the group does in between cannot keep it from that. Nothing is assumed
of the workers. `CaptureEnds` assumes that the controller takes steps, that the
clock runs and that a wait with a deadline ends; workers need not end.

## 4. Where text and code disagree

Three runs are expected to violate a sentence of the repository.

- `stream_lowest_writer`: when several writers fail, `core/stream.rs` promises
  the lowest index whatever the scheduling. The iterator stops starting writers
  after an error, so a lower one may not have been tried.
- `prefer_leopard`: `PreferLeopard` is documented as a Leopard codec "whenever
  possible". The choice of the family looks at the counts, not at whether the
  padded shape fits, so shapes that GF16 can hold are refused under GF8.
- `verify_workspace`: `core/verify.rs:122` promises that invalid lengths are
  rejected before a workspace is resized. That a Leopard shard has a multiple of
  64 bytes is checked after the workspace was prepared (`core/verify.rs:109`,
  `:152`). Verdicts are not affected: each call prepares the workspace anew, and
  `VerdictRight` holds with the claim restricted to matrix codecs.

Two more were met while modelling and are in the models without a run of
their own:

- `decode_idx` answers `TooFewShardsPresent` to a mask that expects more shards
  than needed (`galois_8/policy.rs:626`); `errors.rs:52` describes the error as
  fewer shards than required. A regression test pins the behaviour.
- `core/options.rs:129` calls `max_parallel_jobs` the maximum for encode and
  decode. On aarch64 `RS_AARCH64_RECONSTRUCT_MAX_JOBS` replaces it for the data
  stage (`docs/aarch64-simd-design.md:67` documents the variable), with 0 for no limit, and the parity stage does not use it
  (`galois_8/policy.rs:753`). `CodedOnce` takes the bound that was asked for in
  the last place the code looks.

## 5. Proofs

TLC checks instances; the theorems hold for every value of the constants that
the named assumptions admit. A proof module extends one component, or the `MC`
module that runs several machines side by side: the theorems about those are
about its specification, `MCSpec`, and every value of its constants. The
inductive invariants were checked by TLC as invariants of the component's run
before they were proved.

| module | proved | from |
|---|---|---|
| `InversionCacheProofs` | `TypeCorrect`, `AccountingExact`, `BudgetHolds`, `EvictionNeverPanics`, `KeysUnique`, `ListStaysIntact` (`ListIntact`), `AnswersCorrect`, `MetricsAgree` (`MetricsConsistent`), `KeyDeterminesSurvivors`, `CacheTransparent` (implements `DecodeService`) | `CodecAssumption`, `CacheAssumption` |
| `ClassicReconstructProofs` | `TypeCorrect`, `PresentAreRight`, `SuccessRestoresTheWanted`, `FailureLeavesAPrefix`, `HoldsEachTermOnce` (`HoldsWhatWasAccepted`) | `BoundsAssumption`, `FormatAssumption`, `ProgressiveAssumption` |
| `LeopardReconstructProofs` | `TypeCorrect`, `PresentAreRight`, `RestoresAllOrNothing`, `ResourcesAreOwn` (`OwnResources`), `CachesStayBounded` (`CachesBounded`) | `LeopardAssumption`, `ThreadAssumption`, `GlobalAssumption` |
| `ShardEncodeProofs` | `TypeCorrect`, `ParityStaysFolded`, `VerdictsAreRight`, `ElementsAreCodedOnce` (`CodedOnce`) | `ShardEncodeAssumption`, `ScheduleAssumption` |
| `StreamCodecProofs` | `TypeCorrect`, `OutputsAreRight`, `SuccessIsComplete`, `ErrorsNameTheFault` | `StreamAssumption` |
| `AlgebraProofs` | `SplitsJoin` (`SplitJoinRoundTrip`), `OverridesAreHonoured` (`OverrideHonoured`) | `ConstructAssumption`, `KernelAssumption` |
| `PlanCampaignProofs` | `TypeCorrect`, `AcceptedCampaignsRanAsPlanned` (`AcceptedRanAsPlanned`), `JudgedTogether` (`JudgedAtOneMoment`) | `BudgetAssumption`, `CapsuleAssumption`, `StagesAssumption` |
| | `OwnedTypeCorrect`, `ReapedGroupIsGone` (`ReapedMeansGone`), `SignalsOwnGroupOnly` (`OwnGroupSignalled`), `AcceptedExitsAreOwn` (`AcceptedExitIsOwn`), `ReapingIsFinal` (an action property) | nothing: any workers and bounds |
| `ReleaseToolsProofs` | `PublishesTogether` (`PublishedTogether`), `AttributionsAreEarned` (`AttributionEarned`), `GatesCompareAlike` (`PassedMeansComparable`) | `CampaignAssumption`, `AbbaAssumption`, `GateAssumption` |

The assumptions are the ones the code makes: at least one data and one parity
shard, positive block, chunk and stripe lengths, Leopard lengths that are
multiples of the family's unit, masks that name indices below their length, capsules
with a binary and a manifest, positive budgets, at least one stage, positive chunk
constants and alignment, environment values that are integers, payloads of at most
half the word (a slice has at most `isize::MAX` bytes), builds that contain only
their architecture's back ends, NEON on every aarch64 that was built for it, a
campaign's profiles in a sequence, mean durations that are natural numbers and measured
paces that are positive ones. Sets of
threads, budgets (zero included), charges, shard counts, inline capacities,
numbers of calls and edits are otherwise arbitrary. Three are about the model:
the threads are finitely many (counters are compared with sums over them), a
shard can have two contents (otherwise a changed shard is no change), and some
stream length is the longest and positive (`LongestStream` is a maximum).

All proofs have one shape: an invariant `IInv` that is stronger than what is
claimed, one lemma per action that preserves it, and for each claim a step from
`IInv` to it. What each `IInv` adds is the argument.

**InversionCache.** The named invariants need each other and are proved
together. Added are a ledger (a partial-sum function over the list that ends in
`retained_bytes`, so that removing and appending an entry are lemmas about one
function); `CriticalSection` (exactly one thread is inside an insertion when the
lock is held, and its key is not listed); `ActiveRequests` (a thread inside a
call has the key and survivors of its own arguments); `CachedInverses` (a listed
entry inverts the survivors that some request with that key has). A hit returns
the caller's inverse by `KeyDeterminesSurvivors`: of two survivor sets with
equal keys one contains the other, both have `DataShards` members, so they are
equal. `MetricsAgree` adds what an unfinished insertion has counted and not yet
listed, or taken out and not yet counted. For the refinement each action is a
call, a response with the right inverse, or a stutter.

**ClassicReconstruct.** `Rank` and `InOrder` lemmas give the members of a set of
indices in order, without recursion. From them: `ValidIndices` is the first
`data` survivors whatever the inline capacity, because what spilled is exactly
what comes after the buffer; targets are the wanted shards; the backward merge
of recovered data into the survivor views (the loop is followed position by
position) yields data shards `0 .. data - 1` in order, which is what parity rows
read. While a call runs its plan is the plan of the array it began with, and the
array is that one with the first `m` wanted shards restored, `m` being the
executor's position. A plan depends only on which shards are missing and on the
length, so a workspace that passes `validate_classic_plan_layout` has the plan
of the array it is used on even if it was prepared for another one.

**ProgressiveDecode.** A destination is the set of terms in its sum, so a term added
twice is a term lost. Batches have no survivor in common, and a rejected call adds
none of its terms. A merge takes over all that a worker owes only because the
summands it passes over, the unprepared ones, never held anything: that is what
the invariant adds (`PreparedOK`).

**LeopardReconstruct.** Staged outputs are cells of a packed buffer, counted off
in shard order. The invariant says that every requested shard has a cell of its
own among those allocated, whatever the chunk size and layout; that what is not
requested is as when the call began; and that publication has written exactly
the requested shards below the ones still to do. The direct path has its
destinations marked present while the decoder runs, and only there.

**LeopardThreadCaches.** An allocation is named by its number. The invariant
(`ThreadIInv`) says that each number is in one cache at most (`BoxesApart`), is
used by one operation at most (`FramesApart`), and is in a cache and in use only
when it is on loan from the borrowed GF(2^8) cache (`Loans`); that one operation
at most holds the borrow; and that a `TwoEntryCache` has at most two entries, of
different keys, within its budget (`TwoEntries`). A new number exists because
finitely many are in use. What comes back from an operation may meet an entry
that a nested one of the same key has left in the meantime: `InsertedIs` covers
all lists the cache can then be.

**DecodePlanCache.** As in `InversionCache` a function of partial sums over the
list ends in `retained_bytes`; evicting a prefix, appending and moving an entry to
the end are lemmas about it. An entry's plan was built for the entry's key, and
whoever is past the lookup has the plan of its own request. Room is always found
(`RoomIsMade`): an emptied list has room for any plan within the budget.

**ShardEncode.** An element of a parity shard is the set of terms in it, so a
term added twice is gone: `AddedTerm` and `ReplacedTerm` say what folding in a
shard and a difference do to it. The coding loops, over shards and over chunks
of the difference, are recursive functions; their closed forms are proved for
any count and length. A scratch buffer or workspace of any shape is prepared to
the right one before it is compared, so its old content does not matter.

**ParallelSchedule.** Every way of cutting a call is a `Division`: each element of
each output is in exactly one piece of exactly one task, pieces are coded with
their own rows from their own places, and the tasks are no more than the jobs.
`ChunkHolds` says what `chunks_mut` does to any length (element `x` is in chunk
`x \div s` and in no other); `ChunksOfGroups` nests it; where one job has several
outputs its pieces are counted in two digits, output and chunk (`Digits`); where
an output has several jobs of its own, numbering the jobs output by output
(`FirstJob`) maps the tasks into the jobs one to one, so there are not more. That
no divisor and no step is ever zero is `StepsArePositive`. The invariant
(`ScheduleIInv`) says that an element is coded once its task has passed its piece,
and not before. The bound on jobs is followed from the environment and the options
through every derived policy to the decision (`CacheIs`, `DecideIs`).

**CodecConstruct.** `AlignedIs` follows `leopard_aligned_shard_len` through its
rounding, saturation and clamp: the answer is a multiple, and it holds the payload
unless it is the last multiple of the word, which a real payload never reaches.
`PlaceIs` gives element `i` its shard and position; with it `JoinUndoesSplit` holds
for any content. The invariant adds that a codec that exists has data shards.

**SliceKernels.** The invariant says, for a process that does not rewrite the
variable, that whoever is between reading it and deciding has read what it still
is, that the back end in use is the one it selects, and that permissions were given
for it; and for any process, that back end, permissions and the kernel of a call fit
the machine and each other. A generated kernel runs only after a back end was
selected, so a selection that comes later cannot turn out to be GFNI.

**StreamCodec.** The invariant speaks of the number of bytes every stream had
delivered when the block began, and of what was read and written in it. A stream
that is shorter than the longest stays at its end and is continued with zeros. A
writer is at that number before its turn and a block further after it. What a
result claims is an invariant of the place where the call has returned.

**OwnedProcess.** On Darwin a group is taken for gone when a complete listing
names nobody who had not been seen to have exited before: the invariant says
that then nobody is running, hence nobody can fork; elsewhere everybody was struck
by a SIGKILL, which the dying cannot survive (`DiesKeeps`). A leader that has not been
reaped keeps its process id, and everything that signals is a place where it has
not; limits are looked at again after the group is gone, before an exit is
accepted.

**PlanCampaign.** After it was written, a file only goes from the controller's
bytes to foreign ones. So bytes that are the controller's in a second reading
were so whenever they mattered in between: a binary found unchanged after the
worker's exit is the binary that was started, and evidence that verifies a
second time was all on disk when that reading began. The invariant says which
members a snapshot still has to read and at which places it may be in progress,
that the binary is among them, and that every journal entry tells the truth
about its worker except, while a stage is under way, the last one in the fields
that are not filled in yet. Acceptance compares exactly these fields. That the
joined lists of members are sequences (`FlattenSeq` is a recursion) is shown by
constructing the recursion's solution.

**ReleaseCampaign.** Nothing is published before the inputs are materialized.
While they are being written, whatever is not the new campaign's is still on the
list of what is to be written; when the list is empty all of it is new. A
command that is over has failed, has reported that publishing failed, or has
written everything; a failure that is reported replaces the journal, so that no
success journal speaks for inputs that were written in part. The claim has one
exception, which the code has too: the report goes to the file whose write may
have just failed (`release.rs:455`, `:555`), and if it fails as well the command
exits with that error and leaves what it published beside the old journal. A
later materialization that succeeds, or that fails and can say so, ends the
exception; the invariant therefore holds through any number of retries.

**AbbaReport.** Nobody edits the artifacts while a report is computed, so the
report is the analysis of the campaign as it is. When the Markdown cannot be
written, the JSON beside it is already the new one and says what the campaign
earned; only a run that wrote both makes the two agree. The analysis permits an
attribution exactly when the campaign earned it: that the artifacts name one
revision and one override each is a matter of counting (a set of at most one
member), and every other condition of the verdict is the absence of one kind of
damage.

**RegressionGate.** The model keeps, beside every row, the conditions it was
measured under. The invariant relates the two: in a row that was not spoiled the
first name of a field that is said says its condition, its other names say the
same or nothing, and the names of a field that is not said are silent; a spoiled
case has two rows, or one that cannot be read. Normalising a row therefore yields
the conditions, whatever the spelling, or an error exactly when the case was
spoiled. What remains is that the gate's verdict on normalised rows is the
comparison of the conditions, case by case: strict or not, measured on one side
or on both, time or throughput.

Functions defined by recursion over a range of numbers (partial sums, the rounds
of a loop) are reasoned about by the first round at which the claim would fail
(`NoneGoesWrongFirst`); the library's induction theorems take an operator, which
the installed provers cannot instantiate.

Only model-checked: liveness (`CallsReturn`, `StreamReturns`,
`SupervisorReturns`, `CaptureEnds`), which needs fairness and `ENABLED`; the
properties of the fields, matrices, FFT codecs and kernels, which are about what
recursively generated tables and loops compute (`ShapesAccepted` among them, for the
matrices and format identifiers in it); counters (`StatsAreHonest`); and of the
release tools what is measured and refused (`ApprovedMeansMeasured`, `RefusalsHaveCause`,
`AcceptedMeansMeasured`), where samples are sorted and their medians compared.

## 6. Not modelled

- Full-size fields: arithmetic is checked on a field of 16 elements (tower of
  256) generated by the code's own recipe; that the polynomial of the real field
  is primitive is a fact about a number.
- Memory safety of `unsafe` blocks, alignment and pointer arithmetic: below the
  level of these models. Aligned shard storage (`galois_8/aligned.rs`) and the
  owners of work lanes (`leopard_gf8/work.rs`, `leopard_gf16/work.rs`) allocate,
  view and free, and compute nothing.
- Ratios and text that statistics are displayed with.
- Of the tools: building capsules and frozen baselines from git, the virtual
  machines of `control/`, audits, diagnostic source trees,
  and the parsers of other programs' output (`perf`, `vmmap`, clock sources):
  text in, text out, with no state that outlives a call. Of the paired-layout
  capture (`control/layout.rs`) the checks of sources and tools, the failure and
  the verdict are modelled; its measurements and their limits are one choice.
- The operating system: what a killed process had asked the kernel for is taken to
  be done with when the signal strikes; a write in progress at that moment could
  still reach a file. Which capsule's pin a stage is given is not told apart.
- A crash in the middle of publishing a release: the code has no recovery for it
  and promises nothing. Failing writes are modelled, that of the failure report
  included (section 5). A campaign compares its
  calibration's context only when it qualifies a baseline; the model follows.
- Benchmarks, fuzz targets, wasm bindings and shell or Python drivers.

## 7. Plan

Written, in order of importance: the cache and its proofs, classic
reconstruction and workspaces, progressive recovery, streams, encoding and
verification, schedules and policies, Leopard reconstruction, resource caches,
matrices and construction, slice kernels and selection, the FFT codecs and their
kernels, counters, and the tools.

Proofs are written for the caches, both reconstructions, progressive recovery,
encoding, schedules, split and join, the choice of a back end, streams, child
processes, benchmark campaigns, the publication of a release, the regression
gates and the ABBA report. Next: the sampler's contract (`AcceptedMeansMeasured`).
