-------------------------- MODULE SamplingContract --------------------------
(***************************************************************************)
(* The contracts of the release benchmark sampler (xtask                   *)
(* sampling_contract): what a measuring worker has to declare and to       *)
(* observe before its numbers count, how many iterations a calibration     *)
(* asks for next, and which of a worker's samples stands for it.           *)
(*                                                                         *)
(* Everything here is a function of records.  A shard mask is the set of   *)
(* its indices, a seed the tuple it is mixed from, a preview of the random *)
(* stream its seed and position; the policy strings of an entry are left   *)
(* out.  Durations are naturals and every ratio is compared by cross       *)
(* multiplication.  The sizes of the protocol are constants; the code has  *)
(* 3 warmups, 9 samples, 12 batches, 10^9 iterations and growth 2 to 64.   *)
(***************************************************************************)
EXTENDS Integers, Sequences, FiniteSets, FiniteSetsExt

CONSTANTS Warmups, Samples,          \* observations of a worker
          MaxBatches,                \* calibration workers of a case
          MaxIterations,             \* iterations of an observation
          MinGrowth, MaxGrowth,      \* growth of the count between batches
          TargetWall, TargetTimed,   \* windows a rehearsal has to reach
          MinimumWall, MinimumTimed, \* windows a sample has to reach
          PoolThreads,               \* rayon workers of a measuring process
          Line, Block,               \* the moduli 64 and 4096
          MinPage, MaxPage,          \* page sizes the contract knows
          Shapes, HotspotCases       \* the case catalog's shapes and scenarios

(* The window order that the code asserts while it is compiled. *)
ASSUME WindowAssumption ==
  /\ 0 < MinimumTimed /\ MinimumTimed <= TargetTimed /\ TargetTimed <= TargetWall
  /\ 0 < MinimumWall /\ MinimumWall <= TargetWall

ASSUME ProtocolAssumption ==
  /\ Warmups \in Nat /\ Samples \in Nat /\ Samples >= 3 /\ Samples % 2 = 1
  /\ MaxBatches \in Nat \ {0} /\ MaxIterations \in Nat \ {0}
  /\ MinGrowth \in 2..MaxGrowth
  /\ Block % Line = 0 /\ 0 < Line

Width == Warmups + Samples
MaxCalibrationRecords == Width * MaxBatches

(* A null in a record, and what a calibration answers besides a count: the *)
(* rehearsal is complete, or the analysis refuses.                         *)
Null == [null |-> TRUE]
Complete == 0
Refused == -1

-----------------------------------------------------------------------------
(* Cases and their workload.                                               *)

SmokeKernels == {"encode", "update", "verify", "reconstruct", "reconstruct_data"}
SmallKernels == {"encode", "verify", "verify_with_buffer", "reconstruct", "reconstruct_opt",
                 "reconstruct_shard_slot", "reconstruct_some_data_only", "reconstruct_data"}
StreamKernels == {"encode_stream", "verify_stream", "reconstruct_stream"}

Cases(operations) ==
  {[operation |-> op, data |-> s.data, parity |-> s.parity, size |-> s.size] :
     op \in operations, s \in Shapes}

case_catalog == [smoke |-> Cases(SmokeKernels), small_file |-> Cases(SmallKernels),
                 stream |-> Cases(StreamKernels), hotspot |-> HotspotCases]

known_case(profile, case) == profile \in DOMAIN case_catalog /\ case \in case_catalog[profile]

Shards(c) == 0..(c.data + c.parity - 1)
DataShards(c) == 0..(c.data - 1)

(* The operation that a kernel's input is generated for. *)
SeedOperation(op) ==
  CASE op \in {"verify", "verify_with_buffer", "verify_stream"} -> "verify"
    [] op \in {"reconstruct", "reconstruct_opt", "reconstruct_shard_slot", "reconstruct_stream"}
         -> "reconstruct"
    [] op \in {"reconstruct_some_data_only", "reconstruct_data"} -> "reconstruct_data"
    [] op \in {"encode", "encode_stream"} -> "encode"
    [] OTHER -> op

seed(op, c) == <<SeedOperation(op), c.data, c.parity, c.size>>

MissingOf(c) ==
  CASE SeedOperation(c.operation) = "reconstruct" -> {0, c.data}
    [] c.operation = "reconstruct_some_data_only" -> {0, c.data}
    [] c.operation = "reconstruct_data" -> {0, 1}
    [] OTHER -> {}

RequiredOf(c) ==
  CASE SeedOperation(c.operation) = "reconstruct" -> Shards(c)
    [] c.operation = "reconstruct_some_data_only" -> {0}
    [] c.operation = "reconstruct_data" -> DataShards(c)
    [] OTHER -> {}

(* A scenario without required shards wants every data shard back. *)
HotspotRequired(c) == IF c.required = {} THEN DataShards(c) ELSE c.required
Useful(c) == IF c.required = {} THEN c.missing \cap DataShards(c) ELSE c.required

fixture_contract(profile, c) ==
  IF profile \in {"small_file", "stream"}
  THEN [missing |-> MissingOf(c), required |-> RequiredOf(c)]
  ELSE Null

workload_contract(profile, c) ==
  CASE profile = "hotspot" ->
         [missing |-> c.missing, required |-> HotspotRequired(c), changed |-> {},
          lifetime |-> "iteration", generator |-> "worker-low-byte",
          seed |-> seed("reconstruct_data", c) \o <<c.name>>]
    [] profile = "smoke" ->
         [missing |-> MissingOf(c), required |-> RequiredOf(c),
          changed |-> IF c.operation = "update" THEN {0} ELSE {},
          lifetime |-> "iteration", generator |-> "per-iteration", seed |-> seed(c.operation, c)]
    [] OTHER ->
         [missing |-> MissingOf(c), required |-> RequiredOf(c), changed |-> {},
          lifetime |-> "worker", generator |-> "worker", seed |-> seed(c.operation, c)]

(* One observation's share of the random stream, in bytes. *)
StreamStep(c, count) == count * (c.data + c.parity) * c.size

workload_matches(r, profile) ==
  LET contract == workload_contract(profile, r.case)
      trace == r.workload.rng
      step == StreamStep(r.case, r.iterations)
  IN  /\ r.workload.contract = contract
      /\ IF profile # "hotspot"
         THEN trace = Null /\ r.row.seed = contract.seed
         ELSE /\ r.row.missing = r.case.missing /\ r.row.useful = Useful(r.case)
              /\ r.iterations > 0 /\ r.index < Width
              /\ trace # Null
              /\ trace.bytesBefore = step * r.index
              /\ trace.bytesAfter = step * (r.index + 1)

(* The worker's random stream runs on from one observation to the next. *)
workload_sequence(rs, profile) ==
  /\ \A i \in DOMAIN rs : workload_matches(rs[i], profile)
  /\ profile = "hotspot" =>
       \A i \in 1..(Len(rs) - 1) :
         rs[i].workload.rng.nextAfter = rs[i + 1].workload.rng.nextBefore

-----------------------------------------------------------------------------
(* What one observation has to show.  An empty reservation, or page size 0,*)
(* is one the caller does not know.                                        *)

placement(r, reserved) ==
  LET p == r.placement IN
  /\ p # Null
  /\ p.budget > 0 /\ p.threads = PoolThreads /\ p.checked
  /\ p.affinity # {} /\ p.cpu \in p.affinity /\ p.budget <= Cardinality(p.affinity)
  /\ reserved # {} => p.affinity = reserved /\ p.cpu = Min(reserved)
  /\ r.before.cpu = p.cpu /\ r.after.cpu = p.cpu

telemetry(r, reserved) ==
  /\ r.before # Null /\ r.after # Null
  /\ reserved # {} => {r.before.cpu, r.after.cpu} \subseteq reserved
  /\ r.after.run >= r.before.run

valid_page_size(page) == page \in {2 ^ k : k \in 0..20} /\ page \in MinPage..MaxPage

(* The three offsets of a buffer are remainders of one address. *)
positions(buffers, count, size, page) ==
  LET modulus == Min({page, Block}) IN
  /\ valid_page_size(page)
  /\ Len(buffers) = count
  /\ \A i \in 1..count :
       LET b == buffers[i] IN
       /\ b.len = size /\ b.capacity >= size
       /\ b.block < Block /\ b.line < Line /\ b.page < page
       /\ b.block % Line = b.line
       /\ b.page % modulus = b.block % modulus

fixture(r, profile, page) ==
  LET contract == fixture_contract(profile, r.case)
      f == r.fixture
      c == r.case
  IN  IF contract = Null THEN f = Null
      ELSE /\ f # Null /\ f.contract = contract
           /\ valid_page_size(f.page) /\ (page # 0 => f.page = page)
           /\ positions(f.source,
                        IF c.operation = "encode_stream" THEN c.data ELSE c.data + c.parity,
                        c.size, f.page)
           /\ positions(f.scratch,
                        IF c.operation = "verify_with_buffer" THEN c.parity ELSE 0,
                        c.size, f.page)

Abs(n) == IF n < 0 THEN -n ELSE n

(* The exported latency, in hundredths of a nanosecond per iteration, stands *)
(* for the interval within 0.006 per iteration and one in 10^5.  A         *)
(* throughput is kept as the interval it was computed from.                *)
timing(r, profile, count) ==
  /\ r.timed > 0 /\ r.wall > 0
  /\ IF profile = "hotspot"
     THEN 100000 * Abs(r.row.interval - r.timed) <= r.row.interval + 100000
     ELSE /\ r.row.ns > 0
          /\ 100000 * Abs(r.row.ns * count - 100 * r.timed)
               <= 60000 * count + r.row.ns * count

observation(r, profile, count, reserved, page) ==
  /\ telemetry(r, reserved) /\ placement(r, reserved)
  /\ fixture(r, profile, page) /\ timing(r, profile, count)

-----------------------------------------------------------------------------
(* What a whole worker has to show.                                        *)

Kind(calibrating, index) ==
  IF calibrating THEN IF index < Warmups THEN "calibration_warmup" ELSE "calibration"
                 ELSE IF index < Warmups THEN "warmup" ELSE "sample"

Scheduled(rs, calibrating, count, batch) ==
  /\ Len(rs) = Width
  /\ \A i \in 1..Width : /\ rs[i].kind = Kind(calibrating, i - 1) /\ rs[i].index = i - 1
                         /\ rs[i].iterations = count /\ rs[i].batch = batch

OneLayout(rs) == \A i \in DOMAIN rs : rs[i].fixture = rs[1].fixture

worker(rs, profile, count, reserved, page) ==
  /\ workload_sequence(rs, profile)
  /\ Scheduled(rs, FALSE, count, 0)
  /\ \A i \in 1..Width : observation(rs[i], profile, count, reserved, page)
  /\ OneLayout(rs)

Met(r) == r.wall >= TargetWall /\ r.timed >= TargetTimed

CeilDiv(a, b) == (a + b - 1) \div b

(* A quarter more than the fastest sample lacks of its windows. *)
Growth(rs) ==
  LET wanted == Max({Max({CeilDiv(5 * TargetWall, 4 * rs[i].wall),
                          CeilDiv(5 * TargetTimed, 4 * rs[i].timed)}) :
                       i \in (Warmups + 1)..Width})
  IN  Max({MinGrowth, Min({MaxGrowth, wanted})})

(* Complete, or the count to try next. *)
calibration(rs, count, batch) ==
  LET complete == \A i \in (Warmups + 1)..Width : rs[i].met
      following == count * Growth(rs)
  IN  IF ~ /\ count \in 1..MaxIterations /\ batch \in 1..MaxBatches
           /\ Scheduled(rs, TRUE, count, batch)
           /\ \A i \in 1..Width : /\ rs[i].wall > 0 /\ rs[i].timed > 0
                                  /\ rs[i].met = Met(rs[i])
           /\ OneLayout(rs)
           /\ \A i \in 1..Width : rs[i].complete = (complete /\ i = Width)
      THEN Refused
      ELSE IF complete THEN Complete
      ELSE IF following > MaxIterations THEN Refused ELSE following

calibration_worker(rs, profile, count, batch, reserved, page) ==
  IF /\ workload_sequence(rs, profile)
     /\ \A i \in DOMAIN rs : observation(rs[i], profile, count, reserved, page)
  THEN calibration(rs, count, batch) ELSE Refused

-----------------------------------------------------------------------------
(* Replays of a profile with one case: the records of its workers, in      *)
(* order.                                                                  *)

validate_row(r, revision, count) ==
  /\ r.revision = revision /\ r.row.ns > 0
  /\ r.profile # "hotspot" => r.row.iterations = count /\ r.row.revision = revision

(* compare_row and placement: the fields of a row that are not measured. *)
observation_matches(r, reference) ==
  /\ r.row.seed = reference.row.seed /\ r.row.missing = reference.row.missing
  /\ r.row.provenance = reference.row.provenance
  /\ r.placement = reference.placement

observations_ref(rs, reference) ==
  \A i \in DOMAIN rs : observation_matches(rs[i], reference)

Chunk(rs, b) == SubSeq(rs, (b - 1) * Width + 1, b * Width)

(* Mutant: the replay's budget is one batch short of the live one. *)
WithinRecordsShort(rs) == rs # <<>> /\ Len(rs) < MaxCalibrationRecords /\ Len(rs) % Width = 0

WithinRecords(rs) == rs # <<>> /\ Len(rs) <= MaxCalibrationRecords /\ Len(rs) % Width = 0

(* The iterations a calibration settled on, replayed from its records. *)
counts(rs, profile, revision, reserved, page) ==
  LET batches == Len(rs) \div Width
      after[b \in 0..batches] ==
        IF b = 0 THEN 1
        ELSE IF after[b - 1] \in {Refused, Complete} THEN Refused
        ELSE calibration_worker(Chunk(rs, b), profile, after[b - 1], b, reserved, page)
  IN  IF /\ WithinRecords(rs)
         /\ \A i \in DOMAIN rs :
              /\ rs[i].kind \in {"calibration", "calibration_warmup"}
              /\ known_case(profile, rs[i].case)
              /\ rs[i].iterations \in 1..MaxIterations
              /\ validate_row(rs[i], revision, rs[i].iterations)
         /\ after[batches] = Complete
         /\ observations_ref(rs, rs[1])
      THEN after[batches - 1] ELSE Refused

validate_groups(rs, profile, revision, count, reserved, page) ==
  /\ \A i \in DOMAIN rs : rs[i].revision = revision /\ known_case(profile, rs[i].case)
  /\ worker(rs, profile, count, reserved, page)
  /\ \A i \in DOMAIN rs : validate_row(rs[i], revision, count)

HigherIsBetter(profile) == profile \in {"smoke", "hotspot"}

metric(r, profile) == IF HigherIsBetter(profile) THEN r.row.interval ELSE r.row.ns

(* Sample i comes before sample j in the stable order of the metric; an    *)
(* interval orders throughputs in reverse.                                 *)
Before(rs, profile, i, j) ==
  LET a == metric(rs[i], profile)
      b == metric(rs[j], profile)
  IN  IF a = b THEN i < j ELSE (a < b) # HigherIsBetter(profile)

(* The index of the sample at place k of the ordered samples, from 0. *)
ordered(rs, profile, k) ==
  CHOOSE i \in (Warmups + 1)..Width :
    Cardinality({j \in (Warmups + 1)..Width : Before(rs, profile, j, i)}) = k

MedianIndex(rs, profile) == ordered(rs, profile, Samples \div 2)

(* The central spread: second highest less second lowest, over the median, *)
(* and whether it exceeds a tenth.                                         *)
Unstable(rs, profile) ==
  LET m == metric(rs[MedianIndex(rs, profile)], profile)
      low == metric(rs[ordered(rs, profile, 1)], profile)
      high == metric(rs[ordered(rs, profile, Samples - 2)], profile)
  IN  IF HigherIsBetter(profile) THEN 10 * m * (low - high) > low * high
                                 ELSE 10 * (high - low) > m

Short(r) == r.wall < MinimumWall \/ r.timed < MinimumTimed
ShortSamples(rs) == {i \in (Warmups + 1)..Width : Short(rs[i])}

(* The sample that stands for a worker; short windows refuse it unless     *)
(* they are only reported.                                                 *)
select(rs, profile, diagnostic) ==
  IF Len(rs) # Width \/ (ShortSamples(rs) # {} /\ ~diagnostic) THEN Null
  ELSE rs[MedianIndex(rs, profile)].row

-----------------------------------------------------------------------------
(* What a worker was prepared with, compared between workers.              *)

LastBatch(rs) == rs[Len(rs)].batch

Preparation(rs, calibrating) ==
  LET start == rs[Max({i \in DOMAIN rs : rs[i].index = 0})]
      final == SelectSeq(rs, LAMBDA r : ~calibrating \/ r.batch = LastBatch(rs))
  IN  [fixture  |-> rs[Len(rs)].fixture,
       workload |-> [contract |-> start.workload.contract, placement |-> start.placement,
                     initial |-> IF start.workload.rng = Null THEN <<>>
                                 ELSE start.workload.rng.nextBefore],
       trace    |-> [i \in DOMAIN final |-> final[i].workload.rng],
       starts   |-> LET firsts == SelectSeq(rs, LAMBDA r : r.index = 0)
                    IN  [i \in DOMAIN firsts |->
                           [iterations |-> firsts[i].iterations, batch |-> firsts[i].batch]]]

catalog(p) == [fixture |-> p.fixture, workload |-> p.workload, trace |-> p.trace]

(* A journal holds a start and an end for every worker, in order, and only *)
(* workers that ended well; its timestamps are left out.                   *)
journal_execute(events, starts, mode) ==
  /\ Len(events) = 2 * Len(starts)
  /\ \A i \in 1..Len(events) :
       LET job == starts[(i + 1) \div 2] IN
       /\ events[i].event = IF i % 2 = 1 THEN "start" ELSE "end"
       /\ events[i].mode = mode
       /\ events[i].iterations = job.iterations /\ events[i].batch = job.batch
       /\ i % 2 = 0 => events[i].exit = 0

(* A worker's rows agree with both streams of its log and with what it was *)
(* calibrated as.                                                          *)
replay_validate(log, rs, profile, revision, count, reserved, page, calibrated, reference) ==
  LET samples == SelectSeq(log, LAMBDA l : l.tag = "RSE_SAMPLE")
      timings == SelectSeq(log, LAMBDA l : l.tag = "RSE_TIMING")
  IN  /\ Len(rs) = Width /\ Len(timings) = Width /\ Len(samples) = Width
      /\ \A i \in 1..Width :
           /\ samples[i].record = rs[i]
           /\ timings[i].record = [index |-> rs[i].index, iterations |-> rs[i].iterations,
                                   wall |-> rs[i].wall, timed |-> rs[i].timed,
                                   placement |-> rs[i].placement]
      /\ validate_groups(rs, profile, revision, count, reserved, page)
      /\ observations_ref(rs, reference)
      /\ catalog(Preparation(rs, FALSE)) = calibrated
      /\ select(rs, profile, FALSE) # Null
=============================================================================
