---------------------------- MODULE MCShardEncode ----------------------------
(***************************************************************************)
(* The calls on a stripe, the division of one such call among threads and  *)
(* the counters those threads report to, in one run: a behaviour is one of *)
(* ShardEncode, of ParallelSchedule or of RuntimeMetrics, and subject says *)
(* of which.  They share no variable; those a behaviour is not about stay  *)
(* as they are.                                                            *)
(*                                                                         *)
(* ShardEncode: two data shards of three elements in two chunks; a matrix  *)
(* codec, a single-parity codec and a Leopard codec.  ParallelSchedule: the*)
(* byte constants scaled down to chunks of 2, 4 and 6 bytes and an         *)
(* alignment of 2.  RuntimeMetrics: two recorders, two snapshots, a reset. *)
(***************************************************************************)
EXTENDS ShardEncode

CONSTANTS ShardLens, OutputCounts, ElementSize, Parallelisms, Setups, MissingBesides,
          MinChunk, DefaultChunk, LargeFrom, LargeChunk, Alignment,
          PARALLEL_MIN_SHARD_BYTES, RECONSTRUCT_DATA_MIN_PARALLEL_SHARD_BYTES,
          RECONSTRUCT_FULL_MIN_PARALLEL_SHARD_BYTES, DEFAULT_L2_CACHE_BYTES, Kilo, UsizeMax,
          Recorders, Pairings(_), MaxFollowed, MaxSnapshots(_), MaxResets

VARIABLES subject, call, decision, tasks, done, out, pc,
          bank, metered, plan, followed, waiting, pending, counters, loading, snapshot, taken, clearing,
          resets, ledger

Schedule == INSTANCE ParallelSchedule
Metrics == INSTANCE RuntimeMetrics
Recordings == INSTANCE MetricRecordings

ASSUME ScheduleFits == Schedule!ScheduleAssumption

scheduleVars == <<call, decision, tasks, done, out, pc>>
metricsVars == <<bank, metered, plan, followed, waiting, pending, counters, loading, snapshot, taken,
                 clearing, resets, ledger>>

OneStripe == Init /\ codec = (CHOOSE c \in Codecs : TRUE) /\ aligned
OneSchedule == Schedule!InitWith(CHOOSE c \in Schedule!Calls : TRUE)
OneBank == Metrics!InitWith("neon", TRUE, CHOOSE p \in Pairings("neon") : TRUE, {})

MCInit ==
    \/ subject = "stripe" /\ Init /\ OneSchedule /\ OneBank
    \/ subject = "schedule" /\ OneStripe /\ Schedule!Init /\ OneBank
    \/ subject = "metrics" /\ OneStripe /\ OneSchedule /\ Metrics!Init

\* A schedule ends when its tasks have run, the counters when everybody is
\* done with them; a stripe may always be called on.
MCNext ==
    \/ subject = "stripe" /\ Next /\ UNCHANGED <<subject, scheduleVars, metricsVars>>
    \/ subject = "schedule" /\ Schedule!Next /\ UNCHANGED <<subject, vars, metricsVars>>
    \/ subject = "metrics" /\ Metrics!Next /\ UNCHANGED <<subject, vars, scheduleVars>>

MCSpec == MCInit /\ [][MCNext]_<<subject, vars, scheduleVars, metricsVars>>

(* The invariants of ParallelSchedule and RuntimeMetrics; they are stated  *)
(* and explained there.                                                    *)
CodedOnce == Schedule!CodedOnce
StatsAreHonest == Metrics!StatsAreHonest

-----------------------------------------------------------------------------
\* The second element of the first chunk may differ, the second chunk is equal.
TwoContents == {<<"a", "a", "a">>, <<"a", "b", "a">>}

ClassicCodecs == {[family |-> "Classic", parity |-> 2, fast |-> FALSE],
                  [family |-> "Classic", parity |-> 1, fast |-> TRUE]}
LeopardCodecs == {[family |-> "Leopard", parity |-> 2, fast |-> FALSE]}
ThreeCodecs == ClassicCodecs \cup LeopardCodecs

\* More rows than needed and too short, fewer rows and too long; one that fits
\* is what the previous verification leaves.
ForeignWorkspaces == {[rows |-> 3, len |-> 2], [rows |-> 1, len |-> 4]}

\* Machines and environments: nothing set, with a cache that a few shards
\* overflow; a cap of jobs and small minima from the environment; a cap from
\* the options before it; the stages' own variables, on aarch64 too; junk and
\* zeroes; sizes that overflow.
Size(number, suffix) == [number |-> number, suffix |-> suffix]
Setup(env, jobs, bytes, aarch64, os, cache) ==
    [env |-> env, jobs |-> jobs, bytes |-> bytes, aarch64 |-> aarch64, os |-> os,
     cache |-> cache]

SixSetups ==
    {Setup([RS_PARALLEL_POLICY_MAX_JOBS |-> -2], 0, TRUE, FALSE, "linux", Size(3, "K")),
     Setup([RS_PARALLEL_POLICY_MAX_JOBS |-> 3, RS_PARALLEL_POLICY_MIN_PARALLEL_SHARD_BYTES |-> 1,
            RS_PARALLEL_POLICY_MIN_BYTES_PER_JOB |-> 3, RS_PARALLEL_POLICY_L2_CACHE_BYTES |-> 13],
           0, FALSE, FALSE, "linux", Size(9, "M")),
     Setup([RS_PARALLEL_POLICY_MAX_JOBS |-> 3, RS_PARALLEL_POLICY_MIN_PARALLEL_SHARD_BYTES |-> 0,
            RS_RECONSTRUCT_MIN_BYTES_PER_JOB |-> 2, RS_PARALLEL_POLICY_L2_CACHE_BYTES |-> 0],
           2, TRUE, FALSE, "macos", Size(0, "none")),
     Setup([RS_RECONSTRUCT_FULL_MIN_PARALLEL_SHARD_BYTES |-> 1,
            RS_RECONSTRUCT_DATA_MIN_PARALLEL_SHARD_BYTES |-> 7],
           0, TRUE, FALSE, "other", Size(0, "none")),
     Setup([RS_AARCH64_RECONSTRUCT_MIN_PARALLEL_SHARD_BYTES |-> 1,
            RS_AARCH64_RECONSTRUCT_MAX_JOBS |-> 3,
            RS_AARCH64_RECONSTRUCT_MIN_BYTES_PER_JOB |-> 3,
            RS_AARCH64_RECONSTRUCT_PARITY_MIN_BYTES_PER_JOB |-> 2],
           2, TRUE, TRUE, "macos", Size(20, "none")),
     Setup([RS_AARCH64_RECONSTRUCT_DATA_MIN_BYTES_PER_JOB |-> 2,
            RS_AARCH64_RECONSTRUCT_MAX_JOBS |-> 0],
           2, TRUE, TRUE, "linux", Size(1, "M"))}

\* What two threads record, or one while the other is idle.
Pairs(a, b) == {[r \in Recorders |-> IF r = "t1" THEN a ELSE b]}

MCPairings(b) ==
    CASE b = "runtime" ->
           Pairs(Recordings!record_parallel_policy(TRUE, 2, 4),
                 Recordings!record_parallel_policy(FALSE, 1, 9))
           \cup Pairs(Recordings!record_code_some(TRUE, 5, 2, 1, 2),
                      Recordings!record_code_some(FALSE, 1, 1, 1, 0))
           \cup Pairs(Recordings!record_code_some_small_output_chunk_parallel(2, 3),
                      Recordings!record_reconstruct_entry(TRUE))
           \cup Pairs(Recordings!record_code_single(TRUE, 5, 2, 4),
                      Recordings!record_code_single(FALSE, 3, 1, 4))
           \cup Pairs(Recordings!record_reconstruct(TRUE, 1, 2, FALSE),
                      Recordings!record_reconstruct(FALSE, 0, 0, TRUE))
           \cup Pairs(Recordings!record_reconstruct_entry(FALSE),
                      Recordings!record_reconstruct_opt_fallback_serial)
           \cup Pairs(Recordings!record_reconstruct_data_stage(3, 2),
                      Recordings!record_reconstruct_parity_stage(3, 1))
      [] b = "leopard_gf8" ->
           Pairs(Recordings!add_ifft_calls("first"), Recordings!add_ifft_calls("later"))
           \cup Pairs(Recordings!add_ifft_calls("remainder"), Recordings!count_group("remainder"))
           \cup Pairs(Recordings!count_group("first"), Recordings!count_group("later"))
           \cup UNION {Pairs(Recordings!add_input_copy_bytes(p, 4),
                             Recordings!add_zero_fill_bytes(p, 2)) :
                         p \in {"first", "later", "remainder"}}
           \cup Pairs(Recordings!add_xor_bytes("later", 4), Recordings!add_xor_bytes("remainder", 2))
           \cup Pairs(Recordings!add_output_writeback(3), {})
      [] b = "neon" ->
           Pairs(Recordings!record_call(FALSE, 83, 1, 1, 3), {})
           \cup Pairs(Recordings!record_call(TRUE, 5, 0, 0, 5), Recordings!record_call(TRUE, 16, 0, 1, 0))

\* Only the NEON statistics are subtracted.
MCMaxSnapshots(b) == IF b = "neon" THEN 2 ELSE 1
=============================================================================
