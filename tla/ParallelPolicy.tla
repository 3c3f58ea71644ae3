--------------------------- MODULE ParallelPolicy ----------------------------
(***************************************************************************)
(* Where the numbers of a codec's parallel policies come from, when the    *)
(* codec is made: the defaults and the cache size of the machine           *)
(* (core/parallel.rs, core/cache_detect.rs), the RS_* variables of the     *)
(* environment, the codec's options and, for bytes, the policies of the    *)
(* reconstruction stages (galois_8/policy.rs).                             *)
(*                                                                         *)
(* A setup is [env, jobs, bytes, aarch64, os, cache]: the environment, the *)
(* option max_parallel_jobs, whether the field is GF(2^8), the target and  *)
(* what its operating system says of the second-level cache.  A variable   *)
(* holds a numeral; one that is no usize is negative here.                 *)
(***************************************************************************)
EXTENDS Integers, FiniteSets, FiniteSetsExt

CONSTANTS
    PARALLEL_MIN_SHARD_BYTES, LargeChunk,                    \* the defaults
    RECONSTRUCT_DATA_MIN_PARALLEL_SHARD_BYTES,
    RECONSTRUCT_FULL_MIN_PARALLEL_SHARD_BYTES,
    DEFAULT_L2_CACHE_BYTES,
    Kilo,           \* 1024
    UsizeMax        \* the largest usize

EnvNames ==
    {"RS_PARALLEL_POLICY_MIN_PARALLEL_SHARD_BYTES", "RS_PARALLEL_POLICY_MIN_BYTES_PER_JOB",
     "RS_PARALLEL_POLICY_MAX_JOBS", "RS_PARALLEL_POLICY_L2_CACHE_BYTES",
     "RS_RECONSTRUCT_DATA_MIN_PARALLEL_SHARD_BYTES",
     "RS_RECONSTRUCT_FULL_MIN_PARALLEL_SHARD_BYTES", "RS_RECONSTRUCT_MIN_BYTES_PER_JOB",
     "RS_AARCH64_RECONSTRUCT_MIN_PARALLEL_SHARD_BYTES",
     "RS_AARCH64_RECONSTRUCT_MIN_BYTES_PER_JOB", "RS_AARCH64_RECONSTRUCT_MAX_JOBS",
     "RS_AARCH64_RECONSTRUCT_DATA_MIN_BYTES_PER_JOB",
     "RS_AARCH64_RECONSTRUCT_PARITY_MIN_BYTES_PER_JOB"}

None == -1

(* A variable with a value from lowest on; None if it is absent.           *)
ParsedFrom(lowest, env, name) ==
    IF name \in DOMAIN env /\ env[name] \in lowest .. UsizeMax THEN env[name] ELSE None

parse_env_usize(env, name) == ParsedFrom(0, env, name)

parse_positive_env_usize(env, name) == ParsedFrom(1, env, name)

unwrap_or(value, default) == IF value = None THEN default ELSE value

(* A size is [number, suffix]; a product that overflows is no size.        *)
parse_cache_size(size) ==
    LET unit == [none |-> 1, K |-> Kilo, M |-> Kilo * Kilo][size.suffix]
    IN  IF size.number \in 0 .. UsizeMax \div unit THEN size.number * unit ELSE None

(* macOS answers with a plain number, and not with zero.                   *)
detect_l2_cache_macos(size) ==
    IF size.suffix = "none" /\ size.number \in 1 .. UsizeMax THEN size.number ELSE None

detect_l2_cache_bytes(s) ==
    CASE s.os = "linux" -> parse_cache_size(s.cache)
      [] s.os = "macos" -> detect_l2_cache_macos(s.cache)
      [] OTHER -> None

default_policy(s) ==
    [min_parallel |-> PARALLEL_MIN_SHARD_BYTES, min_per_job |-> LargeChunk, max_jobs |-> 0,
     l2 |-> unwrap_or(detect_l2_cache_bytes(s), DEFAULT_L2_CACHE_BYTES)]

(* The two minima only take positive values; zero jobs and a zero cache mean*)
(* no limit.                                                               *)
with_env_overrides(p, env) ==
    [min_parallel |->
        unwrap_or(parse_positive_env_usize(env, "RS_PARALLEL_POLICY_MIN_PARALLEL_SHARD_BYTES"),
                  p.min_parallel),
     min_per_job |->
        unwrap_or(parse_positive_env_usize(env, "RS_PARALLEL_POLICY_MIN_BYTES_PER_JOB"),
                  p.min_per_job),
     max_jobs |-> unwrap_or(parse_env_usize(env, "RS_PARALLEL_POLICY_MAX_JOBS"), p.max_jobs),
     l2 |-> unwrap_or(parse_env_usize(env, "RS_PARALLEL_POLICY_L2_CACHE_BYTES"), p.l2)]

reconstruct_parallel_policy_default(base, env, data_only) ==
    [base EXCEPT
        !.min_per_job = unwrap_or(
            parse_positive_env_usize(env, "RS_RECONSTRUCT_MIN_BYTES_PER_JOB"), @),
        !.min_parallel =
            IF data_only
            THEN Max({@, unwrap_or(parse_positive_env_usize(env,
                                     "RS_RECONSTRUCT_DATA_MIN_PARALLEL_SHARD_BYTES"),
                                   RECONSTRUCT_DATA_MIN_PARALLEL_SHARD_BYTES)})
            ELSE Max({@ \div 2, unwrap_or(parse_positive_env_usize(env,
                                     "RS_RECONSTRUCT_FULL_MIN_PARALLEL_SHARD_BYTES"),
                                   RECONSTRUCT_FULL_MIN_PARALLEL_SHARD_BYTES)})]

(* On aarch64 the data-only policy takes the limits of the full one, and the*)
(* parity stage does not.                                                  *)
reconstruct_policy_cache_aarch64(base, env) ==
    LET default(data_only) == reconstruct_parallel_policy_default(base, env, data_only)
        positive(name, other) == unwrap_or(parse_positive_env_usize(env, name), other)
        full == [default(FALSE) EXCEPT
            !.min_parallel = positive("RS_AARCH64_RECONSTRUCT_MIN_PARALLEL_SHARD_BYTES", @),
            !.min_per_job = positive("RS_AARCH64_RECONSTRUCT_MIN_BYTES_PER_JOB", @),
            !.max_jobs = unwrap_or(parse_env_usize(env, "RS_AARCH64_RECONSTRUCT_MAX_JOBS"), @)]
    IN  [data |-> base,
         reconstruct_data |-> [default(TRUE) EXCEPT
            !.min_parallel = full.min_parallel,
            !.min_per_job = positive("RS_AARCH64_RECONSTRUCT_DATA_MIN_BYTES_PER_JOB",
                                     full.min_per_job),
            !.max_jobs = full.max_jobs],
         reconstruct_full_data |-> full,
         reconstruct_full_parity |-> [default(FALSE) EXCEPT
            !.min_per_job = positive("RS_AARCH64_RECONSTRUCT_PARITY_MIN_BYTES_PER_JOB", @)]]

resolve_runtime_parallel_policy_cache(base, env) ==
    [data |-> base,
     reconstruct_data |-> reconstruct_parallel_policy_default(base, env, TRUE),
     reconstruct_full_data |-> reconstruct_parallel_policy_default(base, env, FALSE),
     reconstruct_full_parity |-> reconstruct_parallel_policy_default(base, env, FALSE)]

(* RuntimeParallelPolicyCache::new, for other fields.                      *)
one_policy_cache(data) ==
    [data |-> data, reconstruct_data |-> data, reconstruct_full_data |-> data,
     reconstruct_full_parity |-> data]

resolve_policy_cache_with_options(s) ==
    LET given == with_env_overrides(default_policy(s), s.env)
        data == [given EXCEPT !.max_jobs = IF s.jobs > 0 THEN s.jobs ELSE @]
    IN  CASE s.bytes /\ s.aarch64 -> reconstruct_policy_cache_aarch64(data, s.env)
          [] s.bytes /\ ~s.aarch64 -> resolve_runtime_parallel_policy_cache(data, s.env)
          [] ~s.bytes -> one_policy_cache(data)

(* What decides whether a reconstruction runs in parallel at all.          *)
reconstruct_policy(cache, data_only) ==
    IF data_only THEN cache.reconstruct_data ELSE cache.reconstruct_full_data

reconstruct_stage_policies(cache, data_only) ==
    IF data_only THEN <<cache.reconstruct_data, cache.reconstruct_data>>
    ELSE <<cache.reconstruct_full_data, cache.reconstruct_full_parity>>

(* The most jobs a setup asks for, zero for no limit: the codec's option   *)
(* before the variable, and on aarch64 a variable of its own before both   *)
(* for the stages that restore data.                                       *)
AskedJobs(s, stage) ==
    LET own == parse_env_usize(s.env, "RS_AARCH64_RECONSTRUCT_MAX_JOBS")
    IN  IF s.bytes /\ s.aarch64 /\ stage \in {"data_only", "full_data"} /\ own # None THEN own
        ELSE IF s.jobs > 0 THEN s.jobs
        ELSE unwrap_or(parse_env_usize(s.env, "RS_PARALLEL_POLICY_MAX_JOBS"), 0)
=============================================================================
