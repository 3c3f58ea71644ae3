-------------------------- MODULE MetricRecordings --------------------------
(***************************************************************************)
(* The profile counters' names and what each recording function adds to    *)
(* them.  RuntimeMetrics runs these recordings next to one another.        *)
(***************************************************************************)
EXTENDS Integers

----------------------------------------------------------------------------
(* The fields of the banks, in the order of snapshot and reset.            *)

RuntimeProfileMetrics ==
    << "code_some_serial_calls", "code_some_parallel_calls", "code_some_total_bytes",
       "code_some_total_chunks", "code_some_small_output_chunk_parallel_calls",
       "code_some_small_output_chunk_parallel_outputs",
       "code_some_small_output_chunk_parallel_chunks", "code_single_serial_calls",
       "code_single_parallel_calls", "code_single_total_bytes", "code_single_total_chunks",
       "parallel_policy_calls", "parallel_policy_parallel", "parallel_policy_serial",
       "parallel_policy_total_jobs", "parallel_policy_total_chunk_len", "reconstruct_calls",
       "reconstruct_data_only_calls", "reconstruct_entry_parallel_calls",
       "reconstruct_entry_serial_calls", "reconstruct_opt_fallback_serial_calls",
       "reconstruct_total_missing_data", "reconstruct_total_missing_parity",
       "reconstruct_all_present_fast_path", "reconstruct_data_stage_calls",
       "reconstruct_data_stage_bytes", "reconstruct_parity_stage_calls",
       "reconstruct_parity_stage_bytes", "reconstruct_data_small_output_specialized_calls" >>

LeopardGf8ProfileMetrics ==
    << "encode_calls", "encode_chunks", "encode_full_groups", "encode_remainder_groups",
       "encode_later_group_calls", "fft_stage_calls", "ifft_stage_calls",
       "first_group_ifft_calls", "later_group_ifft_calls", "remainder_group_ifft_calls",
       "first_group_input_copy_bytes", "later_group_input_copy_bytes",
       "remainder_group_input_copy_bytes", "first_group_zero_fill_bytes",
       "later_group_zero_fill_bytes", "remainder_group_zero_fill_bytes",
       "later_group_xor_bytes", "remainder_group_xor_bytes", "output_writeback_calls",
       "input_copy_bytes", "zero_fill_bytes", "xor_bytes", "output_writeback_bytes" >>

RustNeonProfileMetrics ==
    << "mul_calls", "mul_xor_calls", "total_bytes", "vector_64b_chunks", "vector_16b_chunks",
       "tail_bytes", "tail_calls", "table_lookups" >>

Banks == {"runtime", "leopard_gf8", "neon"}

Fields(b) ==
    CASE b = "runtime" -> RuntimeProfileMetrics
      [] b = "leopard_gf8" -> LeopardGf8ProfileMetrics
      [] b = "neon" -> RustNeonProfileMetrics

----------------------------------------------------------------------------
(* Recordings: sets of additions <<counter, amount>>, one per counter.     *)

DivCeil(n, d) == IF d = 0 THEN 0 ELSE (n + d - 1) \div d

record_code_some(parallel, shard_len, inputs, outputs, chunk_len) ==
    { <<IF parallel THEN "code_some_parallel_calls" ELSE "code_some_serial_calls", 1>>,
      <<"code_some_total_bytes", shard_len * inputs * outputs>>,
      <<"code_some_total_chunks", DivCeil(shard_len, chunk_len)>> }

record_code_some_small_output_chunk_parallel(outputs, chunks) ==
    { <<"code_some_small_output_chunk_parallel_calls", 1>>,
      <<"code_some_small_output_chunk_parallel_outputs", outputs>>,
      <<"code_some_small_output_chunk_parallel_chunks", chunks>> }

record_code_single(parallel, shard_len, outputs, chunk_len) ==
    { <<IF parallel THEN "code_single_parallel_calls" ELSE "code_single_serial_calls", 1>>,
      <<"code_single_total_bytes", shard_len * outputs>>,
      <<"code_single_total_chunks", DivCeil(shard_len, chunk_len)>> }

record_parallel_policy(use_parallel, jobs, chunk_len) ==
    { <<"parallel_policy_calls", 1>>,
      <<IF use_parallel THEN "parallel_policy_parallel" ELSE "parallel_policy_serial", 1>>,
      <<"parallel_policy_total_jobs", jobs>>,
      <<"parallel_policy_total_chunk_len", chunk_len>> }

record_reconstruct(data_only, missing_data, missing_parity, all_present) ==
    { <<"reconstruct_calls", 1>>,
      <<"reconstruct_total_missing_data", missing_data>>,
      <<"reconstruct_total_missing_parity", missing_parity>> }
    \cup (IF data_only THEN {<<"reconstruct_data_only_calls", 1>>} ELSE {})
    \cup (IF all_present THEN {<<"reconstruct_all_present_fast_path", 1>>} ELSE {})

record_reconstruct_entry(parallel) ==
    {<<IF parallel THEN "reconstruct_entry_parallel_calls"
       ELSE "reconstruct_entry_serial_calls", 1>>}

record_reconstruct_opt_fallback_serial == {<<"reconstruct_opt_fallback_serial_calls", 1>>}

record_reconstruct_data_stage(shard_len, output_count) ==
    {<<"reconstruct_data_stage_calls", 1>>,
     <<"reconstruct_data_stage_bytes", shard_len * output_count>>}

record_reconstruct_parity_stage(shard_len, output_count) ==
    {<<"reconstruct_parity_stage_calls", 1>>,
     <<"reconstruct_parity_stage_bytes", shard_len * output_count>>}

(* The totals of GF8 and the counter of the phase, "first", "later" or     *)
(* "remainder".                                                            *)
add_ifft_calls(phase) ==
    {<<"ifft_stage_calls", 1>>,
     <<CASE phase = "first" -> "first_group_ifft_calls"
         [] phase = "later" -> "later_group_ifft_calls"
         [] phase = "remainder" -> "remainder_group_ifft_calls", 1>>}

add_input_copy_bytes(phase, bytes) ==
    {<<"input_copy_bytes", bytes>>,
     <<CASE phase = "first" -> "first_group_input_copy_bytes"
         [] phase = "later" -> "later_group_input_copy_bytes"
         [] phase = "remainder" -> "remainder_group_input_copy_bytes", bytes>>}

add_zero_fill_bytes(phase, bytes) ==
    {<<"zero_fill_bytes", bytes>>,
     <<CASE phase = "first" -> "first_group_zero_fill_bytes"
         [] phase = "later" -> "later_group_zero_fill_bytes"
         [] phase = "remainder" -> "remainder_group_zero_fill_bytes", bytes>>}

(* The first group is not added to anything and has no counter.            *)
add_xor_bytes(phase, bytes) ==
    {<<"xor_bytes", bytes>>}
    \cup (CASE phase = "later" -> {<<"later_group_xor_bytes", bytes>>}
            [] phase = "remainder" -> {<<"remainder_group_xor_bytes", bytes>>}
            [] phase = "first" -> {})

(* A group of the encoder: only the first is no later group.               *)
count_group(phase) ==
    CASE phase = "first" -> {<<"encode_full_groups", 1>>}
      [] phase = "later" -> {<<"encode_later_group_calls", 1>>, <<"encode_full_groups", 1>>}
      [] phase = "remainder" -> {<<"encode_remainder_groups", 1>>}

add_output_writeback(bytes) ==
    {<<"output_writeback_calls", 1>>, <<"output_writeback_bytes", bytes>>}

(* A NEON kernel reports what it cut its input into.                       *)
record_call(is_xor, input_len, vector_64b, vector_16b, tail) ==
    { <<IF is_xor THEN "mul_xor_calls" ELSE "mul_calls", 1>>,
      <<"total_bytes", input_len>>,
      <<"vector_64b_chunks", vector_64b>>,
      <<"vector_16b_chunks", vector_16b>>,
      <<"table_lookups", 8 * vector_64b + 2 * vector_16b>> }
    \cup (IF tail > 0 THEN {<<"tail_calls", 1>>, <<"tail_bytes", tail>>} ELSE {})
=============================================================================
