-------------------------- MODULE ParallelSchedule ---------------------------
(***************************************************************************)
(* How one coding call, or one stage of a reconstruction of bytes, is      *)
(* divided among threads: the decision of the codec's policy               *)
(* (ParallelPolicy::decide, decide_for_elements, with the policies of      *)
(* module ParallelPolicy), the three ways the work is cut up (the serial   *)
(* chunk loop, for_each_output_chunk, the native jobs of                   *)
(* split_native_encode_jobs), and rayon running the tasks in any order.    *)
(*                                                                         *)
(* A task owns pieces of the outputs, as par_chunks_mut and chunks_mut hand*)
(* them out, and codes a piece with the matrix row and the input range that*)
(* it computes from indices: `rows` (output to matrix row) and `start` are *)
(* what it computes, `at` is where the piece really is.  Slices are at most*)
(* isize::MAX bytes, so the saturating operations of the code do not       *)
(* saturate.                                                               *)
(***************************************************************************)
EXTENDS ParallelPolicy, Sequences

CONSTANTS
    ShardLens, OutputCounts, DataShards, ElementSize, Parallelisms,
    Setups,         \* what codecs' policies are made from
    MissingBesides, \* outputs of a reconstruction that are not this stage's
    MinChunk, DefaultChunk, LargeFrom,              \* CODE_SLICE_*_CHUNK_BYTES
    Alignment       \* 64 bytes

\* What the constants have to satisfy.
ScheduleAssumption ==
    /\ DataShards \in Nat \ {0} /\ ElementSize \in Nat \ {0}
    /\ ShardLens \subseteq Nat /\ OutputCounts \subseteq Nat \ {0}
    /\ Parallelisms \subseteq Nat
    /\ {} \notin {ShardLens, OutputCounts, Parallelisms, Setups}
    /\ {MinChunk, DefaultChunk, LargeChunk, Alignment, Kilo} \subseteq Nat \ {0}
    /\ MinChunk <= DefaultChunk /\ DefaultChunk <= LargeFrom
    /\ {LargeFrom, PARALLEL_MIN_SHARD_BYTES, RECONSTRUCT_DATA_MIN_PARALLEL_SHARD_BYTES,
        RECONSTRUCT_FULL_MIN_PARALLEL_SHARD_BYTES, DEFAULT_L2_CACHE_BYTES, UsizeMax} \subseteq Nat
    /\ \A s \in Setups :
         /\ DOMAIN s.env \subseteq EnvNames /\ \A name \in DOMAIN s.env : s.env[name] \in Int
         /\ s.jobs \in Nat /\ s.bytes \in BOOLEAN /\ s.aarch64 \in BOOLEAN
         /\ s.cache.number \in Int /\ s.cache.suffix \in {"none", "K", "M"}

VARIABLES
    call,       \* [len, outputs, esize, avail, policy, coding, entry, asked]
    decision,   \* ParallelDecision, or NoDecision
    tasks,      \* task -> its pieces, in order
    done,       \* task -> pieces it has coded
    out,        \* output row and element -> what was coded there
    pc          \* "decide", "split", "run" or "done"

vars == <<call, decision, tasks, done, out, pc>>

NoDecision == [use_parallel |-> FALSE, jobs |-> 0, chunk_len |-> 0]

DivCeil(a, b) == (a + b - 1) \div b
AtLeastOne(n) == Max({n, 1})

-----------------------------------------------------------------------------
(***************************************************************************)
(* The policy.                                                             *)
(***************************************************************************)

\* align_chunk_len
Align(n) == IF n >= Alignment THEN (n \div Alignment) * Alignment ELSE n

SerialChunkLen(size) ==
    IF size <= MinChunk THEN size
    ELSE IF size <= DefaultChunk THEN MinChunk
    ELSE IF size <= LargeFrom THEN DefaultChunk ELSE LargeChunk

\* The chunk whose data and outputs fit the cache; no limit without a size.
CacheChunkLen(p, size, outputs) ==
    IF p.l2 = 0 THEN size ELSE AtLeastOne(p.l2 \div (DataShards + outputs))

MaxJobs(p, avail) ==
    IF p.max_jobs = 0 THEN AtLeastOne(avail) ELSE Min({p.max_jobs, AtLeastOne(avail)})

\* ParallelPolicy::decide, in bytes.
DecideBytes(p, size, outputs, avail) ==
    LET cache == CacheChunkLen(p, size, outputs)
        chunk_cap == Min({Max({p.min_per_job, MinChunk}), cache, size})
        chunk_count == DivCeil(size, chunk_cap)
        useful == IF outputs <= 2 THEN chunk_count ELSE outputs * chunk_count
        jobs == Min({MaxJobs(p, avail), useful})
        per_output == AtLeastOne(DivCeil(jobs, outputs))
        chunk_len == Align(Min({DivCeil(size, per_output), chunk_cap}))
    IN IF size = 0
         THEN [use_parallel |-> FALSE, jobs |-> 1, chunk_len |-> size]
       ELSE IF size < AtLeastOne(p.min_parallel) \/ jobs < 2
         THEN [use_parallel |-> FALSE, jobs |-> 1,
               chunk_len |-> Align(Min({SerialChunkLen(size), cache}))]
       ELSE [use_parallel |-> TRUE, jobs |-> jobs, chunk_len |-> Min({chunk_len, size})]

\* decide_for_elements: bytes back to elements, never none and never too many.
InElements(bytes, c) == IF c.len = 0 THEN 0 ELSE Min({AtLeastOne(bytes \div c.esize), c.len})

\* reconstruct_parallel_decision: a reconstruction first decides with all its
\* outputs whether to run in parallel at all; other calls have no entry.
EntrySerial(c) ==
    /\ c.entry.outputs > 0
    /\ ~DecideBytes(c.entry.policy, c.len, c.entry.outputs, c.avail).use_parallel

\* Then each stage decides for its own outputs (code_some_slices_with_policy_raw).
DecideSerialEntry ==
    /\ pc = "decide"
    /\ EntrySerial(call)
    /\ decision' = [NoDecision EXCEPT !.jobs = 1]
    /\ pc' = "split"
    /\ UNCHANGED <<call, tasks, done, out>>

Decide ==
    /\ pc = "decide"
    /\ ~EntrySerial(call)
    /\ LET d == DecideBytes(call.policy, call.len * call.esize, call.outputs, call.avail)
       IN decision' = [d EXCEPT !.chunk_len = InElements(d.chunk_len, call)]
    /\ pc' = "split"
    /\ UNCHANGED <<call, tasks, done, out>>

-----------------------------------------------------------------------------
(***************************************************************************)
(* Cutting up the outputs.                                                 *)
(***************************************************************************)
OutputRows == 0 .. call.outputs - 1

\* The chunks of `step` elements that chunks_mut makes of n elements.
ChunkCount(n, step) == DivCeil(n, step)
LenOfChunk(n, step, k) == Min({step, n - k * step})

Piece(rows, start, at, len) == [rows |-> rows, start |-> start, at |-> at, len |-> len]
OneRow(output, row) == [o \in {output} |-> row]
AllRows == [o \in OutputRows |-> o]

ChunkStep == Min({AtLeastOne(decision.chunk_len), call.len})
Jobs == AtLeastOne(decision.jobs)

\* At least as many outputs as jobs: a task takes a group of outputs and walks
\* through the chunks of each.
OutputsPerJob == DivCeil(call.outputs, Jobs)
GroupRow(g, offset) == g * OutputsPerJob + offset
OutputGroup(g) ==
    LET chunks == ChunkCount(call.len, ChunkStep)
        rows == Min({OutputsPerJob, call.outputs - g * OutputsPerJob})
    IN [n \in 1 .. rows * chunks |->
          LET offset == (n - 1) \div chunks
              k == (n - 1) % chunks
          IN Piece(OneRow(g * OutputsPerJob + offset, GroupRow(g, offset)),
                   k * ChunkStep, k * ChunkStep, LenOfChunk(call.len, ChunkStep, k))]

\* Fewer outputs than jobs: the jobs are shared out among the outputs, the first
\* ones getting one more, and an output's chunks are divided among its jobs.
RowJobs(r) == Jobs \div call.outputs + (IF r < Jobs % call.outputs THEN 1 ELSE 0)
GroupLen(r) ==
    LET chunks_per_job == DivCeil(ChunkCount(call.len, ChunkStep), RowJobs(r))
    IN Min({chunks_per_job * ChunkStep, call.len})

\* Mutant: the start of a chunk within its group.
GroupStartLocal(r, g) == 0

\* Where a task believes its group starts.
GroupStart(r, g) == g * GroupLen(r)

RowGroup(r, g) ==
    LET len == LenOfChunk(call.len, GroupLen(r), g)
    IN [n \in 1 .. ChunkCount(len, ChunkStep) |->
          LET k == n - 1
          IN Piece(OneRow(r, r), GroupStart(r, g) + k * ChunkStep,
                   g * GroupLen(r) + k * ChunkStep, LenOfChunk(len, ChunkStep, k))]

ForEachOutputChunk ==
    IF call.outputs >= Jobs
      THEN [t \in {0} \X (0 .. DivCeil(call.outputs, OutputsPerJob) - 1) |-> OutputGroup(t[2])]
      ELSE [t \in UNION {{r} \X (0 .. ChunkCount(call.len, GroupLen(r)) - 1) : r \in OutputRows}
              |-> RowGroup(t[1], t[2])]

\* split_native_encode_jobs: aligned ranges, each across all outputs.
NativeJobCount(group_len) == DivCeil(call.len, group_len)

NativeJobs ==
    LET group_len == DivCeil(DivCeil(call.len, decision.jobs), Alignment) * Alignment
        step == AtLeastOne(decision.chunk_len)
    IN [t \in {0} \X (0 .. NativeJobCount(group_len) - 1) |->
          LET len == LenOfChunk(call.len, group_len, t[2])
          IN [n \in 1 .. ChunkCount(len, step) |->
                LET k == n - 1
                IN Piece(AllRows, t[2] * group_len + k * step,
                         t[2] * group_len + k * step, LenOfChunk(len, step, k))]]

\* The serial loop: all outputs, a chunk at a time, whatever was decided.
SerialLoop ==
    LET step == Min({SerialChunkLen(call.len), call.len})
    IN [t \in {<<0, 0>>} |->
          [n \in 1 .. ChunkCount(call.len, step) |->
             Piece(AllRows, (n - 1) * step, (n - 1) * step, LenOfChunk(call.len, step, n - 1))]]

Nothing == [t \in {} |-> <<>>]

\* Native kernels are for encoding bytes with two to four jobs; which build has them
\* is left open.
Split ==
    /\ pc = "split"
    /\ \/ call.len = 0 /\ tasks' = Nothing
       \/ call.len > 0 /\ ~ decision.use_parallel /\ tasks' = SerialLoop
       \/ call.len > 0 /\ decision.use_parallel /\ tasks' = ForEachOutputChunk
       \/ /\ call.len > 0 /\ decision.use_parallel
          /\ call.coding /\ call.esize = 1 /\ decision.jobs \in 2 .. 4
          /\ tasks' = NativeJobs
    /\ done' = [t \in DOMAIN tasks' |-> 0]
    /\ pc' = "run"
    /\ UNCHANGED <<call, decision, out>>

-----------------------------------------------------------------------------
(***************************************************************************)
(* Running the tasks.                                                      *)
(***************************************************************************)
Unfinished == {t \in DOMAIN tasks : done[t] < Len(tasks[t])}

CodePiece(t) ==
    /\ pc = "run"
    /\ t \in Unfinished
    /\ LET p == tasks[t][done[t] + 1]
       IN out' = [r \in OutputRows |-> [x \in 0 .. call.len - 1 |->
                    IF r \in DOMAIN p.rows /\ x \in p.at .. p.at + p.len - 1
                      THEN Append(out[r][x], <<p.rows[r], p.start + x - p.at>>)
                      ELSE out[r][x]]]
    /\ done' = [done EXCEPT ![t] = @ + 1]
    /\ UNCHANGED <<call, decision, tasks, pc>>

Join ==
    /\ pc = "run"
    /\ Unfinished = {}
    /\ pc' = "done"
    /\ UNCHANGED <<call, decision, tasks, done, out>>

\* What a codec of a setup encodes with, and what that must keep to.
NoEntry == [outputs |-> 0]
Coding(s) ==
    [policy |-> resolve_policy_cache_with_options(s).data, coding |-> TRUE, entry |-> NoEntry,
     asked |-> AskedJobs(s, "code")]

\* What it reconstructs n outputs of one stage with, when m more are missing:
\* reconstruct_data_opt, reconstruct_opt, the same with a prepared workspace,
\* which has no entry decision, and reconstruct_some_opt.
Stages(s, n, m) ==
    LET cache == resolve_policy_cache_with_options(s)
        stage(policies, k, data_only, name) ==
            [policy |-> policies[k], coding |-> FALSE,
             entry |-> [outputs |-> IF data_only THEN n ELSE n + m,
                        policy |-> reconstruct_policy(cache, data_only)],
             asked |-> AskedJobs(s, name)]
        staged == {stage(reconstruct_stage_policies(cache, TRUE), 1, TRUE, "data_only"),
                  stage(reconstruct_stage_policies(cache, FALSE), 1, FALSE, "full_data"),
                  stage(reconstruct_stage_policies(cache, FALSE), 2, FALSE, "full_parity")}
    IN  staged \cup {[u EXCEPT !.entry = NoEntry] : u \in staged}
              \cup {[Coding(s) EXCEPT !.coding = FALSE]}

Call(len, outputs, esize, avail, under) ==
    [len |-> len, outputs |-> outputs, esize |-> esize, avail |-> avail,
     policy |-> under.policy, coding |-> under.coding, entry |-> under.entry,
     asked |-> under.asked]

Calls ==
    UNION {{Call(l, n, IF s.bytes THEN 1 ELSE ElementSize, a, u) :
              u \in {Coding(s)} \cup (IF s.bytes THEN UNION {Stages(s, n, m) : m \in MissingBesides}
                                    ELSE {})} :
             l \in ShardLens, n \in OutputCounts, a \in Parallelisms, s \in Setups}

InitWith(c) ==
    /\ call = c
    /\ decision = NoDecision
    /\ tasks = Nothing
    /\ done = Nothing
    /\ out = [r \in OutputRows |-> [x \in 0 .. call.len - 1 |-> <<>>]]
    /\ pc = "decide"

Init == \E c \in Calls : InitWith(c)

Next ==
    \/ DecideSerialEntry
    \/ Decide
    \/ Split
    \/ \E t \in DOMAIN tasks : CodePiece(t)
    \/ Join

Spec == Init /\ [][Next]_vars

-----------------------------------------------------------------------------
(***************************************************************************)
(* Properties.                                                             *)
(***************************************************************************)

\* Whatever the lengths, counts and policy, and in whatever order the tasks
\* run: no output element is coded twice, each with its own matrix row from the
\* input elements at its own position, and when the call returns none is left.
\* There are never more tasks to run at a time than the jobs that were decided
\* ("at most `jobs` active callbacks"), nor more jobs than threads, nor than the
\* codec's options and environment allow that call or stage.
CodedOnce ==
    /\ \A r \in OutputRows, x \in 0 .. call.len - 1 :
         /\ out[r][x] \in {<<>>, << <<r, x>> >>}
         /\ pc = "done" => out[r][x] # <<>>
    /\ Cardinality(Unfinished) <= AtLeastOne(decision.jobs)
    /\ decision.jobs <= (IF call.asked = 0 THEN AtLeastOne(call.avail)
                         ELSE Min({call.asked, AtLeastOne(call.avail)}))
=============================================================================
