----------------------------- MODULE StreamCodec -----------------------------
(***************************************************************************)
(* The streaming codec (stream.rs): encode_stream, verify_stream,          *)
(* reconstruct_stream_from and the in-memory reconstruct_stream, each one  *)
(* call that reads a block of every stream, codes it and writes it, until  *)
(* all readers are at their end.  Readers may return short counts, be      *)
(* interrupted or fail; writers may accept a part, be interrupted or fail; *)
(* both sides run serially or under rayon.                                 *)
(*                                                                         *)
(* The byte of shard i at offset p is abstracted to <<i, p>>.  A coded     *)
(* parity byte is the column of data bytes it was computed from, a         *)
(* recovered byte the one of its shard and offset if all survivors'        *)
(* buffers show that offset.                                               *)
(***************************************************************************)
EXTENDS Integers, Sequences, FiniteSets, FiniteSetsExt

CONSTANTS
    Ops,            \* the entry points called
    DataShards, ParityShards,
    BlockSize,      \* options.block_size after the clamp
    Lengths,        \* stream lengths
    Faults,         \* offsets at which a read or a write may fail
    MaxInterrupts   \* bound on the interruptions

Total == DataShards + ParityShards
Streams == 0 .. Total - 1
Data == 0 .. DataShards - 1
Parity == Streams \ Data
LongestStream == Max(Lengths)
Never == LongestStream + 1      \* the offset of a fault that does not happen

ASSUME StreamAssumption ==
    /\ Ops \subseteq {"encode", "verify", "reconstruct", "reconstruct_cursors"}
    /\ DataShards \in Nat \ {0} /\ ParityShards \in Nat \ {0} /\ BlockSize \in Nat \ {0}
    /\ Lengths \subseteq Nat /\ \E m \in Lengths \ {0} : \A l \in Lengths : l <= m
    /\ Faults \subseteq 0 .. LongestStream
    /\ MaxInterrupts \in Nat

VARIABLES
    call,       \* the arguments: entry point, family, counts, layout, modes
    source,     \* what each reader holds: [start, len, fault]
    limit,      \* the bytes each writer takes before it fails
    pc,         \* "begin", "read", "write" or "done"
    pos,        \* the position of each reader
    buf,        \* the block buffers, reused from block to block
    got,        \* bytes read into each buffer for this block
    ended,      \* the readers that are through with this block
    put,        \* bytes of this block each writer has taken
    failed,     \* the streams of this stage that failed (rayon only)
    block,      \* actual_len of the block being written
    out,        \* everything each writer has taken
    result,     \* what the call returned: [kind, shard]
    interrupts  \* interruptions so far

vars == <<call, source, limit, pc, pos, buf, got, ended, put, failed, block, out,
          result, interrupts>>
given == <<call, source, limit>>

Zero == <<-1, -1>>
Garbage == <<-2, -2>>
NoResult == [kind |-> "none", shard |-> 0]

Return(kind, shard) ==
    /\ pc' = "done"
    /\ result' = [kind |-> kind, shard |-> shard]

Recovers == call.op \in {"reconstruct", "reconstruct_cursors"}

-----------------------------------------------------------------------------
(***************************************************************************)
(* Arguments.                                                              *)
(***************************************************************************)

\* validate_stream_count: `extra` streams more than expected.
CountError(extra) ==
    IF extra < 0 THEN "TooFewShards" ELSE IF extra > 0 THEN "TooManyShards" ELSE "Ok"

FamilyError == IF call.family = "Classic" THEN "Ok" ELSE "UnsupportedCodecFamily"

\* A shard has a reader or a writer, never both or neither.
Misplaced(rd, wr) == {i \in Streams : (i \in rd) = (i \in wr)}

QuorumError(rd) == IF Cardinality(rd) < DataShards THEN "TooFewShardsPresent" ELSE "Ok"

\* A shard is missing from an array of cursors when its cursor is empty.
NonEmpty == {i \in Streams : source[i].len # 0}

\* The checks of each entry point, in its order: [kind, shard] of the first
\* that fails.
ArgumentErrors ==
    LET at0(e) == [kind |-> e, shard |-> 0]
        layout == Misplaced(call.rd, call.wr)
    IN CASE call.op = "encode" ->
              <<at0(FamilyError), at0(CountError(call.readers)), at0(CountError(call.writers))>>
         [] call.op = "verify" ->
              <<at0(FamilyError), at0(CountError(call.readers))>>
         [] call.op = "reconstruct" ->
              <<at0(CountError(call.readers)), at0(CountError(call.writers)), at0(FamilyError),
                IF layout = {} THEN at0("Ok")
                  ELSE [kind |-> "InvalidShardFlags", shard |-> Min(layout)],
                at0(QuorumError(call.rd))>>
         [] call.op = "reconstruct_cursors" ->
              <<at0(CountError(call.readers)), at0(FamilyError),
                at0(IF NonEmpty = {} THEN "Ok" ELSE QuorumError(NonEmpty))>>

Rejections == {k \in DOMAIN ArgumentErrors : ArgumentErrors[k].kind # "Ok"}
Rejection == ArgumentErrors[Min(Rejections)]

-----------------------------------------------------------------------------
(***************************************************************************)
(* Reading a block.                                                        *)
(***************************************************************************)

\* prepare_read_buffer: a buffer of block_size bytes that keeps its old
\* contents, whatever they are.
Prepared(s) == [k \in 1 .. BlockSize |-> IF k <= Len(s) THEN s[k] ELSE Zero]

NextBlock(rd) ==
    /\ pc' = "read"
    /\ buf' = [i \in Streams |-> IF i \in rd THEN Prepared(buf[i]) ELSE buf[i]]
    /\ got' = [i \in Streams |-> 0]
    /\ put' = [i \in Streams |-> 0]
    /\ ended' = {}
    /\ failed' = {}

\* Validation precedes all I/O.  The array of cursors becomes readers, rewound,
\* and writers; one of empty cursors only has nothing to recover.
Begin ==
    /\ pc = "begin"
    /\ \/ /\ Rejections # {}
          /\ Return(Rejection.kind, Rejection.shard)
          /\ UNCHANGED <<call, pos, buf, got, put, ended, failed>>
       \/ /\ Rejections = {}
          /\ call.op # "reconstruct_cursors"
          /\ NextBlock(call.rd)
          /\ UNCHANGED <<call, pos, result>>
       \/ /\ Rejections = {}
          /\ call.op = "reconstruct_cursors" /\ NonEmpty = {}
          /\ Return("Ok", 0)
          /\ UNCHANGED <<call, pos, buf, got, put, ended, failed>>
       \/ /\ Rejections = {}
          /\ call.op = "reconstruct_cursors" /\ NonEmpty # {}
          /\ call' = [call EXCEPT !.rd = NonEmpty, !.wr = Streams \ NonEmpty]
          /\ pos' = [i \in Streams |-> 0]
          /\ NextBlock(NonEmpty)
          /\ UNCHANGED result
    /\ UNCHANGED <<source, limit, block, out, interrupts>>

\* The readers whose read_one_stream may take a step: all of them under rayon,
\* otherwise the first that is not through.
Reading ==
    IF pc # "read" THEN {}
    ELSE {i \in call.rd \ (ended \cup failed) :
            call.par_read \/ \A j \in call.rd : j < i => j \in ended}

\* What is read at offset p; one byte of a shard may have been damaged.
ByteAt(i, p) == IF <<i, p>> = call.damaged THEN Garbage ELSE <<i, p>>

\* reader.read(&mut buf[total..])
Room(i) == BlockSize - got[i]

ReadSome(i, n) ==
    /\ i \in Reading
    /\ n <= Room(i)
    /\ pos[i] + n <= Min({source[i].len, source[i].fault})
    /\ pos' = [pos EXCEPT ![i] = @ + n]
    /\ buf' = [buf EXCEPT ![i] = [k \in DOMAIN @ |->
                 IF k \in got[i] + 1 .. got[i] + n
                   THEN ByteAt(i, pos[i] + k - got[i]) ELSE @[k]]]
    /\ got' = [got EXCEPT ![i] = @ + n]
    /\ ended' = IF got[i] + n = BlockSize THEN ended \cup {i} ELSE ended
    /\ UNCHANGED <<given, pc, put, failed, block, out, result, interrupts>>

ReadEnd(i) ==
    /\ i \in Reading
    /\ pos[i] = source[i].len /\ pos[i] # source[i].fault
    /\ ended' = ended \cup {i}
    /\ UNCHANGED <<given, pc, pos, buf, got, put, failed, block, out, result, interrupts>>

\* A serial read error ends the call; under rayon other readers may be busy.
ReadFails(i) ==
    /\ i \in Reading
    /\ pos[i] = source[i].fault
    /\ \/ ~ call.par_read /\ Return("Read", i) /\ UNCHANGED failed
       \/ call.par_read /\ failed' = failed \cup {i} /\ UNCHANGED <<pc, result>>
    /\ UNCHANGED <<given, pos, buf, got, ended, put, block, out, interrupts>>

ReadInterrupted(i) ==
    /\ i \in Reading
    /\ interrupts < MaxInterrupts
    /\ interrupts' = interrupts + 1
    /\ UNCHANGED <<given, pc, pos, buf, got, ended, put, failed, block, out, result>>

\* try_for_each: after a failure a stream that was not started may be left out,
\* one that was started is finished; the error of any failed one is returned.
ReadsAbort(i) ==
    /\ pc = "read"
    /\ i \in failed
    /\ \A j \in call.rd \ (ended \cup failed) : got[j] = 0
    /\ Return("Read", i)
    /\ UNCHANGED <<given, pos, buf, got, ended, put, failed, block, out, interrupts>>

-----------------------------------------------------------------------------
(***************************************************************************)
(* Coding the block.                                                       *)
(***************************************************************************)

\* Mutant: the shortest read decides the length of the block.
ActualLenShortest == Min({got[i] : i \in call.rd})

\* The longest read decides the length of the block.
ActualLen == Max({got[i] : i \in call.rd})

\* Mutant: buffers of missing shards, which keep the last block, count as read.
MisfitsRetained == {i \in Streams :
    IF i \in call.rd THEN got[i] # ActualLen ELSE Len(buf[i]) > ActualLen}

\* The readers that ended before the others in this block.
Misfits == {i \in call.rd : got[i] # ActualLen}

\* Mutant: the tail behind a short read is not cleared.
FinishedDirty(i) == buf[i]

\* StreamReadBuffer::finish_block: zeros behind a short read.
Finished(i) == [k \in DOMAIN buf[i] |->
                  IF k \in got[i] + 1 .. ActualLen THEN Zero ELSE buf[i][k]]

\* The column of coded bytes at k.
Coded(b, k) == [i \in Data |-> b[i][k]]

\* The byte of `target` computed from the rows of S at k.
Recovered(b, S, target, k) ==
    LET offsets == {b[i][k][2] : i \in S}
    IN IF \A i \in S : b[i][k] = <<i, Min(offsets)>> /\ Cardinality(offsets) = 1
         THEN <<target, Min(offsets)>> ELSE Garbage

FirstSurvivors == {i \in call.rd : Cardinality({j \in call.rd : j < i}) < DataShards}

Rebuilt(b, S, targets) ==
    [i \in Streams |-> IF i \in targets
                         THEN [k \in 1 .. ActualLen |-> Recovered(b, S, i, k)] ELSE b[i]]

\* encode_sep_opt into the resized parity buffers.
EncodeBlock ==
    LET b == [i \in Streams |-> IF i \in Data THEN Finished(i) ELSE buf[i]]
    IN [i \in Streams |-> IF i \in Parity THEN [k \in 1 .. ActualLen |-> Coded(b, k)] ELSE b[i]]

\* reconstruct_block: missing data from the survivors, then missing parity from
\* the data, on the truncated buffers of the readers.
ReconstructBlock ==
    LET b == [i \in Streams |-> IF i \in call.rd THEN SubSeq(buf[i], 1, got[i]) ELSE buf[i]]
        data == Rebuilt(b, FirstSurvivors, Data \ call.rd)
    IN Rebuilt(data, Data, Parity \ call.rd)

\* verify_with_buffer_opt: every column must be one column of the stripe.
Verifies == \A k \in 1 .. ActualLen : Recovered(buf, Streams, 0, k) # Garbage

WriteBlock(b) ==
    /\ pc' = "write"
    /\ buf' = b
    /\ block' = ActualLen
    /\ UNCHANGED <<call, got, ended, put, failed, result>>

Stop(kind, shard) ==
    /\ Return(kind, shard)
    /\ UNCHANGED <<call, buf, got, ended, put, failed, block>>

\* Every reader is through: the block is coded, in memory and in one go.
CodeBlock ==
    /\ pc = "read" /\ ended = call.rd
    /\ \/ ActualLen = 0 /\ Stop("Ok", 0)
       \/ ActualLen # 0 /\ call.op = "encode" /\ WriteBlock(EncodeBlock)
       \/ /\ ActualLen # 0 /\ call.op # "encode" /\ Misfits # {}
          /\ Stop("IncorrectShardSize", Min(Misfits))
       \/ ActualLen # 0 /\ call.op = "verify" /\ Misfits = {} /\ ~ Verifies /\ Stop("False", 0)
       \/ /\ ActualLen # 0 /\ call.op = "verify" /\ Misfits = {} /\ Verifies
          /\ UNCHANGED <<call, result, block>>
          /\ NextBlock(call.rd)
       \/ /\ ActualLen # 0 /\ Recovers /\ Misfits = {} /\ call.singular /\ Data \ call.rd # {}
          /\ Stop("InvalidCustomMatrix", 0)
       \/ /\ ActualLen # 0 /\ Recovers /\ Misfits = {} /\ ~ (call.singular /\ Data \ call.rd # {})
          /\ WriteBlock(ReconstructBlock)
    /\ UNCHANGED <<source, limit, pos, out, interrupts>>

-----------------------------------------------------------------------------
(***************************************************************************)
(* Writing the block.                                                      *)
(***************************************************************************)
Writing ==
    IF pc # "write" THEN {}
    ELSE {w \in call.wr \ failed :
            put[w] < block /\ (call.par_write \/ \A v \in call.wr : v < w => put[v] = block)}

WriteSome(w, n) ==
    /\ w \in Writing
    /\ n <= block - put[w]
    /\ Len(out[w]) + n <= limit[w]
    /\ out' = [out EXCEPT ![w] = @ \o SubSeq(buf[w], put[w] + 1, put[w] + n)]
    /\ put' = [put EXCEPT ![w] = @ + n]
    /\ UNCHANGED <<given, pc, pos, buf, got, ended, failed, block, result, interrupts>>

\* Mutant: a writer that takes nothing is asked again.
WriteStalls(w) ==
    /\ w \in Writing
    /\ Len(out[w]) = limit[w]
    /\ UNCHANGED vars

\* An error, or a writer that takes nothing.
WriteFails(w) ==
    /\ w \in Writing
    /\ Len(out[w]) = limit[w]
    /\ \/ ~ call.par_write /\ Return("Write", w) /\ UNCHANGED failed
       \/ call.par_write /\ failed' = failed \cup {w} /\ UNCHANGED <<pc, result>>
    /\ UNCHANGED <<given, pos, buf, got, ended, put, block, out, interrupts>>

WriteInterrupted(w) ==
    /\ w \in Writing
    /\ interrupts < MaxInterrupts
    /\ interrupts' = interrupts + 1
    /\ UNCHANGED <<given, pc, pos, buf, got, ended, put, failed, block, out, result>>

\* As ReadsAbort; write_block_par keeps the recorded error of the lowest index,
\* the recovery writers return the error of any failed one.
WritesAbort(w) ==
    /\ pc = "write"
    /\ w \in failed
    /\ call.op = "encode" => w = Min(failed)
    /\ \A v \in call.wr \ failed : put[v] \in {0, block}
    /\ Return("Write", w)
    /\ UNCHANGED <<given, pos, buf, got, ended, put, failed, block, out, interrupts>>

TakenByAll == \A w \in call.wr : put[w] = block

BlockWritten ==
    /\ pc = "write"
    /\ TakenByAll
    /\ UNCHANGED call
    /\ NextBlock(call.rd)
    /\ UNCHANGED <<source, limit, pos, block, out, result, interrupts>>

-----------------------------------------------------------------------------
(***************************************************************************)
(* The calls.  Whether I/O is parallel follows from the options and the    *)
(* number of streams; every combination occurs.  A damaged byte matters to *)
(* verification only, a singular matrix to recovery only.                  *)
(***************************************************************************)
ReaderSets(op) ==
    CASE op = "encode" -> {Data}
      [] op \in {"verify", "reconstruct_cursors"} -> {Streams}
      [] op = "reconstruct" -> SUBSET Streams

WriterSets(op) ==
    CASE op = "encode" -> {Parity}
      [] op \in {"verify", "reconstruct_cursors"} -> {{}}
      [] op = "reconstruct" -> SUBSET Streams

CallsOf(op) ==
    [op : {op}, family : {"Classic", "Leopard"}, readers : -1 .. 1,
     writers : IF op \in {"encode", "reconstruct"} THEN -1 .. 1 ELSE {0},
     rd : ReaderSets(op), wr : WriterSets(op), par_read : BOOLEAN, par_write : BOOLEAN,
     singular : IF op = "reconstruct" THEN BOOLEAN ELSE {FALSE},
     damaged : IF op = "verify" THEN {Zero, <<0, LongestStream>>} ELSE {Zero}]

Calls == UNION {CallsOf(op) : op \in Ops}

\* The modes and the streams do not matter to a call that is turned away.
PlainStreams ==
    /\ ~ call.par_read /\ ~ call.par_write /\ ~ call.singular
    /\ source = [i \in Streams |-> [start |-> 0, len |-> LongestStream, fault |-> Never]]
    /\ limit = [i \in Streams |-> Never]

\* One reader may fail, and any writer; cursors do not fail, and may have been
\* left at their end.  Flags that make no difference are not varied.
AnyStreams ==
    /\ call.wr = {} /\ call.op # "reconstruct_cursors" => ~ call.par_write
    /\ call.singular => Data \ call.rd # {}
    /\ \E len \in [call.rd -> Lengths], bad \in SUBSET call.rd, f \in Faults, at_end \in BOOLEAN :
          /\ Cardinality(bad) <= 1
          /\ call.op = "reconstruct_cursors" => bad = {}
          /\ at_end => call.op = "reconstruct_cursors"
          /\ source = [i \in Streams |->
                 IF i \notin call.rd THEN [start |-> 0, len |-> 0, fault |-> Never]
                 ELSE [start |-> IF at_end THEN len[i] ELSE 0, len |-> len[i],
                       fault |-> IF i \in bad /\ f <= len[i] THEN f ELSE Never]]
    /\ \E lim \in [call.wr -> Faults \cup {Never}] :
          limit = [i \in Streams |-> IF i \in call.wr THEN lim[i] ELSE Never]

Init ==
    /\ call \in Calls
    /\ IF call.readers = 0 /\ call.writers = 0 /\ call.family = "Classic"
          /\ (call.op = "reconstruct" => Misplaced(call.rd, call.wr) = {})
         THEN AnyStreams ELSE PlainStreams
    /\ pc = "begin"
    /\ pos = [i \in Streams |-> source[i].start]
    /\ buf = [i \in Streams |-> <<>>]
    /\ got = [i \in Streams |-> 0]
    /\ put = [i \in Streams |-> 0]
    /\ ended = {} /\ failed = {}
    /\ block = 0
    /\ out = [i \in Streams |-> <<>>]
    /\ result = NoResult
    /\ interrupts = 0

Next ==
    \/ Begin
    \/ \E i \in Streams, n \in 1 .. BlockSize : ReadSome(i, n)
    \/ \E i \in Streams : ReadEnd(i)
    \/ \E i \in Streams : ReadFails(i)
    \/ \E i \in Streams : ReadInterrupted(i)
    \/ \E i \in Streams : ReadsAbort(i)
    \/ CodeBlock
    \/ \E w \in Streams, n \in 1 .. BlockSize : WriteSome(w, n)
    \/ \E w \in Streams : WriteFails(w)
    \/ \E w \in Streams : WriteInterrupted(w)
    \/ \E w \in Streams : WritesAbort(w)
    \/ BlockWritten

\* The call runs: its threads are scheduled, its readers and writers answer,
\* and interruptions stop.
Spec == Init /\ [][Next]_vars /\ WF_vars(Next)

-----------------------------------------------------------------------------
(***************************************************************************)
(* Properties.                                                             *)
(***************************************************************************)

\* The type invariant; the scratch buffers never outgrow a block.
TypeOK ==
    /\ pc \in {"begin", "read", "write", "done"}
    /\ got \in [Streams -> 0 .. BlockSize]
    /\ put \in [Streams -> 0 .. BlockSize]
    /\ \A i \in Streams : Len(buf[i]) <= BlockSize /\ pos[i] <= source[i].len
    /\ ended \subseteq Streams /\ failed \subseteq Streams
    /\ block \in 0 .. BlockSize
    /\ interrupts \in 0 .. MaxInterrupts

Longest == Max({source[i].len : i \in call.rd})

\* What the k-th byte of shard w has to be: for encode_stream the parity of
\* the k-th data bytes, shorter streams continued with zeros.
Expected(w, k) ==
    IF call.op = "encode"
      THEN [i \in Data |-> IF k <= source[i].len THEN <<i, k>> ELSE Zero]
      ELSE <<w, k>>

\* Whatever the block size, the short reads, the interruptions and the modes,
\* a writer has at every moment a prefix of the stream it should receive; also
\* when the call fails half-way.  "Each block is fully read and length-checked
\* before any of its recovered bytes are written": no writer is ahead of a
\* reader, and no two writers are more than a block apart.
OutputsRight ==
    \A w \in call.wr :
       /\ \A k \in DOMAIN out[w] : out[w][k] = Expected(w, k)
       /\ Recovers => \A i \in call.rd : Len(out[w]) <= pos[i]
       /\ \A v \in call.wr : Len(out[w]) <= Len(out[v]) + BlockSize

\* Success is complete: all parity up to the longest data stream, all missing
\* shards up to the common length; verify_stream answers true only if no byte
\* is damaged and no stream is shorter, and false only if one is damaged.
OkIsComplete ==
    /\ result.kind = "Ok" /\ call.rd # {} =>
         /\ \A w \in call.wr : Len(out[w]) = Longest
         /\ call.op # "encode" => \A i \in call.rd : source[i].len = Longest
         /\ call.op = "verify" => call.damaged = Zero \/ Longest < LongestStream
    /\ result.kind = "False" => call.damaged # Zero /\ source[0].len = LongestStream

\* An error names a shard that is really at fault: a reader or a writer at the
\* offset of its fault, or a stream shorter than another one.  A call that is
\* turned away for its arguments has touched no stream, the positions of
\* cursors included (validate_stream_count: "before allocation, I/O or cursor
\* reset").
ErrorsAreTrue ==
    LET i == result.shard
    IN /\ result.kind = "Read" => i \in call.rd /\ pos[i] = source[i].fault
       /\ result.kind = "Write" => i \in call.wr /\ Len(out[i]) = limit[i]
       /\ result.kind = "IncorrectShardSize" =>
            /\ call.op # "encode" /\ i \in call.rd
            /\ source[i].len < Longest
       /\ result.kind = "InvalidCustomMatrix" => call.singular
       /\ result.kind \in {"TooFewShards", "TooManyShards", "UnsupportedCodecFamily",
                           "InvalidShardFlags", "TooFewShardsPresent"} =>
            \A s \in Streams : pos[s] = source[s].start /\ out[s] = <<>>

\* Every call returns, whatever fails: no reader or writer is asked for ever.
StreamReturns == <>(pc = "done")

\* The comment on record_min_error: when several writers fail at once the
\* reported one "no longer depends on thread scheduling but deterministically
\* points at the lowest shard index".
LowestWriterReported ==
    result.kind = "Write" /\ call.op = "encode" =>
      \A w \in call.wr : limit[w] < Len(out[result.shard]) - put[result.shard] + block
                           => result.shard <= w
=============================================================================
