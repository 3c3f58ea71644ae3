--------------------------- MODULE RuntimeMetrics ---------------------------
(***************************************************************************)
(* The profile counters: those of a codec (RuntimeProfileMetrics in        *)
(* core/metrics.rs), of the Leopard GF8 encoder (core/leopard_gf8/mod.rs)  *)
(* and of the NEON kernels (galois_8/profile.rs); MetricRecordings has     *)
(* their fields and what a call adds.  A bank is a record of atomics that  *)
(* every thread adds to, one counter at a time and with no lock, while     *)
(* another takes a snapshot or resets it the same way.                     *)
(*                                                                         *)
(* The accesses are Relaxed, and no property relates two counters before   *)
(* everybody is done: which of two accesses comes first matters counter by *)
(* counter only.  So every operation goes through the counters in the      *)
(* order of the fields, whatever the order it names them in, and a         *)
(* behaviour with snapshots follows only a few of the counters.  One that  *)
(* no recording adds to stays zero and is left out.                        *)
(***************************************************************************)
EXTENDS MetricRecordings, Sequences, FiniteSets, SequencesExt

CONSTANTS
    Recorders,            \* threads that record
    Pairings(_),          \* of a bank: what each recorder may record, at most once
    MaxFollowed,          \* counters followed when there are snapshots
    MaxSnapshots(_),      \* of a bank: snapshots the reader takes
    MaxResets             \* resets while the others run

VARIABLES
    bank,       \* the bank the behaviour is about
    metered,    \* whether the benchmark-metrics feature is built in
    plan,       \* what each recorder is going to record
    followed,   \* the counters the behaviour is about
    waiting,    \* recorders that have not come to it
    pending,    \* of each recorder, the counters its call has yet to add to
    counters,   \* the atomics
    loading,    \* counters the snapshot has yet to load
    snapshot,   \* what it has loaded
    taken,      \* the finished snapshots, each with the bounds it must meet
    clearing,   \* counters the reset has yet to store
    resets,     \* resets begun
    ledger      \* what was recorded, for the properties

vars == <<bank, metered, plan, followed, waiting, pending, counters, loading, snapshot, taken, clearing,
          resets, ledger>>

----------------------------------------------------------------------------
(* The counters recordings add to; adding zero changes nothing.            *)
Touched(p) == {i[1] : i \in {j \in UNION {p[r] : r \in Recorders} : j[2] # 0}}

Zero == [c \in followed |-> 0]

Order == SelectSeq(Fields(bank), LAMBDA c : c \in followed)

(* MetricCounter is empty without the feature, and loads as zero.  The     *)
(* NEON bank is not made of them and always counts.                        *)
fetch_add(c, value) == IF metered THEN [counters EXCEPT ![c] = @ + value] ELSE counters

load(c) == IF metered THEN counters[c] ELSE 0

(* What a recording comes to, counter by counter.                          *)
Amounts(recording) ==
    [c \in followed |-> IF \E i \in recording : i[1] = c
                       THEN (CHOOSE i \in recording : i[1] = c)[2] ELSE 0]

Plus(f, g) == [c \in followed |-> f[c] + g[c]]

Recording(r) == pending[r] # << >>

UnderWay == [c \in followed |->
    FoldFunction(+, 0, [r \in Recorders |-> IF Recording(r) THEN Amounts(plan[r])[c] ELSE 0])]

InitWith(b, m, p, f) ==
    /\ bank = b
    /\ metered = m
    /\ plan = p
    /\ followed = f
    /\ waiting = {r \in Recorders : Amounts(plan[r]) # Zero}
    /\ pending = [r \in Recorders |-> << >>]
    /\ counters = Zero
    /\ loading = << >>
    /\ snapshot = Zero
    /\ taken = << >>
    /\ clearing = << >>
    /\ resets = 0
    /\ ledger = [applied |-> Zero,   \* additions made since the start
                 since |-> Zero,     \* recordings finished since the last reset
                 torn |-> FALSE,     \* one of them overlapped that reset
                 cut |-> FALSE,      \* a reset overlapped the snapshot being taken
                 low |-> Zero,       \* since, when that snapshot began
                 from |-> Zero]      \* applied, when that snapshot began

Init ==
    \E b \in Banks, m \in BOOLEAN :
        /\ b = "neon" => m
        /\ \E p \in Pairings(b) :
            \E f \in {Touched(p)} \cup kSubset(MaxFollowed, Touched(p)) : InitWith(b, m, p, f)

(* A call into the codec reaches a recording.                              *)
BeginRecording(r) ==
    /\ r \in waiting
    /\ waiting' = waiting \ {r}
    /\ pending' = [pending EXCEPT ![r] = SelectSeq(Order, LAMBDA c : Amounts(plan[r])[c] # 0)]
    /\ ledger' = [ledger EXCEPT !.torn = @ \/ clearing # << >>]
    /\ UNCHANGED <<bank, metered, plan, followed, counters, loading, snapshot, taken, clearing, resets>>

(* One addition; the last one ends the recording.                          *)
FetchAdd(r) ==
    /\ Recording(r)
    /\ LET c == Head(pending[r])
           value == Amounts(plan[r])[c]
       IN  /\ pending' = [pending EXCEPT ![r] = Tail(@)]
           /\ counters' = fetch_add(c, value)
           /\ ledger' = [ledger EXCEPT
                 !.applied[c] = @ + value,
                 !.since = IF Len(pending[r]) = 1 THEN Plus(@, Amounts(plan[r])) ELSE @]
    /\ UNCHANGED <<bank, metered, plan, followed, waiting, loading, snapshot, taken, clearing, resets>>

(* snapshot: one load per field.                                           *)
BeginSnapshot ==
    /\ loading = << >>
    /\ Len(taken) < MaxSnapshots(bank)
    /\ Cardinality(followed) <= MaxFollowed
    /\ loading' = Order
    /\ ledger' = [ledger EXCEPT !.low = ledger.since, !.from = ledger.applied,
                                !.cut = clearing # << >>]
    /\ UNCHANGED <<bank, metered, plan, followed, waiting, pending, counters, snapshot, taken, clearing,
                   resets>>

Load ==
    /\ loading # << >>
    /\ loading' = Tail(loading)
    /\ LET seen == [snapshot EXCEPT ![Head(loading)] = load(Head(loading))]
       IN  IF loading' # << >>
           THEN snapshot' = seen /\ UNCHANGED taken
           ELSE /\ snapshot' = Zero
                /\ taken' = Append(taken,
                      [values |-> seen,
                       within |-> ~ledger.cut /\ ~ledger.torn,
                       low |-> ledger.low, high |-> Plus(ledger.since, UnderWay),
                       from |-> ledger.from, to |-> ledger.applied])
    /\ UNCHANGED <<bank, metered, plan, followed, waiting, pending, counters, clearing, resets, ledger>>

(* Mutant: a reset written before a field was added to the bank.           *)
reset_without_last == Front(Order)
(* The fields reset stores zero in.                                        *)
reset == Order

BeginReset ==
    /\ clearing = << >>
    /\ resets < MaxResets
    /\ clearing' = reset
    /\ resets' = resets + 1
    /\ ledger' = [ledger EXCEPT !.since = Zero,
                                !.torn = \E r \in Recorders : Recording(r),
                                !.cut = @ \/ loading # << >>]
    /\ UNCHANGED <<bank, metered, plan, followed, waiting, pending, counters, loading, snapshot, taken>>

ResetStore ==
    /\ clearing # << >>
    /\ clearing' = Tail(clearing)
    /\ counters' = [counters EXCEPT ![Head(clearing)] = 0]
    /\ UNCHANGED <<bank, metered, plan, followed, waiting, pending, loading, snapshot, taken, resets, ledger>>

Next ==
    \/ \E r \in Recorders : BeginRecording(r) \/ FetchAdd(r)
    \/ BeginSnapshot
    \/ Load
    \/ BeginReset
    \/ ResetStore

Spec == Init /\ [][Next]_vars

(* The growth between two snapshots, never below zero.                     *)
saturating_sub(later, baseline) ==
    [c \in followed |-> IF later[c] < baseline[c] THEN 0 ELSE later[c] - baseline[c]]

----------------------------------------------------------------------------
(* Totals and the parts they are the totals of.                            *)
AddsUp ==
    LET v(c) == IF c \in followed THEN counters[c] ELSE 0
        sum(total, parts) == v(total) = FoldSeq(LAMBDA p, n : v(p) + n, 0, parts)
    IN  CASE bank = "runtime" ->
               sum("parallel_policy_calls", <<"parallel_policy_parallel", "parallel_policy_serial">>)
          [] bank = "leopard_gf8" ->
               /\ sum("ifft_stage_calls", <<"first_group_ifft_calls", "later_group_ifft_calls",
                                            "remainder_group_ifft_calls">>)
               /\ sum("input_copy_bytes",
                      <<"first_group_input_copy_bytes", "later_group_input_copy_bytes",
                        "remainder_group_input_copy_bytes">>)
               /\ sum("zero_fill_bytes",
                      <<"first_group_zero_fill_bytes", "later_group_zero_fill_bytes",
                        "remainder_group_zero_fill_bytes">>)
               /\ sum("xor_bytes", <<"later_group_xor_bytes", "remainder_group_xor_bytes">>)
          [] bank = "neon" ->
               /\ v("total_bytes") = 64 * v("vector_64b_chunks") + 16 * v("vector_16b_chunks")
                                     + v("tail_bytes")
               /\ v("table_lookups") = 8 * v("vector_64b_chunks") + 2 * v("vector_16b_chunks")

(* What the statistics are worth, though nothing is taken atomically:      *)
(* (a) once every recording is over and none overlapped the last reset,    *)
(*     the counters hold what was recorded since it, or zero when they     *)
(*     are compiled out, and the totals are the sums of their parts;       *)
(* (b) a snapshot no reset cuts across lies, counter by counter, between   *)
(*     what was finished when it began and what was begun when it ended;   *)
(* (c) the growth between two snapshots of the NEON bank is never more     *)
(*     than was added meanwhile, even when a reset comes in between.       *)
(* snapshot, reset and the recorders of core/metrics.rs,                   *)
(* leopard_gf8/mod.rs and galois_8/profile.rs.                             *)
StatsAreHonest ==
    /\ ( /\ \A r \in Recorders : ~Recording(r)
         /\ clearing = << >>
         /\ ~ledger.torn )
       => /\ counters = IF metered THEN ledger.since ELSE Zero
          /\ followed = Touched(plan) => AddsUp
    /\ \A n \in DOMAIN taken : LET t == taken[n] IN
         IF metered
         THEN t.within => \A c \in followed : t.low[c] <= t.values[c] /\ t.values[c] <= t.high[c]
         ELSE t.values = Zero
    /\ (bank = "neon" /\ Len(taken) > 1)
       => LET grown == saturating_sub(taken[2].values, taken[1].values)
          IN  \A c \in followed : grown[c] <= taken[2].to[c] - taken[1].from[c]
=============================================================================
