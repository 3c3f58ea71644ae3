---------------------------- MODULE InversionCache ----------------------------
(***************************************************************************)
(* The inverse-matrix cache of one Classic codec, shared by the threads    *)
(* that reconstruct with it.  get_data_decode_matrix (reconstruct.rs) looks*)
(* an erasure pattern up under the cache mutex, builds the inverse outside *)
(* the mutex when it misses, and takes the mutex again to insert it.       *)
(* InversionCache::insert (inversion_cache.rs) keeps an entry budget and a *)
(* byte budget by evicting the least recently used entries.                *)
(*                                                                         *)
(* An inverse is represented by the set of survivor rows it inverts: two   *)
(* inverses are the same matrix exactly when they invert the same rows.    *)
(***************************************************************************)
EXTENDS Integers, FiniteSets, Sequences

CONSTANTS
    Threads,        \* threads that reconstruct with this codec
    TotalShards,    \* total_shard_count
    DataShards,     \* data_shard_count
    Singular,       \* survivor sets whose rows a custom matrix makes singular
    Capacity,       \* entries.capacity()
    MaxBytes,       \* max_bytes
    MatrixBytes,    \* Matrix::retained_bytes of a data_count x data_count matrix
    IndexBytes,     \* size_of::<usize>(), the charge of one key index
    MaxCalls,       \* bound on the calls of get_data_decode_matrix
    Free            \* the mutex has no owner

Shards == 0 .. TotalShards - 1

ASSUME CodecAssumption ==
    /\ TotalShards \in Nat
    /\ DataShards \in 1 .. TotalShards
    /\ Singular \subseteq SUBSET Shards

ASSUME CacheAssumption ==
    /\ IsFiniteSet(Threads)
    /\ Capacity \in Nat
    /\ MaxBytes \in Nat
    /\ MatrixBytes \in Nat
    /\ IndexBytes \in Nat
    /\ MaxCalls \in Nat
    /\ Free \notin Threads

VARIABLES
    inversion_cache,  \* the codec option: is the cache consulted at all
    entries,          \* the LRU list, least recently used first
    retained_bytes,   \* the bytes charged to the entries
    lock,             \* the thread inside the insertion's critical section, or Free
    evicted,          \* local `evictions` of the insertion that holds the mutex
    replaced,         \* history: entries removed because their key was inserted again
    metrics,          \* ReconstructionCacheMetrics
    calls,            \* calls made so far (bounded by MaxCalls)
    pc,               \* where each thread is in get_data_decode_matrix
    req,              \* each thread's arguments and the key derived from them
    answer            \* what each thread's last call returned

cacheVars == <<entries, retained_bytes>>
vars == <<inversion_cache, entries, retained_bytes, lock, evicted, replaced, metrics,
          calls, pc, req, answer>>

-----------------------------------------------------------------------------
(***************************************************************************)
(* Keys and charges.                                                       *)
(***************************************************************************)

\* valid_indices and invalid_indices of a reconstruction shape: the survivors
\* are the first DataShards present shards, in shard order.
FirstSurvivors(S, missing) ==
    /\ S \subseteq Shards \ missing
    /\ Cardinality(S) = DataShards
    /\ \A i \in S, j \in (Shards \ missing) \ S : i < j

\* Wrong on purpose (mutant): a key of the missing data shards only.
CacheErasuresOfData(S, missing) == {m \in missing : m < DataShards}

\* The lookup and insertion key: when the last erasure comes after the last
\* selected survivor, only the erasures before that survivor are kept.
CacheErasures(S, missing) ==
    IF inversion_cache /\ \E m \in missing : \A i \in S : m > i
      THEN {m \in missing : \E i \in S : m < i}
      ELSE missing

\* The accounted bytes of an entry; all matrices of one codec have one size.
Bytes(key) == IndexBytes * Cardinality(key) + MatrixBytes

Entry(key, matrix) == [key |-> key, matrix |-> matrix, bytes |-> Bytes(key)]

\* The positions of the LRU list that hold a key.
At(key) == {i \in DOMAIN entries : entries[i].key = key}

\* LruCache::remove of the entry at position i.
Without(s, i) == [j \in 1 .. Len(s) - 1 |-> IF j < i THEN s[j] ELSE s[j + 1]]

-----------------------------------------------------------------------------
Keys == SUBSET Shards
Matrices == SUBSET Shards
Entries == [key : Keys, matrix : Matrices, bytes : Nat]
Requests == [survivors : SUBSET Shards, missing : SUBSET Shards, key : Keys]
NoRequest == [survivors |-> {}, missing |-> {}, key |-> {}]
Answers == [status : {"none", "ok", "TooFewShardsPresent", "InvalidCustomMatrix"},
            matrix : Matrices]
Answer(status, matrix) == [status |-> status, matrix |-> matrix]
Counters == {"requests", "hits", "misses", "inserts", "evictions"}

Init ==
    /\ inversion_cache \in BOOLEAN
    /\ entries = <<>>
    /\ retained_bytes = 0
    /\ lock = Free
    /\ evicted = 0
    /\ replaced = 0
    /\ metrics = [c \in Counters |-> 0]
    /\ calls = 0
    /\ pc = [t \in Threads |-> "idle"]
    /\ req = [t \in Threads |-> NoRequest]
    /\ answer = [t \in Threads |-> Answer("none", {})]

Return(t, a) ==
    /\ pc' = [pc EXCEPT ![t] = "idle"]
    /\ answer' = [answer EXCEPT ![t] = a]

-----------------------------------------------------------------------------
(***************************************************************************)
(* A call: a survivor list of the wrong length is rejected, or the key is  *)
(* derived and, with the cache on, the request counted before the mutex.   *)
(***************************************************************************)
RejectCount(t, missing) ==
    /\ pc[t] = "idle"
    /\ calls < MaxCalls
    /\ Cardinality(Shards \ missing) # DataShards
    /\ calls' = calls + 1
    /\ req' = [req EXCEPT ![t] =
                 [survivors |-> Shards \ missing, missing |-> missing, key |-> {}]]
    /\ Return(t, Answer("TooFewShardsPresent", {}))
    /\ UNCHANGED <<inversion_cache, cacheVars, lock, evicted, replaced, metrics>>

Request(t, S, missing) ==
    /\ pc[t] = "idle"
    /\ calls < MaxCalls
    /\ FirstSurvivors(S, missing)
    /\ calls' = calls + 1
    /\ req' = [req EXCEPT ![t] = [survivors |-> S, missing |-> missing,
                                  key |-> CacheErasures(S, missing)]]
    /\ answer' = [answer EXCEPT ![t] = Answer("none", {})]
    /\ \/ /\ inversion_cache
          /\ metrics' = [metrics EXCEPT !["requests"] = @ + 1]
          /\ pc' = [pc EXCEPT ![t] = "lookup"]
       \/ /\ ~ inversion_cache
          /\ pc' = [pc EXCEPT ![t] = "build"]
          /\ UNCHANGED metrics
    /\ UNCHANGED <<inversion_cache, cacheVars, lock, evicted, replaced>>

\* A hit makes the entry the most recently used one and returns its matrix.
Hit(t) ==
    /\ pc[t] = "lookup"
    /\ lock = Free
    /\ \E i \in At(req[t].key) :
          /\ entries' = Append(Without(entries, i), entries[i])
          /\ Return(t, Answer("ok", entries[i].matrix))
    /\ metrics' = [metrics EXCEPT !["hits"] = @ + 1]
    /\ UNCHANGED <<inversion_cache, retained_bytes, lock, evicted, replaced, calls, req>>

\* A miss releases the mutex; the inverse is built outside it.
Miss(t) ==
    /\ pc[t] = "lookup"
    /\ lock = Free
    /\ At(req[t].key) = {}
    /\ metrics' = [metrics EXCEPT !["misses"] = @ + 1]
    /\ pc' = [pc EXCEPT ![t] = "build"]
    /\ UNCHANGED <<inversion_cache, cacheVars, lock, evicted, replaced, calls, req, answer>>

\* build_data_decode_matrix: fails on singular rows, otherwise goes on to the
\* insertion, or returns at once when the cache is off.
Build(t) ==
    /\ pc[t] = "build"
    /\ \/ /\ req[t].survivors \in Singular
          /\ Return(t, Answer("InvalidCustomMatrix", {}))
       \/ /\ req[t].survivors \notin Singular
          /\ inversion_cache
          /\ pc' = [pc EXCEPT ![t] = "insert"]
          /\ UNCHANGED answer
       \/ /\ req[t].survivors \notin Singular
          /\ ~ inversion_cache
          /\ Return(t, Answer("ok", req[t].survivors))
    /\ UNCHANGED <<inversion_cache, cacheVars, lock, evicted, replaced, metrics, calls, req>>

-----------------------------------------------------------------------------
(***************************************************************************)
(* InversionCache::insert, under the mutex from BeginInsert to             *)
(* FinishInsert.                                                           *)
(***************************************************************************)

\* An entry over the byte budget, or a cache without room for any, is refused
\* before anything is dropped.
Refused(key) == Bytes(key) > MaxBytes \/ Capacity = 0

\* `while len >= capacity || retained_bytes > max_bytes - bytes`
NoRoom(key) ==
    \/ Len(entries) >= Capacity
    \/ retained_bytes > MaxBytes - Bytes(key)

RefuseInsert(t) ==
    /\ pc[t] = "insert"
    /\ lock = Free
    /\ Refused(req[t].key)
    /\ Return(t, Answer("ok", req[t].survivors))
    /\ UNCHANGED <<inversion_cache, cacheVars, lock, evicted, replaced, metrics, calls, req>>

\* Wrong on purpose (mutants of BeginInsert): the charge of the previous entry of
\* the key is not taken back; its removal counts as an eviction.
Begin(t, At0, kept, evictions) ==
    /\ pc[t] = "insert"
    /\ lock = Free
    /\ ~ Refused(req[t].key)
    /\ lock' = t
    /\ pc' = [pc EXCEPT ![t] = "evict"]
    /\ \/ /\ At0 = {}
          /\ evicted' = 0
          /\ UNCHANGED <<cacheVars, replaced>>
       \/ \E i \in At0 :
             /\ entries' = Without(entries, i)
             /\ retained_bytes' = IF kept THEN retained_bytes
                                  ELSE retained_bytes - entries[i].bytes
             /\ replaced' = replaced + 1
             /\ evicted' = evictions
    /\ UNCHANGED <<inversion_cache, metrics, calls, req, answer>>
BeginInsertCharged(t) == Begin(t, At(req[t].key), TRUE, 0)
BeginInsertCounted(t) == Begin(t, At(req[t].key), FALSE, 1)

\* The charge of a previous entry of the same key (another thread missed and
\* built the same inverse) is taken back before room is made.
BeginInsert(t) ==
    /\ pc[t] = "insert"
    /\ lock = Free
    /\ ~ Refused(req[t].key)
    /\ lock' = t
    /\ evicted' = 0
    /\ pc' = [pc EXCEPT ![t] = "evict"]
    /\ \/ /\ At(req[t].key) = {}
          /\ UNCHANGED <<cacheVars, replaced>>
       \/ \E i \in At(req[t].key) :
             /\ entries' = Without(entries, i)
             /\ retained_bytes' = retained_bytes - entries[i].bytes
             /\ replaced' = replaced + 1
    /\ UNCHANGED <<inversion_cache, metrics, calls, req, answer>>

\* Wrong on purpose (mutant): the eviction gives back the new entry's charge.
EvictOwnCharge(t) ==
    /\ pc[t] = "evict"
    /\ NoRoom(req[t].key)
    /\ entries # <<>>
    /\ entries' = Without(entries, 1)
    /\ retained_bytes' = retained_bytes - Bytes(req[t].key)
    /\ evicted' = evicted + 1
    /\ UNCHANGED <<inversion_cache, lock, replaced, metrics, calls, pc, req, answer>>

\* One turn of the eviction loop.  On an empty list the code panics in
\* remove_lru().expect("cache has an eviction candidate"): see EvictionCandidate.
Evict(t) ==
    /\ pc[t] = "evict"
    /\ NoRoom(req[t].key)
    /\ entries # <<>>
    /\ entries' = Without(entries, 1)
    /\ retained_bytes' = retained_bytes - entries[1].bytes
    /\ evicted' = evicted + 1
    /\ UNCHANGED <<inversion_cache, lock, replaced, metrics, calls, pc, req, answer>>

\* Wrong on purpose (mutant): the mutex is not released.
FinishInsertLocked(t) ==
    /\ pc[t] = "evict"
    /\ ~ NoRoom(req[t].key)
    /\ retained_bytes' = retained_bytes + Bytes(req[t].key)
    /\ entries' = Append(entries, Entry(req[t].key, req[t].survivors))
    /\ metrics' = [metrics EXCEPT !["evictions"] = @ + evicted,
                                  !["inserts"] = @ + 1]
    /\ evicted' = 0
    /\ Return(t, Answer("ok", req[t].survivors))
    /\ UNCHANGED <<inversion_cache, lock, replaced, calls, req>>

FinishInsert(t) ==
    /\ pc[t] = "evict"
    /\ ~ NoRoom(req[t].key)
    /\ retained_bytes' = retained_bytes + Bytes(req[t].key)
    /\ entries' = Append(entries, Entry(req[t].key, req[t].survivors))
    /\ metrics' = [metrics EXCEPT !["evictions"] = @ + evicted,
                                  !["inserts"] = @ + 1]
    /\ evicted' = 0
    /\ lock' = Free
    /\ Return(t, Answer("ok", req[t].survivors))
    /\ UNCHANGED <<inversion_cache, replaced, calls, req>>

-----------------------------------------------------------------------------
Step(t) ==
    \/ Hit(t)
    \/ Miss(t)
    \/ Build(t)
    \/ RefuseInsert(t)
    \/ BeginInsert(t)
    \/ Evict(t)
    \/ FinishInsert(t)

\* A reconstruction plan asks for an inverse only when a data shard is missing,
\* and with the first data_count survivors.
CallFromPlan(t) ==
    /\ pc[t] = "idle"
    /\ \E missing \in SUBSET Shards :
          /\ \E i \in missing : i < DataShards
          /\ \E S \in SUBSET (Shards \ missing) : Request(t, S, missing)

\* decode_idx hands over the whole expectation mask: at least data_count shards,
\* of which more than data_count are turned away.
CallFromDecodeIdx(t) ==
    \E missing \in SUBSET Shards :
       /\ Cardinality(Shards \ missing) >= DataShards
       /\ \/ RejectCount(t, missing)
          \/ Request(t, Shards \ missing, missing)

Call(t) == CallFromPlan(t) \/ CallFromDecodeIdx(t)

Next == \E t \in Threads : Call(t) \/ Step(t)

Spec == Init /\ [][Next]_vars

\* A thread inside a call is eventually scheduled; it waits only for the mutex,
\* which every owner releases after finitely many evictions.
FairSpec == Spec /\ \A t \in Threads : WF_vars(Step(t))
-----------------------------------------------------------------------------
(***************************************************************************)
(* Properties.                                                             *)
(***************************************************************************)

\* Every variable keeps its type; in particular the unsigned byte charge never
\* goes below zero, whatever insertions race.
TypeOK ==
    /\ inversion_cache \in BOOLEAN
    /\ entries \in Seq(Entries)
    /\ retained_bytes \in Nat
    /\ lock \in Threads \cup {Free}
    /\ evicted \in Nat
    /\ replaced \in Nat
    /\ metrics \in [Counters -> Nat]
    /\ calls \in Nat
    /\ pc \in [Threads -> {"idle", "lookup", "build", "insert", "evict"}]
    /\ req \in [Threads -> Requests]
    /\ answer \in [Threads -> Answers]

\* ledger is the running total of the charges of the listed entries.
IsLedger(ledger, s) ==
    /\ ledger[0] = 0
    /\ \A i \in 1 .. Len(s) : ledger[i] = ledger[i - 1] + s[i].bytes
    /\ \A i, j \in 0 .. Len(s) : i <= j => ledger[i] <= ledger[j]

\* The byte counter is exactly the sum of the charges of the entries in the
\* list, also in the middle of an insertion: a same-key replacement by a thread
\* that lost the race is charged once, an eviction gives back what it took.
ChargesAccounted ==
    \E ledger \in [0 .. Len(entries) -> 0 .. MaxBytes] :
       IsLedger(ledger, entries) /\ retained_bytes = ledger[Len(entries)]

\* Neither budget is ever exceeded: not between calls, where
\* reconstruction_cache_memory can observe it, and not inside an insertion.
BudgetRespected ==
    /\ Len(entries) <= Capacity
    /\ retained_bytes <= MaxBytes

\* The eviction loop never runs out of candidates: the `expect` of remove_lru
\* cannot panic (and so cannot leave a half-done insertion behind).
EvictionCandidate ==
    \A t \in Threads : pc[t] = "evict" /\ NoRoom(req[t].key) => entries # <<>>

\* Two threads that miss the same key and both insert leave one entry of it.
OneEntryPerKey ==
    \A i, j \in DOMAIN entries : entries[i].key = entries[j].key => i = j

\* The cache's list is intact whenever a thread can look at it, and in the middle
\* of an insertion: its charges are accounted for, within both budgets, with a
\* candidate for every eviction and one entry for every key.
ListIntact ==
    ChargesAccounted /\ BudgetRespected /\ EvictionCandidate /\ OneEntryPerKey

\* A finished call holds the inverse of its own survivor rows, although the key
\* it was found or stored under omits the erasures after the last survivor.
AnswerIsCallersInverse ==
    \A t \in Threads : answer[t].status = "ok" => answer[t].matrix = req[t].survivors

InFlight(places) == Cardinality({t \in Threads : pc[t] \in places})

\* The counters agree with what happened: each request is a hit, a miss or still
\* before its lookup; an insertion follows a miss of its own; and every counted
\* insertion is still listed, was evicted, or was replaced under its own key,
\* which counts as an insertion but not as an eviction.
MetricsConsistent ==
    /\ metrics["requests"] = metrics["hits"] + metrics["misses"] + InFlight({"lookup"})
    /\ inversion_cache =>
         metrics["inserts"] + InFlight({"build", "insert", "evict"}) <= metrics["misses"]
    /\ metrics["inserts"] = Len(entries) + metrics["evictions"] + evicted + replaced

\* Every call returns: no thread waits for ever for the mutex or loops for ever
\* evicting.
CallsReturn == \A t \in Threads : pc[t] # "idle" ~> pc[t] = "idle"

\* The cache is invisible: seen from its callers, the codec builds every inverse
\* from the caller's own survivors, and answers a singular pattern with the
\* error whatever was cached before.
Service == INSTANCE DecodeService WITH
    FullRows <- {S \in SUBSET Shards : Cardinality(S) = DataShards},
    OtherRows <- {S \in SUBSET Shards : Cardinality(S) # DataShards},
    busy <- {t \in Threads : pc[t] # "idle"},
    survivors <- [t \in Threads |-> req[t].survivors]
CacheIsTransparent == Service!Spec

-----------------------------------------------------------------------------
(***************************************************************************)
(* The inductive invariant behind the properties above.                    *)
(***************************************************************************)

\* n is the total charge of the list s.
Ledgered(s, n) ==
    \E ledger \in [0 .. Len(s) -> Nat] : IsLedger(ledger, s) /\ n = ledger[Len(s)]

\* The mutex is held exactly by the thread in the eviction loop, whose key fits
\* the budget and is no longer in the list.
CriticalSection ==
    \A t \in Threads :
       /\ pc[t] = "evict" <=> lock = t
       /\ pc[t] = "evict" => ~ Refused(req[t].key) /\ At(req[t].key) = {}

\* A call in progress carries the key of its own survivors.
ActiveRequests ==
    \A t \in Threads : pc[t] # "idle" =>
       /\ FirstSurvivors(req[t].survivors, req[t].missing)
       /\ req[t].key = CacheErasures(req[t].survivors, req[t].missing)
       /\ pc[t] \in {"lookup", "insert", "evict"} => inversion_cache
       /\ pc[t] \in {"insert", "evict"} => req[t].survivors \notin Singular
       /\ answer[t].status = "none"

\* A cached inverse is stored under the key of the survivors it inverts.
GenuineEntry(e) ==
    /\ inversion_cache
    /\ e.matrix \notin Singular
    /\ \E missing \in SUBSET Shards :
          FirstSurvivors(e.matrix, missing) /\ e.key = CacheErasures(e.matrix, missing)

CachedInverses == \A i \in DOMAIN entries : GenuineEntry(entries[i])

IInv ==
    /\ TypeOK
    /\ Ledgered(entries, retained_bytes)
    /\ BudgetRespected
    /\ OneEntryPerKey
    /\ CriticalSection
    /\ ActiveRequests
    /\ CachedInverses
    /\ AnswerIsCallersInverse

\* What MetricsConsistent needs beyond IInv: evictions of an insertion are counted
\* when it finishes, and none is left over when the mutex is free.
MetricsInv == MetricsConsistent /\ (lock = Free => evicted = 0)
=============================================================================
