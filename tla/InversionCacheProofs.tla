------------------------- MODULE InversionCacheProofs -------------------------
(***************************************************************************)
(* The cache of InversionCache keeps its accounting and its budgets, never *)
(* panics, and is transparent, for every number of threads and shards and  *)
(* for every budget.                                                       *)
(***************************************************************************)
EXTENDS InversionCache, FiniteSetTheorems, TLAPS

-----------------------------------------------------------------------------
(***************************************************************************)
(* Lists and their ledgers.                                                *)
(***************************************************************************)

\* A listed entry is an entry, and its charge is a number of bytes.
LEMMA EntryCharge ==
    ASSUME NEW s \in Seq(Entries), NEW i \in 1 .. Len(s)
    PROVE  s[i] \in Entries /\ s[i].bytes \in Nat
  <1>1. s[i] \in Entries
    OBVIOUS
  <1>2. \A e \in Entries : e.bytes \in Nat
    BY DEF Entries
  <1> QED
    BY <1>1, <1>2

\* Removing the entry at i from the LRU list gives a list shorter by one.
LEMMA WithoutType ==
    ASSUME NEW s \in Seq(Entries), NEW i \in 1 .. Len(s)
    PROVE  /\ Without(s, i) \in Seq(Entries)
           /\ Len(Without(s, i)) = Len(s) - 1
           /\ \A j \in 1 .. Len(s) - 1 :
                 Without(s, i)[j] = IF j < i THEN s[j] ELSE s[j + 1]
  <1>1. Len(s) \in Nat /\ Len(s) >= 1
    OBVIOUS
  <1>2. \A j \in 1 .. Len(s) - 1 : (IF j < i THEN s[j] ELSE s[j + 1]) \in Entries
    <2>1. \A j \in 1 .. Len(s) : s[j] \in Entries
      OBVIOUS
    <2> QED
      BY <1>1, <2>1
  <1>3. Without(s, i) \in [1 .. Len(s) - 1 -> Entries]
    BY <1>2 DEF Without
  <1>4. Without(s, i) \in Seq(Entries) /\ Len(Without(s, i)) = Len(s) - 1
    BY <1>1, <1>3
  <1> QED
    BY <1>4 DEF Without

\* Only the empty list has no charge to account for.
LEMMA LedgerEmpty == \A n : Ledgered(<<>>, n) <=> n = 0
  <1>1. ASSUME NEW n, Ledgered(<<>>, n) PROVE n = 0
    BY <1>1 DEF Ledgered, IsLedger
  <1>2. Ledgered(<<>>, 0)
    <2> DEFINE f == [j \in 0 .. Len(<<>>) |-> 0]
    <2>1. f \in [0 .. Len(<<>>) -> Nat] /\ f[0] = 0 /\ f[Len(<<>>)] = 0
      OBVIOUS
    <2>2. IsLedger(f, <<>>)
      BY <2>1 DEF IsLedger
    <2> QED
      BY <2>1, <2>2 DEF Ledgered
  <1> QED
    BY <1>1, <1>2

\* Giving back the charge of a removed entry keeps the total exact, and the
\* subtraction cannot underflow.
LEMMA LedgerWithout ==
    ASSUME NEW s \in Seq(Entries), NEW i \in 1 .. Len(s), NEW n, Ledgered(s, n)
    PROVE  /\ n \in Nat
           /\ n - s[i].bytes \in Nat
           /\ Ledgered(Without(s, i), n - s[i].bytes)
  <1>1. PICK f \in [0 .. Len(s) -> Nat] : IsLedger(f, s) /\ n = f[Len(s)]
    BY DEF Ledgered
  <1>2. Len(s) \in Nat /\ Len(s) >= 1 /\ s[i].bytes \in Nat
    BY EntryCharge
  <1>3. \A j \in 0 .. Len(s) : f[j] \in Nat
    BY <1>1
  <1>4. f[0] = 0 /\ \A j \in 1 .. Len(s) : f[j] = f[j - 1] + s[j].bytes
    BY <1>1 DEF IsLedger
  <1>5. \A j, k \in 0 .. Len(s) : j <= k => f[j] <= f[k]
    BY <1>1 DEF IsLedger
  <1>6. \A j \in 0 .. Len(s) : j >= i => f[j] >= s[i].bytes
    <2>1. f[i] = f[i - 1] + s[i].bytes /\ f[i - 1] \in Nat
      BY <1>2, <1>3, <1>4
    <2> QED
      BY <1>2, <1>3, <1>5, <2>1
  <1> DEFINE w == Without(s, i)
             g == [j \in 0 .. Len(s) - 1 |-> IF j < i THEN f[j] ELSE f[j + 1] - s[i].bytes]
  <1>7. /\ Len(w) = Len(s) - 1
        /\ \A j \in 1 .. Len(s) - 1 : w[j] = IF j < i THEN s[j] ELSE s[j + 1]
    BY WithoutType
  <1> HIDE DEF w
  <1>8. g \in [0 .. Len(s) - 1 -> Nat]
    <2>1. ASSUME NEW j \in 0 .. Len(s) - 1
          PROVE (IF j < i THEN f[j] ELSE f[j + 1] - s[i].bytes) \in Nat
      <3>1. j + 1 \in 0 .. Len(s) /\ j \in 0 .. Len(s)
        BY <1>2
      <3>2. f[j] \in Nat /\ f[j + 1] \in Nat
        BY <1>3, <3>1
      <3>3. j + 1 >= i => f[j + 1] >= s[i].bytes
        BY <1>6, <3>1
      <3> QED
        BY <1>2, <3>2, <3>3
    <2> QED
      BY <2>1
  <1>9. g[0] = 0
    BY <1>2, <1>4
  <1>10. ASSUME NEW j \in 1 .. Len(s) - 1 PROVE g[j] = g[j - 1] + w[j].bytes
    <2>0. j - 1 \in 0 .. Len(s) - 1 /\ j \in 0 .. Len(s) - 1 /\ j + 1 \in 1 .. Len(s)
          /\ j \in 1 .. Len(s) /\ j \in 0 .. Len(s) /\ j - 1 \in 0 .. Len(s)
      BY <1>2
    <2>1. f[j] = f[j - 1] + s[j].bytes /\ f[j + 1] = f[j] + s[j + 1].bytes
      BY <1>2, <1>4, <2>0, SMTT(30)
    <2>2. s[j].bytes \in Nat /\ s[j + 1].bytes \in Nat /\ f[j] \in Nat
          /\ f[j + 1] \in Nat /\ f[j - 1] \in Nat
      BY <1>2, <1>3, <2>0, EntryCharge
    <2>3. CASE j < i
      BY <1>7, <2>0, <2>1, <2>3
    <2>4. CASE j = i
      <3>1. g[j] = f[j + 1] - s[i].bytes /\ g[j - 1] = f[j - 1] /\ w[j].bytes = s[j + 1].bytes
        BY <1>7, <2>0, <2>4
      <3>2. s[i].bytes = s[j].bytes
        BY <2>4
      <3> HIDE DEF g
      <3> QED
        BY <2>1, <2>2, <3>1, <3>2
    <2>5. CASE j > i
      <3>1. g[j] = f[j + 1] - s[i].bytes /\ g[j - 1] = f[j] - s[i].bytes
            /\ w[j].bytes = s[j + 1].bytes
        BY <1>7, <2>0, <2>5
      <3> HIDE DEF g
      <3> QED
        BY <1>2, <2>1, <2>2, <3>1
    <2> QED
      BY <2>0, <2>3, <2>4, <2>5
  <1>11. ASSUME NEW j \in 0 .. Len(s) - 1, NEW k \in 0 .. Len(s) - 1, j <= k
         PROVE  g[j] <= g[k]
    <2>1. j \in 0 .. Len(s) /\ k \in 0 .. Len(s) /\ j + 1 \in 0 .. Len(s)
          /\ k + 1 \in 0 .. Len(s)
      BY <1>2
    <2>2. f[j] \in Nat /\ f[k] \in Nat /\ f[j + 1] \in Nat /\ f[k + 1] \in Nat
      BY <1>3, <2>1
    <2>3. f[j] <= f[k] /\ f[j + 1] <= f[k + 1]
      BY <1>5, <1>11, <2>1
    <2>4. CASE k < i
      BY <1>11, <2>2, <2>3, <2>4
    <2>5. CASE j >= i
      BY <1>2, <1>11, <2>2, <2>3, <2>5
    <2>6. CASE j < i /\ k >= i
      <3>1. i - 1 \in 0 .. Len(s) /\ i \in 0 .. Len(s)
        BY <1>2
      <3>2. f[j] <= f[i - 1] /\ f[i] <= f[k + 1]
        BY <1>5, <2>1, <2>6, <3>1
      <3>3. f[i] = f[i - 1] + s[i].bytes /\ f[i] \in Nat /\ f[i - 1] \in Nat
        BY <1>3, <1>4, <3>1
      <3>4. g[j] = f[j] /\ g[k] = f[k + 1] - s[i].bytes
        BY <2>6
      <3> QED
        BY <1>2, <2>2, <3>2, <3>3, <3>4, SMTT(30)
    <2> QED
      BY <2>4, <2>5, <2>6
  <1>12. IsLedger(g, w)
    BY <1>7, <1>9, <1>10, <1>11 DEF IsLedger
  <1>13. n \in Nat /\ n - s[i].bytes \in Nat /\ n - s[i].bytes = g[Len(w)]
    <2>1. Len(s) - 1 \in 0 .. Len(s) - 1 /\ Len(s) \in 0 .. Len(s)
      BY <1>2
    <2>2. n \in Nat /\ n >= s[i].bytes
      BY <1>1, <1>2, <1>3, <1>6, <2>1
    <2>3. CASE Len(s) - 1 < i
      <3>1. i = Len(s)
        BY <1>2, <2>3
      <3>2. g[Len(s) - 1] = f[Len(s) - 1] /\ f[Len(s)] = f[Len(s) - 1] + s[i].bytes
        BY <1>2, <1>4, <2>1, <3>1
      <3> QED
        BY <1>1, <1>2, <1>3, <1>7, <2>2, <3>2
    <2>4. CASE Len(s) - 1 >= i
      BY <1>1, <1>2, <1>7, <2>1, <2>2, <2>4
    <2> QED
      BY <1>2, <2>3, <2>4
  <1> HIDE DEF g
  <1> USE DEF w
  <1> QED
    BY <1>7, <1>8, <1>12, <1>13 DEF Ledgered

\* Charging an appended entry keeps the total exact.
LEMMA LedgerAppend ==
    ASSUME NEW s \in Seq(Entries), NEW e \in Entries, NEW n, Ledgered(s, n)
    PROVE  Ledgered(Append(s, e), n + e.bytes)
  <1>1. PICK f \in [0 .. Len(s) -> Nat] : IsLedger(f, s) /\ n = f[Len(s)]
    BY DEF Ledgered
  <1>2. Len(s) \in Nat /\ e.bytes \in Nat
    BY DEF Entries
  <1>3. \A j \in 0 .. Len(s) : f[j] \in Nat
    BY <1>1
  <1> DEFINE a == Append(s, e)
             g == [j \in 0 .. Len(s) + 1 |-> IF j <= Len(s) THEN f[j] ELSE f[Len(s)] + e.bytes]
  <1>4. Len(a) = Len(s) + 1 /\ a[Len(s) + 1] = e
        /\ \A j \in 1 .. Len(s) : a[j] = s[j]
    BY <1>2
  <1>5. g \in [0 .. Len(s) + 1 -> Nat]
    BY <1>2, <1>3
  <1>6. \A j \in 1 .. Len(s) + 1 : g[j] = g[j - 1] + a[j].bytes
    <2>1. ASSUME NEW j \in 1 .. Len(s) PROVE g[j] = g[j - 1] + a[j].bytes
      <3>1. f[j] = f[j - 1] + s[j].bytes
        BY <1>1 DEF IsLedger
      <3> QED
        BY <1>2, <1>4, <3>1
    <2>2. g[Len(s) + 1] = g[Len(s)] + a[Len(s) + 1].bytes
      BY <1>2, <1>4
    <2>3. \A j \in 1 .. Len(s) + 1 : j \in 1 .. Len(s) \/ j = Len(s) + 1
      BY <1>2
    <2>4. Len(s) + 1 - 1 = Len(s)
      BY <1>2
    <2> HIDE DEF g, a
    <2> QED
      BY <2>1, <2>2, <2>3, <2>4
  <1>7. \A j, k \in 0 .. Len(s) + 1 : j <= k => g[j] <= g[k]
    <2>1. \A j, k \in 0 .. Len(s) : j <= k => f[j] <= f[k]
      BY <1>1 DEF IsLedger
    <2> QED
      BY <1>2, <1>3, <2>1
  <1>8. IsLedger(g, a)
    <2>1. g[0] = 0
      BY <1>1, <1>2 DEF IsLedger
    <2> QED
      BY <1>4, <1>6, <1>7, <2>1 DEF IsLedger
  <1>9. n + e.bytes = g[Len(a)]
    BY <1>1, <1>2, <1>4
  <1> HIDE DEF g
  <1> QED
    BY <1>4, <1>5, <1>8, <1>9 DEF Ledgered

-----------------------------------------------------------------------------
(***************************************************************************)
(* Keys.                                                                   *)
(***************************************************************************)

\* The charge of a key is a number of bytes.
LEMMA BytesType == \A key \in Keys : Bytes(key) \in Nat
  <1>1. IsFiniteSet(Shards)
    BY FS_Interval, CodecAssumption DEF Shards
  <1>2. ASSUME NEW key \in Keys PROVE Bytes(key) \in Nat
    <2>1. IsFiniteSet(key)
      BY <1>1, FS_Subset DEF Keys
    <2>2. Cardinality(key) \in Nat
      BY <2>1, FS_CardinalityType
    <2>3. IndexBytes * Cardinality(key) \in Nat
      BY <2>2, CacheAssumption
    <2> QED
      BY <2>3, CacheAssumption DEF Bytes
  <1> QED
    BY <1>2

\* With the cache on, the key is the set of erasures before the last selected
\* survivor, whichever branch of the code computes it.
LEMMA KeyIsErasuresBefore ==
    ASSUME NEW S \in SUBSET Shards, NEW missing \in SUBSET Shards,
           FirstSurvivors(S, missing), inversion_cache
    PROVE  CacheErasures(S, missing) = {m \in missing : \E i \in S : m < i}
  <1>1. CASE \E m \in missing : \A i \in S : m > i
    BY <1>1 DEF CacheErasures
  <1>2. CASE ~ \E m \in missing : \A i \in S : m > i
    <2>1. ASSUME NEW m \in missing PROVE \E i \in S : m < i
      <3>1. PICK i \in S : ~ (m > i)
        BY <1>2
      <3>2. m \in Int /\ i \in Int /\ m # i
        BY CodecAssumption DEF FirstSurvivors, Shards
      <3> QED
        BY <3>1, <3>2
    <2> QED
      BY <1>2, <2>1 DEF CacheErasures
  <1> QED
    BY <1>1, <1>2

\* The truncated key determines the survivor set: two patterns that share a key
\* share the first DataShards present shards, so one inverse serves both.
THEOREM KeyDeterminesSurvivors ==
    ASSUME NEW S1 \in SUBSET Shards, NEW M1 \in SUBSET Shards,
           NEW S2 \in SUBSET Shards, NEW M2 \in SUBSET Shards,
           FirstSurvivors(S1, M1), FirstSurvivors(S2, M2), inversion_cache,
           CacheErasures(S1, M1) = CacheErasures(S2, M2)
    PROVE  S1 = S2
  <1> DEFINE K(S, M) == {m \in M : \E i \in S : m < i}
  <1>1. K(S1, M1) = K(S2, M2)
    BY KeyIsErasuresBefore
  <1>2. \A i \in Shards : i \in Int
    BY CodecAssumption DEF Shards
  <1>3. ASSUME NEW A \in SUBSET Shards, NEW P \in SUBSET Shards,
               NEW B \in SUBSET Shards, NEW Q \in SUBSET Shards,
               FirstSurvivors(A, P), FirstSurvivors(B, Q), K(A, P) = K(B, Q),
               NEW a \in A \ B, NEW b \in B \ A, a < b
        PROVE  FALSE
    <2>1. a \notin P /\ a \in Shards /\ a \in Int /\ b \in Int
      BY <1>2, <1>3 DEF FirstSurvivors
    <2>2. CASE a \in Q
      <3>1. a \in K(B, Q)
        BY <1>3, <2>2
      <3> QED
        BY <1>3, <2>1, <3>1
    <2>3. CASE a \notin Q
      <3>1. b < a
        BY <1>3, <2>1, <2>3 DEF FirstSurvivors
      <3> QED
        BY <1>3, <2>1, <3>1
    <2> QED
      BY <2>2, <2>3
  <1>4. S1 \subseteq S2 \/ S2 \subseteq S1
    <2>1. SUFFICES ASSUME NEW a \in S1 \ S2, NEW b \in S2 \ S1 PROVE FALSE
      OBVIOUS
    <2>2. a \in Int /\ b \in Int /\ a # b
      BY <1>2
    <2>3. ~ (a < b)
      BY <1>1, <1>3
    <2>4. ~ (b < a)
      BY <1>1, <1>3
    <2> QED
      BY <2>2, <2>3, <2>4
  <1>5. IsFiniteSet(S1) /\ IsFiniteSet(S2)
    <2>1. IsFiniteSet(Shards)
      BY FS_Interval, CodecAssumption DEF Shards
    <2> QED
      BY <2>1, FS_Subset
  <1>6. Cardinality(S1) = Cardinality(S2)
    BY DEF FirstSurvivors
  <1>7. CASE S1 \subseteq S2
    BY <1>5, <1>6, <1>7, FS_Subset
  <1>8. CASE S2 \subseteq S1
    BY <1>5, <1>6, <1>8, FS_Subset
  <1> QED
    BY <1>4, <1>7, <1>8

\* A listed entry found under a caller's key inverts the caller's survivors.
LEMMA HitIsCallers ==
    ASSUME IInv, NEW t \in Threads, pc[t] # "idle", NEW i \in At(req[t].key)
    PROVE  entries[i].matrix = req[t].survivors /\ req[t].survivors \notin Singular
  <1>1. i \in 1 .. Len(entries) /\ entries[i].key = req[t].key
        /\ entries \in Seq(Entries)
    BY DEF At, IInv, TypeOK
  <1>2. entries[i] \in Entries
    BY <1>1, EntryCharge
  <1>3. entries[i].matrix \in SUBSET Shards
    BY <1>2 DEF Entries, Matrices
  <1>4. GenuineEntry(entries[i])
    BY DEF IInv, CachedInverses, At
  <1>5. PICK missing \in SUBSET Shards :
           FirstSurvivors(entries[i].matrix, missing)
           /\ entries[i].key = CacheErasures(entries[i].matrix, missing)
    BY <1>4 DEF GenuineEntry
  <1>6. req[t] \in Requests
    BY DEF IInv, TypeOK
  <1>7. req[t].survivors \in SUBSET Shards /\ req[t].missing \in SUBSET Shards
    BY <1>6 DEF Requests
  <1>8. FirstSurvivors(req[t].survivors, req[t].missing)
        /\ req[t].key = CacheErasures(req[t].survivors, req[t].missing)
    BY DEF IInv, ActiveRequests
  <1>9. entries[i].matrix = req[t].survivors
    BY <1>1, <1>3, <1>4, <1>5, <1>7, <1>8, KeyDeterminesSurvivors DEF GenuineEntry
  <1> QED
    BY <1>4, <1>9 DEF GenuineEntry

-----------------------------------------------------------------------------
(***************************************************************************)
(* Initial states.                                                         *)
(***************************************************************************)
\* The initial state satisfies the inductive invariant.
LEMMA InitIInv == Init => IInv
  <1> SUFFICES ASSUME Init PROVE IInv
    OBVIOUS
  <1>1. TypeOK
    BY CodecAssumption
       DEF Init, TypeOK, Requests, NoRequest, Answers, Answer, Keys, Matrices, Counters
  <1>2. Ledgered(entries, retained_bytes)
    BY LedgerEmpty DEF Init
  <1>3. BudgetRespected
    BY CacheAssumption DEF Init, BudgetRespected
  <1>4. OneEntryPerKey /\ CachedInverses
    BY DEF Init, OneEntryPerKey, CachedInverses
  <1>5. CriticalSection
    BY CacheAssumption DEF Init, CriticalSection
  <1>6. ActiveRequests
    BY DEF Init, ActiveRequests
  <1>7. AnswerIsCallersInverse
    BY DEF Init, AnswerIsCallersInverse, Answer
  <1> QED
    BY <1>1, <1>2, <1>3, <1>4, <1>5, <1>6, <1>7 DEF IInv

-----------------------------------------------------------------------------
(***************************************************************************)
(* Steps that leave the list and its charge alone.                         *)
(***************************************************************************)
\* A step that keeps the list, its charge and the option keeps the facts about them.
LEMMA CacheUntouched ==
    ASSUME IInv, UNCHANGED <<inversion_cache, entries, retained_bytes>>
    PROVE  /\ Ledgered(entries, retained_bytes)'
           /\ BudgetRespected'
           /\ OneEntryPerKey'
           /\ CachedInverses'
  <1>1. Ledgered(entries, retained_bytes)'
    BY DEF IInv, Ledgered, IsLedger
  <1>2. BudgetRespected'
    BY DEF IInv, BudgetRespected
  <1>3. OneEntryPerKey'
    BY DEF IInv, OneEntryPerKey
  <1>4. CachedInverses'
    <2> SUFFICES ASSUME NEW i \in DOMAIN entries PROVE GenuineEntry(entries[i])'
      BY DEF CachedInverses
    <2>1. GenuineEntry(entries[i])
      BY DEF IInv, CachedInverses
    <2> QED
      BY <2>1 DEF GenuineEntry, FirstSurvivors, CacheErasures
  <1> QED
    BY <1>1, <1>2, <1>3, <1>4

\* A call turned away for its survivor count preserves the invariant.
LEMMA RejectCountStep ==
    ASSUME IInv, NEW t \in Threads, NEW missing \in SUBSET Shards,
           RejectCount(t, missing)
    PROVE  IInv'
  <1>1. TypeOK'
    BY DEF IInv, TypeOK, RejectCount, Return, Answer, Answers, Requests, Keys,
           Matrices, cacheVars
  <1>2. CriticalSection'
    BY DEF IInv, TypeOK, CriticalSection, RejectCount, Return, At, Refused, cacheVars
  <1>3. ActiveRequests'
    BY DEF IInv, TypeOK, ActiveRequests, RejectCount, Return, FirstSurvivors,
           CacheErasures, cacheVars
  <1>4. AnswerIsCallersInverse'
    BY DEF IInv, TypeOK, AnswerIsCallersInverse, RejectCount, Return, Answer
  <1> QED
    BY <1>1, <1>2, <1>3, <1>4, CacheUntouched DEF IInv, RejectCount, cacheVars

\* A call that derives its key preserves the invariant.
LEMMA RequestStep ==
    ASSUME IInv, NEW t \in Threads, NEW missing \in SUBSET Shards,
           NEW S \in SUBSET Shards, Request(t, S, missing)
    PROVE  IInv'
  <1>0. CacheErasures(S, missing) \in Keys
    BY DEF CacheErasures, Keys
  <1>1. TypeOK'
    BY <1>0 DEF IInv, TypeOK, Request, Answer, Answers, Requests, Keys,
           Matrices, Counters, cacheVars
  <1>2. CriticalSection'
    BY DEF IInv, TypeOK, CriticalSection, Request, At, Refused, cacheVars
  <1>3. ActiveRequests'
    <2> SUFFICES ASSUME NEW u \in Threads, pc'[u] # "idle"
                 PROVE  /\ FirstSurvivors(req[u].survivors, req[u].missing)'
                        /\ (req[u].key = CacheErasures(req[u].survivors, req[u].missing))'
                        /\ pc'[u] \in {"lookup", "insert", "evict"} => inversion_cache'
                        /\ pc'[u] \in {"insert", "evict"} => req'[u].survivors \notin Singular
                        /\ answer'[u].status = "none"
      BY DEF ActiveRequests
    <2>1. CASE u = t
      <3>1. req'[u] = [survivors |-> S, missing |-> missing,
                       key |-> CacheErasures(S, missing)]
        BY <2>1 DEF IInv, TypeOK, Request
      <3>2. FirstSurvivors(req[u].survivors, req[u].missing)'
            /\ (req[u].key = CacheErasures(req[u].survivors, req[u].missing))'
        <4>1. FirstSurvivors(S, missing) /\ UNCHANGED inversion_cache
          BY DEF Request
        <4>2. req'[u].survivors = S /\ req'[u].missing = missing
              /\ req'[u].key = CacheErasures(S, missing)
          BY <3>1
        <4> QED
          BY <4>1, <4>2 DEF FirstSurvivors, CacheErasures
      <3> QED
        BY <2>1, <3>2 DEF IInv, TypeOK, Request, Answer
    <2>2. CASE u # t
      BY <2>2, ZenonT(30) DEF IInv, TypeOK, ActiveRequests, Request, FirstSurvivors, CacheErasures
    <2> QED
      BY <2>1, <2>2
  <1>4. AnswerIsCallersInverse'
    BY DEF IInv, TypeOK, AnswerIsCallersInverse, Request, Answer
  <1> QED
    BY <1>1, <1>2, <1>3, <1>4, CacheUntouched DEF IInv, Request, cacheVars

\* A lookup miss preserves the invariant.
LEMMA MissStep ==
    ASSUME IInv, NEW t \in Threads, Miss(t)
    PROVE  IInv'
  <1>1. TypeOK'
    BY DEF IInv, TypeOK, Miss, Counters, cacheVars
  <1>2. CriticalSection'
    BY DEF IInv, TypeOK, CriticalSection, Miss, At, Refused, cacheVars
  <1>3. ActiveRequests'
    BY ZenonT(30) DEF IInv, TypeOK, ActiveRequests, Miss, FirstSurvivors, CacheErasures, cacheVars
  <1>4. AnswerIsCallersInverse'
    BY DEF IInv, AnswerIsCallersInverse, Miss
  <1> QED
    BY <1>1, <1>2, <1>3, <1>4, CacheUntouched DEF IInv, Miss, cacheVars

\* The build outside the mutex, successful or not, preserves the invariant.
LEMMA BuildStep ==
    ASSUME IInv, NEW t \in Threads, Build(t)
    PROVE  IInv'
  <1>0. req[t].survivors \in Matrices
    BY DEF IInv, TypeOK, Requests, Matrices
  <1>1. TypeOK'
    <2>1. pc' \in [Threads -> {"idle", "lookup", "build", "insert", "evict"}]
      BY DEF IInv, TypeOK, Build, Return
    <2>2. answer' \in [Threads -> Answers]
      BY <1>0 DEF IInv, TypeOK, Build, Return, Answer, Answers, Matrices
    <2> QED
      BY <2>1, <2>2 DEF IInv, TypeOK, Build, cacheVars
  <1>2. CriticalSection'
    BY DEF IInv, TypeOK, CriticalSection, Build, Return, At, Refused, cacheVars
  <1>3. ActiveRequests'
    BY ZenonT(30) DEF IInv, TypeOK, ActiveRequests, Build, Return, FirstSurvivors,
           CacheErasures, cacheVars
  <1>4. AnswerIsCallersInverse'
    BY DEF IInv, TypeOK, AnswerIsCallersInverse, Build, Return, Answer
  <1> QED
    BY <1>1, <1>2, <1>3, <1>4, CacheUntouched DEF IInv, Build, cacheVars

\* An insertion refused for its size preserves the invariant.
LEMMA RefuseInsertStep ==
    ASSUME IInv, NEW t \in Threads, RefuseInsert(t)
    PROVE  IInv'
  <1>0. req[t].survivors \in Matrices
    BY DEF IInv, TypeOK, Requests, Matrices
  <1>1. TypeOK'
    BY <1>0 DEF IInv, TypeOK, RefuseInsert, Return, Answer, Answers, Matrices, cacheVars
  <1>2. CriticalSection'
    BY DEF IInv, TypeOK, CriticalSection, RefuseInsert, Return, At, Refused, cacheVars
  <1>3. ActiveRequests'
    BY DEF IInv, TypeOK, ActiveRequests, RefuseInsert, Return, FirstSurvivors,
           CacheErasures, cacheVars
  <1>4. AnswerIsCallersInverse'
    BY DEF IInv, TypeOK, AnswerIsCallersInverse, RefuseInsert, Return, Answer
  <1> QED
    BY <1>1, <1>2, <1>3, <1>4, CacheUntouched DEF IInv, RefuseInsert, cacheVars

-----------------------------------------------------------------------------
(***************************************************************************)
(* Steps that change the list.                                             *)
(***************************************************************************)

\* Every entry of the changed list comes from the old one: budgets and keys.
LEMMA EntriesKept ==
    ASSUME IInv, UNCHANGED inversion_cache, entries' \in Seq(Entries),
           \A j \in 1 .. Len(entries') : \E i \in 1 .. Len(entries) : entries'[j] = entries[i]
    PROVE  CachedInverses'
  <1>1. entries \in Seq(Entries)
    BY DEF IInv, TypeOK
  <1> SUFFICES ASSUME NEW j \in 1 .. Len(entries') PROVE GenuineEntry(entries[j])'
    BY DEF CachedInverses
  <1>2. PICK i \in 1 .. Len(entries) : entries'[j] = entries[i]
    OBVIOUS
  <1>3. GenuineEntry(entries[i])
    BY <1>1 DEF IInv, CachedInverses
  <1> QED
    BY <1>2, <1>3 DEF GenuineEntry, FirstSurvivors, CacheErasures

\* A hit moves an entry to the back: list, charge and answer stay right.
LEMMA HitStep ==
    ASSUME IInv, NEW t \in Threads, Hit(t)
    PROVE  IInv'
  <1>1. PICK i \in At(req[t].key) :
           /\ entries' = Append(Without(entries, i), entries[i])
           /\ Return(t, Answer("ok", entries[i].matrix))
    BY DEF Hit
  <1>2. i \in 1 .. Len(entries) /\ entries \in Seq(Entries)
    BY DEF At, IInv, TypeOK
  <1> DEFINE w == Without(entries, i)
             e == entries[i]
  <1>3. /\ w \in Seq(Entries) /\ Len(w) = Len(entries) - 1
        /\ \A j \in 1 .. Len(entries) - 1 :
              w[j] = IF j < i THEN entries[j] ELSE entries[j + 1]
        /\ e \in Entries /\ e.bytes \in Nat
    BY <1>2, WithoutType, EntryCharge
  <1>4. Len(entries) \in Nat /\ Len(entries) >= 1
    BY <1>2
  <1>5. Ledgered(w, retained_bytes - e.bytes) /\ retained_bytes \in Nat
    BY <1>2, LedgerWithout DEF IInv
  <1>6. Ledgered(Append(w, e), (retained_bytes - e.bytes) + e.bytes)
    BY <1>3, <1>5, LedgerAppend
  <1>7. (retained_bytes - e.bytes) + e.bytes = retained_bytes
    BY <1>3, <1>5
  <1> HIDE DEF w, e
  <1>8. entries' = Append(w, e)
    BY <1>1 DEF w, e
  <1>9. Ledgered(entries, retained_bytes)'
    <2>1. retained_bytes' = retained_bytes
      BY DEF Hit
    <2>2. Ledgered(Append(w, e), retained_bytes)
      BY <1>6, <1>7
    <2> QED
      BY <1>8, <2>1, <2>2 DEF Ledgered
  <1>10. /\ entries' \in Seq(Entries) /\ Len(entries') = Len(entries)
         /\ \A j \in 1 .. Len(entries) :
               entries'[j] = IF j = Len(entries) THEN entries[i]
                             ELSE IF j < i THEN entries[j] ELSE entries[j + 1]
    <2>1. entries' \in Seq(Entries) /\ Len(entries') = Len(entries)
      BY <1>3, <1>4, <1>8
    <2>2. ASSUME NEW j \in 1 .. Len(entries)
          PROVE entries'[j] = IF j = Len(entries) THEN e ELSE w[j]
      BY <1>3, <1>4, <1>8
    <2>3. ASSUME NEW j \in 1 .. Len(entries), j # Len(entries)
          PROVE w[j] = IF j < i THEN entries[j] ELSE entries[j + 1]
      <3>1. j \in 1 .. Len(entries) - 1
        BY <1>4, <2>3
      <3> QED
        BY <1>3, <3>1
    <2> QED
      BY <2>1, <2>2, <2>3 DEF e
  <1>11. BudgetRespected'
    BY <1>10 DEF IInv, BudgetRespected, Hit
  <1>12. OneEntryPerKey'
    <2> SUFFICES ASSUME NEW j \in 1 .. Len(entries), NEW k \in 1 .. Len(entries),
                        entries'[j].key = entries'[k].key
                 PROVE  j = k
      BY <1>10 DEF OneEntryPerKey
    <2> DEFINE from(x) == IF x = Len(entries) THEN i ELSE IF x < i THEN x ELSE x + 1
    <2>1. \A x \in 1 .. Len(entries) : from(x) \in 1 .. Len(entries)
                                       /\ entries'[x] = entries[from(x)]
      BY <1>2, <1>4, <1>10
    <2>2. from(j) = from(k)
      <3> HIDE DEF from
      <3> QED
        BY <1>2, <2>1 DEF IInv, OneEntryPerKey
    <2> QED
      BY <1>2, <1>4, <2>2
  <1>13. CachedInverses'
    <2>1. \A j \in 1 .. Len(entries') : \E x \in 1 .. Len(entries) : entries'[j] = entries[x]
      BY <1>2, <1>4, <1>10
    <2> QED
      BY <1>10, <2>1, EntriesKept DEF Hit
  <1>14. entries[i].matrix = req[t].survivors
    BY HitIsCallers DEF Hit
  <1>15. entries[i].matrix \in Matrices
    BY <1>3 DEF Entries, e
  <1>16. TypeOK'
    BY <1>1, <1>10, <1>15 DEF IInv, TypeOK, Hit, Return, Answer, Answers, Counters
  <1>17. CriticalSection'
    BY <1>1, CacheAssumption DEF IInv, TypeOK, CriticalSection, Hit, Return
  <1>18. ActiveRequests'
    BY <1>1, ZenonT(30) DEF IInv, TypeOK, ActiveRequests, Hit, Return, FirstSurvivors, CacheErasures
  <1>19. AnswerIsCallersInverse'
    BY <1>1, <1>14 DEF IInv, TypeOK, AnswerIsCallersInverse, Hit, Return, Answer
  <1> QED
    BY <1>9, <1>11, <1>12, <1>13, <1>16, <1>17, <1>18, <1>19 DEF IInv

\* Taking back an entry of the same key preserves the invariant.
LEMMA BeginInsertStep ==
    ASSUME IInv, NEW t \in Threads, BeginInsert(t)
    PROVE  IInv'
  <1>1. CASE At(req[t].key) = {} /\ UNCHANGED cacheVars
    <2>1. TypeOK'
      BY <1>1 DEF IInv, TypeOK, BeginInsert, cacheVars
    <2>2. CriticalSection'
      BY <1>1, CacheAssumption
         DEF IInv, TypeOK, CriticalSection, BeginInsert, At, Refused, cacheVars
    <2>3. ActiveRequests'
      BY <1>1 DEF IInv, TypeOK, ActiveRequests, BeginInsert, FirstSurvivors, CacheErasures
    <2>4. AnswerIsCallersInverse'
      BY DEF IInv, AnswerIsCallersInverse, BeginInsert
    <2> QED
      BY <1>1, <2>1, <2>2, <2>3, <2>4, CacheUntouched DEF IInv, BeginInsert, cacheVars
  <1>2. ASSUME NEW i \in At(req[t].key),
               entries' = Without(entries, i),
               retained_bytes' = retained_bytes - entries[i].bytes
        PROVE  IInv'
    <2>1. i \in 1 .. Len(entries) /\ entries \in Seq(Entries) /\ entries[i].key = req[t].key
      BY DEF At, IInv, TypeOK
    <2>2. /\ entries' \in Seq(Entries) /\ Len(entries') = Len(entries) - 1
          /\ \A j \in 1 .. Len(entries) - 1 :
                entries'[j] = IF j < i THEN entries[j] ELSE entries[j + 1]
      BY <1>2, <2>1, WithoutType
    <2>3. retained_bytes \in Nat /\ retained_bytes' \in Nat
          /\ entries[i].bytes \in Nat
          /\ Ledgered(Without(entries, i), retained_bytes - entries[i].bytes)
      BY <1>2, <2>1, LedgerWithout, EntryCharge DEF IInv
    <2>4. Ledgered(entries, retained_bytes)'
      BY <1>2, <2>3 DEF Ledgered
    <2>5. BudgetRespected'
      BY <1>2, <2>1, <2>2, <2>3, CacheAssumption DEF IInv, BudgetRespected
    <2> DEFINE from(x) == IF x < i THEN x ELSE x + 1
    <2>6. \A x \in 1 .. Len(entries') : from(x) \in 1 .. Len(entries)
                                       /\ entries'[x] = entries[from(x)]
                                       /\ from(x) # i
      BY <2>1, <2>2
    <2>7. OneEntryPerKey'
      <3> SUFFICES ASSUME NEW j \in 1 .. Len(entries'), NEW k \in 1 .. Len(entries'),
                          entries'[j].key = entries'[k].key
                   PROVE  j = k
        BY <2>2 DEF OneEntryPerKey
      <3>1. from(j) = from(k)
        <4> HIDE DEF from
        <4> QED
          BY <2>1, <2>6 DEF IInv, OneEntryPerKey
      <3> QED
        BY <2>1, <2>2, <3>1
    <2>8. CachedInverses'
      <3>1. \A j \in 1 .. Len(entries') : \E x \in 1 .. Len(entries) : entries'[j] = entries[x]
        BY <2>6
      <3> QED
        BY <2>2, <3>1, EntriesKept DEF BeginInsert
    <2>9. \A x \in 1 .. Len(entries') : entries'[x].key # req[t].key
      <3> HIDE DEF from
      <3> QED
        BY <2>1, <2>6 DEF IInv, OneEntryPerKey
    <2>10. TypeOK'
      BY <2>2, <2>3 DEF IInv, TypeOK, BeginInsert
    <2>11. CriticalSection'
      <3>1. At(req[t].key)' = {}
        BY <2>2, <2>9 DEF At, BeginInsert
      <3> QED
        BY <3>1, CacheAssumption DEF IInv, TypeOK, CriticalSection, BeginInsert, Refused
    <2>12. ActiveRequests'
      BY DEF IInv, TypeOK, ActiveRequests, BeginInsert, FirstSurvivors, CacheErasures
    <2>13. AnswerIsCallersInverse'
      BY DEF IInv, AnswerIsCallersInverse, BeginInsert
    <2> QED
      BY <2>4, <2>5, <2>7, <2>8, <2>10, <2>11, <2>12, <2>13 DEF IInv
  <1> QED
    BY <1>1, <1>2 DEF BeginInsert

\* One turn of the eviction loop preserves the invariant.
LEMMA EvictStep ==
    ASSUME IInv, NEW t \in Threads, Evict(t)
    PROVE  IInv'
  <1>1. entries \in Seq(Entries) /\ 1 \in 1 .. Len(entries)
    BY DEF Evict, IInv, TypeOK
  <1>2. /\ entries' \in Seq(Entries) /\ Len(entries') = Len(entries) - 1
        /\ \A j \in 1 .. Len(entries) - 1 : entries'[j] = entries[j + 1]
    <2>1. \A j \in 1 .. Len(entries) - 1 : ~ (j < 1)
      BY <1>1
    <2> QED
      BY <1>1, <2>1, WithoutType DEF Evict
  <1>3. retained_bytes \in Nat /\ retained_bytes' \in Nat
        /\ entries[1].bytes \in Nat
        /\ Ledgered(Without(entries, 1), retained_bytes - entries[1].bytes)
    BY <1>1, LedgerWithout, EntryCharge DEF IInv, Evict
  <1>4. Ledgered(entries, retained_bytes)'
    BY <1>3 DEF Ledgered, Evict
  <1>5. BudgetRespected'
    BY <1>1, <1>2, <1>3, CacheAssumption DEF IInv, BudgetRespected, Evict
  <1>6. \A x \in 1 .. Len(entries') : x + 1 \in 1 .. Len(entries)
                                     /\ entries'[x] = entries[x + 1]
    BY <1>1, <1>2
  <1>7. OneEntryPerKey'
    <2> SUFFICES ASSUME NEW j \in 1 .. Len(entries'), NEW k \in 1 .. Len(entries'),
                        entries'[j].key = entries'[k].key
                 PROVE  j = k
      BY <1>2 DEF OneEntryPerKey
    <2>1. j + 1 = k + 1
      BY <1>1, <1>6, SMTT(30) DEF IInv, OneEntryPerKey
    <2> QED
      BY <2>1
  <1>8. CachedInverses'
    <2>1. \A j \in 1 .. Len(entries') : \E x \in 1 .. Len(entries) : entries'[j] = entries[x]
      BY <1>6
    <2> QED
      BY <1>2, <2>1, EntriesKept DEF Evict
  <1>9. TypeOK'
    BY <1>2, <1>3 DEF IInv, TypeOK, Evict
  <1>10. CriticalSection'
    <2> SUFFICES ASSUME NEW u \in Threads
                 PROVE  /\ pc[u] = "evict" <=> lock = u
                        /\ pc[u] = "evict" => ~ Refused(req[u].key) /\ At(req[u].key)' = {}
      BY DEF CriticalSection, Evict, Refused, Bytes
    <2>1. /\ pc[u] = "evict" <=> lock = u
          /\ pc[u] = "evict" => ~ Refused(req[u].key) /\ At(req[u].key) = {}
      BY DEF IInv, CriticalSection
    <2>2. At(req[u].key) = {} => At(req[u].key)' = {}
      <3> SUFFICES ASSUME At(req[u].key) = {}, NEW x \in At(req[u].key)' PROVE FALSE
        OBVIOUS
      <3>1. x \in 1 .. Len(entries') /\ entries'[x].key = req[u].key
        BY <1>2 DEF At, Evict
      <3>2. x + 1 \in At(req[u].key)
        BY <1>1, <1>6, <3>1 DEF At
      <3> QED
        BY <3>2
    <2> QED
      BY <2>1, <2>2
  <1>11. ActiveRequests'
    BY DEF IInv, TypeOK, ActiveRequests, Evict, FirstSurvivors, CacheErasures
  <1>12. AnswerIsCallersInverse'
    BY DEF IInv, AnswerIsCallersInverse, Evict
  <1> QED
    BY <1>4, <1>5, <1>7, <1>8, <1>9, <1>10, <1>11, <1>12 DEF IInv

\* Listing and charging the new entry preserves the invariant.
LEMMA FinishInsertStep ==
    ASSUME IInv, NEW t \in Threads, FinishInsert(t)
    PROVE  IInv'
  <1> DEFINE e == Entry(req[t].key, req[t].survivors)
  <1>1. entries \in Seq(Entries) /\ Len(entries) \in Nat /\ retained_bytes \in Nat
        /\ req[t] \in Requests
    BY DEF IInv, TypeOK
  <1>2. req[t].key \in Keys /\ req[t].survivors \in Matrices
        /\ req[t].missing \in SUBSET Shards
    BY <1>1 DEF Requests, Matrices
  <1>3. Bytes(req[t].key) \in Nat
    BY <1>2, BytesType
  <1>4. e \in Entries /\ e.bytes = Bytes(req[t].key) /\ e.key = req[t].key
        /\ e.matrix = req[t].survivors
    BY <1>2, <1>3 DEF Entry, Entries
  <1> HIDE DEF e
  <1>5. entries' = Append(entries, e) /\ retained_bytes' = retained_bytes + e.bytes
    BY <1>4 DEF FinishInsert, e
  <1>6. /\ entries' \in Seq(Entries) /\ Len(entries') = Len(entries) + 1
        /\ entries'[Len(entries) + 1] = e
        /\ \A j \in 1 .. Len(entries) : entries'[j] = entries[j]
    BY <1>1, <1>4, <1>5
  <1>7. Ledgered(entries, retained_bytes)'
    <2>1. Ledgered(Append(entries, e), retained_bytes + e.bytes)
      BY <1>1, <1>4, LedgerAppend DEF IInv
    <2> QED
      BY <1>5, <2>1 DEF Ledgered
  <1>8. BudgetRespected'
    <2>1. ~ NoRoom(req[t].key)
      BY DEF FinishInsert
    <2> QED
      BY <1>1, <1>3, <1>4, <1>5, <1>6, <2>1, CacheAssumption DEF NoRoom, BudgetRespected
  <1>9. pc[t] = "evict" /\ lock = t /\ At(req[t].key) = {} /\ inversion_cache
        /\ e.matrix \notin Singular
        /\ FirstSurvivors(e.matrix, req[t].missing)
        /\ e.key = CacheErasures(e.matrix, req[t].missing)
    BY <1>4 DEF FinishInsert, IInv, CriticalSection, ActiveRequests
  <1>10. \A j \in 1 .. Len(entries) : entries[j].key # e.key
    BY <1>1, <1>4, <1>9 DEF At
  <1>11. OneEntryPerKey'
    <2> SUFFICES ASSUME NEW j \in 1 .. Len(entries) + 1, NEW k \in 1 .. Len(entries) + 1,
                        entries'[j].key = entries'[k].key
                 PROVE  j = k
      BY <1>6 DEF OneEntryPerKey
    <2>1. CASE j \in 1 .. Len(entries) /\ k \in 1 .. Len(entries)
      BY <1>1, <1>6, <2>1 DEF IInv, OneEntryPerKey
    <2>2. CASE j = Len(entries) + 1 \/ k = Len(entries) + 1
      BY <1>1, <1>6, <1>10, <2>2
    <2> QED
      BY <1>1, <2>1, <2>2
  <1>12. CachedInverses'
    <2> SUFFICES ASSUME NEW j \in 1 .. Len(entries) + 1 PROVE GenuineEntry(entries[j])'
      BY <1>6 DEF CachedInverses
    <2>1. UNCHANGED inversion_cache
      BY DEF FinishInsert
    <2>2. CASE j \in 1 .. Len(entries)
      <3>1. GenuineEntry(entries[j]) /\ entries'[j] = entries[j]
        BY <1>1, <1>6, <2>2 DEF IInv, CachedInverses
      <3> QED
        BY <2>1, <3>1 DEF GenuineEntry, FirstSurvivors, CacheErasures
    <2>3. CASE j = Len(entries) + 1
      <3>1. entries'[j] = e
        BY <1>6, <2>3
      <3> DEFINE m == req[t].missing
                 x == entries'[j]
      <3>2. m \in SUBSET Shards /\ FirstSurvivors(x.matrix, m)
            /\ x.key = CacheErasures(x.matrix, m) /\ x.matrix \notin Singular
        BY <1>2, <1>9, <3>1
      <3>3. inversion_cache' /\ x.key = CacheErasures(x.matrix, m)
        BY <1>9, <2>1, <3>2
      <3> HIDE DEF m
      <3> QED
        BY <2>1, <3>2, <3>3 DEF GenuineEntry, FirstSurvivors, CacheErasures
    <2> QED
      BY <1>1, <2>2, <2>3
  <1>13. TypeOK'
    <2>1. retained_bytes' \in Nat
      BY <1>1, <1>3, <1>4, <1>5
    <2>2. metrics' \in [Counters -> Nat] /\ evicted' \in Nat
      BY SMTT(30) DEF IInv, TypeOK, FinishInsert, Counters
    <2>3. answer' \in [Threads -> Answers]
      BY <1>2 DEF IInv, TypeOK, FinishInsert, Return, Answer, Answers
    <2>4. pc' \in [Threads -> {"idle", "lookup", "build", "insert", "evict"}]
      BY DEF IInv, TypeOK, FinishInsert, Return
    <2> QED
      BY <1>6, <2>1, <2>2, <2>3, <2>4 DEF IInv, TypeOK, FinishInsert
  <1>14. CriticalSection'
    <2> SUFFICES ASSUME NEW u \in Threads PROVE pc'[u] # "evict" /\ lock' # u
      BY DEF CriticalSection
    <2>1. u # t => pc[u] # "evict"
      BY <1>9 DEF IInv, CriticalSection
    <2> QED
      BY <2>1, CacheAssumption DEF FinishInsert, Return, IInv, TypeOK
  <1>15. ActiveRequests'
    BY DEF IInv, TypeOK, ActiveRequests, FinishInsert, Return, FirstSurvivors, CacheErasures
  <1>16. AnswerIsCallersInverse'
    BY DEF IInv, TypeOK, AnswerIsCallersInverse, FinishInsert, Return, Answer
  <1> QED
    BY <1>7, <1>8, <1>11, <1>12, <1>13, <1>14, <1>15, <1>16 DEF IInv

\* A step that changes no variable preserves the invariant.
LEMMA StutterStep ==
    ASSUME IInv, UNCHANGED vars
    PROVE  IInv'
  <1>1. TypeOK' /\ AnswerIsCallersInverse'
    BY DEF IInv, TypeOK, AnswerIsCallersInverse, vars
  <1>2. CriticalSection'
    BY DEF IInv, CriticalSection, vars, At, Refused
  <1>3. ActiveRequests'
    BY DEF IInv, ActiveRequests, vars, FirstSurvivors, CacheErasures
  <1> QED
    BY <1>1, <1>2, <1>3, CacheUntouched DEF IInv, vars

\* Every step of every thread preserves the inductive invariant.
THEOREM Inductive == IInv /\ [Next]_vars => IInv'
  <1> SUFFICES ASSUME IInv, [Next]_vars PROVE IInv'
    OBVIOUS
  <1>1. ASSUME NEW t \in Threads, Call(t) PROVE IInv'
    BY <1>1, RejectCountStep, RequestStep DEF Call, CallFromPlan, CallFromDecodeIdx
  <1>2. ASSUME NEW t \in Threads, Step(t) PROVE IInv'
    BY <1>2, HitStep, MissStep, BuildStep, RefuseInsertStep, BeginInsertStep,
       EvictStep, FinishInsertStep DEF Step
  <1> QED
    BY <1>1, <1>2, StutterStep DEF Next

\* The inductive invariant holds in every reachable state.
LEMMA Invariance == Spec => []IInv
  BY InitIInv, Inductive, PTL DEF Spec

-----------------------------------------------------------------------------
(***************************************************************************)
(* The properties.                                                         *)
(***************************************************************************)

\* The variables keep their types; retained_bytes never underflows.
THEOREM TypeCorrect == Spec => []TypeOK
  <1>1. IInv => TypeOK
    BY DEF IInv
  <1> QED
    BY <1>1, Invariance, PTL

\* At every step of every interleaving of hits, misses, racing insertions,
\* replacements and evictions, the byte counter is the sum of the charges of
\* the listed entries.
THEOREM AccountingExact == Spec => []ChargesAccounted
  <1>1. IInv => ChargesAccounted
    <2> SUFFICES ASSUME IInv PROVE ChargesAccounted
      OBVIOUS
    <2>1. PICK f \in [0 .. Len(entries) -> Nat] :
             IsLedger(f, entries) /\ retained_bytes = f[Len(entries)]
      BY DEF IInv, Ledgered
    <2>2. Len(entries) \in Nat /\ retained_bytes <= MaxBytes
      BY DEF IInv, TypeOK, BudgetRespected
    <2>3. ASSUME NEW j \in 0 .. Len(entries) PROVE f[j] \in 0 .. MaxBytes
      <3>1. f[j] <= f[Len(entries)] /\ f[j] \in Nat /\ f[Len(entries)] \in Nat
        BY <2>1, <2>2 DEF IsLedger
      <3> QED
        BY <2>1, <2>2, <3>1, CacheAssumption
    <2>4. f \in [0 .. Len(entries) -> 0 .. MaxBytes]
      BY <2>1, <2>3
    <2> QED
      BY <2>1, <2>4 DEF ChargesAccounted
  <1> QED
    BY <1>1, Invariance, PTL

\* The entry budget and the byte budget hold in every reachable state.
THEOREM BudgetHolds == Spec => []BudgetRespected
  <1>1. IInv => BudgetRespected
    BY DEF IInv
  <1> QED
    BY <1>1, Invariance, PTL

\* The eviction loop cannot panic: when it must make room there is an entry.
THEOREM EvictionNeverPanics == Spec => []EvictionCandidate
  <1>1. IInv => EvictionCandidate
    <2> SUFFICES ASSUME IInv, NEW t \in Threads, pc[t] = "evict", entries = <<>>
                 PROVE  ~ NoRoom(req[t].key)
      BY DEF EvictionCandidate
    <2>1. retained_bytes = 0
      BY LedgerEmpty DEF IInv
    <2>2. Bytes(req[t].key) <= MaxBytes /\ Capacity # 0
          /\ Bytes(req[t].key) \in Nat
      BY BytesType, CacheAssumption
         DEF IInv, TypeOK, CriticalSection, Refused, Requests
    <2> QED
      BY <2>1, <2>2, CacheAssumption DEF NoRoom
  <1> QED
    BY <1>1, Invariance, PTL

\* Threads that race to insert one pattern leave a single entry of it.
THEOREM KeysUnique == Spec => []OneEntryPerKey
  <1>1. IInv => OneEntryPerKey
    BY DEF IInv
  <1> QED
    BY <1>1, Invariance, PTL

\* The list of the cache is intact in every reachable state: what the four
\* theorems above say of InversionCache::insert and remove_lru, together.
THEOREM ListStaysIntact == Spec => []ListIntact
  <1>1. ChargesAccounted /\ BudgetRespected /\ EvictionCandidate /\ OneEntryPerKey
          => ListIntact
    BY DEF ListIntact
  <1> QED
    BY <1>1, AccountingExact, BudgetHolds, EvictionNeverPanics, KeysUnique, PTL

\* No call ever returns the inverse of another erasure pattern's survivors.
THEOREM AnswersCorrect == Spec => []AnswerIsCallersInverse
  <1>1. IInv => AnswerIsCallersInverse
    BY DEF IInv
  <1> QED
    BY <1>1, Invariance, PTL

-----------------------------------------------------------------------------
(***************************************************************************)
(* The counters.                                                           *)
(***************************************************************************)

\* The threads before their lookup, and those between a miss and its insertion.
Inserting == {"build", "insert", "evict"}
LookingUp == InFlight({"lookup"})
Building == InFlight(Inserting)

\* A step takes thread t to another place of get_data_decode_matrix.
Moves(t, place) == pc' = [pc EXCEPT ![t] = place]

\* A thread that moves from one place to another changes the number of threads
\* at a set of places by its own coming and going.
LEMMA InFlightMove ==
    ASSUME IInv, NEW t \in Threads, NEW place, Moves(t, place), NEW P
    PROVE  /\ InFlight(P) \in Nat
           /\ InFlight(P)' = IF pc[t] \in P
                               THEN IF place \in P THEN InFlight(P) ELSE InFlight(P) - 1
                               ELSE IF place \in P THEN InFlight(P) + 1 ELSE InFlight(P)
  <1> DEFINE there == {u \in Threads : pc[u] \in P}
             there2 == {u \in Threads : pc'[u] \in P}
  <1>1. IsFiniteSet(there)
    BY CacheAssumption, FS_Subset
  <1>2. \A u \in Threads : pc'[u] = IF u = t THEN place ELSE pc[u]
    BY DEF IInv, TypeOK, Moves
  <1>3. there2 = IF place \in P THEN there \cup {t} ELSE there \ {t}
    BY <1>2
  <1>4. t \in there <=> pc[t] \in P
    OBVIOUS
  <1>5. InFlight(P) = Cardinality(there) /\ InFlight(P)' = Cardinality(there2)
    BY DEF InFlight
  <1> HIDE DEF there, there2
  <1>6. Cardinality(there) \in Nat
    BY <1>1, FS_CardinalityType
  <1>7. /\ Cardinality(there \cup {t}) =
             IF t \in there THEN Cardinality(there) ELSE Cardinality(there) + 1
        /\ Cardinality(there \ {t}) =
             IF t \in there THEN Cardinality(there) - 1 ELSE Cardinality(there)
    BY <1>1, FS_AddElement, FS_RemoveElement
  <1> QED
    BY <1>3, <1>4, <1>5, <1>6, <1>7

\* The same for the two places the counters are about.
LEMMA Moved ==
    ASSUME IInv, NEW t \in Threads, NEW place, Moves(t, place)
    PROVE  /\ LookingUp \in Nat /\ Building \in Nat
           /\ pc[t] = "lookup" /\ place # "lookup" => LookingUp' = LookingUp - 1
           /\ pc[t] # "lookup" /\ place = "lookup" => LookingUp' = LookingUp + 1
           /\ pc[t] # "lookup" /\ place # "lookup" => LookingUp' = LookingUp
           /\ pc[t] \in Inserting /\ place \notin Inserting => Building' = Building - 1
           /\ pc[t] \notin Inserting /\ place \in Inserting => Building' = Building + 1
           /\ (pc[t] \in Inserting <=> place \in Inserting) => Building' = Building
  <1> DEFINE L == {"lookup"}
             B == Inserting
  <1>1. /\ InFlight(L) \in Nat
        /\ InFlight(L)' = IF pc[t] \in L
                            THEN IF place \in L THEN InFlight(L) ELSE InFlight(L) - 1
                            ELSE IF place \in L THEN InFlight(L) + 1 ELSE InFlight(L)
    <2> HIDE DEF L
    <2> QED BY InFlightMove
  <1>2. /\ InFlight(B) \in Nat
        /\ InFlight(B)' = IF pc[t] \in B
                            THEN IF place \in B THEN InFlight(B) ELSE InFlight(B) - 1
                            ELSE IF place \in B THEN InFlight(B) + 1 ELSE InFlight(B)
    <2> HIDE DEF B
    <2> QED BY InFlightMove
  <1> QED
    BY <1>1, <1>2 DEF LookingUp, Building

\* Threads that stay where they are leave the number at every place.
LEMMA Stayed == ASSUME UNCHANGED pc PROVE UNCHANGED <<LookingUp, Building>>
  BY DEF LookingUp, Building, InFlight

\* The counters' part of the invariant holds before the first call.
LEMMA InitMetrics == Init => MetricsInv
  <1> SUFFICES ASSUME Init PROVE MetricsInv
    OBVIOUS
  <1>1. /\ {t \in Threads : pc[t] \in {"lookup"}} = {}
        /\ {t \in Threads : pc[t] \in {"build", "insert", "evict"}} = {}
    BY DEF Init
  <1>2. InFlight({"lookup"}) = 0 /\ InFlight({"build", "insert", "evict"}) = 0
    BY <1>1, FS_EmptySet DEF InFlight
  <1> QED
    BY <1>2 DEF Init, MetricsInv, MetricsConsistent, Counters

\* MetricsInv in terms of the two numbers of threads.
LEMMA MetricsParts ==
    MetricsInv <=>
      /\ metrics["requests"] = metrics["hits"] + metrics["misses"] + LookingUp
      /\ inversion_cache => metrics["inserts"] + Building <= metrics["misses"]
      /\ metrics["inserts"] = Len(entries) + metrics["evictions"] + evicted + replaced
      /\ lock = Free => evicted = 0
  BY DEF MetricsInv, MetricsConsistent, LookingUp, Building, Inserting

\* Every step keeps the counters in agreement with the threads and the list.
LEMMA MetricsStep == IInv /\ MetricsInv /\ [Next]_vars => MetricsInv'
  <1> SUFFICES ASSUME IInv, MetricsInv, [Next]_vars PROVE MetricsInv'
    OBVIOUS
  <1>p. /\ metrics["requests"] = metrics["hits"] + metrics["misses"] + LookingUp
        /\ inversion_cache => metrics["inserts"] + Building <= metrics["misses"]
        /\ metrics["inserts"] = Len(entries) + metrics["evictions"] + evicted + replaced
        /\ lock = Free => evicted = 0
    BY MetricsParts
  <1>q. SUFFICES
        /\ metrics'["requests"] = metrics'["hits"] + metrics'["misses"] + LookingUp'
        /\ inversion_cache' => metrics'["inserts"] + Building' <= metrics'["misses"]
        /\ metrics'["inserts"] = Len(entries') + metrics'["evictions"] + evicted' + replaced'
        /\ lock' = Free => evicted' = 0
    BY DEF MetricsInv, MetricsConsistent, LookingUp, Building, Inserting
  <1> DEFINE Goal ==
        /\ metrics'["requests"] = metrics'["hits"] + metrics'["misses"] + LookingUp'
        /\ inversion_cache' => metrics'["inserts"] + Building' <= metrics'["misses"]
        /\ metrics'["inserts"] = Len(entries') + metrics'["evictions"] + evicted' + replaced'
        /\ lock' = Free => evicted' = 0
  <1>0. /\ entries \in Seq(Entries) /\ Len(entries) \in Nat
        /\ evicted \in Nat /\ replaced \in Nat
        /\ metrics \in [Counters -> Nat]
        /\ metrics["requests"] \in Nat /\ metrics["hits"] \in Nat /\ metrics["misses"] \in Nat
        /\ metrics["inserts"] \in Nat /\ metrics["evictions"] \in Nat
    BY DEF IInv, TypeOK, Counters
  <1>1. ASSUME NEW t \in Threads, NEW missing \in SUBSET Shards, RejectCount(t, missing)
        PROVE  Goal
    <2>0. pc[t] = "idle" /\ Moves(t, "idle")
      BY <1>1 DEF RejectCount, Return, Moves
    <2>1. UNCHANGED <<LookingUp, Building>>
      BY <2>0, Moved DEF Inserting
    <2> QED
      BY <1>p, <1>1, <2>1 DEF RejectCount, cacheVars
  <1>2. ASSUME NEW t \in Threads, NEW missing \in SUBSET Shards, NEW S \in SUBSET Shards,
               Request(t, S, missing)
        PROVE  Goal
    <2>1. CASE inversion_cache
      <3>0. pc[t] = "idle" /\ Moves(t, "lookup")
        BY <1>2, <2>1 DEF Request, Moves
      <3>1. /\ LookingUp' = LookingUp + 1 /\ LookingUp \in Nat
            /\ Building' = Building
        BY <3>0, Moved DEF Inserting
      <3>2. metrics' = [metrics EXCEPT !["requests"] = @ + 1]
        BY <1>2, <2>1 DEF Request
      <3> QED
        BY <1>p, <1>0, <1>2, <3>1, <3>2, SMTT(30) DEF Request, Counters, cacheVars
    <2>2. CASE ~ inversion_cache
      <3>0. pc[t] = "idle" /\ Moves(t, "build")
        BY <1>2, <2>2 DEF Request, Moves
      <3>1. LookingUp' = LookingUp
        BY <3>0, Moved
      <3> QED
        BY <1>p, <1>2, <2>2, <3>1 DEF Request, cacheVars
    <2> QED
      BY <2>1, <2>2
  <1>3. ASSUME NEW t \in Threads, Hit(t) PROVE Goal
    <2>1. PICK i \in At(req[t].key) : entries' = Append(Without(entries, i), entries[i])
      BY <1>3 DEF Hit
    <2>2. Len(entries') = Len(entries)
      <3>1. i \in 1 .. Len(entries)
        BY <1>0 DEF At
      <3>2. /\ Without(entries, i) \in Seq(Entries) /\ entries[i] \in Entries
            /\ Len(Without(entries, i)) = Len(entries) - 1
        BY <1>0, <3>1, WithoutType, EntryCharge
      <3> QED
        BY <1>0, <2>1, <3>2
    <2>3. pc[t] = "lookup" /\ Moves(t, "idle")
      BY <1>3 DEF Hit, Return, Moves
    <2>4. LookingUp' = LookingUp - 1 /\ LookingUp \in Nat /\ Building' = Building
      BY <2>3, Moved DEF Inserting
    <2>5. /\ metrics'["hits"] = metrics["hits"] + 1
          /\ \A c \in Counters \ {"hits"} : metrics'[c] = metrics[c]
          /\ UNCHANGED <<inversion_cache, lock, evicted, replaced>>
      BY <1>0, <1>3 DEF Hit, Counters
    <2> QED
      BY <1>p, <1>0, <2>2, <2>4, <2>5, SMTT(30) DEF Counters
  <1>4. ASSUME NEW t \in Threads, Miss(t) PROVE Goal
    <2>0. pc[t] = "lookup" /\ Moves(t, "build")
      BY <1>4 DEF Miss, Moves
    <2>1. /\ LookingUp' = LookingUp - 1 /\ LookingUp \in Nat
          /\ Building' = Building + 1 /\ Building \in Nat
      BY <2>0, Moved DEF Inserting
    <2>2. /\ metrics'["misses"] = metrics["misses"] + 1
          /\ metrics'["requests"] = metrics["requests"] /\ metrics'["hits"] = metrics["hits"]
          /\ metrics'["inserts"] = metrics["inserts"]
          /\ metrics'["evictions"] = metrics["evictions"]
          /\ UNCHANGED <<entries, lock, evicted, replaced>>
      BY <1>0, <1>4 DEF Miss, Counters, cacheVars
    <2>3. inversion_cache' => inversion_cache
      BY <1>4 DEF Miss
    <2>4. metrics'["requests"] = metrics'["hits"] + metrics'["misses"] + LookingUp'
      <3>1. \A r, h, m, n \in Int : r = h + m + n => r = h + (m + 1) + (n - 1)
        OBVIOUS
      <3>2. metrics["requests"] = metrics["hits"] + (metrics["misses"] + 1) + (LookingUp - 1)
        BY <1>p, <1>0, <2>1, <3>1, SMTT(30)
      <3> QED
        BY <2>1, <2>2, <3>2, Zenon
    <2>5. inversion_cache' => metrics'["inserts"] + Building' <= metrics'["misses"]
      BY <1>p, <1>0, <2>1, <2>2, <2>3, SMTT(30)
    <2> QED
      BY <1>p, <2>2, <2>4, <2>5
  <1>5. ASSUME NEW t \in Threads, Build(t) \/ RefuseInsert(t) PROVE Goal
    <2>1. PICK place \in {"idle", "insert"} : Moves(t, place)
      BY <1>5 DEF Build, RefuseInsert, Return, Moves
    <2>2. pc[t] \in {"build", "insert"}
      BY <1>5 DEF Build, RefuseInsert
    <2>3. /\ LookingUp' = LookingUp
          /\ Building' <= Building /\ Building' \in Int /\ Building \in Nat
      BY <2>1, <2>2, Moved DEF Inserting
    <2>4. UNCHANGED <<entries, lock, evicted, replaced, metrics>>
      BY <1>5 DEF Build, RefuseInsert, cacheVars
    <2>5. inversion_cache' => inversion_cache
      BY <1>5 DEF Build, RefuseInsert
    <2> QED
      BY <1>p, <1>0, <2>3, <2>4, <2>5, SMTT(30)
  <1>6. ASSUME NEW t \in Threads, BeginInsert(t) PROVE Goal
    <2>0. pc[t] = "insert" /\ Moves(t, "evict")
      BY <1>6 DEF BeginInsert, Moves
    <2>1. LookingUp' = LookingUp /\ Building' = Building
      BY <2>0, Moved DEF Inserting
    <2>2. Len(entries') + replaced' = Len(entries) + replaced
      <3>1. CASE UNCHANGED <<cacheVars, replaced>>
        BY <3>1 DEF cacheVars
      <3>2. ASSUME NEW i \in 1 .. Len(entries), entries' = Without(entries, i),
                   replaced' = replaced + 1
            PROVE  Len(entries') + replaced' = Len(entries) + replaced
        <4>1. Len(entries') = Len(entries) - 1
          BY <1>0, <3>2, WithoutType
        <4> QED
          BY <1>0, <3>2, <4>1
      <3> QED
        BY <1>0, <1>6, <3>1, <3>2 DEF BeginInsert, At
    <2>3. /\ evicted = 0 /\ evicted' = 0 /\ lock' # Free
          /\ UNCHANGED <<metrics, inversion_cache>>
      BY <1>p, <1>6, CacheAssumption DEF BeginInsert
    <2>4. Len(entries') \in Nat /\ replaced' \in Nat
      BY <1>6, BeginInsertStep DEF IInv, TypeOK
    <2>5. metrics["inserts"] = metrics["evictions"] + (Len(entries) + replaced)
      BY <1>p, <1>0, <2>3
    <2> QED
      BY <1>p, <1>0, <2>1, <2>2, <2>3, <2>4, <2>5, SMTT(30)
  <1>7. ASSUME NEW t \in Threads, Evict(t) PROVE Goal
    <2>1. UNCHANGED <<LookingUp, Building>>
      BY <1>7, Stayed DEF Evict
    <2>2. Len(entries') = Len(entries) - 1
      <3>1. 1 \in 1 .. Len(entries)
        BY <1>0, <1>7 DEF Evict
      <3> QED
        BY <1>0, <1>7, <3>1, WithoutType DEF Evict
    <2>3. lock # Free
      BY <1>7, CacheAssumption DEF Evict, IInv, CriticalSection
    <2>4. evicted' = evicted + 1 /\ UNCHANGED <<inversion_cache, lock, replaced, metrics>>
      BY <1>7 DEF Evict
    <2> QED
      BY <1>p, <1>0, <2>1, <2>2, <2>3, <2>4, SMTT(30)
  <1>8. ASSUME NEW t \in Threads, FinishInsert(t) PROVE Goal
    <2>0. pc[t] = "evict" /\ Moves(t, "idle")
      BY <1>8 DEF FinishInsert, Return, Moves
    <2>1. /\ LookingUp' = LookingUp
          /\ Building' = Building - 1 /\ Building \in Nat
      BY <2>0, Moved DEF Inserting
    <2>2. Len(entries') = Len(entries) + 1
      BY <1>0, <1>8 DEF FinishInsert
    <2>3. /\ metrics'["requests"] = metrics["requests"] /\ metrics'["hits"] = metrics["hits"]
          /\ metrics'["misses"] = metrics["misses"]
          /\ metrics'["inserts"] = metrics["inserts"] + 1
          /\ metrics'["evictions"] = metrics["evictions"] + evicted
          /\ evicted' = 0 /\ UNCHANGED replaced
      BY <1>0, <1>8 DEF FinishInsert, Counters
    <2>4. inversion_cache' => inversion_cache
      BY <1>8 DEF FinishInsert
    <2>5. inversion_cache' => metrics'["inserts"] + Building' <= metrics'["misses"]
      BY <1>p, <1>0, <2>1, <2>3, <2>4, SMTT(30)
    <2>6. metrics'["inserts"] = Len(entries') + metrics'["evictions"] + evicted' + replaced'
      <3> DEFINE e == metrics["evictions"]
                 i == metrics["inserts"]
                 n == Len(entries)
      <3>1. e \in Int /\ i \in Int /\ n \in Int /\ i = n + e + evicted + replaced
        BY <1>p, <1>0
      <3> HIDE DEF e, i, n
      <3>2. i + 1 = (n + 1) + (e + evicted) + 0 + replaced
        BY <1>0, <3>1
      <3> USE DEF e, i, n
      <3> QED
        BY <2>2, <2>3, <3>2, Zenon
    <2> QED
      BY <1>p, <2>1, <2>3, <2>5, <2>6
  <1>9. CASE UNCHANGED vars
    BY <1>p, <1>9, Stayed DEF vars
  <1> QED
    BY <1>1, <1>2, <1>3, <1>4, <1>5, <1>6, <1>7, <1>8, <1>9
       DEF Next, Call, CallFromPlan, CallFromDecodeIdx, Step

\* ReconstructionCacheMetrics adds up in every reachable state, whatever threads
\* race: requests are hits, misses or pending, and insertions are listed, evicted
\* or replaced.
THEOREM MetricsAgree == Spec => []MetricsConsistent
  <1>1. MetricsInv => MetricsConsistent
    BY DEF MetricsInv
  <1> QED
    BY <1>1, Invariance, InitMetrics, MetricsStep, PTL DEF Spec

-----------------------------------------------------------------------------
(***************************************************************************)
(* The refinement: a call of the cached codec is a call of the service, the*)
(* step that returns is the service's response, the others are invisible.  *)
(***************************************************************************)
\* The initial states are initial states of the cache-free service.
LEMMA ServiceInit == Init => Service!Init
  BY DEF Init, Service!Init, NoRequest, Answer

\* A step that answers t with the inverse of its survivors is a response.
LEMMA ServiceRespond ==
    ASSUME IInv, NEW t \in Threads, pc[t] # "idle",
           pc' = [pc EXCEPT ![t] = "idle"], UNCHANGED <<req, calls>>,
           answer' = [answer EXCEPT ![t] = Service!Inverse(req[t].survivors)]
    PROVE  Service!Next
  <1>1. {u \in Threads : pc'[u] # "idle"} = {u \in Threads : pc[u] # "idle"} \ {t}
    BY DEF IInv, TypeOK
  <1>2. Service!Respond(t)
    BY <1>1 DEF Service!Respond
  <1> QED
    BY <1>2 DEF Service!Next

\* A step inside a call, which neither starts nor answers one, is invisible.
LEMMA ServiceStutter ==
    ASSUME UNCHANGED <<req, answer, calls>>,
           \A t \in Threads : pc[t] = "idle" <=> pc'[t] = "idle"
    PROVE  UNCHANGED Service!svars
  BY DEF Service!svars

\* Every step maps to a step of the cache-free service or to a stutter.
LEMMA ServiceStep == IInv /\ [Next]_vars => [Service!Next]_(Service!svars)
  <1> SUFFICES ASSUME IInv, [Next]_vars PROVE [Service!Next]_(Service!svars)
    OBVIOUS
  <1>1. ASSUME NEW t \in Threads, NEW missing \in SUBSET Shards, RejectCount(t, missing)
        PROVE  Service!Next
    <2>1. {u \in Threads : pc'[u] # "idle"} = {u \in Threads : pc[u] # "idle"}
      BY <1>1 DEF RejectCount, Return, IInv, TypeOK
    <2>2. [u \in Threads |-> req'[u].survivors] =
             [[u \in Threads |-> req[u].survivors] EXCEPT ![t] = Shards \ missing]
      BY <1>1 DEF RejectCount, IInv, TypeOK
    <2>3. /\ t \notin {u \in Threads : pc[u] # "idle"}
          /\ calls < MaxCalls /\ calls' = calls + 1
          /\ Cardinality(Shards \ missing) # DataShards
          /\ answer' = [answer EXCEPT ![t] = [status |-> "TooFewShardsPresent", matrix |-> {}]]
      BY <1>1 DEF RejectCount, Return, Answer
    <2>4. Service!Refuse(t, Shards \ missing)
      BY <2>1, <2>2, <2>3 DEF Service!Refuse
    <2> QED
      BY <2>3, <2>4 DEF Service!Next
  <1>2. ASSUME NEW t \in Threads, NEW missing \in SUBSET Shards,
               NEW S \in SUBSET Shards, Request(t, S, missing)
        PROVE  Service!Next
    <2>1. {u \in Threads : pc'[u] # "idle"} = {u \in Threads : pc[u] # "idle"} \cup {t}
      BY <1>2 DEF Request, IInv, TypeOK
    <2>2. [u \in Threads |-> req'[u].survivors] =
             [[u \in Threads |-> req[u].survivors] EXCEPT ![t] = S]
      BY <1>2 DEF Request, IInv, TypeOK
    <2>3. /\ t \notin {u \in Threads : pc[u] # "idle"}
          /\ calls < MaxCalls /\ calls' = calls + 1
          /\ Cardinality(S) = DataShards
          /\ answer' = [answer EXCEPT ![t] = [status |-> "none", matrix |-> {}]]
      BY <1>2 DEF Request, FirstSurvivors, Answer
    <2>4. Service!Call(t, S)
      BY <2>1, <2>2, <2>3 DEF Service!Call
    <2> QED
      BY <2>3, <2>4 DEF Service!Next
  <1>3. ASSUME NEW t \in Threads, Hit(t) PROVE Service!Next
    <2>1. PICK i \in At(req[t].key) : Return(t, Answer("ok", entries[i].matrix))
      BY <1>3 DEF Hit
    <2>2. entries[i].matrix = req[t].survivors /\ req[t].survivors \notin Singular
      BY <1>3, HitIsCallers DEF Hit
    <2> QED
      BY <1>3, <2>1, <2>2, ServiceRespond DEF Hit, Return, Answer, Service!Inverse
  <1>4. ASSUME NEW t \in Threads, Build(t) PROVE [Service!Next]_(Service!svars)
    <2>1. CASE req[t].survivors \in Singular
      BY <1>4, <2>1, ServiceRespond DEF Build, Return, Answer, Service!Inverse
    <2>2. CASE req[t].survivors \notin Singular /\ inversion_cache
      <3>1. UNCHANGED Service!svars
        BY <1>4, <2>2, ServiceStutter DEF Build, IInv, TypeOK
      <3> QED
        BY <3>1
    <2>3. CASE req[t].survivors \notin Singular /\ ~ inversion_cache
      BY <1>4, <2>3, ServiceRespond DEF Build, Return, Answer, Service!Inverse
    <2> QED
      BY <2>1, <2>2, <2>3
  <1>5. ASSUME NEW t \in Threads, RefuseInsert(t) \/ FinishInsert(t) PROVE Service!Next
    <2>1. req[t].survivors \notin Singular
      BY <1>5 DEF RefuseInsert, FinishInsert, IInv, ActiveRequests
    <2> QED
      BY <1>5, <2>1, ServiceRespond
         DEF RefuseInsert, FinishInsert, Return, Answer, Service!Inverse
  <1>6. ASSUME NEW t \in Threads, Miss(t) \/ BeginInsert(t) \/ Evict(t)
        PROVE  UNCHANGED Service!svars
    BY <1>6, ServiceStutter DEF Miss, BeginInsert, Evict, IInv, TypeOK
  <1>7. CASE UNCHANGED vars
    BY <1>7, ServiceStutter DEF vars
  <1> QED
    BY <1>1, <1>2, <1>3, <1>4, <1>5, <1>6, <1>7 
       DEF Next, Call, CallFromPlan, CallFromDecodeIdx, Step

\* The cached codec implements the cache-free service: caching, truncating keys,
\* racing insertions and evictions never change what a call answers.
THEOREM CacheTransparent == Spec => CacheIsTransparent
  BY ServiceInit, ServiceStep, Invariance, PTL DEF Spec, CacheIsTransparent, Service!Spec
=============================================================================
