--------------------------- MODULE DecodePlanCache ----------------------------
(***************************************************************************)
(* The process-wide cache of GF(2^16) decode plans (decode.rs of           *)
(* leopard_gf16): looked up under a mutex, built outside of it, inserted   *)
(* under it again, with an entry and a byte budget.  Each of the two       *)
(* critical sections is one action.  A plan is <<request it was built for, *)
(* thread that built it>>.                                                 *)
(***************************************************************************)
EXTENDS Integers, Sequences, SequencesExt

CONSTANTS
    Threads,
    Requests,       \* [counts, present]: shard counts and erasure pattern
    PlanBytes,      \* request -> bytes of its plan and key
    Capacity,       \* entries
    MaxBytes

\* What the constants have to satisfy.
PlanCacheAssumption ==
    /\ Requests # {} /\ PlanBytes \in [Requests -> Nat]
    /\ Capacity \in Nat \ {0} /\ MaxBytes \in Nat

VARIABLES
    entries,        \* [key, plan, bytes], least recently used first
    retained_bytes,
    pc,             \* per thread: "idle", "lookup", "build", "insert" or "done"
    request,        \* per thread: the request it serves
    plan            \* per thread: the plan it holds

vars == <<entries, retained_bytes, pc, request, plan>>

NoPlan == <<>>

PlanKey(r) == r

Listed(key) == {k \in DOMAIN entries : entries[k].key = key}
At(key) == CHOOSE k \in DOMAIN entries : entries[k].key = key

\* A lookup makes the entry the most recent one.
Touched(k) == Append(RemoveAt(entries, k), entries[k])

Request(t, r) ==
    /\ pc[t] = "idle"
    /\ request' = [request EXCEPT ![t] = r]
    /\ pc' = [pc EXCEPT ![t] = "lookup"]
    /\ UNCHANGED <<entries, retained_bytes, plan>>

Found(t, key) ==
    /\ Listed(key) # {}
    /\ entries' = Touched(At(key))
    /\ plan' = [plan EXCEPT ![t] = entries[At(key)].plan]
    /\ pc' = [pc EXCEPT ![t] = "done"]
    /\ UNCHANGED <<retained_bytes, request>>

Lookup(t) ==
    /\ pc[t] = "lookup"
    /\ \/ Found(t, PlanKey(request[t]))
       \/ /\ Listed(PlanKey(request[t])) = {}
          /\ pc' = [pc EXCEPT ![t] = "build"]
          /\ UNCHANGED <<entries, retained_bytes, request, plan>>

Build(t) ==
    /\ pc[t] = "build"
    /\ plan' = [plan EXCEPT ![t] = <<request[t], t>>]
    /\ pc' = [pc EXCEPT ![t] = "insert"]
    /\ UNCHANGED <<entries, retained_bytes, request>>

BytesOf(list) ==
    LET sum[n \in 0 .. Len(list)] == IF n = 0 THEN 0 ELSE sum[n - 1] + list[n].bytes
    IN  sum[Len(list)]
Oldest(n) == SubSeq(entries, 1, n)
Others(n) == SubSeq(entries, n + 1, Len(entries))

\* Mutant: one entry too many.
NoRoomOffByOne(n, bytes) ==
    \/ Len(entries) - n > Capacity
    \/ retained_bytes - BytesOf(Oldest(n)) > MaxBytes - bytes

\* The eviction loop goes on after n evictions.
NoRoom(n, bytes) ==
    \/ Len(entries) - n >= Capacity
    \/ retained_bytes - BytesOf(Oldest(n)) > MaxBytes - bytes

Evictions(bytes) == Min({n \in 0 .. Len(entries) : ~ NoRoom(n, bytes)})

Charged(n, bytes) == retained_bytes - BytesOf(Oldest(n)) + bytes

AlreadyThere(key) == Listed(key) # {}

\* insert: another thread's plan is used if there is one by now; a plan above
\* the budget stays with its caller.
Insert(t) ==
    LET key == PlanKey(request[t])
        bytes == PlanBytes[request[t]]
        n == Evictions(bytes)
    IN /\ pc[t] = "insert"
       /\ \/ AlreadyThere(key) /\ Found(t, key)
          \/ /\ ~ AlreadyThere(key) /\ bytes > MaxBytes
             /\ pc' = [pc EXCEPT ![t] = "done"]
             /\ UNCHANGED <<entries, retained_bytes, request, plan>>
          \/ /\ ~ AlreadyThere(key) /\ bytes <= MaxBytes
             /\ entries' = Append(Others(n), [key |-> key, plan |-> plan[t], bytes |-> bytes])
             /\ retained_bytes' = Charged(n, bytes)
             /\ pc' = [pc EXCEPT ![t] = "done"]
             /\ UNCHANGED <<request, plan>>

\* The decoder drops its reference.
Finish(t) ==
    /\ pc[t] = "done"
    /\ pc' = [pc EXCEPT ![t] = "idle"]
    /\ plan' = [plan EXCEPT ![t] = NoPlan]
    /\ UNCHANGED <<entries, retained_bytes, request>>

Init ==
    /\ entries = <<>> /\ retained_bytes = 0
    /\ pc = [t \in Threads |-> "idle"]
    /\ request \in [Threads -> {CHOOSE r \in Requests : TRUE}]
    /\ plan = [t \in Threads |-> NoPlan]

Next ==
    \E t \in Threads :
       \/ \E r \in Requests : Request(t, r)
       \/ Lookup(t)
       \/ Build(t)
       \/ Insert(t)
       \/ Finish(t)

Spec == Init /\ [][Next]_vars

-----------------------------------------------------------------------------
(***************************************************************************)
(* Properties.                                                             *)
(***************************************************************************)

\* The type invariant; the byte counter cannot underflow.
TypeOK ==
    /\ \A k \in DOMAIN entries : entries[k].bytes \in Nat /\ entries[k].plan # NoPlan
    /\ retained_bytes \in Nat
    /\ pc \in [Threads -> {"idle", "lookup", "build", "insert", "done"}]
    /\ request \in [Threads -> Requests]

\* The byte counter is the sum over the entries, after racing insertions and
\* evictions; neither budget is ever exceeded.  So the loop that makes room stops
\* before the list is empty: expect("cache contains a plan") cannot fire.
\* Threads that build the same plan at the same time leave one entry.
BudgetExact ==
    /\ \A j, k \in DOMAIN entries : j # k => entries[j].key # entries[k].key
    /\ retained_bytes = BytesOf(entries)
    /\ retained_bytes <= MaxBytes
    /\ Len(entries) <= Capacity

\* A thread decodes with a plan of its own shard counts and erasure pattern,
\* whoever built it and whatever was evicted since.
OwnPlan == \A t \in Threads : pc[t] = "done" => plan[t][1] = request[t]
=============================================================================
