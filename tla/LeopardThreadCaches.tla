------------------------- MODULE LeopardThreadCaches --------------------------
(***************************************************************************)
(* The thread-local caches of the Leopard codecs, on one thread: the       *)
(* TwoEntryCaches of encoding plans and work buffers, which are checked out*)
(* while an operation runs; the single decode workspace of GF(2^16); and   *)
(* the borrowed plan and workspace of GF(2^8) decoding.  An operation may  *)
(* start another one on the same thread before it returns, from the shard  *)
(* views it is given or from a stolen job, and may unwind.                 *)
(*                                                                         *)
(* A resource is [id, key, bytes]: id is which allocation it is, key what  *)
(* it was made for.                                                        *)
(***************************************************************************)
EXTENDS Integers, Sequences, SequencesExt

CONSTANTS
    Programs,       \* sets of operations: "encode", "decode8", "decode16"
    Shapes,         \* [plan, work]: keys of the resources a call needs
    PlanBytes, WorkBytes,   \* key -> bytes
    Growth,         \* bytes by which a call's scratch may outgrow its estimate
    MaxPlanBytes, MaxWorkBytes,
    Depth           \* bound on nested operations

Plans == {s.plan : s \in Shapes}
Works == {s.work : s \in Shapes}

\* What the constants have to satisfy.
CacheAssumption ==
    /\ \A p \in Programs : p \subseteq {"encode", "decode8", "decode16"}
    /\ PlanBytes \in [Plans -> Nat] /\ WorkBytes \in [Works -> Nat]
    /\ Growth \subseteq Nat /\ MaxPlanBytes \in Nat /\ MaxWorkBytes \in Nat
    /\ Depth \in Nat

VARIABLES
    ops,        \* the operations the thread's program uses
    plans,      \* ENCODE_PLAN_CACHE: entries, newest first
    works,      \* ENCODE_BUFFER_CACHE, FLAT_WORK16_CACHE
    slot16,     \* DECODE_BUFFER_CACHE: at most one workspace
    cache8,     \* DECODE_CACHE: [borrowed, plan, work]
    stack       \* the operations in progress, innermost last

vars == <<ops, plans, works, slot16, cache8, stack>>

None == <<>>
Top == stack[Len(stack)]
Pop == SubSeq(stack, 1, Len(stack) - 1)

-----------------------------------------------------------------------------
(***************************************************************************)
(* Resources.                                                              *)
(***************************************************************************)
Held(x) == IF x = None THEN {} ELSE {x}
Entries(cache) == {cache[k] : k \in DOMAIN cache}
InCaches == Entries(plans) \cup Entries(works) \cup Held(slot16)
              \cup Held(cache8.plan) \cup Held(cache8.work)
InFrames == UNION {Held(stack[k].plan) \cup Held(stack[k].work) : k \in DOMAIN stack}
UsedIds == {r.id : r \in InCaches \cup InFrames}

\* A new allocation.
FreshId(taken) == CHOOSE n \in 1 .. Cardinality(taken) + 1 : n \notin taken
NewPlan(key) == [id |-> FreshId(UsedIds), key |-> key, bytes |-> PlanBytes[key]]
NewWork(key) == [id |-> FreshId(UsedIds \cup {FreshId(UsedIds)}), key |-> key,
                 bytes |-> WorkBytes[key]]

\* The positions of a key; there is at most one.
Find(cache, key) == {k \in DOMAIN cache : cache[k].key = key}

\* take: the resource of a key, or a new one, and what is left of the cache.
TakeOr(cache, key, new) ==
    IF Find(cache, key) = {} THEN new ELSE cache[Min(Find(cache, key))]
Taken(cache, key) ==
    IF Find(cache, key) = {} THEN cache ELSE RemoveAt(cache, Min(Find(cache, key)))

\* insert: an oversized resource is dropped; otherwise it comes first and the
\* newest entry of another key that fits beside it is kept.
Inserted(cache, r, max) ==
    LET keep == {k \in DOMAIN cache : cache[k].key # r.key /\ cache[k].bytes <= max - r.bytes}
    IN  IF r.bytes > max THEN cache
        ELSE IF keep = {} THEN <<r>> ELSE <<r, cache[Min(keep)]>>

-----------------------------------------------------------------------------
(***************************************************************************)
(* Operations.                                                             *)
(***************************************************************************)
\* leopard_work_cache_fits, cacheable_decode_size
Cacheable(key) == WorkBytes[key] <= MaxWorkBytes

\* Whether a decode resource is kept.
Fits(bytes, max) == bytes <= max

Frame(op, s, plan, work, cacheable, holds) ==
    [op |-> op, shape |-> s, plan |-> plan, work |-> work,
     cacheable |-> cacheable, holds |-> holds]

Enter(frame) == stack' = Append(stack, frame)

\* encode_with_tables: an oversized call uses only local resources.
BeginEncode(s) ==
    LET cacheable == Cacheable(s.work)
        plan == IF cacheable THEN TakeOr(plans, s.plan, NewPlan(s.plan)) ELSE NewPlan(s.plan)
        work == IF cacheable THEN TakeOr(works, s.work, NewWork(s.work)) ELSE NewWork(s.work)
    IN /\ "encode" \in ops /\ Len(stack) < Depth
       /\ Enter(Frame("encode", s, plan, work, cacheable, FALSE))
       /\ plans' = IF cacheable THEN Taken(plans, s.plan) ELSE plans
       /\ works' = IF cacheable THEN Taken(works, s.work) ELSE works
       /\ UNCHANGED <<ops, slot16, cache8>>

\* The buffers are returned at their real size, then the plan.
EndEncode(grown) ==
    /\ stack # <<>> /\ Top.op = "encode"
    /\ stack' = Pop
    /\ works' = IF Top.cacheable
                  THEN Inserted(works, [Top.work EXCEPT !.bytes = WorkBytes[Top.work.key] + grown],
                                MaxWorkBytes)
                  ELSE works
    /\ plans' = IF Top.cacheable THEN Inserted(plans, Top.plan, MaxPlanBytes) ELSE plans
    /\ UNCHANGED <<ops, slot16, cache8>>

\* with_decode_buffers: a workspace of another size is dropped.
BeginDecode16(s) ==
    LET cacheable == Cacheable(s.work)
        reuse == cacheable /\ slot16 # None /\ slot16.key = s.work
    IN /\ "decode16" \in ops /\ Len(stack) < Depth
       /\ Enter(Frame("decode16", s, None, IF reuse THEN slot16 ELSE NewWork(s.work),
                      cacheable, FALSE))
       /\ slot16' = IF cacheable THEN None ELSE slot16
       /\ UNCHANGED <<ops, plans, works, cache8>>

EndDecode16 ==
    /\ stack # <<>> /\ Top.op = "decode16"
    /\ stack' = Pop
    /\ slot16' = IF Top.cacheable /\ Fits(Top.work.bytes, MaxWorkBytes) THEN Top.work ELSE slot16
    /\ UNCHANGED <<ops, plans, works, cache8>>

\* Mutant: a nested call uses the cache as well.
BorrowIgnored(s) == FALSE

\* with_decode_resources while an outer call holds the borrow.
BorrowTaken(s) == cache8.borrowed

Matches(r, key) == r # None /\ r.key = key

BeginDecode8(s) ==
    LET plan_fits == Matches(cache8.plan, s.plan) \/ Fits(PlanBytes[s.plan], MaxPlanBytes)
        work_fits == Matches(cache8.work, s.work) \/ Fits(WorkBytes[s.work], MaxWorkBytes)
        plan == IF Matches(cache8.plan, s.plan) THEN cache8.plan ELSE NewPlan(s.plan)
        work == IF Matches(cache8.work, s.work) THEN cache8.work ELSE NewWork(s.work)
    IN /\ "decode8" \in ops /\ Len(stack) < Depth
       /\ \/ /\ BorrowTaken(s)
             /\ Enter(Frame("decode8", s, NewPlan(s.plan), NewWork(s.work), FALSE, FALSE))
             /\ UNCHANGED cache8
          \/ /\ ~ BorrowTaken(s) /\ ~ plan_fits
             /\ Enter(Frame("decode8", s, NewPlan(s.plan), NewWork(s.work), FALSE, TRUE))
             /\ cache8' = [cache8 EXCEPT !.borrowed = TRUE]
          \/ /\ ~ BorrowTaken(s) /\ plan_fits
             /\ Enter(Frame("decode8", s, plan, work, TRUE, TRUE))
             /\ cache8' = [borrowed |-> TRUE, plan |-> plan,
                           work |-> IF work_fits THEN work ELSE cache8.work]
       /\ UNCHANGED <<ops, plans, works, slot16>>

EndDecode8 ==
    /\ stack # <<>> /\ Top.op = "decode8"
    /\ stack' = Pop
    /\ cache8' = IF Top.holds THEN [cache8 EXCEPT !.borrowed = FALSE] ELSE cache8
    /\ UNCHANGED <<ops, plans, works, slot16>>

\* The innermost operation panics: what it had checked out is dropped, what it
\* had borrowed is released.
Unwind ==
    /\ stack # <<>>
    /\ stack' = Pop
    /\ cache8' = IF Top.holds THEN [cache8 EXCEPT !.borrowed = FALSE] ELSE cache8
    /\ UNCHANGED <<ops, plans, works, slot16>>

Init ==
    /\ ops \in Programs
    /\ plans = <<>> /\ works = <<>>
    /\ slot16 = None
    /\ cache8 = [borrowed |-> FALSE, plan |-> None, work |-> None]
    /\ stack = <<>>

Next ==
    \/ \E s \in Shapes : BeginEncode(s)
    \/ \E grown \in Growth : EndEncode(grown)
    \/ \E s \in Shapes : BeginDecode16(s)
    \/ EndDecode16
    \/ \E s \in Shapes : BeginDecode8(s)
    \/ EndDecode8
    \/ Unwind

Spec == Init /\ [][Next]_vars

-----------------------------------------------------------------------------
(***************************************************************************)
(* Properties.                                                             *)
(***************************************************************************)
ResourceType(keys) == [id : Nat, key : keys, bytes : Nat]

\* The type invariant; TwoEntryCache has room for two.
TypeOK ==
    /\ ops \in Programs
    /\ Len(plans) <= 2 /\ Entries(plans) \subseteq ResourceType(Plans)
    /\ Len(works) <= 2 /\ Entries(works) \subseteq ResourceType(Works)
    /\ Held(slot16) \cup Held(cache8.work) \subseteq ResourceType(Works)
    /\ Held(cache8.plan) \subseteq ResourceType(Plans)
    /\ cache8.borrowed \in BOOLEAN
    /\ Len(stack) <= Depth

\* However operations nest, end and unwind: an allocation is used by one
\* operation at a time, and what lies in a cache is used by none, but for the
\* GF(2^8) decoder that has borrowed its cache.  That cache is borrowed exactly
\* while an operation holds it, after panics too; otherwise every later call
\* would run without it.
OneUser ==
    /\ cache8.borrowed <=> \E k \in DOMAIN stack : stack[k].holds
    /\ \A j, k \in DOMAIN stack : j # k =>
         /\ stack[j].work.id # stack[k].work.id
         /\ stack[j].plan # None /\ stack[k].plan # None => stack[j].plan.id # stack[k].plan.id
    /\ \A k \in DOMAIN stack : \A r \in Held(stack[k].plan) \cup Held(stack[k].work) :
         (\E x \in InCaches : x.id = r.id) => stack[k].op = "decode8" /\ stack[k].holds

\* An operation computes with the plan of its own shard counts and pattern and
\* in buffers of its own dimensions, whoever made them.
OwnShape ==
    \A k \in DOMAIN stack :
      /\ stack[k].work.key = stack[k].shape.work
      /\ stack[k].plan # None => stack[k].plan.key = stack[k].shape.plan

CachedBytes(cache) ==
    LET sum[n \in 0 .. Len(cache)] == IF n = 0 THEN 0 ELSE sum[n - 1] + cache[n].bytes
    IN  sum[Len(cache)]

\* No cache keeps more than its budget, also when scratch has grown while it
\* was checked out; and a nested operation that returned the same key first
\* leaves no second entry.
BudgetsRespected ==
    /\ \A cache \in {plans, works} : Len(cache) = 2 => cache[1].key # cache[2].key
    /\ CachedBytes(plans) <= MaxPlanBytes /\ CachedBytes(works) <= MaxWorkBytes
    /\ \A r \in Held(slot16) \cup Held(cache8.work) : r.bytes <= MaxWorkBytes
    /\ \A r \in Held(cache8.plan) : r.bytes <= MaxPlanBytes
=============================================================================
