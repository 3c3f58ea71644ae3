------------------------ MODULE MCLeopardReconstruct -------------------------
(***************************************************************************)
(* Leopard reconstruction and the caches its decoders and the encoders     *)
(* draw from, in one run: a behaviour is one of the array of a call        *)
(* (LeopardReconstruct), of a thread's own caches (LeopardThreadCaches) or *)
(* of the process-wide plan cache (DecodePlanCache), and subject says of   *)
(* which.  They share no variable; the ones a behaviour is not about stay  *)
(* as they are.                                                            *)
(*                                                                         *)
(* Two data and two parity shards.  Lengths stand for multiples of 64      *)
(* bytes; with eight bytes of inline scratch the lengths 2, 4 and 6 take   *)
(* the small, the packed and the heap layout.  Plans and buffers of a      *)
(* thread have 2, 3 and 9 bytes under budgets of 5: two fit together       *)
(* unless scratch has grown, and one is oversized.                         *)
(***************************************************************************)
EXTENDS LeopardReconstruct, TLC

CONSTANTS Programs, CacheShapes, PlanBytes, WorkBytes, Growth, MaxPlanBytes, MaxWorkBytes, Depth,
          PlanThreads, Requests, RequestBytes, Capacity, MaxBytes

VARIABLES subject,
          ops, plans, works, slot16, cache8, stack,
          entries, retained_bytes, stage, request, plan

Thread == INSTANCE LeopardThreadCaches WITH Shapes <- CacheShapes
Global == INSTANCE DecodePlanCache
    WITH Threads <- PlanThreads, PlanBytes <- RequestBytes, pc <- stage

ASSUME ThreadAssumption == Thread!CacheAssumption
ASSUME GlobalAssumption == Global!PlanCacheAssumption

threadVars == <<ops, plans, works, slot16, cache8, stack>>
globalVars == <<entries, retained_bytes, stage, request, plan>>

MCInit ==
    /\ Init
    /\ Thread!Init
    /\ Global!Init
    /\ \/ subject = "array" /\ ops = CHOOSE p \in Programs : TRUE
       \/ /\ subject \in {"thread", "process"}
          /\ container = CHOOSE c \in Containers : TRUE
          /\ \A i \in DOMAIN shards : shards[i].present
          /\ inline /\ stripe_len = CHOOSE n \in StripeLens : TRUE
          /\ Cardinality(DOMAIN shards) = CHOOSE n \in ShardCounts : TRUE
          /\ subject = "process" => ops = CHOOSE p \in Programs : TRUE

MCNext ==
    \/ subject = "array" /\ Next /\ UNCHANGED <<subject, threadVars, globalVars>>
    \/ subject = "thread" /\ Thread!Next /\ UNCHANGED <<subject, vars, globalVars>>
    \/ subject = "process" /\ Global!Next /\ UNCHANGED <<subject, vars, threadVars>>

MCSpec == MCInit /\ [][MCNext]_<<subject, vars, threadVars, globalVars>>

(* What an operation computes with is its own: an allocation nobody else   *)
(* uses, of its own shape (LeopardThreadCaches), and the decode plan of    *)
(* its own counts and erasures (DecodePlanCache), whatever the caches held.*)
OwnResources ==
    /\ Thread!OneUser
    /\ Thread!OwnShape
    /\ Global!OwnPlan

(* No cache keeps more than its budgets, nor two entries of one key, after *)
(* nested, unwound and racing calls: those of a thread                     *)
(* (LeopardThreadCaches) and the plan cache, whose byte counter is exact   *)
(* (DecodePlanCache).                                                      *)
CachesBounded == Thread!BudgetsRespected /\ Global!BudgetExact

-----------------------------------------------------------------------------
\* All, data only, one parity, the outer two, and a mask of a wrong length.
FiveMasks == {[len |-> 4, set |-> 0 .. 3], [len |-> 2, set |-> {0, 1}],
              [len |-> 4, set |-> {2}], [len |-> 4, set |-> {0, 3}],
              [len |-> 3, set |-> {0}]}

(* One plan with two buffer sizes, two plans with one, an oversized buffer *)
(* with a plan in common with others, and an oversized plan.               *)
FiveShapes == {[plan |-> "p", work |-> "a"], [plan |-> "p", work |-> "b"],
               [plan |-> "q", work |-> "b"], [plan |-> "p", work |-> "big"],
               [plan |-> "huge", work |-> "a"]}
PlanSizes == [p |-> 2, q |-> 3, huge |-> 9]
WorkSizes == [a |-> 2, b |-> 3, big |-> 9]
(* Encoding and decoding use different caches: a program of both adds no   *)
(* order of accesses to either.                                            *)
TwoPrograms == {{"encode"}, {"decode8", "decode16"}}

(* Three small plans, of one codec and of another, a large one, and one    *)
(* that is above the budget.                                               *)
FiveRequests == {[counts |-> "c", present |-> "x"], [counts |-> "c", present |-> "y"],
                 [counts |-> "d", present |-> "x"], [counts |-> "d", present |-> "y"],
                 [counts |-> "d", present |-> "z"]}
Sizes == [r \in FiveRequests |->
            CASE r.present = "x" -> 1
              [] r.counts = "c" /\ r.present = "y" -> 1
              [] r.counts = "d" /\ r.present = "y" -> 3
              [] r.present = "z" -> 9]
ThreadSymmetry == Permutations(PlanThreads)
=============================================================================
