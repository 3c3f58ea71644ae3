---------------------------- MODULE DecodeService ----------------------------
(***************************************************************************)
(* What get_data_decode_matrix promises, without a cache: a call names the *)
(* survivor rows, and its answer depends on those rows alone.              *)
(***************************************************************************)
EXTENDS Integers

CONSTANTS
    Threads,    \* threads that reconstruct with the codec
    FullRows,   \* the sets of exactly data_shard_count survivors
    OtherRows,  \* the sets of any other size
    Singular,   \* the survivor sets that have no inverse
    MaxCalls    \* bound on the calls

VARIABLES
    busy,       \* the threads with a call in progress
    survivors,  \* the rows each thread last asked for
    answer,     \* what each thread was last told
    calls       \* calls made so far (bounded by MaxCalls)

svars == <<busy, survivors, answer, calls>>

Inverse(S) ==
    IF S \in Singular
      THEN [status |-> "InvalidCustomMatrix", matrix |-> {}]
      ELSE [status |-> "ok", matrix |-> S]

Init ==
    /\ busy = {}
    /\ survivors = [t \in Threads |-> {}]
    /\ answer = [t \in Threads |-> [status |-> "none", matrix |-> {}]]
    /\ calls = 0

\* A call with another number of survivors is refused at once.
Refuse(t, S) ==
    /\ t \notin busy
    /\ calls < MaxCalls
    /\ calls' = calls + 1
    /\ survivors' = [survivors EXCEPT ![t] = S]
    /\ answer' = [answer EXCEPT ![t] = [status |-> "TooFewShardsPresent", matrix |-> {}]]
    /\ UNCHANGED busy

Call(t, S) ==
    /\ t \notin busy
    /\ calls < MaxCalls
    /\ calls' = calls + 1
    /\ busy' = busy \cup {t}
    /\ survivors' = [survivors EXCEPT ![t] = S]
    /\ answer' = [answer EXCEPT ![t] = [status |-> "none", matrix |-> {}]]

Respond(t) ==
    /\ t \in busy
    /\ busy' = busy \ {t}
    /\ answer' = [answer EXCEPT ![t] = Inverse(survivors[t])]
    /\ UNCHANGED <<survivors, calls>>

Next ==
    \E t \in Threads :
       \/ \E S \in OtherRows : Refuse(t, S)
       \/ \E S \in FullRows : Call(t, S)
       \/ Respond(t)

Spec == Init /\ [][Next]_svars
=============================================================================
