------------------------- MODULE MCClassicReconstruct -------------------------
(***************************************************************************)
(* The two ways a matrix codec recovers shards, in one run: a behaviour is *)
(* one of ClassicReconstruct or one of ProgressiveDecode, and subject says *)
(* of which.  They share no variable; those of the one a behaviour is not  *)
(* about stay as they are.                                                 *)
(*                                                                         *)
(* ClassicReconstruct: five shards in a 3+2 layout under two matrices and  *)
(* in a 2+3 layout, with inline room for two survivors.  ProgressiveDecode:*)
(* a 3+2 codec that lost shards 0 and 4, two workers, four batches, one of *)
(* them empty.                                                             *)
(***************************************************************************)
EXTENDS ClassicReconstruct

CONSTANTS TotalShards, DataShards, Survivors, WrongMasks, Destinations, Workers, Main, Jobs,
          MaxBreaks, MaxDecodes

VARIABLES subject, singular, dst, done, merged, answer, breaks, decodes

Idx == INSTANCE ProgressiveDecode
    WITH MaxEdits <- MaxBreaks, MaxCalls <- MaxDecodes,
         result <- answer, edits <- breaks, calls <- decodes

ASSUME ProgressiveAssumption == Idx!RecoveryAssumption /\ Idx!JobAssumption

progressiveVars == <<singular, dst, done, merged, answer, breaks, decodes>>

MCInit ==
    /\ Init
    /\ Idx!Init
    /\ \/ subject = "classic" /\ ~singular
       \/ /\ subject = "progressive"
          /\ container = CHOOSE c \in Containers : TRUE
          /\ codec = CHOOSE c \in Codecs : TRUE
          /\ \A i \in DOMAIN shards : shards[i].present

MCNext ==
    \/ subject = "classic" /\ Next /\ UNCHANGED <<subject, progressiveVars>>
    \/ subject = "progressive" /\ Idx!Next /\ UNCHANGED <<subject, vars>>

MCSpec == MCInit /\ [][MCNext]_<<subject, vars, progressiveVars>>

(* The invariant of ProgressiveDecode; it is stated and explained there.   *)
HoldsWhatWasAccepted == Idx!HoldsWhatWasAccepted

-----------------------------------------------------------------------------
Format(d, p, m, f) == [data |-> d, parity |-> p, matrix |-> m, family |-> f]

FourFormats == {Format(3, 2, "vandermonde", "Classic"), Format(3, 2, "custom", "Classic"),
                Format(2, 3, "vandermonde", "Classic"), Format(3, 2, "fft", "Leopard")}

\* Shards 1, 2 and 4 of the custom format have no inverse.
OneSingular == {<<"custom", {1, 2, 4}>>}

\* A data mask for the 3+2 layouts, a complete one, and one of neither length.
ThreeMasks == {[len |-> 3, set |-> {0}], [len |-> 5, set |-> {1, 4}], [len |-> 4, set |-> {0}]}

FourJobs == {[worker |-> "main", inputs |-> {1}],
             [worker |-> "main", inputs |-> {}],
             [worker |-> "peer", inputs |-> {2, 4}],
             [worker |-> "peer", inputs |-> {0, 3}]}

\* One shard too many, one too few.
TwoWrongMasks == {{1, 2, 3, 4}, {1, 2}}
=============================================================================
