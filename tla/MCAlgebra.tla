----------------------------- MODULE MCAlgebra -----------------------------
(***************************************************************************)
(* The two machines over the small field, in one run: a behaviour is one   *)
(* of CodecConstruct or one of SliceKernels, and subject says of which.    *)
(* They share the tables of GaloisField and no variable; the variables of  *)
(* the machine a behaviour is not about stay as they are.                  *)
(***************************************************************************)
EXTENDS CodecConstruct

CONSTANTS Machines, EnvValues, MaxEnvChanges, Lane, Gf16Chunk, CodeChunk, Coefficients,
          TowerCoefficients, Lengths, ShardLengths, KernelShapes

VARIABLES subject, machine, env, changes, active, reading, generated, parallel, kernelCall

Kernels == INSTANCE SliceKernels WITH Shapes <- KernelShapes, call <- kernelCall

ASSUME KernelsFit == Kernels!KernelAssumption

kernelVars ==
    <<machine, env, changes, active, reading, generated, parallel, kernelCall>>

MCInit ==
    \/ /\ subject = "codec"
       /\ Init
       /\ Kernels!InitOn(CHOOSE m \in Machines : TRUE, CHOOSE v \in EnvValues : TRUE)
    \/ /\ subject = "kernels"
       /\ Kernels!Init
       /\ platform = [byteField |-> TRUE, bigEndian |-> FALSE]
       /\ codec = NoCodec
       /\ call = NoCall
       /\ stored = NoFormat

MCNext ==
    \/ subject = "codec" /\ Next /\ UNCHANGED <<subject, kernelVars>>
    \/ subject = "kernels" /\ Kernels!Next /\ UNCHANGED <<subject, vars>>

MCSpec == MCInit /\ [][MCNext]_<<subject, vars, kernelVars>>

(* Every path that multiplies computes the field its polynomial defines:   *)
(* the scalar operations of both fields (CodecConstruct) and the slice     *)
(* kernels of every back end, width and tail (SliceKernels).               *)
ArithmeticIsTheFields == FieldLaws /\ Kernels!KernelsPointwise

(* The invariant of SliceKernels on the choice of a back end; it is stated *)
(* and explained there.                                                    *)
OverrideHonoured == Kernels!OverrideHonoured

----------------------------------------------------------------------------
(* Every small shape, and counts around each family's limits.              *)
MCShapes ==
    (0 .. 4) \X (0 .. 3)
    \cup {<<9, 6>>, <<8, 8>>, <<14, 2>>, <<15, 1>>, <<15, 2>>, <<9, 9>>, <<7, 9>>,
          <<16, 1>>, <<200, 40>>, <<240, 16>>, <<120, 129>>, <<128, 128>>}

MCStoredShapes == {<<2, 1>>, <<2, 2>>}

(* A field without a stable format, one that declares a width of two, one  *)
(* whose hooks disagree on the width, one of width zero.                   *)
MCCustomHooks ==
    { [id |-> << >>, width |-> 0, written |-> 0],
      [id |-> <<3, 2>>, width |-> 2, written |-> 2],
      [id |-> <<3, 2>>, width |-> 2, written |-> 1],
      [id |-> <<3, 2>>, width |-> 0, written |-> 0] }

MCCustomShapes == {<<2, 2>>, <<3, 2>>, <<2, 1>>, <<0, 1>>, <<1, 0>>, <<16, 1>>}

(* Coefficients from {0, 1, 7}, and matrices with too few rows or columns. *)
MCCustomRows(s) ==
    IF s[1] \notin 1 .. 3 THEN {<< <<1>> >>}
    ELSE [1 .. s[2] -> [1 .. s[1] -> {0, 1, 7}]]
         \cup {<< >>, <<[i \in 1 .. s[1] - 1 |-> 1], [i \in 1 .. s[1] |-> 1]>>}

----------------------------------------------------------------------------
(* Builds and CPUs that reach every back end and every generated encoder.  *)
X86 == {"ssse3", "avx2", "avx512", "gfni_avx2", "gfni_avx512"}

MCMachines ==
    { [arch |-> "x86", built |-> X86, pr1 |-> FALSE,
       features |-> {"ssse3", "avx2", "avx512f", "avx512bw", "gfni"}],
      [arch |-> "x86", built |-> X86, pr1 |-> TRUE,
       features |-> {"ssse3", "avx2", "gfni"}],
      [arch |-> "x86", built |-> X86, pr1 |-> TRUE, features |-> {"ssse3", "avx2"}],
      [arch |-> "x86", built |-> X86, pr1 |-> FALSE, features |-> {"ssse3", "avx512f"}],
      [arch |-> "x86", built |-> {"ssse3", "avx512"}, pr1 |-> FALSE,
       features |-> {"ssse3", "avx2", "avx512f", "avx512bw"}],
      [arch |-> "aarch64", built |-> {"neon"}, pr1 |-> FALSE, features |-> {"neon"}],
      [arch |-> "ppc64", built |-> {"vsx"}, pr1 |-> FALSE, features |-> {"vsx"}] }

MCTowerCoefficients == {<<0, 3>>, <<1, 0>>, <<9, 14>>}

MCKernelShapes == {<<4, 2>>, <<5, 2>>, <<6, 3>>}
=============================================================================
