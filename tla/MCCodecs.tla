------------------------------ MODULE MCCodecs ------------------------------
(***************************************************************************)
(* The codecs of both families in one run: a behaviour is one of the       *)
(* matrix codecs (MCClassicReconstruct), of the Leopard codecs             *)
(* (LeopardFftCodec) or of the kernels beneath them (LeopardKernels), and  *)
(* codecs says of which.  They share no variable; the ones a behaviour is  *)
(* not about stay as they are.  So every behaviour is one of MCSpec, which *)
(* the theorems about the matrix codecs speak of, with steps of others     *)
(* between its own.                                                        *)
(*                                                                         *)
(* The transforms run over the field of 16 elements, for shapes that have  *)
(* one group or several, whole or partial, transforms of every size up to  *)
(* the field's, and padding between the parity and its power of two.       *)
(***************************************************************************)
EXTENDS MCClassicReconstruct, LeopardFftCodec

CONSTANTS Lane, Machines, GFNI_LAYOUT_MIN_BYTES, NOSTD_AVX2_MIN_BYTES,
          NOSTD_AVX2_BUTTERFLY_MIN_LEN, BlockCounts, SliceLengths

VARIABLES codecs, machine, kernelCall

Registers == INSTANCE LeopardKernels WITH call <- kernelCall

ASSUME Registers!KernelAssumption

matrixVars == <<subject, vars, progressiveVars>>
kernelVars == <<machine, kernelCall>>

CodecsInit ==
    /\ codecs \in {"matrix", "leopard", "kernels"}
    /\ MCInit
    /\ codecs # "matrix" => subject = "progressive" /\ ~singular
    /\ FftInit
    /\ Registers!Init
    /\ codecs # "kernels" => machine = CHOOSE m \in Machines : TRUE

CodecsNext ==
    \/ codecs = "matrix" /\ MCNext /\ UNCHANGED <<codecs, fftVars, kernelVars>>
    \/ codecs = "leopard" /\ FftNext /\ UNCHANGED <<codecs, matrixVars, kernelVars>>
    \/ codecs = "kernels" /\ Registers!Next /\ UNCHANGED <<codecs, matrixVars, fftVars>>

CodecsSpec == CodecsInit /\ [][CodecsNext]_<<codecs, matrixVars, fftVars, kernelVars>>

(* What the Leopard codecs compute is the code: every shard an operation   *)
(* publishes is that of the one codeword, whatever the matrix cache held   *)
(* before (LeopardFftCodec), and the conversions, products, butterflies    *)
(* and transforms under it are the field's on every machine, register by   *)
(* register (LeopardKernels).                                              *)
LeopardIsTheCode == PublishedIsCode /\ OwnMatrices /\ Registers!KernelsExact

----------------------------------------------------------------------------
MCBasis == <<1, 6, 2, 10>>

(* <<2, 9>> needs more than the field's points for its parity, <<13, 4>>   *)
(* for parity and data together.                                           *)
MCShapes == {<<1, 1>>, <<3, 1>>, <<2, 2>>, <<5, 2>>, <<4, 3>>, <<9, 3>>,
             <<3, 5>>, <<8, 5>>, <<12, 4>>, <<2, 9>>, <<13, 4>>}

(* Every set of missing shards of a small shape, and one too many; every   *)
(* largest one of a middle shape; of a large shape runs of neighbours and  *)
(* the sets of every third shard.                                          *)
MCErasures(s) ==
    LET n == s[1] + s[2]
        all == 0 .. n - 1
    IN  CASE n <= 4 -> {e \in SUBSET all : Cardinality(e) <= s[2] + 1}
          [] n \in 5 .. 7 -> {e \in SUBSET all : Cardinality(e) = s[2]}
          [] OTHER -> {{i \in all : i \in 2 * a .. 2 * a + k - 1} :
                            a \in 0 .. n \div 2, k \in {1, s[2]}}
                      \cup {{i \in all : i % 3 = a /\ i \div 3 < s[2]} : a \in 0 .. 2}

(* Lengths that are rejected, and one that ends in a short chunk.          *)
MCShardLengths(family) == {0, 6, 12}

----------------------------------------------------------------------------
(* Builds and CPUs that reach every kernel and every fallback.             *)
MCMachines ==
    { [arch |-> "x86_64", std |-> TRUE, bigEndian |-> FALSE, gfni |-> TRUE,
       features |-> {"avx2", "ssse3", "gfni"}],
      [arch |-> "x86_64", std |-> TRUE, bigEndian |-> FALSE, gfni |-> FALSE,
       features |-> {"avx2", "ssse3", "gfni"}],
      [arch |-> "x86_64", std |-> TRUE, bigEndian |-> FALSE, gfni |-> FALSE,
       features |-> {"ssse3"}],
      [arch |-> "x86_64", std |-> TRUE, bigEndian |-> FALSE, gfni |-> FALSE, features |-> {}],
      [arch |-> "x86_64", std |-> FALSE, bigEndian |-> FALSE, gfni |-> FALSE,
       features |-> {"avx2", "ssse3"}],
      [arch |-> "x86_64", std |-> FALSE, bigEndian |-> FALSE, gfni |-> FALSE, features |-> {}],
      [arch |-> "aarch64", std |-> TRUE, bigEndian |-> FALSE, gfni |-> FALSE, features |-> {}],
      [arch |-> "aarch64", std |-> TRUE, bigEndian |-> TRUE, gfni |-> FALSE, features |-> {}],
      [arch |-> "other", std |-> TRUE, bigEndian |-> TRUE, gfni |-> FALSE, features |-> {}],
      [arch |-> "other", std |-> FALSE, bigEndian |-> FALSE, gfni |-> FALSE, features |-> {}] }
=============================================================================
