---------------------------- MODULE MCStreamCodec ----------------------------
(* Instances of StreamCodec for TLC: two data and two parity streams,      *)
(* blocks of two bytes, streams of up to two blocks.                       *)
EXTENDS StreamCodec

AllOps == {"encode", "verify", "reconstruct", "reconstruct_cursors"}

\* Empty, ending within the second block, and two whole blocks.
ThreeLengths == {0, 3, 4}
=============================================================================
