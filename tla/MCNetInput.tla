----------------------------- MODULE MCNetInput -----------------------------
(* Small instances of NetInput for TLC. *)
EXTENDS NetInput, TLC

CONSTANTS b1, b2, b3, b4, b5

ThreeBuffers == {b1, b2, b3}
FiveBuffers == {b1, b2, b3, b4, b5}
BufferSymmetry == Permutations(Buffers)
=============================================================================
