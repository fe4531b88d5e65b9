---------------------------- MODULE MCRingBuffer ----------------------------
(* Small instances of RingBuffer for TLC.                                  *)
EXTENDS RingBuffer, TLC

CONSTANTS w1, w2

Symmetry == Permutations(Words)
=============================================================================
