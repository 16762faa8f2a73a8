---------------------------- MODULE MCHnswGraph ----------------------------
(* A model-checking instance of HnswGraph. *)
EXTENDS HnswGraph, TLC

CONSTANTS i1, i2, i3, i4

MCIds == {i1, i2, i3, i4}
MCSymmetry == Permutations(MCIds)
=============================================================================
