-------------------------- MODULE MCBatchSearcher --------------------------
(* A model-checking instance of BatchSearcher. *)
EXTENDS BatchSearcher

CONSTANTS c1, c2

MCCallers == {c1, c2}
=============================================================================
