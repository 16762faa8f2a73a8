-------------------------- MODULE MCSearchExecutor --------------------------
(* Model-checking instances of SearchExecutor. *)
EXTENDS SearchExecutor

CONSTANTS t1, t2, o1

MCTasks == {t1, t2}
MCOwners == {o1}
MCDeadlined == {t1}
MCNoneDeadlined == {}
=============================================================================
